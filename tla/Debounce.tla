----------------------------- MODULE Debounce -----------------------------
(***************************************************************************)
(* The debounce test of gpio_isr_handler in gpio.c, over a history of      *)
(* edges of the button.  Ticks count modulo TickRange, which is 2^32 on    *)
(* the device.  An edge comes at some time since boot; the handler reads   *)
(* the tick count for the test, and once more, `later' ticks after it, for *)
(* xLastTrigger.                                                           *)
(***************************************************************************)
EXTENDS Integers, Sequences

CONSTANT TickRange

ASSUME TickAssumption == TickRange \in Nat \ {0}

DEBOUNCE_THRESHOLD == 70

\* The test: the edge is a press, which is sent to the task.
IsPress(xLastTrigger, edge) ==
    ((edge.at % TickRange) - xLastTrigger) % TickRange > DEBOUNCE_THRESHOLD

HandleMutant(xLastTrigger, edge) ==     \* mutant: every edge moves xLastTrigger
    (edge.at + edge.later) % TickRange

\* What one run of the handler makes of xLastTrigger.
Handle(xLastTrigger, edge) ==
    IF IsPress(xLastTrigger, edge) THEN (edge.at + edge.later) % TickRange ELSE xLastTrigger

\* last[k] is xLastTrigger after k edges; it is 0 when the device boots.
Handled(edges, last) ==
    /\ last[0] = 0
    /\ \A k \in 1..Len(edges) : last[k] = Handle(last[k - 1], edges[k])

Presses(edges, last) == {k \in 1..Len(edges) : IsPress(last[k - 1], edges[k])}

\* When the handler was last done, after k edges.
Since(edges, k) == IF k = 0 THEN 0 ELSE edges[k].at + edges[k].later

\* The handler is done with an edge before it runs for the next one.
OneByOne(edges) ==
    \A k \in 1..Len(edges) :
        /\ edges[k].at \in Nat /\ edges[k].later \in Nat
        /\ Since(edges, k - 1) <= edges[k].at

\* The tick count does not come round between an edge and the next one.
Frequent(edges) ==
    \A k \in 1..Len(edges) :
        edges[k].at - (IF k = 1 THEN 0 ELSE edges[k - 1].at) < TickRange - DEBOUNCE_THRESHOLD

\* gpio_isr_handler: between two presses that count there are more than 70 ticks,
\* across any number of wraps of the tick count.  An edge that does not count came
\* at most 70 ticks behind one that does or behind boot, unless the button was
\* left alone for a whole turn of the tick count.
Debounced(edges, last) ==
    LET presses == Presses(edges, last) IN
    /\ \A j, k \in presses : j < k => edges[k].at - edges[j].at > DEBOUNCE_THRESHOLD
    /\ Frequent(edges) =>
          \A k \in 1..Len(edges) \ presses :
             \/ edges[k].at <= DEBOUNCE_THRESHOLD
             \/ \E j \in presses : /\ j < k
                                   /\ edges[k].at - Since(edges, j) <= DEBOUNCE_THRESHOLD

=============================================================================
