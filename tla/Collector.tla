----------------------------- MODULE Collector -----------------------------
(***************************************************************************)
(* The PC program that collects the packets a device publishes (TP2.py).   *)
(* Two threads share its list: the MQTT thread runs on_message, which adds *)
(* a packet to the list, sorts the list and shows it; the GUI thread runs  *)
(* the menu and button handlers, among them the export to KML and CSV,     *)
(* which reads the list three times.                                       *)
(*                                                                         *)
(* Python switches threads between any two bytecodes; a step here is the   *)
(* treatment of one element of the list, or one line that changes it.      *)
(* While list.sort() runs, other threads see the list empty.  A Tk call    *)
(* made by the MQTT thread is executed by the GUI thread, which it waits   *)
(* for.                                                                    *)
(*                                                                         *)
(* A message is what the parser makes of it: measurements (OK), a packet   *)
(* without data (SKIP), a packet to ignore (WRONG) or one the parser fails *)
(* on with an exception (RAISES).  A packet is known by its place in       *)
(* packets, as Python objects are by their identity.                       *)
(***************************************************************************)
EXTENDS Naturals, Sequences, FiniteSets, SequencesExt

CONSTANTS
    Feed,         \* the messages that may arrive
    Files,        \* the CSV files that may be imported: sequences of messages
    MaxPackets,   \* bound: packets added in a behaviour
    MaxSaves      \* bound: exports in a behaviour

ASSUME FeedAssumption ==
    \A m \in Feed : m.kind \in {"OK", "SKIP", "WRONG", "RAISES"} /\ m.num \in Nat

ASSUME FilesAssumption == \A f \in Files : f \in Seq(Feed)

ASSUME BoundsAssumption == MaxPackets \in Nat /\ MaxSaves \in Nat

VARIABLES
    isConnect, isCollect,
    packets,    \* the packets added or about to be, in order of arrival
    dataList,   \* the list, as other threads see it
    aside,      \* the contents of the list while it is being sorted
    mq,         \* where the MQTT thread is
    gui,        \* where the GUI thread is
    i,          \* its place in the list, while it iterates over it
    ssids,      \* the keys of SSID_dict
    kml,        \* the points of the KML file, with their skip counts
    rows,       \* the rows of the CSV file
    saves,      \* number of exports begun
    cleared,    \* ghost: the packets up to this one were in an earlier list
    outcome,    \* ghost: how the last export ended
    want,       \* ghost: the list when the last export began
    calm        \* ghost: the list has not changed since then

list == <<packets, dataList, aside, cleared>>
export == <<i, ssids, kml, rows, saves, outcome, want>>
vars == <<isConnect, isCollect, list, mq, gui, export, calm>>

MqIdle == mq = "idle"             \* in the network loop
MainLoop == gui = "mainloop"      \* Tk waits for events and executes them

IsOK(p) == packets[p].kind = "OK"

Packet(m, skip) == [kind |-> m.kind, num |-> m.num, net |-> m.net, skip |-> skip]

Fresh(m) == Packet(m, 0)

\* The elements of the finite set S, the one that has no other before it first.
InOrder(S, before) ==
    [k \in 1..Cardinality(S) |->
        CHOOSE x \in S : Cardinality({y \in S : <<y, x>> \in before}) = k - 1]

\* The elements of s at some of its places.
Picked(s, places) ==
    LET order == InOrder(places, {p \in places \X places : p[1] < p[2]})
    IN  [k \in DOMAIN order |-> s[order[k]]]

Init ==
    /\ isConnect = FALSE /\ isCollect = TRUE
    /\ packets = <<>> /\ dataList = <<>> /\ aside = <<>> /\ cleared = 0
    /\ mq = "none" /\ gui = "mainloop"
    /\ i = 1 /\ ssids = {} /\ kml = <<>> /\ rows = <<>>
    /\ saves = 0 /\ outcome = "none" /\ want = <<>> /\ calm = FALSE

-----------------------------------------------------------------------------
(* The MQTT thread *)

\* list.sort(key=packet number), which is stable.
Sorted(s, ps) ==
    LET before == {p \in (DOMAIN s) \X (DOMAIN s) :
                     \/ ps[s[p[1]]].num < ps[s[p[2]]].num
                     \/ ps[s[p[1]]].num = ps[s[p[2]]].num /\ p[1] < p[2]}
        order  == InOrder(DOMAIN s, before)
    IN  [k \in DOMAIN s |-> s[order[k]]]

ReceiveMutant(m) ==     \* mutant: a packet in the wrong format is not dropped
    /\ MqIdle /\ isCollect /\ Len(packets) < MaxPackets
    /\ m.kind # "RAISES"
    /\ packets' = Append(packets, Fresh(m))
    /\ mq' = "append"
    /\ UNCHANGED <<isConnect, isCollect, dataList, aside, cleared, gui, export, calm>>

\* on_message, addData up to line 110.  A message that comes while isCollect is
\* false, and one to ignore, change nothing.
Receive(m) ==
    /\ MqIdle /\ isCollect /\ Len(packets) < MaxPackets
    /\ m.kind \in {"OK", "SKIP"}
    /\ packets' = Append(packets, Fresh(m))
    /\ mq' = "append"
    /\ UNCHANGED <<isConnect, isCollect, dataList, aside, cleared, gui, export, calm>>

\* The parser's exception reaches paho-mqtt, some versions of which log it and
\* some of which let it end the thread.
Garbled(m) ==
    /\ MqIdle /\ isCollect
    /\ m.kind = "RAISES"
    /\ mq' = "dead"
    /\ UNCHANGED <<isConnect, isCollect, list, gui, export, calm>>

\* self.dataList.append(self.data)
AppendData ==
    /\ mq = "append"
    /\ dataList' = Append(dataList, Len(packets))
    /\ mq' = "sort"
    /\ calm' = FALSE
    /\ UNCHANGED <<isConnect, isCollect, packets, aside, cleared, gui, export>>

\* self.dataList.sort(...), which empties the list, sorts, and refills it.
SortBegin ==
    /\ mq = "sort"
    /\ aside' = dataList
    /\ dataList' = <<>>
    /\ mq' = "sorting"
    /\ calm' = FALSE
    /\ UNCHANGED <<isConnect, isCollect, packets, cleared, gui, export>>

SortEnd ==
    /\ mq = "sorting"
    /\ dataList' = Sorted(aside, packets)
    /\ aside' = <<>>
    /\ mq' = "drawing"
    /\ calm' = FALSE
    /\ UNCHANGED <<isConnect, isCollect, packets, cleared, gui, export>>

\* insertToListBox: its Tk calls return when the GUI thread is back in its main
\* loop.  The contents of the list box are left out.
Draw ==
    /\ mq = "drawing" /\ MainLoop
    /\ mq' = "idle"
    /\ UNCHANGED <<isConnect, isCollect, list, gui, export, calm>>

LoopEndMutant ==     \* mutant: the flag is looked at only after collected messages
    /\ MqIdle /\ gui = "joining" /\ isCollect
    /\ mq' = "dead"
    /\ UNCHANGED <<isConnect, isCollect, list, gui, export, calm>>

\* Between two messages the loop sees that loop_stop has been called.
LoopEnd ==
    /\ MqIdle /\ gui = "joining"
    /\ mq' = "dead"
    /\ UNCHANGED <<isConnect, isCollect, list, gui, export, calm>>

-----------------------------------------------------------------------------
(* The GUI thread: connection and collection *)

\* connectMQTT.  client.connect may raise, before loop_start; loop_start does
\* nothing when the client has a thread already, even one that has ended.
Connect ==
    /\ MainLoop
    /\ isConnect' = TRUE /\ isCollect' = TRUE
    /\ mq' \in {mq, IF mq = "none" THEN "idle" ELSE mq}
    /\ UNCHANGED <<list, gui, export, calm>>

DisconnectMutant ==     \* mutant: disconnects without stopping the loop
    /\ MainLoop
    /\ isConnect' = FALSE /\ isCollect' = FALSE
    /\ UNCHANGED <<list, mq, gui, export, calm>>

\* disconnectMQTT up to loop_stop, which joins the thread if there is one.
Disconnect ==
    /\ MainLoop
    /\ isConnect' = FALSE /\ isCollect' = FALSE
    /\ gui' = IF mq = "none" THEN "mainloop" ELSE "joining"
    /\ UNCHANGED <<list, mq, export, calm>>

\* loop_stop returns, and the client disconnects.
Disconnected ==
    /\ gui = "joining" /\ mq = "dead"
    /\ mq' = "none" /\ gui' = "mainloop"
    /\ UNCHANGED <<isConnect, isCollect, list, export, calm>>

NewListMutant ==     \* mutant: clear() instead of a new list
    /\ dataList' = <<>>
    /\ cleared' = IF mq = "append" THEN Len(packets) - 1 ELSE Len(packets)
    /\ UNCHANGED aside

\* A packet on its way to the list goes to the new one.
NewList ==
    /\ dataList' = <<>>
    /\ aside' = <<>>      \* a sort under way ends in the old list
    /\ cleared' = IF mq = "append" THEN Len(packets) - 1 ELSE Len(packets)

\* startCollectData
Start ==
    /\ MainLoop
    /\ NewList
    /\ isCollect' = TRUE
    /\ calm' = FALSE
    /\ UNCHANGED <<isConnect, packets, mq, gui, export>>

\* pauseCollectData; the label of the button is left out.
Pause ==
    /\ MainLoop /\ isConnect
    /\ isCollect' = ~isCollect
    /\ UNCHANGED <<isConnect, list, mq, gui, export, calm>>

\* The rows of a file that addData adds: those before the first exception.
Rows(f) ==
    Picked(f, {k \in DOMAIN f : /\ f[k].kind \in {"OK", "SKIP"}
                               /\ \A j \in 1..k : f[j].kind # "RAISES"})

\* importFile; a dialogue that is cancelled is an empty file.  The user imports
\* only while no MQTT thread runs.
Import(f) ==
    /\ MainLoop /\ mq \in {"none", "dead"}
    /\ Len(packets) + Len(Rows(f)) <= MaxPackets
    /\ cleared' = Len(packets)
    /\ packets' = packets \o [k \in DOMAIN Rows(f) |-> Fresh(Rows(f)[k])]
    /\ dataList' = Sorted([k \in DOMAIN Rows(f) |-> Len(packets) + k], packets')
    /\ calm' = FALSE
    /\ UNCHANGED <<isConnect, isCollect, aside, mq, gui, export>>

-----------------------------------------------------------------------------
(* The GUI thread: export *)

\* genKML up to its loops.  The first packet of the list must have a position,
\* or the attempt ends in an exception.
Save ==
    /\ MainLoop /\ saves < MaxSaves
    /\ dataList # <<>>
    /\ saves' = saves + 1
    /\ want' = dataList
    /\ calm' = (mq \notin {"sort", "sorting"})
    /\ kml' = <<>> /\ rows' = <<>> /\ ssids' = {}
    /\ i' = 1
    /\ IF IsOK(dataList[1])
       THEN gui' = "counting" /\ outcome' = "none"
       ELSE outcome' = "failed" /\ UNCHANGED gui
    /\ UNCHANGED <<isConnect, isCollect, list, mq>>

\* The list iterator of a loop of the export is at its end, for good.
AtEnd == i > Len(dataList)

\* The packet that gets the skipped packet at place j added to its count, if
\* any.  Packets are compared by value: the search starts at the first like it.
Skipper(j) ==
    LET like == SelectInSeq(dataList, LAMBDA p :
                    packets[p].kind = "SKIP" /\ packets[p].num = packets[dataList[j]].num)
    IN  SelectLastInSubSeq(dataList, 1, like - 1, IsOK)

\* The loop that collects the networks and counts the skipped packets.
CountOne ==
    /\ gui = "counting" /\ ~AtEnd
    /\ IF IsOK(dataList[i])
       THEN ssids' = ssids \cup {packets[dataList[i]].net} /\ UNCHANGED packets
       ELSE /\ packets' = IF Skipper(i) = 0 THEN packets
                          ELSE [packets EXCEPT ![dataList[Skipper(i)]].skip = @ + 1]
            /\ UNCHANGED ssids
    /\ i' = i + 1
    /\ UNCHANGED <<isConnect, isCollect, dataList, aside, cleared, mq, gui,
                   kml, rows, saves, outcome, want, calm>>

CountedMutant ==     \* mutant: the next loop starts at the second packet
    /\ gui = "counting" /\ AtEnd
    /\ gui' = "points" /\ i' = 2
    /\ UNCHANGED <<isConnect, isCollect, list, mq, ssids, kml, rows, saves, outcome, want, calm>>

Counted ==
    /\ gui = "counting" /\ AtEnd
    /\ gui' = "points" /\ i' = 1
    /\ UNCHANGED <<isConnect, isCollect, list, mq, ssids, kml, rows, saves, outcome, want, calm>>

\* The loop that makes the points.  A network that is no key of SSID_dict is a
\* KeyError.
PointOne ==
    /\ gui = "points" /\ ~AtEnd
    /\ LET p == dataList[i] IN
       \/ /\ ~IsOK(p)
          /\ UNCHANGED <<kml, gui, outcome>>
       \/ /\ IsOK(p) /\ packets[p].net \in ssids
          /\ kml' = Append(kml, <<p, packets[p].skip>>)
          /\ UNCHANGED <<gui, outcome>>
       \/ /\ IsOK(p) /\ packets[p].net \notin ssids
          /\ gui' = "mainloop" /\ outcome' = "failed"
          /\ UNCHANGED kml
    /\ i' = i + 1
    /\ UNCHANGED <<isConnect, isCollect, list, mq, ssids, rows, saves, want, calm>>

\* kml.save
KmlSaved ==
    /\ gui = "points" /\ AtEnd
    /\ gui' = "csv" /\ i' = 1
    /\ UNCHANGED <<isConnect, isCollect, list, mq, ssids, kml, rows, saves, outcome, want, calm>>

\* genCSV
RowOne ==
    /\ gui = "csv" /\ ~AtEnd
    /\ rows' = Append(rows, dataList[i])
    /\ i' = i + 1
    /\ UNCHANGED <<isConnect, isCollect, list, mq, gui, ssids, kml, saves, outcome, want, calm>>

CsvSaved ==
    /\ gui = "csv" /\ AtEnd
    /\ gui' = "mainloop" /\ outcome' = "saved"
    /\ UNCHANGED <<isConnect, isCollect, list, mq, i, ssids, kml, rows, saves, want, calm>>

-----------------------------------------------------------------------------

Adding == AppendData \/ SortBegin \/ SortEnd
Saving == CountOne \/ Counted \/ PointOne \/ KmlSaved \/ RowOne \/ CsvSaved

Next ==
    \/ \E m \in Feed : Receive(m) \/ Garbled(m)
    \/ Adding \/ Draw \/ LoopEnd
    \/ Connect \/ Disconnect \/ Disconnected \/ Start \/ Pause
    \/ \E f \in Files : Import(f)
    \/ Save \/ Saving

\* Both threads get to run; Tk executes the calls that wait in its event queue
\* in their turn, between two presses of a button.  Nobody has to press one and
\* no message has to come.
Fairness ==
    /\ WF_vars(Adding) /\ WF_vars(LoopEnd)
    /\ WF_vars(Saving) /\ WF_vars(Disconnected)
    /\ SF_vars(Draw)

Spec == Init /\ [][Next]_vars /\ Fairness

-----------------------------------------------------------------------------

TypeOK ==
    /\ isConnect \in BOOLEAN /\ isCollect \in BOOLEAN /\ calm \in BOOLEAN
    /\ Len(packets) <= MaxPackets
    /\ \A p \in DOMAIN packets :
          /\ \E m \in Feed : packets[p] = Packet(m, packets[p].skip)
          /\ packets[p].kind \in {"OK", "SKIP"}
          /\ packets[p].skip \in 0..(MaxPackets * MaxSaves)
    /\ dataList \in Seq(DOMAIN packets) /\ aside \in Seq(DOMAIN packets)
    /\ want \in Seq(DOMAIN packets) /\ rows \in Seq(DOMAIN packets)
    /\ kml \in Seq((DOMAIN packets) \X Nat)
    /\ mq \in {"none", "idle", "append", "sort", "sorting", "drawing", "dead"}
    /\ gui \in {"mainloop", "joining", "counting", "points", "csv"}
    /\ cleared \in 0..Len(packets) /\ i \in 1..(MaxPackets + 1)
    /\ ssids \subseteq {m.net : m \in Feed}
    /\ saves \in 0..MaxSaves /\ outcome \in {"none", "saved", "failed"}

\* Except between an append and the end of its sort, the list is in the order
\* of the packet numbers, and packets with equal numbers in order of arrival.
SortedBetweenPackets ==
    mq \notin {"sort", "sorting"} =>
        IsSorted(dataList, LAMBDA p, q :
            packets[p].num < packets[q].num \/ (packets[p].num = packets[q].num /\ p < q))

\* addData "then add[s] the data from the packet to data list": whatever the
\* buttons do meanwhile, the current list holds each packet taken in since it
\* was started, once and in order, and none from before.
CollectsEachOnce ==
    LET held == dataList \o aside
        due  == {p \in (cleared + 1)..Len(packets) : ~(mq = "append" /\ p = Len(packets))}
    IN  ToSet(held) = due /\ Len(held) = Cardinality(due) /\ SortedBetweenPackets

\* Once disconnectMQTT has returned, no callback is running any more: what is
\* in the list stays as it is until the user does something.
QuietWhenDisconnected ==
    MainLoop /\ ~isConnect => mq = "none"

\* How many skipped packets follow the measurements p in the list s.
SkippedAfter(p, s) ==
    LET at   == SelectInSeq(s, LAMBDA q : q = p)
        next == SelectInSubSeq(s, at + 1, Len(s), IsOK)
    IN  (IF next = 0 THEN Len(s) + 1 ELSE next) - at - 1

\* genKML: "calculate skipped meassurements at 1 location".  Each point of the
\* file tells how many packets were skipped after it.
SkipsCounted == \A k \in DOMAIN kml : kml[k][2] = SkippedAfter(kml[k][1], want)

\* An export that no packet disturbs, of a list that begins with measurements,
\* succeeds: the KML file has its measurements and the CSV file all its packets,
\* each once and in order; and if it is the first one, its counts of skipped
\* packets are right.
UndisturbedSaveIsComplete ==
    /\ MainLoop /\ saves > 0 /\ calm /\ IsOK(want[1]) =>
        /\ outcome = "saved"
        /\ [k \in DOMAIN kml |-> kml[k][1]] = Picked(want, {j \in DOMAIN want : IsOK(want[j])})
        /\ rows = want
    /\ saves = 1 /\ outcome = "saved" /\ calm => SkipsCounted

\* disconnectMQTT returns, unless the callback waits for the GUI thread to show
\* a packet while the GUI thread waits for the callback to return.
HangsOnlyWhileDrawing ==
    gui = "joining" ~> (gui # "joining" \/ mq = "drawing")

=============================================================================
