---------------------------- MODULE WifiStation ----------------------------
(***************************************************************************)
(* wifi.c: the station and the scan.  The Wi-Fi driver (external) posts    *)
(* events to a queue; the event task runs wifi_event_handler on them; the  *)
(* main task asks for a connection at the start of each round and, when    *)
(* the device has moved, scans and copies the handler's array.  nScans and *)
(* scanArray are shared by the two tasks without a lock.                   *)
(*                                                                         *)
(* A network is told apart only by the scan that found it: "new" for the   *)
(* last scan, "old" for an earlier one; "empty" is an entry never filled   *)
(* and "garbage" is memory that no scan has written.  Where mc_wifi_scan   *)
(* writes behind its array on the stack, the model stops following it.     *)
(***************************************************************************)
EXTENDS Naturals, Sequences

CONSTANTS SCAN_ARRAY_SIZE,   \* entries of scanArray and of scanStrings
          MaxNetworks,       \* bound: networks one scan finds
          MaxEvents          \* bound: the driver posts only into a queue shorter than this

ASSUME SizeAssumption == SCAN_ARRAY_SIZE \in Nat \ {0} /\ MaxNetworks \in Nat \ {0} /\ MaxEvents \in Nat \ {0}

VARIABLES ap,          \* the access point is in reach
          link,        \* the driver's link: "down", "connecting" or "up"
          found,       \* networks in the driver's list
          events,      \* events the event task has not taken
          handler,     \* what the event task is doing
          bit,         \* CONNECTED_BIT
          nScans, scanArray,
          pc,          \* the main task's place in its round
          strings,     \* mc_wifi_scan's scanStrings, as far as they are filled
          result,      \* what mc_wifi_scan returns; <<>> is NULL
          late         \* history: mc_wifi_scan went on before the handler was done

driver == <<ap, link, found>>
shared == <<nScans, scanArray>>
main == <<pc, strings, result, late>>
vars == <<driver, events, handler, bit, shared, main>>

Idle == [at |-> "idle"]
Entries == {"empty", "old", "new"}
TypeOK ==
    /\ ap \in BOOLEAN /\ bit \in BOOLEAN /\ late \in BOOLEAN
    /\ link \in {"down", "connecting", "up"}
    /\ found \in 0..MaxNetworks /\ nScans \in 0..MaxNetworks
    /\ events \in Seq({"start", "gotIp", "disconnected", "scanDone"})
    /\ handler \in {Idle, [at |-> "clear"]}
                   \cup [at : {"fill"}, next : 1..SCAN_ARRAY_SIZE, last : 1..MaxNetworks]
    /\ scanArray \in [1..SCAN_ARRAY_SIZE -> Entries]
    /\ pc \in {"connect", "scan", "scanning", "test", "copy", "join", "overrun", "done", "asleep"}
    /\ strings \in Seq(Entries \cup {"garbage"}) /\ Len(strings) <= SCAN_ARRAY_SIZE
    /\ result \in Seq(Entries \cup {"garbage"}) /\ Len(result) <= MaxNetworks + 1

\* mc_wifi_init, the last initialisation before the first round: the started
\* driver posts its start event.
Init ==
    /\ ap \in BOOLEAN /\ link = "down" /\ found = 0
    /\ events = <<"start">> /\ handler = Idle /\ bit = FALSE
    /\ nScans = 0 /\ scanArray = [k \in 1..SCAN_ARRAY_SIZE |-> "empty"]
    /\ pc = "connect" /\ strings = <<>> /\ result = <<>> /\ late = FALSE

-----------------------------------------------------------------------------
(* The driver and the world.                                               *)

\* esp_wifi_connect: a station already connecting or connected stays so.
Connect == link' = IF link = "down" THEN "connecting" ELSE link

Post(event) == Len(events) < MaxEvents /\ events' = Append(events, event)

\* The access point appears or goes away.
ApChanges == ap' = ~ap /\ UNCHANGED <<link, found, events, handler, bit, shared, main>>

Joined == /\ link = "connecting" /\ ap
          /\ link' = "up" /\ Post("gotIp")
          /\ UNCHANGED <<ap, found, handler, bit, shared, main>>

Dropped == /\ link # "down" /\ ~ap
           /\ link' = "down" /\ Post("disconnected")
           /\ UNCHANGED <<ap, found, handler, bit, shared, main>>

\* A scan ends: the list is there, the event is posted, the blocked caller goes on.
ScanEnds == /\ pc = "scanning"
            /\ found' \in 0..MaxNetworks
            /\ Post("scanDone") /\ pc' = "test"
            /\ UNCHANGED <<ap, link, handler, bit, shared, strings, result, late>>

-----------------------------------------------------------------------------
(* The event task: wifi_event_handler, one event at a time.                *)

Take(event) == handler = Idle /\ events # <<>> /\ Head(events) = event /\ events' = Tail(events)

OnStart == /\ Take("start") /\ Connect
           /\ UNCHANGED <<ap, found, handler, bit, shared, main>>

OnGotIp == /\ Take("gotIp") /\ bit' = TRUE
           /\ UNCHANGED <<driver, handler, shared, main>>

OnDisconnectedMutant ==     \* mutant: the handler leaves reconnecting to the main task
    /\ Take("disconnected")
    /\ handler' = [at |-> "clear"]
    /\ UNCHANGED <<driver, bit, shared, main>>

\* The handler reconnects first and clears the bit after it.
OnDisconnected ==
    /\ Take("disconnected") /\ Connect
    /\ handler' = [at |-> "clear"]
    /\ UNCHANGED <<ap, found, bit, shared, main>>

ClearBitMutant ==     \* mutant: the bit is cleared only if the reconnection has not begun
    /\ handler.at = "clear"
    /\ handler' = Idle /\ bit' = (bit /\ link # "down")
    /\ UNCHANGED <<driver, events, shared, main>>

ClearBit ==
    /\ handler.at = "clear"
    /\ handler' = Idle /\ bit' = FALSE
    /\ UNCHANGED <<driver, events, shared, main>>

OnScanDoneMutant ==     \* mutant: an empty scan returns before it sets nScans
    /\ Take("scanDone")
    /\ nScans' = IF found = 0 THEN nScans ELSE found
    /\ handler' = IF found = 0 THEN Idle ELSE [at |-> "fill", next |-> 1, last |-> found]
    /\ UNCHANGED <<driver, bit, scanArray, main>>

\* nScans is set before the array is filled, and to all networks found, however
\* many the array holds.
OnScanDone ==
    /\ Take("scanDone")
    /\ nScans' = found
    /\ handler' = IF found = 0 THEN Idle ELSE [at |-> "fill", next |-> 1, last |-> found]
    /\ UNCHANGED <<driver, bit, scanArray, main>>

\* One entry of the handler's loop, which stays inside the array.
Fill ==
    /\ handler.at = "fill"
    /\ scanArray' = [scanArray EXCEPT ![handler.next] = "new"]
    /\ handler' = IF handler.next < handler.last /\ handler.next < SCAN_ARRAY_SIZE
                  THEN [handler EXCEPT !.next = @ + 1] ELSE Idle
    /\ UNCHANGED <<driver, events, bit, nScans, main>>

EventTask == OnStart \/ OnGotIp \/ OnDisconnected \/ ClearBit \/ OnScanDone \/ Fill

-----------------------------------------------------------------------------
(* The main task: mc_wifi_connect and mc_wifi_scan.                        *)

ScanHandled == handler.at # "fill" /\ \A k \in 1..Len(events) : events[k] # "scanDone"

\* mc_wifi_connect; the round goes on to the scan if the accelerometer says so.
WifiConnect ==
    /\ pc = "connect"
    /\ IF bit THEN link' = link ELSE Connect
    /\ pc' \in {"scan", "done"}
    /\ UNCHANGED <<ap, found, events, handler, bit, shared, strings, result, late>>

\* A blocking esp_wifi_scan_start: what the array holds is an earlier scan's now.
ScanStart ==
    /\ pc = "scan" /\ pc' = "scanning"
    /\ scanArray' = [k \in 1..SCAN_ARRAY_SIZE |-> IF scanArray[k] = "new" THEN "old" ELSE scanArray[k]]
    /\ strings' = <<>> /\ result' = <<>> /\ late' = FALSE
    /\ UNCHANGED <<driver, events, handler, bit, nScans>>

\* if (nScans)
TestScans ==
    /\ pc = "test"
    /\ late' = ~ScanHandled
    /\ pc' = IF nScans = 0 THEN "done" ELSE "copy"
    /\ UNCHANGED <<driver, events, handler, bit, shared, strings, result>>

\* One turn of the first loop, which reads nScans and an entry.  It goes as far as
\* nScans says: with more networks than scanStrings has room for, it writes behind
\* the array, and nothing is known of the task from there.
CopyEntry ==
    /\ pc = "copy"
    /\ \/ /\ Len(strings) < nScans /\ Len(strings) < SCAN_ARRAY_SIZE
          /\ strings' = Append(strings, scanArray[Len(strings) + 1]) /\ pc' = "copy"
       \/ /\ Len(strings) < nScans /\ Len(strings) >= SCAN_ARRAY_SIZE
          /\ pc' = "overrun" /\ UNCHANGED strings
       \/ Len(strings) >= nScans /\ pc' = "join" /\ UNCHANGED strings
    /\ UNCHANGED <<driver, events, handler, bit, shared, result, late>>

\* The text is put together from the first string and as many others as nScans
\* says by now; the first string is taken whatever it says.  strncpy ends the first
\* string only if apScanLength is longer than it, which takes a second string: with
\* one alone, what malloc left behind it may belong to the text.
Join ==
    /\ pc = "join" /\ pc' = "done"
    /\ LET listed == [k \in 1..(IF nScans = 0 THEN 1 ELSE nScans) |->
                         IF k <= Len(strings) THEN strings[k] ELSE "garbage"]
       IN  \/ result' = listed
           \/ Len(strings) = 1 /\ result' = Append(listed, "garbage")
    /\ UNCHANGED <<driver, events, handler, bit, shared, strings, late>>

\* The rest of the round, which ends in a light or in a deep sleep.
FallAsleep == /\ pc = "done" /\ pc' = "asleep"
              /\ UNCHANGED <<driver, events, handler, bit, shared, strings, result, late>>

\* A sleep is long enough for the event task to be done with the round's scan.
WakeUp == /\ pc = "asleep" /\ ScanHandled /\ pc' = "connect"
          /\ UNCHANGED <<driver, events, handler, bit, shared, strings, result, late>>

Main == WifiConnect \/ ScanStart \/ TestScans \/ CopyEntry \/ Join \/ FallAsleep \/ WakeUp

Next == ApChanges \/ Joined \/ Dropped \/ ScanEnds \/ EventTask \/ Main

\* The event task and the driver's answers go on; the main task may sleep for ever.
Spec == Init /\ [][Next]_vars /\ WF_vars(EventTask) /\ WF_vars(Joined) /\ WF_vars(Dropped)

-----------------------------------------------------------------------------
\* The order in OnDisconnected is harmless because one task handles every event:
\* once all are handled, CONNECTED_BIT says whether the station has its address,
\* however often the link went up and down meanwhile, unless mc_wifi_scan has
\* overrun its array.
BitFollowsLink == pc # "overrun" /\ events = <<>> /\ handler = Idle => bit = (link = "up")

\* When the handler was done before mc_wifi_scan read nScans, the text lists this
\* scan's networks, each once, and is NULL only if there were none; behind the text
\* of a single network, old memory may follow.  The array is overrun only by a scan
\* that found more networks than it holds.
ScanIsExact ==
    ~late =>
        /\ pc = "done" /\ found # 1 => result = [k \in 1..found |-> "new"]
        /\ pc = "done" /\ found = 1 => result \in {<<"new">>, Append(<<"new">>, "garbage")}
        /\ pc = "overrun" => found > SCAN_ARRAY_SIZE

\* Whenever the access point stays in reach from some time on, the station ends up
\* connected and CONNECTED_BIT set, even if the main task never wakes again: the
\* handler's reconnection alone is enough.  After an overrun nothing is claimed.
Reconnects == <>[](ap /\ pc # "overrun") => <>[](link = "up" /\ bit)

=============================================================================
