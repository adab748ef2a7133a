------------------------- MODULE WifiStationProofs -------------------------
(***************************************************************************)
(* Proofs for WifiStation, for every size of the array, every number of    *)
(* networks and every length of the driver's queue: the connected bit      *)
(* catches up with the link, and a scan's text is that scan's, with what   *)
(* may be left behind the text of a single network.                        *)
(***************************************************************************)
EXTENDS WifiStation, TLAPS

Events == {"start", "gotIp", "disconnected", "scanDone"}

\* The queue after an event is posted.
LEMMA Posted ==
    ASSUME NEW q \in Seq(Events), NEW e \in Events
    PROVE  /\ Append(q, e) \in Seq(Events)
           /\ Len(Append(q, e)) = Len(q) + 1
           /\ \A k \in 1..Len(q) : Append(q, e)[k] = q[k]
           /\ Append(q, e)[Len(q) + 1] = e
OBVIOUS

\* The queue after an event is taken.
LEMMA Taken ==
    ASSUME NEW q \in Seq(Events), q # <<>>
    PROVE  /\ Tail(q) \in Seq(Events)
           /\ Len(q) >= 1 /\ Len(Tail(q)) = Len(q) - 1
           /\ Head(q) = q[1]
           /\ \A k \in 1..Len(Tail(q)) : Tail(q)[k] = q[k + 1]
OBVIOUS

\* TypeOK: every variable keeps its type; the handler stays inside its array, and
\* mc_wifi_scan's strings are never more than its array holds, because the model
\* stops where the code would go on.
THEOREM TypeCorrect == Spec => []TypeOK
<1> USE SizeAssumption
<1>1. Init => TypeOK
  <2> SUFFICES ASSUME Init PROVE TypeOK
    OBVIOUS
  <2>1. events \in Seq(Events)
    BY DEF Init, Events
  <2>2. scanArray \in [1..SCAN_ARRAY_SIZE -> Entries]
    BY DEF Init, Entries
  <2>3. /\ <<>> \in Seq(Entries \cup {"garbage"})
        /\ Len(<<>>) <= SCAN_ARRAY_SIZE /\ Len(<<>>) <= MaxNetworks + 1
    OBVIOUS
  <2>4. /\ strings \in Seq(Entries \cup {"garbage"}) /\ Len(strings) <= SCAN_ARRAY_SIZE
        /\ result \in Seq(Entries \cup {"garbage"}) /\ Len(result) <= MaxNetworks + 1
    BY <2>3 DEF Init
  <2>5. found \in 0..MaxNetworks /\ nScans \in 0..MaxNetworks
    BY DEF Init
  <2>6. QED
    BY <2>1, <2>2, <2>4, <2>5 DEF Init, TypeOK, Events
<1>2. TypeOK /\ [Next]_vars => TypeOK'
  <2> SUFFICES ASSUME TypeOK, [Next]_vars PROVE TypeOK'
    OBVIOUS
  <2>0. events \in Seq(Events)
    BY DEF TypeOK, Events
  <2>1. CASE ApChanges
    BY <2>1 DEF ApChanges, TypeOK, shared, main
  <2>2. CASE Joined \/ Dropped
    <3>1. events' \in Seq(Events)
      BY <2>0, <2>2, Posted DEF Joined, Dropped, Post, Events
    <3>2. QED
      BY <2>2, <3>1 DEF Joined, Dropped, TypeOK, shared, main, Events
  <2>3. CASE ScanEnds
    <3>1. events' \in Seq(Events)
      BY <2>0, <2>3, Posted DEF ScanEnds, Post, Events
    <3>2. QED
      BY <2>3, <3>1 DEF ScanEnds, TypeOK, shared, Events
  <2>4. ASSUME NEW e, Take(e) PROVE events' \in Seq(Events)
    BY <2>0, <2>4, Taken DEF Take
  <2>5. CASE OnStart
    <3>1. events' \in Seq(Events)
      BY <2>4, <2>5 DEF OnStart
    <3>2. QED
      BY <2>5, <3>1 DEF OnStart, Connect, TypeOK, shared, main, Events
  <2>6. CASE OnGotIp
    <3>1. events' \in Seq(Events)
      BY <2>4, <2>6 DEF OnGotIp
    <3>2. QED
      BY <2>6, <3>1 DEF OnGotIp, TypeOK, shared, main, driver, Events
  <2>7. CASE OnDisconnected
    <3>1. events' \in Seq(Events)
      BY <2>4, <2>7 DEF OnDisconnected
    <3>2. QED
      BY <2>7, <3>1 DEF OnDisconnected, Connect, TypeOK, shared, main, Events
  <2>8. CASE ClearBit
    BY <2>8 DEF ClearBit, TypeOK, shared, main, driver
  <2>9. CASE OnScanDone
    <3>1. events' \in Seq(Events)
      BY <2>4, <2>9 DEF OnScanDone
    <3>2. found \in 0..MaxNetworks
      BY DEF TypeOK
    <3>3. found # 0 => [at |-> "fill", next |-> 1, last |-> found]
                          \in [at : {"fill"}, next : 1..SCAN_ARRAY_SIZE, last : 1..MaxNetworks]
      BY <3>2
    <3>4. handler' \in {Idle} \cup [at : {"fill"}, next : 1..SCAN_ARRAY_SIZE, last : 1..MaxNetworks]
      BY <2>9, <3>3 DEF OnScanDone
    <3>5. QED
      BY <2>9, <3>1, <3>2, <3>4 DEF OnScanDone, TypeOK, main, driver, Events
  <2>10. CASE Fill
    <3>1. handler \in [at : {"fill"}, next : 1..SCAN_ARRAY_SIZE, last : 1..MaxNetworks]
      BY <2>10 DEF Fill, TypeOK, Idle
    <3>2. handler' \in {Idle} \cup [at : {"fill"}, next : 1..SCAN_ARRAY_SIZE, last : 1..MaxNetworks]
      BY <2>10, <3>1 DEF Fill
    <3>3. scanArray' \in [1..SCAN_ARRAY_SIZE -> Entries]
      BY <2>10, <3>1 DEF Fill, TypeOK, Entries
    <3>4. QED
      BY <2>10, <3>2, <3>3 DEF Fill, TypeOK, main, driver
  <2>11. CASE WifiConnect
    BY <2>11 DEF WifiConnect, Connect, TypeOK, shared
  <2>12. CASE ScanStart
    <3>1. scanArray' \in [1..SCAN_ARRAY_SIZE -> Entries]
      BY <2>12 DEF ScanStart, TypeOK, Entries
    <3>2. strings' = <<>> /\ result' = <<>>
      BY <2>12 DEF ScanStart
    <3>3. /\ <<>> \in Seq(Entries \cup {"garbage"})
          /\ Len(<<>>) <= SCAN_ARRAY_SIZE /\ Len(<<>>) <= MaxNetworks + 1
      OBVIOUS
    <3>4. QED
      BY <2>12, <3>1, <3>2, <3>3 DEF ScanStart, TypeOK, driver
  <2>13. CASE TestScans
    BY <2>13 DEF TestScans, TypeOK, driver, shared, ScanHandled
  <2>14. CASE CopyEntry
    <3> DEFINE k == Len(strings) + 1
    <3>0. strings \in Seq(Entries \cup {"garbage"}) /\ Len(strings) \in Nat /\ nScans \in Nat
      BY DEF TypeOK
    <3>1. CASE Len(strings) < nScans /\ Len(strings) < SCAN_ARRAY_SIZE
      <4>1. strings' = Append(strings, scanArray[k]) /\ pc' = "copy"
        BY <2>14, <3>0, <3>1 DEF CopyEntry
      <4>2. scanArray[k] \in Entries \cup {"garbage"}
        BY <3>0, <3>1 DEF TypeOK
      <4>3. strings' \in Seq(Entries \cup {"garbage"}) /\ Len(strings') <= SCAN_ARRAY_SIZE
        BY <3>0, <3>1, <4>1, <4>2
      <4>4. QED
        BY <2>14, <4>1, <4>3 DEF CopyEntry, TypeOK, driver, shared
    <3>2. CASE ~(Len(strings) < nScans /\ Len(strings) < SCAN_ARRAY_SIZE)
      BY <2>14, <3>2 DEF CopyEntry, TypeOK, driver, shared
    <3>3. QED
      BY <3>1, <3>2
  <2>15. CASE Join
    <3> DEFINE n == IF nScans = 0 THEN 1 ELSE nScans
               listed == [k \in 1..n |-> IF k <= Len(strings) THEN strings[k] ELSE "garbage"]
    <3>1. n \in 1..MaxNetworks
      BY DEF TypeOK
    <3>2. result' = listed \/ result' = Append(listed, "garbage")
      BY <2>15 DEF Join
    <3>3. \A k \in 1..n : (IF k <= Len(strings) THEN strings[k] ELSE "garbage") \in Entries \cup {"garbage"}
      BY <3>1 DEF TypeOK
    <3>4. listed \in Seq(Entries \cup {"garbage"}) /\ Len(listed) <= MaxNetworks
      <4> HIDE DEF n
      <4> QED BY <3>1, <3>3
    <3>5. result' \in Seq(Entries \cup {"garbage"}) /\ Len(result') <= MaxNetworks + 1
      <4> HIDE DEF listed
      <4> QED BY <3>2, <3>4
    <3>6. QED
      BY <2>15, <3>5 DEF Join, TypeOK, driver, shared
  <2>16. CASE FallAsleep \/ WakeUp
    BY <2>16 DEF FallAsleep, WakeUp, TypeOK, driver, shared
  <2>17. CASE UNCHANGED vars
    BY <2>17 DEF vars, TypeOK, driver, shared, main
  <2>18. QED
    BY <2>1, <2>2, <2>3, <2>5, <2>6, <2>7, <2>8, <2>9, <2>10, <2>11, <2>12, <2>13, <2>14, <2>15,
       <2>16, <2>17 DEF Next, EventTask, Main
<1>3. QED
  BY <1>1, <1>2, PTL DEF Spec

-----------------------------------------------------------------------------
(***************************************************************************)
(* The bit follows the link.  What the bit will be once the queue is empty *)
(* is decided by the last link event in it, or, without one, by the        *)
(* handler's pending step, or by the bit as it is.                         *)
(***************************************************************************)

LinkEvents == {"gotIp", "disconnected"}

\* No link event is behind the k-th event of a queue.
LastLink(q, k) == \A j \in 1..Len(q) : j > k => q[j] \notin LinkEvents

\* What the bit is going to be without any more events.
BitSettles == IF handler.at = "clear" THEN FALSE ELSE bit

BitInv ==
    /\ \A k \in 1..Len(events) :
           events[k] \in LinkEvents /\ LastLink(events, k) => (events[k] = "gotIp") = (link = "up")
    /\ (\A k \in 1..Len(events) : events[k] \notin LinkEvents) => BitSettles = (link = "up")

\* A link event that tells what has happened to the link settles the bit, whatever
\* is in the queue before it.
LEMMA PostSettles ==
    ASSUME NEW e \in LinkEvents, events \in Seq(Events), events' = Append(events, e),
           (e = "gotIp") = (link' = "up")
    PROVE  BitInv'
<1> USE DEF LinkEvents
<1>1. /\ Len(events') = Len(events) + 1 /\ events'[Len(events) + 1] = e
      /\ Len(events) \in Nat
  BY Posted DEF Events
<1>2. ASSUME NEW k \in 1..Len(events'), events'[k] \in LinkEvents, LastLink(events', k)
      PROVE  (events'[k] = "gotIp") = (link' = "up")
  <2>1. k = Len(events) + 1
    BY <1>1, <1>2 DEF LastLink
  <2>2. QED
    BY <1>1, <2>1
<1>3. ~\A k \in 1..Len(events') : events'[k] \notin LinkEvents
  BY <1>1
<1>4. QED
  BY <1>2, <1>3 DEF BitInv

\* An event of another kind changes nothing.
LEMMA OtherPost ==
    ASSUME BitInv, events \in Seq(Events), events' = Append(events, "scanDone"),
           link' = link, BitSettles' = BitSettles
    PROVE  BitInv'
<1>1. /\ Len(events') = Len(events) + 1 /\ events'[Len(events) + 1] = "scanDone"
      /\ \A k \in 1..Len(events) : events'[k] = events[k]
      /\ Len(events) \in Nat
  BY Posted DEF Events
<1>2. ASSUME NEW k \in 1..Len(events'), events'[k] \in LinkEvents, LastLink(events', k)
      PROVE  (events'[k] = "gotIp") = (link' = "up")
  <2>1. k \in 1..Len(events) /\ events[k] = events'[k]
    BY <1>1, <1>2 DEF LinkEvents
  <2>2. LastLink(events, k)
    BY <1>1, <1>2 DEF LastLink
  <2>3. QED
    BY <1>2, <2>1, <2>2 DEF BitInv
<1>3. (\A k \in 1..Len(events') : events'[k] \notin LinkEvents) => BitSettles' = (link' = "up")
  <2>1. (\A k \in 1..Len(events') : events'[k] \notin LinkEvents)
           => \A k \in 1..Len(events) : events[k] \notin LinkEvents
    BY <1>1
  <2>2. QED
    BY <2>1 DEF BitInv
<1>4. QED
  BY <1>2, <1>3 DEF BitInv

\* Taking an event settles the bit as that event says, if it is the last of the link's.
LEMMA TakeSettles ==
    ASSUME BitInv, events \in Seq(Events), events # <<>>, events' = Tail(events),
           (link' = "up") = (link = "up"), bit \in BOOLEAN, handler = Idle,
           Head(events) = "gotIp" => BitSettles' = TRUE,
           Head(events) = "disconnected" => BitSettles' = FALSE,
           Head(events) \notin LinkEvents => BitSettles' = bit
    PROVE  BitInv'
<1>1. /\ Len(events) >= 1 /\ Len(events') = Len(events) - 1 /\ Len(events) \in Nat
      /\ Head(events) = events[1]
      /\ \A k \in 1..Len(events') : events'[k] = events[k + 1]
  BY Taken
<1>2. ASSUME NEW k \in 1..Len(events'), events'[k] \in LinkEvents, LastLink(events', k)
      PROVE  (events'[k] = "gotIp") = (link' = "up")
  <2>1. k + 1 \in 1..Len(events) /\ events[k + 1] = events'[k]
    BY <1>1
  <2>2. LastLink(events, k + 1)
    <3> SUFFICES ASSUME NEW j \in 1..Len(events), j > k + 1 PROVE events[j] \notin LinkEvents
      BY DEF LastLink
    <3>1. j - 1 \in 1..Len(events') /\ j - 1 > k /\ events'[j - 1] = events[j]
      BY <1>1
    <3>2. QED
      BY <1>2, <3>1 DEF LastLink
  <2>3. QED
    BY <1>2, <2>1, <2>2 DEF BitInv
<1>3. ASSUME \A k \in 1..Len(events') : events'[k] \notin LinkEvents
      PROVE  BitSettles' = (link' = "up")
  <2>1. \A j \in 1..Len(events) : j > 1 => events[j] \notin LinkEvents
    <3> SUFFICES ASSUME NEW j \in 1..Len(events), j > 1 PROVE events[j] \notin LinkEvents
      OBVIOUS
    <3>1. j - 1 \in 1..Len(events') /\ events'[j - 1] = events[j]
      BY <1>1
    <3>2. QED
      BY <1>3, <3>1
  <2>2. CASE events[1] \in LinkEvents
    <3>1. (events[1] = "gotIp") = (link = "up")
      BY <1>1, <2>1, <2>2 DEF BitInv, LastLink
    <3>2. QED
      BY <1>1, <2>2, <3>1 DEF LinkEvents
  <2>3. CASE events[1] \notin LinkEvents
    <3>1. BitSettles = (link = "up")
      BY <1>1, <2>1, <2>3 DEF BitInv
    <3>2. BitSettles = bit
      BY DEF BitSettles, Idle
    <3>3. QED
      BY <1>1, <2>3, <3>1, <3>2
  <2>4. QED
    BY <2>2, <2>3
<1>4. QED
  BY <1>2, <1>3 DEF BitInv

\* BitFollowsLink: once all events are handled, CONNECTED_BIT says whether the
\* station has its address, however often the link went up and down, as long as
\* mc_wifi_scan has not overrun its array (wifi.c wifi_event_handler).
THEOREM BitCatchesUp == Spec => []BitFollowsLink
<1>1. Init => BitInv
  <2> SUFFICES ASSUME Init PROVE BitInv
    OBVIOUS
  <2>1. Len(events) = 1 /\ events[1] = "start"
    BY DEF Init
  <2>2. \A k \in 1..Len(events) : events[k] \notin LinkEvents
    BY <2>1 DEF LinkEvents
  <2>3. BitSettles = FALSE /\ link # "up"
    BY DEF Init, BitSettles, Idle
  <2>4. QED
    BY <2>2, <2>3 DEF BitInv
<1>2. TypeOK /\ BitInv /\ [Next]_vars => BitInv'
  <2> SUFFICES ASSUME TypeOK, BitInv, [Next]_vars PROVE BitInv'
    OBVIOUS
  <2>0. events \in Seq(Events) /\ bit \in BOOLEAN
    BY DEF TypeOK, Events
  <2>1. ASSUME events' = events, (link' = "up") = (link = "up"), BitSettles' = BitSettles PROVE BitInv'
    BY <2>1 DEF BitInv, LastLink
  <2>2. CASE Joined
    BY <2>0, <2>2, PostSettles DEF Joined, Post, LinkEvents
  <2>3. CASE Dropped
    <3>1. events' = Append(events, "disconnected") /\ link' # "up"
      BY <2>3 DEF Dropped, Post
    <3>2. QED
      BY <2>0, <3>1, PostSettles DEF LinkEvents
  <2>4. CASE ScanEnds
    BY <2>0, <2>4, OtherPost DEF ScanEnds, Post, BitSettles
  <2>5. CASE OnStart
    <3>1. /\ events # <<>> /\ Head(events) = "start" /\ events' = Tail(events) /\ handler = Idle
          /\ handler' = handler /\ bit' = bit /\ (link' = "up") = (link = "up")
      BY <2>5 DEF OnStart, Take, Connect
    <3>2. BitSettles' = bit
      BY <3>1 DEF BitSettles, Idle
    <3>3. QED
      BY <2>0, <3>1, <3>2, TakeSettles DEF LinkEvents
  <2>6. CASE OnGotIp
    <3>1. /\ events # <<>> /\ Head(events) = "gotIp" /\ events' = Tail(events) /\ handler = Idle
          /\ handler' = handler /\ bit' = TRUE /\ link' = link
      BY <2>6 DEF OnGotIp, Take, driver
    <3>2. BitSettles' = TRUE
      BY <3>1 DEF BitSettles, Idle
    <3>3. QED
      BY <2>0, <3>1, <3>2, TakeSettles DEF LinkEvents
  <2>7. CASE OnDisconnected
    <3>1. /\ events # <<>> /\ Head(events) = "disconnected" /\ events' = Tail(events) /\ handler = Idle
          /\ handler' = [at |-> "clear"] /\ (link' = "up") = (link = "up")
      BY <2>7 DEF OnDisconnected, Take, Connect
    <3>2. BitSettles' = FALSE
      BY <3>1 DEF BitSettles
    <3>3. QED
      BY <2>0, <3>1, <3>2, TakeSettles DEF LinkEvents
  <2>8. CASE ClearBit
    BY <2>1, <2>8 DEF ClearBit, BitSettles, Idle, driver
  <2>9. CASE OnScanDone
    <3>1. /\ events # <<>> /\ Head(events) = "scanDone" /\ events' = Tail(events) /\ handler = Idle
          /\ handler'.at # "clear" /\ bit' = bit /\ link' = link
      BY <2>9 DEF OnScanDone, Take, driver, Idle
    <3>2. BitSettles' = bit
      BY <3>1 DEF BitSettles
    <3>3. QED
      BY <2>0, <3>1, <3>2, TakeSettles DEF LinkEvents
  <2>10. CASE Fill
    <3>1. handler \in [at : {"fill"}, next : 1..SCAN_ARRAY_SIZE, last : 1..MaxNetworks]
      BY <2>10 DEF Fill, TypeOK, Idle
    <3>2. handler'.at # "clear" /\ handler.at # "clear"
      BY <2>10, <3>1 DEF Fill, Idle
    <3>3. QED
      BY <2>1, <2>10, <3>2 DEF Fill, BitSettles, driver
  <2>11. CASE ApChanges
    BY <2>1, <2>11 DEF ApChanges, BitSettles
  <2>12. CASE WifiConnect
    BY <2>1, <2>12 DEF WifiConnect, Connect, BitSettles
  <2>13. CASE ScanStart \/ TestScans \/ CopyEntry
    BY <2>1, <2>13 DEF ScanStart, TestScans, CopyEntry, BitSettles, driver
  <2>14. CASE Join \/ FallAsleep \/ WakeUp
    BY <2>1, <2>14 DEF Join, FallAsleep, WakeUp, BitSettles, driver
  <2>15. CASE UNCHANGED vars
    BY <2>1, <2>15 DEF vars, BitSettles, driver
  <2>16. QED
    BY <2>2, <2>3, <2>4, <2>5, <2>6, <2>7, <2>8, <2>9, <2>10, <2>11, <2>12, <2>13, <2>14, <2>15
       DEF Next, EventTask, Main
<1>3. BitInv => BitFollowsLink
  <2> SUFFICES ASSUME BitInv, events = <<>>, handler = Idle PROVE bit = (link = "up")
    BY DEF BitFollowsLink
  <2>1. Len(events) = 0
    OBVIOUS
  <2>2. BitSettles = bit
    BY DEF BitSettles, Idle
  <2>3. QED
    BY <2>1, <2>2 DEF BitInv
<1>4. QED
  BY <1>1, <1>2, <1>3, TypeCorrect, PTL DEF Spec

-----------------------------------------------------------------------------
(***************************************************************************)
(* A scan's text is that scan's.  A scan is handled in three stages: its   *)
(* event waits in the queue, the handler fills the array, the handler is   *)
(* done.  At most one scan's event is on its way, because the main task    *)
(* begins the next scan only when the handler is done with the last one.   *)
(***************************************************************************)

Waiting == \E k \in 1..Len(events) :
               /\ events[k] = "scanDone" /\ handler.at # "fill"
               /\ \A j \in 1..Len(events) : events[j] = "scanDone" => j = k
NoneWaits == \A k \in 1..Len(events) : events[k] # "scanDone"
Filling == /\ NoneWaits /\ handler.at = "fill" /\ handler.last = found /\ nScans = found
           /\ \A i \in 1..SCAN_ARRAY_SIZE : i < handler.next => scanArray[i] = "new"
Done == /\ NoneWaits /\ handler.at # "fill" /\ nScans = found
        /\ \A i \in 1..SCAN_ARRAY_SIZE : i <= found => scanArray[i] = "new"

Between == {"connect", "scan"}
Reading == {"test", "copy", "join", "overrun", "done", "asleep"}

\* The text of n networks of the last scan, and what mc_wifi_scan may return for it.
Exact(n) == [k \in 1..n |-> "new"]
Returned(n) == {Exact(n)} \cup (IF n = 1 THEN {Append(Exact(1), "garbage")} ELSE {})

Stages ==
    /\ pc \in Between => Done
    /\ pc = "scanning" => NoneWaits /\ handler.at # "fill"
    /\ pc \in Reading => Waiting \/ Filling \/ Done
    /\ pc \in {"copy", "join"} /\ ~late => Done

Texts ==
    /\ pc \in {"scanning", "test"} => result = <<>> /\ strings = <<>>
    /\ pc = "copy" /\ ~late => /\ strings = Exact(Len(strings)) /\ found # 0
                              /\ Len(strings) <= found /\ Len(strings) <= SCAN_ARRAY_SIZE
    /\ pc = "join" /\ ~late => strings = Exact(found) /\ found # 0
    /\ pc = "overrun" /\ ~late => found > SCAN_ARRAY_SIZE
    /\ pc \in {"done", "asleep"} \cup Between /\ ~late => result \in Returned(found)

\* The stages from one step to the next, when the main task stays where it is.
LEMMA StagesByEvents ==
    ASSUME TypeOK, Stages, UNCHANGED <<pc, late, found>>,
           \/ Joined \/ Dropped \/ OnStart \/ OnGotIp \/ OnDisconnected \/ ClearBit
    PROVE  Stages'
<1>0. events \in Seq(Events)
  BY DEF TypeOK, Events
<1>1. nScans' = nScans /\ scanArray' = scanArray
  BY DEF Joined, Dropped, OnStart, OnGotIp, OnDisconnected, ClearBit, shared
<1>2. CASE Joined \/ Dropped
  <2>1. PICK e \in {"gotIp", "disconnected"} : events' = Append(events, e)
    BY <1>2 DEF Joined, Dropped, Post
  <2>2. /\ Len(events') = Len(events) + 1 /\ events'[Len(events) + 1] # "scanDone"
        /\ \A k \in 1..Len(events) : events'[k] = events[k]
        /\ Len(events) \in Nat
    BY <1>0, <2>1, Posted DEF Events
  <2>3. handler' = handler
    BY <1>2 DEF Joined, Dropped
  <2>4. NoneWaits => NoneWaits'
    BY <2>2 DEF NoneWaits
  <2>5. Waiting => Waiting'
    <3> SUFFICES ASSUME NEW k \in 1..Len(events), events[k] = "scanDone", handler.at # "fill",
                        \A j \in 1..Len(events) : events[j] = "scanDone" => j = k
                 PROVE  Waiting'
      BY DEF Waiting
    <3>1. k \in 1..Len(events') /\ events'[k] = "scanDone"
      BY <2>2
    <3>2. \A j \in 1..Len(events') : events'[j] = "scanDone" => j = k
      BY <2>2
    <3>3. QED
      BY <2>3, <3>1, <3>2 DEF Waiting
  <2>6. (Filling => Filling') /\ (Done => Done')
    BY <1>1, <2>3, <2>4 DEF Filling, Done
  <2>7. QED
    BY <2>3, <2>4, <2>5, <2>6 DEF Stages
<1>3. CASE OnStart \/ OnGotIp \/ OnDisconnected
  <2>1. events # <<>> /\ Head(events) # "scanDone" /\ events' = Tail(events)
    BY <1>3 DEF OnStart, OnGotIp, OnDisconnected, Take
  <2>2. /\ Len(events) >= 1 /\ Len(events') = Len(events) - 1 /\ Len(events) \in Nat
        /\ events[1] # "scanDone"
        /\ \A k \in 1..Len(events') : events'[k] = events[k + 1]
    BY <1>0, <2>1, Taken
  <2>3. handler.at # "fill" /\ handler'.at # "fill"
    BY <1>3 DEF OnStart, OnGotIp, OnDisconnected, Take, Idle
  <2>4. NoneWaits => NoneWaits'
    BY <2>2 DEF NoneWaits
  <2>5. Waiting => Waiting'
    <3> SUFFICES ASSUME NEW k \in 1..Len(events), events[k] = "scanDone",
                        \A j \in 1..Len(events) : events[j] = "scanDone" => j = k
                 PROVE  Waiting'
      BY DEF Waiting
    <3>1. k - 1 \in 1..Len(events') /\ events'[k - 1] = "scanDone"
      BY <2>2
    <3>2. \A j \in 1..Len(events') : events'[j] = "scanDone" => j = k - 1
      BY <2>2
    <3>3. QED
      BY <2>3, <3>1, <3>2 DEF Waiting
  <2>6. (Done => Done') /\ ~Filling
    BY <1>1, <2>3, <2>4 DEF Filling, Done
  <2>7. QED
    BY <2>3, <2>4, <2>5, <2>6 DEF Stages
<1>4. CASE ClearBit
  <2>1. events' = events /\ handler.at # "fill" /\ handler'.at # "fill"
    BY <1>4 DEF ClearBit, Idle
  <2>2. QED
    BY <1>1, <2>1 DEF Stages, Waiting, Filling, Done, NoneWaits
<1>5. QED
  BY <1>2, <1>3, <1>4

\* The handler takes the scan's event.
LEMMA StagesByScanDone ==
    ASSUME TypeOK, Stages, OnScanDone
    PROVE  Stages'
<1>0. events \in Seq(Events) /\ found \in 0..MaxNetworks
  BY DEF TypeOK, Events
<1>1. /\ events # <<>> /\ Head(events) = "scanDone" /\ events' = Tail(events) /\ handler = Idle
      /\ nScans' = found
      /\ handler' = IF found = 0 THEN Idle ELSE [at |-> "fill", next |-> 1, last |-> found]
      /\ UNCHANGED <<found, scanArray, pc, late>>
  BY DEF OnScanDone, Take, driver, main
<1>2. /\ Len(events) >= 1 /\ Len(events') = Len(events) - 1 /\ Len(events) \in Nat
      /\ events[1] = "scanDone"
      /\ \A k \in 1..Len(events') : events'[k] = events[k + 1]
  BY <1>0, <1>1, Taken
<1>3. ~NoneWaits
  BY <1>2 DEF NoneWaits
<1>4. pc \in Reading /\ Waiting /\ ~(pc \in {"copy", "join"} /\ ~late)
  BY <1>3 DEF Stages, Filling, Done, TypeOK, Between, Reading
<1>5. NoneWaits'
  <2>1. \A j \in 1..Len(events) : events[j] = "scanDone" => j = 1
    BY <1>2, <1>4 DEF Waiting
  <2>2. QED
    BY <1>2, <2>1 DEF NoneWaits
<1>6. Filling' \/ Done'
  <2>1. CASE found = 0
    BY <1>0, <1>1, <1>5, <2>1 DEF Done, Idle
  <2>2. CASE found # 0
    BY <1>0, <1>1, <1>5, <2>2 DEF Filling
  <2>3. QED
    BY <2>1, <2>2
<1>7. QED
  BY <1>1, <1>4, <1>6 DEF Stages, Reading, Between

\* The handler fills one entry.
LEMMA StagesByFill ==
    ASSUME TypeOK, Stages, Fill
    PROVE  Stages'
<1>0. /\ handler \in [at : {"fill"}, next : 1..SCAN_ARRAY_SIZE, last : 1..MaxNetworks]
      /\ scanArray \in [1..SCAN_ARRAY_SIZE -> Entries] /\ SCAN_ARRAY_SIZE \in Nat /\ MaxNetworks \in Nat
  BY SizeAssumption DEF Fill, TypeOK, Idle
<1>1. /\ scanArray' = [scanArray EXCEPT ![handler.next] = "new"]
      /\ handler' = IF handler.next < handler.last /\ handler.next < SCAN_ARRAY_SIZE
                    THEN [handler EXCEPT !.next = @ + 1] ELSE Idle
      /\ UNCHANGED <<events, nScans, found, pc, late>>
  BY DEF Fill, driver, main
<1>2. pc \in Reading /\ Filling /\ ~(pc \in {"copy", "join"} /\ ~late)
  BY <1>0 DEF Stages, Waiting, Done, TypeOK, Between, Reading
<1>3. NoneWaits' /\ nScans' = found' /\ handler.last = found
  BY <1>1, <1>2 DEF NoneWaits, Filling
<1>4. \A i \in 1..SCAN_ARRAY_SIZE : i < handler.next + 1 => scanArray'[i] = "new"
  BY <1>0, <1>1, <1>2 DEF Filling
<1>5. CASE handler.next < handler.last /\ handler.next < SCAN_ARRAY_SIZE
  <2>1. handler'.at = "fill" /\ handler'.next = handler.next + 1 /\ handler'.last = handler.last
    BY <1>0, <1>1, <1>5
  <2>2. Filling'
    BY <1>1, <1>3, <1>4, <2>1 DEF Filling
  <2>3. QED
    BY <1>1, <1>2, <2>2 DEF Stages, Reading, Between
<1>6. CASE ~(handler.next < handler.last /\ handler.next < SCAN_ARRAY_SIZE)
  <2>1. handler'.at # "fill"
    BY <1>1, <1>6 DEF Idle
  <2>2. \A i \in 1..SCAN_ARRAY_SIZE : i <= found => i < handler.next + 1
    BY <1>0, <1>3, <1>6
  <2>3. Done'
    BY <1>1, <1>3, <1>4, <2>1, <2>2 DEF Done
  <2>4. QED
    BY <1>1, <1>2, <2>3 DEF Stages, Reading, Between
<1>7. QED
  BY <1>5, <1>6

\* The main task's steps and the end of a scan.
LEMMA StagesByMain ==
    ASSUME TypeOK, Stages, Main \/ ScanEnds
    PROVE  Stages'
<1> USE DEF Stages, Reading, Between
<1>0. events \in Seq(Events)
  BY DEF TypeOK, Events
<1>1. CASE WifiConnect
  BY <1>1 DEF WifiConnect, Waiting, Filling, Done, NoneWaits, shared
<1>2. CASE ScanStart
  BY <1>2 DEF ScanStart, Done, NoneWaits
<1>3. CASE ScanEnds
  <2>1. /\ events' = Append(events, "scanDone") /\ handler' = handler /\ pc = "scanning" /\ pc' = "test"
    BY <1>3 DEF ScanEnds, Post
  <2>2. /\ Len(events') = Len(events) + 1 /\ events'[Len(events) + 1] = "scanDone"
        /\ \A k \in 1..Len(events) : events'[k] = events[k]
        /\ Len(events) \in Nat
    BY <1>0, <2>1, Posted DEF Events
  <2>3. NoneWaits /\ handler.at # "fill"
    BY <2>1
  <2>4. Waiting'
    BY <2>1, <2>2, <2>3 DEF Waiting, NoneWaits
  <2>5. QED
    BY <2>1, <2>4
<1>4. CASE TestScans
  <2>1. UNCHANGED <<events, handler, nScans, scanArray, found>> /\ pc = "test" /\ pc' \in {"done", "copy"}
    BY <1>4 DEF TestScans, driver, shared
  <2>2. ~late' => NoneWaits /\ handler.at # "fill"
    BY <1>4 DEF TestScans, ScanHandled, NoneWaits
  <2>3. ~late' => Done
    BY <2>1, <2>2 DEF Waiting, Filling, NoneWaits
  <2>4. (Waiting => Waiting') /\ (Filling => Filling') /\ (Done => Done')
    BY <2>1 DEF Waiting, Filling, Done, NoneWaits
  <2>5. QED
    BY <2>1, <2>3, <2>4
<1>5. CASE CopyEntry \/ Join \/ FallAsleep
  <2>1. UNCHANGED <<events, handler, nScans, scanArray, found, late>>
    BY <1>5 DEF CopyEntry, Join, FallAsleep, driver, shared
  <2>2. \/ pc = "copy" /\ pc' \in {"copy", "join", "overrun"}
        \/ pc = "join" /\ pc' = "done"
        \/ pc = "done" /\ pc' = "asleep"
    BY <1>5 DEF CopyEntry, Join, FallAsleep
  <2>3. (Waiting => Waiting') /\ (Filling => Filling') /\ (Done => Done')
    BY <2>1 DEF Waiting, Filling, Done, NoneWaits
  <2>4. QED
    BY <2>1, <2>2, <2>3
<1>6. CASE WakeUp
  <2>1. UNCHANGED <<events, handler, nScans, scanArray, found, late>> /\ pc = "asleep" /\ pc' = "connect"
    BY <1>6 DEF WakeUp, driver, shared
  <2>2. Done
    BY <1>6, <2>1 DEF WakeUp, ScanHandled, Waiting, Filling
  <2>3. Done'
    BY <2>1, <2>2 DEF Done, NoneWaits
  <2>4. QED
    BY <2>1, <2>3
<1>7. QED
  BY <1>1, <1>2, <1>3, <1>4, <1>5, <1>6 DEF Main

\* Under every step.
LEMMA StagesStep == TypeOK /\ Stages /\ [Next]_vars => Stages'
<1> SUFFICES ASSUME TypeOK, Stages, [Next]_vars PROVE Stages'
  OBVIOUS
<1>1. CASE Joined \/ Dropped \/ OnStart \/ OnGotIp \/ OnDisconnected \/ ClearBit
  <2>1. UNCHANGED <<pc, late, found>>
    BY <1>1 DEF Joined, Dropped, OnStart, OnGotIp, OnDisconnected, ClearBit, main, driver
  <2>2. QED
    BY <1>1, <2>1, StagesByEvents
<1>2. CASE OnScanDone
  BY <1>2, StagesByScanDone
<1>3. CASE Fill
  BY <1>3, StagesByFill
<1>4. CASE Main \/ ScanEnds
  BY <1>4, StagesByMain
<1>5. CASE ApChanges
  BY <1>5 DEF ApChanges, Stages, Waiting, Filling, Done, NoneWaits, shared, main
<1>6. CASE UNCHANGED vars
  BY <1>6 DEF vars, Stages, Waiting, Filling, Done, NoneWaits, shared, main, driver
<1>7. QED
  BY <1>1, <1>2, <1>3, <1>4, <1>5, <1>6 DEF Next, EventTask

\* A string more of an exact text, and an exact text from all of them.
LEMMA ExactGrows ==
    ASSUME NEW n \in Nat
    PROVE  /\ Exact(n) \in Seq({"new"}) /\ Len(Exact(n)) = n
           /\ Append(Exact(n), "new") = Exact(n + 1)
<1> DEFINE s == Exact(n)
           longer == Exact(n + 1)
<1>1. s \in Seq({"new"}) /\ Len(s) = n /\ longer \in Seq({"new"}) /\ Len(longer) = n + 1
  BY DEF Exact
<1>2. (\A k \in 1..n : s[k] = "new") /\ \A k \in 1..n + 1 : longer[k] = "new"
  BY DEF Exact
<1> HIDE DEF s, longer
<1>3. /\ Append(s, "new") \in Seq({"new"}) /\ Len(Append(s, "new")) = n + 1
      /\ Append(s, "new")[n + 1] = "new" /\ \A k \in 1..n : Append(s, "new")[k] = s[k]
  BY <1>1
<1>4. \A k \in 1..n + 1 : Append(s, "new")[k] = longer[k]
  BY <1>2, <1>3
<1>5. Append(s, "new") = longer
  BY <1>1, <1>3, <1>4
<1>6. QED
  BY <1>1, <1>5 DEF s, longer

\* The texts under every step.
LEMMA TextsStep == TypeOK /\ Stages /\ Texts /\ [Next]_vars => Texts'
<1> SUFFICES ASSUME TypeOK, Stages, Texts, [Next]_vars PROVE Texts'
  OBVIOUS
<1> USE DEF Texts, Between
<1>0. found \in Nat /\ nScans \in Nat /\ SCAN_ARRAY_SIZE \in Nat
  BY SizeAssumption DEF TypeOK
<1>1. CASE UNCHANGED <<pc, strings, result, late, found>>
  BY <1>1
<1>2. CASE ScanEnds
  BY <1>2 DEF ScanEnds
<1>3. CASE WifiConnect
  BY <1>3 DEF WifiConnect
<1>4. CASE ScanStart
  BY <1>4 DEF ScanStart
<1>5. CASE TestScans
  <2>1. /\ pc = "test" /\ UNCHANGED <<found, strings, result, nScans>>
        /\ pc' = IF nScans = 0 THEN "done" ELSE "copy"
    BY <1>5 DEF TestScans, driver, shared
  <2>2. ~late' => nScans = found
    <3>1. ~late' => NoneWaits /\ handler.at # "fill"
      BY <1>5 DEF TestScans, ScanHandled, NoneWaits
    <3>2. QED
      BY <2>1, <3>1 DEF Stages, Reading, Waiting, Filling, Done, NoneWaits
  <2>3. result = Exact(0) /\ result \in Returned(0) /\ strings = Exact(0) /\ Len(strings) = 0
    BY <2>1 DEF Exact, Returned
  <2>4. QED
    BY <1>0, <2>1, <2>2, <2>3
<1>6. CASE CopyEntry
  <2>1. pc = "copy" /\ UNCHANGED <<found, result, late>>
    BY <1>6 DEF CopyEntry, driver
  <2>2. CASE late
    BY <1>6, <2>1, <2>2 DEF CopyEntry
  <2>3. CASE ~late
    <3>1. nScans = found /\ \A i \in 1..SCAN_ARRAY_SIZE : i <= found => scanArray[i] = "new"
      BY <2>1, <2>3 DEF Stages, Done
    <3> DEFINE n == Len(strings)
    <3>2. /\ strings = Exact(n) /\ n \in Nat /\ found # 0
          /\ n <= found /\ n <= SCAN_ARRAY_SIZE
      BY <2>1, <2>3 DEF TypeOK
    <3>3. CASE n < nScans /\ n < SCAN_ARRAY_SIZE
      <4>1. scanArray[n + 1] = "new"
        BY <1>0, <3>1, <3>2, <3>3
      <4>2. strings' = Append(strings, scanArray[n + 1]) /\ pc' = "copy"
        BY <1>0, <1>6, <3>2, <3>3 DEF CopyEntry
      <4>3. strings' = Exact(n + 1)
        BY <3>2, <4>1, <4>2, ExactGrows
      <4>4. Len(strings') = n + 1
        BY <3>2, <4>3, ExactGrows
      <4>5. QED
        BY <1>0, <2>1, <3>1, <3>2, <3>3, <4>2, <4>3, <4>4
    <3>4. CASE n < nScans /\ n >= SCAN_ARRAY_SIZE
      <4>1. pc' = "overrun" /\ found > SCAN_ARRAY_SIZE
        BY <1>0, <1>6, <3>1, <3>2, <3>4 DEF CopyEntry
      <4>2. QED
        BY <2>1, <4>1
    <3>5. CASE ~(n < nScans)
      <4>1. strings' = strings /\ pc' = "join"
        BY <1>0, <1>6, <3>2, <3>5 DEF CopyEntry
      <4>2. n = found
        BY <1>0, <3>1, <3>2, <3>5
      <4>3. QED
        BY <2>1, <3>2, <4>1, <4>2
    <3>6. QED
      BY <1>0, <3>2, <3>3, <3>4, <3>5
  <2>4. QED
    BY <2>2, <2>3
<1>7. CASE Join
  <2>1. pc = "join" /\ pc' = "done" /\ UNCHANGED <<found, strings, late>>
    BY <1>7 DEF Join, driver
  <2>2. ASSUME ~late PROVE result' \in Returned(found)
    <3> DEFINE listed == [k \in 1..found |-> IF k <= Len(strings) THEN strings[k] ELSE "garbage"]
    <3>1. nScans = found /\ strings = Exact(found) /\ found # 0
      BY <2>1, <2>2 DEF Stages, Done
    <3>2. \/ result' = listed
          \/ Len(strings) = 1 /\ result' = Append(listed, "garbage")
      BY <1>7, <3>1 DEF Join
    <3>3. Len(strings) = found /\ \A k \in 1..found : strings[k] = "new"
      <4>1. \A k \in 1..found : Exact(found)[k] = "new"
        BY DEF Exact
      <4>2. QED
        BY <1>0, <3>1, <4>1, ExactGrows
    <3>4. listed = Exact(found)
      BY <1>0, <3>3 DEF Exact
    <3> HIDE DEF listed
    <3>5. QED
      BY <3>2, <3>3, <3>4 DEF Returned
  <2>3. QED
    BY <2>1, <2>2
<1>8. CASE FallAsleep \/ WakeUp
  BY <1>8 DEF FallAsleep, WakeUp, driver
<1>9. QED
  <2>1. CASE \/ ApChanges \/ Joined \/ Dropped \/ OnStart \/ OnGotIp \/ OnDisconnected \/ ClearBit
             \/ OnScanDone \/ Fill \/ UNCHANGED vars
    BY <1>1, <2>1 DEF ApChanges, Joined, Dropped, OnStart, OnGotIp, OnDisconnected, ClearBit,
                      OnScanDone, Fill, vars, main, driver
  <2>2. QED
    BY <1>2, <1>3, <1>4, <1>5, <1>6, <1>7, <1>8, <2>1 DEF Next, EventTask, Main

\* ScanIsExact: when the handler was done in time, mc_wifi_scan's text lists the
\* networks of its own scan, each once, with old memory behind a single one at
\* most, and only a scan of too many networks overruns the array (wifi.c).
THEOREM ScanTextsExact == Spec => []ScanIsExact
<1>1. Init => Stages /\ Texts
  <2> SUFFICES ASSUME Init PROVE Stages /\ Texts
    OBVIOUS
  <2>1. Len(events) = 1 /\ events[1] = "start"
    BY DEF Init
  <2>2. NoneWaits
    BY <2>1 DEF NoneWaits
  <2>3. Done
    BY <2>2, SizeAssumption DEF Done, Init, Idle
  <2>4. result \in Returned(found)
    BY DEF Init, Exact, Returned
  <2>5. QED
    BY <2>3, <2>4 DEF Init, Stages, Texts, Between, Reading
<1>2. TypeOK /\ Texts => ScanIsExact
  <2> SUFFICES ASSUME TypeOK, Texts, ~late
               PROVE  /\ pc = "done" /\ found # 1 => result = Exact(found)
                      /\ pc = "done" /\ found = 1 => result \in {<<"new">>, Append(<<"new">>, "garbage")}
                      /\ pc = "overrun" => found > SCAN_ARRAY_SIZE
    BY DEF ScanIsExact, Exact
  <2>1. Exact(1) = <<"new">>
    BY DEF Exact
  <2>2. QED
    BY <2>1 DEF Texts, Returned
<1>3. QED
  BY <1>1, <1>2, TypeCorrect, StagesStep, TextsStep, PTL DEF Spec

=============================================================================
