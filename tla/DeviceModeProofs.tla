------------------------- MODULE DeviceModeProofs -------------------------
(***************************************************************************)
(* Safety of DeviceMode for every queue length, with a bus that may fail.  *)
(***************************************************************************)
EXTENDS DeviceMode, TLAPS

\* Every variable keeps its type, as gpio's event queue its bound.
THEOREM TypeCorrect == Spec => []TypeOK
<1> USE DEF Modes, Tasks, Leds, Sensors, Sems, GreenSems, BootPcs, SetStatePcs, MainPcs, GpioPcs
<1>1. Init => TypeOK
  BY QueueLenAssumption DEF Init, TypeOK
<1>2. TypeOK /\ [Next]_vars => TypeOK'
  <2> SUFFICES ASSUME TypeOK, [Next]_vars PROVE TypeOK'
    OBVIOUS
  <2> USE QueueLenAssumption DEF TypeOK, Goto
  <2>1. CASE StartBlinkTasks
    BY <2>1 DEF StartBlinkTasks, AfterBoot
  <2>2. CASE CreateSemaphores
    BY <2>2 DEF CreateSemaphores, AfterBoot
  <2>3. CASE InitGpio
    BY <2>3 DEF InitGpio, AfterBoot
  <2>4. CASE Preprocess
    BY <2>4 DEF Preprocess, CallSetState
  <2>5. CASE HighPower
    BY <2>5 DEF HighPower, Written
  <2>6. CASE Collect
    BY <2>6 DEF Collect
  <2>7. CASE EnterSleep
    BY <2>7 DEF EnterSleep, CallSetState
  <2>8. CASE LowPower
    BY <2>8 DEF LowPower, Written
  <2>9. CASE WakeFromDeep
    BY <2>9 DEF WakeFromDeep
  <2>10. CASE WakeFromLight
    BY <2>10 DEF WakeFromLight
  <2>11. CASE ReceiveEvent
    BY <2>11 DEF ReceiveEvent
  <2>12. CASE ToggleRead
    BY <2>12 DEF ToggleRead
  <2>13. CASE Press
    BY <2>13 DEF Press
  <2>14. ASSUME NEW t \in Tasks, WriteMode(t) PROVE TypeOK'
    <3>1. stale' \subseteq Tasks
      BY <2>14, Zenon DEF WriteMode, Other
    <3> QED
      BY <2>14, <3>1 DEF WriteMode
  <2>15. ASSUME NEW t \in Tasks, ApplyMode(t) PROVE TypeOK'
    BY <2>15 DEF ApplyMode
  <2>16. ASSUME NEW t \in Tasks, GiveGreen(t) PROVE TypeOK'
    BY <2>16 DEF GiveGreen, GreenSem
  <2>17. ASSUME NEW t \in Tasks, GiveRed(t) PROVE TypeOK'
    BY <2>17 DEF GiveRed, RedSem
  <2>18. ASSUME NEW led \in Leds, TakeOn(led) PROVE TypeOK'
    <3>1. lit' \subseteq Leds
      BY <2>18 DEF TakeOn
    <3> QED
      BY <2>18, <3>1 DEF TakeOn, OnSem
  <2>19. ASSUME NEW led \in Leds, TakeOff(led) PROVE TypeOK'
    BY <2>19 DEF TakeOff, OffSem
  <2>20. CASE UNCHANGED vars
    BY <2>20 DEF vars
  <2> QED
    BY <2>1, <2>2, <2>3, <2>4, <2>5, <2>6, <2>7, <2>8, <2>9, <2>10,
       <2>11, <2>12, <2>13, <2>14, <2>15, <2>16, <2>17, <2>18, <2>19, <2>20
    DEF Next, MainStep, GpioStep, SetState, Blink
<1> QED
  BY <1>1, <1>2, PTL DEF Spec

-----------------------------------------------------------------------------

\* Boot order: the semaphores are created before the button is set up, the
\* button before main writes the mode, and before that nobody changes it.
BootInv ==
    /\ pc["main"] \notin {"ledTasks", "ledSems"} => \A s \in Sems : sem[s] # "null"
    /\ pc["gpio"] # "off" => pc["main"] \notin BootPcs
    /\ pc["main"] \in BootPcs => mode = "ACTIVE" /\ arg["main"] = "ACTIVE"

\* Every step of the boot keeps its order.
LEMMA BootOrder == Spec => []BootInv
<1> USE DEF Modes, Tasks, Leds, Sensors, Sems, GreenSems, BootPcs, SetStatePcs, MainPcs, GpioPcs
<1>1. Init => BootInv
  BY DEF Init, BootInv
<1>2. TypeOK /\ BootInv /\ [Next]_vars => BootInv'
  <2> SUFFICES ASSUME TypeOK, BootInv, [Next]_vars PROVE BootInv'
    OBVIOUS
  <2> USE DEF TypeOK, BootInv, Goto
  <2>1. CASE StartBlinkTasks
    BY <2>1 DEF StartBlinkTasks, AfterBoot
  <2>2. CASE CreateSemaphores
    BY <2>2 DEF CreateSemaphores, AfterBoot
  <2>3. CASE InitGpio
    BY <2>3 DEF InitGpio, AfterBoot
  <2>4. CASE Preprocess
    BY <2>4 DEF Preprocess, CallSetState
  <2>5. CASE HighPower
    BY <2>5 DEF HighPower
  <2>6. CASE Collect
    BY <2>6 DEF Collect
  <2>7. CASE EnterSleep
    BY <2>7 DEF EnterSleep, CallSetState
  <2>8. CASE LowPower
    BY <2>8 DEF LowPower
  <2>9. CASE WakeFromDeep
    BY <2>9 DEF WakeFromDeep
  <2>10. CASE WakeFromLight
    BY <2>10 DEF WakeFromLight
  <2>11. CASE ReceiveEvent
    BY <2>11 DEF ReceiveEvent
  <2>12. CASE ToggleRead
    BY <2>12 DEF ToggleRead
  <2>13. CASE Press
    BY <2>13 DEF Press
  <2>14. ASSUME NEW t \in Tasks, WriteMode(t) PROVE BootInv'
    BY <2>14 DEF WriteMode, Other
  <2>15. ASSUME NEW t \in Tasks, ApplyMode(t) PROVE BootInv'
    BY <2>15 DEF ApplyMode
  <2>16. ASSUME NEW t \in Tasks, GiveGreen(t) PROVE BootInv'
    BY <2>16 DEF GiveGreen, GreenSem
  <2>17. ASSUME NEW t \in Tasks, GiveRed(t) PROVE BootInv'
    BY <2>17 DEF GiveRed, RedSem
  <2>18. ASSUME NEW led \in Leds, TakeOn(led) PROVE BootInv'
    BY <2>18 DEF TakeOn, OnSem
  <2>19. ASSUME NEW led \in Leds, TakeOff(led) PROVE BootInv'
    BY <2>19 DEF TakeOff, OffSem
  <2>20. CASE UNCHANGED vars
    BY <2>20 DEF vars
  <2> QED
    BY <2>1, <2>2, <2>3, <2>4, <2>5, <2>6, <2>7, <2>8, <2>9, <2>10,
       <2>11, <2>12, <2>13, <2>14, <2>15, <2>16, <2>17, <2>18, <2>19, <2>20
    DEF Next, MainStep, GpioStep, SetState, Blink
<1> QED
  BY <1>1, <1>2, TypeCorrect, PTL DEF Spec

\* No semaphore is given before it exists, although the button works before
\* mc_state_init (led.c, mc_led_set_state).
THEOREM SemaphoresCreated == Spec => []GivesOnlyCreated
<1>1. TypeOK /\ BootInv => GivesOnlyCreated
  BY DEF TypeOK, BootInv, GivesOnlyCreated, Tasks, GpioPcs, SetStatePcs, BootPcs
<1> QED
  BY <1>1, TypeCorrect, BootOrder, PTL

-----------------------------------------------------------------------------

\* What a task holds between its read of the mode and its write: unless the mode
\* has entered or left DEEP since, main holds a mode on the same side of DEEP as
\* the current one, and gpio one on the other side.  A task is stale only there.
WindowInv ==
    /\ HoldsRead("main") /\ "main" \notin stale => (mode = "DEEP" <=> arg["main"] = "DEEP")
    /\ HoldsRead("gpio") /\ "gpio" \notin stale => (mode = "DEEP" <=> arg["gpio"] # "DEEP")
    /\ \A t \in stale : HoldsRead(t)

\* A mode read is stale only if the mode has crossed DEEP since.
LEMMA Window == Spec => []WindowInv
<1> USE DEF Modes, Tasks, Leds, Sensors, Sems, GreenSems, BootPcs, SetStatePcs, MainPcs, GpioPcs
<1>1. Init => WindowInv
  BY DEF Init, WindowInv, HoldsRead, BootWrite
<1>2. TypeOK /\ BootInv /\ WindowInv /\ [Next]_vars => WindowInv'
  <2> SUFFICES ASSUME TypeOK, BootInv, WindowInv, [Next]_vars PROVE WindowInv'
    OBVIOUS
  <2> USE DEF TypeOK, BootInv, WindowInv, HoldsRead, BootWrite, Goto
  <2>1. CASE StartBlinkTasks
    BY <2>1 DEF StartBlinkTasks, AfterBoot
  <2>2. CASE CreateSemaphores
    BY <2>2 DEF CreateSemaphores, AfterBoot
  <2>3. CASE InitGpio
    BY <2>3 DEF InitGpio, AfterBoot
  <2>4. CASE Preprocess
    BY <2>4 DEF Preprocess, CallSetState
  <2>5. CASE HighPower
    BY <2>5 DEF HighPower
  <2>6. CASE Collect
    BY <2>6 DEF Collect
  <2>7. CASE EnterSleep
    BY <2>7 DEF EnterSleep, CallSetState
  <2>8. CASE LowPower
    BY <2>8 DEF LowPower
  <2>9. CASE WakeFromDeep
    BY <2>9 DEF WakeFromDeep
  <2>10. CASE WakeFromLight
    BY <2>10 DEF WakeFromLight
  <2>11. CASE ReceiveEvent
    BY <2>11 DEF ReceiveEvent
  <2>12. CASE ToggleRead
    BY <2>12 DEF ToggleRead
  <2>13. CASE Press
    BY <2>13 DEF Press
  <2>14. ASSUME NEW t \in Tasks, WriteMode(t) PROVE WindowInv'
    BY <2>14 DEF WriteMode, Other
  <2>15. ASSUME NEW t \in Tasks, ApplyMode(t) PROVE WindowInv'
    BY <2>15 DEF ApplyMode
  <2>16. ASSUME NEW t \in Tasks, GiveGreen(t) PROVE WindowInv'
    BY <2>16 DEF GiveGreen, GreenSem
  <2>17. ASSUME NEW t \in Tasks, GiveRed(t) PROVE WindowInv'
    BY <2>17 DEF GiveRed, RedSem
  <2>18. ASSUME NEW led \in Leds, TakeOn(led) PROVE WindowInv'
    BY <2>18 DEF TakeOn, OnSem
  <2>19. ASSUME NEW led \in Leds, TakeOff(led) PROVE WindowInv'
    BY <2>19 DEF TakeOff, OffSem
  <2>20. CASE UNCHANGED vars
    BY <2>20 DEF vars
  <2> QED
    BY <2>1, <2>2, <2>3, <2>4, <2>5, <2>6, <2>7, <2>8, <2>9, <2>10,
       <2>11, <2>12, <2>13, <2>14, <2>15, <2>16, <2>17, <2>18, <2>19, <2>20
    DEF Next, MainStep, GpioStep, SetState, Blink
<1> QED
  BY <1>1, <1>2, TypeCorrect, BootOrder, PTL DEF Spec

\* A press is lost, or undone, only in a window between check and write
\* (app_main.c, collection_preprocessor and enter_sleep; state.c), or by the
\* write of mc_state_init, which checks nothing.
THEOREM PressLost == Spec => PressLostOnlyWhenStale
<1>1. TypeOK /\ WindowInv /\ [Next]_vars
        => [\A t \in Tasks : WriteMode(t) =>
               t \in stale \/ (t = "main" /\ BootWrite) \/ Toggles(t)]_vars
  BY DEF TypeOK, WindowInv, HoldsRead, BootWrite, WriteMode, Toggles, Tasks, Modes
<1> QED
  BY <1>1, TypeCorrect, Window, PTL DEF Spec, PressLostOnlyWhenStale

-----------------------------------------------------------------------------

\* A sample was taken in a mode that is DEEP ever since: main is on its way to
\* the polling loop, or in it.
SampleInv ==
    /\ samples <= 1
    /\ samples = 1 =>
         /\ mode = "DEEP"
         /\ pc["main"] \in {"enterSleep", "lowPower", "deepPoll"} \cup SetStatePcs
         /\ pc["main"] \in SetStatePcs => ret = "lowPower"

\* A mode that stays DEEP costs at most one more sample (app_main.c, the loop).
THEOREM OneSample == Spec => []OneSampleAfterDeep
<1> USE DEF Modes, Tasks, Leds, Sensors, Sems, GreenSems, BootPcs, SetStatePcs, MainPcs, GpioPcs
<1>1. Init => SampleInv
  BY DEF Init, SampleInv
<1>2. TypeOK /\ SampleInv /\ [Next]_vars => SampleInv'
  <2> SUFFICES ASSUME TypeOK, SampleInv, [Next]_vars PROVE SampleInv'
    OBVIOUS
  <2> USE DEF TypeOK, SampleInv, Goto
  <2>1. CASE StartBlinkTasks
    BY <2>1 DEF StartBlinkTasks, AfterBoot
  <2>2. CASE CreateSemaphores
    BY <2>2 DEF CreateSemaphores, AfterBoot
  <2>3. CASE InitGpio
    BY <2>3 DEF InitGpio, AfterBoot
  <2>4. CASE Preprocess
    BY <2>4 DEF Preprocess, CallSetState
  <2>5. CASE HighPower
    BY <2>5 DEF HighPower
  <2>6. CASE Collect
    BY <2>6 DEF Collect
  <2>7. CASE EnterSleep
    BY <2>7 DEF EnterSleep, CallSetState
  <2>8. CASE LowPower
    BY <2>8 DEF LowPower
  <2>9. CASE WakeFromDeep
    BY <2>9 DEF WakeFromDeep
  <2>10. CASE WakeFromLight
    BY <2>10 DEF WakeFromLight
  <2>11. CASE ReceiveEvent
    BY <2>11 DEF ReceiveEvent
  <2>12. CASE ToggleRead
    BY <2>12 DEF ToggleRead
  <2>13. CASE Press
    BY <2>13 DEF Press
  <2>14. ASSUME NEW t \in Tasks, WriteMode(t) PROVE SampleInv'
    BY <2>14 DEF WriteMode, Other
  <2>15. ASSUME NEW t \in Tasks, ApplyMode(t) PROVE SampleInv'
    BY <2>15 DEF ApplyMode
  <2>16. ASSUME NEW t \in Tasks, GiveGreen(t) PROVE SampleInv'
    BY <2>16 DEF GiveGreen, GreenSem
  <2>17. ASSUME NEW t \in Tasks, GiveRed(t) PROVE SampleInv'
    BY <2>17 DEF GiveRed, RedSem
  <2>18. ASSUME NEW led \in Leds, TakeOn(led) PROVE SampleInv'
    BY <2>18 DEF TakeOn, OnSem
  <2>19. ASSUME NEW led \in Leds, TakeOff(led) PROVE SampleInv'
    BY <2>19 DEF TakeOff, OffSem
  <2>20. CASE UNCHANGED vars
    BY <2>20 DEF vars
  <2> QED
    BY <2>1, <2>2, <2>3, <2>4, <2>5, <2>6, <2>7, <2>8, <2>9, <2>10,
       <2>11, <2>12, <2>13, <2>14, <2>15, <2>16, <2>17, <2>18, <2>19, <2>20
    DEF Next, MainStep, GpioStep, SetState, Blink
<1>3. SampleInv => OneSampleAfterDeep
  BY DEF SampleInv, OneSampleAfterDeep
<1> QED
  BY <1>1, <1>2, <1>3, TypeCorrect, PTL DEF Spec

=============================================================================
