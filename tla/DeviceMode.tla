---------------------------- MODULE DeviceMode ----------------------------
(***************************************************************************)
(* The operating mode of the tracker and everything that shares it:        *)
(*                                                                         *)
(*   main   the task that runs app_main: boot, then the loop that samples  *)
(*          the sensors and sleeps (app_main.c)                            *)
(*   gpio   the task that toggles deep sleep for each button event (gpio.c)*)
(*   ISR    the button's interrupt, which feeds gpio's event queue         *)
(*   green, red  the tasks that blink the LEDs (led.c)                     *)
(*                                                                         *)
(* mode (state.c) is an unlocked static variable that main and gpio both   *)
(* read and write; the two tell the blink tasks about it through four      *)
(* binary semaphores.  One step here is one access to shared memory or one *)
(* call of the kernel.  The firmware is built for both cores of the ESP32, *)
(* so the steps of all tasks interleave freely.                            *)
(***************************************************************************)
EXTENDS Naturals, Sequences

CONSTANTS
    QueueLen,     \* capacity of the button's event queue (10 in gpio.c)
    BusMayFail    \* whether an I2C write to a sensor can fail

ASSUME QueueLenAssumption == QueueLen \in Nat \ {0}

ASSUME BusMayFailAssumption == BusMayFail \in BOOLEAN

VARIABLES
    mode,      \* the shared mode
    pc,        \* next step of main and of gpio
    arg,       \* the mode each of them holds in a register
    ret,       \* where main continues after mc_state_set_state
    powered,   \* sensors in their high power mode
    evtQueue,  \* number of button events in gpio's queue
    sem,       \* the binary semaphores; "null" until created
    ledPc,     \* next step of each blink task
    lit,       \* LEDs whose flag is set: active_mode (green), deep_sleep (red)
    stale,     \* ghost: tasks between a read of the mode and the write that
               \*   follows it, since whose read it entered or left DEEP
    samples    \* ghost: samples taken since the mode last became DEEP, up to 2

vars == <<mode, pc, arg, ret, powered, evtQueue, sem, ledPc, lit, stale, samples>>

-----------------------------------------------------------------------------

Modes == {"ACTIVE", "LIGHT", "DEEP"}

Tasks == {"main", "gpio"}

Other(t) == IF t = "main" THEN "gpio" ELSE "main"

Leds == {"green", "red"}

Sensors == {"uv", "accel"}

GreenSems == {"GreenActiveOn", "GreenActiveOff"}

Sems == GreenSems \cup {"RedDeepSleepOn", "RedDeepSleepOff"}

\* The semaphores the two blink tasks poll.
OnSem(led) == IF led = "green" THEN "GreenActiveOn" ELSE "RedDeepSleepOn"

OffSem(led) == IF led = "green" THEN "GreenActiveOff" ELSE "RedDeepSleepOff"

\* The semaphores mc_led_set_state(m) gives: a green one, then a red one.
GreenSem(m) == IF m = "ACTIVE" THEN "GreenActiveOn" ELSE "GreenActiveOff"

RedSemMutant(m) ==      \* mutant: light sleep shows as deep sleep
     IF m = "ACTIVE" THEN "RedDeepSleepOff" ELSE "RedDeepSleepOn"

RedSem(m) == IF m = "DEEP" THEN "RedDeepSleepOn" ELSE "RedDeepSleepOff"

-----------------------------------------------------------------------------

\* The step of program_init after each of mc_led_init's two (blink tasks, then
\* semaphores) and mc_gpio_init; "write" is the assignment of mc_state_init.
AfterBootMutant(step) ==  \* mutant: mc_led_init after mc_gpio_init
    CASE step = "ledTasks" -> "gpioInit"
      [] step = "gpioInit" -> "ledSems"
      [] step = "ledSems"  -> "write"

AfterBoot(step) ==
    CASE step = "ledTasks" -> "ledSems"
      [] step = "ledSems"  -> "gpioInit"
      [] step = "gpioInit" -> "write"

BootPcs == {"ledTasks", "ledSems", "gpioInit"}

SetStatePcs == {"write", "apply", "giveGreen", "giveRed"}

MainPcs == BootPcs \cup SetStatePcs \cup
    {"pre", "highPower", "collect", "enterSleep", "lowPower", "deepPoll", "lightSleep"}

GpioPcs == SetStatePcs \cup {"off", "receive", "toggle"}

Init ==
    /\ mode = "ACTIVE"                     \* zero-initialised
    /\ pc = [main |-> "ledTasks", gpio |-> "off"]
    /\ arg = [t \in Tasks |-> "ACTIVE"]    \* main's is the one of mc_state_init
    /\ ret = "pre"
    /\ powered = Sensors                   \* mc_uv_init, mc_accelerometer_init
    /\ evtQueue = 0
    /\ sem = [s \in Sems |-> "null"]
    /\ ledPc = [l \in Leds |-> "off"]
    /\ lit = {}
    /\ stale = {}
    /\ samples = 0

\* Task t goes on at label.
Goto(t, label) == pc' = [pc EXCEPT ![t] = label]

-----------------------------------------------------------------------------
(***************************************************************************)
(* state.c, run by main (mc_state_init, mc_state_set_state) and by gpio    *)
(* (mc_state_toggle_deep).                                                 *)
(***************************************************************************)

\* main is at the assignment of mc_state_init, which nothing was read for.
BootWrite == pc["main"] = "write" /\ ret = "pre"

\* Task t has read the mode and is about to assign to it what it made of that.
HoldsRead(t) == pc[t] = "write" /\ ~(t = "main" /\ BootWrite)

\* The assignment to mode.
WriteMode(t) ==
    /\ pc[t] = "write"
    /\ mode' = arg[t]
    /\ stale' = IF (mode = "DEEP") # (arg[t] = "DEEP")
                THEN {o \in {Other(t)} : HoldsRead(o)}
                ELSE stale \ {t}
    /\ samples' = IF mode = "DEEP" /\ arg[t] = "DEEP" THEN samples ELSE 0
    /\ Goto(t, "apply")
    /\ UNCHANGED <<arg, ret, powered, evtQueue, sem, ledPc, lit>>

\* mc_state_apply passes mode on.  mode is not volatile: the compiler may load
\* it again or pass on the value just stored.
ApplyMode(t) ==
    /\ pc[t] = "apply"
    /\ \E m \in {mode, arg[t]} : arg' = [arg EXCEPT ![t] = m]
    /\ Goto(t, "giveGreen")
    /\ UNCHANGED <<mode, ret, powered, evtQueue, sem, ledPc, lit, stale, samples>>

\* mc_led_set_state: a give of a semaphore already given has no effect.
GiveGreen(t) ==
    /\ pc[t] = "giveGreen"
    /\ sem' = [sem EXCEPT ![GreenSem(arg[t])] = "given"]
    /\ Goto(t, "giveRed")
    /\ UNCHANGED <<mode, arg, ret, powered, evtQueue, ledPc, lit, stale, samples>>

GiveRed(t) ==
    /\ pc[t] = "giveRed"
    /\ sem' = [sem EXCEPT ![RedSem(arg[t])] = "given"]
    /\ Goto(t, IF t = "main" THEN ret ELSE "receive")
    /\ UNCHANGED <<mode, arg, ret, powered, evtQueue, ledPc, lit, stale, samples>>

SetState(t) == WriteMode(t) \/ ApplyMode(t) \/ GiveGreen(t) \/ GiveRed(t)

\* A call of mc_state_set_state(m) by main, which then goes on at label.
CallSetState(m, label) ==
    /\ arg' = [arg EXCEPT !["main"] = m]
    /\ ret' = label
    /\ Goto("main", "write")

-----------------------------------------------------------------------------
(***************************************************************************)
(* app_main.c: boot.                                                       *)
(***************************************************************************)

\* mc_led_init starts the blink tasks before it creates their semaphores.
StartBlinkTasks ==
    /\ pc["main"] = "ledTasks"
    /\ ledPc' = [l \in Leds |-> "takeOn"]
    /\ Goto("main", AfterBoot("ledTasks"))
    /\ UNCHANGED <<mode, arg, ret, powered, evtQueue, sem, lit, stale, samples>>

CreateSemaphores ==
    /\ pc["main"] = "ledSems"
    /\ sem' = [s \in Sems |-> "empty"]
    /\ Goto("main", AfterBoot("ledSems"))
    /\ UNCHANGED <<mode, arg, ret, powered, evtQueue, ledPc, lit, stale, samples>>

\* mc_gpio_init: event queue, gpio task and interrupt.  From here on the button
\* works, although mc_state_init has not run yet.
InitGpio ==
    /\ pc["main"] = "gpioInit"
    /\ pc' = [pc EXCEPT !["main"] = AfterBoot("gpioInit"), !["gpio"] = "receive"]
    /\ UNCHANGED <<mode, arg, ret, powered, evtQueue, sem, ledPc, lit, stale, samples>>

-----------------------------------------------------------------------------
(***************************************************************************)
(* app_main.c: the loop.                                                   *)
(***************************************************************************)

PreprocessMutant ==     \* mutant: ACTIVE is set whatever the mode is
    /\ pc["main"] = "pre"
    /\ CallSetState("ACTIVE", "highPower")
    /\ UNCHANGED <<mode, powered, evtQueue, sem, ledPc, lit, stale, samples>>

\* collection_preprocessor
Preprocess ==
    /\ pc["main"] = "pre"
    /\ IF mode # "DEEP" THEN CallSetState("ACTIVE", "highPower")
                        ELSE Goto("main", "highPower") /\ UNCHANGED <<arg, ret>>
    /\ UNCHANGED <<mode, powered, evtQueue, sem, ledPc, lit, stale, samples>>

\* set_low_power_mode and set_high_power_mode: one I2C write per sensor, whose
\* result is ignored.
Written == IF BusMayFail THEN SUBSET Sensors ELSE {Sensors}

HighPowerMutant ==      \* mutant: the accelerometer is left in its low power mode
    /\ pc["main"] = "highPower"
    /\ \E written \in Written : powered' = powered \cup (written \ {"accel"})
    /\ Goto("main", "collect")
    /\ UNCHANGED <<mode, arg, ret, evtQueue, sem, ledPc, lit, stale, samples>>

HighPower ==
    /\ pc["main"] = "highPower"
    /\ \E written \in Written : powered' = powered \cup written
    /\ Goto("main", "collect")
    /\ UNCHANGED <<mode, arg, ret, evtQueue, sem, ledPc, lit, stale, samples>>

\* collect_data, handle_data (mc_network_transmit returns at once) and
\* collection_postprocessor: nothing here touches the mode.
Collect ==
    /\ pc["main"] = "collect"
    /\ samples' = IF mode = "DEEP" /\ samples < 2 THEN samples + 1 ELSE samples
    /\ Goto("main", "enterSleep")
    /\ UNCHANGED <<mode, arg, ret, powered, evtQueue, sem, ledPc, lit, stale>>

EnterSleepMutant ==     \* mutant: every sleep is a light one
    /\ pc["main"] = "enterSleep"
    /\ CallSetState(mode, "lightSleep")
    /\ UNCHANGED <<mode, powered, evtQueue, sem, ledPc, lit, stale, samples>>

\* enter_sleep: each kind of sleep first sets its own mode.
EnterSleep ==
    /\ pc["main"] = "enterSleep"
    /\ IF mode = "DEEP" THEN CallSetState("DEEP", "lowPower")
                        ELSE CallSetState("LIGHT", "lightSleep")
    /\ UNCHANGED <<mode, powered, evtQueue, sem, ledPc, lit, stale, samples>>

LowPower ==
    /\ pc["main"] = "lowPower"
    /\ \E written \in Written : powered' = powered \ written
    /\ Goto("main", "deepPoll")
    /\ UNCHANGED <<mode, arg, ret, evtQueue, sem, ledPc, lit, stale, samples>>

\* enter_deep_sleep polls the mode every 200 ms.
WakeFromDeep ==
    /\ pc["main"] = "deepPoll"
    /\ mode # "DEEP"
    /\ Goto("main", "pre")
    /\ UNCHANGED <<mode, arg, ret, powered, evtQueue, sem, ledPc, lit, stale, samples>>

\* enter_light_sleep: the delay ends whatever the mode is by then.
WakeFromLight ==
    /\ pc["main"] = "lightSleep"
    /\ Goto("main", "pre")
    /\ UNCHANGED <<mode, arg, ret, powered, evtQueue, sem, ledPc, lit, stale, samples>>

MainStep ==
    \/ StartBlinkTasks \/ CreateSemaphores \/ InitGpio
    \/ Preprocess \/ HighPower \/ Collect \/ EnterSleep
    \/ LowPower \/ WakeFromDeep \/ WakeFromLight
    \/ SetState("main")

-----------------------------------------------------------------------------
(***************************************************************************)
(* gpio.c and led.c.                                                       *)
(***************************************************************************)

\* gpio_isr_handler, for a press that passes the debounce test: the event is
\* lost when the queue is full.
Press ==
    /\ pc["gpio"] # "off"
    /\ evtQueue' = IF evtQueue < QueueLen THEN evtQueue + 1 ELSE evtQueue
    /\ UNCHANGED <<mode, pc, arg, ret, powered, sem, ledPc, lit, stale, samples>>

\* gpio_deep_sleep_task
ReceiveEvent ==
    /\ pc["gpio"] = "receive"
    /\ evtQueue > 0
    /\ evtQueue' = evtQueue - 1
    /\ Goto("gpio", "toggle")
    /\ UNCHANGED <<mode, arg, ret, powered, sem, ledPc, lit, stale, samples>>

\* The read of mode in mc_state_toggle_deep.
ToggleRead ==
    /\ pc["gpio"] = "toggle"
    /\ arg' = [arg EXCEPT !["gpio"] = IF mode # "DEEP" THEN "DEEP" ELSE "ACTIVE"]
    /\ Goto("gpio", "write")
    /\ UNCHANGED <<mode, ret, powered, evtQueue, sem, ledPc, lit, stale, samples>>

GpioStep == ReceiveEvent \/ ToggleRead \/ SetState("gpio")

\* green_led_blink_task and red_led_blink_task: each round first takes the On
\* semaphore, then the Off one, and then shows the outcome for a while.
TakeOn(led) ==
    /\ ledPc[led] = "takeOn"
    /\ IF sem[OnSem(led)] = "given"
       THEN /\ sem' = [sem EXCEPT ![OnSem(led)] = "empty"]
            /\ lit' = lit \cup {led}
       ELSE UNCHANGED <<sem, lit>>
    /\ ledPc' = [ledPc EXCEPT ![led] = "takeOff"]
    /\ UNCHANGED <<mode, pc, arg, ret, powered, evtQueue, stale, samples>>

TakeOff(led) ==
    /\ ledPc[led] = "takeOff"
    /\ IF sem[OffSem(led)] = "given"
       THEN /\ sem' = [sem EXCEPT ![OffSem(led)] = "empty"]
            /\ lit' = lit \ {led}
       ELSE UNCHANGED <<sem, lit>>
    /\ ledPc' = [ledPc EXCEPT ![led] = "takeOn"]
    /\ UNCHANGED <<mode, pc, arg, ret, powered, evtQueue, stale, samples>>

Blink(led) == TakeOn(led) \/ TakeOff(led)

-----------------------------------------------------------------------------

Next == MainStep \/ GpioStep \/ Press \/ \E led \in Leds : Blink(led)

\* The kernel runs every task that is ready: the delays of main and of the
\* blink tasks end, and gpio's receive returns when there is an event.
\* Nobody has to press the button.
Fairness ==
    /\ WF_vars(MainStep)
    /\ WF_vars(GpioStep)
    /\ \A led \in Leds : WF_vars(Blink(led))

Spec == Init /\ [][Next]_vars

FairSpec == Spec /\ Fairness

-----------------------------------------------------------------------------

TypeOK ==
    /\ mode \in Modes
    /\ pc \in [Tasks -> MainPcs \cup GpioPcs]
    /\ pc["main"] \in MainPcs
    /\ pc["gpio"] \in GpioPcs
    /\ arg \in [Tasks -> Modes]
    /\ ret \in {"pre", "highPower", "lowPower", "lightSleep"}
    /\ powered \subseteq Sensors
    /\ evtQueue \in 0..QueueLen
    /\ sem \in [Sems -> {"null", "empty", "given"}]
    /\ ledPc \in [Leds -> {"off", "takeOn", "takeOff"}]
    /\ lit \subseteq Leds
    /\ stale \subseteq Tasks
    /\ samples \in 0..2

\* mc_led_set_state gives the semaphores without a NULL check, and the button
\* works before mc_state_init: whoever gives one finds it created.
GivesOnlyCreated ==
    \A t \in Tasks : pc[t] \in {"giveGreen", "giveRed"} =>
        \A s \in Sems : sem[s] # "null"

\* A press that reached the mode costs at most one more sample before the
\* device sleeps: main never starts a second one while the mode stays DEEP.
OneSampleAfterDeep == samples <= 1

\* A write of the mode enters or leaves DEEP exactly when gpio does it, for one
\* event of the button: main's writes keep DEEP what is DEEP and the rest not.
Toggles(t) == (mode = "DEEP") # (arg[t] = "DEEP") <=> t = "gpio"

\* There are two ways to lose a press (or undo one).  Either the other task moved
\* the mode into or out of DEEP between this task's read of it and this write; or
\* the write is the one of mc_state_init, which sets ACTIVE without any read,
\* although the button works since mc_gpio_init.  Every later write of main
\* leaves a press alone, and every write of gpio is one.
PressLostOnlyWhenStale ==
    [][\A t \in Tasks : WriteMode(t) =>
          t \in stale \/ (t = "main" /\ BootWrite) \/ Toggles(t)]_vars

\* gpio is blocked on an empty queue.
GpioIdle == pc["gpio"] = "receive" /\ evtQueue = 0

\* A device left in deep sleep mode ends up polling with its sensors powered
\* down (as long as the bus works), and stays there.
EventuallyAsleep ==
    <>[](mode = "DEEP") =>
        <>[](pc["main"] = "deepPoll" /\ powered = {})

\* A device that stays out of deep sleep mode takes samples for ever, with its
\* sensors powered up.
KeepsSampling ==
    <>[](mode # "DEEP") =>
        []<>(pc["main"] = "collect" /\ powered = Sensors)

\* Once the presses stop with the device awake, the red LED recovers from any
\* mix of semaphores the race left behind: main's loop gives Off again and
\* again, and the LED ends up showing that the device is not in deep sleep.
Shows(led, on) == ledPc[led] = "takeOn" => (led \in lit) = on

RedRecoversAwake ==
    <>[](mode # "DEEP" /\ GpioIdle) => <>[]Shows("red", FALSE)

=============================================================================
