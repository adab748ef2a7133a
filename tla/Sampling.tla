----------------------------- MODULE Sampling -----------------------------
(***************************************************************************)
(* The main task and its I2C sensors: what app_main.c's collect_data makes *)
(* of the accelerometer (accelerometer.c), the UV sensor (uv.c) and the    *)
(* temperature sensor (temphumid.c), round after round, when any transfer  *)
(* on the bus may fail.  The sensors' registers are state of their own     *)
(* (external); config and raw_* are the driver's copies.                   *)
(*                                                                         *)
(* A failed transfer is "lost" when the sensor saw nothing of it, "cut"    *)
(* when it did what it was asked and only the master saw the error.  A     *)
(* reading is in hundredths of its unit.                                   *)
(***************************************************************************)
EXTENDS Integers, Sequences

CONSTANTS RawReadings,   \* bound: what the temperature sensor may answer, 16 bits
          Lights         \* bound: what the UV sensor's registers may hold at a poll

Word == {n \in Nat : n < 65536}
Channels == {"uva", "uvb", "dark", "vis", "ir"}

ASSUME RawAssumption == RawReadings \subseteq Word
ASSUME LightsAssumption == Lights \subseteq [Channels -> Word]

VARIABLES pc, step,         \* the main task's place; step is the accelerometer's initialisation's
          config, raw,      \* uv.c's variables: config as its bits, raw_* as one function
          uvConf,           \* the UV sensor's configuration register
          acc, source,      \* the accelerometer's registers and its interrupt source bit
          data,             \* app_main.c's data, the fields that sensors fill
          polled,           \* history: the light at the last poll, and its reads that worked
          wrote,            \* history: the sensors whose last power command worked
          unreported        \* history: a movement not yet reported, nor read by a failed transfer

uv == <<config, raw, uvConf, polled>>
accel == <<acc, source, unreported>>
vars == <<pc, step, uv, accel, data, wrote>>

Outcomes == {"ok", "lost", "cut"}
Registers == 32..51

\* get_temperature and get_humidity: a failed transfer and a raw value of nothing but
\* status bits are failures; collect_data puts 0 for a failure.
Celsius(r) == (17572 * r) \div 65536 - 4685
Percent(r) == (12500 * r) \div 65536 - 600
Temperature(outcome, r) == IF outcome = "ok" /\ r \div 4 # 0 THEN Celsius(r) ELSE 0
Humidity(outcome, r) == IF outcome = "ok" /\ r \div 2 # 0 THEN Percent(r) ELSE 0

TypeOK ==
    /\ pc \in {"uvInit", "accInit", "uvOn", "accOn", "poll", "check", "sample", "handle", "uvOff", "accOff", "deep"}
    /\ step \in 0..4
    /\ config \subseteq {"SD", "IT_100MS"} /\ uvConf \subseteq {"SD", "IT_100MS"}
    /\ raw \in [Channels -> Word]
    /\ acc \in [Registers -> 0..255] /\ source \in BOOLEAN
    /\ data.newData \in BOOLEAN /\ data.outside \in BOOLEAN
    /\ data.temperature \in {0} \cup {Celsius(r) : r \in RawReadings \ 0..3}
    /\ data.humidity \in {0} \cup {Percent(r) : r \in RawReadings \ 0..1}
    /\ polled \in [light : [Channels -> Word], ok : SUBSET Channels]
    /\ wrote \subseteq {"uv", "acc"} /\ unreported \in BOOLEAN

EmptyDataStruct == [newData |-> FALSE, temperature |-> 0, humidity |-> 0, outside |-> FALSE]

\* The sensors as they are after their own reset; the accelerometer measures slowly
\* or not at all, with no interrupt configured.
Init ==
    /\ pc = "uvInit" /\ step = 0
    /\ config = {} /\ raw = [c \in Channels |-> 0] /\ uvConf \in {{}, {"SD"}}
    /\ acc = [r \in Registers |-> 0] /\ source = FALSE
    /\ data = EmptyDataStruct
    /\ polled = [light |-> raw, ok |-> {}] /\ wrote = {} /\ unreported = FALSE

-----------------------------------------------------------------------------
(* uv.c *)

CreateConfigMutant(powerMode) ==     \* mutant: config is not cleared first
    config \cup (IF powerMode THEN {} ELSE {"SD"}) \cup {"IT_100MS"}

\* create_config: the shut-down bit is 0 for on.
CreateConfig(powerMode) == (IF powerMode THEN {} ELSE {"SD"}) \cup {"IT_100MS"}

\* set_config: what a write of the new configuration leaves in the sensor.
SetConfig(outcome) == uvConf' = IF outcome = "lost" THEN uvConf ELSE config'

\* mc_uv_init: the configuration is written only if the identity reads right, and
\* neither failure is told to anyone.
UvInit ==
    /\ pc = "uvInit" /\ pc' = "accInit"
    /\ config' = CreateConfig(TRUE)
    /\ \/ uvConf' = uvConf
       \/ \E outcome \in Outcomes : SetConfig(outcome)
    /\ UNCHANGED <<step, raw, polled, accel, data, wrote>>

\* mc_uv_set_powermode, from set_high_power_mode or set_low_power_mode.
UvPower(from, to, powerMode) ==
    /\ pc = from /\ pc' = to
    /\ config' = CreateConfig(powerMode)
    /\ \E outcome \in Outcomes :
          /\ SetConfig(outcome)
          /\ wrote' = IF outcome = "ok" THEN wrote \cup {"uv"} ELSE wrote \ {"uv"}
    /\ UNCHANGED <<step, raw, polled, accel, data>>

Read16Mutant(channel, light, ok) ==     \* mutant: a failed read leaves the old value
    IF channel \in ok THEN light[channel] ELSE raw[channel]

\* read_16 returns 0 for a failed transfer.
Read16(channel, light, ok) == IF channel \in ok THEN light[channel] ELSE 0

\* mc_uv_poll: five transfers, of which those in ok work.
Poll ==
    /\ pc = "poll" /\ pc' = "check"
    /\ \E light \in Lights, ok \in SUBSET Channels :
          /\ raw' = [c \in Channels |-> Read16(c, light, ok)]
          /\ polled' = [light |-> light, ok |-> ok]
    /\ UNCHANGED <<step, config, uvConf, accel, data, wrote>>

\* mc_uv_get_uva and mc_uv_get_uvb for given counts, and mc_uv_check_outside.
Compensated(counts, channel, visCoeff, irCoeff) ==
    100 * (counts[channel] - counts["dark"])
        - (visCoeff * (counts["vis"] - counts["dark"]) - irCoeff * (counts["ir"] - counts["dark"]))
Uva(counts) == Compensated(counts, "uva", 333, 250)
Uvb(counts) == Compensated(counts, "uvb", 366, 275)
CheckOutside == Uva(raw) > 15000 /\ Uvb(raw) > 15000

-----------------------------------------------------------------------------
(* accelerometer.c *)

\* write_reg_single, write_reg_multiple: values go to registers from base on.
Written(base, values, outcome) ==
    IF outcome = "lost" THEN acc
    ELSE [r \in Registers |-> IF r - base + 1 \in DOMAIN values THEN values[r - base + 1] ELSE acc[r]]

InitWritesMutant ==     \* mutant: the interrupt is not latched
    << <<32, <<47, 1, 64, 0, 0, 0>>>>, <<48, <<10>>>>, <<50, <<2>>>>, <<51, <<2>>>> >>

\* What mc_accelerometer_init writes: six control registers (0x20..0x25), the
\* interrupt's configuration (0x30), threshold (0x32) and duration (0x33).
InitWrites == << <<32, <<47, 1, 64, 0, 8, 0>>>>, <<48, <<10>>>>, <<50, <<2>>>>, <<51, <<2>>>> >>

\* mc_accelerometer_init: step 0 looks for the sensor; the first failure ends it,
\* and nothing tries again.
AccInit ==
    /\ pc = "accInit"
    /\ \E outcome \in Outcomes :
          /\ IF outcome = "ok" /\ step < Len(InitWrites)
             THEN step' = step + 1 /\ pc' = "accInit"
             ELSE step' = 0 /\ pc' = "uvOn"
          /\ acc' = IF step = 0 THEN acc ELSE Written(InitWrites[step][1], InitWrites[step][2], outcome)
    /\ UNCHANGED <<uv, source, unreported, data, wrote>>

\* mc_accelerometer_set_powermode: 0x2F or 0x0F to control register 0x20.
AccPower(from, to, powerMode) ==
    /\ pc = from /\ pc' = to
    /\ \E outcome \in Outcomes :
          /\ acc' = Written(32, <<IF powerMode THEN 47 ELSE 15>>, outcome)
          /\ wrote' = IF outcome = "ok" THEN wrote \cup {"acc"} ELSE wrote \ {"acc"}
    /\ UNCHANGED <<step, uv, source, unreported, data>>

Running == acc[32] \div 16 # 0
Armed == Running /\ acc[48] # 0
Latched == acc[36] \div 8 % 2 = 1

\* The device is moved: a running accelerometer with its interrupt set up notices.
\* A source that is not latched is gone again when the movement is over.
Move == /\ Armed /\ source' \in {TRUE, Latched} /\ unreported' = TRUE
        /\ UNCHANGED <<pc, step, uv, acc, data, wrote>>

\* collect_data clears data and reads the interrupt source, which clears a latched
\* one; a failed read counts as no movement.
CheckInterrupt ==
    /\ pc = "check"
    /\ \E outcome \in Outcomes :
          /\ data' = [EmptyDataStruct EXCEPT !.newData = outcome = "ok" /\ source]
          /\ source' = IF outcome = "lost" \/ ~Latched THEN source ELSE FALSE
          /\ unreported' = (unreported /\ (outcome = "lost" \/ (outcome = "ok" /\ ~source)))
    /\ pc' = IF data'.newData THEN "sample" ELSE "handle"
    /\ UNCHANGED <<step, uv, acc, wrote>>

-----------------------------------------------------------------------------
(* app_main.c *)

\* The rest of collect_data, for a device that has moved.
Sample ==
    /\ pc = "sample" /\ pc' = "handle"
    /\ \E t, h \in {"ok", "lost"}, rt, rh \in RawReadings :
          data' = [data EXCEPT !.temperature = Temperature(t, rt), !.humidity = Humidity(h, rh),
                               !.outside = CheckOutside]
    /\ UNCHANGED <<step, uv, accel, wrote>>

\* handle_data, then enter_sleep: a light sleep leaves the sensors on, a deep one
\* does not (the mode is DeviceMode's).
HandleData == /\ pc = "handle" /\ pc' \in {"uvOn", "uvOff"}
              /\ UNCHANGED <<step, uv, accel, data, wrote>>

\* The deep sleep ends.
WakeUp == /\ pc = "deep" /\ pc' = "uvOn"
          /\ UNCHANGED <<step, uv, accel, data, wrote>>

SetHighPowerMode == UvPower("uvOn", "accOn", TRUE) \/ AccPower("accOn", "poll", TRUE)
SetLowPowerMode == UvPower("uvOff", "accOff", FALSE) \/ AccPower("accOff", "deep", FALSE)

Next == \/ UvInit \/ AccInit \/ SetHighPowerMode \/ Poll \/ CheckInterrupt \/ Sample
        \/ HandleData \/ SetLowPowerMode \/ WakeUp \/ Move

Spec == Init /\ [][Next]_vars

-----------------------------------------------------------------------------
\* After any sequence of rounds, deep sleeps and failed transfers, a sensor whose
\* last power command worked is on when the device samples and off while it is in
\* deep sleep: no earlier failure and no earlier mode lingers in config or in a
\* sensor's register.
SensorsFollowMode ==
    /\ pc \in {"poll", "check"} => /\ "uv" \in wrote => "SD" \notin uvConf
                                   /\ "acc" \in wrote => Running
    /\ pc = "deep" => /\ "uv" \in wrote => "SD" \in uvConf
                      /\ "acc" \in wrote => ~Running

\* A movement noticed at any time, during a sleep or between the check and the end
\* of a round, waits in the sensor until a check reports it: what the
\* initialisation writes must make the sensor keep it.  Only a transfer that fails
\* after the sensor has answered loses it.
MovementKept == unreported => source

\* Reads that fail do not take the device outside: when a packet says "outside" and
\* the poll read the visible light, all five counts as the sensor showed them pass
\* mc_uv_check_outside's formula too, less 0.17 and 0.09 of the dark count when that
\* read failed.  A failed read of the visible light is excluded, for then nothing
\* is subtracted.  Whether the formula itself is right about a light is another
\* question: it adds the infrared, and a lamp with enough of it passes.
OutsideRight ==
    pc = "handle" /\ data.outside /\ "vis" \in polled.ok =>
        LET unread == IF "dark" \in polled.ok THEN 0 ELSE polled.light["dark"]
        IN  /\ Uva(polled.light) > 15000 - 17 * unread
            /\ Uvb(polled.light) > 15000 - 9 * unread

=============================================================================
