-------------------------- MODULE SamplingProofs --------------------------
(***************************************************************************)
(* Proofs for Sampling, for every set of raw readings and every light: the *)
(* sensors follow the mode, a movement waits until it is reported, and     *)
(* reads that fail do not turn a light that is not outside into one.       *)
(***************************************************************************)
EXTENDS Sampling, TLAPS

\* The messages of the initialisation, one by one.
LEMMA InitWritesAre ==
    /\ Len(InitWrites) = 4
    /\ InitWrites[1] = <<32, <<47, 1, 64, 0, 8, 0>>>>
    /\ InitWrites[2] = <<48, <<10>>>>
    /\ InitWrites[3] = <<50, <<2>>>>
    /\ InitWrites[4] = <<51, <<2>>>>
BY DEF InitWrites

\* A message of one byte writes one register.
LEMMA SingleWrite ==
    ASSUME acc \in [Registers -> 0..255], NEW base \in Registers, NEW x, NEW outcome,
           outcome # "lost"
    PROVE  Written(base, <<x>>, outcome) = [acc EXCEPT ![base] = x]
<1>1. DOMAIN <<x>> = {1} /\ <<x>>[1] = x
  OBVIOUS
<1>2. \A r \in Registers : (r - base + 1 = 1) <=> r = base
  BY DEF Registers
<1>3. Written(base, <<x>>, outcome)
        = [r \in Registers |-> IF r - base + 1 \in DOMAIN <<x>> THEN <<x>>[r - base + 1] ELSE acc[r]]
  BY DEF Written
<1>4. \A r \in Registers : (IF r - base + 1 \in DOMAIN <<x>> THEN <<x>>[r - base + 1] ELSE acc[r])
                            = IF r = base THEN x ELSE acc[r]
  BY <1>1, <1>2
<1>5. [acc EXCEPT ![base] = x] = [r \in Registers |-> IF r = base THEN x ELSE acc[r]]
  OBVIOUS
<1>6. QED
  BY <1>3, <1>4, <1>5

\* What each message of the initialisation leaves in the registers that the
\* invariant speaks of.
LEMMA InitStep ==
    ASSUME acc \in [Registers -> 0..255], NEW outcome, NEW s \in 1..4, NEW after,
           after = Written(InitWrites[s][1], InitWrites[s][2], outcome)
    PROVE  /\ after \in [Registers -> 0..255]
           /\ s # 1 => after[36] = acc[36]
           /\ s # 2 => after[48] = acc[48]
           /\ s = 1 /\ outcome # "lost" => after[36] = 8
<1>1. CASE outcome = "lost"
  BY <1>1 DEF Written
<1>2. CASE outcome # "lost" /\ s = 1
  <2> DEFINE v == <<47, 1, 64, 0, 8, 0>>
  <2>1. InitWrites[s][1] = 32 /\ InitWrites[s][2] = v
    BY <1>2, InitWritesAre
  <2>2. after = [r \in Registers |-> IF r - 32 + 1 \in DOMAIN v THEN v[r - 32 + 1] ELSE acc[r]]
    BY <1>2, <2>1 DEF Written
  <2>3. DOMAIN v = 1..6 /\ v[5] = 8 /\ \A k \in 1..6 : v[k] \in 0..255
    OBVIOUS
  <2>4. after \in [Registers -> 0..255] /\ after[36] = 8 /\ after[48] = acc[48]
    <3> HIDE DEF v
    <3> QED BY <2>2, <2>3 DEF Registers
  <2>5. QED
    BY <1>2, <2>4
<1>3. ASSUME outcome # "lost", s # 1
      PROVE  /\ after \in [Registers -> 0..255] /\ after[36] = acc[36]
             /\ s # 2 => after[48] = acc[48]
  <2>1. PICK base \in Registers, x \in 0..255 :
            /\ InitWrites[s][1] = base /\ InitWrites[s][2] = <<x>>
            /\ base # 36 /\ (s # 2 => base # 48)
    <3>1. s = 2 \/ s = 3 \/ s = 4
      BY <1>3
    <3>2. CASE s = 2
      <4>1. InitWrites[s][1] = 48 /\ InitWrites[s][2] = <<10>>
        BY <3>2, InitWritesAre
      <4>2. QED
        BY <3>2, <4>1 DEF Registers
    <3>3. CASE s = 3
      <4>1. InitWrites[s][1] = 50 /\ InitWrites[s][2] = <<2>>
        BY <3>3, InitWritesAre
      <4>2. QED
        BY <4>1 DEF Registers
    <3>4. CASE s = 4
      <4>1. InitWrites[s][1] = 51 /\ InitWrites[s][2] = <<2>>
        BY <3>4, InitWritesAre
      <4>2. QED
        BY <4>1 DEF Registers
    <3>5. QED
      BY <3>1, <3>2, <3>3, <3>4
  <2>2. after = [acc EXCEPT ![base] = x]
    <3>1. after = Written(base, <<x>>, outcome)
      BY <2>1
    <3>2. QED
      BY <1>3, <3>1, SingleWrite
  <2>3. 36 \in Registers /\ 48 \in Registers
    BY DEF Registers
  <2>4. QED
    BY <2>1, <2>2, <2>3
<1>4. QED
  BY <1>1, <1>2, <1>3

\* The same for the power mode, which is one register.
LEMMA PowerStep ==
    ASSUME acc \in [Registers -> 0..255], NEW from, NEW to, NEW powerMode \in BOOLEAN,
           AccPower(from, to, powerMode)
    PROVE  /\ acc' \in [Registers -> 0..255]
           /\ acc'[36] = acc[36] /\ acc'[48] = acc[48]
           /\ "acc" \in wrote' => acc'[32] = IF powerMode THEN 47 ELSE 15
<1> DEFINE x == IF powerMode THEN 47 ELSE 15
<1>1. PICK outcome \in Outcomes :
          /\ acc' = Written(32, <<x>>, outcome)
          /\ wrote' = IF outcome = "ok" THEN wrote \cup {"acc"} ELSE wrote \ {"acc"}
  BY DEF AccPower
<1>2. x \in 0..255 /\ 32 \in Registers /\ 36 \in Registers /\ 48 \in Registers
  BY DEF Registers
<1> HIDE DEF x
<1>3. CASE outcome = "lost"
  BY <1>1, <1>3 DEF Written
<1>4. CASE outcome # "lost"
  <2>1. acc' = [acc EXCEPT ![32] = x]
    BY <1>1, <1>2, <1>4, SingleWrite
  <2>2. QED
    BY <1>2, <2>1 DEF x
<1>5. QED
  BY <1>3, <1>4

-----------------------------------------------------------------------------
(***************************************************************************)
(* Types.                                                                  *)
(***************************************************************************)

\* What a poll reads is a 16-bit number in every channel.
LEMMA ReadType ==
    ASSUME NEW light \in Lights, NEW ok
    PROVE  /\ light \in [Channels -> Word]
           /\ [c \in Channels |-> Read16(c, light, ok)] \in [Channels -> Word]
<1>1. light \in [Channels -> Word] /\ 0 \in Word
  BY LightsAssumption DEF Word
<1>2. QED
  BY <1>1 DEF Read16

\* A temperature or humidity of the packet is a converted reading, or 0.
LEMMA Readings ==
    ASSUME NEW r \in RawReadings, NEW outcome
    PROVE  /\ Temperature(outcome, r) \in {0} \cup {Celsius(x) : x \in RawReadings \ 0..3}
           /\ Humidity(outcome, r) \in {0} \cup {Percent(x) : x \in RawReadings \ 0..1}
<1>1. r \in Nat
  BY RawAssumption DEF Word
<1>2. r \div 4 # 0 => r \notin 0..3
  BY <1>1
<1>3. r \div 2 # 0 => r \notin 0..1
  BY <1>1
<1>4. QED
  BY <1>2, <1>3 DEF Temperature, Humidity

\* TypeOK: every variable keeps its type, whatever the temperature sensor answers.
THEOREM TypeCorrect == Spec => []TypeOK
<1>1. Init => TypeOK
  <2> SUFFICES ASSUME Init PROVE TypeOK
    OBVIOUS
  <2>1. acc \in [Registers -> 0..255] /\ raw \in [Channels -> Word]
    BY DEF Init, Word
  <2>2. polled \in [light : [Channels -> Word], ok : SUBSET Channels]
    BY <2>1 DEF Init
  <2>3. QED
    <3>1. /\ data.newData \in BOOLEAN /\ data.outside \in BOOLEAN
          /\ data.temperature = 0 /\ data.humidity = 0
      BY DEF Init, EmptyDataStruct
    <3>2. step \in 0..4 /\ config \subseteq {"SD", "IT_100MS"} /\ uvConf \subseteq {"SD", "IT_100MS"}
      BY DEF Init
    <3>3. QED
      BY <2>1, <2>2, <3>1, <3>2 DEF Init, TypeOK
<1>2. TypeOK /\ [Next]_vars => TypeOK'
  <2> SUFFICES ASSUME TypeOK, [Next]_vars PROVE TypeOK'
    OBVIOUS
  <2>1. CASE UvInit
    BY <2>1 DEF TypeOK, UvInit, SetConfig, CreateConfig, accel
  <2>2. CASE AccInit
    <3>1. PICK outcome \in Outcomes :
              /\ IF outcome = "ok" /\ step < Len(InitWrites)
                 THEN step' = step + 1 /\ pc' = "accInit"
                 ELSE step' = 0 /\ pc' = "uvOn"
              /\ acc' = IF step = 0 THEN acc ELSE Written(InitWrites[step][1], InitWrites[step][2], outcome)
      BY <2>2 DEF AccInit
    <3>2. step' \in 0..4 /\ pc' \in {"accInit", "uvOn"}
      BY <3>1, InitWritesAre DEF TypeOK
    <3>3. acc' \in [Registers -> 0..255]
      <4>1. CASE step = 0
        BY <3>1, <4>1 DEF TypeOK
      <4>2. CASE step # 0
        <5>1. step \in 1..4 /\ acc \in [Registers -> 0..255]
          BY <4>2 DEF TypeOK
        <5>2. acc' = Written(InitWrites[step][1], InitWrites[step][2], outcome)
          BY <3>1, <4>2
        <5>3. QED
          BY <5>1, <5>2, InitStep
      <4>3. QED
        BY <4>1, <4>2
    <3>4. QED
      BY <2>2, <3>2, <3>3 DEF TypeOK, AccInit, uv
  <2>3. CASE SetHighPowerMode
    <3>1. CASE UvPower("uvOn", "accOn", TRUE)
      BY <3>1 DEF TypeOK, UvPower, SetConfig, CreateConfig, accel
    <3>2. CASE AccPower("accOn", "poll", TRUE)
      <4>1. acc' \in [Registers -> 0..255]
        <5>1. acc \in [Registers -> 0..255]
          BY DEF TypeOK
        <5>2. QED
          BY <3>2, <5>1, PowerStep
      <4>2. QED
        BY <3>2, <4>1 DEF TypeOK, AccPower, uv
    <3>3. QED
      BY <2>3, <3>1, <3>2 DEF SetHighPowerMode
  <2>4. CASE SetLowPowerMode
    <3>1. CASE UvPower("uvOff", "accOff", FALSE)
      BY <3>1 DEF TypeOK, UvPower, SetConfig, CreateConfig, accel
    <3>2. CASE AccPower("accOff", "deep", FALSE)
      <4>1. acc' \in [Registers -> 0..255]
        <5>1. acc \in [Registers -> 0..255]
          BY DEF TypeOK
        <5>2. QED
          BY <3>2, <5>1, PowerStep
      <4>2. QED
        BY <3>2, <4>1 DEF TypeOK, AccPower, uv
    <3>3. QED
      BY <2>4, <3>1, <3>2 DEF SetLowPowerMode
  <2>5. CASE Poll
    <3>1. PICK light \in Lights, ok \in SUBSET Channels :
              /\ raw' = [c \in Channels |-> Read16(c, light, ok)]
              /\ polled' = [light |-> light, ok |-> ok]
      BY <2>5 DEF Poll
    <3>2. raw' \in [Channels -> Word]
      BY <3>1, ReadType
    <3>3. polled' \in [light : [Channels -> Word], ok : SUBSET Channels]
      BY <3>1, ReadType
    <3>4. QED
      BY <2>5, <3>2, <3>3 DEF TypeOK, Poll, accel
  <2>6. CASE CheckInterrupt
    BY <2>6 DEF TypeOK, CheckInterrupt, EmptyDataStruct, uv
  <2>7. CASE Sample
    <3>1. PICK t, h \in {"ok", "lost"}, rt, rh \in RawReadings :
              data' = [data EXCEPT !.temperature = Temperature(t, rt), !.humidity = Humidity(h, rh),
                                   !.outside = CheckOutside]
      BY <2>7 DEF Sample
    <3>2. CheckOutside \in BOOLEAN
      BY DEF CheckOutside
    <3>3. QED
      BY <2>7, <3>1, <3>2, Readings DEF TypeOK, Sample, uv, accel
  <2>8. CASE HandleData \/ WakeUp
    <3>1. CASE HandleData
      BY <3>1 DEF TypeOK, HandleData, uv, accel
    <3>2. CASE WakeUp
      BY <3>2 DEF TypeOK, WakeUp, uv, accel
    <3>3. QED
      BY <2>8, <3>1, <3>2
  <2>9. CASE Move
    BY <2>9 DEF TypeOK, Move, Latched, uv
  <2>10. CASE UNCHANGED vars
    BY <2>10 DEF TypeOK, vars, uv, accel
  <2>11. QED
    BY <2>1, <2>2, <2>3, <2>4, <2>5, <2>6, <2>7, <2>8, <2>9, <2>10 DEF Next
<1>3. QED
  BY <1>1, <1>2, PTL DEF Spec

-----------------------------------------------------------------------------
(***************************************************************************)
(* A movement is kept.  The initialisation stops at the first failure, so  *)
(* that the interrupt is never armed (0x30) without having been latched    *)
(* (0x24) before; nothing writes either register afterwards.               *)
(***************************************************************************)

LatchedFirst ==
    /\ acc[48] # 0 => acc[36] = 8
    /\ pc = "uvInit" => acc[48] = 0 /\ step = 0
    /\ pc = "accInit" /\ step \in 0..2 => acc[48] = 0
    /\ pc = "accInit" /\ step \in 2..4 => acc[36] = 8

KeepInv == LatchedFirst /\ (unreported => source /\ acc[48] # 0)

\* MovementKept: a movement noticed at any time waits in the sensor until a check
\* reports it, whichever transfers fail (app_main.c collect_data, accelerometer.c).
THEOREM MovementsWait == Spec => []MovementKept
<1>1. Init => KeepInv
  BY DEF Init, KeepInv, LatchedFirst, Registers
<1>2. TypeOK /\ KeepInv /\ [Next]_vars => KeepInv'
  <2> SUFFICES ASSUME TypeOK, KeepInv, [Next]_vars PROVE KeepInv'
    OBVIOUS
  <2> USE DEF KeepInv, LatchedFirst
  <2>0. acc \in [Registers -> 0..255] /\ step \in 0..4
    BY DEF TypeOK
  <2>1. CASE UvInit
    BY <2>1 DEF UvInit, accel
  <2>2. CASE AccInit
    <3>1. PICK outcome \in Outcomes :
              /\ IF outcome = "ok" /\ step < 4
                 THEN step' = step + 1 /\ pc' = "accInit"
                 ELSE step' = 0 /\ pc' = "uvOn"
              /\ acc' = IF step = 0 THEN acc ELSE Written(InitWrites[step][1], InitWrites[step][2], outcome)
      BY <2>2, InitWritesAre DEF AccInit
    <3>2. pc = "accInit" /\ UNCHANGED <<source, unreported>>
      BY <2>2 DEF AccInit
    <3>3. CASE step = 0
      BY <2>0, <3>1, <3>2, <3>3
    <3>4. CASE step # 0
      <4>1. step \in 1..4
        BY <2>0, <3>4
      <4>2. acc' = Written(InitWrites[step][1], InitWrites[step][2], outcome)
        BY <3>1, <3>4
      <4>3. /\ step # 1 => acc'[36] = acc[36]
            /\ step # 2 => acc'[48] = acc[48]
            /\ step = 1 /\ outcome # "lost" => acc'[36] = 8
        BY <2>0, <4>1, <4>2, InitStep
      <4>4. CASE step = 1
        BY <2>0, <3>1, <3>2, <4>3, <4>4
      <4>5. CASE step # 1
        <5>1. step \in 2..4 /\ acc'[36] = 8
          BY <3>2, <4>1, <4>3, <4>5
        <5>2. pc' = "uvOn" \/ (pc' = "accInit" /\ step' \in 3..4)
          BY <3>1, <5>1
        <5>3. unreported => acc[48] # 0
          OBVIOUS
        <5>4. unreported => acc'[48] # 0
          BY <3>2, <4>3, <5>1, <5>3
        <5>5. QED
          BY <3>2, <5>1, <5>2, <5>4
      <4>6. QED
        BY <4>4, <4>5
    <3>5. QED
      BY <3>3, <3>4
  <2>3. ASSUME NEW from, NEW to, NEW powerMode \in BOOLEAN, UvPower(from, to, powerMode),
               from \notin {"uvInit", "accInit"}, to \notin {"uvInit", "accInit"}
        PROVE  KeepInv'
    BY <2>3 DEF UvPower, accel
  <2>4. ASSUME NEW from, NEW to, NEW powerMode \in BOOLEAN, AccPower(from, to, powerMode),
               from \notin {"uvInit", "accInit"}, to \notin {"uvInit", "accInit"}
        PROVE  KeepInv'
    <3>1. acc'[36] = acc[36] /\ acc'[48] = acc[48]
      BY <2>0, <2>4, PowerStep
    <3>2. pc' = to /\ UNCHANGED <<source, unreported>>
      BY <2>4 DEF AccPower
    <3>3. QED
      BY <2>4, <3>1, <3>2
  <2>5. CASE SetHighPowerMode \/ SetLowPowerMode
    BY <2>3, <2>4, <2>5, Zenon DEF SetHighPowerMode, SetLowPowerMode
  <2>6. CASE Poll
    BY <2>6 DEF Poll, accel
  <2>7. CASE CheckInterrupt
    <3>1. acc[36] = 8 => Latched
      BY DEF Latched
    <3>2. pc' \notin {"uvInit", "accInit"} /\ acc' = acc
      BY <2>7 DEF CheckInterrupt
    <3>3. PICK outcome \in Outcomes :
              /\ source' = IF outcome = "lost" \/ ~Latched THEN source ELSE FALSE
              /\ unreported' = (unreported /\ (outcome = "lost" \/ (outcome = "ok" /\ ~source)))
      BY <2>7 DEF CheckInterrupt
    <3>4. unreported' => source' /\ acc'[48] # 0
      BY <3>1, <3>2, <3>3
    <3>5. QED
      BY <3>2, <3>4
  <2>8. CASE Sample \/ HandleData \/ WakeUp
    <3>1. CASE Sample
      BY <3>1 DEF Sample, accel
    <3>2. CASE HandleData
      BY <3>2 DEF HandleData, accel
    <3>3. CASE WakeUp
      BY <3>3 DEF WakeUp, accel
    <3>4. QED
      BY <2>8, <3>1, <3>2, <3>3
  <2>9. CASE Move
    <3>1. acc[36] = 8 => Latched
      BY DEF Latched
    <3>2. acc[48] # 0 /\ pc' = pc /\ step' = step /\ acc' = acc
      BY <2>9 DEF Move, Armed
    <3>3. Latched /\ source' \in {TRUE, Latched}
      BY <2>9, <3>1, <3>2 DEF Move
    <3>4. source'
      BY <3>3, Zenon
    <3>5. QED
      BY <3>2, <3>4
  <2>10. CASE UNCHANGED vars
    BY <2>10 DEF vars, accel
  <2>11. QED
    BY <2>1, <2>2, <2>5, <2>6, <2>7, <2>8, <2>9, <2>10 DEF Next
<1>3. KeepInv => MovementKept
  BY DEF KeepInv, MovementKept
<1>4. QED
  BY <1>1, <1>2, <1>3, TypeCorrect, PTL DEF Spec

-----------------------------------------------------------------------------
(***************************************************************************)
(* The sensors follow the mode.                                            *)
(***************************************************************************)

\* What a power command that worked has left, from the command on.
UvFollows ==
    /\ pc \in {"accOn", "poll", "check"} /\ "uv" \in wrote => "SD" \notin uvConf
    /\ pc \in {"accOff", "deep"} /\ "uv" \in wrote => "SD" \in uvConf
AccFollows ==
    /\ pc \in {"poll", "check"} /\ "acc" \in wrote => acc[32] = 47
    /\ pc = "deep" /\ "acc" \in wrote => acc[32] = 15

\* SensorsFollowMode: a sensor whose last power command worked is on when the device
\* samples and off in deep sleep, after any rounds and failures (uv.c, accelerometer.c).
THEOREM ModeReachesSensors == Spec => []SensorsFollowMode
<1>1. Init => UvFollows /\ AccFollows
  BY DEF Init, UvFollows, AccFollows
<1>2. TypeOK /\ UvFollows /\ AccFollows /\ [Next]_vars => (UvFollows /\ AccFollows)'
  <2> SUFFICES ASSUME TypeOK, UvFollows, AccFollows, [Next]_vars PROVE (UvFollows /\ AccFollows)'
    OBVIOUS
  <2> USE DEF UvFollows, AccFollows
  <2>0. acc \in [Registers -> 0..255]
    BY DEF TypeOK
  <2>1. CASE UvInit \/ AccInit
    BY <2>1 DEF UvInit, AccInit
  <2>2. CASE UvPower("uvOn", "accOn", TRUE)
    BY <2>2 DEF UvPower, SetConfig, CreateConfig
  <2>3. CASE UvPower("uvOff", "accOff", FALSE)
    BY <2>3 DEF UvPower, SetConfig, CreateConfig
  <2>4. CASE AccPower("accOn", "poll", TRUE)
    <3>1. "acc" \in wrote' => acc'[32] = 47
      BY <2>0, <2>4, PowerStep
    <3>2. pc = "accOn" /\ pc' = "poll" /\ uvConf' = uvConf /\ ("uv" \in wrote' => "uv" \in wrote)
      BY <2>4 DEF AccPower, uv
    <3>3. QED
      BY <3>1, <3>2
  <2>5. CASE AccPower("accOff", "deep", FALSE)
    <3>1. "acc" \in wrote' => acc'[32] = 15
      BY <2>0, <2>5, PowerStep
    <3>2. pc = "accOff" /\ pc' = "deep" /\ uvConf' = uvConf /\ ("uv" \in wrote' => "uv" \in wrote)
      BY <2>5 DEF AccPower, uv
    <3>3. QED
      BY <3>1, <3>2
  <2>6. CASE Poll \/ CheckInterrupt
    BY <2>6 DEF Poll, CheckInterrupt, accel, uv
  <2>7. CASE Sample \/ HandleData \/ WakeUp
    BY <2>7 DEF Sample, HandleData, WakeUp
  <2>8. CASE Move
    BY <2>8 DEF Move, uv
  <2>9. CASE UNCHANGED vars
    BY <2>9 DEF vars, uv, accel
  <2>10. QED
    BY <2>1, <2>2, <2>3, <2>4, <2>5, <2>6, <2>7, <2>8, <2>9 DEF Next, SetHighPowerMode, SetLowPowerMode
<1>3. UvFollows /\ AccFollows => SensorsFollowMode
  <2>1. acc[32] = 47 => Running
    BY DEF Running
  <2>2. acc[32] = 15 => ~Running
    BY DEF Running
  <2>3. QED
    BY <2>1, <2>2 DEF UvFollows, AccFollows, SensorsFollowMode
<1>4. QED
  BY <1>1, <1>2, <1>3, TypeCorrect, PTL DEF Spec

-----------------------------------------------------------------------------
(***************************************************************************)
(* Outside.                                                                *)
(***************************************************************************)

\* raw_* are what the last poll read.
RawRead == raw = [c \in Channels |-> IF c \in polled.ok THEN polled.light[c] ELSE 0]

\* What the light itself gives when all five of its counts are read right.
Passes ==
    LET unread == IF "dark" \in polled.ok THEN 0 ELSE polled.light["dark"]
    IN  Uva(polled.light) > 15000 - 17 * unread /\ Uvb(polled.light) > 15000 - 9 * unread

\* Every count but that of the visible light enters the formula with a positive
\* sign, or, the dark one, with -0.17 and -0.09.
LEMMA FailedReadsLower ==
    ASSUME RawRead, polled \in [light : [Channels -> Word], ok : SUBSET Channels],
           CheckOutside, "vis" \in polled.ok
    PROVE  Passes
<1> DEFINE light == polled.light
<1>1. \A c \in Channels : raw[c] = IF c \in polled.ok THEN light[c] ELSE 0
  BY DEF RawRead
<1>2. \A c \in Channels : light[c] \in Nat
  BY DEF Word
<1>3. /\ "uva" \in Channels /\ "uvb" \in Channels /\ "dark" \in Channels
      /\ "vis" \in Channels /\ "ir" \in Channels
  BY DEF Channels
<1>4. /\ raw["uva"] \in {0, light["uva"]} /\ raw["uvb"] \in {0, light["uvb"]}
      /\ raw["ir"] \in {0, light["ir"]} /\ raw["vis"] = light["vis"]
      /\ raw["dark"] = IF "dark" \in polled.ok THEN light["dark"] ELSE 0
  BY <1>1, <1>3
<1>5. Uva(raw) > 15000 /\ Uvb(raw) > 15000
  BY DEF CheckOutside
<1> HIDE DEF light
<1>6. CASE "dark" \in polled.ok
  BY <1>2, <1>3, <1>4, <1>5, <1>6 DEF Passes, Uva, Uvb, Compensated, light
<1>7. CASE "dark" \notin polled.ok
  BY <1>2, <1>3, <1>4, <1>5, <1>7 DEF Passes, Uva, Uvb, Compensated, light
<1>8. QED
  BY <1>6, <1>7

OutsideInv ==
    /\ RawRead
    /\ pc = "handle" /\ data.outside /\ "vis" \in polled.ok => Passes

\* OutsideRight: when a packet says outside, the light itself passes the formula of
\* mc_uv_check_outside, whichever reads of the poll failed but that of the visible
\* light, up to 0.17 and 0.09 of a dark count that was not read (uv.c).
THEOREM LightPassesToo == Spec => []OutsideRight
<1>1. Init => OutsideInv
  BY DEF Init, OutsideInv, RawRead
<1>2. TypeOK /\ OutsideInv /\ [Next]_vars => OutsideInv'
  <2> SUFFICES ASSUME TypeOK, OutsideInv, [Next]_vars PROVE OutsideInv'
    OBVIOUS
  <2> USE DEF OutsideInv
  <2>1. CASE Poll
    <3>1. PICK light \in Lights, ok \in SUBSET Channels :
              /\ raw' = [c \in Channels |-> Read16(c, light, ok)]
              /\ polled' = [light |-> light, ok |-> ok]
      BY <2>1 DEF Poll
    <3>2. RawRead'
      BY <3>1 DEF RawRead, Read16
    <3>3. QED
      BY <2>1, <3>2 DEF Poll
  <2>2. CASE CheckInterrupt
    <3>1. data'.outside = FALSE
      BY <2>2 DEF CheckInterrupt, EmptyDataStruct
    <3>2. QED
      BY <2>2, <3>1 DEF CheckInterrupt, uv, RawRead, Passes
  <2>3. CASE Sample
    <3>1. PICK temperature, humidity :
              data' = [data EXCEPT !.temperature = temperature, !.humidity = humidity, !.outside = CheckOutside]
      BY <2>3 DEF Sample
    <3>2. data'.outside => CheckOutside
      BY <3>1
    <3>3. polled \in [light : [Channels -> Word], ok : SUBSET Channels]
      BY DEF TypeOK
    <3>4. UNCHANGED <<raw, polled>>
      BY <2>3 DEF Sample, uv
    <3>5. CheckOutside /\ "vis" \in polled.ok => Passes
      BY <3>3, FailedReadsLower
    <3>6. QED
      BY <3>2, <3>4, <3>5 DEF RawRead, Passes
  <2>4. ASSUME UNCHANGED <<raw, polled>>, pc' # "handle" PROVE OutsideInv'
    BY <2>4 DEF RawRead
  <2>5. CASE UvInit \/ AccInit \/ HandleData \/ WakeUp
    <3>1. UNCHANGED <<raw, polled>> /\ pc' # "handle"
      BY <2>5 DEF UvInit, AccInit, HandleData, WakeUp, uv
    <3>2. QED
      BY <2>4, <3>1
  <2>6. CASE SetHighPowerMode \/ SetLowPowerMode
    <3>1. UNCHANGED <<raw, polled>> /\ pc' # "handle"
      BY <2>6 DEF SetHighPowerMode, SetLowPowerMode, UvPower, AccPower, uv
    <3>2. QED
      BY <2>4, <3>1
  <2>7. CASE Move
    BY <2>7 DEF Move, uv, RawRead, Passes
  <2>8. CASE UNCHANGED vars
    BY <2>8 DEF vars, uv, RawRead, Passes
  <2>9. QED
    BY <2>1, <2>2, <2>3, <2>4, <2>5, <2>6, <2>7, <2>8 DEF Next
<1>3. OutsideInv => OutsideRight
  BY DEF OutsideInv, OutsideRight, Passes
<1>4. QED
  BY <1>1, <1>2, <1>3, TypeCorrect, PTL DEF Spec

=============================================================================
