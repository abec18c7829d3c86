--------------------------- MODULE DaemonProofs ---------------------------
(***************************************************************************)
(* Theorems about Daemon, for every board, line and value of the constants.*)
(***************************************************************************)
EXTENDS Daemon, TLAPS

-----------------------------------------------------------------------------
(***************************************************************************)
(* The conversions.                                                        *)
(***************************************************************************)

LEMMA SwitchOfBit ==
  /\ \A bit \in Bit : OnIf(bit) \in OnOff /\ OffIf(bit) \in OnOff
  /\ \A sw \in OnOff : BitOn(sw) \in Bit /\ BitOff(sw) \in Bit
  /\ \A bit \in Bit : BitOn(OnIf(bit)) = bit /\ BitOff(OffIf(bit)) = bit
                        /\ BitOff(OnIf(bit)) = 1 - bit
  BY DEF Bit, OnOff, ON, OFF, OnIf, OffIf, BitOn, BitOff

\* A reply of the board, whatever it says, decodes to a picture of it...
LEMMA DecodeTypes ==
  ASSUME NEW reply \in BAT3reply
  PROVE  decodemsg(reply) \in Bat3
  BY SwitchOfBit DEF decodemsg, Bat3, BAT3reply

\* ...and every picture encodes to a request.
LEMMA EncodeTypes ==
  ASSUME NEW s \in Bat3
  PROVE  encodemsg(s) \in BAT3request
  BY SwitchOfBit DEF encodemsg, Bat3, BAT3request

\* What a request that echoes a reply says: the same as the reply in every
\* field that a request has, and the opposite in _buckEn.
THEOREM EchoInverts ==
  ASSUME NEW reply \in BAT3reply,
         NEW field \in DOMAIN encodemsg(decodemsg(reply))
  PROVE  encodemsg(decodemsg(reply))[field] =
           IF field = "_buckEn" THEN 1 - reply[field] ELSE reply[field]
<1> DEFINE echo == encodemsg(decodemsg(reply))
<1>1. field \in { "pwm_lo", "pwm_t", "ee_addr", "ee_data", "PWM1en", "PWM2en",
                 "_offsetEn", "opampEn", "_buckEn", "_led", "_jp3", "batRun",
                 "ee_read", "ee_write", "ee_ready", "softJP3" }
  BY DEF encodemsg
<1>2. CASE field \in { "pwm_lo", "pwm_t", "ee_addr", "ee_data" }
  BY <1>2 DEF encodemsg, decodemsg
<1>3. CASE field \in { "PWM1en", "PWM2en", "opampEn", "batRun", "ee_read", "ee_write",
                     "ee_ready", "softJP3" }
  <2>1. reply[field] \in Bit
    BY <1>3 DEF BAT3reply
  <2>2. echo[field] = BitOn(OnIf(reply[field]))
    BY <1>3 DEF encodemsg, decodemsg
  <2> QED  BY <1>3, <2>1, <2>2, SwitchOfBit
<1>4. CASE field \in { "_offsetEn", "_led", "_jp3" }
  <2>1. reply[field] \in Bit
    BY <1>4 DEF BAT3reply
  <2>2. echo[field] = BitOff(OffIf(reply[field]))
    BY <1>4 DEF encodemsg, decodemsg
  <2> QED  BY <1>4, <2>1, <2>2, SwitchOfBit
<1>5. CASE field = "_buckEn"
  <2>1. reply[field] \in Bit
    BY <1>5 DEF BAT3reply
  <2>2. echo[field] = BitOff(OnIf(reply[field]))
    BY <1>5 DEF encodemsg, decodemsg
  <2> QED  BY <1>5, <2>1, <2>2, SwitchOfBit
<1> QED  BY <1>1, <1>2, <1>3, <1>4, <1>5

-----------------------------------------------------------------------------
(***************************************************************************)
(* What is known of Loading holds here too.  R is Loading, with its        *)
(* history in variables that are not in the program, over the samples that *)
(* the daemon can come to hold; its operators are the same.                *)
(***************************************************************************)
VARIABLES mode, steadySince, orderedAt, idleSince, idleUntil, spent

R == INSTANCE LoadingProofs WITH Samples <- Bat3

LEMMA SameTypes ==
  /\ R!Bat3 = Bat3 /\ R!Target = Target
  /\ R!ON = ON /\ R!OFF = OFF
<1>1. /\ R!Word = Word /\ R!Byte = Byte /\ R!OnOff = OnOff
      /\ R!ON = ON /\ R!OFF = OFF
  BY DEF R!Word, Word, R!Byte, Byte, R!OnOff, OnOff, R!ON, ON, R!OFF, OFF,
         R!MaxWord, MaxWord, R!MaxByte, MaxByte
<1>2. /\ R!CurrentRange = CurrentRange /\ R!HoursRange = HoursRange
      /\ R!WeightRange = WeightRange
  BY DEF R!CurrentRange, CurrentRange, R!HoursRange, HoursRange,
         R!WeightRange, WeightRange, R!MaxCurrent, MaxCurrent
<1>3. R!Bat3 = Bat3
  BY <1>1 DEF R!Bat3, Bat3
<1>4. R!Target = Target
  BY <1>2 DEF R!Target, Target
<1> QED  BY <1>1, <1>3, <1>4

LEMMA SameOperators ==
  ASSUME NEW s, NEW t, NEW i, NEW now, NEW rec
  PROVE  /\ R!initParams = initParams
         /\ R!setCurrent(t, i) = setCurrent(t, i)
         /\ R!setHours(t, i, now) = setHours(t, i, now)
         /\ R!BlinkLed(s) = BlinkLed(s)
         /\ R!doload(s, t, now, rec) = doload(s, t, now, rec)
         /\ R!Branch(s, t, now, rec) = Branch(s, t, now, rec)
  BY DEF initParams, setCurrent, setHours, DEFAULT_CURRENT, MaxCurrent, MaxHours,
         doload, BlinkLed, changeled, switch_opamp, reset_history, LoadOnBattery, LoadByHours, LoadByHistory, StopTimeReached, Recorded, Pausing, IsStable, check_stable, process_first_degree, calc_load, LoadDiff, PwmStep, PwmFloor, AtLeast, AtMost, battI, TruncDiv, ON, OFF, MAX_PWM_T, MIN_PWM_T, DEFTARGET, BIG_STEP, SMALL_STEP, Branch,
         R!initParams, R!setCurrent, R!setHours, R!DEFAULT_CURRENT, R!MaxCurrent, R!MaxHours,
         R!doload, R!BlinkLed, R!changeled, R!switch_opamp, R!reset_history, R!LoadOnBattery, R!LoadByHours, R!LoadByHistory, R!StopTimeReached, R!Recorded, R!Pausing, R!IsStable, R!check_stable, R!process_first_degree, R!calc_load, R!LoadDiff, R!PwmStep, R!PwmFloor, R!AtLeast, R!AtMost, R!battI, R!TruncDiv, R!ON, R!OFF, R!MAX_PWM_T, R!MIN_PWM_T, R!DEFTARGET, R!BIG_STEP, R!SMALL_STEP, R!Branch

\* What Loading assumes of its constants.
LEMMA Premises ==
  /\ Bat3 \subseteq R!Bat3 /\ Currents \subseteq Int /\ HoursArgs \subseteq Int
  /\ MaxTime \in Nat \ {0}
  /\ StableSecs \in Nat
  /\ DaySecs \in Nat /\ DaySecs > StableSecs
  /\ HourSecs \in Nat \ {0}
  /\ MAXMIN \in Nat /\ MAXMIN > 2
  BY SameTypes, DaemonAssumption, Bat3FuncAssumption

LEMMA Switches == ON \in OnOff /\ OFF \in OnOff /\ ON # OFF
  BY DEF OnOff, ON, OFF

LEMMA BlinkTypes == \A s \in Bat3 : BlinkLed(s) \in Bat3
  BY R!BlinkTypes, Premises, SameTypes, SameOperators

LEMMA InitTarget == initParams \in Target
  BY R!InitTarget, Premises, SameTypes, SameOperators

LEMMA OrderTypes ==
  ASSUME NEW t \in Target, NEW i \in Int, NEW now \in Nat
  PROVE  setCurrent(t, i) \in Target /\ setHours(t, i, now) \in Target
  BY R!OrderTypes, Premises, SameTypes, SameOperators

LEMMA DoloadTypes ==
  ASSUME NEW s \in Bat3, NEW t \in Target, NEW now \in Nat, NEW rec \in BOOLEAN
  PROVE  /\ doload(s, t, now, rec).state \in Bat3
         /\ doload(s, t, now, rec).target \in Target
  BY R!DoloadTypes, Premises, SameTypes, SameOperators

\* What a picture says of the EEPROM.
SameRom(s, r) ==
  /\ r.ee_read = s.ee_read /\ r.ee_write = s.ee_write
  /\ r.ee_addr = s.ee_addr /\ r.ee_data = s.ee_data

LEMMA DoloadKeepsRom ==
  ASSUME NEW s \in Bat3, NEW t \in Target, NEW now \in Nat, NEW rec \in BOOLEAN
  PROVE  SameRom(s, doload(BlinkLed(s), t, now, rec).state)
<1>1. R!SameRom(s, R!doload(R!BlinkLed(s), t, now, rec).state)
  BY R!DoloadKeepsRom, Premises, SameTypes
<1>2. R!doload(R!BlinkLed(s), t, now, rec) = doload(BlinkLed(s), t, now, rec)
  BY SameOperators
<1> QED  BY <1>1, <1>2 DEF SameRom, R!SameRom

-----------------------------------------------------------------------------
(***************************************************************************)
(* Packets, the board and the EEPROM dialogue.                             *)
(***************************************************************************)

LEMMA PacketTypes ==
  /\ Garbled \in Packet /\ ~Garbled.ok
  /\ \A reply \in BAT3reply : Intact(reply) \in Packet
  /\ \A p \in Packet : p.ok => p.reply \in BAT3reply
<1>1. Garbled \in Packet
  BY DEF Packet
<1>2. Garbled.ok = FALSE
  BY DEF Garbled
<1>3. \A reply \in BAT3reply : Intact(reply) \in [ok : {TRUE}, reply : BAT3reply]
  BY DEF Intact
<1>4. \A p \in [ok : {TRUE}, reply : BAT3reply] : p.reply \in BAT3reply
  OBVIOUS
<1> QED  BY <1>1, <1>2, <1>3, <1>4, Zenon DEF Packet

LEMMA BoardTypes ==
  ASSUME NEW b \in BAT3reply, NEW req \in BAT3request
  PROVE  Applied(b, req) \in BAT3reply
  BY DEF Applied, BAT3reply, BAT3request, Bit

LEMMA ReadyTypes ==
  ASSUME NEW b \in BAT3reply, NEW byte \in Byte
  PROVE  [b EXCEPT !.ee_ready = 1, !.ee_data = byte] \in BAT3reply
<1>1. 1 \in Bit
  BY DEF Bit
<1> QED  BY <1>1 DEF BAT3reply

LEMMA MeasureTypes ==
  ASSUME NEW b \in BAT3reply, NEW m \in [batRun : Bit, adc7 : Word]
  PROVE  [b EXCEPT !.batRun = m.batRun, !.adc7 = m.adc7] \in BAT3reply
  BY DEF BAT3reply

\* An address or a value that is cut to a byte is a byte.
LEMMA Cut == \A i \in Int : i % (MaxByte + 1) \in Byte
  BY DEF MaxByte, Byte

LEMMA RomTypes ==
  ASSUME NEW s \in Bat3, NEW a \in Int, NEW v \in Int,
         NEW rs \in {"WRITE", "LISTEN", "DONE"}
  PROVE  /\ doread(s, rs, a).state \in Bat3
         /\ doread(s, rs, a).romstate \in {"WRITE", "LISTEN", "DONE"}
         /\ dowrite(s, rs, a, v).state \in Bat3
         /\ dowrite(s, rs, a, v).romstate \in {"WRITE", "LISTEN", "DONE"}
<1>1. /\ [s EXCEPT !.ee_addr = a % (MaxByte + 1), !.ee_read = OFF,
                   !.ee_write = OFF] \in Bat3
      /\ [s EXCEPT !.ee_addr = a % (MaxByte + 1), !.ee_read = ON,
                   !.ee_write = OFF, !.ee_data = 0] \in Bat3
      /\ [s EXCEPT !.ee_addr = a % (MaxByte + 1), !.ee_read = OFF,
                   !.ee_write = ON, !.ee_data = v % (MaxByte + 1)] \in Bat3
  <2>1. a % (MaxByte + 1) \in Byte /\ v % (MaxByte + 1) \in Byte /\ 0 \in Byte
    BY Cut DEF Byte, MaxByte
  <2> DEFINE x == a % (MaxByte + 1)
             y == v % (MaxByte + 1)
  <2> HIDE DEF x, y
  <2> QED  BY <2>1, Switches DEF Bat3, x, y
<1>2. ASSUME NEW asked \in BOOLEAN, NEW ask \in Bat3
      PROVE  /\ RomStep(s, rs, a, asked, ask).state \in Bat3
             /\ RomStep(s, rs, a, asked, ask).romstate \in {"WRITE", "LISTEN", "DONE"}
  BY <1>1 DEF RomStep
<1> QED  BY <1>1, <1>2 DEF doread, dowrite

-----------------------------------------------------------------------------
(***************************************************************************)
(* How often the line is polled, and the types of the states.              *)
(***************************************************************************)

\* The retries of getsample inside those of doRound, as a sum: this is what
\* makes the bound on reads inductive.
Counting ==
  /\ pc \in {"opening", "reading"} => error < MAX_RETRIES
  /\ pc = "opening" => reads = error
  /\ pc = "reading" => reads = cnt * MAX_RETRIES + error
  /\ RequestsKeepComing

\* The arithmetic of the retries.
LEMMA Polls ==
  ASSUME NEW m \in Nat \ {0}, NEW c \in 0 .. m, NEW e \in 0 .. m, e < m
  PROVE  /\ c * m + e + 1 <= m * (m + 1)
         /\ c * m + e + 1 = c * m + (e + 1)
         /\ e + 1 = m => c * m + e + 1 = (c + 1) * m + 0
         /\ e + 1 <= m * (m + 1)
         /\ 0 * m + 0 = 0 /\ 0 <= m * (m + 1)
<1>1. c * m <= m * m /\ c * m \in Nat /\ m * m \in Nat
  OBVIOUS
<1>2. m * (m + 1) = m * m + m /\ (c + 1) * m = c * m + m
  OBVIOUS
<1>3. 0 * m = 0
  OBVIOUS
<1> QED  BY <1>1, <1>2, <1>3

\* A reply that is read is a packet, and what it decodes to is a picture.
LEMMA ReadTypes ==
  ASSUME fromBoard \in Seq(Packet), Len(fromBoard) <= MaxQueue, MaxQueue \in Nat
  PROVE  /\ GoodRead => /\ Arrived \in Bat3
                        /\ fromBoard' \in Seq(Packet) /\ Len(fromBoard') <= MaxQueue
         /\ BadRead => fromBoard' \in Seq(Packet) /\ Len(fromBoard') <= MaxQueue
<1>1. fromBoard # <<>> => /\ Head(fromBoard) \in Packet
                         /\ Tail(fromBoard) \in Seq(Packet)
                         /\ Len(Tail(fromBoard)) <= MaxQueue
  OBVIOUS
<1>2. GoodRead => Arrived \in Bat3
  BY <1>1, PacketTypes, DecodeTypes DEF GoodRead, Arrived
<1> QED  BY <1>1, <1>2 DEF GoodRead, BadRead, GarbledRead, SilentRead

\* The dialogue leaves a picture of the board and a state of its own.
LEMMA DialogueTypes ==
  ASSUME sample \in Bat3, romstate \in {"WRITE", "LISTEN", "DONE"}
  PROVE  /\ Dialogue.state \in Bat3
         /\ Dialogue.romstate \in {"WRITE", "LISTEN", "DONE"}
<1> DEFINE r == IF DoRead THEN doread(sample, romstate, Address)
                ELSE [state |-> sample, romstate |-> romstate]
<1>1. r.state \in Bat3 /\ r.romstate \in {"WRITE", "LISTEN", "DONE"}
  BY RomTypes, DaemonAssumption
<1>2. /\ dowrite(r.state, r.romstate, Address, Value).state \in Bat3
      /\ dowrite(r.state, r.romstate, Address, Value).romstate
           \in {"WRITE", "LISTEN", "DONE"}
  <2> HIDE DEF r
  <2> QED  BY <1>1, RomTypes, DaemonAssumption
<1> QED  BY <1>1, <1>2 DEF Dialogue

\* Initially all is well typed, whatever state the board is in.
LEMMA InitTyped == Init => TypeOK /\ Counting
<1> SUFFICES ASSUME Init PROVE TypeOK /\ Counting
  OBVIOUS
<1>1. target \in Target
  BY InitTarget DEF Init
<1>2. board \in BAT3reply /\ sample \in Bat3 /\ request \in Bat3
  BY DaemonAssumption, DecodeTypes DEF Init
<1>3. rom \in Byte
  BY DEF Init, Byte, MaxByte
<1>4. /\ toBoard \in Seq(BAT3request) /\ Len(toBoard) <= MaxQueue
      /\ fromBoard \in Seq(Packet) /\ Len(fromBoard) <= MaxQueue
  BY DaemonAssumption DEF Init
<1>5. /\ failed \in BOOLEAN /\ broken \in BOOLEAN /\ hasty \in BOOLEAN
      /\ report \subseteq [data : Byte, told : BOOLEAN]
  BY Zenon DEF Init
<1>6. TypeOK
  BY <1>1, <1>2, <1>3, <1>4, <1>5, DaemonAssumption DEF Init, TypeOK, Places
<1>7. Counting
  BY Polls, DaemonAssumption DEF Init, Counting, RequestsKeepComing
<1> QED  BY <1>6, <1>7

\* What is logged is a byte of a picture.
LEMMA ReportTypes ==
  ASSUME report \subseteq [data : Byte, told : BOOLEAN], CountRound, sample' \in Bat3
  PROVE  report' \subseteq [data : Byte, told : BOOLEAN]
<1>1. sample'.ee_data \in Byte
  BY DEF Bat3
<1>2. Told(sample', romstate) \in BOOLEAN
  BY DEF Told
<1>3. [data |-> sample'.ee_data, told |-> Told(sample', romstate)]
        \in [data : Byte, told : BOOLEAN]
  BY <1>1, <1>2, Zenon
<1> DEFINE entry == [data |-> sample'.ee_data, told |-> Told(sample', romstate)]
<1>4. report' = report \cup {entry} \/ report' = report
  BY DEF CountRound
<1> HIDE DEF entry
<1> QED  BY <1>3, <1>4 DEF entry

\* Every step keeps the types and the counts.
LEMMA StepTyped == TypeOK /\ Counting /\ [Next]_vars => TypeOK' /\ Counting'
<1> SUFFICES ASSUME TypeOK, Counting, [Next]_vars PROVE TypeOK' /\ Counting'
  OBVIOUS
<1> USE DaemonAssumption DEF load, progress, line, past
<1>0. /\ fromBoard \in Seq(Packet) /\ Len(fromBoard) <= MaxQueue
      /\ toBoard \in Seq(BAT3request) /\ Len(toBoard) <= MaxQueue
      /\ clock \in Nat /\ cnt \in Nat /\ cnt <= MAX_RETRIES
      /\ error \in Nat /\ error <= MAX_RETRIES
      /\ failed \in BOOLEAN /\ broken \in BOOLEAN /\ hasty \in BOOLEAN
      /\ report \subseteq [data : Byte, told : BOOLEAN]
  BY DEF TypeOK
<1>1. CASE OpenGood
  <2>1. TypeOK'
    BY <1>0, <1>1, ReadTypes DEF OpenGood, GoodRead, TypeOK, Places, LoopOrEnd
  <2>2. Counting'
    BY <1>0, <1>1, Polls DEF OpenGood, LoopOrEnd, Counting, RequestsKeepComing
  <2> QED  BY <2>1, <2>2
<1>2. CASE OpenBad
  <2>1. TypeOK'
    BY <1>0, <1>2, ReadTypes
    DEF OpenBad, BadRead, GarbledRead, SilentRead, TypeOK, Places, Counting
  <2>2. Counting'
    BY <1>0, <1>2, Polls DEF OpenBad, Counting, RequestsKeepComing
  <2> QED  BY <2>1, <2>2
<1>3. CASE SkipRound
  BY <1>3 DEF SkipRound, TypeOK, Places, Counting, RequestsKeepComing
<1>4. CASE StartRound
  <2>1. hasty' \in BOOLEAN
    BY <1>0, <1>4, Zenon DEF StartRound
  <2>2. /\ Dialogue.state \in Bat3
        /\ Dialogue.romstate \in {"WRITE", "LISTEN", "DONE"}
    BY DialogueTypes DEF TypeOK
  <2> QED  BY <1>4, <2>1, <2>2
           DEF StartRound, TypeOK, Places, Counting, RequestsKeepComing
<1>5. CASE WriteRequest
  <2>1. /\ target' \in Target /\ request' \in Bat3
        /\ toBoard' \in Seq(BAT3request) /\ Len(toBoard') <= MaxQueue
    <3>1. PICK rec \in BOOLEAN :
            LET result == doload(BlinkLed(sample), target, clock, rec)
            IN  /\ target' = result.target
                /\ request' = result.state
                /\ toBoard' = Append(toBoard, encodemsg(result.state))
      BY <1>5 DEF WriteRequest
    <3> DEFINE result == doload(BlinkLed(sample), target, clock, rec)
    <3>2. result.target \in Target /\ result.state \in Bat3
      BY <1>0, BlinkTypes, DoloadTypes DEF TypeOK
    <3>3. encodemsg(result.state) \in BAT3request
      BY <3>2, EncodeTypes
    <3>4. Len(toBoard) < MaxQueue
      BY <1>5 DEF WriteRequest
    <3> HIDE DEF result
    <3> QED  BY <1>0, <3>1, <3>2, <3>3, <3>4 DEF result
  <2>2. TypeOK'
    BY <1>5, <2>1 DEF WriteRequest, TypeOK, Places
  <2>3. Counting'
    BY <1>5, Polls DEF WriteRequest, Counting, RequestsKeepComing
  <2> QED  BY <2>2, <2>3
<1>6. CASE ReadGood
  <2>1. TypeOK'
    <3>1. sample' \in Bat3
      BY <1>0, <1>6, ReadTypes DEF ReadGood, TypeOK
    <3>2. failed' \in BOOLEAN
      BY <1>0, <1>6, Zenon DEF ReadGood
    <3>3. report' \subseteq [data : Byte, told : BOOLEAN]
      BY <1>0, <1>6, <3>1, ReportTypes DEF ReadGood
    <3> QED  BY <1>0, <1>6, <3>1, <3>2, <3>3, ReadTypes
             DEF ReadGood, CountRound, GoodRead, TypeOK, Places
  <2>2. Counting'
    <3>1. pc = "reading" /\ pc' = "socket" /\ reads' = reads + 1
      BY <1>6 DEF ReadGood, CountRound
    <3>2. reads' <= MAX_RETRIES * (MAX_RETRIES + 1)
      BY <1>0, <3>1, Polls DEF Counting
    <3> QED  BY <3>1, <3>2 DEF Counting, RequestsKeepComing
  <2> QED  BY <2>1, <2>2
<1>7. CASE ReadBad
  <2>0. /\ pc = "reading" /\ reads' = reads + 1
        /\ \/ error + 1 < MAX_RETRIES /\ error' = error + 1
              /\ UNCHANGED <<pc, cnt, cntsamples>>
           \/ ~(error + 1 < MAX_RETRIES) /\ error' = 0 /\ cnt < MAX_RETRIES
              /\ cnt' = cnt + 1 /\ UNCHANGED <<pc, cntsamples>>
           \/ error' = 0 /\ cnt' = 0 /\ pc' = "socket"
              /\ cntsamples' \in {cntsamples, cntsamples + 1}
    BY <1>7 DEF ReadBad, CountRound
  <2>1. TypeOK'
    <3>1. failed' \in BOOLEAN
      BY <1>0, <1>7, Zenon DEF ReadBad
    <3>2. /\ fromBoard' \in Seq(Packet) /\ Len(fromBoard') <= MaxQueue
          /\ UNCHANGED toBoard /\ faults' \in 0 .. MaxFaults
      <4>1. BadRead /\ faults \in 0 .. MaxFaults
        BY <1>7 DEF ReadBad, TypeOK
      <4>2. UNCHANGED toBoard /\ faults' \in 0 .. MaxFaults
        BY <4>1 DEF BadRead, GarbledRead, SilentRead
      <4> QED  BY <1>0, <4>1, <4>2, ReadTypes
    <3>3. UNCHANGED <<clock, target, sample, request, romstate, board, rom, broken, hasty>>
      BY <1>7 DEF ReadBad
    <3>5. report' \subseteq [data : Byte, told : BOOLEAN]
      <4>1. CountRound \/ report' = report
        BY <1>7 DEF ReadBad
      <4>2. sample' \in Bat3
        BY <3>3 DEF TypeOK
      <4> QED  BY <1>0, <4>1, <4>2, ReportTypes
    <3>4. /\ error' \in 0 .. MAX_RETRIES /\ cnt' \in 0 .. MAX_RETRIES
          /\ cntsamples' \in Nat /\ reads' \in Nat /\ pc' \in Places
      <4>1. /\ error \in 0 .. MAX_RETRIES /\ cnt \in 0 .. MAX_RETRIES
            /\ cntsamples \in Nat /\ reads \in Nat
            /\ "reading" \in Places /\ "socket" \in Places
            /\ MAX_RETRIES \in Nat \ {0}
        BY DEF TypeOK, Places
      <4> QED  BY ONLY <2>0, <4>1
    <3> QED  BY <1>0, <3>1, <3>2, <3>3, <3>4, <3>5, SMTT(30) DEF TypeOK
  <2>2. Counting'
    <3>1. error < MAX_RETRIES /\ reads = cnt * MAX_RETRIES + error
      BY <2>0 DEF Counting
    <3>2. /\ cnt * MAX_RETRIES + error + 1 <= MAX_RETRIES * (MAX_RETRIES + 1)
          /\ cnt * MAX_RETRIES + error + 1 = cnt * MAX_RETRIES + (error + 1)
          /\ error + 1 = MAX_RETRIES =>
               cnt * MAX_RETRIES + error + 1 = (cnt + 1) * MAX_RETRIES + 0
      BY <1>0, <3>1, Polls
    <3>3. reads' <= MAX_RETRIES * (MAX_RETRIES + 1)
      BY <2>0, <3>1, <3>2
    <3>4. error' < MAX_RETRIES
      BY <1>0, <2>0, <3>1
    <3>5. pc' = "reading" => reads' = cnt' * MAX_RETRIES + error'
      <4>1. error + 1 < MAX_RETRIES \/ error + 1 = MAX_RETRIES
        BY <1>0, <3>1
      <4>2. CASE error' = error + 1 /\ cnt' = cnt
        BY <2>0, <3>1, <3>2, <4>2
      <4>3. CASE error' = 0 /\ cnt' = cnt + 1 /\ ~(error + 1 < MAX_RETRIES)
        BY <2>0, <3>1, <3>2, <4>1, <4>3
      <4> QED  BY ONLY <2>0, <4>2, <4>3
    <3>6. pc' = "reading" \/ pc' = "socket"
      BY ONLY <2>0
    <3> QED  BY ONLY <3>3, <3>4, <3>5, <3>6 DEF Counting, RequestsKeepComing
  <2> QED  BY <2>1, <2>2
<1>8. CASE Order
  <2>1. target' \in Target
    <3>1. /\ \A i \in Int : setCurrent(target, i) \in Target
          /\ \A i \in Int : setHours(target, i, clock) \in Target
      BY <1>0, OrderTypes DEF TypeOK
    <3>2. \/ \E i \in Currents : target' = setCurrent(target, i)
          \/ \E i \in HoursArgs : target' = setHours(target, i, clock)
      BY <1>8 DEF Order
    <3> QED  BY <3>1, <3>2
  <2> QED  BY <1>8, <2>1 DEF Order, TypeOK, Places, Counting, RequestsKeepComing
<1>9. CASE LeaveSocket
  BY <1>9 DEF LeaveSocket, LoopOrEnd, TypeOK, Places, Counting, RequestsKeepComing
<1>10. CASE Exit
  BY <1>10 DEF Exit, TypeOK, Places, Counting, RequestsKeepComing
<1>11. CASE Tick
  BY <1>11 DEF Tick, TypeOK, Places, Counting, RequestsKeepComing
<1>12. CASE BoardTakes
  <2>1. Head(toBoard) \in BAT3request /\ Tail(toBoard) \in Seq(BAT3request)
        /\ Len(Tail(toBoard)) <= MaxQueue
    BY <1>0, <1>12 DEF BoardTakes
  <2>2. board' \in BAT3reply
    BY <1>12, <2>1, BoardTypes DEF BoardTakes, TypeOK
  <2>3. broken' \in BOOLEAN
    BY <1>0, <1>12, Zenon DEF BoardTakes
  <2> QED  BY <1>12, <2>1, <2>2, <2>3
           DEF BoardTakes, TypeOK, Places, Counting, RequestsKeepComing
<1>13. CASE BoardReports
  <2>1. fromBoard' \in Seq(Packet) /\ Len(fromBoard') <= MaxQueue
    BY <1>0, <1>13, PacketTypes DEF BoardReports, TypeOK
  <2> QED  BY <1>13, <2>1 DEF BoardReports, TypeOK, Counting, RequestsKeepComing
<1>14. CASE BoardMeasures
  <2>1. board' \in BAT3reply
    BY <1>14, MeasureTypes DEF BoardMeasures, TypeOK
  <2> QED  BY <1>14, <2>1 DEF BoardMeasures, TypeOK, Counting, RequestsKeepComing
<1>15. CASE LoseRequest
  <2>1. Tail(toBoard) \in Seq(BAT3request) /\ Len(Tail(toBoard)) <= MaxQueue
    BY <1>0, <1>15 DEF LoseRequest
  <2> QED  BY <1>15, <2>1 DEF LoseRequest, TypeOK, Counting, RequestsKeepComing
<1>16. CASE GarbleReply
  <2>1. fromBoard' \in Seq(Packet) /\ Len(fromBoard') <= MaxQueue
    BY <1>0, <1>16, PacketTypes, SMTT(30) DEF GarbleReply
  <2>2. /\ faults' \in 0 .. MaxFaults
        /\ UNCHANGED <<pc, load, progress, toBoard, board, rom, past>>
    BY <1>16, SMTT(30) DEF GarbleReply, TypeOK
  <2> QED  BY <2>1, <2>2 DEF TypeOK, Counting, RequestsKeepComing
<1>17. CASE BoardIsReady
  <2>1. board \in BAT3reply /\ board.ee_data \in Byte /\ rom \in Byte
    BY DEF TypeOK, BAT3reply
  <2>2. board' \in BAT3reply
    <3>1. /\ [board EXCEPT !.ee_ready = 1, !.ee_data = rom] \in BAT3reply
          /\ [board EXCEPT !.ee_ready = 1, !.ee_data = board.ee_data] \in BAT3reply
      BY <2>1, ReadyTypes
    <3> QED  BY <1>17, <3>1 DEF BoardIsReady
  <2>3. rom' \in Byte
    BY <1>17, <2>1 DEF BoardIsReady
  <2> QED  BY <1>17, <2>2, <2>3 DEF BoardIsReady, TypeOK, Counting, RequestsKeepComing
<1>18. CASE UNCHANGED vars
  BY <1>18 DEF vars, TypeOK, Counting, RequestsKeepComing
<1> QED
  BY <1>1, <1>2, <1>3, <1>4, <1>5, <1>6, <1>7, <1>8, <1>9, <1>10, <1>11, <1>12,
     <1>13, <1>14, <1>15, <1>16, <1>17, <1>18 DEF Next, Stopped

\* Every state of the daemon is well typed: no reply, lost packet or order
\* makes it hold, or send, anything that is not a picture of the board.
THEOREM Typing == Spec => []TypeOK
  BY InitTyped, StepTyped, PTL DEF Spec

\* The daemon never polls the line more than MAX_RETRIES * (MAX_RETRIES + 1)
\* times between two requests.
THEOREM Polling == Spec => []RequestsKeepComing
<1>1. Counting => RequestsKeepComing
  BY DEF Counting
<1> QED  BY <1>1, InitTyped, StepTyped, PTL DEF Spec

-----------------------------------------------------------------------------
(***************************************************************************)
(* The daemon implements the loader.                                       *)
(***************************************************************************)

\* L is Loader's copy of Bat3Func: its operators are the same.
LEMMA SameRound ==
  ASSUME NEW s, NEW t, NEW now, NEW rec
  PROVE  L!doload(L!BlinkLed(s), t, now, rec) = doload(BlinkLed(s), t, now, rec)
  BY DEF doload, BlinkLed, changeled, switch_opamp, reset_history, LoadOnBattery, LoadByHours, LoadByHistory, StopTimeReached, Recorded, Pausing, IsStable, check_stable, process_first_degree, calc_load, LoadDiff, PwmStep, PwmFloor, AtLeast, AtMost, battI, TruncDiv, ON, OFF, MAX_PWM_T, MIN_PWM_T, DEFTARGET, BIG_STEP, SMALL_STEP,
         L!doload, L!BlinkLed, L!changeled, L!switch_opamp, L!reset_history, L!LoadOnBattery, L!LoadByHours, L!LoadByHistory, L!StopTimeReached, L!Recorded, L!Pausing, L!IsStable, L!check_stable, L!process_first_degree, L!calc_load, L!LoadDiff, L!PwmStep, L!PwmFloor, L!AtLeast, L!AtMost, L!battI, L!TruncDiv, L!ON, L!OFF, L!MAX_PWM_T, L!MIN_PWM_T, L!DEFTARGET, L!BIG_STEP, L!SMALL_STEP

LEMMA SameOrders ==
  ASSUME NEW t, NEW i, NEW now
  PROVE  /\ L!initParams = initParams
         /\ L!setCurrent(t, i) = setCurrent(t, i)
         /\ L!setHours(t, i, now) = setHours(t, i, now)
  BY DEF initParams, setCurrent, setHours, DEFAULT_CURRENT, MaxCurrent, MaxHours,
         L!initParams, L!setCurrent, L!setHours, L!DEFAULT_CURRENT, L!MaxCurrent,
         L!MaxHours

\* A step that decides nothing may still change the sample: to the loader it
\* is an Accept, or nothing.
LEMMA OtherSteps ==
  ASSUME sample' \in Bat3, UNCHANGED <<clock, target, request>>
  PROVE  L!LoaderNext
  BY DEF L!LoaderNext, L!Accept

\* The whole daemon - retries, dialogue, lost and garbled packets, an exit at
\* any moment - is a loader: what Loader's properties say of requests and
\* targets holds of the program.
THEOREM Implements == Spec => ImplementsLoader
<1>1. Init => L!LoaderInit
  BY InitTyped, SameOrders DEF Init, L!LoaderInit, TypeOK
<1>2. TypeOK /\ TypeOK' /\ [Next]_vars => [L!LoaderNext]_(L!loaderVars)
  <2> SUFFICES ASSUME TypeOK, TypeOK', [Next]_vars
               PROVE  [L!LoaderNext]_(L!loaderVars)
    OBVIOUS
  <2> USE DEF L!loaderVars
  <2>1. sample' \in Bat3
    BY DEF TypeOK
  <2>2. CASE WriteRequest
    <3>1. PICK rec \in BOOLEAN :
            /\ target' = doload(BlinkLed(sample), target, clock, rec).target
            /\ request' = doload(BlinkLed(sample), target, clock, rec).state
      BY <2>2 DEF WriteRequest
    <3>2. L!Round(rec)
      BY <2>2, <3>1, SameRound DEF WriteRequest, L!Round
    <3> QED  BY <3>2 DEF L!LoaderNext
  <2>3. CASE Order
    <3>1. CASE \E i \in Currents : target' = setCurrent(target, i)
      BY <2>3, <3>1, SameOrders DEF Order, L!LoaderNext, L!SetCurrent
    <3>2. CASE \E i \in HoursArgs : target' = setHours(target, i, clock)
      BY <2>3, <3>2, SameOrders DEF Order, L!LoaderNext, L!SetHours
    <3> QED  BY <2>3, <3>1, <3>2 DEF Order
  <2>4. CASE Tick
    BY <2>4 DEF Tick, L!LoaderNext, L!Tick
  <2>5. CASE OpenGood \/ StartRound \/ ReadGood
    BY <2>1, <2>5, OtherSteps DEF OpenGood, StartRound, ReadGood
  <2>6. CASE \/ OpenBad \/ SkipRound \/ ReadBad \/ LeaveSocket \/ Exit \/ Stopped
             \/ BoardTakes \/ BoardIsReady \/ BoardReports \/ BoardMeasures
             \/ LoseRequest \/ GarbleReply \/ UNCHANGED vars
    BY <2>6 DEF OpenBad, SkipRound, ReadBad, LeaveSocket, Exit, Stopped,
                BoardTakes, BoardIsReady, BoardReports, BoardMeasures, LoseRequest,
                GarbleReply, vars, load
  <2> QED  BY <2>2, <2>3, <2>4, <2>5, <2>6 DEF Next
<1> QED
  BY <1>1, <1>2, Typing, PTL DEF Spec, ImplementsLoader, L!LoaderSpec

-----------------------------------------------------------------------------
(***************************************************************************)
(* The daemon with Loading's history.  The history looks on: it says for   *)
(* each step of the daemon what it becomes, and so forbids none.           *)
(***************************************************************************)
history == <<mode, steadySince, orderedAt, idleSince, idleUntil, spent>>

Decided(rec) ==
  LET result == doload(BlinkLed(sample), target, clock, rec)
  IN  target' = result.target /\ request' = result.state

Ordered ==
  /\ orderedAt' = clock
  /\ mode' = "ordered" /\ spent' = FALSE
  /\ idleSince' = 0 /\ idleUntil' = 0
  /\ UNCHANGED steadySince

Recorder ==
  \/ /\ WriteRequest
     /\ \E rec \in BOOLEAN :
          Decided(rec) /\ R!Remember(Branch(sample, target, clock, rec), target')
  \/ /\ Order
     /\ \/ (\E i \in Currents : target' = setCurrent(target, i)) /\ Ordered
        \/ (\E i \in HoursArgs : target' = setHours(target, i, clock)) /\ UNCHANGED history
  \/ ~WriteRequest /\ ~Order /\ UNCHANGED history

RecordedSpec ==
  /\ Init
  /\ mode = "start"
  /\ steadySince = 0 /\ orderedAt = 0
  /\ idleSince = 0 /\ idleUntil = 0 /\ spent = FALSE
  /\ [][Next /\ Recorder]_<<vars, history>>

LEMMA RecordedStep ==
  ASSUME TypeOK, TypeOK', [Next /\ Recorder]_<<vars, history>>
  PROVE  [R!Next]_(R!vars)
<1> USE DEF R!vars, R!loaderVars, R!history, history
<1>1. CASE WriteRequest /\ Next /\ Recorder
  <2>1. ~Order
    BY <1>1 DEF WriteRequest, Order
  <2>2. PICK rec \in BOOLEAN :
          Decided(rec) /\ R!Remember(Branch(sample, target, clock, rec), target')
    BY <1>1, <2>1 DEF Recorder
  <2>3. R!Round(rec)
    BY <1>1, <2>2, SameOperators DEF Decided, WriteRequest, R!Round
  <2>4. R!Remember(R!Branch(sample, target, clock, rec), target')
    BY <2>2, SameOperators
  <2> QED  BY <2>3, <2>4 DEF R!LoadingRound, R!Next
<1>2. CASE Order /\ Next /\ Recorder
  <2>1. ~WriteRequest
    BY <1>2 DEF WriteRequest, Order
  <2>2. UNCHANGED <<clock, sample, request>>
    BY <1>2 DEF Order
  <2>3. CASE (\E i \in Currents : target' = setCurrent(target, i)) /\ Ordered
    <3>1. PICK i \in Currents : target' = setCurrent(target, i)
      BY <2>3
    <3>2. R!SetCurrent(i)
      BY <2>2, <3>1, SameOperators DEF R!SetCurrent
    <3> QED  BY <2>3, <3>2 DEF Ordered, R!LoadingSetCurrent, R!Next
  <2>4. CASE (\E i \in HoursArgs : target' = setHours(target, i, clock)) /\ UNCHANGED history
    <3>1. PICK i \in HoursArgs : target' = setHours(target, i, clock)
      BY <2>4
    <3>2. R!SetHours(i)
      BY <2>2, <3>1, SameOperators DEF R!SetHours
    <3> QED  BY <2>4, <3>2 DEF R!LoadingSetHours, R!Next
  <2> QED  BY <1>2, <2>1, <2>3, <2>4 DEF Recorder
<1>3. CASE ~WriteRequest /\ ~Order /\ Next /\ Recorder
  <2>1. UNCHANGED history
    BY <1>3 DEF Recorder
  <2>2. CASE Tick
    BY <2>1, <2>2 DEF Tick, R!LoadingTick, R!Tick, R!Next
  <2>3. CASE OpenGood \/ StartRound \/ ReadGood
    <3>1. UNCHANGED <<clock, target, request>> /\ sample' \in Bat3
      BY <2>3 DEF OpenGood, StartRound, ReadGood, TypeOK
    <3> QED  BY <2>1, <3>1 DEF R!LoadingAccept, R!Accept, R!Next
  <2>4. CASE \/ OpenBad \/ SkipRound \/ ReadBad \/ LeaveSocket \/ Exit \/ Stopped
             \/ BoardTakes \/ BoardIsReady \/ BoardReports \/ BoardMeasures
             \/ LoseRequest \/ GarbleReply
    BY <2>1, <2>4 DEF OpenBad, SkipRound, ReadBad, LeaveSocket, Exit, Stopped,
                      BoardTakes, BoardIsReady, BoardReports, BoardMeasures, LoseRequest,
                      GarbleReply, vars, load
  <2> QED  BY <1>3, <2>2, <2>3, <2>4 DEF Next
<1>4. CASE UNCHANGED <<vars, history>>
  BY <1>4 DEF vars, load
<1> QED  BY <1>1, <1>2, <1>3, <1>4

\* What LoadingProofs shows of the loader holds of the whole program,
\* whatever the line, the board, the dialogue and the clients do: the daemon
\* lets the batteries rest only when that is earned, no rest lasts a day, and
\* there is one for each charge.
THEOREM Resting ==
  RecordedSpec => [](R!PauseEarned /\ R!PauseEnds /\ R!OneRestPerCharge)
<1>1. Init /\ mode = "start" /\ steadySince = 0 /\ orderedAt = 0
        /\ idleSince = 0 /\ idleUntil = 0 /\ spent = FALSE => R!Init
  BY InitTyped, SameOperators DEF Init, TypeOK, R!Init, R!LoaderInit
<1>2. RecordedSpec => Spec
  <2>1. [Next /\ Recorder]_<<vars, history>> => [Next]_vars
    OBVIOUS
  <2> QED  BY <2>1, PTL DEF RecordedSpec, Spec
<1>3. TypeOK /\ TypeOK' /\ [Next /\ Recorder]_<<vars, history>> => [R!Next]_(R!vars)
  BY RecordedStep
<1>4. RecordedSpec => R!Spec
  BY <1>1, <1>2, <1>3, Typing, PTL DEF RecordedSpec, R!Spec
<1>5. R!Spec => [](R!PauseEarned /\ R!PauseEnds /\ R!OneRestPerCharge)
  BY R!Resting, Premises, Zenon
<1> QED  BY <1>4, <1>5, PTL

-----------------------------------------------------------------------------
(***************************************************************************)
(* The EEPROM dialogue, with a board that is not at work on its EEPROM     *)
(* when the daemon starts.  (A board that shows the request of another     *)
(* program is believed: the dialogue takes that for an answer to its own.) *)
(***************************************************************************)
IdleBoards == \A b \in Boards : b.ee_read = 0 /\ b.ee_write = 0 /\ b.ee_ready = 0

WaitsForReply == pc \in {"round", "reading"}

(***************************************************************************)
(* -w alone.  Whatever is on its way in either direction, a packet that    *)
(* says "write" carries the byte to be written.  While no access has been  *)
(* broken off a reply that says so is followed by others, until the byte   *)
(* is written; while no round has failed either, the dialogue leaves WRITE *)
(* when it has seen such a reply, and LISTEN when they have come to their  *)
(* end.                                                                    *)
(***************************************************************************)
WritesOrder(p) == p.ee_write = 1 => p.ee_data = Value % (MaxByte + 1) /\ p.ee_read = 0

Shows(i) == fromBoard[i].ok => fromBoard[i].reply.ee_write = 1

AllShow ==
  /\ board.ee_write = 1
  /\ \A i \in DOMAIN fromBoard : Shows(i)

\* While the byte is not written and nothing has been broken off:
Unwritten ==
  /\ board.ee_write = 1 => board.ee_ready = 0
  /\ \A i \in DOMAIN fromBoard :
       fromBoard[i].ok /\ fromBoard[i].reply.ee_write = 1 =>
         /\ board.ee_write = 1
         /\ \A j \in DOMAIN fromBoard : i < j => Shows(j)

WriteInv ==
  /\ \A i \in DOMAIN toBoard : WritesOrder(toBoard[i])
  /\ WritesOrder(board)
  /\ \A i \in DOMAIN fromBoard : fromBoard[i].ok => WritesOrder(fromBoard[i].reply)
  /\ sample.ee_write = ON =>
       sample.ee_data = Value % (MaxByte + 1) /\ sample.ee_read = OFF
  /\ ~broken /\ ~Written => Unwritten
  /\ ~broken /\ ~failed /\ ~Written =>
       /\ sample.ee_write = ON /\ ~WaitsForReply => AllShow
       /\ romstate # "WRITE" =>
            /\ AllShow /\ romstate = "LISTEN"
            /\ sample.ee_write = ON \/ WaitsForReply

(***************************************************************************)
(* -r alone.  A picture tells the byte when its data is the byte, and is   *)
(* an answer when it does or is of a read.                                 *)
(***************************************************************************)
Cell == Address % (MaxByte + 1)

Tells(p) == p.ee_data = rom

Answers(p) == p.ee_read = 1 \/ Tells(p)

Answered == sample.ee_read = ON \/ Tells(sample)

AllAnswer ==
  /\ \A i \in DOMAIN fromBoard : fromBoard[i].ok => Answers(fromBoard[i].reply)
  /\ Answers(board)

\* No packet says "write", and one that says "read" means the cell.
Reads(p) == p.ee_write = 0 /\ (p.ee_read = 1 => p.ee_addr = Cell)

\* The board is ready only after a read, and then it tells the byte.
ReadyTells(p) == p.ee_ready = 1 => p.ee_read = 1 /\ Tells(p)

OnlyReads ==
  /\ \A i \in DOMAIN toBoard : Reads(toBoard[i])
  /\ Reads(board) /\ ReadyTells(board)
  /\ \A i \in DOMAIN fromBoard :
       fromBoard[i].ok => Reads(fromBoard[i].reply) /\ ReadyTells(fromBoard[i].reply)
  /\ sample.ee_write = OFF /\ (sample.ee_read = ON => sample.ee_addr = Cell)
  /\ sample.ee_ready = ON =>
       /\ sample.ee_addr = Cell
       /\ romstate = "WRITE" => sample.ee_read = ON
       /\ Address = Cell => Tells(sample)
  /\ romstate # "WRITE" => Address = Cell

\* An answer is followed by nothing that is none.
InOrder ==
  /\ \A i, j \in DOMAIN fromBoard :
       i < j /\ fromBoard[i].ok /\ fromBoard[j].ok /\ Answers(fromBoard[i].reply)
         => Answers(fromBoard[j].reply)
  /\ \A i \in DOMAIN fromBoard :
       fromBoard[i].ok /\ Answers(fromBoard[i].reply) => Answers(board)

\* While the dialogue has not been hasty, every request asks for the byte or
\* repeats it, and the dialogue asks until it has been told what it logs.
Heard ==
  /\ \A i \in DOMAIN toBoard : Answers(toBoard[i])
  /\ InOrder
  /\ sample.ee_ready = ON /\ Address = Cell => AllAnswer
  /\ WaitsForReply => Answered
  /\ romstate # "WRITE" => Answered /\ AllAnswer
  /\ \A r \in report : r.told => r.data = rom

ReadInv ==
  /\ OnlyReads
  /\ ~hasty => Heard

(***************************************************************************)
(* What the steps do to the queues.                                        *)
(***************************************************************************)

\* Nothing is added to the requests; or to the replies, of which `gone` have
\* left at the head.
OnlyOldRequests ==
  \A i \in DOMAIN toBoard' : \E k \in DOMAIN toBoard : toBoard'[i] = toBoard[k]

OnlyOldReplies(gone) ==
  \A i \in DOMAIN fromBoard' :
    fromBoard'[i].ok => i + gone \in DOMAIN fromBoard /\ fromBoard'[i] = fromBoard[i + gone]

\* The steps that tell neither the daemon nor the board anything.
Quiet ==
  \/ OpenBad \/ SkipRound \/ ReadBad \/ Order \/ LeaveSocket \/ Exit
  \/ Tick \/ Stopped \/ LoseRequest \/ GarbleReply \/ UNCHANGED vars

\* What -r logs at the end of its third round.
Logged == [data |-> sample.ee_data, told |-> Told(sample, romstate)]

LEMMA GoodReads ==
  ASSUME fromBoard \in Seq(Packet), GoodRead
  PROVE  /\ OnlyOldReplies(1)
         /\ 1 \in DOMAIN fromBoard /\ fromBoard[1].ok
         /\ Arrived = decodemsg(fromBoard[1].reply)
  BY DEF GoodRead, Arrived, OnlyOldReplies

LEMMA BadReads ==
  ASSUME fromBoard \in Seq(Packet), BadRead
  PROVE  /\ \E gone \in {0, 1} : OnlyOldReplies(gone)
         /\ UNCHANGED toBoard
<1>1. CASE GarbledRead
  <2>1. OnlyOldReplies(1)
    BY <1>1 DEF GarbledRead, OnlyOldReplies
  <2> QED  BY <1>1, <2>1 DEF GarbledRead
<1>2. CASE SilentRead
  <2>1. OnlyOldReplies(0)
    BY <1>2 DEF SilentRead, OnlyOldReplies
  <2> QED  BY <1>2, <2>1 DEF SilentRead
<1> QED  BY <1>1, <1>2 DEF BadRead

LEMMA QuietSteps ==
  ASSUME TypeOK, Quiet
  PROVE  /\ UNCHANGED <<sample, romstate, board, rom, broken, hasty>>
         /\ WaitsForReply' => WaitsForReply
         /\ ~failed' => ~failed /\ (WaitsForReply' <=> WaitsForReply)
         /\ report' = report \/ report' = report \cup {Logged}
         /\ OnlyOldRequests
         /\ \E gone \in {0, 1} : OnlyOldReplies(gone)
<1> USE DEF load, progress, line, past
<1>0. fromBoard \in Seq(Packet) /\ toBoard \in Seq(BAT3request)
  BY DEF TypeOK
<1>1. /\ UNCHANGED toBoard => OnlyOldRequests
      /\ UNCHANGED fromBoard => OnlyOldReplies(0)
  BY <1>0 DEF OnlyOldRequests, OnlyOldReplies
<1>2. CASE OpenBad
  BY <1>0, <1>1, <1>2, BadReads DEF OpenBad, WaitsForReply
<1>3. CASE ReadBad
  <2>1. /\ BadRead /\ WaitsForReply
        /\ UNCHANGED <<sample, romstate, board, rom, broken, hasty>>
    BY <1>3 DEF ReadBad, WaitsForReply
  <2>2. \/ UNCHANGED <<pc, report, failed>>
        \/ failed' = TRUE /\ CountRound
    BY <1>3 DEF ReadBad
  <2>3. report' = report \/ report' = report \cup {Logged}
    BY <2>1, <2>2 DEF CountRound, Logged, Told, NotReady
  <2>4. ~failed' => ~failed /\ (WaitsForReply' <=> WaitsForReply)
    BY <2>2 DEF WaitsForReply
  <2> QED  BY <1>0, <1>1, <2>1, <2>3, <2>4, BadReads
<1>4. CASE LoseRequest
  <2>1. OnlyOldRequests
    BY <1>0, <1>4 DEF LoseRequest, OnlyOldRequests
  <2> QED  BY <1>1, <1>4, <2>1 DEF LoseRequest, WaitsForReply
<1>5. CASE GarbleReply
  <2>1. OnlyOldReplies(0)
    <3>1. PICK k \in DOMAIN fromBoard : fromBoard' = [fromBoard EXCEPT ![k] = Garbled]
      BY <1>5 DEF GarbleReply
    <3> QED  BY <1>0, <3>1, PacketTypes DEF OnlyOldReplies
  <2> QED  BY <1>1, <1>5, <2>1 DEF GarbleReply, WaitsForReply
<1>6. CASE SkipRound \/ Order \/ LeaveSocket \/ Exit \/ Tick
  BY <1>1, <1>6 DEF SkipRound, Order, LeaveSocket, LoopOrEnd, Exit, Tick, WaitsForReply
<1>7. CASE Stopped \/ UNCHANGED vars
  BY <1>1, <1>7 DEF Stopped, vars, WaitsForReply
<1> QED
  BY <1>2, <1>3, <1>4, <1>5, <1>6, <1>7 DEF Quiet

\* What is sent says of the EEPROM what the sample says.
LEMMA RequestFollowsSample ==
  ASSUME TypeOK, WriteRequest
  PROVE  \A i \in DOMAIN toBoard' :
           \/ i \in DOMAIN toBoard /\ toBoard'[i] = toBoard[i]
           \/ /\ toBoard'[i].ee_data = sample.ee_data
              /\ toBoard'[i].ee_addr = sample.ee_addr
              /\ toBoard'[i].ee_read = BitOn(sample.ee_read)
              /\ toBoard'[i].ee_write = BitOn(sample.ee_write)
<1>1. PICK rec \in BOOLEAN :
        toBoard' = Append(toBoard, encodemsg(doload(BlinkLed(sample), target, clock, rec).state))
  BY DEF WriteRequest
<1> DEFINE s == doload(BlinkLed(sample), target, clock, rec).state
<1>2. SameRom(sample, s)
  BY DoloadKeepsRom DEF TypeOK
<1>3. /\ encodemsg(s).ee_data = sample.ee_data
      /\ encodemsg(s).ee_addr = sample.ee_addr
      /\ encodemsg(s).ee_read = BitOn(sample.ee_read)
      /\ encodemsg(s).ee_write = BitOn(sample.ee_write)
  <2> HIDE DEF s
  <2> QED  BY <1>2 DEF encodemsg, SameRom
<1>4. toBoard \in Seq(BAT3request)
  BY DEF TypeOK
<1>5. s \in Bat3
  BY BlinkTypes, DoloadTypes DEF TypeOK
<1>6. encodemsg(s) \in BAT3request
  <2> HIDE DEF s
  <2> QED  BY <1>5, EncodeTypes
<1>7. toBoard' = Append(toBoard, encodemsg(s))
  BY <1>1
<1> HIDE DEF s
<1>8. QED
  <2> DEFINE q == encodemsg(s)
  <2> HIDE DEF q
  <2>1. \A i \in DOMAIN Append(toBoard, q) :
          \/ i \in DOMAIN toBoard /\ Append(toBoard, q)[i] = toBoard[i]
          \/ Append(toBoard, q)[i] = q
    BY <1>4
  <2> QED  BY <1>3, <1>7, <2>1 DEF q

\* A picture says of the EEPROM what its reply says.
LEMMA DecodedRom ==
  ASSUME NEW reply
  PROVE  /\ decodemsg(reply).ee_data = reply.ee_data
         /\ decodemsg(reply).ee_addr = reply.ee_addr
         /\ decodemsg(reply).ee_read = ON <=> reply.ee_read = 1
         /\ decodemsg(reply).ee_read \in OnOff
         /\ decodemsg(reply).ee_write = ON <=> reply.ee_write = 1
         /\ decodemsg(reply).ee_write \in OnOff
         /\ decodemsg(reply).ee_ready = ON <=> reply.ee_ready = 1
  BY Switches DEF decodemsg, OnIf

\* What the board shows of the EEPROM after a request, at the end of an
\* access, and after measuring.
LEMMA AppliedRom ==
  ASSUME NEW b \in BAT3reply, NEW req \in BAT3request
  PROVE  SameRom(req, Applied(b, req)) /\ Applied(b, req).ee_ready = 0
  BY DEF Applied, BAT3reply, BAT3request, SameRom

LEMMA ReadyRom ==
  ASSUME TypeOK, BoardIsReady
  PROVE  /\ board'.ee_read = board.ee_read /\ board'.ee_write = board.ee_write
         /\ board'.ee_addr = board.ee_addr /\ board'.ee_ready = 1
         /\ board'.ee_data = IF board.ee_read = 1 THEN rom ELSE board.ee_data
         /\ board.ee_read = 1 \/ board.ee_write = 1
<1>1. board \in BAT3reply
  BY DEF TypeOK
<1>2. board' = [board EXCEPT !.ee_ready = 1,
                            !.ee_data = IF board.ee_read = 1 THEN rom ELSE board.ee_data]
  BY DEF BoardIsReady
<1>3. board.ee_read = 1 \/ board.ee_write = 1
  BY DEF BoardIsReady, AtWork
<1> QED  BY <1>1, <1>2, <1>3 DEF BAT3reply

LEMMA MeasuredRom ==
  ASSUME NEW b \in BAT3reply, NEW m
  PROVE  /\ SameRom(b, [b EXCEPT !.batRun = m.batRun, !.adc7 = m.adc7])
         /\ [b EXCEPT !.batRun = m.batRun, !.adc7 = m.adc7].ee_ready = b.ee_ready
  BY DEF SameRom, BAT3reply

LEMMA MeasuringKeeps ==
  ASSUME TypeOK, BoardMeasures
  PROVE  SameRom(board, board') /\ board'.ee_ready = board.ee_ready
<1>1. PICK m \in Measurements :
        board' = [board EXCEPT !.batRun = m.batRun, !.adc7 = m.adc7]
  BY DEF BoardMeasures
<1>2. board \in BAT3reply
  BY DEF TypeOK
<1> QED  BY <1>1, <1>2, MeasuredRom

\* The request that the board takes is one of those under way.
LEMMA TakenRom ==
  ASSUME TypeOK, BoardTakes
  PROVE  /\ \E k \in DOMAIN toBoard : SameRom(toBoard[k], board') /\ board'.ee_ready = 0
         /\ OnlyOldRequests
<1>1. /\ toBoard \in Seq(BAT3request) /\ toBoard # <<>>
      /\ toBoard' = Tail(toBoard)
  BY DEF TypeOK, BoardTakes
<1>2. /\ Head(toBoard) \in BAT3request /\ Head(toBoard) = toBoard[1] /\ 1 \in DOMAIN toBoard
      /\ OnlyOldRequests
  BY <1>1 DEF OnlyOldRequests
<1>3. SameRom(Head(toBoard), board') /\ board'.ee_ready = 0
  BY <1>2, AppliedRom DEF BoardTakes, TypeOK
<1> QED  BY <1>2, <1>3

\* A report is added behind the others.
LEMMA ReportedRom ==
  ASSUME TypeOK, BoardReports
  PROVE  \A i \in DOMAIN fromBoard' :
          /\ i \in Nat
          /\ \/ i \in DOMAIN fromBoard /\ fromBoard'[i] = fromBoard[i]
             \/ /\ \A j \in DOMAIN fromBoard' : i >= j
                /\ fromBoard'[i].ok /\ fromBoard'[i].reply = board
<1>1. fromBoard \in Seq(Packet) /\ fromBoard' = Append(fromBoard, Intact(board))
  BY DEF TypeOK, BoardReports
<1>2. /\ \A i \in 1 .. Len(fromBoard) : fromBoard'[i] = fromBoard[i]
      /\ DOMAIN fromBoard' = 1 .. Len(fromBoard) + 1
      /\ DOMAIN fromBoard = 1 .. Len(fromBoard) /\ Len(fromBoard) \in Nat
      /\ fromBoard'[Len(fromBoard) + 1] = Intact(board)
  BY <1>1
<1>3. Intact(board).ok /\ Intact(board).reply = board
  BY DEF Intact
<1> QED  BY <1>2, <1>3

-----------------------------------------------------------------------------
(***************************************************************************)
(* -w alone: what the dialogue takes for an answer is one.                 *)
(***************************************************************************)

\* One step of the dialogue of -w: it says "write" with the byte, it leaves
\* WRITE when it sees its order, and LISTEN when it does not see it any more.
LEMMA WriteDialogue ==
  ASSUME NEW s \in Bat3, NEW rs \in {"WRITE", "LISTEN", "DONE"},
         NEW a \in Int, NEW v \in Int,
         s.ee_write = ON => s.ee_data = v % (MaxByte + 1) /\ s.ee_read = OFF
  PROVE  LET d == dowrite(s, rs, a, v)
         IN  /\ d.state.ee_write = ON =>
                  d.state.ee_data = v % (MaxByte + 1) /\ d.state.ee_read = OFF
             /\ rs = "WRITE" /\ d.romstate # "WRITE" =>
                  s.ee_write = ON /\ d.romstate = "LISTEN"
             /\ rs = "LISTEN" /\ s.ee_write = ON => d.romstate = "LISTEN"
<1> DEFINE w == v % (MaxByte + 1)
           x == a % (MaxByte + 1)
           stop == [s EXCEPT !.ee_addr = x, !.ee_read = OFF, !.ee_write = OFF]
           ask == [s EXCEPT !.ee_addr = x, !.ee_read = OFF, !.ee_write = ON, !.ee_data = w]
<1>1. stop.ee_write = OFF
  <2> HIDE DEF x
  <2> QED  BY DEF Bat3
<1>2. ask.ee_data = w /\ ask.ee_read = OFF
  <2> HIDE DEF x, w
  <2> QED  BY DEF Bat3
<1> HIDE DEF w
<1>3. LET d == RomStep(s, rs, a, s.ee_write = ON, ask)
      IN  /\ d.state \in {stop, ask, s}
          /\ rs = "WRITE" /\ d.romstate # "WRITE" =>
               s.ee_write = ON /\ d.romstate = "LISTEN"
          /\ rs = "LISTEN" /\ s.ee_write = ON => d.romstate = "LISTEN"
  <2> HIDE DEF ask
  <2> QED  BY DEF RomStep
<1> HIDE DEF stop, ask
<1>4. LET d == RomStep(s, rs, a, s.ee_write = ON, ask)
      IN  d.state.ee_write = ON => d.state.ee_data = w /\ d.state.ee_read = OFF
  BY <1>1, <1>2, <1>3, Switches DEF w
<1> QED  BY <1>3, <1>4 DEF dowrite, ask, w, x

LEMMA WriteStep ==
  ASSUME TypeOK, TypeOK', WriteInv, [Next]_vars, DoWrite, ~DoRead
  PROVE  WriteInv'
<1> USE DEF load, progress, line, past
<1>0. /\ fromBoard \in Seq(Packet) /\ toBoard \in Seq(BAT3request)
      /\ sample \in Bat3 /\ romstate \in {"WRITE", "LISTEN", "DONE"}
      /\ \A i \in DOMAIN fromBoard : i \in Nat
      /\ \A i \in DOMAIN fromBoard' : i \in Nat
  <2>1. ASSUME NEW s \in Seq(Packet), NEW i \in DOMAIN s
        PROVE  i \in Nat
    OBVIOUS
  <2>2. fromBoard \in Seq(Packet) /\ fromBoard' \in Seq(Packet)
    BY DEF TypeOK
  <2> QED  BY <2>1, <2>2 DEF TypeOK
<1>1. CASE Quiet
  <2>1. PICK gone \in {0, 1} : OnlyOldReplies(gone)
    BY <1>1, QuietSteps
  <2>2. \A i, j \in DOMAIN fromBoard' : i < j => i + gone < j + gone
    BY <1>0
  <2>3. /\ UNCHANGED <<sample, romstate, board, rom, broken>> /\ OnlyOldRequests
        /\ ~failed' => ~failed /\ (WaitsForReply' <=> WaitsForReply)
    BY <1>1, QuietSteps
  <2>4. AllShow => AllShow'
    BY <2>1, <2>3 DEF AllShow, Shows, OnlyOldReplies
  <2>5. \A i \in DOMAIN fromBoard' : fromBoard'[i].ok => WritesOrder(fromBoard'[i].reply)
    BY <2>1 DEF WriteInv, OnlyOldReplies
  <2>6. Unwritten => Unwritten'
    BY <2>1, <2>2, <2>3 DEF Unwritten, Shows, OnlyOldReplies
  <2>7. \A i \in DOMAIN toBoard' : WritesOrder(toBoard'[i])
    BY <2>3 DEF WriteInv, OnlyOldRequests
  <2> QED  BY <2>3, <2>4, <2>5, <2>6, <2>7 DEF WriteInv, Written, WritesOrder
<1>2. CASE OpenGood \/ ReadGood
  <2>1. /\ GoodRead /\ UNCHANGED <<romstate, board, rom, toBoard, broken>>
        /\ \/ sample' = Arrived /\ failed' = failed
           \/ sample' = sample /\ failed'
    BY <1>2 DEF OpenGood, ReadGood, GoodRead
  <2> DEFINE first == fromBoard[1].reply
  <2>2. /\ OnlyOldReplies(1)
        /\ 1 \in DOMAIN fromBoard /\ fromBoard[1].ok /\ Arrived = decodemsg(first)
    BY <1>0, <2>1, GoodReads
  <2>3. /\ Arrived.ee_data = first.ee_data
        /\ Arrived.ee_write = ON <=> first.ee_write = 1
        /\ first.ee_read # 1 => Arrived.ee_read = OFF
    BY <2>2, DecodedRom, Switches DEF OnOff
  <2>4. WritesOrder(first)
    BY <2>2 DEF WriteInv
  <2>5. \A i \in DOMAIN fromBoard' : fromBoard'[i].ok => WritesOrder(fromBoard'[i].reply)
    BY <2>2 DEF WriteInv, OnlyOldReplies
  <2>6. sample'.ee_write = ON =>
          sample'.ee_data = Value % (MaxByte + 1) /\ sample'.ee_read = OFF
    BY <2>1, <2>3, <2>4 DEF WriteInv, WritesOrder
  <2>7. AllShow => AllShow' /\ first.ee_write = 1
    BY <2>1, <2>2 DEF AllShow, Shows, OnlyOldReplies
  <2>8. Unwritten => Unwritten'
    BY <1>0, <2>1, <2>2 DEF Unwritten, Shows, OnlyOldReplies
  <2>9. Unwritten /\ first.ee_write = 1 => AllShow'
    BY <1>0, <2>1, <2>2 DEF Unwritten, AllShow, Shows, OnlyOldReplies
  <2>10. (Written <=> Written') /\ (\A i \in DOMAIN toBoard' : WritesOrder(toBoard'[i]))
         /\ WritesOrder(board')
    BY <2>1 DEF WriteInv, Written, WritesOrder
  <2>11. ~broken' /\ ~Written' => Unwritten /\ Unwritten'
    BY <2>1, <2>8, <2>10 DEF WriteInv
  <2>12. ASSUME ~broken', ~failed', ~Written'
         PROVE  /\ sample'.ee_write = ON => AllShow'
                /\ romstate' # "WRITE" =>
                     AllShow' /\ romstate' = "LISTEN" /\ sample'.ee_write = ON
    <3>1. sample' = Arrived /\ ~failed /\ ~broken /\ ~Written
      BY <2>1, <2>10, <2>12
    <3>2. sample'.ee_write = ON <=> first.ee_write = 1
      BY <2>3, <3>1
    <3>3. romstate # "WRITE" => AllShow /\ romstate = "LISTEN"
      BY <3>1 DEF WriteInv
    <3> HIDE DEF first
    <3> QED  BY <2>1, <2>7, <2>9, <2>11, <2>12, <3>2, <3>3
  <2> HIDE DEF first
  <2> QED  BY <2>5, <2>6, <2>10, <2>11, <2>12 DEF WriteInv
<1>3. CASE StartRound
  <2>1. /\ sample' = dowrite(sample, romstate, Address, Value).state
        /\ romstate' = dowrite(sample, romstate, Address, Value).romstate
    BY <1>3 DEF StartRound, Dialogue
  <2>2. /\ sample'.ee_write = ON =>
             sample'.ee_data = Value % (MaxByte + 1) /\ sample'.ee_read = OFF
        /\ romstate = "WRITE" /\ romstate' # "WRITE" =>
             sample.ee_write = ON /\ romstate' = "LISTEN"
        /\ romstate = "LISTEN" /\ sample.ee_write = ON => romstate' = "LISTEN"
    <3>1. sample.ee_write = ON =>
            sample.ee_data = Value % (MaxByte + 1) /\ sample.ee_read = OFF
      BY DEF WriteInv
    <3> QED  BY <1>0, <2>1, <3>1, WriteDialogue, DaemonAssumption
  <2>3. /\ ~WaitsForReply /\ WaitsForReply'
        /\ UNCHANGED <<toBoard, fromBoard, board, rom, failed, broken>>
    BY <1>3 DEF StartRound, WaitsForReply
  <2>4. (AllShow <=> AllShow') /\ (Written <=> Written') /\ (Unwritten <=> Unwritten')
    BY <2>3 DEF AllShow, Shows, Written, Unwritten
  <2> QED  BY <2>2, <2>3, <2>4 DEF WriteInv, WritesOrder
<1>4. CASE WriteRequest
  <2>1. \A i \in DOMAIN toBoard' : WritesOrder(toBoard'[i])
    BY <1>4, RequestFollowsSample, Switches DEF WriteInv, WritesOrder, BitOn
  <2>2. /\ WaitsForReply /\ WaitsForReply'
        /\ UNCHANGED <<sample, romstate, fromBoard, board, rom, failed, broken>>
    BY <1>4 DEF WriteRequest, WaitsForReply
  <2>3. (AllShow <=> AllShow') /\ (Written <=> Written') /\ (Unwritten <=> Unwritten')
    BY <2>2 DEF AllShow, Shows, Written, Unwritten
  <2> QED  BY <2>1, <2>2, <2>3 DEF WriteInv, WritesOrder
<1>5. CASE BoardTakes
  <2>1. /\ UNCHANGED <<pc, sample, romstate, fromBoard, rom, failed>> /\ OnlyOldRequests
        /\ ~broken' => ~broken /\ ~AtWork(board)
    BY <1>5, TakenRom DEF BoardTakes
  <2>2. PICK k \in DOMAIN toBoard : SameRom(toBoard[k], board') /\ board'.ee_ready = 0
    BY <1>5, TakenRom
  <2>3. WritesOrder(board') /\ (\A i \in DOMAIN toBoard' : WritesOrder(toBoard'[i]))
    BY <2>1, <2>2 DEF WriteInv, SameRom, WritesOrder, OnlyOldRequests
  \* An access that is not done is broken off.
  <2>4. ~broken' /\ ~Written => board.ee_write # 1 /\ ~AllShow
    BY <2>1 DEF WriteInv, Unwritten, AtWork, AllShow
  <2>5. ~broken' /\ ~Written' => Unwritten'
    BY <2>1, <2>2, <2>4 DEF WriteInv, Unwritten, Written
  <2>6. WaitsForReply' <=> WaitsForReply
    BY <2>1 DEF WaitsForReply
  <2> QED  BY <2>1, <2>3, <2>4, <2>5, <2>6 DEF WriteInv, Written, WritesOrder
<1>6. CASE BoardIsReady
  <2>1. /\ UNCHANGED <<pc, sample, romstate, toBoard, fromBoard, failed, broken>>
        /\ rom' = IF board.ee_write = 1 THEN board.ee_data ELSE rom
    BY <1>6 DEF BoardIsReady
  <2>2. WritesOrder(board')
    BY <1>6, ReadyRom DEF WriteInv, WritesOrder
  <2>3. ~Written' => ~Written /\ board.ee_write # 1 /\ board'.ee_write # 1
    BY <1>6, <2>1, ReadyRom DEF WriteInv, WritesOrder, Written
  <2>4. ~broken /\ ~Written' => Unwritten' /\ ~AllShow
    BY <2>1, <2>3 DEF WriteInv, Unwritten, AllShow
  <2>5. WaitsForReply' <=> WaitsForReply
    BY <2>1 DEF WaitsForReply
  <2> QED  BY <2>1, <2>2, <2>3, <2>4, <2>5 DEF WriteInv, WritesOrder
<1>7. CASE BoardReports
  <2>1. UNCHANGED <<pc, sample, romstate, toBoard, board, rom, failed, broken>>
    BY <1>7 DEF BoardReports
  <2>2. \A i \in DOMAIN fromBoard' :
          \/ i \in DOMAIN fromBoard /\ fromBoard'[i] = fromBoard[i]
          \/ /\ \A j \in DOMAIN fromBoard' : i >= j
             /\ fromBoard'[i].ok /\ fromBoard'[i].reply = board
    BY <1>7, ReportedRom
  <2>3. \A i \in DOMAIN fromBoard' : fromBoard'[i].ok => WritesOrder(fromBoard'[i].reply)
    BY <2>2 DEF WriteInv
  <2>4. AllShow => AllShow'
    BY <2>1, <2>2 DEF AllShow, Shows
  <2>5. Unwritten => Unwritten'
    BY <1>0, <2>1, <2>2 DEF Unwritten, Shows
  <2>6. WaitsForReply' <=> WaitsForReply
    BY <2>1 DEF WaitsForReply
  <2> QED  BY <2>1, <2>3, <2>4, <2>5, <2>6 DEF WriteInv, Written, WritesOrder
<1>8. CASE BoardMeasures
  <2>1. /\ SameRom(board, board') /\ board'.ee_ready = board.ee_ready
        /\ UNCHANGED <<pc, sample, romstate, toBoard, fromBoard, rom, failed, broken>>
    BY <1>8, MeasuringKeeps DEF BoardMeasures
  <2>2. /\ AllShow <=> AllShow'
        /\ Unwritten <=> Unwritten'
        /\ WaitsForReply' <=> WaitsForReply
    BY <2>1 DEF SameRom, AllShow, Shows, Unwritten, WaitsForReply
  <2> QED  BY <2>1, <2>2 DEF SameRom, WriteInv, Written, WritesOrder
<1> QED
  BY <1>1, <1>2, <1>3, <1>4, <1>5, <1>6, <1>7, <1>8 DEF Next, Quiet

LEMMA InitIdle ==
  ASSUME IdleBoards, Init
  PROVE  /\ board.ee_read = 0 /\ board.ee_write = 0 /\ board.ee_ready = 0
         /\ sample.ee_read = OFF /\ sample.ee_write = OFF /\ sample.ee_ready # ON
         /\ DOMAIN toBoard = {} /\ DOMAIN fromBoard = {} /\ report = {}
         /\ romstate = "WRITE" /\ ~WaitsForReply
  BY DecodedRom, Switches DEF Init, IdleBoards, OnOff, WaitsForReply

\* When -w has come to its end the byte is in the EEPROM, whatever the line
\* has lost, garbled or delayed and however long the board takes to write,
\* unless a round has failed altogether or an access has been broken off; for
\* every address and value, those that are cut to a byte included.  The board
\* must not be at work on another program's request at the start.
THEOREM WrittenIfHeard ==
  ASSUME IdleBoards
  PROVE  Spec => []EepromWrittenIfHeard
<1>1. CASE ~(DoWrite /\ ~DoRead)
  <2>1. EepromWrittenIfHeard
    BY <1>1 DEF EepromWrittenIfHeard
  <2> QED  BY <2>1, PTL
<1>2. CASE DoWrite /\ ~DoRead
  <2>1. Init => WriteInv
    BY InitIdle, Switches DEF WriteInv, Unwritten, WritesOrder
  <2>2. TypeOK /\ TypeOK' /\ WriteInv /\ [Next]_vars => WriteInv'
    BY <1>2, WriteStep
  <2>3. TypeOK /\ WriteInv => EepromWrittenIfHeard
    BY DEF WriteInv, EepromWrittenIfHeard
  <2> QED  BY <2>1, <2>2, <2>3, Typing, PTL DEF Spec
<1> QED  BY <1>1, <1>2

-----------------------------------------------------------------------------
(***************************************************************************)
(* -r alone: what the dialogue takes for an answer is one.                 *)
(***************************************************************************)

\* One step of the dialogue of -r: it asks, or it takes its question back
\* and keeps the byte it has, or it does nothing more.
LEMMA ReadDialogue ==
  ASSUME NEW s \in Bat3, NEW rs \in {"WRITE", "LISTEN", "DONE"}, NEW a \in Int
  PROVE  LET d == doread(s, rs, a)
         IN  \/ /\ rs = "WRITE" /\ d.romstate = "WRITE"
                /\ ~(s.ee_addr = a /\ s.ee_read = ON)
                /\ d.state.ee_addr = a % (MaxByte + 1) /\ d.state.ee_ready = s.ee_ready
                /\ d.state.ee_read = ON /\ d.state.ee_write = OFF
             \/ /\ rs = "LISTEN" \/ (rs = "WRITE" /\ s.ee_addr = a /\ s.ee_read = ON)
                /\ d.romstate = "LISTEN"
                /\ d.state.ee_addr = a % (MaxByte + 1) /\ d.state.ee_ready = s.ee_ready
                /\ d.state.ee_read = OFF /\ d.state.ee_write = OFF
                /\ d.state.ee_data = s.ee_data
             \/ rs # "WRITE" /\ d.romstate = "DONE" /\ d.state = s
<1> DEFINE x == a % (MaxByte + 1)
           stop == [s EXCEPT !.ee_addr = x, !.ee_read = OFF, !.ee_write = OFF]
           ask == [s EXCEPT !.ee_addr = x, !.ee_read = ON, !.ee_write = OFF, !.ee_data = 0]
<1>1. /\ stop.ee_addr = x /\ stop.ee_ready = s.ee_ready
      /\ stop.ee_read = OFF /\ stop.ee_write = OFF /\ stop.ee_data = s.ee_data
  <2> HIDE DEF x
  <2> QED  BY DEF Bat3
<1>2. /\ ask.ee_addr = x /\ ask.ee_ready = s.ee_ready
      /\ ask.ee_read = ON /\ ask.ee_write = OFF
  <2> HIDE DEF x
  <2> QED  BY DEF Bat3
<1> DEFINE d == RomStep(s, rs, a, s.ee_read = ON, ask)
<1>3. \/ rs = "WRITE" /\ d.romstate = "WRITE" /\ d.state = ask
          /\ ~(s.ee_addr = a /\ s.ee_read = ON)
      \/ /\ rs = "LISTEN" \/ (rs = "WRITE" /\ s.ee_addr = a /\ s.ee_read = ON)
         /\ d.romstate = "LISTEN" /\ d.state = stop
      \/ rs # "WRITE" /\ d.romstate = "DONE" /\ d.state = s
  <2> HIDE DEF ask
  <2> QED  BY DEF RomStep
<1>4. doread(s, rs, a) = d
  BY DEF doread
<1> HIDE DEF stop, ask, d
<1> QED  BY <1>1, <1>2, <1>3, <1>4

\* What was said of a queue is said of what is left of it.
LEMMA AnswersKept ==
  ASSUME NEW gone \in {0, 1}, OnlyOldReplies(gone), UNCHANGED <<board, rom>>,
         \A i \in DOMAIN fromBoard' : i \in Nat
  PROVE  /\ InOrder => InOrder'
         /\ AllAnswer => AllAnswer'
<1>1. \A i, j \in DOMAIN fromBoard' : i < j => i + gone < j + gone
  OBVIOUS
<1> QED  BY <1>1 DEF InOrder, AllAnswer, Answers, Tells, OnlyOldReplies

\* What -r logs it has been told, if its state answers.
LEMMA LoggedTells ==
  ASSUME NEW s \in Bat3, NEW at, NEW byte,
         at # "WRITE" /\ s.ee_ready = ON => s.ee_data = byte,
         at # "WRITE" => s.ee_read = ON \/ s.ee_data = byte
  PROVE  Told(s, at) => s.ee_data = byte
<1>1. s.ee_ready \in OnOff
  BY DEF Bat3
<1> QED  BY <1>1 DEF Told, NotReady, OnOff

LEMMA ReadStep ==
  ASSUME TypeOK, TypeOK', ReadInv, [Next]_vars, DoRead, ~DoWrite
  PROVE  ReadInv'
<1> USE DEF load, progress, line, past
<1>0. /\ fromBoard \in Seq(Packet) /\ toBoard \in Seq(BAT3request)
      /\ sample \in Bat3 /\ romstate \in {"WRITE", "LISTEN", "DONE"}
      /\ \A i \in DOMAIN fromBoard : i \in Nat /\ i >= 1
      /\ \A i \in DOMAIN fromBoard' : i \in Nat /\ i >= 1
  <2>1. ASSUME NEW s \in Seq(Packet), NEW i \in DOMAIN s
        PROVE  i \in Nat /\ i >= 1
    OBVIOUS
  <2>2. fromBoard \in Seq(Packet) /\ fromBoard' \in Seq(Packet)
    BY DEF TypeOK
  <2> QED  BY <2>1, <2>2 DEF TypeOK
<1>1. CASE Quiet
  <2>1. PICK gone \in {0, 1} : OnlyOldReplies(gone)
    BY <1>1, QuietSteps
  <2>2. /\ UNCHANGED <<sample, romstate, board, rom, hasty>> /\ OnlyOldRequests
        /\ WaitsForReply' => WaitsForReply
        /\ report' = report \/ report' = report \cup {Logged}
    BY <1>1, QuietSteps
  <2>3. OnlyReads'
    BY <2>1, <2>2
    DEF ReadInv, OnlyReads, Reads, ReadyTells, Tells, OnlyOldRequests, OnlyOldReplies
  <2>4. ASSUME Heard PROVE Heard'
    <3>1. (InOrder => InOrder') /\ (AllAnswer => AllAnswer')
      BY <1>0, <2>1, <2>2, AnswersKept
    <3>2. Logged.told => Logged.data = rom
      <4>1. /\ romstate # "WRITE" /\ sample.ee_ready = ON => sample.ee_data = rom
            /\ romstate # "WRITE" => sample.ee_read = ON \/ sample.ee_data = rom
        BY <2>4 DEF ReadInv, OnlyReads, Heard, Answered, Tells
      <4> QED  BY <1>0, <4>1, LoggedTells DEF Logged
    <3>3. \A r \in report' : r.told => r.data = rom
      BY <2>2, <2>4, <3>2 DEF Heard
    <3>4. \A i \in DOMAIN toBoard' : Answers(toBoard[i])'
      BY <2>2, <2>4 DEF Heard, Answers, Tells, OnlyOldRequests
    <3>5. Answered' <=> Answered
      BY <2>2 DEF Answered, Tells
    <3> QED  BY <2>2, <2>4, <3>1, <3>3, <3>4, <3>5 DEF Heard
  <2> QED  BY <2>2, <2>3, <2>4 DEF ReadInv
<1>2. CASE OpenGood \/ ReadGood
  <2>1. /\ GoodRead /\ UNCHANGED <<romstate, board, rom, toBoard, hasty>>
        /\ ~WaitsForReply'
        /\ sample' = Arrived \/ sample' = sample
        /\ report' = report \/ report' = report \cup {Logged'}
    BY <1>2 DEF OpenGood, ReadGood, GoodRead, CountRound, LoopOrEnd, WaitsForReply, Logged
  <2> DEFINE first == fromBoard[1].reply
  <2>2. /\ OnlyOldReplies(1)
        /\ 1 \in DOMAIN fromBoard /\ fromBoard[1].ok /\ Arrived = decodemsg(first)
    BY <1>0, <2>1, GoodReads
  <2>3. /\ Arrived.ee_data = first.ee_data /\ Arrived.ee_addr = first.ee_addr
        /\ Arrived.ee_read = ON <=> first.ee_read = 1
        /\ Arrived.ee_ready = ON <=> first.ee_ready = 1
        /\ first.ee_write = 0 => Arrived.ee_write = OFF
    BY <2>2, DecodedRom, Switches DEF OnOff
  <2>4. Reads(first) /\ ReadyTells(first)
    BY <2>2 DEF ReadInv, OnlyReads
  <2>5. /\ \A i \in DOMAIN fromBoard' :
             fromBoard'[i].ok =>
               Reads(fromBoard'[i].reply) /\ ReadyTells(fromBoard[i].reply)'
    BY <2>1, <2>2 DEF ReadInv, OnlyReads, Reads, ReadyTells, Tells, OnlyOldReplies
  <2>6. OnlyReads'
    <3>1. /\ Arrived.ee_write = OFF /\ (Arrived.ee_read = ON => Arrived.ee_addr = Cell)
          /\ Arrived.ee_ready = ON =>
               /\ Arrived.ee_addr = Cell /\ Arrived.ee_read = ON
               /\ Tells(Arrived)
      BY <2>3, <2>4 DEF Reads, ReadyTells, Tells
    <3> HIDE DEF first
    <3>2. CASE sample' = Arrived
      BY <2>1, <2>5, <3>1, <3>2 DEF ReadInv, OnlyReads, Reads, ReadyTells, Tells, Cell
    <3>3. CASE sample' = sample
      BY <2>1, <2>5, <3>3 DEF ReadInv, OnlyReads, Reads, ReadyTells, Tells, Cell
    <3> QED  BY <2>1, <3>2, <3>3
  <2>7. ASSUME Heard PROVE Heard'
    <3>1. (InOrder => InOrder') /\ (AllAnswer => AllAnswer')
      BY <1>0, <2>1, <2>2, AnswersKept
    <3>2. Answers(first) => AllAnswer'
      BY <1>0, <2>1, <2>2, <2>7
      DEF Heard, InOrder, AllAnswer, Answers, Tells, OnlyOldReplies
    <3>3. /\ sample'.ee_ready = ON /\ Address = Cell => AllAnswer'
          /\ romstate' # "WRITE" => Answered' /\ AllAnswer'
      <4>1. AllAnswer => Answers(first)
        BY <2>2 DEF AllAnswer
      <4>2. CASE sample' = Arrived
        <5>1. Answered' <=> Answers(first)
          BY <2>1, <2>3, <4>2 DEF Answered, Answers, Tells
        <5>2. first.ee_ready = 1 => Answers(first)
          BY <2>4 DEF ReadyTells, Answers
        <5> HIDE DEF first
        <5> QED  BY <2>1, <2>3, <2>7, <3>1, <3>2, <4>1, <4>2, <5>1, <5>2 DEF Heard
      <4>3. CASE sample' = sample
        <5>1. Answered' <=> Answered
          BY <2>1, <4>3 DEF Answered, Tells
        <5> HIDE DEF first
        <5> QED  BY <2>1, <2>7, <3>1, <4>3, <5>1 DEF Heard, Cell
      <4> QED  BY <2>1, <4>2, <4>3
    <3>4. \A r \in report' : r.told => r.data = rom'
      <4>1. Told(sample', romstate') => sample'.ee_data = rom'
        <5>1. /\ romstate' # "WRITE" /\ sample'.ee_ready = ON => sample'.ee_data = rom'
              /\ romstate' # "WRITE" => sample'.ee_read = ON \/ sample'.ee_data = rom'
          BY <2>6, <3>3 DEF OnlyReads, Answered, Tells, Cell
        <5>2. sample' \in Bat3
          BY DEF TypeOK
        <5> QED  BY <5>1, <5>2, LoggedTells
      <4>2. Logged'.told => Logged'.data = rom'
        BY <4>1 DEF Logged
      <4> QED  BY <2>1, <2>7, <4>2 DEF Heard
    <3>5. \A i \in DOMAIN toBoard' : Answers(toBoard[i])'
      BY <2>1, <2>7 DEF Heard, Answers, Tells
    <3> QED  BY <2>1, <2>7, <3>1, <3>3, <3>4, <3>5 DEF Heard
  <2> QED  BY <2>1, <2>6, <2>7 DEF ReadInv
<1>3. CASE StartRound
  <2>1. /\ sample' = doread(sample, romstate, Address).state
        /\ romstate' = doread(sample, romstate, Address).romstate
    BY <1>3 DEF StartRound, Dialogue
  <2>2. \/ /\ romstate = "WRITE" /\ romstate' = "WRITE"
           /\ ~(sample.ee_addr = Address /\ sample.ee_read = ON)
           /\ sample'.ee_addr = Cell /\ sample'.ee_ready = sample.ee_ready
           /\ sample'.ee_read = ON /\ sample'.ee_write = OFF
        \/ /\ \/ romstate = "LISTEN"
              \/ romstate = "WRITE" /\ sample.ee_addr = Address /\ sample.ee_read = ON
           /\ romstate' = "LISTEN"
           /\ sample'.ee_addr = Cell /\ sample'.ee_ready = sample.ee_ready
           /\ sample'.ee_read = OFF /\ sample'.ee_write = OFF
           /\ sample'.ee_data = sample.ee_data
        \/ romstate # "WRITE" /\ romstate' = "DONE" /\ sample' = sample
    BY <1>0, <2>1, ReadDialogue, DaemonAssumption DEF Cell
  <2>3. /\ ~WaitsForReply /\ WaitsForReply'
        /\ UNCHANGED <<toBoard, fromBoard, board, rom, report>>
        /\ ~hasty' => ~hasty /\ (romstate # "DONE" => ~NotReady(sample))
    BY <1>3 DEF StartRound, WaitsForReply
  <2>4. /\ \A i \in DOMAIN toBoard' : Reads(toBoard'[i])
        /\ Reads(board') /\ ReadyTells(board)'
        /\ \A i \in DOMAIN fromBoard' :
             fromBoard'[i].ok => Reads(fromBoard'[i].reply) /\ ReadyTells(fromBoard[i].reply)'
    BY <2>3 DEF ReadInv, OnlyReads, Reads, ReadyTells, Tells
  <2>5. /\ sample.ee_read = ON => sample.ee_addr = Cell
        /\ sample.ee_ready = ON =>
             /\ sample.ee_addr = Cell
             /\ romstate = "WRITE" => sample.ee_read = ON
             /\ Address = Cell => sample.ee_data = rom
        /\ romstate # "WRITE" => Address = Cell
        /\ sample.ee_write = OFF
    BY DEF ReadInv, OnlyReads, Tells
  <2>6. /\ sample'.ee_write = OFF /\ (sample'.ee_read = ON => sample'.ee_addr = Cell)
        /\ sample'.ee_ready = ON =>
             /\ sample'.ee_addr = Cell
             /\ romstate' = "WRITE" => sample'.ee_read = ON
             /\ Address = Cell => sample'.ee_data = rom
        /\ romstate' # "WRITE" => Address = Cell
    BY <2>2, <2>5, Switches
  <2>7. OnlyReads'
    BY <2>3, <2>4, <2>6 DEF OnlyReads, Reads, ReadyTells, Tells, Cell
  <2>8. ASSUME Heard, ~hasty' PROVE Heard'
    <3>1. (InOrder <=> InOrder') /\ (AllAnswer <=> AllAnswer')
      BY <2>3 DEF InOrder, AllAnswer, Answers, Tells
    <3>2. romstate # "DONE" /\ sample.ee_read = ON => sample.ee_ready = ON
      <4>1. sample.ee_ready \in OnOff
        BY <1>0 DEF Bat3
      <4> QED  BY <2>3, <2>8, <4>1 DEF NotReady, OnOff
    <3>3. /\ sample.ee_ready = ON /\ Address = Cell => AllAnswer
          /\ romstate # "WRITE" => (sample.ee_read = ON \/ sample.ee_data = rom) /\ AllAnswer
      BY <2>8 DEF Heard, Answered, Tells
    <3>4. /\ sample'.ee_read = ON \/ sample'.ee_data = rom
          /\ sample'.ee_ready = ON /\ Address = Cell => AllAnswer
          /\ romstate' # "WRITE" => AllAnswer
      BY <2>2, <2>5, <3>2, <3>3, Switches
    <3>5. /\ \A i \in DOMAIN toBoard' : Answers(toBoard[i])'
          /\ \A r \in report' : r.told => r.data = rom'
      BY <2>3, <2>8 DEF Heard, Answers, Tells
    <3>6. Answered'
      BY <2>3, <3>4 DEF Answered, Tells
    <3> QED  BY <2>8, <3>1, <3>4, <3>5, <3>6 DEF Heard, Cell
  <2> QED  BY <2>3, <2>7, <2>8 DEF ReadInv
<1>4. CASE WriteRequest
  <2>1. /\ UNCHANGED <<sample, romstate, fromBoard, board, rom, hasty, report>>
        /\ WaitsForReply /\ WaitsForReply'
    BY <1>4 DEF WriteRequest, WaitsForReply
  <2>2. \A i \in DOMAIN toBoard' : Reads(toBoard'[i])
    BY <1>4, RequestFollowsSample, Switches DEF ReadInv, OnlyReads, Reads, BitOn
  <2>3. OnlyReads'
    BY <2>1, <2>2 DEF ReadInv, OnlyReads, Reads, ReadyTells, Tells, Cell
  <2>4. ASSUME Heard PROVE Heard'
    <3>1. (InOrder <=> InOrder') /\ (AllAnswer <=> AllAnswer') /\ (Answered <=> Answered')
      BY <2>1 DEF InOrder, AllAnswer, Answers, Answered, Tells
    <3>2. \A i \in DOMAIN toBoard' : Answers(toBoard[i])'
      BY <1>4, <2>1, <2>4, RequestFollowsSample DEF Heard, Answered, Answers, Tells, BitOn
    <3> QED  BY <2>1, <2>4, <3>1, <3>2 DEF Heard, Cell
  <2> QED  BY <2>1, <2>3, <2>4 DEF ReadInv
<1>5. CASE BoardTakes
  <2>1. /\ UNCHANGED <<pc, sample, romstate, fromBoard, rom, hasty, report>>
        /\ OnlyOldRequests /\ (WaitsForReply' <=> WaitsForReply)
    BY <1>5, TakenRom DEF BoardTakes, WaitsForReply
  <2>2. PICK k \in DOMAIN toBoard : SameRom(toBoard[k], board') /\ board'.ee_ready = 0
    BY <1>5, TakenRom
  <2>3. /\ Reads(board') /\ ReadyTells(board)'
        /\ \A i \in DOMAIN toBoard' : Reads(toBoard'[i])
    BY <2>1, <2>2 DEF ReadInv, OnlyReads, SameRom, Reads, ReadyTells, OnlyOldRequests
  <2>4. OnlyReads'
    BY <2>1, <2>3 DEF ReadInv, OnlyReads, Reads, ReadyTells, Tells, Cell
  <2>5. ASSUME Heard PROVE Heard'
    <3>1. Answers(board)'
      BY <2>1, <2>2, <2>5 DEF Heard, SameRom, Answers, Tells
    <3>2. InOrder' /\ (AllAnswer => AllAnswer') /\ (Answered <=> Answered')
      BY <2>1, <2>5, <3>1 DEF Heard, InOrder, AllAnswer, Answers, Answered, Tells
    <3>3. \A i \in DOMAIN toBoard' : Answers(toBoard[i])'
      BY <2>1, <2>5 DEF Heard, Answers, Tells, OnlyOldRequests
    <3> QED  BY <2>1, <2>5, <3>2, <3>3 DEF Heard, Cell
  <2> QED  BY <2>1, <2>4, <2>5 DEF ReadInv
<1>6. CASE BoardIsReady
  <2>1. /\ UNCHANGED <<pc, sample, romstate, toBoard, fromBoard, hasty, report>>
        /\ WaitsForReply' <=> WaitsForReply
    BY <1>6 DEF BoardIsReady, WaitsForReply
  <2>2. Reads(board)
    BY DEF ReadInv, OnlyReads
  <2>3. /\ board.ee_read = 1 /\ rom' = rom
        /\ board'.ee_read = 1 /\ board'.ee_data = rom /\ Reads(board')
    BY <1>6, <2>2, ReadyRom DEF BoardIsReady, Reads
  <2>4. OnlyReads'
    BY <2>1, <2>3 DEF ReadInv, OnlyReads, Reads, ReadyTells, Tells, Cell
  <2>5. ASSUME Heard PROVE Heard'
    <3>1. Answers(board)'
      BY <2>3 DEF Answers
    <3>2. InOrder' /\ (AllAnswer => AllAnswer') /\ (Answered <=> Answered')
      BY <2>1, <2>3, <2>5, <3>1 DEF Heard, InOrder, AllAnswer, Answers, Answered, Tells
    <3>3. \A i \in DOMAIN toBoard' : Answers(toBoard[i])'
      BY <2>1, <2>3, <2>5 DEF Heard, Answers, Tells
    <3> QED  BY <2>1, <2>3, <2>5, <3>2, <3>3 DEF Heard, Cell
  <2> QED  BY <2>1, <2>4, <2>5 DEF ReadInv
<1>7. CASE BoardReports
  <2>1. /\ UNCHANGED <<pc, sample, romstate, toBoard, board, rom, hasty, report>>
        /\ WaitsForReply' <=> WaitsForReply
    BY <1>7 DEF BoardReports, WaitsForReply
  <2>2. \A i \in DOMAIN fromBoard' :
          \/ i \in DOMAIN fromBoard /\ fromBoard'[i] = fromBoard[i]
          \/ /\ \A j \in DOMAIN fromBoard' : i >= j
             /\ fromBoard'[i].ok /\ fromBoard'[i].reply = board
    BY <1>7, ReportedRom
  <2>3. OnlyReads'
    BY <2>1, <2>2 DEF ReadInv, OnlyReads, Reads, ReadyTells, Tells, Cell
  <2>4. ASSUME Heard PROVE Heard'
    <3>1. InOrder'
      BY <1>0, <2>1, <2>2, <2>4 DEF Heard, InOrder, Answers, Tells
    <3>2. (AllAnswer => AllAnswer') /\ (Answered <=> Answered')
      BY <2>1, <2>2 DEF AllAnswer, Answers, Answered, Tells
    <3>3. \A i \in DOMAIN toBoard' : Answers(toBoard[i])'
      BY <2>1, <2>4 DEF Heard, Answers, Tells
    <3> QED  BY <2>1, <2>4, <3>1, <3>2, <3>3 DEF Heard, Cell
  <2> QED  BY <2>1, <2>3, <2>4 DEF ReadInv
<1>8. CASE BoardMeasures
  <2>1. /\ SameRom(board, board') /\ board'.ee_ready = board.ee_ready
        /\ UNCHANGED <<pc, sample, romstate, toBoard, fromBoard, rom, hasty, report>>
        /\ WaitsForReply' <=> WaitsForReply
    BY <1>8, MeasuringKeeps DEF BoardMeasures, WaitsForReply
  <2>2. Answers(board)' <=> Answers(board)
    BY <2>1 DEF SameRom, Answers, Tells
  <2>3. OnlyReads'
    BY <2>1 DEF SameRom, ReadInv, OnlyReads, Reads, ReadyTells, Tells, Cell
  <2>4. ASSUME Heard PROVE Heard'
    <3>1. InOrder' /\ (AllAnswer <=> AllAnswer') /\ (Answered <=> Answered')
      BY <2>1, <2>2, <2>4 DEF Heard, InOrder, AllAnswer, Answers, Answered, Tells
    <3>2. \A i \in DOMAIN toBoard' : Answers(toBoard[i])'
      BY <2>1, <2>4 DEF Heard, Answers, Tells
    <3> QED  BY <2>1, <2>4, <3>1, <3>2 DEF Heard, Cell
  <2> QED  BY <2>1, <2>3, <2>4 DEF ReadInv
<1> QED
  BY <1>1, <1>2, <1>3, <1>4, <1>5, <1>6, <1>7, <1>8 DEF Next, Quiet

\* What -r has been told of the byte is what the EEPROM holds, in every
\* picture from then on and in what it logs, whatever the line does and
\* however long the board takes, rounds that fail and accesses broken off
\* included; unless the dialogue has gone on from a picture of a read under
\* way.  The board must not be at work on another request at the start.
THEOREM ReadBackIfReady ==
  ASSUME IdleBoards
  PROVE  Spec => []EepromReadBackIfReady
<1>1. CASE ~(DoRead /\ ~DoWrite)
  <2>1. EepromReadBackIfReady
    BY <1>1 DEF EepromReadBackIfReady
  <2> QED  BY <2>1, PTL
<1>2. CASE DoRead /\ ~DoWrite
  <2>1. Init => ReadInv
    <3> SUFFICES ASSUME Init PROVE ReadInv
      OBVIOUS
    <3>1. /\ board.ee_read = 0 /\ board.ee_write = 0 /\ board.ee_ready = 0
          /\ sample.ee_read = OFF /\ sample.ee_write = OFF /\ sample.ee_ready # ON
          /\ DOMAIN toBoard = {} /\ DOMAIN fromBoard = {} /\ report = {}
          /\ romstate = "WRITE" /\ ~WaitsForReply
      BY InitIdle
    <3>2. OnlyReads
      BY <3>1, Switches DEF OnlyReads, Reads, ReadyTells
    <3>3. Heard
      BY <3>1 DEF Heard, InOrder
    <3> QED  BY <3>2, <3>3 DEF ReadInv
  <2>2. TypeOK /\ TypeOK' /\ ReadInv /\ [Next]_vars => ReadInv'
    BY <1>2, ReadStep
  <2>3. TypeOK /\ ReadInv => EepromReadBackIfReady
    <3> SUFFICES ASSUME TypeOK, ReadInv, ~hasty
                 PROVE  /\ Told(sample, romstate) => sample.ee_data = rom
                        /\ \A r \in report : r.told => r.data = rom
      BY DEF EepromReadBackIfReady
    <3>1. /\ romstate # "WRITE" /\ sample.ee_ready = ON => sample.ee_data = rom
          /\ romstate # "WRITE" => sample.ee_read = ON \/ sample.ee_data = rom
      BY DEF ReadInv, OnlyReads, Heard, Answered, Tells
    <3>2. sample \in Bat3
      BY DEF TypeOK
    <3> QED  BY <3>1, <3>2, LoggedTells DEF ReadInv, Heard
  <2> QED  BY <2>1, <2>2, <2>3, Typing, PTL DEF Spec
<1> QED  BY <1>1, <1>2

=============================================================================
