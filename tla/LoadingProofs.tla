--------------------------- MODULE LoadingProofs ---------------------------
(***************************************************************************)
(* Theorems about Loading, for every set of samples, every order and every *)
(* value of the time constants.                                            *)
(***************************************************************************)
EXTENDS Loading, TLAPS

-----------------------------------------------------------------------------
(***************************************************************************)
(* The types of the operators of Bat3Func.                                 *)
(***************************************************************************)

LEMMA Switches == ON \in OnOff /\ OFF \in OnOff /\ ON # OFF
  BY DEF OnOff, ON, OFF

LEMMA WordBounds ==
  /\ \A w \in Word : w \in Nat /\ w <= MaxWord
  /\ \A w \in Nat : w <= MaxWord => w \in Word
  /\ MAX_PWM_T \in Word
  /\ MaxWord \in Nat
<1>1. MaxWord \in Nat /\ MAX_PWM_T \in Nat /\ MAX_PWM_T <= MaxWord
  BY DEF MaxWord, MAX_PWM_T
<1> QED  BY <1>1 DEF Word

LEMMA SampleWords ==
  ASSUME NEW s \in Bat3
  PROVE  s.bat_i \in Word /\ s.pwm_lo \in Word /\ s.pwm_t \in Word
  BY DEF Bat3

\* Switching outputs of a picture of the board leaves a picture of it.
LEMMA SwitchTypes ==
  ASSUME NEW s \in Bat3, NEW sw \in OnOff
  PROVE  /\ switch_opamp(s, sw) \in Bat3
         /\ [s EXCEPT !.softJP3 = OFF] \in Bat3
         /\ [s EXCEPT !.softJP3 = OFF, !.buckEn = OFF, !.offsetEn = OFF] \in Bat3
         /\ [s EXCEPT !.buckEn = OFF, !.offsetEn = OFF,
                      !.pwm_t = MAX_PWM_T] \in Bat3
         /\ [s EXCEPT !.softJP3 = OFF, !.buckEn = OFF, !.offsetEn = OFF,
                      !.pwm_t = MAX_PWM_T] \in Bat3
  BY Switches, WordBounds DEF switch_opamp, Bat3

LEMMA BlinkTypes ==
  ASSUME NEW s \in Bat3
  PROVE  /\ BlinkLed(s) \in Bat3
         /\ BlinkLed(s).batRun = s.batRun
  BY Switches DEF BlinkLed, changeled, Bat3

LEMMA TargetRanges ==
  /\ \A c \in CurrentRange : c \in Nat
  /\ \A c \in Int : ~(c < 0 \/ c > MaxCurrent) => c \in CurrentRange
  /\ DEFAULT_CURRENT \in CurrentRange
  /\ \A h \in HoursRange : h \in Int
  /\ \A h \in Nat : h \in HoursRange
  /\ -1 \in HoursRange
  /\ \A w \in WeightRange : w \in Nat /\ w <= MAXMIN - 1
  /\ \A w \in Nat : w <= MAXMIN - 1 => w \in WeightRange
  /\ 0 \in WeightRange
<1>1. MaxCurrent \in Nat /\ DEFAULT_CURRENT \in Nat /\ DEFAULT_CURRENT <= MaxCurrent
  BY DEF MaxCurrent, DEFAULT_CURRENT
<1>2. /\ \A c \in CurrentRange : c \in Nat
      /\ \A c \in Int : ~(c < 0 \/ c > MaxCurrent) => c \in CurrentRange
      /\ DEFAULT_CURRENT \in CurrentRange
  BY <1>1 DEF CurrentRange
<1>3. /\ \A h \in HoursRange : h \in Int
      /\ \A h \in Nat : h \in HoursRange
      /\ -1 \in HoursRange
  BY DEF HoursRange
<1>4. /\ \A w \in WeightRange : w \in Nat /\ w <= MAXMIN - 1
      /\ \A w \in Nat : w <= MAXMIN - 1 => w \in WeightRange
      /\ 0 \in WeightRange
  BY Bat3FuncAssumption DEF WeightRange
<1> QED  BY <1>2, <1>3, <1>4

LEMMA InitTarget == initParams \in Target
  BY TargetRanges DEF initParams, Target

LEMMA TargetFields ==
  ASSUME NEW t \in Target
  PROVE  /\ t.current \in CurrentRange /\ t.hours \in HoursRange
         /\ t.alarm \in Nat /\ t.stable_time \in Nat
         /\ t.weightpos \in WeightRange /\ t.steady \in BOOLEAN
  BY DEF Target

\* The regulated low time stays within 16 bits: the floor is at least zero
\* and the ceiling is a period that the board itself reported.
LEMMA CalcLoadTypes ==
  ASSUME NEW s \in Bat3, NEW t \in Target
  PROVE  calc_load(s, t) \in Bat3
<1>1. LoadDiff(s, t) \in Int
  <2>1. battI(s.bat_i) \in Int
    BY SampleWords, WordBounds DEF battI
  <2>2. TruncDiv(battI(s.bat_i), 1000) \in Int
    BY <2>1 DEF TruncDiv
  <2>3. t.current \in Int
    BY TargetFields, TargetRanges
  <2> QED  BY <2>2, <2>3 DEF LoadDiff
<1>2. PwmStep(LoadDiff(s, t)) \in -10 .. 10
  BY <1>1 DEF PwmStep, BIG_STEP, SMALL_STEP
<1> DEFINE raw == s.pwm_lo + PwmStep(LoadDiff(s, t))
           lo  == AtMost(AtLeast(raw, PwmFloor(t)), s.pwm_t)
<1>3. raw \in Int
  BY <1>2, SampleWords, WordBounds
<1>4. AtLeast(raw, PwmFloor(t)) \in Nat
  <2> HIDE DEF raw
  <2> QED  BY <1>3 DEF AtLeast, PwmFloor, MIN_PWM_T
<1>5. lo \in Word
  <2> HIDE DEF raw
  <2>1. s.pwm_t \in Nat /\ s.pwm_t <= MaxWord
    BY SampleWords, WordBounds
  <2>2. lo \in Nat /\ lo <= MaxWord
    BY <1>4, <2>1, WordBounds DEF AtMost
  <2> QED  BY <2>2, WordBounds
<1> QED
  <2>1. [s EXCEPT !.pwm_lo = lo] \in Bat3
    <3> HIDE DEF lo
    <3> QED  BY <1>5 DEF Bat3
  <2> QED  BY <2>1 DEF calc_load

LEMMA TargetTypes ==
  ASSUME NEW t \in Target, NEW now \in Nat, NEW rec \in BOOLEAN
  PROVE  /\ reset_history(t) \in Target
         /\ [t EXCEPT !.alarm = now + 1] \in Target
         /\ process_first_degree(t, rec) \in Target
         /\ check_stable(t, now) \in Target
         /\ Recorded(t, now, rec) \in Target
<1>1. reset_history(t) \in Target
  BY TargetRanges DEF reset_history, Target
<1>2. ASSUME NEW u \in Target
      PROVE  process_first_degree(u, rec) \in Target
  <2> DEFINE pos == IF u.weightpos + 1 = MAXMIN THEN u.weightpos ELSE u.weightpos + 1
  <2>1. pos \in WeightRange
    BY TargetFields, TargetRanges, Bat3FuncAssumption
  <2>2. [u EXCEPT !.weightpos = pos, !.steady = rec] \in Target
    <3> HIDE DEF pos
    <3> QED  BY <2>1 DEF Target
  <2> QED  BY <2>2 DEF process_first_degree
<1>3. ASSUME NEW u \in Target
      PROVE  check_stable(u, now) \in Target
  BY DEF check_stable, Target
<1>4. [t EXCEPT !.alarm = now + 1] \in Target
  BY DEF Target
<1>5. Recorded(t, now, rec) \in Target
  <2> DEFINE asked == check_stable([t EXCEPT !.alarm = now + 1], now)
  <2>1. asked \in Target
    BY <1>3, <1>4
  <2>2. process_first_degree(asked, rec) \in Target
    <3> HIDE DEF asked
    <3> QED  BY <1>2, <2>1
  <2> QED  BY <2>1, <2>2 DEF Recorded
<1> QED  BY <1>1, <1>2, <1>3, <1>4, <1>5

LEMMA OrderTypes ==
  ASSUME NEW t \in Target, NEW i \in Int, NEW now \in Nat
  PROVE  setCurrent(t, i) \in Target /\ setHours(t, i, now) \in Target
<1>1. setCurrent(t, i) \in Target
  <2> DEFINE c == IF i < 0 \/ i > MaxCurrent THEN DEFAULT_CURRENT ELSE i
  <2>1. c \in CurrentRange
    BY TargetRanges
  <2>2. [t EXCEPT !.current = c, !.stable_time = 0] \in Target
    <3> HIDE DEF c
    <3> QED  BY <2>1 DEF Target
  <2> QED  BY <2>2 DEF setCurrent
<1>2. setHours(t, i, now) \in Target
  <2> DEFINE n == IF i > MaxHours THEN MaxHours ELSE i
             h == IF i < 0 THEN 0 ELSE now + n * HourSecs
  <2>1. i >= 0 => n \in Nat
    BY DEF MaxHours
  <2>2. HourSecs \in Nat
    BY Bat3FuncAssumption
  <2>3. \A x \in Nat : x * HourSecs \in Nat
    BY <2>2
  <2>4. i >= 0 => now + n * HourSecs \in Nat
    <3> HIDE DEF n
    <3> QED  BY <2>1, <2>3
  <2>5. h \in HoursRange
    BY <2>4, TargetRanges
  <2>6. [t EXCEPT !.hours = h] \in Target
    <3> HIDE DEF h
    <3> QED  BY <2>5 DEF Target
  <2> QED  BY <2>6 DEF setHours
<1> QED  BY <1>1, <1>2

LEMMA DoloadTypes ==
  ASSUME NEW s \in Bat3, NEW t \in Target, NEW now \in Nat, NEW rec \in BOOLEAN
  PROVE  /\ doload(s, t, now, rec).state \in Bat3
         /\ doload(s, t, now, rec).target \in Target
<1>1. /\ LoadOnBattery(s, t).state \in Bat3
      /\ LoadOnBattery(s, t).target \in Target
  BY SwitchTypes, Switches, TargetTypes DEF LoadOnBattery
<1>2. /\ LoadByHours(s, t, now).state \in Bat3
      /\ LoadByHours(s, t, now).target \in Target
  BY SwitchTypes, Switches, CalcLoadTypes DEF LoadByHours
<1>3. /\ LoadByHistory(s, t, now, rec).state \in Bat3
      /\ LoadByHistory(s, t, now, rec).target \in Target
  <2> DEFINE s0 == [s EXCEPT !.softJP3 = OFF]
             s1 == IF s.opampEn = OFF THEN switch_opamp(calc_load(s0, t), ON)
                                      ELSE calc_load(s0, t)
             r  == Recorded(t, now, rec)
  <2>1. s0 \in Bat3 /\ calc_load(s0, t) \in Bat3 /\ switch_opamp(s0, OFF) \in Bat3
    BY SwitchTypes, Switches, CalcLoadTypes
  <2>2. s1 \in Bat3
    BY <2>1, SwitchTypes, Switches
  <2>3. [s1 EXCEPT !.buckEn = OFF, !.offsetEn = OFF, !.pwm_t = MAX_PWM_T] \in Bat3
    <3> HIDE DEF s1
    <3> QED  BY <2>2, SwitchTypes, Switches
  <2>4. check_stable(r, now) \in Target
    BY TargetTypes
  <2> QED  BY <2>1, <2>3, <2>4 DEF LoadByHistory
<1> QED  BY <1>1, <1>2, <1>3 DEF doload

-----------------------------------------------------------------------------
(***************************************************************************)
(* What the decisions leave alone.                                         *)
(***************************************************************************)

\* What a picture says of the EEPROM.
SameRom(s, r) ==
  /\ r.ee_read = s.ee_read /\ r.ee_write = s.ee_write
  /\ r.ee_addr = s.ee_addr /\ r.ee_data = s.ee_data

\* A round decides on the load and touches nothing of the EEPROM dialogue.
LEMMA DoloadKeepsRom ==
  ASSUME NEW s \in Bat3, NEW t \in Target, NEW now \in Nat, NEW rec \in BOOLEAN
  PROVE  SameRom(s, doload(BlinkLed(s), t, now, rec).state)
<1> DEFINE b == BlinkLed(s)
<1>1. b \in Bat3 /\ SameRom(s, b)
  <2>1. ASSUME NEW u \in Bat3, NEW v
        PROVE  SameRom(u, [u EXCEPT !.led = v])
    BY DEF SameRom, Bat3
  <2>2. \E v : b = [s EXCEPT !.led = v]
    BY Zenon DEF BlinkLed, changeled
  <2>3. b \in Bat3
    BY BlinkTypes
  <2> QED  BY <2>1, <2>2, <2>3
<1>2. ASSUME NEW u \in Bat3, NEW sw \in OnOff, NEW v \in Target
      PROVE  /\ SameRom(u, switch_opamp(u, sw))
             /\ SameRom(u, [u EXCEPT !.softJP3 = OFF])
             /\ SameRom(u, [u EXCEPT !.softJP3 = OFF, !.buckEn = OFF, !.offsetEn = OFF])
             /\ SameRom(u, [u EXCEPT !.buckEn = OFF, !.offsetEn = OFF,
                                     !.pwm_t = MAX_PWM_T])
             /\ SameRom(u, [u EXCEPT !.softJP3 = OFF, !.buckEn = OFF, !.offsetEn = OFF,
                                     !.pwm_t = MAX_PWM_T])
             /\ SameRom(u, calc_load(u, v))
  BY DEF switch_opamp, calc_load, SameRom, Bat3
<1>3. ASSUME NEW u, NEW v, NEW w, SameRom(u, v), SameRom(v, w)
      PROVE  SameRom(u, w)
  BY <1>3 DEF SameRom
<1> HIDE DEF b
<1>4. SameRom(s, LoadOnBattery(b, t).state)
  BY <1>1, <1>2, <1>3, SwitchTypes, Switches DEF LoadOnBattery
<1>5. SameRom(s, LoadByHours(b, t, now).state)
  BY <1>1, <1>2, <1>3, SwitchTypes, Switches, CalcLoadTypes DEF LoadByHours
<1>6. SameRom(s, LoadByHistory(b, t, now, rec).state)
  <2> DEFINE s0 == [b EXCEPT !.softJP3 = OFF]
             c  == calc_load(s0, t)
             s1 == IF b.opampEn = OFF THEN switch_opamp(c, ON) ELSE c
  <2>1. s0 \in Bat3 /\ SameRom(s, s0)
    BY <1>1, <1>2, <1>3, SwitchTypes, Switches
  <2>2. c \in Bat3 /\ SameRom(s, c)
    <3> HIDE DEF s0
    <3> QED  BY <1>2, <1>3, <2>1, CalcLoadTypes, Switches
  <2>3. s1 \in Bat3 /\ SameRom(s, s1)
    <3> HIDE DEF c
    <3> QED  BY <1>2, <1>3, <2>2, SwitchTypes, Switches
  <2>4. SameRom(s, switch_opamp(s0, OFF))
    <3> HIDE DEF s0
    <3> QED  BY <1>2, <1>3, <2>1, Switches
  <2>5. SameRom(s, [s1 EXCEPT !.buckEn = OFF, !.offsetEn = OFF, !.pwm_t = MAX_PWM_T])
    <3> HIDE DEF s1
    <3> QED  BY <1>2, <1>3, <2>3, Switches
  <2> QED  BY <2>1, <2>4, <2>5 DEF LoadByHistory
<1> QED  BY <1>4, <1>5, <1>6 DEF doload, b

-----------------------------------------------------------------------------
(***************************************************************************)
(* The types of the states.                                                *)
(***************************************************************************)

\* Every state of the loader is well typed; in particular no regulation
\* step of calc_load leaves the 16 bits of pwm_lo, whatever the board says.
THEOREM Typing == Spec => []TypeOK
<1> USE LoaderAssumption
<1>1. Init => TypeOK
  <2> SUFFICES ASSUME Init PROVE TypeOK
    OBVIOUS
  <2>1. target \in Target
    BY InitTarget DEF Init, LoaderInit
  <2>2. spent \in BOOLEAN
    BY Zenon DEF Init
  <2> QED  BY <2>1, <2>2 DEF Init, LoaderInit, TypeOK, LoaderTypeOK, Modes
<1>2. TypeOK /\ [Next]_vars => TypeOK'
  <2> SUFFICES ASSUME TypeOK, [Next]_vars PROVE TypeOK'
    OBVIOUS
  <2>0. clock \in Nat
    BY DEF TypeOK, LoaderTypeOK
  <2>1. CASE LoadingRound
    <3>1. PICK rec \in BOOLEAN :
            /\ Round(rec)
            /\ Remember(Branch(sample, target, clock, rec), target')
      BY <2>1 DEF LoadingRound
    <3>2. BlinkLed(sample) \in Bat3 /\ target \in Target
      BY BlinkTypes DEF TypeOK, LoaderTypeOK
    <3>3. LoaderTypeOK'
      BY <2>0, <3>1, <3>2, DoloadTypes DEF Round, TypeOK, LoaderTypeOK
    <3>4. Branch(sample, target, clock, rec) \in
            {"battery", "stopped", "timed", "paused", "loading"}
      BY DEF Branch
    <3>5. /\ mode' \in Modes /\ steadySince' \in Nat /\ orderedAt' \in Nat
          /\ idleSince' \in Nat /\ idleUntil' \in Nat
          /\ spent' \in BOOLEAN
      BY <2>0, <3>1, <3>4 DEF Remember, TypeOK, Modes
    <3> QED  BY <3>3, <3>5 DEF TypeOK
  <2>2. CASE LoadingAccept
    BY <2>2 DEF LoadingAccept, Accept, TypeOK, LoaderTypeOK, history
  <2>3. CASE LoadingSetCurrent
    <3>1. target' \in Target
      BY <2>0, <2>3, OrderTypes DEF LoadingSetCurrent, SetCurrent, TypeOK, LoaderTypeOK
    <3>2. spent' \in BOOLEAN
      BY <2>3, Zenon DEF LoadingSetCurrent
    <3> QED  BY <2>0, <2>3, <3>1, <3>2
             DEF LoadingSetCurrent, SetCurrent, TypeOK, LoaderTypeOK, Modes
  <2>4. CASE LoadingSetHours
    <3>1. target' \in Target
      BY <2>0, <2>4, OrderTypes DEF LoadingSetHours, SetHours, TypeOK, LoaderTypeOK
    <3> QED  BY <2>4, <3>1 DEF LoadingSetHours, SetHours, TypeOK, LoaderTypeOK, history
  <2>5. CASE LoadingTick
    BY <2>5 DEF LoadingTick, Tick, TypeOK, LoaderTypeOK, history
  <2>6. CASE UNCHANGED vars
    BY <2>6 DEF vars, loaderVars, TypeOK, LoaderTypeOK, history
  <2> QED  BY <2>1, <2>2, <2>3, <2>4, <2>5, <2>6 DEF Next
<1> QED  BY <1>1, <1>2, PTL DEF Spec

-----------------------------------------------------------------------------
(***************************************************************************)
(* When the loader rests.                                                  *)
(***************************************************************************)

\* What an adaptive round does to the start of the stable period, if the
\* period that is under way (stable_time # 0) is one of steady weights.
LEMMA AdaptiveRound ==
  ASSUME NEW t \in Target, NEW now \in Nat, NEW rec \in BOOLEAN, now # 0,
         t.stable_time # 0 => IsSteady(t),
         t.stable_time <= now
  PROVE  LET r == Recorded(t, now, rec)
             u == check_stable(r, now)
         IN  /\ IsSteady(u) <=> u.stable_time # 0
             /\ u.stable_time \in {0, now, t.stable_time}
             /\ t.stable_time # 0 => u.stable_time \in {0, t.stable_time}
             /\ Pausing(r, now) =>
                  /\ u.stable_time = t.stable_time /\ t.stable_time # 0
                  /\ now - u.stable_time > StableSecs
                  /\ now - u.stable_time < DaySecs
             /\ IsStable(t, now) =>
                  /\ u.stable_time = t.stable_time
                  /\ IsStable(r, now) /\ r.stable_time = t.stable_time
<1> DEFINE a == [t EXCEPT !.alarm = now + 1]
           c == check_stable(a, now)
           r == Recorded(t, now, rec)
           u == check_stable(r, now)
<1>1. /\ a \in Target /\ c \in Target /\ r \in Target /\ u \in Target
      /\ t.stable_time \in Nat
  BY TargetTypes, TargetFields
<1>2. /\ a.stable_time = t.stable_time /\ a.weightpos = t.weightpos
      /\ a.steady = t.steady
  BY DEF Target
<1>3. ASSUME NEW x \in Target
      PROVE  /\ check_stable(x, now).weightpos = x.weightpos
             /\ check_stable(x, now).steady = x.steady
             /\ check_stable(x, now).stable_time =
                  IF x.weightpos < 2 THEN x.stable_time
                  ELSE IF ~x.steady THEN 0
                  ELSE IF x.stable_time = 0 THEN now ELSE x.stable_time
  BY DEF check_stable, Target
<1>4. r = IF t.alarm > now THEN t
          ELSE IF IsStable(t, now) THEN c ELSE process_first_degree(c, rec)
  BY DEF Recorded
<1>5. ASSUME NEW x \in Target
      PROVE  /\ process_first_degree(x, rec).stable_time = x.stable_time
             /\ process_first_degree(x, rec).steady = rec
             /\ x.weightpos >= 2 => process_first_degree(x, rec).weightpos >= 2
  <2>1. /\ process_first_degree(x, rec).stable_time = x.stable_time
        /\ process_first_degree(x, rec).steady = rec
    BY DEF process_first_degree, Target
  <2>2. process_first_degree(x, rec).weightpos =
          IF x.weightpos + 1 = MAXMIN THEN x.weightpos ELSE x.weightpos + 1
    BY DEF process_first_degree, Target
  <2>3. x.weightpos \in Nat
    BY TargetFields, TargetRanges
  <2> QED  BY <2>1, <2>2, <2>3
<1>6. /\ t.stable_time \in Nat /\ t.weightpos \in Nat /\ t.steady \in BOOLEAN
      /\ r.weightpos \in Nat
  BY <1>1, TargetFields, TargetRanges
<1>7. /\ c.stable_time = IF t.weightpos < 2 THEN t.stable_time
                         ELSE IF ~t.steady THEN 0
                         ELSE IF t.stable_time = 0 THEN now ELSE t.stable_time
      /\ c.weightpos = t.weightpos /\ c.steady = t.steady
  <2> HIDE DEF a
  <2> QED  BY <1>1, <1>2, <1>3
<1>8. /\ u.stable_time = IF r.weightpos < 2 THEN r.stable_time
                         ELSE IF ~r.steady THEN 0
                         ELSE IF r.stable_time = 0 THEN now ELSE r.stable_time
      /\ u.weightpos = r.weightpos /\ u.steady = r.steady
  <2> HIDE DEF r
  <2> QED  BY <1>1, <1>3
<1> HIDE DEF a, c, r, u
<1>9. /\ r.stable_time \in {0, now, t.stable_time}
      /\ r.weightpos < 2 => r.stable_time = 0
      /\ t.stable_time # 0 => r.stable_time = t.stable_time
      /\ IsStable(t, now) => /\ r.stable_time = t.stable_time
                             /\ r.weightpos >= 2 /\ r.steady
  <2>1. CASE t.alarm > now
    BY <2>1, <1>4, <1>6 DEF IsSteady, IsStable
  <2>2. CASE ~(t.alarm > now) /\ IsStable(t, now)
    <3>1. r = c
      BY <2>2, <1>4
    <3> QED  BY <2>2, <3>1, <1>6, <1>7 DEF IsSteady, IsStable
  <2>3. CASE ~(t.alarm > now) /\ ~IsStable(t, now)
    <3>1. r = process_first_degree(c, rec)
      BY <2>3, <1>4
    <3>2. /\ r.stable_time = c.stable_time
          /\ c.weightpos >= 2 => r.weightpos >= 2
      BY <3>1, <1>1, <1>5
    <3> QED  BY <2>3, <3>2, <1>6, <1>7 DEF IsSteady
  <2> QED  BY <2>1, <2>2, <2>3
<1>10. IsSteady(u) <=> u.stable_time # 0
  BY <1>6, <1>8, <1>9 DEF IsSteady
<1>11. u.stable_time \in {0, now, t.stable_time}
  BY <1>8, <1>9
<1>12. t.stable_time # 0 => u.stable_time \in {0, t.stable_time}
  BY <1>8, <1>9
<1>13. ASSUME Pausing(r, now)
       PROVE  /\ u.stable_time = t.stable_time /\ t.stable_time # 0
              /\ now - u.stable_time > StableSecs
              /\ now - u.stable_time < DaySecs
  <2>1. /\ r.weightpos >= 2 /\ r.steady /\ r.stable_time # 0
        /\ now - r.stable_time > StableSecs /\ now - r.stable_time < DaySecs
    BY <1>13 DEF Pausing, IsStable
  <2>2. r.stable_time = t.stable_time
    BY <2>1, <1>9, Bat3FuncAssumption
  <2> QED  BY <2>1, <2>2, <1>6, <1>8
<1>14. ASSUME IsStable(t, now)
       PROVE  /\ u.stable_time = t.stable_time
              /\ IsStable(r, now) /\ r.stable_time = t.stable_time
  BY <1>6, <1>8, <1>9, <1>14 DEF IsStable
<1> QED  BY <1>10, <1>11, <1>12, <1>13, <1>14 DEF r, u

\* The inductive invariant, and with it: the loader rests only when it has
\* earned it, every rest ends, and there is one rest per charge.
THEOREM Resting == Spec => [](PauseEarned /\ PauseEnds /\ OneRestPerCharge)
<1> USE LoaderAssumption, Bat3FuncAssumption
<1>1. Init => RestInv
  BY DEF Init, LoaderInit, initParams, RestInv, IsSteady
<1>2. TypeOK /\ RestInv /\ [Next]_vars => RestInv'
  <2> SUFFICES ASSUME TypeOK, RestInv, [Next]_vars PROVE RestInv'
    OBVIOUS
  <2>0. /\ clock \in Nat /\ clock # 0 /\ target \in Target
        /\ target.stable_time \in Nat /\ idleSince \in Nat /\ idleUntil \in Nat
        /\ steadySince \in Nat /\ orderedAt \in Nat
    BY TargetFields DEF TypeOK, LoaderTypeOK
  <2>1. CASE LoadingRound
    <3>1. PICK rec \in BOOLEAN :
            /\ target' = doload(BlinkLed(sample), target, clock, rec).target
            /\ Remember(Branch(sample, target, clock, rec), target')
            /\ clock' = clock
      BY <2>1 DEF LoadingRound, Round
    <3>2. BlinkLed(sample).batRun = sample.batRun
      BY BlinkTypes DEF TypeOK, LoaderTypeOK
    <3>3. CASE sample.batRun = ON
      <4>1. target' = reset_history(target)
        BY <3>1, <3>2, <3>3 DEF doload, LoadOnBattery
      <4>2. target'.stable_time = 0 /\ target'.weightpos = 0
        BY <4>1, <2>0 DEF reset_history, Target
      <4>3. Branch(sample, target, clock, rec) = "battery"
        BY <3>3 DEF Branch
      <4> QED  BY <2>0, <3>1, <4>2, <4>3 DEF Remember, RestInv, IsSteady
    <3>4. CASE sample.batRun # ON /\ target.hours # 0
      <4>1. target' = target
        BY <3>1, <3>2, <3>4 DEF doload, LoadByHours
      <4>2. Branch(sample, target, clock, rec) \in {"stopped", "timed"}
        BY <3>4 DEF Branch
      <4> QED  BY <2>0, <3>1, <4>1, <4>2 DEF Remember, RestInv
    <3>5. CASE sample.batRun # ON /\ target.hours = 0
      <4> DEFINE r == Recorded(target, clock, rec)
                 u == check_stable(r, clock)
      <4>1. target' = u
        BY <3>1, <3>2, <3>5 DEF doload, LoadByHistory
      <4>2. Branch(sample, target, clock, rec) =
              IF Pausing(r, clock) THEN "paused" ELSE "loading"
        BY <3>5 DEF Branch
      <4>3. /\ target.stable_time # 0 => IsSteady(target)
            /\ target.stable_time <= clock
        BY <2>0 DEF RestInv
      <4>4. /\ IsSteady(u) <=> u.stable_time # 0
            /\ u.stable_time \in {0, clock, target.stable_time}
            /\ target.stable_time # 0 => u.stable_time \in {0, target.stable_time}
            /\ Pausing(r, clock) =>
                 /\ u.stable_time = target.stable_time /\ target.stable_time # 0
                 /\ clock - u.stable_time > StableSecs
                 /\ clock - u.stable_time < DaySecs
            /\ IsStable(target, clock) =>
                 /\ u.stable_time = target.stable_time
                 /\ IsStable(r, clock) /\ r.stable_time = target.stable_time
        BY <2>0, <4>3, AdaptiveRound
      <4> HIDE DEF r, u
      <4>5. steadySince' = IF ~IsSteady(u) THEN 0
                           ELSE IF steadySince = 0 THEN clock ELSE steadySince
        <5>1. u \in Target
          BY <2>0, TargetTypes DEF r, u
        <5>2. u.weightpos \in Nat
          BY <5>1, TargetFields, TargetRanges
        <5> QED  BY <3>1, <4>1, <4>2, <5>2 DEF Remember, IsSteady
      <4>6. /\ steadySince' <= clock' /\ orderedAt' <= clock'
            /\ IsSteady(u) <=> steadySince' # 0
            /\ u.stable_time # 0 =>
                 /\ IsSteady(u)
                 /\ steadySince' <= u.stable_time
                 /\ orderedAt' <= u.stable_time
                 /\ u.stable_time <= clock'
        <5>1. /\ steadySince <= clock /\ orderedAt <= clock
              /\ target.stable_time # 0 =>
                   /\ steadySince # 0
                   /\ steadySince <= target.stable_time
                   /\ orderedAt <= target.stable_time
                   /\ target.stable_time <= clock
          BY DEF RestInv
        <5>2. clock' = clock /\ orderedAt' = orderedAt
          BY <3>1 DEF Remember
        <5>3. u.stable_time # 0 => IsSteady(u) /\ u.stable_time \in {clock, target.stable_time}
          BY <4>4
        <5>4. steadySince' \in Nat /\ steadySince' <= clock
          BY <2>0, <4>5, <5>1
        <5>5. IsSteady(u) <=> steadySince' # 0
          BY <2>0, <4>5
        <5>6. ASSUME u.stable_time # 0
              PROVE  /\ steadySince' <= u.stable_time
                     /\ orderedAt <= u.stable_time
                     /\ u.stable_time <= clock
          BY <2>0, <4>5, <5>1, <5>3, <5>4, <5>6
        <5> QED  BY <5>1, <5>2, <5>3, <5>4, <5>5, <5>6
      <4>7. CASE Pausing(r, clock)
        <5>1. /\ mode' = "paused" /\ idleUntil' = clock
              /\ idleSince' = IF idleSince = 0 THEN clock ELSE idleSince
              /\ spent' => spent
          BY <3>1, <4>2, <4>7 DEF Remember
        <5>2. ~spent
          BY <2>0, <4>4, <4>7 DEF RestInv
        <5>3. /\ u.stable_time # 0
              /\ u.stable_time + StableSecs < idleSince'
              /\ idleSince' <= idleUntil' /\ idleUntil' <= clock'
              /\ idleUntil' - u.stable_time < DaySecs
          <6>1. mode = "paused" =>
                  /\ target.stable_time + StableSecs < idleSince
                  /\ idleSince <= clock
            BY <2>0 DEF RestInv
          <6>2. mode # "paused" => idleSince = 0
            BY DEF RestInv
          <6> QED  BY <2>0, <3>1, <4>4, <4>7, <5>1, <6>1, <6>2
        <5> QED  BY <4>1, <4>6, <5>1, <5>2, <5>3 DEF RestInv
      <4>8. CASE ~Pausing(r, clock)
        <5>1. mode' = "loading" /\ idleSince' = 0
              /\ spent' = (spent \/ mode = "paused")
          BY <3>1, <4>2, <4>8 DEF Remember
        <5>2. ASSUME spent \/ mode = "paused"
              PROVE  u.stable_time # 0 /\ clock - u.stable_time >= DaySecs
          <6>1. target.stable_time # 0 /\ clock - target.stable_time > StableSecs
            BY <2>0, <5>2 DEF RestInv
          <6>2. IsStable(target, clock)
            BY <4>3, <6>1 DEF IsStable, IsSteady
          <6> QED  BY <2>0, <4>4, <4>8, <6>1, <6>2 DEF Pausing
        <5> QED  BY <3>1, <4>1, <4>6, <5>1, <5>2 DEF RestInv
      <4> QED  BY <4>7, <4>8
    <3> QED  BY <3>3, <3>4, <3>5
  <2>2. CASE LoadingAccept
    BY <2>2 DEF LoadingAccept, Accept, RestInv, IsSteady, history
  <2>3. CASE LoadingSetCurrent
    <3>1. PICK i \in Currents : target' = setCurrent(target, i)
      BY <2>3 DEF LoadingSetCurrent, SetCurrent
    <3>2. /\ target'.stable_time = 0 /\ target'.weightpos = target.weightpos
          /\ target'.steady = target.steady
      BY <2>0, <3>1 DEF setCurrent, Target
    <3> QED  BY <2>0, <2>3, <3>2 DEF LoadingSetCurrent, SetCurrent, RestInv, IsSteady
  <2>4. CASE LoadingSetHours
    <3>1. PICK i \in HoursArgs : target' = setHours(target, i, clock)
      BY <2>4 DEF LoadingSetHours, SetHours
    <3>2. /\ target'.stable_time = target.stable_time
          /\ target'.weightpos = target.weightpos
          /\ target'.steady = target.steady
      BY <2>0, <3>1 DEF setHours, Target
    <3> QED  BY <2>4, <3>2 DEF LoadingSetHours, SetHours, RestInv, IsSteady, history
  <2>5. CASE LoadingTick
    BY <2>0, <2>5 DEF LoadingTick, Tick, RestInv, history
  <2>6. CASE UNCHANGED vars
    BY <2>6 DEF vars, loaderVars, RestInv, history
  <2> QED  BY <2>1, <2>2, <2>3, <2>4, <2>5, <2>6 DEF Next
<1>3. TypeOK /\ RestInv => PauseEarned /\ PauseEnds /\ OneRestPerCharge
  <2> SUFFICES ASSUME TypeOK, RestInv
               PROVE  PauseEarned /\ PauseEnds /\ OneRestPerCharge
    OBVIOUS
  <2>1. /\ clock \in Nat /\ target.stable_time \in Nat /\ idleSince \in Nat
        /\ idleUntil \in Nat /\ steadySince \in Nat /\ orderedAt \in Nat
    BY TargetFields DEF TypeOK, LoaderTypeOK
  <2> QED  BY <2>1 DEF RestInv, PauseEarned, PauseEnds, OneRestPerCharge
<1> QED  BY <1>1, <1>2, <1>3, Typing, PTL DEF Spec

\* A rest is over when a day has passed since stable_time, from which doload
\* counts both its beginning and its end.
THEOREM Ending == Spec => []PauseEnds
  BY Resting, PTL

\* A charge has one rest: after it has expired the loader does not rest again
\* before a new order or a battery run.
THEOREM Once == Spec => []OneRestPerCharge
  BY Resting, PTL
=============================================================================
