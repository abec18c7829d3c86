----------------------------- MODULE Bat3Func ------------------------------
(***************************************************************************)
(* The loading decisions of the bat3 daemon (src/bat3func.c) and the two   *)
(* orders a client or the command line can give it (setCurrent and         *)
(* setHours of src/bat3.c), as operators on the sample `s` (struct bat3)   *)
(* and the target `t` (the part of struct action the loader uses).         *)
(*                                                                         *)
(* Times are seconds of time(NULL); 0 means "not set".  One call of doload *)
(* reads the clock several times within microseconds; the model reads it   *)
(* once and passes it as `now`.                                            *)
(***************************************************************************)
EXTENDS Convert

CONSTANTS
  StableSecs,   \* STABLE_TIME * 60: seconds of stability before a pause
  DaySecs,      \* 24 * 60 * 60: the length of a pause, from stable_time
  HourSecs,     \* 3600: the unit of setHours
  MAXMIN        \* the size of the weight history

ASSUME Bat3FuncAssumption ==
  /\ StableSecs \in Nat
  /\ DaySecs \in Nat /\ DaySecs > StableSecs
  /\ HourSecs \in Nat \ {0}
  /\ MAXMIN \in Nat /\ MAXMIN > 2

MAX_PWM_T  == 512      \* 0x0200
MIN_PWM_T  == 256      \* 0x0100
DEFTARGET  == 400
BIG_STEP   == 100
SMALL_STEP == 10

DEFAULT_CURRENT == 400
MaxCurrent      == 2000
MaxHours        == 48

(***************************************************************************)
(* The loader's part of struct action.  weight[] is a list of floats       *)
(* w' = 0.99 w + 0.01 bat_u of which only one question is ever asked: is   *)
(* the difference of the last two within (-1, 1)?  `steady` is the answer. *)
(* As bat_u ranges over 0..65535, both answers are possible for every new  *)
(* weight.  The answer is not asked for while weightpos < 2.               *)
(***************************************************************************)
CurrentRange == 0 .. MaxCurrent
HoursRange   == Nat \cup {-1}
WeightRange  == 0 .. (MAXMIN - 1)

Target ==
  [ current     : CurrentRange,
    hours       : HoursRange,
    alarm       : Nat,
    stable_time : Nat,
    weightpos   : WeightRange,
    steady      : BOOLEAN ]

(***************************************************************************)
(* initParams; params is static, so what it leaves out is zero.  The       *)
(* arguments -c and -e are setCurrent and setHours before the first round. *)
(***************************************************************************)
initParams ==
  [ current |-> DEFAULT_CURRENT, hours |-> -1, alarm |-> 0, stable_time |-> 0,
    weightpos |-> 0, steady |-> FALSE ]

\* Faulty: a new current does not end the stable period.
setCurrent_keeping(t, i) ==
  [t EXCEPT !.current = IF i < 0 \/ i > MaxCurrent THEN DEFAULT_CURRENT ELSE i]

(***************************************************************************)
(* setCurrent and setHours: orders given on the command line or by a       *)
(* client.  Only the start of the stable period is forgotten, not the      *)
(* weights it was derived from.                                            *)
(***************************************************************************)
setCurrent(t, i) ==
  [t EXCEPT !.current = IF i < 0 \/ i > MaxCurrent THEN DEFAULT_CURRENT ELSE i,
            !.stable_time = 0]

setHours(t, i, now) ==
  [t EXCEPT !.hours =
     IF i < 0 THEN 0
     ELSE now + (IF i > MaxHours THEN MaxHours ELSE i) * HourSecs]

changeled(s) == [s EXCEPT !.led = IF @ = ON THEN OFF ELSE ON]

\* doRound: on batteries the LED goes off, else it changes.
BlinkLed(s) == IF s.batRun = ON THEN [s EXCEPT !.led = OFF] ELSE changeled(s)

switch_opamp(s, sw) ==
  [s EXCEPT !.opampEn = sw, !.PWM1en = sw, !.PWM2en = sw]

reset_history(t) ==
  [t EXCEPT !.alarm = 0, !.stable_time = 0, !.weightpos = 0]

(***************************************************************************)
(* calc_load: one regulation step of the PWM low time.  The more low time, *)
(* the less current.  The result is capped by the period the board         *)
(* reported, not by the period doload is going to ask for.                 *)
(***************************************************************************)
LoadDiff(s, t) == t.current - TruncDiv(battI(s.bat_i), 1000)

PwmStep(diff) ==
  CASE diff > BIG_STEP -> -10
    [] diff < -BIG_STEP -> 10
    [] diff > SMALL_STEP /\ diff <= BIG_STEP -> -1
    [] diff < -SMALL_STEP /\ diff >= -BIG_STEP -> 1
    [] diff \in -SMALL_STEP .. SMALL_STEP -> 0

PwmFloor(t) == IF t.current = DEFTARGET THEN MIN_PWM_T ELSE 0

AtLeast(x, low)  == IF x < low THEN low ELSE x
AtMost(x, high)  == IF x > high THEN high ELSE x

\* Faulty: no ceiling.
calc_load_uncapped(s, t) ==
  [s EXCEPT !.pwm_lo = AtLeast(s.pwm_lo + PwmStep(LoadDiff(s, t)), PwmFloor(t))]

calc_load(s, t) ==
  [s EXCEPT !.pwm_lo =
     AtMost(AtLeast(s.pwm_lo + PwmStep(LoadDiff(s, t)), PwmFloor(t)), s.pwm_t)]

(***************************************************************************)
(* process_first_degree: add a weight.  When the list is full it shifts    *)
(* down by one and weightpos stays.  `rec` is whether the new weight is    *)
(* within 1 of the one before it.                                          *)
(***************************************************************************)
process_first_degree(t, rec) ==
  LET pos == IF t.weightpos + 1 = MAXMIN THEN t.weightpos ELSE t.weightpos + 1
  IN  [t EXCEPT !.weightpos = pos, !.steady = rec]

(***************************************************************************)
(* check_stable returns whether the load has been stable long enough and,  *)
(* as a side effect, starts or clears stable_time.                         *)
(***************************************************************************)
IsStable(t, now) ==
  t.weightpos >= 2 /\ t.steady /\ t.stable_time # 0
                   /\ now - t.stable_time > StableSecs

check_stable(t, now) ==
  [t EXCEPT !.stable_time =
     IF t.weightpos < 2 THEN @
     ELSE IF ~t.steady THEN 0
     ELSE IF @ = 0 THEN now ELSE @]

(***************************************************************************)
(* doload, branch by branch.  Each branch yields the state to be sent to   *)
(* the board and the target it leaves behind.                              *)
(***************************************************************************)
LoadOnBattery(s, t) ==
  [ state  |-> [switch_opamp(s, OFF) EXCEPT !.softJP3 = OFF, !.buckEn = OFF,
                                            !.offsetEn = OFF],
    target |-> reset_history(t) ]

StopTimeReached(t, now) == t.hours < now

LoadByHours(s, t, now) ==
  [ state  |-> IF StopTimeReached(t, now)
               THEN switch_opamp([s EXCEPT !.softJP3 = OFF], OFF)
               ELSE [switch_opamp(calc_load(s, t), ON)
                       EXCEPT !.softJP3 = OFF, !.buckEn = OFF,
                              !.offsetEn = OFF, !.pwm_t = MAX_PWM_T],
    target |-> t ]

\* Faulty: weights are recorded during a rest as well.
Recorded_always(t, now, rec) ==
  IF t.alarm > now THEN t
  ELSE process_first_degree(check_stable([t EXCEPT !.alarm = now + 1], now), rec)

Recorded(t, now, rec) ==   \* the once-a-second record of the battery voltage
  IF t.alarm > now THEN t
  ELSE LET asked == check_stable([t EXCEPT !.alarm = now + 1], now)
       IN  IF IsStable(t, now) THEN asked ELSE process_first_degree(asked, rec)

\* Faulty: one round too many.
Pausing_late(t, now) == IsStable(t, now) /\ now - t.stable_time <= DaySecs

Pausing(t, now) == IsStable(t, now) /\ now - t.stable_time < DaySecs

LoadByHistory(s, t, now, rec) ==
  LET recorded == Recorded(t, now, rec)
      asked    == check_stable(recorded, now)
      s0       == [s EXCEPT !.softJP3 = OFF]
  IN  [ state  |->
          IF Pausing(recorded, now)
          THEN IF s.opampEn = ON THEN switch_opamp(s0, OFF) ELSE s0
          ELSE [(IF s.opampEn = OFF THEN switch_opamp(calc_load(s0, t), ON)
                                    ELSE calc_load(s0, t))
                  EXCEPT !.buckEn = OFF, !.offsetEn = OFF, !.pwm_t = MAX_PWM_T],
        target |-> asked ]

Branch(s, t, now, rec) ==
  IF s.batRun = ON THEN "battery"
  ELSE IF t.hours # 0
       THEN IF StopTimeReached(t, now) THEN "stopped" ELSE "timed"
       ELSE IF Pausing(Recorded(t, now, rec), now) THEN "paused" ELSE "loading"

doload(s, t, now, rec) ==
  IF s.batRun = ON THEN LoadOnBattery(s, t)
  ELSE IF t.hours # 0 THEN LoadByHours(s, t, now)
  ELSE LoadByHistory(s, t, now, rec)

\* Faulty: the request is taken for done when it has been made.
RomStep_hasty(s, romstate, address, asked, ask) ==
  [ state |-> IF romstate = "WRITE" THEN ask ELSE s, romstate |-> "DONE" ]

\* Faulty: LISTEN waits for what it has just taken back.
RomStep_deaf(s, romstate, address, asked, ask) ==
  LET stop == [s EXCEPT !.ee_addr = address % (MaxByte + 1), !.ee_read = OFF,
                        !.ee_write = OFF]
  IN  IF romstate = "WRITE" /\ ~(s.ee_addr = address /\ asked)
      THEN [state |-> ask, romstate |-> "WRITE"]
      ELSE [state |-> stop, romstate |-> "LISTEN"]

(***************************************************************************)
(* doread and dowrite: the dialogue with the board about one byte of its   *)
(* EEPROM.  WRITE asks until the sample shows the request, LISTEN takes it *)
(* back until the sample shows that, DONE does nothing more.  A sample     *)
(* that does not show what is waited for is overwritten in place, which is *)
(* how the request gets into the next packet.  An address or a value wider *)
(* than a byte is cut when it is stored, not when it is compared.          *)
(***************************************************************************)
RomStep(s, romstate, address, asked, ask) ==
  LET here == s.ee_addr = address
      stop == [s EXCEPT !.ee_addr = address % (MaxByte + 1), !.ee_read = OFF,
                        !.ee_write = OFF]
      To(state, next) == [state |-> state, romstate |-> next]
  IN  CASE romstate = "WRITE" /\ here /\ asked     -> To(stop, "LISTEN")
        [] romstate = "WRITE" /\ ~(here /\ asked)  -> To(ask, "WRITE")
        [] romstate = "LISTEN" /\ here /\ ~asked   -> To(s, "DONE")
        [] romstate = "LISTEN" /\ (~here \/ asked) -> To(stop, "LISTEN")
        [] romstate = "DONE"                       -> To(s, "DONE")

doread(s, romstate, address) ==
  RomStep(s, romstate, address, s.ee_read = ON,
          [s EXCEPT !.ee_addr = address % (MaxByte + 1), !.ee_read = ON,
                    !.ee_write = OFF, !.ee_data = 0])

dowrite(s, romstate, address, value) ==
  RomStep(s, romstate, address, s.ee_write = ON,
          [s EXCEPT !.ee_addr = address % (MaxByte + 1), !.ee_read = OFF,
                    !.ee_write = ON, !.ee_data = value % (MaxByte + 1)])

=============================================================================
