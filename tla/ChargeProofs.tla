---------------------------- MODULE ChargeProofs ----------------------------
(***************************************************************************)
(* Theorems about Charge, for every period, duty cycle, command and        *)
(* measurement, and whatever the board is set to at the start.             *)
(***************************************************************************)
EXTENDS Charge, TLAPS

-----------------------------------------------------------------------------
(***************************************************************************)
(* What the parts of the driver (AvrLink) leave on the line, whatever a    *)
(* request and a reply are.                                                *)
(***************************************************************************)
LEMMA LinkTypes ==
  ASSUME NEW Rq, NEW Rp, LinkTypeOK(Rq, Rp)
  PROVE  /\ ReplyGet => NextReply \in Rp
         /\ \A req \in Rq : ReplyGet /\ Submit(req) => LinkTypeOK(Rq, Rp)'
         /\ \A ok \in BOOLEAN : Accept(ok) => LinkTypeOK(Rq, Rp)'
         /\ \A ok \in BOOLEAN : Reject(ok) /\ seen < Retries => LinkTypeOK(Rq, Rp)'
         /\ Unanswered => LinkTypeOK(Rq, Rp)'
         /\ Taken => LinkTypeOK(Rq, Rp)' /\ NextRequest \in Rq
         /\ \A rep \in Rp : Reported(rep) => LinkTypeOK(Rq, Rp)'
         /\ Lost => LinkTypeOK(Rq, Rp)'
<1>1. /\ request \in Rq /\ seen \in Nat /\ seen <= Retries
      /\ toBoard \in Seq(Rq) /\ Len(toBoard) <= MaxQueue
      /\ fromBoard \in Seq(Rp) /\ Len(fromBoard) <= MaxQueue
      /\ faults \in Nat /\ faults <= MaxFaults
      /\ Retries \in Nat \ {0} /\ MaxQueue \in Nat \ {0} /\ MaxFaults \in Nat
  BY AvrLinkAssumption DEF LinkTypeOK
<1>2. ReplyGet => /\ NextReply \in Rp
                  /\ fromBoard' \in Seq(Rp) /\ Len(fromBoard') <= MaxQueue
  BY <1>1 DEF ReplyGet, NextReply
<1>3. ASSUME NEW req \in Rq, ReplyGet, Submit(req)
      PROVE  LinkTypeOK(Rq, Rp)'
  BY <1>1, <1>2, <1>3 DEF Submit, LinkTypeOK
<1>4. ASSUME NEW ok \in BOOLEAN, Accept(ok)
      PROVE  LinkTypeOK(Rq, Rp)'
  BY <1>1, <1>2, <1>4 DEF Accept, LinkTypeOK
<1>5. ASSUME NEW ok \in BOOLEAN, Reject(ok), seen < Retries
      PROVE  LinkTypeOK(Rq, Rp)'
  <2>1. toBoard' \in Seq(Rq) /\ Len(toBoard') <= MaxQueue
    BY <1>1, <1>5, SMTT(30) DEF Reject
  <2> QED  BY <1>1, <1>2, <1>5, <2>1 DEF Reject, LinkTypeOK
<1>6. Unanswered => LinkTypeOK(Rq, Rp)'
  BY <1>1 DEF Unanswered, LinkTypeOK
<1>7. Taken => LinkTypeOK(Rq, Rp)' /\ NextRequest \in Rq
  BY <1>1 DEF Taken, LinkTypeOK, NextRequest
<1>8. ASSUME NEW rep \in Rp, Reported(rep)
      PROVE  LinkTypeOK(Rq, Rp)'
  BY <1>1, <1>8 DEF Reported, LinkTypeOK
<1>9. Lost => LinkTypeOK(Rq, Rp)'
  BY <1>1 DEF Lost, LinkTypeOK
<1> QED  BY <1>2, <1>3, <1>4, <1>5, <1>6, <1>7, <1>8, <1>9

-----------------------------------------------------------------------------
(***************************************************************************)
(* The search and the following of the current.                            *)
(***************************************************************************)

\* A period and what lies in it are words.
LEMMA Periods ==
  /\ LockMax \in Nat \ {0} /\ LockMax + 1 \in Word /\ LockMax \in Word /\ 0 \in Word
  /\ \A w \in Word : w \in Nat /\ w <= MaxWord
  /\ \A w \in Nat : w <= MaxWord => w \in Word
  /\ MaxWord \in Nat
  /\ 0 \in Bit /\ 1 \in Bit /\ \A b \in Bit : 1 - b \in Bit
<1>1. LockMax \in 1 .. MaxWord - 1
  BY ChargeAssumption
<1>2. 0 \in Bit /\ 1 \in Bit /\ \A b \in Bit : 1 - b \in Bit
  BY DEF Bit
<1>3. MaxWord \in Nat
  BY DEF MaxWord
<1> QED  BY <1>1, <1>2, <1>3 DEF Word

\* The middle of two bounds, crossed or not, lies between them.
LEMMA Middle ==
  ASSUME NEW top \in Nat, NEW lo \in 0 .. top, NEW hi \in 0 .. top
  PROVE  lo + TruncDiv(hi - lo, 2) \in 0 .. top
BY DEF TruncDiv

\* What the two ways to choose a low time leave of the state, and its range.
LEMMA SeekTypes ==
  ASSUME NEW st \in ChargeState, NEW rep \in Reply
  PROVE  /\ Seek(st, rep).state \in ChargeState
         /\ Seek(st, rep).pwm_lo \in Word
<1>1. st.lock_lo \in Word /\ st.lock_hi \in Word /\ rep.pwm_lo \in Word
  BY DEF ChargeState, Reply
<1> DEFINE first == st.lock_hi > LockMax
           over  == rep.current > st.targetI
           lo == IF ~first /\ over THEN rep.pwm_lo ELSE st.lock_lo
           hi == IF first THEN LockMax ELSE IF over THEN st.lock_hi ELSE rep.pwm_lo
<1>2. lo \in Word /\ hi \in Word
  BY <1>1, Periods
<1>3. Seek(st, rep) =
        [ state  |-> [st EXCEPT !.lock_lo = lo, !.lock_hi = hi,
                                !.locked = Found(lo, hi)],
          pwm_lo |-> (lo + TruncDiv(hi - lo, 2)) % (MaxWord + 1) ]
  BY DEF Seek
<1> HIDE DEF lo, hi
<1>4. Found(lo, hi) \in BOOLEAN
  BY DEF Found
<1>5. (lo + TruncDiv(hi - lo, 2)) % (MaxWord + 1) \in Word
  <2>1. lo \in 0 .. MaxWord /\ hi \in 0 .. MaxWord /\ MaxWord \in Nat
    BY <1>2, Periods
  <2>2. lo + TruncDiv(hi - lo, 2) \in 0 .. MaxWord
    BY <2>1, Middle
  <2> QED  BY <2>1, <2>2 DEF Word
<1>6. [st EXCEPT !.lock_lo = lo, !.lock_hi = hi, !.locked = Found(lo, hi)]
        \in ChargeState
  BY <1>2, <1>4 DEF ChargeState
<1> QED  BY <1>3, <1>5, <1>6

\* SEEKING changes the bounds, and nothing of the duty cycle.
LEMMA SeekKeeps ==
  ASSUME NEW st \in ChargeState, NEW rep \in Reply
  PROVE  /\ Seek(st, rep).state.targetI = st.targetI
         /\ Seek(st, rep).state.time_on = st.time_on
         /\ Seek(st, rep).state.timer = st.timer
BY DEF Seek, ChargeState

\* SEEKING, with bounds and a reading within the period: so is the next one.
LEMMA SeekStays ==
  ASSUME NEW st \in ChargeState, NEW rep \in Reply,
         st.lock_lo <= LockMax,
         st.lock_hi <= LockMax => rep.pwm_lo <= LockMax
  PROVE  /\ Seek(st, rep).pwm_lo \in 0 .. LockMax
         /\ Seek(st, rep).state.lock_lo <= LockMax
         /\ Seek(st, rep).state.lock_hi <= LockMax
<1>1. st.lock_lo \in Nat /\ st.lock_hi \in Nat /\ rep.pwm_lo \in Nat
  BY Periods DEF ChargeState, Reply
<1> DEFINE first == st.lock_hi > LockMax
           over  == rep.current > st.targetI
           lo == IF ~first /\ over THEN rep.pwm_lo ELSE st.lock_lo
           hi == IF first THEN LockMax ELSE IF over THEN st.lock_hi ELSE rep.pwm_lo
<1>2. lo \in 0 .. LockMax /\ hi \in 0 .. LockMax
  BY <1>1, Periods
<1>3. Seek(st, rep) =
        [ state  |-> [st EXCEPT !.lock_lo = lo, !.lock_hi = hi,
                                !.locked = Found(lo, hi)],
          pwm_lo |-> (lo + TruncDiv(hi - lo, 2)) % (MaxWord + 1) ]
  BY DEF Seek
<1> HIDE DEF lo, hi
<1>4. (lo + TruncDiv(hi - lo, 2)) % (MaxWord + 1) \in 0 .. LockMax
  <2>1. lo + TruncDiv(hi - lo, 2) \in 0 .. LockMax
    BY <1>2, Middle, Periods
  <2>2. LockMax \in Nat /\ MaxWord \in Nat /\ LockMax <= MaxWord
    BY Periods
  <2> DEFINE m == lo + TruncDiv(hi - lo, 2)
  <2> HIDE DEF m
  <2>3. m % (MaxWord + 1) = m
    BY <2>1, <2>2 DEF m
  <2> QED  BY <2>1, <2>3 DEF m
<1>5. /\ [st EXCEPT !.lock_lo = lo, !.lock_hi = hi,
                    !.locked = Found(lo, hi)].lock_lo = lo
      /\ [st EXCEPT !.lock_lo = lo, !.lock_hi = hi,
                    !.locked = Found(lo, hi)].lock_hi = hi
  BY DEF ChargeState
<1>6. /\ Seek(st, rep).pwm_lo = (lo + TruncDiv(hi - lo, 2)) % (MaxWord + 1)
      /\ Seek(st, rep).state = [st EXCEPT !.lock_lo = lo, !.lock_hi = hi,
                                          !.locked = Found(lo, hi)]
  BY <1>3
<1>7. lo <= LockMax /\ hi <= LockMax
  BY <1>2, Periods
<1> QED  BY <1>4, <1>5, <1>6, <1>7

\* LOCKED: one step at most, within the period if the reading was.
LEMMA FollowStays ==
  ASSUME NEW st \in ChargeState, NEW rep \in Reply
  PROVE  /\ Follow(st, rep).state \in { st, [st EXCEPT !.targetI = 0] }
         /\ Follow(st, rep).pwm_lo \in Word
         /\ rep.pwm_lo <= LockMax => Follow(st, rep).pwm_lo \in 0 .. LockMax
<1> DEFINE charging == rep.batRun = 0 /\ st.targetI > 0
           over     == charging /\ rep.current - st.targetI > Tolerance
           under    == charging /\ rep.current - st.targetI < -Tolerance
           To(pwm_lo) == [ state |-> st, pwm_lo |-> pwm_lo ]
           GiveUp   == [ state |-> [st EXCEPT !.targetI = 0], pwm_lo |-> rep.pwm_lo ]
<1>1. /\ rep.pwm_lo \in Nat /\ rep.pwm_lo \in Word
      /\ rep.current \in Int /\ st.targetI \in Int
  BY Periods DEF ChargeState, Reply
<1>2. ~(over /\ under)
  BY <1>1 DEF Tolerance
<1>3. Follow(st, rep) =
        CASE over /\ rep.pwm_lo < LockMax  -> To(rep.pwm_lo + 1)
          [] over /\ rep.pwm_lo >= LockMax -> GiveUp
          [] under /\ rep.pwm_lo > 0       -> To(rep.pwm_lo - 1)
          [] under /\ rep.pwm_lo = 0       -> GiveUp
          [] ~over /\ ~under               -> To(rep.pwm_lo)
  BY DEF Follow
<1> HIDE DEF over, under
<1>4. \/ over /\ rep.pwm_lo < LockMax /\ Follow(st, rep) = To(rep.pwm_lo + 1)
      \/ under /\ rep.pwm_lo > 0 /\ Follow(st, rep) = To(rep.pwm_lo - 1)
      \/ Follow(st, rep) \in { GiveUp, To(rep.pwm_lo) }
  BY <1>1, <1>2, <1>3, Periods
<1>5. rep.pwm_lo < LockMax => rep.pwm_lo + 1 \in Word /\ rep.pwm_lo + 1 \in 0 .. LockMax
  BY <1>1, Periods
<1>6. rep.pwm_lo > 0 => /\ rep.pwm_lo - 1 \in Word
                        /\ rep.pwm_lo <= LockMax => rep.pwm_lo - 1 \in 0 .. LockMax
  BY <1>1, Periods
<1>7. rep.pwm_lo <= LockMax => rep.pwm_lo \in 0 .. LockMax
  BY <1>1, Periods
<1>8. CASE rep.pwm_lo < LockMax /\ Follow(st, rep) = To(rep.pwm_lo + 1)
  BY <1>5, <1>8
<1>9. CASE rep.pwm_lo > 0 /\ Follow(st, rep) = To(rep.pwm_lo - 1)
  <2> DEFINE m == rep.pwm_lo - 1
  <2>1. m \in Word /\ (rep.pwm_lo <= LockMax => m \in 0 .. LockMax)
    BY <1>6, <1>9
  <2>2. Follow(st, rep).state = st /\ Follow(st, rep).pwm_lo = m
    BY <1>9
  <2> HIDE DEF m
  <2> QED  BY <2>1, <2>2
<1>10. CASE Follow(st, rep) = GiveUp
  <2>1. /\ Follow(st, rep).state = [st EXCEPT !.targetI = 0]
        /\ Follow(st, rep).pwm_lo = rep.pwm_lo
    BY <1>10
  <2> QED  BY <1>1, <1>7, <2>1
<1>11. CASE Follow(st, rep) = To(rep.pwm_lo)
  BY <1>1, <1>7, <1>11
<1> QED  BY <1>4, <1>8, <1>9, <1>10, <1>11

-----------------------------------------------------------------------------
(***************************************************************************)
(* The duty cycle and the commands.                                        *)
(***************************************************************************)

\* OffMeansOff, of a charge state.
OffIsOff(st) == st.time_on > 0 /\ st.timer <= 0 => st.targetI = 0

\* The bounds of the search lie in the period, or it has yet to begin.
BoundsIn(st) ==
  /\ st.lock_lo <= LockMax
  /\ st.locked => st.lock_hi <= LockMax

LEMMA CountingTypes ==
  ASSUME NEW st \in ChargeState, NEW rep \in Reply
  PROVE  /\ UDPlogUpdate(st, rep) \in ChargeState
         /\ OffIsOff(st) => OffIsOff(UDPlogUpdate(st, rep))
         /\ BoundsIn(st) => BoundsIn(UDPlogUpdate(st, rep))
         /\ UDPlogUpdate(st, rep).lock_hi = st.lock_hi
<1>1. /\ Counted(st) \in ChargeState
      /\ Counted(st).lock_hi = st.lock_hi /\ Counted(st).lock_lo = st.lock_lo
      /\ Counted(st).locked => st.locked
  <2>1. /\ st.timer - 1 \in Int /\ st.time_on \in Int /\ st.masterI \in Int
    BY DEF ChargeState
  <2> DEFINE Alike(u) == /\ u \in ChargeState
                         /\ u.lock_hi = st.lock_hi /\ u.lock_lo = st.lock_lo
                         /\ u.locked => st.locked
             t  == st.timer - 1
             u1 == [st EXCEPT !.timer = t]
             u2 == [st EXCEPT !.timer = 0, !.targetI = 0]
             u3 == [st EXCEPT !.timer = st.time_on]
             u4 == [st EXCEPT !.timer = st.time_on, !.targetI = st.masterI,
                              !.locked = FALSE]
  <2>2. t \in Int
    BY <2>1
  <2>3. Alike(u1) /\ Alike(u3)
    <3> HIDE DEF t
    <3> QED  BY <2>1, <2>2 DEF ChargeState
  <2>4. Alike(u2)
    <3> DEFINE zero == 0
    <3>1. zero \in Int /\ u2 = [st EXCEPT !.timer = zero, !.targetI = zero]
      OBVIOUS
    <3> HIDE DEF zero, u2
    <3> QED  BY <3>1 DEF ChargeState
  <2>5. Alike(u4)
    BY <2>1 DEF ChargeState
  <2>6. Counted(st) \in { u1, u2, u3, u4 }
    BY DEF Counted
  <2> HIDE DEF u1, u2, u3, u4
  <2> QED  BY <2>3, <2>4, <2>5, <2>6
<1>2. OffIsOff(st) => OffIsOff(Counted(st))
  BY DEF Counted, ChargeState, OffIsOff
<1>3. BoundsIn(st) => BoundsIn(Counted(st))
  BY <1>1 DEF BoundsIn
<1> QED  BY <1>1, <1>2, <1>3 DEF UDPlogUpdate

LEMMA CommandTypes ==
  ASSUME NEW st \in ChargeState, NEW cmd \in UDPcommand
  PROVE  /\ Obey(st, cmd) \in ChargeState
         /\ OffIsOff(Obey(st, cmd))
         /\ BoundsIn(st) => BoundsIn(Obey(st, cmd))
         /\ Obey(st, cmd).lock_hi \in { st.lock_hi, LockMax + 1 }
<1> DEFINE st1 == Retargeted(st, cmd.targetI * 1000)
<1>1. /\ cmd.targetI * 1000 \in Int
      /\ AtLeastZero(cmd.time_on) \in Nat /\ AtLeastZero(cmd.time_off) \in Nat
  BY DEF UDPcommand, AtLeastZero
<1>2. /\ st1 \in ChargeState
      /\ st1.lock_hi \in { st.lock_hi, LockMax + 1 }
      /\ BoundsIn(st) => BoundsIn(st1)
  <2> DEFINE t == cmd.targetI * 1000
             far == Distance(st.targetI, t) > Tolerance
  <2>1. t \in Int /\ far \in BOOLEAN
    BY <1>1
  <2>2. st1 = [st EXCEPT !.locked  = @ /\ ~far,
                         !.lock_hi = IF far THEN LockMax + 1 ELSE @,
                         !.lock_lo = IF far THEN 0 ELSE @,
                         !.targetI = t, !.masterI = t]
    BY DEF Retargeted
  <2> HIDE DEF t, far
  <2> DEFINE hi == IF far THEN LockMax + 1 ELSE st.lock_hi
             lo == IF far THEN 0 ELSE st.lock_lo
             lk == st.locked /\ ~far
  <2>3. /\ hi \in Word /\ hi \in { st.lock_hi, LockMax + 1 }
        /\ lo \in Word /\ lo \in { st.lock_lo, 0 }
        /\ lk \in BOOLEAN
        /\ lk => hi = st.lock_hi /\ st.locked
    BY <2>1, Periods DEF ChargeState
  <2>4. st1 = [st EXCEPT !.locked = lk, !.lock_hi = hi, !.lock_lo = lo,
                         !.targetI = t, !.masterI = t]
    BY <2>2 DEF ChargeState
  <2> HIDE DEF hi, lo, lk
  <2> DEFINE st0 == [st EXCEPT !.locked = lk, !.lock_hi = hi, !.lock_lo = lo]
  <2>5. /\ st0 \in ChargeState
        /\ st0.lock_hi = hi /\ st0.lock_lo = lo /\ st0.locked = lk
    BY <2>3 DEF ChargeState
  <2>6. st1 = [st0 EXCEPT !.targetI = t, !.masterI = t]
    BY <2>4 DEF ChargeState
  <2> HIDE DEF st0
  <2> DEFINE u == [st0 EXCEPT !.targetI = t, !.masterI = t]
  <2>7. /\ u \in ChargeState
        /\ u.lock_hi = hi /\ u.lock_lo = lo /\ u.locked = lk
    BY <2>1, <2>5 DEF ChargeState
  <2> HIDE DEF u
  <2>8. st1 = u
    BY <2>6 DEF u
  <2> QED  BY <2>3, <2>7, <2>8, Periods DEF BoundsIn
<1> HIDE DEF st1
<1>3. ASSUME NEW on \in Nat, NEW off \in Nat
      PROVE  /\ DutyCycle(st1, on, off) \in ChargeState
             /\ OffIsOff(DutyCycle(st1, on, off))
             /\ DutyCycle(st1, on, off).lock_hi = st1.lock_hi
             /\ BoundsIn(st1) => BoundsIn(DutyCycle(st1, on, off))
  <2> DEFINE d == DutyCycle(st1, on, off)
  <2>1. d \in ChargeState
    <3>1. on \in Int /\ off \in Int
      OBVIOUS
    <3> QED  BY <1>2, <3>1 DEF DutyCycle, ChargeState
  <2>2. /\ d.time_on = on /\ d.timer = on
        /\ d.lock_hi = st1.lock_hi /\ d.lock_lo = st1.lock_lo
        /\ d.locked = st1.locked
    BY <1>2 DEF DutyCycle, ChargeState
  <2> QED  BY <2>1, <2>2 DEF OffIsOff, BoundsIn
<1>4. \E on, off \in Nat : Obey(st, cmd) = DutyCycle(st1, on, off)
  BY <1>1 DEF Obey, st1
<1> QED  BY <1>2, <1>3, <1>4

-----------------------------------------------------------------------------
(***************************************************************************)
(* Types.  The driver counts its replies: while it waits it has some left. *)
(***************************************************************************)
Trying == pc = "sending" => seen < Retries

\* The turn from the sample to the request, in the terms of its parts.
TurnState == UDPlogUpdate(state, NextReply)
TurnNext  == IF TurnState.locked THEN Follow(TurnState, NextReply)
                                 ELSE Seek(TurnState, NextReply)
TurnRequest ==
  [ PWMen |-> IF TurnState.targetI > 0 THEN 1 ELSE 0, _led |-> Led(NextReply),
    pwm_lo |-> TurnNext.pwm_lo, pwm_t |-> LockMax ]

LEMMA SampleParts ==
  ASSUME Sample
  PROVE  /\ pc = "sample" /\ pc' = "sending" /\ newSecond' = FALSE
         /\ ReplyGet /\ Submit(TurnRequest)
         /\ state' = TurnNext.state
         /\ UNCHANGED <<board, commands>>
BY DEF Sample, TurnState, TurnNext, TurnRequest

LEMMA TurnTypes ==
  ASSUME TypeOK, Sample
  PROVE  /\ NextReply \in Reply
         /\ TurnState \in ChargeState
         /\ TurnNext.state \in ChargeState /\ TurnNext.pwm_lo \in Word
         /\ TurnRequest \in Request
<1>1. NextReply \in Reply
  BY SampleParts, LinkTypes DEF TypeOK
<1>2. TurnState \in ChargeState
  BY <1>1, CountingTypes DEF TurnState, TypeOK
<1>3. [TurnState EXCEPT !.targetI = 0] \in ChargeState
  BY <1>2 DEF ChargeState
<1>4. TurnNext.state \in ChargeState /\ TurnNext.pwm_lo \in Word
  BY <1>1, <1>2, <1>3, SeekTypes, FollowStays DEF TurnNext
<1>5. Led(NextReply) \in Bit
  BY <1>1, Periods DEF Led, Reply
<1>6. TurnRequest \in Request
  BY <1>4, <1>5, Periods DEF TurnRequest, Request
<1> QED  BY <1>1, <1>2, <1>4, <1>6

LEMMA ReportTypes ==
  ASSUME TypeOK, NEW m \in Measurements
  PROVE  Report(m) \in Reply /\ Report(m).pwm_lo = board.pwm_lo
<1>1. m \in [batRun : Bit, current : Int]
  BY ChargeAssumption
<1> QED  BY <1>1 DEF Report, Reply, Request, TypeOK

\* TypeOK.  The counter of failed replies needs Trying: a program that sends
\* again has a try left.
THEOREM Typing == Spec => [](TypeOK /\ Trying)
<1>1. Init => TypeOK /\ Trying
  <2> SUFFICES ASSUME Init PROVE TypeOK /\ Trying
    OBVIOUS
  <2>1. BAT3chargeState_Init \in ChargeState
    BY ChargeAssumption, Periods DEF BAT3chargeState_Init, ChargeState
  <2>2. [ PWMen |-> 0, _led |-> 0, pwm_lo |-> 0, pwm_t |-> 0 ] \in Request
    BY Periods DEF Request
  <2>3. LinkTypeOK(Request, Reply)
    BY <2>2, AvrLinkAssumption DEF Init, LinkTypeOK
  <2>4. board \in Request /\ 0 \in 0 .. MaxCommands
    BY ChargeAssumption DEF Init
  <2>5. pc = "command" /\ newSecond = TRUE /\ halted = FALSE
    BY DEF Init
  <2>6. shutdown_pending \in Int /\ battSeconds \in Nat /\ commands \in 0 .. MaxCommands
    BY <2>4 DEF Init
  <2>7. state \in ChargeState
    BY <2>1 DEF Init
  <2> QED  BY <2>3, <2>4, <2>5, <2>6, <2>7 DEF TypeOK, Trying
<1>2. TypeOK /\ Trying /\ [Next]_vars => (TypeOK /\ Trying)'
  <2> SUFFICES ASSUME TypeOK, Trying, [Next]_vars
               PROVE  TypeOK' /\ Trying'
    OBVIOUS
  <2>0. /\ LinkTypeOK(Request, Reply)
        /\ commands \in 0 .. MaxCommands /\ MaxCommands \in Nat
        /\ Retries \in Nat \ {0} /\ seen \in Nat
        /\ shutdown_pending \in Int /\ battSeconds \in Nat
        /\ Shutdelay \in Int /\ RetrySecs \in Nat \ {0}
    BY ChargeAssumption, AvrLinkAssumption DEF TypeOK, LinkTypeOK
  <2>1. CASE UDPcommandCheck
    <3>1. \/ /\ commands < MaxCommands /\ commands' = commands + 1
             /\ \E cmd \in UDPcommands : state' = Obey(state, cmd)
          \/ UNCHANGED <<state, commands>>
      BY <2>1 DEF UDPcommandCheck
    <3>2. state' \in ChargeState
      BY <3>1, CommandTypes, ChargeAssumption DEF TypeOK
    <3>3. commands' \in 0 .. MaxCommands
      BY <2>0, <3>1
    <3> QED  BY <2>1, <3>2, <3>3
               DEF UDPcommandCheck, TypeOK, Trying, past, linkVars, LinkTypeOK
  <2>2. CASE Sample
    <3>1. LinkTypeOK(Request, Reply)' /\ state' \in ChargeState /\ seen' = 0
      BY <2>0, <2>2, SampleParts, TurnTypes, LinkTypes DEF Submit
    <3>2. /\ shutdown_pending' \in Int /\ battSeconds' \in Nat
          /\ halted' \in BOOLEAN
      <4>1. /\ ShutdownCount(shutdown_pending, NextReply) \in Int
        BY <2>0 DEF ShutdownCount
      <4>2. halted \in BOOLEAN
        BY DEF TypeOK
      <4> DEFINE rep == NextReply
                 count == ShutdownCount(shutdown_pending, rep)
                 runs == newSecond /\ count = 0
      <4>3. /\ shutdown_pending' = IF ~newSecond THEN shutdown_pending
                                   ELSE IF runs THEN RetrySecs ELSE count
            /\ battSeconds' = IF rep.batRun = 0 /\ newSecond THEN 0
                              ELSE IF newSecond /\ battSeconds <= Shutdelay
                                   THEN battSeconds + 1 ELSE battSeconds
            /\ halted' = IF ~newSecond THEN halted
                         ELSE rep.batRun = 1 /\ (halted \/ runs)
        BY <2>2 DEF Sample
      <4> HIDE DEF count
      <4>4. shutdown_pending' \in Int
        BY <2>0, <4>1, <4>3 DEF count
      <4>5. battSeconds' \in Nat
        BY <2>0, <4>3
      <4>6. halted' \in BOOLEAN
        BY <4>2, <4>3, Zenon
      <4> QED  BY <4>4, <4>5, <4>6
    <3> QED  BY <2>0, <2>2, <3>1, <3>2, SampleParts DEF TypeOK, Trying
  <2>3. CASE AVRsendRequest
    <3>1. LinkTypeOK(Request, Reply)' /\ pc' \in {"command", "sending", "exited"}
          /\ (pc' = "sending" => seen' < Retries)
      <4>1. CASE Acknowledged
        <5>1. BAT3callback(request, NextReply) \in BOOLEAN
          BY DEF BAT3callback
        <5> QED  BY <2>0, <4>1, <5>1, LinkTypes DEF Acknowledged
      <4>2. CASE NotAcknowledged
        <5>1. BAT3callback(request, NextReply) \in BOOLEAN
          BY DEF BAT3callback
        <5>2. seen < Retries /\ seen' = seen + 1
          BY <4>2 DEF NotAcknowledged, Trying, Reject
        <5>3. LinkTypeOK(Request, Reply)'
          BY <2>0, <4>2, <5>1, <5>2, LinkTypes DEF NotAcknowledged
        <5> QED  BY <2>0, <4>2, <5>2, <5>3 DEF NotAcknowledged, GivesUp
      <4> QED  BY <2>3, <4>1, <4>2 DEF AVRsendRequest
    <3> QED  BY <2>3, <3>1 DEF AVRsendRequest, TypeOK, Trying, past
  <2>4. CASE Silence
    BY <2>0, <2>4, LinkTypes DEF Silence, TypeOK, Trying, past
  <2>5. CASE Exited \/ UNCHANGED vars
    BY <2>5 DEF Exited, vars, past, linkVars, TypeOK, Trying, LinkTypeOK
  <2>6. CASE Tick
    BY <2>6 DEF Tick, past, linkVars, TypeOK, Trying, LinkTypeOK
  <2>7. CASE BoardTakes
    <3>1. LinkTypeOK(Request, Reply)' /\ board' \in Request /\ UNCHANGED seen
      BY <2>0, <2>7, LinkTypes DEF BoardTakes, Taken
    <3> QED  BY <2>7, <3>1 DEF BoardTakes, TypeOK, Trying, past
  <2>8. CASE BoardReports
    <3>1. PICK m \in Measurements : Reported(Report(m))
      BY <2>8 DEF BoardReports
    <3>2. LinkTypeOK(Request, Reply)' /\ UNCHANGED seen
      BY <2>0, <3>1, ReportTypes, LinkTypes DEF Reported
    <3> QED  BY <2>8, <3>2 DEF BoardReports, TypeOK, Trying, past
  <2>9. CASE LoseRequest
    <3>1. LinkTypeOK(Request, Reply)' /\ UNCHANGED seen
      BY <2>0, <2>9, LinkTypes DEF LoseRequest, Lost
    <3> QED  BY <2>9, <3>1 DEF LoseRequest, TypeOK, Trying, past
  <2> QED  BY <2>1, <2>2, <2>3, <2>4, <2>5, <2>6, <2>7, <2>8, <2>9 DEF Next
<1> QED  BY <1>1, <1>2, PTL DEF Spec

-----------------------------------------------------------------------------
(***************************************************************************)
(* The shutdown.  ShutdownInTime relates two histories; what ties them is  *)
(* the count down, which the program keeps.                                *)
(***************************************************************************)
ShutdownInv ==
  Shutdelay > 0 =>
    \/ ~halted /\ battSeconds = 0 /\ shutdown_pending <= 0
    \/ /\ ~halted /\ battSeconds \in 1 .. Shutdelay
       /\ shutdown_pending = Shutdelay + 1 - battSeconds
    \/ halted /\ battSeconds = Shutdelay + 1


(***************************************************************************)
(* ShutdownInTime: when the samples have shown a power failure for more    *)
(* than the seconds asked for the shutdown has been run, and not before.   *)
(***************************************************************************)
THEOREM Shutdown == Spec => []ShutdownInTime
<1>1. Init => ShutdownInv
  BY DEF Init, ShutdownInv
<1>2. TypeOK /\ ShutdownInv /\ [Next]_vars => ShutdownInv'
  <2> SUFFICES ASSUME TypeOK, ShutdownInv, [Next]_vars, Shutdelay > 0
               PROVE  ShutdownInv'
    BY DEF ShutdownInv
  <2>0. /\ shutdown_pending \in Int /\ battSeconds \in Nat /\ halted \in BOOLEAN
        /\ Shutdelay \in Nat /\ RetrySecs \in Nat \ {0}
    BY ChargeAssumption DEF TypeOK
  <2>1. CASE Sample
    <3> DEFINE rep == NextReply
               count == ShutdownCount(shutdown_pending, rep)
               runs == newSecond /\ count = 0
    <3>1. /\ shutdown_pending' = IF ~newSecond THEN shutdown_pending
                                 ELSE IF runs THEN RetrySecs ELSE count
          /\ battSeconds' = IF rep.batRun = 0 /\ newSecond THEN 0
                            ELSE IF newSecond /\ battSeconds <= Shutdelay
                                 THEN battSeconds + 1 ELSE battSeconds
          /\ halted' = IF ~newSecond THEN halted
                       ELSE rep.batRun = 1 /\ (halted \/ runs)
      BY <2>1 DEF Sample
    <3>2. newSecond \in BOOLEAN /\ rep.batRun \in {0, 1}
      BY <2>1, TurnTypes DEF TypeOK, Reply, Bit
    <3>3. count = IF rep.batRun = 0 THEN -1
                  ELSE IF shutdown_pending > 0 THEN shutdown_pending - 1
                  ELSE Shutdelay
      BY <2>0 DEF ShutdownCount
    <3> HIDE DEF count
    <3>4. CASE ~newSecond
      BY <3>1, <3>4 DEF ShutdownInv
    <3>5. CASE newSecond /\ rep.batRun = 0
      <4>1. count = -1
        BY <3>3, <3>5
      <4>2. battSeconds' = 0 /\ shutdown_pending' = -1
        BY <3>1, <3>5, <4>1
      <4>3. ~halted'
        <5>1. rep.batRun # 1
          BY <3>5
        <5> QED  BY <3>1, <3>5, <5>1, Zenon
      <4> QED  BY <4>2, <4>3 DEF ShutdownInv
    <3>6. CASE newSecond /\ rep.batRun = 1
      <4>1. count = IF shutdown_pending > 0 THEN shutdown_pending - 1 ELSE Shutdelay
        BY <3>3, <3>6
      <4>2. CASE ~halted /\ battSeconds = 0 /\ shutdown_pending <= 0
        <5>1. count = Shutdelay /\ count # 0 /\ battSeconds' = 1
          BY <2>0, <3>1, <3>6, <4>1, <4>2
        <5>2. ~halted' /\ shutdown_pending' = Shutdelay
          BY <3>1, <3>6, <4>2, <5>1
        <5> QED  BY <2>0, <5>1, <5>2 DEF ShutdownInv
      <4>3. CASE /\ ~halted /\ battSeconds \in 1 .. Shutdelay
                 /\ shutdown_pending = Shutdelay + 1 - battSeconds
        <5>1. /\ count = Shutdelay - battSeconds /\ battSeconds' = battSeconds + 1
              /\ count = 0 <=> battSeconds = Shutdelay
          BY <2>0, <3>1, <3>6, <4>1, <4>3
        <5>2. CASE count = 0
          <6>1. halted' /\ battSeconds' = Shutdelay + 1
            BY <3>1, <3>6, <5>1, <5>2
          <6> QED  BY <6>1 DEF ShutdownInv
        <5>3. CASE count # 0
          <6>1. ~halted' /\ shutdown_pending' = count
            BY <3>1, <3>6, <4>3, <5>3
          <6>2. battSeconds' \in 1 .. Shutdelay
            BY <2>0, <4>3, <5>1, <5>3
          <6> QED  BY <2>0, <4>3, <5>1, <6>1, <6>2 DEF ShutdownInv
        <5> QED  BY <5>2, <5>3
      <4>4. CASE halted /\ battSeconds = Shutdelay + 1
        <5>1. halted'
          BY <3>1, <3>6, <4>4, Zenon
        <5>2. battSeconds' = Shutdelay + 1
          BY <2>0, <3>1, <3>6, <4>4
        <5> QED  BY <5>1, <5>2 DEF ShutdownInv
      <4> QED  BY <4>2, <4>3, <4>4 DEF ShutdownInv
    <3> QED  BY <3>2, <3>4, <3>5, <3>6
  <2>2. CASE UNCHANGED <<shutdown_pending, past>>
    BY <2>2 DEF ShutdownInv, past
  <2> QED  BY <2>1, <2>2 DEF Next, vars, UDPcommandCheck, AVRsendRequest, Silence,
              Exited, Tick, BoardTakes, BoardReports, LoseRequest
<1>3. TypeOK /\ ShutdownInv => ShutdownInTime
  BY ChargeAssumption DEF TypeOK, ShutdownInv, ShutdownInTime
<1> QED  BY <1>1, <1>2, <1>3, Typing, PTL DEF Spec

-----------------------------------------------------------------------------
(***************************************************************************)
(* The duty cycle.  OffMeansOff: in the off part nothing is charged, also  *)
(* after a command, and whatever the search does.  It is inductive.        *)
(***************************************************************************)
THEOREM OffPart == Spec => []OffMeansOff
<1>1. Init => OffMeansOff
  BY ChargeAssumption DEF Init, BAT3chargeState_Init, OffMeansOff
<1>2. TypeOK /\ OffMeansOff /\ [Next]_vars => OffMeansOff'
  <2> SUFFICES ASSUME TypeOK, OffIsOff(state), [Next]_vars
               PROVE  OffIsOff(state')
    BY DEF OffMeansOff, OffIsOff
  <2>1. CASE Sample
    <3>1. OffIsOff(TurnState) /\ TurnState \in ChargeState /\ NextReply \in Reply
      BY <2>1, TurnTypes, CountingTypes DEF TurnState, TypeOK
    <3>2. \/ state' \in { TurnState, [TurnState EXCEPT !.targetI = 0] }
          \/ state' = Seek(TurnState, NextReply).state
      BY <2>1, <3>1, SampleParts, FollowStays DEF TurnNext
    <3>3. OffIsOff([TurnState EXCEPT !.targetI = 0])
      BY <3>1 DEF OffIsOff, ChargeState
    <3>4. OffIsOff(Seek(TurnState, NextReply).state)
      BY <3>1, SeekKeeps DEF OffIsOff
    <3> QED  BY <3>1, <3>2, <3>3, <3>4
  <2>2. CASE UDPcommandCheck
    BY <2>2, CommandTypes, ChargeAssumption DEF UDPcommandCheck, TypeOK
  <2>3. CASE UNCHANGED state
    BY <2>3
  <2> QED  BY <2>1, <2>2, <2>3 DEF Next, vars, AVRsendRequest, Silence, Exited,
              Tick, BoardTakes, BoardReports, LoseRequest
<1> QED  BY <1>1, <1>2, Typing, PTL DEF Spec

-----------------------------------------------------------------------------
(***************************************************************************)
(* The low time.  At the start the board may be set to anything, and until *)
(* the first request has arrived it says so.  What the program relies on:  *)
(* in the order in which the replies were sent, once one shows a low time  *)
(* within the period, all that follow do; and a search whose bounds are in *)
(* use, or that has ended, has had a request acknowledged.                 *)
(***************************************************************************)
Within(packet) == packet.pwm_lo <= LockMax

LowInv ==
  /\ BoundsIn(state)
  /\ pc = "sending" => request.pwm_lo \in 0 .. LockMax
  /\ \A i \in 1 .. Len(toBoard) : Within(toBoard[i])
  /\ \A i, j \in 1 .. Len(fromBoard) :
       i < j /\ Within(fromBoard[i]) => Within(fromBoard[j])
  /\ \A i \in 1 .. Len(fromBoard) : Within(fromBoard[i]) => Within(board)
  /\ pc \in {"command", "sample"} /\ state.lock_hi <= LockMax =>
       /\ Within(board)
       /\ \A i \in 1 .. Len(fromBoard) : Within(fromBoard[i])

\* What happens to the replies that wait when one is read.
LEMMA OneLess ==
  ASSUME NEW Rp, fromBoard \in Seq(Rp), ReplyGet
  PROVE  /\ Len(fromBoard) \in Nat \ {0} /\ NextReply = fromBoard[1]
         /\ Len(fromBoard') = Len(fromBoard) - 1
         /\ \A i \in 1 .. Len(fromBoard') :
              fromBoard'[i] = fromBoard[i + 1] /\ i + 1 \in 1 .. Len(fromBoard)
BY DEF ReplyGet, NextReply

\* The order of the replies is kept when one is read.
LEMMA ReadingKeepsOrder ==
  ASSUME TypeOK, LowInv, ReplyGet, UNCHANGED board
  PROVE  /\ \A i, j \in 1 .. Len(fromBoard') :
              i < j /\ Within(fromBoard'[i]) => Within(fromBoard'[j])
         /\ \A i \in 1 .. Len(fromBoard') : Within(fromBoard'[i]) => Within(board')
         /\ Within(NextReply) =>
              Within(board') /\ \A i \in 1 .. Len(fromBoard') : Within(fromBoard'[i])
<1>1. fromBoard \in Seq(Reply)
  BY DEF TypeOK, LinkTypeOK
<1>2. /\ Len(fromBoard) \in Nat \ {0} /\ NextReply = fromBoard[1]
      /\ Len(fromBoard') = Len(fromBoard) - 1
      /\ \A i \in 1 .. Len(fromBoard') :
           fromBoard'[i] = fromBoard[i + 1] /\ i + 1 \in 1 .. Len(fromBoard)
  BY <1>1, OneLess
<1>3. /\ \A i, j \in 1 .. Len(fromBoard) :
           i < j /\ Within(fromBoard[i]) => Within(fromBoard[j])
      /\ \A i \in 1 .. Len(fromBoard) : Within(fromBoard[i]) => Within(board)
  BY DEF LowInv
<1>4. board' = board
  OBVIOUS
<1>5. \A i, j \in 1 .. Len(fromBoard') : i < j => i + 1 < j + 1
  BY <1>2
<1>6. 1 \in 1 .. Len(fromBoard) /\ \A i \in 1 .. Len(fromBoard') : 1 < i + 1
  BY <1>2
<1>7. \A i, j \in 1 .. Len(fromBoard') :
        i < j /\ Within(fromBoard'[i]) => Within(fromBoard'[j])
  BY <1>2, <1>3, <1>5
<1>8. \A i \in 1 .. Len(fromBoard') : Within(fromBoard'[i]) => Within(board')
  BY <1>2, <1>3, <1>4
<1>9. Within(NextReply) =>
        Within(board') /\ \A i \in 1 .. Len(fromBoard') : Within(fromBoard'[i])
  BY <1>2, <1>3, <1>4, <1>6
<1> QED  BY <1>7, <1>8, <1>9

(***************************************************************************)
(* LowTimeWithinPeriod: every low time that is asked for lies in the       *)
(* period that is asked for.                                               *)
(***************************************************************************)
THEOREM LowTime == Spec => []LowTimeWithinPeriod
<1>1. Init => LowInv
  BY Periods DEF Init, LowInv, BoundsIn, BAT3chargeState_Init
<1>2. TypeOK /\ LowInv /\ [Next]_vars => LowInv'
  <2> SUFFICES ASSUME TypeOK, LowInv, [Next]_vars
               PROVE  LowInv'
    OBVIOUS
  <2>0. /\ state \in ChargeState /\ LockMax \in Nat
        /\ toBoard \in Seq(Request) /\ fromBoard \in Seq(Reply)
        /\ board \in Request /\ request \in Request
    BY Periods DEF TypeOK, LinkTypeOK
  <2>1. CASE UDPcommandCheck
    <3>1. /\ BoundsIn(state')
          /\ state'.lock_hi <= LockMax => state.lock_hi <= LockMax
      <4>1. CASE UNCHANGED state
        BY <4>1 DEF LowInv
      <4>2. CASE \E cmd \in UDPcommands : state' = Obey(state, cmd)
        BY <2>0, <4>2, CommandTypes, ChargeAssumption DEF LowInv
      <4> QED  BY <2>1, <4>1, <4>2 DEF UDPcommandCheck
    <3> QED  BY <2>1, <3>1 DEF UDPcommandCheck, linkVars, LowInv, Within
  <2>2. CASE Sample
    <3>1. /\ NextReply \in Reply /\ TurnState \in ChargeState
          /\ state' = TurnNext.state
          /\ ReplyGet /\ Submit(TurnRequest) /\ UNCHANGED board
          /\ pc = "sample" /\ pc' = "sending"
      BY <2>2, TurnTypes, SampleParts
    <3>2. BoundsIn(TurnState) /\ TurnState.lock_hi = state.lock_hi
      BY <2>0, <3>1, CountingTypes DEF LowInv, TurnState
    <3>3. TurnState.lock_hi <= LockMax => Within(NextReply)
      BY <2>0, <3>1, <3>2, OneLess DEF LowInv
    <3>4. TurnNext.pwm_lo \in 0 .. LockMax /\ BoundsIn(TurnNext.state)
      <4>1. CASE TurnState.locked
        <5>1. TurnState.lock_hi <= LockMax /\ NextReply.pwm_lo <= LockMax
          BY <3>2, <3>3, <4>1 DEF BoundsIn, Within
        <5>2. TurnNext = Follow(TurnState, NextReply)
          BY <4>1 DEF TurnNext
        <5>3. /\ TurnNext.state \in { TurnState, [TurnState EXCEPT !.targetI = 0] }
              /\ TurnNext.pwm_lo \in 0 .. LockMax
          BY <3>1, <5>1, <5>2, FollowStays
        <5>4. /\ [TurnState EXCEPT !.targetI = 0].lock_hi = TurnState.lock_hi
              /\ [TurnState EXCEPT !.targetI = 0].lock_lo = TurnState.lock_lo
          BY <3>1 DEF ChargeState
        <5> QED  BY <3>2, <5>1, <5>3, <5>4 DEF BoundsIn
      <4>2. CASE ~TurnState.locked
        <5>1. TurnNext = Seek(TurnState, NextReply)
          BY <4>2 DEF TurnNext
        <5> QED  BY <3>1, <3>2, <3>3, <5>1, SeekStays DEF BoundsIn, Within
      <4> QED  BY <4>1, <4>2
    <3>5. /\ request' = TurnRequest /\ toBoard' = Append(toBoard, TurnRequest)
          /\ TurnRequest.pwm_lo \in 0 .. LockMax
      BY <3>1, <3>4 DEF Submit, TurnRequest
    <3>6. \A i \in 1 .. Len(toBoard') : Within(toBoard'[i])
      <4>1. Within(TurnRequest)
        BY <2>0, <3>5 DEF Within
      <4>2. \A i \in 1 .. Len(toBoard') :
              toBoard'[i] = TurnRequest \/ (i \in 1 .. Len(toBoard) /\ toBoard'[i] = toBoard[i])
        BY <2>0, <3>5
      <4> QED  BY <4>1, <4>2 DEF LowInv
    <3>7. pc' \notin {"command", "sample"}
      BY <3>1
    <3> QED  BY <3>1, <3>4, <3>5, <3>6, <3>7, ReadingKeepsOrder DEF LowInv
  <2>3. CASE Acknowledged /\ UNCHANGED <<state, board>>
    <3>1. /\ pc = "sending" /\ pc' = "command" /\ ReplyGet
          /\ BAT3callback(request, NextReply) /\ UNCHANGED <<request, toBoard>>
      BY <2>3 DEF Acknowledged, Accept
    <3>2. Within(NextReply)
      BY <2>0, <3>1 DEF LowInv, Within, BAT3callback
    <3> QED  BY <2>3, <3>1, <3>2, ReadingKeepsOrder DEF LowInv
  <2>4. CASE NotAcknowledged /\ UNCHANGED <<state, board>>
    <3>1. /\ pc = "sending" /\ pc' \in {"sending", "exited"} /\ ReplyGet
          /\ UNCHANGED request
          /\ toBoard' \in { toBoard, Append(toBoard, request) }
      BY <2>4 DEF NotAcknowledged, Reject
    <3>2. \A i \in 1 .. Len(toBoard') : Within(toBoard'[i])
      <4>1. Within(request)
        BY <2>0, <3>1 DEF Within, LowInv
      <4>2. \A i \in 1 .. Len(toBoard') :
              toBoard'[i] = request \/ (i \in 1 .. Len(toBoard) /\ toBoard'[i] = toBoard[i])
        BY <2>0, <3>1
      <4> QED  BY <4>1, <4>2 DEF LowInv
    <3> QED  BY <2>4, <3>1, <3>2, ReadingKeepsOrder DEF LowInv
  <2>5. CASE Silence
    BY <2>5 DEF Silence, Unanswered, LowInv
  <2>6. CASE Exited \/ Tick \/ UNCHANGED vars
    BY <2>6 DEF Exited, Tick, vars, linkVars, LowInv
  <2>7. CASE BoardTakes
    <3>1. /\ UNCHANGED <<pc, state, request, fromBoard>>
          /\ toBoard # <<>> /\ toBoard' = Tail(toBoard) /\ board' = toBoard[1]
      BY <2>7 DEF BoardTakes, Taken, NextRequest
    <3>2. Within(board')
      BY <2>0, <3>1 DEF LowInv
    <3>3. \A i \in 1 .. Len(toBoard') : Within(toBoard'[i])
      <4>1. \A i \in 1 .. Len(toBoard') :
              i + 1 \in 1 .. Len(toBoard) /\ toBoard'[i] = toBoard[i + 1]
        BY <2>0, <3>1
      <4> QED  BY <4>1 DEF LowInv
    <3> QED  BY <3>1, <3>2, <3>3 DEF LowInv
  <2>8. CASE BoardReports
    <3>1. PICK m \in Measurements : Reported(Report(m))
      BY <2>8 DEF BoardReports
    <3>2. /\ fromBoard' = Append(fromBoard, Report(m)) /\ Report(m) \in Reply
          /\ Within(Report(m)) <=> Within(board)
          /\ UNCHANGED <<pc, state, request, toBoard, board>>
      BY <2>8, <3>1, ReportTypes DEF BoardReports, Reported, Within
    <3>3. \A i \in 1 .. Len(fromBoard') :
            \/ i \in 1 .. Len(fromBoard) /\ fromBoard'[i] = fromBoard[i]
            \/ i = Len(fromBoard') /\ fromBoard'[i] = Report(m)
      BY <2>0, <3>2
    <3>4. \A i, j \in 1 .. Len(fromBoard') : i < j => i # Len(fromBoard')
      BY <2>0, <3>2
    <3>5. \A i, j \in 1 .. Len(fromBoard') :
            i < j /\ Within(fromBoard'[i]) => Within(fromBoard'[j])
      BY <3>2, <3>3, <3>4 DEF LowInv
    <3>6. \A i \in 1 .. Len(fromBoard') : Within(fromBoard'[i]) => Within(board')
      BY <3>2, <3>3 DEF LowInv
    <3>7. pc' \in {"command", "sample"} /\ state'.lock_hi <= LockMax =>
            Within(board') /\ \A i \in 1 .. Len(fromBoard') : Within(fromBoard'[i])
      BY <3>2, <3>3 DEF LowInv
    <3> QED  BY <3>2, <3>5, <3>6, <3>7 DEF LowInv
  <2>9. CASE LoseRequest
    <3>1. /\ UNCHANGED <<pc, state, request, fromBoard, board>>
          /\ toBoard # <<>> /\ toBoard' = Tail(toBoard)
      BY <2>9 DEF LoseRequest, Lost
    <3>2. \A i \in 1 .. Len(toBoard') :
            i + 1 \in 1 .. Len(toBoard) /\ toBoard'[i] = toBoard[i + 1]
      BY <2>0, <3>1
    <3> QED  BY <3>1, <3>2 DEF LowInv
  <2> QED  BY <2>1, <2>2, <2>3, <2>4, <2>5, <2>6, <2>7, <2>8, <2>9
              DEF Next, AVRsendRequest
<1>3. LowInv => LowTimeWithinPeriod
  BY DEF LowInv, LowTimeWithinPeriod
<1> QED  BY <1>1, <1>2, <1>3, Typing, PTL DEF Spec
=============================================================================
