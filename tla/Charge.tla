------------------------------- MODULE Charge -------------------------------
(***************************************************************************)
(* Charging by the bat3 utility, option --charge: BAT3BatteryCharge and    *)
(* what it calls (avr/bat3.c), over the request/reply driver of AvrLink.   *)
(* The program finds the PWM low time for a current by                     *)
(* binary search, then follows it step by step; it charges in a duty       *)
(* cycle, obeys UDP commands, and shuts the system down when a power       *)
(* failure lasts.                                                          *)
(*                                                                         *)
(* Of a packet the module keeps what a turn changes or looks at.  PWM1en   *)
(* and PWM2en are always set together (PWMen); what is echoed as it was is *)
(* left out, and so are the log packets and the commands about them.  The  *)
(* measured current is what battI makes of adc7.                           *)
(***************************************************************************)
EXTENDS Convert, AvrLink

CONSTANTS
  LockMax,      \* state.lock_max, 500
  RetrySecs,    \* 15: when a shutdown is tried again
  Target0, On0, Off0, Shutdelay,   \* options --charge, --on, --off, --shutdown
  UDPcommands,  \* what may be received: [command, targetI, time_on, time_off]
  Boards,       \* what the board may be set to at the start
  Measurements, \* what the board may measure: [batRun, current]
  MaxCommands   \* bound: commands that arrive

Request == [ PWMen : Bit, _led : Bit, pwm_lo : Word, pwm_t : Word ]
Reply == [ PWMen : Bit, _led : Bit, pwm_lo : Word, pwm_t : Word,
           batRun : Bit, current : Int ]
UDPcommand == [ command : {3, 4}, targetI : Int, time_on : Int, time_off : Int ]

ASSUME ChargeAssumption ==
  /\ LockMax \in 1 .. MaxWord - 1
  /\ RetrySecs \in Nat \ {0}
  /\ Target0 \in Nat /\ On0 \in Nat /\ Off0 \in Nat /\ Shutdelay \in Int
  /\ UDPcommands \subseteq UDPcommand
  /\ Boards \subseteq Request
  /\ Measurements \subseteq [batRun : Bit, current : Int]
  /\ MaxCommands \in Nat

VARIABLES
  pc,          \* where BAT3BatteryCharge is, "exited" after exit(3)
  state,       \* struct BAT3chargeState, as far as it decides anything
  shutdown_pending,
  newSecond,   \* time() has changed since the last turn
  board,       \* what the board is set to
  commands,    \* bound: commands received so far
  (*-----------------------------------------------------------------------*)
  battSeconds, \* history: for how many seconds the samples say "on batteries"
  halted       \* history: the shutdown was run in this power failure

past == <<battSeconds, halted>>
vars == <<pc, state, shutdown_pending, newSecond, board, commands, past, linkVars>>

ChargeState ==
  [ targetI : Int, masterI : Int, time_on : Int, time_off : Int, timer : Int,
    locked : BOOLEAN, lock_hi : Word, lock_lo : Word ]

TypeOK ==
  /\ pc \in {"command", "sample", "sending", "exited"}
  /\ state \in ChargeState
  /\ shutdown_pending \in Int
  /\ newSecond \in BOOLEAN
  /\ LinkTypeOK(Request, Reply)
  /\ board \in Request
  /\ commands \in 0 .. MaxCommands
  /\ battSeconds \in Nat /\ halted \in BOOLEAN

-----------------------------------------------------------------------------
BAT3chargeState_Init ==
  [ targetI |-> Target0, masterI |-> Target0, time_on |-> On0,
    time_off |-> Off0, timer |-> On0, locked |-> FALSE,
    lock_hi |-> LockMax + 1, lock_lo |-> 0 ]

Init ==
  /\ pc = "command"
  /\ state = BAT3chargeState_Init
  /\ shutdown_pending = -1 /\ newSecond = TRUE
  /\ board \in Boards
  /\ request = [ PWMen |-> 0, _led |-> 0, pwm_lo |-> 0, pwm_t |-> 0 ]
  /\ seen = 0
  /\ toBoard = <<>> /\ fromBoard = <<>>
  /\ commands = 0 /\ faults = 0
  /\ battSeconds = 0 /\ halted = FALSE

(***************************************************************************)
(* BAT3UDPcommandCheck: a new current starts the search again if it is     *)
(* more than 3 mA off the present one; command 3 sets no duty cycle,       *)
(* command 4 sets one.                                                     *)
(***************************************************************************)
Tolerance == 3000
Distance(a, b) == IF a >= b THEN a - b ELSE b - a
AtLeastZero(n) == IF n < 0 THEN 0 ELSE n

Retargeted(st, target) ==
  LET far == Distance(st.targetI, target) > Tolerance
  IN  [st EXCEPT !.locked  = @ /\ ~far,
                 !.lock_hi = IF far THEN LockMax + 1 ELSE @,
                 !.lock_lo = IF far THEN 0 ELSE @,
                 !.targetI = target, !.masterI = target]

DutyCycle(st, on, off) ==
  [st EXCEPT !.time_on = on, !.time_off = off, !.timer = on]

\* Faulty: a new duty cycle does not start at once.
Obey_later(st, cmd) ==
  LET st1 == Retargeted(st, cmd.targetI * 1000)
  IN  [st1 EXCEPT !.time_on = AtLeastZero(cmd.time_on),
                  !.time_off = AtLeastZero(cmd.time_off)]

Obey(st, cmd) ==
  LET st1 == Retargeted(st, cmd.targetI * 1000)
  IN  IF cmd.command = 3 THEN DutyCycle(st1, 1, 0)
      ELSE DutyCycle(st1, AtLeastZero(cmd.time_on), AtLeastZero(cmd.time_off))

UDPcommandCheck ==
  /\ pc = "command"
  /\ \/ /\ commands < MaxCommands
        /\ \E cmd \in UDPcommands : state' = Obey(state, cmd)
        /\ commands' = commands + 1
     \/ UNCHANGED <<state, commands>>
  /\ pc' = "sample"
  /\ UNCHANGED <<shutdown_pending, newSecond, board, past, linkVars>>

-----------------------------------------------------------------------------
(***************************************************************************)
(* The turn of the loop, from the sample to the request.                   *)
(* BAT3requestInitFromReply: blinks while charging, dark on batteries.     *)
(***************************************************************************)
Led(rep) ==
  IF rep.batRun = 1 THEN 1 ELSE IF rep.PWMen = 1 THEN 1 - rep._led ELSE 0

\* BAT3UDPlogUpdate: the duty cycle, once a second on line power.
Counted(st) ==
  LET timer == st.timer - 1
  IN  IF st.timer > 0
      THEN IF timer > 0 THEN [st EXCEPT !.timer = timer]
           ELSE IF st.time_off > 0 THEN [st EXCEPT !.timer = 0, !.targetI = 0]
           ELSE [st EXCEPT !.timer = st.time_on]
      ELSE IF timer > -st.time_off THEN [st EXCEPT !.timer = timer]
           ELSE IF st.time_on > 0
           THEN [st EXCEPT !.timer = st.time_on, !.targetI = st.masterI,
                           !.locked = FALSE]
           ELSE [st EXCEPT !.timer = st.time_on]

UDPlogUpdate(st, rep) ==
  IF newSecond /\ rep.batRun = 0 THEN Counted(st) ELSE st

\* Faulty: a power failure that ends leaves the count where it is.
ShutdownCount_kept(pending, rep) ==
  IF rep.batRun = 0 \/ Shutdelay <= 0 THEN pending
  ELSE IF pending > 0 THEN pending - 1 ELSE Shutdelay

\* The count down to the shutdown, once a second; 0 means now.
ShutdownCount(pending, rep) ==
  IF rep.batRun = 0 THEN -1
  ELSE IF Shutdelay <= 0 THEN pending
  ELSE IF pending > 0 THEN pending - 1 ELSE Shutdelay

(***************************************************************************)
(* LOCKED: one step up or down.  A current that cannot be reached switches *)
(* the charge off.                                                         *)
(***************************************************************************)
Follow(st, rep) ==
  LET charging == rep.batRun = 0 /\ st.targetI > 0
      over     == charging /\ rep.current - st.targetI > Tolerance
      under    == charging /\ rep.current - st.targetI < -Tolerance
      To(pwm_lo) == [ state |-> st, pwm_lo |-> pwm_lo ]
      GiveUp   == [ state |-> [st EXCEPT !.targetI = 0], pwm_lo |-> rep.pwm_lo ]
  IN  CASE over /\ rep.pwm_lo < LockMax  -> To(rep.pwm_lo + 1)
        [] over /\ rep.pwm_lo >= LockMax -> GiveUp
        [] under /\ rep.pwm_lo > 0       -> To(rep.pwm_lo - 1)
        [] under /\ rep.pwm_lo = 0       -> GiveUp
        [] ~over /\ ~under               -> To(rep.pwm_lo)

\* Faulty: waits for the bounds to meet.
Found_late(lo, hi) == hi - lo < 1

Found(lo, hi) == hi - lo < 2

(***************************************************************************)
(* SEEKING: the low time the board reports becomes a bound, the middle of  *)
(* the bounds the next low time.  The first reading is not used.           *)
(***************************************************************************)
Seek(st, rep) ==
  LET first == st.lock_hi > LockMax
      over  == rep.current > st.targetI
      lo == IF ~first /\ over THEN rep.pwm_lo ELSE st.lock_lo
      hi == IF first THEN LockMax ELSE IF over THEN st.lock_hi ELSE rep.pwm_lo
  IN  [ state  |-> [st EXCEPT !.lock_lo = lo, !.lock_hi = hi,
                              !.locked = Found(lo, hi)],
        pwm_lo |-> (lo + TruncDiv(hi - lo, 2)) % (MaxWord + 1) ]

Sample ==
  /\ pc = "sample"
  /\ ReplyGet
  /\ LET rep  == NextReply
         st   == UDPlogUpdate(state, rep)
         next == IF st.locked THEN Follow(st, rep) ELSE Seek(st, rep)
         count == ShutdownCount(shutdown_pending, rep)
         runs  == newSecond /\ count = 0
     IN  /\ state' = next.state
         /\ Submit([ PWMen |-> IF st.targetI > 0 THEN 1 ELSE 0,
                     _led |-> Led(rep), pwm_lo |-> next.pwm_lo,
                     pwm_t |-> LockMax ])
         /\ shutdown_pending' = IF ~newSecond THEN shutdown_pending
                                ELSE IF runs THEN RetrySecs ELSE count
         /\ battSeconds' = IF rep.batRun = 0 /\ newSecond THEN 0
                           ELSE IF newSecond /\ battSeconds <= Shutdelay
                                THEN battSeconds + 1 ELSE battSeconds
         /\ halted' = IF ~newSecond THEN halted
                      ELSE rep.batRun = 1 /\ (halted \/ runs)
  /\ newSecond' = FALSE /\ pc' = "sending"
  /\ UNCHANGED <<board, commands>>

-----------------------------------------------------------------------------
(***************************************************************************)
(* AVRsendRequest until BAT3callback is satisfied.                         *)
(***************************************************************************)
BAT3callback(req, rep) ==
  /\ req.PWMen = rep.PWMen /\ req._led = rep._led
  /\ req.pwm_lo = rep.pwm_lo /\ req.pwm_t = rep.pwm_t

\* Faulty: any reply will do.
Acknowledged_any ==
  /\ pc = "sending" /\ pc' = "command"
  /\ Accept(TRUE)

Acknowledged ==
  /\ pc = "sending" /\ pc' = "command"
  /\ Accept(BAT3callback(request, NextReply))

NotAcknowledged ==
  /\ pc = "sending"
  /\ Reject(BAT3callback(request, NextReply))
  /\ pc' = IF GivesUp(seen + 1) THEN "exited" ELSE "sending"

AVRsendRequest ==
  /\ Acknowledged \/ NotAcknowledged
  /\ UNCHANGED <<state, shutdown_pending, newSecond, board, commands, past>>

Silence ==
  /\ pc \in {"sample", "sending"} /\ pc' = "exited"
  /\ Unanswered
  /\ UNCHANGED <<state, shutdown_pending, newSecond, board, commands, past>>

Exited == pc = "exited" /\ UNCHANGED vars

-----------------------------------------------------------------------------
(***************************************************************************)
(* The clock, the board and the line.                                      *)
(***************************************************************************)
Tick ==
  /\ ~newSecond /\ newSecond' = TRUE
  /\ UNCHANGED <<pc, state, shutdown_pending, board, commands, past, linkVars>>

BoardTakes ==
  /\ Taken /\ board' = NextRequest
  /\ UNCHANGED <<pc, state, shutdown_pending, newSecond, commands, past>>

Report(m) ==
  [ PWMen |-> board.PWMen, _led |-> board._led, pwm_lo |-> board.pwm_lo,
    pwm_t |-> board.pwm_t, batRun |-> m.batRun, current |-> m.current ]

BoardReports ==
  /\ \E m \in Measurements : Reported(Report(m))
  /\ UNCHANGED <<pc, state, shutdown_pending, newSecond, board, commands, past>>

LoseRequest ==
  /\ Lost
  /\ UNCHANGED <<pc, state, shutdown_pending, newSecond, board, commands, past>>

Turn == UDPcommandCheck \/ Sample \/ AVRsendRequest

Next ==
  \/ UDPcommandCheck \/ Sample \/ AVRsendRequest \/ Silence \/ Exited
  \/ Tick
  \/ BoardTakes \/ BoardReports \/ LoseRequest

Spec == Init /\ [][Next]_vars

(***************************************************************************)
(* Fairness: the program waits for nothing but replies, the board takes    *)
(* what reaches it and reports periodically.                               *)
(***************************************************************************)
FairSpec ==
  Spec /\ WF_vars(Turn) /\ WF_vars(BoardTakes) /\ WF_vars(BoardReports)

-----------------------------------------------------------------------------
(***************************************************************************)
(* Whatever the board reported at first, and whatever it measures, the     *)
(* program asks for a low time within the period it asks for.  The search  *)
(* takes its bounds from samples, so it relies on AVRsendRequest: the next *)
(* sample must be younger than the last request.                           *)
(***************************************************************************)
LowTimeWithinPeriod == pc = "sending" => request.pwm_lo \in 0 .. LockMax

(***************************************************************************)
(* "SEEKING - trying to find the correct PWM value for the current we      *)
(* want": while charging is continuous, the search ends, whatever the      *)
(* measurements say, after commands, pauses, power failures and lost       *)
(* packets.  Of a duty cycle nothing is claimed: "time on should be long   *)
(* enough to lock or we won't!", and a search that the off part finds      *)
(* under way goes on against a target of 0 (see the README).               *)
(***************************************************************************)
SearchEnds == []<>(state.locked \/ state.time_off > 0 \/ pc = "exited")

(***************************************************************************)
(* --shutdown's "Automatically shut down s seconds after power failure":   *)
(* when a power failure has been seen for more than that many seconds the  *)
(* shutdown has been run, and not before; a failure that ended does not    *)
(* count for the next one.                                                 *)
(***************************************************************************)
ShutdownInTime == Shutdelay > 0 => (halted <=> battSeconds > Shutdelay)

(***************************************************************************)
(* --off's "number of seconds to not charge battery each period": in the   *)
(* off part of the duty cycle nothing is charged, also after a command.    *)
(* (With no seconds to charge there is no off part: see the README.)       *)
(***************************************************************************)
OffMeansOff == state.time_on > 0 /\ state.timer <= 0 => state.targetI = 0

=============================================================================
