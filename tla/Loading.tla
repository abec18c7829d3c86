------------------------------ MODULE Loading ------------------------------
(***************************************************************************)
(* When does the loader rest?  The loader with a history of what it did:   *)
(* the variables below are not in the program, only properties read them.  *)
(***************************************************************************)
EXTENDS Loader

VARIABLES
  mode,         \* the branch the last round took, "ordered" since a setCurrent
  steadySince,  \* the adaptive round from which on all found the weights
                \* steady; 0 if the last one did not
  orderedAt,    \* the time of the last setCurrent
  idleSince,    \* the first and the last round of the pause that lasts;
  idleUntil,    \* both 0 outside a pause
  spent         \* a pause has expired since the last setCurrent or battery run

history == <<mode, steadySince, orderedAt, idleSince, idleUntil, spent>>
vars == <<loaderVars, history>>

Modes == {"start", "ordered", "battery", "stopped", "timed", "paused", "loading"}

TypeOK ==
  /\ LoaderTypeOK
  /\ mode \in Modes
  /\ steadySince \in Nat /\ orderedAt \in Nat
  /\ idleSince \in Nat /\ idleUntil \in Nat /\ spent \in BOOLEAN

Init ==
  /\ LoaderInit
  /\ mode = "start"
  /\ steadySince = 0 /\ orderedAt = 0
  /\ idleSince = 0 /\ idleUntil = 0 /\ spent = FALSE

Remember(branch, t) ==
  /\ mode' = branch
  /\ steadySince' =
       CASE branch = "battery" -> 0
         [] branch \in {"stopped", "timed"} -> steadySince
         [] branch \in {"paused", "loading"} ->
              IF t.weightpos < 2 \/ ~t.steady THEN 0
              ELSE IF steadySince = 0 THEN clock ELSE steadySince
  /\ idleSince' = IF branch # "paused" THEN 0
                  ELSE IF idleSince = 0 THEN clock ELSE idleSince
  /\ idleUntil' = IF branch # "paused" THEN 0 ELSE clock
  /\ spent' = /\ branch # "battery"
              /\ spent \/ (mode = "paused" /\ branch = "loading")
  /\ UNCHANGED orderedAt

LoadingRound ==
  \E rec \in BOOLEAN :
    /\ Round(rec)
    /\ Remember(Branch(sample, target, clock, rec), target')

LoadingAccept ==
  /\ Accept
  /\ UNCHANGED history

LoadingSetCurrent ==
  /\ \E i \in Currents : SetCurrent(i)
  /\ orderedAt' = clock
  /\ mode' = "ordered" /\ spent' = FALSE
  /\ idleSince' = 0 /\ idleUntil' = 0
  /\ UNCHANGED steadySince

LoadingSetHours ==
  /\ \E i \in HoursArgs : SetHours(i)
  /\ UNCHANGED history

LoadingTick ==
  /\ Tick
  /\ UNCHANGED history

Next ==
  \/ LoadingRound
  \/ LoadingAccept
  \/ LoadingSetCurrent
  \/ LoadingSetHours
  \/ LoadingTick

Spec == Init /\ [][Next]_vars

-----------------------------------------------------------------------------
(***************************************************************************)
(* The loader rests only when it has earned it: every adaptive round of    *)
(* more than STABLE_TIME found the weights steady, and the current has not *)
(* been changed for as long (check_stable, setCurrent, reset_history).     *)
(***************************************************************************)
PauseEarned ==
  mode = "paused" =>
    /\ steadySince # 0 /\ clock - steadySince > StableSecs
    /\ clock - orderedAt > StableSecs

(***************************************************************************)
(* A rest that nobody interrupts ends: it starts more than STABLE_TIME     *)
(* after stable_time, and its last round is less than a day after it.      *)
(***************************************************************************)
PauseEnds ==
  mode = "paused" => idleUntil - idleSince < DaySecs - StableSecs - 1

(***************************************************************************)
(* One rest per charge: once a rest has expired the loader regulates on,   *)
(* and rests again only after a new order or a battery run, for stable_time*)
(* is kept and no new weight is recorded.                                  *)
(***************************************************************************)
OneRestPerCharge == spent => mode # "paused"

(***************************************************************************)
(* Why the three hold.  The program tells the length of a stable period    *)
(* from stable_time alone.  That works because stable_time, whenever it is *)
(* set, lies in a period of steady rounds and after the last order, and    *)
(* because a rest freezes it: nothing is recorded while the load is stable.*)
(***************************************************************************)
IsSteady(t) == t.weightpos >= 2 /\ t.steady

RestInv ==
  /\ steadySince <= clock /\ orderedAt <= clock
  /\ IsSteady(target) <=> steadySince # 0
  /\ target.stable_time # 0 =>
       /\ IsSteady(target)
       /\ steadySince <= target.stable_time
       /\ orderedAt <= target.stable_time
       /\ target.stable_time <= clock
  /\ mode = "paused" =>
       /\ target.stable_time # 0
       /\ target.stable_time + StableSecs < idleSince
       /\ idleSince <= idleUntil /\ idleUntil <= clock
       /\ idleUntil - target.stable_time < DaySecs
  /\ mode # "paused" => idleSince = 0
  /\ spent =>
       /\ mode # "paused"
       /\ target.stable_time # 0
       /\ clock - target.stable_time >= DaySecs

(***************************************************************************)
(* What usage() says of -e and doload's comment "no fancy stuff if we use  *)
(* hour based loading": without setHours, loading is not by the hour.      *)
(***************************************************************************)
HoursOnlyWhenOrdered == mode \in {"stopped", "timed"} => target.hours # -1

=============================================================================
