------------------------------- MODULE Loader -------------------------------
(***************************************************************************)
(* The loader of the bat3 daemon as an open system: whatever samples the   *)
(* board returns and whatever orders clients give, which loading state     *)
(* does the daemon ask for?  Loading adds history and says when it rests;  *)
(* Daemon shows that the whole daemon is a loader of this kind.            *)
(***************************************************************************)
EXTENDS Bat3Func

CONSTANTS
  Samples,    \* the samples the daemon can come to hold
  Currents,   \* the arguments clients give to setCurrent
  HoursArgs,  \* the arguments clients give to setHours
  MaxTime     \* bound: the clock stops here

ASSUME LoaderAssumption ==
  /\ Samples \subseteq Bat3
  /\ Currents \subseteq Int
  /\ HoursArgs \subseteq Int
  /\ MaxTime \in Nat \ {0}

VARIABLES
  clock,        \* time(NULL), which never runs backwards
  target,       \* the loader's part of params
  sample,       \* runArgument's state: the picture of the board it works from
  request       \* what the last round asked of the board

loaderVars == <<clock, target, sample, request>>

LoaderTypeOK ==
  /\ clock \in 1 .. MaxTime
  /\ target \in Target
  /\ sample \in Bat3
  /\ request \in Bat3

LoaderInit ==
  /\ clock = 1
  /\ target = initParams
  /\ sample \in Samples
  /\ request = sample

(***************************************************************************)
(* doRound up to the point where the request is handed to the line.        *)
(***************************************************************************)
Round(rec) ==
  LET result == doload(BlinkLed(sample), target, clock, rec)
  IN  /\ request' = result.state
      /\ target' = result.target
      /\ UNCHANGED <<clock, sample>>

(***************************************************************************)
(* The rest of doRound, when a reply is accepted.                          *)
(***************************************************************************)
Accept ==
  /\ sample' \in Samples
  /\ UNCHANGED <<clock, target, request>>

SetCurrent(i) ==
  /\ target' = setCurrent(target, i)
  /\ UNCHANGED <<clock, sample, request>>

SetHours(i) ==
  /\ target' = setHours(target, i, clock)
  /\ UNCHANGED <<clock, sample, request>>

Tick ==
  /\ clock < MaxTime
  /\ clock' = clock + 1
  /\ UNCHANGED <<target, sample, request>>

LoaderNext ==
  \/ \E rec \in BOOLEAN : Round(rec)
  \/ Accept
  \/ \E i \in Currents : SetCurrent(i)
  \/ \E i \in HoursArgs : SetHours(i)
  \/ Tick

LoaderSpec == LoaderInit /\ [][LoaderNext]_loaderVars

=============================================================================
