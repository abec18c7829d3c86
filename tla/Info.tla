-------------------------------- MODULE Info --------------------------------
(***************************************************************************)
(* The log that a charging bat3 sends by UDP: the commands 1 and 2 of      *)
(* BAT3UDPcommandCheck, BAT3UDPlogUpdate but for the timer (see Charge),   *)
(* and smoothAverage (avr/bat3.c), together with the programs that listen  *)
(* (avr/bat3save.c).  There is one subscriber at a time: a saver that has  *)
(* heard nothing for two seconds subscribes again, and displaces another.  *)
(*                                                                         *)
(* Datagrams may be lost, the server may end and be started again.  Of a   *)
(* sample the module keeps one value, which stands for V, I and T, which   *)
(* are smoothed, and for pwm_lo, which is averaged.                        *)
(***************************************************************************)
EXTENDS Integers, Sequences, FiniteSetsExt, SequencesExt

CONSTANTS
  Savers,       \* the hosts on which bat3save runs
  NoOne,        \* no subscriber: txSocket is -1
  Values,       \* what a sample may be
  MaxSamples,   \* samples of one second that are kept, 32
  Patience,     \* seconds after which bat3save subscribes again, 2
  MaxQueue,     \* bound: commands that wait
  MaxFaults     \* bound: datagrams lost, ends of the server, and commands 2

ASSUME InfoAssumption ==
  /\ NoOne \notin Savers /\ Values \subseteq Int
  /\ MaxSamples \in Nat \ {0} /\ Patience \in Nat \ {0}
  /\ MaxQueue \in Nat \ {0} /\ MaxFaults \in Nat

VARIABLES
  now,       \* the second, modulo 2
  pc,        \* the server: "check" for commands, take a "sample", or "down"
  to,        \* who gets the log
  last_t,    \* the second of the last sample, -1 at the start
  samples,   \* the values since the second began, with the second (a history)
  cmds,      \* the commands that wait at the server's port
  infos,     \* the log packets under way
  quiet,     \* seconds that each saver has waited
  heard,     \* the saver that received something last
  faults,    \* what has gone wrong so far
  sends      \* history: log packets sent in this second

server == <<pc, to, last_t, samples>>
vars == <<now, server, cmds, infos, quiet, heard, faults, sends>>

Second == {0, 1}
Sample == [value : Values, second : Second]
Command == [command : {1}, from : Savers] \cup [command : {2}]

(***************************************************************************)
(* A mean is kept as the sum of the n values that are counted.             *)
(***************************************************************************)
Mean == [sum : Int, n : Nat]
LogPacket == [ t : Second, dest : Savers, smooth : Mean, average : Mean,
               samples : Seq(Sample) ]

TypeOK ==
  /\ now \in Second
  /\ pc \in {"check", "sample", "down"}
  /\ to \in Savers \cup {NoOne}
  /\ last_t \in Second \cup {-1}
  /\ samples \in Seq(Sample) /\ Len(samples) <= MaxSamples
  /\ cmds \in Seq(Command) /\ Len(cmds) <= MaxQueue
  /\ infos \in Seq(LogPacket)
  /\ quiet \in [Savers -> 0 .. Patience]
  /\ heard \in Savers \cup {NoOne}
  /\ faults \in 0 .. MaxFaults
  /\ sends \in Nat

Init ==
  /\ now = 0 /\ pc = "check"
  /\ to = NoOne /\ last_t = -1 /\ samples = <<>>
  /\ cmds = <<>> /\ infos = <<>>
  /\ quiet = [ s \in Savers |-> Patience ] /\ heard = NoOne
  /\ faults = 0 /\ sends = 0

-----------------------------------------------------------------------------
(***************************************************************************)
(* smoothAverage.  It looks for the extremes from the second value on, and *)
(* starts from 0: the minimum is found only if it is negative.  The index  *)
(* of an extreme that is not found is the first value itself.              *)
(***************************************************************************)
MeanOf(arr, counted) ==
  [ sum |-> MapThenSumSet(LAMBDA j : arr[j + 1], counted), n |-> Cardinality(counted) ]

Indices(arr) == 0 .. Len(arr) - 1

\* The first index after 0 of the largest value above 0; of the smallest one
\* below 0 if sign is -1.
IndexOf(arr, sign) ==
  LET Height(j) == sign * arr[j + 1]
      others    == Indices(arr) \ {0}
      best      == { j \in others : /\ Height(j) > 0
                                    /\ \A k \in others : Height(k) <= Height(j) }
  IN  IF best = {} THEN arr[1] ELSE Min(best)

\* Faulty: two values are no special case.
smoothAverage_pair(arr) ==
  MeanOf(arr, IF Len(arr) = 1 THEN {0}
              ELSE Indices(arr) \ {IndexOf(arr, -1), IndexOf(arr, 1)})

smoothAverage(arr) ==
  MeanOf(arr, IF Len(arr) <= 2 THEN Indices(arr)
              ELSE Indices(arr) \ {IndexOf(arr, -1), IndexOf(arr, 1)})

average(arr) == MeanOf(arr, Indices(arr))

-----------------------------------------------------------------------------
(***************************************************************************)
(* The server: one command, then one sample, for ever.                     *)
(***************************************************************************)
BAT3UDPcommandCheck ==
  /\ pc = "check" /\ pc' = "sample"
  /\ IF cmds = <<>> THEN UNCHANGED <<to, cmds>>
     ELSE /\ cmds' = Tail(cmds)
          /\ to' = IF Head(cmds).command = 1 THEN Head(cmds).from ELSE NoOne
  /\ UNCHANGED <<now, last_t, samples, infos, quiet, heard, faults, sends>>

LogOf(dest) ==
  LET values == [ i \in DOMAIN samples |-> samples[i].value ]
  IN  [ t |-> last_t, dest |-> dest, samples |-> samples,
        smooth |-> smoothAverage(values), average |-> average(values) ]

\* Faulty: what was collected stays when nobody has listened.
Kept_unheard == IF last_t # now /\ to # NoOne THEN <<>> ELSE samples

\* The second that was not over, if it is not.
Kept == IF last_t # now THEN <<>> ELSE samples

\* Faulty: one sample too many.
HasRoom_late == Len(Kept) <= MaxSamples

HasRoom == Len(Kept) < MaxSamples

\* Faulty: last_t keeps its first value.
Dated_once == IF last_t = -1 THEN now ELSE last_t

\* The second that the next log packet will be dated with.
Dated == now

BAT3UDPlogUpdate ==
  /\ pc = "sample" /\ pc' = "check"
  /\ IF last_t # now /\ samples # <<>> /\ to # NoOne
     THEN infos' = Append(infos, LogOf(to)) /\ sends' = sends + 1
     ELSE UNCHANGED <<infos, sends>>
  /\ last_t' = Dated
  /\ \E v \in Values :
       samples' = IF HasRoom THEN Append(Kept, [value |-> v, second |-> now]) ELSE Kept
  /\ UNCHANGED <<now, to, cmds, quiet, heard, faults>>

-----------------------------------------------------------------------------
(***************************************************************************)
(* The server ends when the board is silent or does not obey (AvrLink).    *)
(* Its port goes with it.  Whoever started it starts it again.             *)
(***************************************************************************)
ServerEnds ==
  /\ pc # "down" /\ faults < MaxFaults
  /\ faults' = faults + 1
  /\ pc' = "down" /\ cmds' = <<>>
  /\ UNCHANGED <<now, to, last_t, samples, infos, quiet, heard, sends>>

BAT3chargeState_Init ==
  /\ pc = "down" /\ pc' = "check"
  /\ to' = NoOne /\ last_t' = -1 /\ samples' = <<>>
  /\ UNCHANGED <<now, cmds, infos, quiet, heard, faults, sends>>

-----------------------------------------------------------------------------
(***************************************************************************)
(* The savers, and whoever sends command 2: nobody here does, shutdown1 of *)
(* avr/bat3save.c is not called.                                           *)
(***************************************************************************)
Arrives(cmd) ==
  IF pc = "down" THEN UNCHANGED cmds
  ELSE Len(cmds) < MaxQueue /\ cmds' = Append(cmds, cmd)

\* Faulty: subscribes at the start only.
startup_once(s) ==
  /\ quiet[s] = Patience
  /\ IF heard = NoOne THEN Arrives([command |-> 1, from |-> s]) ELSE UNCHANGED cmds
  /\ quiet' = [quiet EXCEPT ![s] = 0]
  /\ UNCHANGED <<now, server, infos, heard, faults, sends>>

startup(s) ==
  /\ quiet[s] = Patience
  /\ Arrives([command |-> 1, from |-> s])
  /\ quiet' = [quiet EXCEPT ![s] = 0]
  /\ UNCHANGED <<now, server, infos, heard, faults, sends>>

Receive(s) ==
  /\ infos # <<>> /\ Head(infos).dest = s
  /\ infos' = Tail(infos)
  /\ quiet' = [quiet EXCEPT ![s] = 0] /\ heard' = s
  /\ UNCHANGED <<now, server, cmds, faults, sends>>

shutdown1 ==
  /\ faults < MaxFaults /\ faults' = faults + 1
  /\ Arrives([command |-> 2])
  /\ UNCHANGED <<now, server, infos, quiet, heard, sends>>

LoseCommand ==
  /\ faults < MaxFaults /\ faults' = faults + 1
  /\ cmds # <<>> /\ cmds' = Front(cmds)
  /\ UNCHANGED <<now, server, infos, quiet, heard, sends>>

LoseInfo ==
  /\ faults < MaxFaults /\ faults' = faults + 1
  /\ infos # <<>> /\ infos' = Tail(infos)
  /\ UNCHANGED <<now, server, cmds, quiet, heard, sends>>

(***************************************************************************)
(* Time.  A second is long: the server takes a sample in it, for else it   *)
(* would have ended, a datagram arrives, and a saver whose patience is     *)
(* over subscribes.                                                        *)
(***************************************************************************)
Tick ==
  /\ pc # "down" => last_t = now
  /\ infos = <<>>
  /\ \A s \in Savers : quiet[s] < Patience
  /\ now' = 1 - now /\ sends' = 0
  /\ quiet' = [ s \in Savers |-> quiet[s] + 1 ]
  /\ UNCHANGED <<server, cmds, infos, heard, faults>>

Next ==
  \/ BAT3UDPcommandCheck \/ BAT3UDPlogUpdate
  \/ ServerEnds \/ BAT3chargeState_Init
  \/ \E s \in Savers : startup(s) \/ Receive(s)
  \/ shutdown1 \/ LoseCommand \/ LoseInfo
  \/ Tick

Spec == Init /\ [][Next]_vars

(***************************************************************************)
(* Fairness: the loops of the programs go round, time passes, and a server *)
(* that has ended is started again.                                        *)
(***************************************************************************)
FairSpec ==
  /\ Spec
  /\ WF_vars(BAT3UDPcommandCheck) /\ WF_vars(BAT3UDPlogUpdate)
  /\ WF_vars(BAT3chargeState_Init) /\ WF_vars(Tick)
  /\ \A s \in Savers : WF_vars(startup(s)) /\ WF_vars(Receive(s))

-----------------------------------------------------------------------------
(***************************************************************************)
(* "analog values are smoothed/averaged over one second": what a packet    *)
(* sums up are samples of the second it is dated with, whoever comes and   *)
(* goes between, and whatever was collected while nobody listened.         *)
(***************************************************************************)
InfoOfOneSecond ==
  \A i \in DOMAIN infos : \A j \in DOMAIN infos[i].samples :
    infos[i].samples[j].second = infos[i].t

\* A mean of some of the values.
Within(mean, values) ==
  /\ mean.n > 0
  /\ mean.n * Min(values) <= mean.sum /\ mean.sum <= mean.n * Max(values)

(***************************************************************************)
(* Whichever extremes smoothAverage leaves out, and it often leaves out    *)
(* others than it means to, it never divides by 0 and ends up between the  *)
(* smallest and the largest sample.                                        *)
(***************************************************************************)
SmoothWithin ==
  \A i \in DOMAIN infos :
    LET values == { infos[i].samples[j].value : j \in DOMAIN infos[i].samples }
    IN  Within(infos[i].smooth, values) /\ Within(infos[i].average, values)

(***************************************************************************)
(* "info packets are sent at 1Hz": never two in a second, also when the    *)
(* subscriber changes or the server is started again.                      *)
(***************************************************************************)
AtMostOneHertz == sends <= 1

(***************************************************************************)
(* However often they displace each other, and whatever was lost: every    *)
(* saver goes on receiving.                                                *)
(***************************************************************************)
EverySaverIsServed == \A s \in Savers : []<>(heard = s)

=============================================================================
