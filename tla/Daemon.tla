------------------------------- MODULE Daemon -------------------------------
(***************************************************************************)
(* The bat3 daemon at work (src/bat3.c): runArgument's loop, doRound and   *)
(* getsample, the EEPROM dialogue of doread and dowrite (src/bat3func.c),  *)
(* and at the other end of a serial line that loses packets the TS-BAT3.   *)
(*                                                                         *)
(* A packet is a unit here; its bytes are the subject of Stream.  The      *)
(* board is not in the repository: it is modelled from how the code uses   *)
(* it, that of the utilities included.  It applies every request, and it   *)
(* sends its state now and then, on its own account ("Periodically the AVR *)
(* sends out its current state", avr/avr.c), so a reply may be older than  *)
(* the last request.  An access to the EEPROM takes its time, until        *)
(* ee_ready; avr/bat3.c waits for that, the daemon does not.               *)
(***************************************************************************)
EXTENDS Bat3Func, Sequences

CONSTANTS
  Currents, HoursArgs, MaxTime,   \* as in Loader
  MAX_RETRIES,    \* how often getsample and doRound try
  MaxSamples,     \* params.samples: rounds to do, -1 for ever
  CountCap,       \* 10000: where cntsamples stops when going on for ever
  DoRead,         \* params.read, the option -r
  DoWrite,        \* params.write, the option -w
  Address, Value, \* params.address and params.value
  Boards,         \* the states the board may be in at the start
  BreaksOff,      \* may a request break off the access it finds under way?
  Measurements,   \* what the board may come to measure: [batRun, adc7]
  MaxQueue,       \* bound: packets that are under way in either direction
  MaxFaults       \* bound: packets lost or garbled, and silent seconds

ASSUME DaemonAssumption ==
  /\ Currents \subseteq Int /\ HoursArgs \subseteq Int /\ MaxTime \in Nat \ {0}
  /\ MAX_RETRIES \in Nat \ {0}
  /\ MaxSamples \in Nat \cup {-1}
  /\ CountCap \in Nat
  /\ DoRead \in BOOLEAN /\ DoWrite \in BOOLEAN /\ BreaksOff \in BOOLEAN
  /\ Address \in Int /\ Value \in Int
  /\ Boards \subseteq BAT3reply
  /\ Measurements \subseteq [batRun : Bit, adc7 : Word]
  /\ MaxQueue \in Nat \ {0} /\ MaxFaults \in Nat

VARIABLES
  pc,          \* where runArgument is
  clock,       \* time(NULL)
  target,      \* the loader's part of params
  sample,      \* runArgument's state
  request,     \* doRound's state, as it is encoded
  error,       \* getsample's error
  cnt,         \* doRound's cnt
  cntsamples,  \* runArgument's cntsamples
  romstate,    \* the global of bat3func.c
  toBoard,     \* the requests under way
  fromBoard,   \* the replies under way, or waiting to be read
  board,       \* the state of the board, as its next reply will show it
  rom,         \* the byte the dialogue is about, in the board's EEPROM
  faults,      \* what has gone wrong on the line so far
  reads,       \* history: calls of readStream since the last request
  report,      \* history: what -r has logged, and whether it was told it
  failed,      \* history: a round has ended without a new sample
  broken,      \* history: an access to the EEPROM has been broken off
  hasty        \* history: the dialogue has gone on before a read was ready

load == <<clock, target, sample, request>>
line == <<toBoard, fromBoard, faults>>
progress == <<error, cnt, cntsamples, romstate>>
past == <<reads, report, failed, broken, hasty>>
vars == <<pc, load, progress, line, board, rom, past>>

Places == {"opening", "select", "round", "reading", "socket", "end"}

(***************************************************************************)
(* A packet that arrives: a reply, or one that fails the checksum.         *)
(***************************************************************************)
Intact(reply) == [ok |-> TRUE, reply |-> reply]
Garbled       == [ok |-> FALSE]
Packet        == { Garbled } \cup [ok : {TRUE}, reply : BAT3reply]

TypeOK ==
  /\ pc \in Places
  /\ clock \in 1 .. MaxTime
  /\ target \in Target
  /\ sample \in Bat3 /\ request \in Bat3
  /\ error \in 0 .. MAX_RETRIES /\ cnt \in 0 .. MAX_RETRIES
  /\ cntsamples \in Nat
  /\ romstate \in {"WRITE", "LISTEN", "DONE"}
  /\ toBoard \in Seq(BAT3request) /\ Len(toBoard) <= MaxQueue
  /\ fromBoard \in Seq(Packet) /\ Len(fromBoard) <= MaxQueue
  /\ board \in BAT3reply /\ rom \in Byte
  /\ faults \in 0 .. MaxFaults
  /\ reads \in Nat
  /\ report \subseteq [data : Byte, told : BOOLEAN]
  /\ failed \in BOOLEAN /\ broken \in BOOLEAN /\ hasty \in BOOLEAN

(***************************************************************************)
(* initParams, and runArgument's local variables.  The value of `sample`   *)
(* stands for an uninitialised one: nothing reads it before the first      *)
(* getsample has succeeded.                                                *)
(***************************************************************************)
Init ==
  /\ pc = "opening"
  /\ clock = 1
  /\ target = initParams
  /\ board \in Boards
  /\ sample = decodemsg(board) /\ request = sample
  /\ error = 0 /\ cnt = 0 /\ cntsamples = 0
  /\ romstate = "WRITE"
  /\ toBoard = <<>> /\ fromBoard = <<>> /\ faults = 0
  /\ rom = IF Value = 0 THEN 1 ELSE 0
  /\ reads = 0 /\ report = {}
  /\ failed = FALSE /\ broken = FALSE /\ hasty = FALSE

-----------------------------------------------------------------------------
(***************************************************************************)
(* readStream, as getsample sees it: a good packet, or nothing, because    *)
(* the packet was garbled or a second went by in silence.                  *)
(***************************************************************************)
GoodRead ==
  /\ fromBoard # <<>> /\ Head(fromBoard).ok
  /\ fromBoard' = Tail(fromBoard)
  /\ UNCHANGED <<toBoard, faults>>

GarbledRead ==
  /\ fromBoard # <<>> /\ ~Head(fromBoard).ok
  /\ fromBoard' = Tail(fromBoard)
  /\ UNCHANGED <<toBoard, faults>>

SilentRead ==
  /\ fromBoard = <<>> /\ faults < MaxFaults
  /\ faults' = faults + 1
  /\ UNCHANGED <<toBoard, fromBoard>>

BadRead == GarbledRead \/ SilentRead

Arrived == decodemsg(Head(fromBoard).reply)

(***************************************************************************)
(* runArgument before its loop: the first sample, or the end (E_SAMPLE).   *)
(***************************************************************************)
LoopOrEnd(rounds) ==
  IF MaxSamples = -1 \/ rounds < MaxSamples THEN "select" ELSE "end"

OpenGood ==
  /\ pc = "opening"
  /\ GoodRead
  /\ sample' = Arrived
  /\ pc' = LoopOrEnd(cntsamples)
  /\ error' = 0
  /\ reads' = reads + 1
  /\ UNCHANGED <<clock, target, request, cnt, cntsamples, romstate, board, rom,
                 report, failed, broken, hasty>>

OpenBad ==
  /\ pc = "opening"
  /\ BadRead
  /\ error' = error + 1
  /\ pc' = IF error + 1 = MAX_RETRIES THEN "end" ELSE "opening"
  /\ reads' = reads + 1
  /\ UNCHANGED <<load, cnt, cntsamples, romstate, board, rom, report, failed,
                 broken, hasty>>

(***************************************************************************)
(* The loop: without anything to read there is no round.                   *)
(***************************************************************************)
SkipRound ==
  /\ pc = "select" /\ fromBoard = <<>>
  /\ pc' = "socket"
  /\ UNCHANGED <<load, progress, line, board, rom, past>>

(***************************************************************************)
(* A round: the EEPROM dialogue changes runArgument's state in place...    *)
(* It goes by the bits the board repeats and never looks at ee_ready.      *)
(***************************************************************************)
NotReady(s) == s.ee_read = ON /\ s.ee_ready = OFF

Dialogue ==
  LET r == IF DoRead THEN doread(sample, romstate, Address)
           ELSE [state |-> sample, romstate |-> romstate]
  IN  IF DoWrite THEN dowrite(r.state, r.romstate, Address, Value) ELSE r

StartRound ==
  /\ pc = "select" /\ fromBoard # <<>>
  /\ sample' = Dialogue.state /\ romstate' = Dialogue.romstate
  /\ pc' = "round"
  /\ hasty' = (hasty \/ (romstate # "DONE" /\ NotReady(sample)))
  /\ UNCHANGED <<clock, target, request, error, cnt, cntsamples, line, board,
                 rom, reads, report, failed, broken>>

\* Faulty: doRound decides on its caller's sample, not on a copy.
WriteRequest_inplace ==
  /\ pc = "round"
  /\ Len(toBoard) < MaxQueue
  /\ \E rec \in BOOLEAN :
       LET result == doload(BlinkLed(sample), target, clock, rec)
       IN  /\ target' = result.target
           /\ request' = result.state /\ sample' = result.state
           /\ toBoard' = Append(toBoard, encodemsg(result.state))
  /\ pc' = "reading" /\ error' = 0 /\ cnt' = 0 /\ reads' = 0
  /\ UNCHANGED <<clock, cntsamples, romstate, fromBoard, faults, board, rom,
                 report, failed, broken, hasty>>

(***************************************************************************)
(* ...then doRound blinks the LED, doload decides, and writeStream writes. *)
(***************************************************************************)
WriteRequest ==
  /\ pc = "round"
  /\ Len(toBoard) < MaxQueue
  /\ \E rec \in BOOLEAN :
       LET result == doload(BlinkLed(sample), target, clock, rec)
       IN  /\ target' = result.target
           /\ request' = result.state
           /\ toBoard' = Append(toBoard, encodemsg(result.state))
  /\ pc' = "reading" /\ error' = 0 /\ cnt' = 0 /\ reads' = 0
  /\ UNCHANGED <<clock, sample, cntsamples, romstate, fromBoard, faults, board,
                 rom, report, failed, broken, hasty>>

(***************************************************************************)
(* The rest of doRound: getsample until one succeeds or MAX_RETRIES have   *)
(* failed.  The success that comes after the last of those is thrown away. *)
(* runArgument counts the round and goes on, whatever doRound returned;    *)
(* at the third, -r logs the byte of its state, wherever the dialogue is.  *)
(* It has been told that byte if the board has repeated the request before *)
(* and the state is not that of a read under way.                          *)
(***************************************************************************)
Told(s, at) == at # "WRITE" /\ ~NotReady(s)

CountRound ==
  /\ cntsamples' = IF MaxSamples = -1 /\ cntsamples > CountCap
                   THEN cntsamples ELSE cntsamples + 1
  /\ report' = IF DoRead /\ cntsamples' = 3
               THEN report \cup { [data |-> sample'.ee_data,
                                   told |-> Told(sample', romstate)] }
               ELSE report
  /\ pc' = "socket"

ReadGood ==
  /\ pc = "reading"
  /\ GoodRead
  /\ IF cnt >= MAX_RETRIES
     THEN failed' = TRUE /\ UNCHANGED sample
     ELSE sample' = Arrived /\ UNCHANGED failed
  /\ CountRound
  /\ error' = 0 /\ cnt' = 0 /\ reads' = reads + 1
  /\ UNCHANGED <<clock, target, request, romstate, board, rom, broken, hasty>>

\* Faulty: doRound tries once too often.
ReadBad_again ==
  /\ pc = "reading"
  /\ BadRead
  /\ UNCHANGED <<load, romstate, board, rom, broken, hasty>>
  /\ reads' = reads + 1
  /\ IF error + 1 < MAX_RETRIES
     THEN error' = error + 1 /\ UNCHANGED <<pc, cnt, cntsamples, report, failed>>
     ELSE /\ error' = 0
          /\ IF cnt <= MAX_RETRIES
             THEN cnt' = cnt + 1 /\ UNCHANGED <<pc, cntsamples, report, failed>>
             ELSE cnt' = 0 /\ failed' = TRUE /\ CountRound

ReadBad ==
  /\ pc = "reading"
  /\ BadRead
  /\ UNCHANGED <<load, romstate, board, rom, broken, hasty>>
  /\ reads' = reads + 1
  /\ IF error + 1 < MAX_RETRIES
     THEN error' = error + 1 /\ UNCHANGED <<pc, cnt, cntsamples, report, failed>>
     ELSE /\ error' = 0
          /\ IF cnt < MAX_RETRIES
             THEN cnt' = cnt + 1 /\ UNCHANGED <<pc, cntsamples, report, failed>>
             ELSE cnt' = 0 /\ failed' = TRUE /\ CountRound

(***************************************************************************)
(* processMySocket: any number of orders of the clients, between rounds    *)
(* and at no other time; MYSOCK_END stops the program.                     *)
(***************************************************************************)
Order ==
  /\ pc = "socket"
  /\ \/ \E i \in Currents : target' = setCurrent(target, i)
     \/ \E i \in HoursArgs : target' = setHours(target, i, clock)
  /\ UNCHANGED <<pc, clock, sample, request, progress, line, board, rom, past>>

LeaveSocket ==
  /\ pc = "socket"
  /\ pc' = LoopOrEnd(cntsamples)
  /\ UNCHANGED <<load, progress, line, board, rom, past>>

Exit ==
  /\ pc = "socket"
  /\ pc' = "end"
  /\ UNCHANGED <<load, progress, line, board, rom, past>>

Tick ==
  /\ pc # "end" /\ clock < MaxTime
  /\ clock' = clock + 1
  /\ UNCHANGED <<pc, target, sample, request, progress, line, board, rom, past>>

Stopped == pc = "end" /\ UNCHANGED vars

-----------------------------------------------------------------------------
(***************************************************************************)
(* The board and the line.  A request is in force at once, but the access  *)
(* to the EEPROM that it asks for is under way until ee_ready; before that *)
(* the reply shows the request's data.  A request that finds an access     *)
(* under way waits for its end or breaks it off: the code does not say     *)
(* which, BreaksOff allows both.                                           *)
(***************************************************************************)
AtWork(b) == (b.ee_read = 1 \/ b.ee_write = 1) /\ b.ee_ready = 0

Applied(b, req) ==
  [ field \in DOMAIN b |->
      IF field \in {"batRun", "adc7"} THEN b[field]
      ELSE IF field = "ee_ready" THEN 0
      ELSE req[field] ]

BoardTakes ==
  /\ toBoard # <<>>
  /\ AtWork(board) => BreaksOff
  /\ board' = Applied(board, Head(toBoard))
  /\ broken' = (broken \/ AtWork(board))
  /\ toBoard' = Tail(toBoard)
  /\ UNCHANGED <<pc, load, progress, fromBoard, faults, rom, reads, report,
                 failed, hasty>>

BoardIsReady ==
  /\ AtWork(board)
  /\ board' = [board EXCEPT !.ee_ready = 1,
                            !.ee_data = IF board.ee_read = 1 THEN rom ELSE @]
  /\ rom' = IF board.ee_write = 1 THEN board.ee_data ELSE rom
  /\ UNCHANGED <<pc, load, progress, line, past>>

BoardReports ==
  /\ Len(fromBoard) < MaxQueue
  /\ fromBoard' = Append(fromBoard, Intact(board))
  /\ UNCHANGED <<pc, load, progress, toBoard, faults, board, rom, past>>

BoardMeasures ==
  /\ \E m \in Measurements :
       board' = [board EXCEPT !.batRun = m.batRun, !.adc7 = m.adc7]
  /\ UNCHANGED <<pc, load, progress, line, rom, past>>

LoseRequest ==
  /\ toBoard # <<>> /\ faults < MaxFaults
  /\ toBoard' = Tail(toBoard)
  /\ faults' = faults + 1
  /\ UNCHANGED <<pc, load, progress, fromBoard, board, rom, past>>

GarbleReply ==
  /\ faults < MaxFaults
  /\ \E i \in DOMAIN fromBoard :
       /\ fromBoard[i].ok
       /\ fromBoard' = [fromBoard EXCEPT ![i] = Garbled]
  /\ faults' = faults + 1
  /\ UNCHANGED <<pc, load, progress, toBoard, board, rom, past>>

DaemonStep ==
  OpenGood \/ OpenBad \/ SkipRound \/ StartRound \/ WriteRequest
             \/ ReadGood \/ ReadBad \/ LeaveSocket

Next ==
  \/ OpenGood \/ OpenBad
  \/ SkipRound \/ StartRound \/ WriteRequest
  \/ ReadGood \/ ReadBad
  \/ Order \/ LeaveSocket \/ Exit
  \/ Tick \/ Stopped
  \/ BoardTakes \/ BoardIsReady \/ BoardReports \/ BoardMeasures
  \/ LoseRequest \/ GarbleReply

Spec == Init /\ [][Next]_vars

(***************************************************************************)
(* Fairness: the daemon is a process that runs, with nothing it could wait *)
(* for but the line, the board reports periodically and takes what reaches *)
(* it.  Orders, the exit command, the clock and the faults are free, and   *)
(* so is the time that an access to the EEPROM takes.                      *)
(***************************************************************************)
FairSpec ==
  /\ Spec
  /\ WF_vars(DaemonStep) /\ WF_vars(BoardTakes) /\ WF_vars(BoardReports)

-----------------------------------------------------------------------------
(***************************************************************************)
(* doRound's "we just have to write some info to the battery within 2      *)
(* minutes": between two requests the daemon polls the line a bounded      *)
(* number of times, 30 for the MAX_RETRIES of the source and a second      *)
(* each.  getsample and doRound retry inside each other.                   *)
(***************************************************************************)
RequestsKeepComing == reads <= MAX_RETRIES * (MAX_RETRIES + 1)

(***************************************************************************)
(* usage()'s "-w value: write value to [address]": when the dialogue is    *)
(* over and the board has done all that it was asked for, the byte is in   *)
(* the EEPROM.                                                             *)
(***************************************************************************)
Written == rom = Value % (MaxByte + 1)

EepromWritten ==
  DoWrite /\ ~DoRead /\ romstate = "DONE" /\ toBoard = <<>> /\ ~AtWork(board)
    => Written

(***************************************************************************)
(* As far as it goes, the byte is there as soon as the dialogue is over.   *)
(* Replies may be old, requests lost and replies garbled, for the dialogue *)
(* believes only what the sample shows, and the byte may be written long   *)
(* after the board has repeated the request.  But the dialogue writes what *)
(* it asks for into the sample, and when a round fails altogether it takes *)
(* its own question for the answer; and as it does not wait for ee_ready,  *)
(* its own next request may find the access under way, and must not break  *)
(* it off.                                                                 *)
(***************************************************************************)
EepromWrittenIfHeard ==
  DoWrite /\ ~DoRead /\ romstate = "DONE" /\ ~failed /\ ~broken => Written

(***************************************************************************)
(* usage()'s "-r: read from [address]": what the daemon has been told of   *)
(* the byte is what the EEPROM holds, in every later picture of the board  *)
(* and in what it logs, over old replies, failed rounds and accesses       *)
(* broken off.  Only if the dialogue has never gone on from a picture of a *)
(* read under way, whose data it would repeat in its requests from then    *)
(* on; and what it logs without having been told may be anything.          *)
(***************************************************************************)
EepromReadBackIfReady ==
  DoRead /\ ~DoWrite /\ ~hasty =>
    /\ Told(sample, romstate) => sample.ee_data = rom
    /\ \A r \in report : r.told => r.data = rom

(***************************************************************************)
(* The dialogue comes to its end, if the board does not stop answering.    *)
(***************************************************************************)
EepromDone == <>(romstate = "DONE" \/ pc = "end")

(***************************************************************************)
(* The whole daemon, with its retries, its EEPROM dialogue and whatever    *)
(* the line does to its packets, is a loader as Loader describes it: the   *)
(* request is decided in one step from the sample it holds, orders come    *)
(* between rounds, and samples change only when a reply or the dialogue    *)
(* changes them.                                                           *)
(***************************************************************************)
L == INSTANCE Loader WITH Samples <- Bat3

ImplementsLoader == L!LoaderSpec

=============================================================================
