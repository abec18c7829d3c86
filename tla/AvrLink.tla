------------------------------- MODULE AvrLink -------------------------------
(***************************************************************************)
(* The request/reply driver of the utilities (avr/avr.c) over a serial     *)
(* line: AVRreplyGet and AVRsendRequest, as parts of actions.  A module    *)
(* that uses them says what a request and a reply are, when a callback is  *)
(* satisfied, and what its program does next.                              *)
(*                                                                         *)
(* A packet is a unit here; PacketGet is about its bytes.  Both directions *)
(* keep the order of what they carry.                                      *)
(***************************************************************************)
EXTENDS Integers, Sequences

CONSTANTS
  Retries,      \* how many replies AVRsendRequest looks at, 5
  MaxQueue,     \* bound: packets that are under way in either direction
  MaxFaults     \* bound: requests lost, and silences of a quarter of a second

ASSUME AvrLinkAssumption ==
  Retries \in Nat \ {0} /\ MaxQueue \in Nat \ {0} /\ MaxFaults \in Nat

VARIABLES
  request,      \* the request that AVRsendRequest is about
  seen,         \* the replies it has looked at
  toBoard,      \* the requests under way
  fromBoard,    \* the replies under way, or waiting to be read
  faults        \* what has gone wrong so far

linkVars == <<request, seen, toBoard, fromBoard, faults>>

LinkTypeOK(Request, Reply) ==
  /\ request \in Request
  /\ seen \in 0 .. Retries
  /\ toBoard \in Seq(Request) /\ Len(toBoard) <= MaxQueue
  /\ fromBoard \in Seq(Reply) /\ Len(fromBoard) <= MaxQueue
  /\ faults \in 0 .. MaxFaults

-----------------------------------------------------------------------------
(***************************************************************************)
(* AVRreplyGet takes the oldest reply, whatever it says.                   *)
(***************************************************************************)
ReplyGet == fromBoard # <<>> /\ fromBoard' = Tail(fromBoard)

NextReply == Head(fromBoard)

(***************************************************************************)
(* AVRsendRequest sends, then looks at replies until the callback is       *)
(* satisfied.  It sends again after every second reply that is not what it *)
(* wants, whether the callback asks for that (1) or for another reply (2), *)
(* and gives up with exit(3) after Retries of them.                        *)
(***************************************************************************)
Submit(req) ==
  /\ Len(toBoard) < MaxQueue
  /\ request' = req /\ toBoard' = Append(toBoard, req)
  /\ seen' = 0
  /\ UNCHANGED faults

Accept(satisfied) ==
  /\ ReplyGet /\ satisfied
  /\ seen' = 0
  /\ UNCHANGED <<request, toBoard, faults>>

Reject(satisfied) ==
  /\ ReplyGet /\ ~satisfied
  /\ seen' = seen + 1
  /\ IF seen' % 2 = 0
     THEN Len(toBoard) < MaxQueue /\ toBoard' = Append(toBoard, request)
     ELSE UNCHANGED toBoard
  /\ UNCHANGED <<request, faults>>

\* Faulty: one reply too many.
GivesUp_late(n) == n > Retries

GivesUp(n) == n = Retries

(***************************************************************************)
(* filePacketGet gives up after 250 ms without a byte, and with it both    *)
(* functions: exit(3), "Failed to communicate with AVR".                   *)
(***************************************************************************)
Unanswered ==
  /\ fromBoard = <<>> /\ faults < MaxFaults
  /\ faults' = faults + 1
  /\ UNCHANGED <<request, seen, toBoard, fromBoard>>

-----------------------------------------------------------------------------
(***************************************************************************)
(* The line and the board's end of it.  A reply that is lost is a reply    *)
(* that the board did not send.                                            *)
(***************************************************************************)
NextRequest == Head(toBoard)

Taken ==
  /\ toBoard # <<>> /\ toBoard' = Tail(toBoard)
  /\ UNCHANGED <<request, seen, fromBoard, faults>>

Reported(reply) ==
  /\ Len(fromBoard) < MaxQueue
  /\ fromBoard' = Append(fromBoard, reply)
  /\ UNCHANGED <<request, seen, toBoard, faults>>

Lost ==
  /\ toBoard # <<>> /\ faults < MaxFaults
  /\ toBoard' = Tail(toBoard) /\ faults' = faults + 1
  /\ UNCHANGED <<request, seen, fromBoard>>

=============================================================================
