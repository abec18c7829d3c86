------------------------------- MODULE Stream -------------------------------
(***************************************************************************)
(* The serial line byte by byte (src/stream.c): how writeStream frames a   *)
(* packet, and how readStream finds the packets again in what arrives.     *)
(*                                                                         *)
(* Bytes may be lost on the line.  A call of readStream gives up when a    *)
(* second passes without a byte, possibly in the middle of a frame.  The   *)
(* caller is getsample, which calls readStream again at once and keeps a   *)
(* packet only if decodemsg likes its size.                                *)
(***************************************************************************)
EXTENDS Integers, Sequences, FiniteSets

CONSTANTS
  DataLen,      \* sizeof(struct BAT3reply), 18
  BufLen,       \* sizeof(msg) in getsample, 56
  Payloads,     \* the packets that are sent
  Writers,      \* who sends them: "writeStream", or the "board"
  Below,        \* what can lie in memory just below msg
  MaxFrames,    \* bound: frames that are sent
  MaxLoss,      \* bound: bytes that are lost
  MaxPauses     \* bound: timeouts while there are bytes to come

Byte == 0 .. 255
ESC == 125   \* 0x7D
STX == 126   \* 0x7E
ETX == 127   \* 0x7F

ASSUME StreamAssumption ==
  /\ DataLen \in Nat \ {0} /\ BufLen \in Nat /\ BufLen > DataLen + 1
  /\ Payloads \subseteq Seq(Byte)
  /\ Writers \subseteq {"writeStream", "board"}
  /\ Below \subseteq Byte
  /\ MaxFrames \in Nat /\ MaxLoss \in Nat /\ MaxPauses \in Nat

VARIABLES
  wire,      \* what has been sent and not yet read: [byte, frame]
  state,     \* readStream's state, msg (up to pos) and lastesc
  msg,
  lastesc,
  below,     \* the byte at msg[-1]
  pauses,    \* timeouts so far while there were bytes to come
  lost,      \* bytes lost so far
  (*-----------------------------------------------------------------------*)
  sent,      \* history: the packets sent, those that were hit by a loss or
  damaged,   \* by a timeout, and the packets getsample has accepted
  got

reader == <<state, msg, lastesc, below>>
vars == <<wire, reader, pauses, lost, sent, damaged, got>>

States == {"NOTSTARTED", "STARTED", "ENDED"}

TypeOK ==
  /\ wire \in Seq([byte : Byte, frame : Nat])
  /\ state \in States
  /\ msg \in Seq(Byte) /\ Len(msg) <= BufLen
  /\ lastesc \in -1 .. BufLen
  /\ below \in Byte
  /\ pauses \in 0 .. MaxPauses /\ lost \in 0 .. MaxLoss
  /\ sent \in Seq(Seq(Byte)) /\ damaged \subseteq Nat /\ got \in Seq(Seq(Byte))

Init ==
  /\ wire = <<>> /\ state = "NOTSTARTED" /\ msg = <<>> /\ lastesc = -1
  /\ below \in Below
  /\ pauses = 0 /\ lost = 0
  /\ sent = <<>> /\ damaged = {} /\ got = <<>>

-----------------------------------------------------------------------------
(***************************************************************************)
(* calcCrc, and the xor with 1<<5 that escaping is.                        *)
(***************************************************************************)
calcCrc(data) ==
  LET sum[i \in 0 .. Len(data)] == IF i = 0 THEN 0 ELSE sum[i - 1] + data[i]
  IN  (255 - sum[Len(data)]) % 256

\* Faulty: adds the bit instead of flipping it.
Flip_add(b) == b + 32

Flip(b) == IF (b \div 32) % 2 = 1 THEN b - 32 ELSE b + 32

Escaped(b) == IF b \in {STX, ESC, ETX, 17, 19} THEN <<ESC, Flip(b)>> ELSE <<b>>

EscapedAll(data) ==
  LET out[i \in 0 .. Len(data)] ==
        IF i = 0 THEN <<>> ELSE out[i - 1] \o Escaped(data[i])
  IN  out[Len(data)]

(***************************************************************************)
(* writeStream escapes the checksum as well.  The board does not: that is  *)
(* what readStream's workaround for CRC == ETX is for.                     *)
(***************************************************************************)
Frame(data, writer) ==
  <<STX>> \o EscapedAll(data)
          \o (IF writer = "writeStream" THEN Escaped(calcCrc(data))
                                        ELSE <<calcCrc(data)>>)
          \o <<ETX>>

Send ==
  /\ Len(sent) < MaxFrames
  /\ \E data \in Payloads, writer \in Writers :
       LET frame == Frame(data, writer)
       IN  /\ sent' = Append(sent, data)
           /\ wire' = wire \o [ i \in 1 .. Len(frame) |->
                                  [byte |-> frame[i], frame |-> Len(sent) + 1] ]
  /\ UNCHANGED <<reader, pauses, lost, damaged, got>>

LoseByte ==
  /\ lost < MaxLoss
  /\ \E i \in DOMAIN wire :
       /\ wire' = SubSeq(wire, 1, i - 1) \o SubSeq(wire, i + 1, Len(wire))
       /\ damaged' = damaged \cup {wire[i].frame}
  /\ lost' = lost + 1
  /\ UNCHANGED <<reader, pauses, sent, got>>

-----------------------------------------------------------------------------
(***************************************************************************)
(* readStream's loop, one byte at a time.  pos is the length of msg.       *)
(***************************************************************************)
pos == Len(msg)

Reading == state # "ENDED" /\ pos < BufLen

Received(b) == Reading /\ wire # <<>> /\ b = Head(wire).byte /\ wire' = Tail(wire)

ReadSTX ==
  /\ Received(STX)
  /\ state' = "STARTED" /\ msg' = <<>>
  /\ UNCHANGED <<lastesc, below, pauses, lost, sent, damaged, got>>

\* Faulty: without the work-around for a checksum that is ETX.
ReadETX_plain ==
  /\ Received(ETX)
  /\ state' = IF state = "STARTED" THEN "ENDED" ELSE state
  /\ UNCHANGED <<msg, lastesc, below, pauses, lost, sent, damaged, got>>

ReadETX ==
  /\ Received(ETX)
  /\ IF state = "STARTED" /\ pos = DataLen
     THEN msg' = Append(msg, ETX) /\ UNCHANGED state
     ELSE /\ state' = IF state = "STARTED" THEN "ENDED" ELSE state
          /\ UNCHANGED msg
  /\ UNCHANGED <<lastesc, below, pauses, lost, sent, damaged, got>>

ReadOther ==
  \E b \in Byte \ {STX, ETX} :
    /\ Received(b)
    /\ LET previous == IF pos = 0 THEN below ELSE msg[pos]
       IN  CASE state # "STARTED" ->
                  UNCHANGED <<msg, lastesc, below>>
             [] state = "STARTED" /\ previous = ESC /\ lastesc # pos ->
                  /\ lastesc' = pos
                  /\ IF pos = 0 THEN below' = Flip(b) /\ UNCHANGED msg
                     ELSE msg' = [msg EXCEPT ![pos] = Flip(b)] /\ UNCHANGED below
             [] state = "STARTED" /\ ~(previous = ESC /\ lastesc # pos) ->
                  /\ msg' = Append(msg, b)
                  /\ UNCHANGED <<lastesc, below>>
    /\ UNCHANGED <<state, pauses, lost, sent, damaged, got>>

\* Faulty: the checksum is not looked at.
Accepted_unchecked == pos = DataLen + 1

(***************************************************************************)
(* The end of readStream, decodemsg's check of the size, and the start of  *)
(* the next call.                                                          *)
(***************************************************************************)
Accepted ==
  /\ pos = DataLen + 1
  /\ calcCrc(SubSeq(msg, 1, pos - 1)) = msg[pos]

Return ==
  /\ got' = IF Accepted THEN Append(got, SubSeq(msg, 1, pos - 1)) ELSE got
  /\ state' = "NOTSTARTED" /\ msg' = <<>> /\ lastesc' = -1
  /\ below' \in Below
  /\ UNCHANGED <<wire, lost, sent>>

EndOfFrame ==
  /\ ~Reading
  /\ Return
  /\ UNCHANGED <<pauses, damaged>>

Timeout ==
  /\ Reading
  /\ \/ /\ wire = <<>> /\ state # "NOTSTARTED"
        /\ UNCHANGED <<pauses, damaged>>
     \/ /\ wire # <<>> /\ pauses < MaxPauses
        /\ pauses' = pauses + 1
        /\ damaged' = IF Head(wire).byte = STX THEN damaged
                      ELSE damaged \cup {Head(wire).frame}
  /\ Return

Next == Send \/ LoseByte \/ ReadSTX \/ ReadETX \/ ReadOther \/ EndOfFrame \/ Timeout

Spec == Init /\ [][Next]_vars

-----------------------------------------------------------------------------
(***************************************************************************)
(* What getsample accepts was sent, is accepted once, and in the order it  *)
(* was sent: neither a loss nor a timeout makes readStream put together a  *)
(* sample that the board never measured.                                   *)
(***************************************************************************)
OnlyWhatWasSent ==
  \E from \in [1 .. Len(got) -> 1 .. Len(sent)] :
    /\ \A i \in 1 .. Len(got) : got[i] = sent[from[i]]
    /\ \A i, j \in 1 .. Len(got) : i < j => from[i] < from[j]

(***************************************************************************)
(* Neither a loss nor a pause does lasting harm: it costs the frame it     *)
(* hits and at most the one after it, which the STX that starts the next   *)
(* frame is there for.  That one may be whole: an STX resets the position, *)
(* but not the position of the last escape.                                *)
(***************************************************************************)
HarmIsLocal ==
  wire = <<>> /\ state = "NOTSTARTED"
    => Len(got) >= Len(sent) - 2 * Cardinality(damaged)

=============================================================================
