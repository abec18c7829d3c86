----------------------------- MODULE PacketGet -----------------------------
(***************************************************************************)
(* The packet reader of the utilities (filePacketGet of lib/file.c) and    *)
(* the framing of lib/serial.c, byte by byte: below the units of AvrLink.  *)
(*                                                                         *)
(* The reader waits with select on the descriptor, but reads with fgetc:   *)
(* what stdio has buffered beyond the end of a packet is looked at only    *)
(* when more has arrived.  A quarter of a second of silence ends the       *)
(* program, and with it that buffer.                                       *)
(***************************************************************************)
EXTENDS Integers, Sequences, FiniteSets, SequencesExt

CONSTANTS
  DataLen,      \* a packet without its checksum
  Payloads,     \* the packets that are sent
  Writers,      \* who frames them: "serialFrame", or the "board"
  MaxFrames,    \* bound: frames that are sent
  MaxLoss,      \* bound: bytes that are lost
  MaxBreaks     \* bound: silences and flushes while there are bytes to come

Byte == 0 .. 255
ESC == 125   \* 0x7D
STX == 126   \* 0x7E
ETX == 127   \* 0x7F

ASSUME PacketGetAssumption ==
  /\ DataLen \in Nat
  /\ Payloads \subseteq [1 .. DataLen -> Byte]
  /\ Writers \subseteq {"serialFrame", "board"}
  /\ MaxFrames \in Nat /\ MaxLoss \in Nat /\ MaxBreaks \in Nat

VARIABLES
  wire,      \* sent, and not yet read by stdio: [byte, frame]
  stdio,     \* read by stdio, and not yet by fgetc
  selecting, \* filePacketGet is in select, and not in the inner loop
  fr,        \* its packet so far, and what the next byte will be taken for
  lost, breaks,  \* bounds: bytes lost, silences and flushes so far
  (*-----------------------------------------------------------------------*)
  sent,      \* history: the packets sent, those that were hit by a loss, a
  damaged,   \* silence or a flush, or whose checksum looks like framing,
  got        \* and the packets returned, with the frame they ended in

input == <<wire, stdio>>
bounds == <<lost, breaks>>
past == <<sent, damaged, got>>
vars == <<input, selecting, fr, bounds, past>>

Tagged == [byte : Byte, frame : 1 .. MaxFrames]

TypeOK ==
  /\ wire \in Seq(Tagged) /\ stdio \in Seq(Tagged)
  /\ selecting \in BOOLEAN
  /\ fr.mode \in {"hunting", "started", "data", "escape"}
  /\ fr.arr \in Seq(Byte)
  /\ lost \in 0 .. MaxLoss /\ breaks \in 0 .. MaxBreaks
  /\ sent \in Seq(Payloads) /\ Len(sent) <= MaxFrames
  /\ damaged \subseteq 1 .. MaxFrames
  /\ got \in Seq([frame : 1 .. MaxFrames, packet : Seq(Byte)])

Room == DataLen + 1

Empty == [mode |-> "hunting", arr |-> <<>>]

Init ==
  /\ wire = <<>> /\ stdio = <<>> /\ selecting = TRUE /\ fr = Empty
  /\ lost = 0 /\ breaks = 0
  /\ sent = <<>> /\ damaged = {} /\ got = <<>>

-----------------------------------------------------------------------------
(***************************************************************************)
(* Framing.  serialFrame escapes whatever needs it, also the checksum that *)
(* AVRsendRequest has put in the last byte.  The board leaves the checksum *)
(* as it is (src/stream.c has a work-around for one that is ETX); whose    *)
(* checksum looks like framing cannot be understood.                       *)
(***************************************************************************)
Sum(arr) == FoldSeq(LAMBDA b, s : b + s, 0, arr)

Checksum(data) == (255 - Sum(data)) % 256

Flip(b) == IF (b \div 32) % 2 = 1 THEN b - 32 ELSE b + 32

\* Faulty: forgets the escape character itself.
serialEscape_few(b) == b \in {STX, ETX, 17, 19}

serialEscape(b) == b \in {STX, ESC, ETX, 17, 19}

Escaped(bytes) ==
  FlattenSeq([ i \in DOMAIN bytes |->
                 IF serialEscape(bytes[i]) THEN <<ESC, Flip(bytes[i])>>
                                           ELSE <<bytes[i]>> ])

Frame(data, writer) ==
  <<STX>> \o (IF writer = "serialFrame" THEN Escaped(Append(data, Checksum(data)))
              ELSE Append(Escaped(data), Checksum(data)))
          \o <<ETX>>

Unclear(data, writer) == writer = "board" /\ Checksum(data) \in {STX, ESC, ETX}

Send ==
  /\ Len(sent) < MaxFrames
  /\ \E data \in Payloads, writer \in Writers :
       LET frame == Frame(data, writer)
           n     == Len(sent) + 1
       IN  /\ sent' = Append(sent, data)
           /\ wire' = wire \o [ i \in DOMAIN frame |-> [byte |-> frame[i], frame |-> n] ]
           /\ damaged' = IF Unclear(data, writer) THEN damaged \cup {n} ELSE damaged
  /\ UNCHANGED <<stdio, selecting, fr, bounds, got>>

LoseByte ==
  /\ lost < MaxLoss /\ lost' = lost + 1
  /\ \E i \in DOMAIN wire :
       /\ wire' = RemoveAt(wire, i)
       /\ damaged' = damaged \cup {wire[i].frame}
  /\ UNCHANGED <<stdio, selecting, fr, breaks, sent, got>>

-----------------------------------------------------------------------------
(***************************************************************************)
(* ByteArray_PacketGet: what one byte makes of the packet so far.  Its len *)
(* codes the mode: 0, -500, below 0, and from -1000 down.                  *)
(***************************************************************************)
Now(mode, arr) == [mode |-> mode, arr |-> arr]

\* Faulty: a start inside of a packet is taken for data.
ByteArray_PacketGet_lax(b) ==
  CASE fr.mode = "hunting" -> IF b = STX THEN Now("started", <<>>) ELSE fr
    [] fr.mode = "escape"  -> Now("data", Append(fr.arr, Flip(b)))
    [] fr.mode \in {"started", "data"} ->
         CASE b = ESC -> Now("escape", fr.arr)
           [] b = ETX -> IF fr.mode = "started" THEN Empty ELSE Now("packet", fr.arr)
           [] OTHER   -> Now("data", Append(fr.arr, b))

ByteArray_PacketGet(b) ==
  CASE fr.mode = "hunting" -> IF b = STX THEN Now("started", <<>>) ELSE fr
    [] fr.mode = "escape"  -> Now("data", Append(fr.arr, Flip(b)))
    [] fr.mode \in {"started", "data"} ->
         CASE b = ESC -> Now("escape", fr.arr)
           [] b = STX -> IF fr.mode = "started" THEN fr ELSE Empty
           [] b = ETX -> IF fr.mode = "started" THEN Empty ELSE Now("packet", fr.arr)
           [] OTHER   -> Now("data", Append(fr.arr, b))

(***************************************************************************)
(* filePacketGet.  Some of what is on its way has arrived when select      *)
(* returns, and when stdio reads.                                          *)
(***************************************************************************)
filesWaitRead ==
  /\ selecting /\ wire # <<>>
  /\ selecting' = FALSE
  /\ UNCHANGED <<input, fr, bounds, past>>

StdioReads ==
  /\ ~selecting /\ stdio = <<>> /\ wire # <<>>
  /\ \E n \in 1 .. Len(wire) :
       /\ stdio' = SubSeq(wire, 1, n)
       /\ wire' = SubSeq(wire, n + 1, Len(wire))
  /\ UNCHANGED <<selecting, fr, bounds, past>>

StdioIsEmpty ==
  /\ ~selecting /\ stdio = <<>>
  /\ selecting' = TRUE
  /\ UNCHANGED <<input, fr, bounds, past>>

\* Faulty: every packet will do.
IsValid_any(arr) == arr # <<>>

IsValid(arr) == Sum(arr) % 256 = 255

\* Faulty: what did not have the right sum is not thrown away.
fgetc_kept ==
  /\ ~selecting /\ stdio # <<>>
  /\ stdio' = Tail(stdio)
  /\ LET next == ByteArray_PacketGet(Head(stdio).byte)
     IN  IF next.mode # "packet" \/ ~IsValid(next.arr)
         THEN fr' = next /\ UNCHANGED <<selecting, got>>
         ELSE /\ fr' = Empty /\ selecting' = TRUE
              /\ got' = Append(got, [ frame  |-> Head(stdio).frame,
                                      packet |-> Front(next.arr) ])
  /\ UNCHANGED <<wire, bounds, sent, damaged>>

fgetc ==
  /\ ~selecting /\ stdio # <<>>
  /\ stdio' = Tail(stdio)
  /\ LET next == ByteArray_PacketGet(Head(stdio).byte)
     IN  IF next.mode # "packet"
         THEN fr' = next /\ UNCHANGED <<selecting, got>>
         ELSE /\ fr' = Empty
              /\ IF IsValid(next.arr)
                 THEN /\ selecting' = TRUE
                      /\ got' = Append(got, [ frame  |-> Head(stdio).frame,
                                              packet |-> Front(next.arr) ])
                 ELSE UNCHANGED <<selecting, got>>
  /\ UNCHANGED <<wire, bounds, sent, damaged>>

-----------------------------------------------------------------------------
(***************************************************************************)
(* What is thrown away with stdio, and the frame whose start is gone.      *)
(***************************************************************************)
Cut(read) ==
  { read[i].frame : i \in DOMAIN read }
    \cup (IF wire' # <<>> /\ Head(wire').byte # STX THEN {Head(wire').frame} ELSE {})

Forget ==
  /\ stdio' = <<>> /\ fr' = Empty /\ selecting' = TRUE
  /\ UNCHANGED <<lost, sent, got>>

(***************************************************************************)
(* Nothing for 250 ms: exit(3), and the next program opens the port anew.  *)
(***************************************************************************)
GivesUp ==
  /\ selecting
  /\ \/ wire = <<>> /\ UNCHANGED breaks
     \/ wire # <<>> /\ breaks < MaxBreaks /\ breaks' = breaks + 1
  /\ UNCHANGED wire
  /\ damaged' = damaged \cup Cut(stdio)
  /\ Forget

(***************************************************************************)
(* fileFlushInput, between two packets: all that has arrived goes.         *)
(***************************************************************************)
fileFlushInput ==
  /\ selecting /\ fr = Empty /\ wire \o stdio # <<>>
  /\ breaks < MaxBreaks /\ breaks' = breaks + 1
  /\ \E n \in 0 .. Len(wire) :
       /\ wire' = SubSeq(wire, n + 1, Len(wire))
       /\ damaged' = damaged \cup Cut(stdio \o SubSeq(wire, 1, n))
  /\ Forget

Next ==
  \/ Send \/ LoseByte
  \/ filesWaitRead \/ StdioReads \/ StdioIsEmpty \/ fgetc
  \/ GivesUp \/ fileFlushInput

Spec == Init /\ [][Next]_vars

-----------------------------------------------------------------------------
(***************************************************************************)
(* "If it has a positive length on return, then the ref is to a valid      *)
(* packet": true of the packets that have their full size.  filePacketGet  *)
(* does not know the size, the checksum does not see a 0 that is missing,  *)
(* and AVRsendRequest looks at the size no more than AVRreplyGet: a packet *)
(* that lost a 0 is taken for a reply.                                     *)
(***************************************************************************)
Whole == FlattenSeq([ i \in DOMAIN got |->
                        IF Len(got[i].packet) = DataLen THEN <<got[i]>> ELSE <<>> ])

Line == INSTANCE Channel WITH Packets <- Payloads, got <- Whole

ImplementsChannel == Line!Spec

(***************************************************************************)
(* An STX inside of a packet ends it but does not start the next one.  So  *)
(* a frame that was hit by a loss, a silence or a flush, or that cannot be *)
(* understood, costs itself and at most the frame after it: the others     *)
(* have been returned when everything has been read.                       *)
(***************************************************************************)
HarmIsLocal ==
  wire = <<>> /\ stdio = <<>>
    => Len(Whole) >= Len(sent) - 2 * Cardinality(damaged)

(***************************************************************************)
(* The callers give the room of a BAT3reply: one packet and its checksum.  *)
(* filePacketGet does not know how much that is, and appends all that      *)
(* comes until a start or an end.  While no byte is lost this stays within *)
(* the room, whatever is cut off by silences and flushes; a lost byte may  *)
(* join the frame to the next, and one more packet is then written behind. *)
(***************************************************************************)
StaysInRoom == Len(fr.arr) <= (lost + 1) * Room

=============================================================================
