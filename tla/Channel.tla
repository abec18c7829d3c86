------------------------------ MODULE Channel ------------------------------
(***************************************************************************)
(* What a reader of a serial line promises: each packet it hands out is    *)
(* one that was sent, none is handed out twice, and they come in the order *)
(* in which they were sent.  Packets may get lost.                         *)
(***************************************************************************)
EXTENDS Naturals, Sequences

CONSTANT Packets

VARIABLES
  sent,    \* the packets sent
  got      \* those that came out, with the number each was sent under

Last == IF got = <<>> THEN 0 ELSE got[Len(got)].frame

Init == sent = <<>> /\ got = <<>>

Submit ==
  /\ \E p \in Packets : sent' = Append(sent, p)
  /\ UNCHANGED got

Deliver ==
  /\ \E i \in Last + 1 .. Len(sent) :
       got' = Append(got, [frame |-> i, packet |-> sent[i]])
  /\ UNCHANGED sent

Spec == Init /\ [][Submit \/ Deliver]_<<sent, got>>

=============================================================================
