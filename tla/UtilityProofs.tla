--------------------------- MODULE UtilityProofs ---------------------------
(***************************************************************************)
(* Theorems about Utility, for every board and EEPROM, any number of       *)
(* programs and options, and whatever is lost, late or sent again.         *)
(***************************************************************************)
EXTENDS Utility, TLAPS

-----------------------------------------------------------------------------
(***************************************************************************)
(* What the parts of the driver (AvrLink) leave on the line, whatever a    *)
(* request and a reply are.                                                *)
(***************************************************************************)
LEMMA LinkTypes ==
  ASSUME NEW Rq, NEW Rp, LinkTypeOK(Rq, Rp)
  PROVE  /\ ReplyGet => NextReply \in Rp
         /\ \A req \in Rq : ReplyGet /\ Submit(req) => LinkTypeOK(Rq, Rp)'
         /\ \A ok \in BOOLEAN : Accept(ok) => LinkTypeOK(Rq, Rp)'
         /\ \A ok \in BOOLEAN : Reject(ok) /\ seen < Retries => LinkTypeOK(Rq, Rp)'
         /\ Unanswered => LinkTypeOK(Rq, Rp)'
         /\ Taken => LinkTypeOK(Rq, Rp)' /\ NextRequest \in Rq
         /\ \A rep \in Rp : Reported(rep) => LinkTypeOK(Rq, Rp)'
         /\ Lost => LinkTypeOK(Rq, Rp)'
<1>1. /\ request \in Rq /\ seen \in Nat /\ seen <= Retries
      /\ toBoard \in Seq(Rq) /\ Len(toBoard) <= MaxQueue
      /\ fromBoard \in Seq(Rp) /\ Len(fromBoard) <= MaxQueue
      /\ faults \in Nat /\ faults <= MaxFaults
      /\ Retries \in Nat \ {0} /\ MaxQueue \in Nat \ {0} /\ MaxFaults \in Nat
  BY AvrLinkAssumption DEF LinkTypeOK
<1>2. ReplyGet => /\ NextReply \in Rp
                  /\ fromBoard' \in Seq(Rp) /\ Len(fromBoard') <= MaxQueue
  BY <1>1 DEF ReplyGet, NextReply
<1>3. ASSUME NEW req \in Rq, ReplyGet, Submit(req)
      PROVE  LinkTypeOK(Rq, Rp)'
  BY <1>1, <1>2, <1>3 DEF Submit, LinkTypeOK
<1>4. ASSUME NEW ok \in BOOLEAN, Accept(ok)
      PROVE  LinkTypeOK(Rq, Rp)'
  BY <1>1, <1>2, <1>4 DEF Accept, LinkTypeOK
<1>5. ASSUME NEW ok \in BOOLEAN, Reject(ok), seen < Retries
      PROVE  LinkTypeOK(Rq, Rp)'
  <2>1. toBoard' \in Seq(Rq) /\ Len(toBoard') <= MaxQueue
    BY <1>1, <1>5, SMTT(30) DEF Reject
  <2> QED  BY <1>1, <1>2, <1>5, <2>1 DEF Reject, LinkTypeOK
<1>6. Unanswered => LinkTypeOK(Rq, Rp)'
  BY <1>1 DEF Unanswered, LinkTypeOK
<1>7. Taken => LinkTypeOK(Rq, Rp)' /\ NextRequest \in Rq
  BY <1>1 DEF Taken, LinkTypeOK, NextRequest
<1>8. ASSUME NEW rep \in Rp, Reported(rep)
      PROVE  LinkTypeOK(Rq, Rp)'
  BY <1>1, <1>8 DEF Reported, LinkTypeOK
<1>9. Lost => LinkTypeOK(Rq, Rp)'
  BY <1>1 DEF Lost, LinkTypeOK
<1> QED  BY <1>2, <1>3, <1>4, <1>5, <1>6, <1>7, <1>8, <1>9

-----------------------------------------------------------------------------
\* A request is looked at while there are tries left.
Trying == pc = "sending" => seen < Retries

(***************************************************************************)
(* What is in a set of packets stays in it, from a reply that is yet to be *)
(* read, over the board, to the request that was sent last.                *)
(***************************************************************************)
Follows(S) ==
  /\ \A i, j \in DOMAIN fromBoard : i < j /\ fromBoard[i] \in S => fromBoard[j] \in S
  /\ \A i \in DOMAIN fromBoard : fromBoard[i] \in S => board \in S
  /\ \A i \in DOMAIN toBoard : board \in S => toBoard[i] \in S
  /\ \A i, j \in DOMAIN toBoard : i < j /\ toBoard[i] \in S => toBoard[j] \in S

AllIn(S) ==
  /\ \A i \in DOMAIN fromBoard : fromBoard[i] \in S
  /\ board \in S
  /\ \A i \in DOMAIN toBoard : toBoard[i] \in S

\* Two packets that differ in nothing that is echoed.
Alike(r, s) == r.PWM1en = s.PWM1en /\ r._led = s._led /\ r.softJP3 = s.softJP3

\* A program starts with nothing sent, and reads what the board shows.
FreshInv ==
  pc = "setup" =>
    toBoard = <<>> /\ \A i \in DOMAIN fromBoard : Alike(fromBoard[i], board)

(***************************************************************************)
(* The switches: all dialogues repeat PWM1en, until the options' request.  *)
(***************************************************************************)
Switched(on) == { p \in Request \cup Reply : p.PWM1en = on }

SwitchInv ==
  pc # "failed" =>
    IF pc = "sending" /\ purpose = "options"
    THEN Follows(Switched(request.PWM1en))
    ELSE /\ AllIn(Switched(ordered))
         /\ pc = "sending" => request.PWM1en = ordered

JP3set == { p \in Request \cup Reply : p.softJP3 = 1 }

MonitorInv ==
  program = "ups-monitor" =>
    /\ pc \in {"setup", "sending", "idle", "failed"}
    /\ pc = "sending" => purpose = "softJP3" /\ request.softJP3 = 1
    /\ pc \in {"setup", "sending"} => Follows(JP3set)
    /\ pc = "idle" => AllIn(JP3set)

(***************************************************************************)
(* The LED: as long as the request that changes it has not been taken,     *)
(* nothing that may be read shows it changed.                              *)
(***************************************************************************)
Unlit(led) ==
  /\ \A i \in DOMAIN fromBoard : fromBoard[i]._led # led
  /\ board._led # led

BlinkInv ==
  marked =>
    /\ pc \notin {"setup", "get"}
    /\ pc = "sending" => purpose = "options"
    /\ pc = "options" => toBoard = <<>> /\ Unlit(bReq._led)
    /\ pc = "sending" /\ ~taken =>
         /\ Unlit(request._led)
         /\ \A i \in DOMAIN toBoard : toBoard[i] = request

(***************************************************************************)
(* The EEPROM.  While an --eew is answered for, its byte is there or not;  *)
(* as long as it is not, nothing shows an access to its address.           *)
(***************************************************************************)
Writing == purpose = "write" /\ pc = "sending"

\* A write that changes nothing any more.
Done(req) == req.ee_write = 1 => ledger[req.ee_addr] = req.ee_data

Tells(rep) == ~EepromIdle(rep) => rep.ee_data = mem[rep.ee_addr]

Quiet(rep) == rep.ee_addr = request.ee_addr => EepromIdle(rep)

NotYet ==
  /\ mem = ledger
  /\ Quiet(board) /\ \A i \in DOMAIN fromBoard : Quiet(fromBoard[i])

WriteInv ==
  /\ request.ee_write = 1 /\ request.ee_read = 0
  /\ NotYet \/ mem = [ledger EXCEPT ![request.ee_addr] = request.ee_data]
  /\ \A i \in DOMAIN toBoard :
       \/ toBoard[i] = request
       \/ /\ Done(toBoard[i])
          /\ toBoard[i].ee_addr = request.ee_addr => ~Accesses(toBoard[i])

EepromInv ==
  ~stray =>
    /\ \A i \in DOMAIN toBoard : toBoard[i].ee_write = 1 => toBoard[i].ee_read = 0
    /\ Tells(board)
    /\ pc # "failed" => \A i \in DOMAIN fromBoard : Tells(fromBoard[i])
    /\ pc = "sending" /\ purpose # "write" => request.ee_write = 0
    /\ Writing => WriteInv
    /\ ~(purpose = "write" /\ pc \in {"sending", "failed"}) =>
         mem = ledger /\ \A i \in DOMAIN toBoard : Done(toBoard[i])

-----------------------------------------------------------------------------
(***************************************************************************)
(* Requests, replies and types.                                            *)
(***************************************************************************)

\* What a program has not set yet is well formed all the same.
LEMMA UnsetTypes ==
  /\ Unset \in Request /\ Unset.ee_addr \in Addresses /\ Unset.ee_data \in Values
  /\ Unset.ee_write = 0
<1> DEFINE a0 == CHOOSE a \in Addresses : TRUE
           d0 == CHOOSE d \in Values : TRUE
<1>1. (\E a \in Addresses : TRUE) /\ (\E d \in Values : TRUE)
  BY UtilityAssumption
<1>2. a0 \in Addresses /\ d0 \in Values
  BY <1>1, Zenon
<1>3. Unset = [ PWM1en |-> 0, _led |-> 0, softJP3 |-> 0, alarm |-> 0, ee_read |-> 0,
                ee_write |-> 0, ee_addr |-> a0, ee_data |-> d0 ]
  BY DEF Unset
<1> HIDE DEF a0, d0
<1> QED  BY <1>2, <1>3 DEF Request, Bit

\* What a request says that is made of a reply.
LEMMA EchoTypes ==
  ASSUME NEW rep \in Reply, NEW old \in [ee_addr : Addresses, ee_data : Values]
  PROVE  /\ BAT3requestInitFromReply(rep, old) \in Request
         /\ init(rep, old) \in Request
         /\ BAT3requestInitFromReply(rep, old).PWM1en = rep.PWM1en
         /\ BAT3requestInitFromReply(rep, old).ee_write = rep.ee_write
         /\ init(rep, old).PWM1en = rep.PWM1en /\ init(rep, old).softJP3 = 1
         /\ init(rep, old).ee_write = rep.ee_write
<1>1. Led(rep) \in Bit /\ rep._led \in Bit
  BY DEF Led, Reply, Bit
<1>2. ASSUME NEW led \in Bit, NEW soft \in Bit
      PROVE  /\ Echo(rep, led, soft, old) \in Request
             /\ Echo(rep, led, soft, old).PWM1en = rep.PWM1en
             /\ Echo(rep, led, soft, old).softJP3 = soft
             /\ Echo(rep, led, soft, old).ee_write = rep.ee_write
  BY DEF Echo, Request, Reply, Bit
<1> QED  BY <1>1, <1>2 DEF BAT3requestInitFromReply, init, Bit

\* The requests of the EEPROM dialogues.
LEMMA DialogueRequests ==
  ASSUME NEW req \in Request, NEW r \in Bit, NEW w \in Bit
  PROVE  /\ [req EXCEPT !.ee_read = r, !.ee_write = w] \in Request
         /\ [req EXCEPT !.ee_read = r, !.ee_write = w].PWM1en = req.PWM1en
         /\ [req EXCEPT !.ee_read = r, !.ee_write = w].ee_read = r
         /\ [req EXCEPT !.ee_read = r, !.ee_write = w].ee_write = w
         /\ [req EXCEPT !.ee_read = r, !.ee_write = w].ee_addr = req.ee_addr
         /\ [req EXCEPT !.ee_read = r] \in Request
         /\ [req EXCEPT !.ee_read = r].PWM1en = req.PWM1en
         /\ [req EXCEPT !.ee_read = r].ee_write = req.ee_write
  BY DEF Request

\* What the driver's request may become.
LEMMA OptionRequests ==
  ASSUME NEW req \in Request, NEW b \in Bit
  PROVE  /\ [req EXCEPT !.PWM1en = b] \in Request
         /\ [req EXCEPT !.PWM1en = b]._led = req._led
         /\ [req EXCEPT !.alarm = b] \in Request
         /\ [req EXCEPT !.alarm = b]._led = req._led
  BY DEF Request

\* What the board makes of a request.
LEMMA TakenTypes ==
  ASSUME TypeOK, BoardTakes
  PROVE  /\ board' \in Reply /\ mem' \in [Addresses -> Values] /\ taken' \in BOOLEAN
         /\ toBoard # <<>> /\ toBoard' = Tail(toBoard) /\ NextRequest \in Request
         /\ board'.PWM1en = NextRequest.PWM1en /\ board'._led = NextRequest._led
         /\ board'.softJP3 = NextRequest.softJP3
         /\ board'.ee_addr = NextRequest.ee_addr
         /\ board'.ee_read = NextRequest.ee_read /\ board'.ee_write = NextRequest.ee_write
         /\ board'.ee_ready = 1 => Accesses(NextRequest)
         /\ board'.ee_ready \in Bit
         /\ board'.ee_data = IF NextRequest.ee_read = 1 THEN mem[NextRequest.ee_addr]
                             ELSE NextRequest.ee_data
<1>1. /\ toBoard # <<>> /\ toBoard' = Tail(toBoard) /\ NextRequest \in Request
      /\ board \in Reply /\ mem \in [Addresses -> Values]
  BY LinkTypes DEF TypeOK, BoardTakes, Taken
<1>2. PICK ready \in Bit :
        /\ ready = 1 => Accesses(NextRequest)
        /\ board' = [ PWM1en |-> NextRequest.PWM1en, _led |-> NextRequest._led,
                      softJP3 |-> NextRequest.softJP3, batRun |-> board.batRun,
                      ee_read |-> NextRequest.ee_read, ee_write |-> NextRequest.ee_write,
                      ee_ready |-> ready, ee_addr |-> NextRequest.ee_addr,
                      ee_data |-> IF NextRequest.ee_read = 1 THEN mem[NextRequest.ee_addr]
                                  ELSE NextRequest.ee_data ]
  BY DEF BoardTakes
<1>3. board' \in Reply
  BY <1>1, <1>2 DEF Reply, Request
<1>4. mem' \in [Addresses -> Values]
  BY <1>1 DEF BoardTakes, Request
<1>5. taken' \in BOOLEAN
  BY Zenon DEF TypeOK, BoardTakes
<1> QED  BY <1>1, <1>2, <1>3, <1>4, <1>5

-----------------------------------------------------------------------------
(***************************************************************************)
(* The types, and the count of the tries.                                  *)
(***************************************************************************)

LEMMA InitTyped == Init => TypeOK /\ Trying
<1> SUFFICES ASSUME Init PROVE TypeOK /\ Trying
  OBVIOUS
<1>1. LinkTypeOK(Request, Reply)
  BY UnsetTypes, AvrLinkAssumption DEF Init, LinkTypeOK
<1>2. /\ board \in Reply /\ mem \in [Addresses -> Values] /\ ordered \in Bit
      /\ ledger \in [Addresses -> Values]
  BY UtilityAssumption DEF Init, Reply
<1>3. taken \in BOOLEAN /\ marked \in BOOLEAN /\ stray \in BOOLEAN /\ todo \in BOOLEAN
  BY Zenon DEF Init
<1> QED  BY <1>1, <1>2, <1>3, UnsetTypes, UtilityAssumption DEF Init, TypeOK, Trying

\* A reply that is taken, and a request that is sent in answer to it.
LEMMA SendTypes ==
  ASSUME TypeOK, NEW req \in Request, NEW why, Sends(req, why),
         fromBoard' = fromBoard \/ ReplyGet
  PROVE  /\ LinkTypeOK(Request, Reply)' /\ Trying' /\ taken' = FALSE
         /\ pc' = "sending" /\ purpose' = why
         /\ request' = req /\ toBoard' = Append(toBoard, req)
<1>1. CASE ReplyGet
  BY <1>1, LinkTypes, AvrLinkAssumption DEF TypeOK, Sends, Submit, Trying
<1>2. CASE fromBoard' = fromBoard
  BY <1>2, AvrLinkAssumption DEF TypeOK, LinkTypeOK, Sends, Submit, Trying
<1> QED  BY <1>1, <1>2

LEMMA StartTypes == TypeOK /\ Trying /\ Start => TypeOK' /\ Trying'
<1> SUFFICES ASSUME TypeOK, Trying, Start PROVE TypeOK' /\ Trying'
  OBVIOUS
<1>1. LinkTypeOK(Request, Reply)'
  <2>1. /\ request' \in Request /\ seen' \in 0 .. Retries /\ faults' \in 0 .. MaxFaults
        /\ toBoard' \in Seq(Request) /\ Len(toBoard') <= MaxQueue
    BY UnsetTypes, AvrLinkAssumption DEF Start, TypeOK, LinkTypeOK
  <2>2. fromBoard' \in Seq(Reply) /\ Len(fromBoard') <= MaxQueue
    BY AvrLinkAssumption DEF Start
  <2> QED  BY <2>1, <2>2 DEF LinkTypeOK
<1>2. val' \in Values /\ bReq' \in Request /\ adrs' \in Addresses
  BY UnsetTypes, UtilityAssumption DEF Start
<1>3. ledger' \in [Addresses -> Values] /\ ordered' \in Bit
  BY DEF Start, TypeOK, Reply
<1>4. taken' \in BOOLEAN /\ marked' \in BOOLEAN /\ stray' \in BOOLEAN /\ todo' \in BOOLEAN
  BY Zenon DEF Start, TypeOK
<1> QED  BY <1>1, <1>2, <1>3, <1>4, UtilityAssumption DEF Start, TypeOK, Trying

LEMMA OptionTypes ==
  TypeOK /\ Trying /\ (Pwm1 \/ Sleep \/ Eeval \/ Eer \/ Eew) => TypeOK' /\ Trying'
<1> SUFFICES ASSUME TypeOK, Trying, Pwm1 \/ Sleep \/ Eeval \/ Eer \/ Eew
             PROVE  TypeOK' /\ Trying'
  OBVIOUS
<1>1. /\ options' \in 0 .. MaxOptions
      /\ UNCHANGED <<program, programs, board, mem, taken, ledger, ordered, stray>>
      /\ UNCHANGED <<request, seen, toBoard, faults>>
  BY UtilityAssumption DEF TypeOK, Pwm1, Sleep, Eeval, Eer, Eew, Option, linkVars
<1>2. LinkTypeOK(Request, Reply)'
  <2>1. fromBoard' = fromBoard \/ fromBoard' = <<>>
    BY DEF Pwm1, Sleep, Eeval, Eer, Eew, linkVars
  <2>2. fromBoard' \in Seq(Reply) /\ Len(fromBoard') <= MaxQueue
    <3>1. fromBoard \in Seq(Reply) /\ Len(fromBoard) <= MaxQueue
      BY DEF TypeOK, LinkTypeOK
    <3>2. <<>> \in Seq(Reply) /\ Len(<<>>) <= MaxQueue
      BY AvrLinkAssumption
    <3> QED  BY <2>1, <3>1, <3>2
  <2> QED  BY <1>1, <2>2 DEF TypeOK, LinkTypeOK
<1>3. bReq' \in Request
  BY OptionRequests DEF TypeOK, Pwm1, Sleep, Eeval, Eer, Eew, Bit
<1>4. todo' \in BOOLEAN /\ marked' \in BOOLEAN
  BY Zenon DEF TypeOK, Pwm1, Sleep, Eeval, Eer, Eew
<1>5. /\ adrs' \in Addresses /\ val' \in Values
      /\ pc' \in {"options", "get"} /\ purpose' \in {"read", "write", purpose}
  BY DEF TypeOK, Pwm1, Sleep, Eeval, Eer, Eew, Option
<1> QED  BY <1>1, <1>2, <1>3, <1>4, <1>5 DEF TypeOK, Trying

\* What a program sends by itself is a request; how it is made of a reply.
LEMMA SetupTypes ==
  ASSUME TypeOK, BAT3setup \/ MonitorSetup
  PROVE  /\ TypeOK' /\ Trying'
         /\ NextReply \in Reply
         /\ MonitorSetup => /\ request'.PWM1en = NextReply.PWM1en
                            /\ request'.softJP3 = 1
                            /\ request'.ee_write = NextReply.ee_write
<1> USE DEF TypeOK
<1>1. NextReply \in Reply
  BY LinkTypes DEF BAT3setup, MonitorSetup
<1>2. PICK old \in Stack :
        \/ BAT3setup /\ bReq' = BAT3requestInitFromReply(NextReply, old)
        \/ MonitorSetup /\ Sends(init(NextReply, old), "softJP3")
  BY DEF BAT3setup, MonitorSetup
<1>3. old \in [ee_addr : Addresses, ee_data : Values]
  BY UtilityAssumption
<1>4. CASE BAT3setup /\ bReq' = BAT3requestInitFromReply(NextReply, old)
  <2>1. bReq' \in Request
    BY <1>1, <1>3, <1>4, EchoTypes
  <2>2. LinkTypeOK(Request, Reply)'
    <3>1. fromBoard' \in Seq(Reply) /\ Len(fromBoard') <= MaxQueue
      BY <1>4, AvrLinkAssumption DEF BAT3setup, ReplyGet, LinkTypeOK
    <3> QED  BY <1>4, <3>1 DEF BAT3setup, LinkTypeOK
  <2>3. marked' \in BOOLEAN
    BY <1>4, Zenon DEF BAT3setup
  <2> QED  BY <1>1, <1>4, <2>1, <2>2, <2>3 DEF BAT3setup, MonitorSetup, Trying
<1>5. CASE MonitorSetup /\ Sends(init(NextReply, old), "softJP3")
  <2> DEFINE req == init(NextReply, old)
  <2>1. /\ req \in Request /\ req.PWM1en = NextReply.PWM1en /\ req.softJP3 = 1
        /\ req.ee_write = NextReply.ee_write
    BY <1>1, <1>3, EchoTypes
  <2>2. Sends(req, "softJP3") /\ ReplyGet
    BY <1>5 DEF MonitorSetup
  <2> HIDE DEF req
  <2>3. LinkTypeOK(Request, Reply)' /\ Trying' /\ taken' = FALSE /\ pc' = "sending"
        /\ purpose' = "softJP3" /\ request' = req
    BY <2>1, <2>2, SendTypes
  <2>4. stray' \in BOOLEAN /\ marked' \in BOOLEAN
    BY <1>5, Zenon DEF MonitorSetup
  <2> QED  BY <1>1, <1>5, <2>1, <2>3, <2>4 DEF MonitorSetup
<1> QED  BY <1>2, <1>4, <1>5

LEMMA AccessTypes ==
  ASSUME TypeOK, BAT3readEEPROM \/ BAT3writeEEPROM
  PROVE  /\ TypeOK' /\ Trying'
         /\ NextReply \in Reply /\ request' \in Request
         /\ request'.PWM1en = NextReply.PWM1en
         /\ request'.ee_read = (IF BAT3writeEEPROM THEN 0 ELSE 1)
         /\ request'.ee_write = (IF BAT3writeEEPROM THEN 1 ELSE 0)
         /\ BAT3writeEEPROM => request'.ee_addr = adrs
<1> USE DEF TypeOK
<1>1. NextReply \in Reply /\ ReplyGet
  BY LinkTypes DEF BAT3readEEPROM, BAT3writeEEPROM
<1> DEFINE echo == BAT3requestInitFromReply(NextReply, Argument)
<1>2. echo \in Request /\ echo.PWM1en = NextReply.PWM1en /\ echo.ee_addr = adrs
  BY <1>1, EchoTypes DEF Argument, BAT3requestInitFromReply, Echo
<1>3. CASE BAT3readEEPROM
  <2> DEFINE req == [echo EXCEPT !.ee_read = 1, !.ee_write = 0]
  <2>1. req \in Request /\ req.PWM1en = NextReply.PWM1en /\ req.ee_read = 1 /\ req.ee_write = 0
    <3> HIDE DEF echo
    <3> QED  BY <1>2, DialogueRequests DEF Bit
  <2>2. Sends(req, "read") /\ pc = "get" /\ purpose = "read" /\ ~BAT3writeEEPROM
    BY <1>3 DEF BAT3readEEPROM, BAT3writeEEPROM
  <2> HIDE DEF req
  <2>3. LinkTypeOK(Request, Reply)' /\ Trying' /\ taken' = FALSE /\ pc' = "sending"
        /\ purpose' = "read" /\ request' = req
    BY <1>1, <2>1, <2>2, SendTypes
  <2> QED  BY <1>1, <1>3, <2>1, <2>2, <2>3 DEF BAT3readEEPROM
<1>4. CASE BAT3writeEEPROM
  <2> DEFINE req == [echo EXCEPT !.ee_read = 0, !.ee_write = 1]
  <2>1. req \in Request /\ req.PWM1en = NextReply.PWM1en /\ req.ee_read = 0
        /\ req.ee_write = 1 /\ req.ee_addr = adrs
    <3> HIDE DEF echo
    <3> QED  BY <1>2, DialogueRequests DEF Bit
  <2>2. Sends(req, "write")
    BY <1>4 DEF BAT3writeEEPROM
  <2> HIDE DEF req
  <2>3. LinkTypeOK(Request, Reply)' /\ Trying' /\ taken' = FALSE /\ pc' = "sending"
        /\ purpose' = "write" /\ request' = req
    BY <1>1, <2>1, <2>2, SendTypes
  <2>4. stray' \in BOOLEAN
    BY <1>4, Zenon DEF BAT3writeEEPROM
  <2> QED  BY <1>1, <1>4, <2>1, <2>3, <2>4 DEF BAT3writeEEPROM
<1> QED  BY <1>3, <1>4

LEMMA AnswerTypes ==
  ASSUME TypeOK, Trying, ReadAnswered \/ Answered \/ NotAnswered
  PROVE  /\ TypeOK' /\ Trying'
         /\ NextReply \in Reply
         /\ ReadAnswered => /\ request'.PWM1en = request.PWM1en
                            /\ request'.ee_write = request.ee_write
                            /\ request' \in Request
<1> USE DEF TypeOK
<1>1. NextReply \in Reply /\ ReplyGet
  BY LinkTypes DEF ReadAnswered, Answered, NotAnswered, Accept, Reject
<1>2. CASE ReadAnswered
  <2> DEFINE req == [request EXCEPT !.ee_read = 0]
  <2>1. request \in Request
    BY DEF LinkTypeOK
  <2>2. req \in Request /\ req.PWM1en = request.PWM1en /\ req.ee_write = request.ee_write
    BY <2>1, DialogueRequests DEF Bit
  <2>3. Sends(req, "done")
    BY <1>2 DEF ReadAnswered
  <2> HIDE DEF req
  <2>4. LinkTypeOK(Request, Reply)' /\ Trying' /\ taken' = FALSE /\ pc' = "sending"
        /\ purpose' = "done" /\ request' = req
    BY <1>1, <2>2, <2>3, SendTypes
  <2> QED  BY <1>1, <1>2, <2>2, <2>4 DEF ReadAnswered
<1>3. /\ Accept(IsSatisfied) => LinkTypeOK(Request, Reply)'
      /\ Reject(IsSatisfied) /\ seen < Retries => LinkTypeOK(Request, Reply)'
  <2>1. /\ Accept(TRUE) => LinkTypeOK(Request, Reply)'
        /\ Reject(FALSE) /\ seen < Retries => LinkTypeOK(Request, Reply)'
    BY LinkTypes
  <2> QED  BY <2>1 DEF Accept, Reject
<1>4. CASE Answered
  <2>1. LinkTypeOK(Request, Reply)' /\ ~ReadAnswered
    BY <1>3, <1>4 DEF Answered, ReadAnswered
  <2>2. ledger' \in [Addresses -> Values] /\ ordered' \in Bit
    BY <1>4 DEF Answered, LinkTypeOK, Request
  <2>3. pc' \in {"options", "idle"}
    BY <1>4 DEF Answered
  <2> QED  BY <1>1, <1>4, <2>1, <2>2, <2>3 DEF Answered, Trying
<1>5. CASE NotAnswered
  <2>1. seen < Retries
    BY <1>5 DEF NotAnswered, Trying
  <2>2. LinkTypeOK(Request, Reply)' /\ ~ReadAnswered
    BY <1>3, <1>5, <2>1 DEF NotAnswered, ReadAnswered, Reject
  <2>3. /\ pc' = IF GivesUp(seen + 1) THEN "failed" ELSE pc
        /\ seen' = seen + 1
        /\ UNCHANGED <<program, purpose, bReq, todo, adrs, val, options, programs,
                       board, mem, past>>
    BY <1>5 DEF NotAnswered, Reject
  <2>4. seen \in Nat /\ Retries \in Nat
    BY AvrLinkAssumption DEF LinkTypeOK
  <2>5. Trying'
    BY <1>5, <2>1, <2>3, <2>4 DEF Trying, GivesUp, NotAnswered
  <2> QED  BY <1>1, <2>2, <2>3, <2>5 DEF past
<1> QED  BY <1>2, <1>4, <1>5

LEMMA StepTyped == TypeOK /\ Trying /\ [Next]_vars => TypeOK' /\ Trying'
<1> SUFFICES ASSUME TypeOK, Trying, [Next]_vars PROVE TypeOK' /\ Trying'
  OBVIOUS
<1>1. CASE Start
  BY <1>1, StartTypes
<1>2. CASE Pwm1 \/ Sleep \/ Eeval \/ Eer \/ Eew
  BY <1>2, OptionTypes
<1>3. CASE BAT3setup \/ MonitorSetup
  BY <1>3, SetupTypes
<1>4. CASE BAT3readEEPROM \/ BAT3writeEEPROM
  BY <1>4, AccessTypes
<1>5. CASE ReadAnswered \/ Answered \/ NotAnswered
  BY <1>5, AnswerTypes
<1>6. CASE SendOptions
  <2>1. Sends(bReq, "options") /\ bReq \in Request /\ fromBoard' = fromBoard
    BY <1>6 DEF SendOptions, TypeOK
  <2>2. LinkTypeOK(Request, Reply)' /\ Trying' /\ taken' = FALSE /\ pc' = "sending"
        /\ purpose' = "options"
    BY <2>1, SendTypes
  <2>3. stray' \in BOOLEAN
    BY <1>6, Zenon DEF SendOptions, TypeOK
  <2> QED  BY <1>6, <2>2, <2>3 DEF SendOptions, TypeOK
<1>7. CASE NothingToSend
  BY <1>7 DEF NothingToSend, past, linkVars, LinkTypeOK, TypeOK, Trying
<1>8. CASE PrintReply
  <2>1. fromBoard' \in Seq(Reply) /\ Len(fromBoard') <= MaxQueue
    BY <1>8, AvrLinkAssumption DEF PrintReply, ReplyGet, TypeOK, LinkTypeOK
  <2> QED  BY <1>8, <2>1 DEF PrintReply, past, LinkTypeOK, TypeOK, Trying
<1>9. CASE Silence
  <2>1. LinkTypeOK(Request, Reply)'
    BY <1>9, LinkTypes DEF Silence, TypeOK
  <2> QED  BY <1>9, <2>1 DEF Silence, past, TypeOK, Trying
<1>10. CASE BoardTakes
  <2>1. LinkTypeOK(Request, Reply)'
    BY <1>10, LinkTypes DEF BoardTakes, TypeOK
  <2>2. board' \in Reply /\ mem' \in [Addresses -> Values] /\ taken' \in BOOLEAN
    BY <1>10, TakenTypes
  <2> QED  BY <1>10, <2>1, <2>2 DEF BoardTakes, Taken, own, TypeOK, Trying
<1>11. CASE BoardIsReady
  <2>1. board' \in Reply
    BY <1>11 DEF BoardIsReady, TypeOK, Reply, Bit
  <2> QED  BY <1>11, <2>1 DEF BoardIsReady, own, past, linkVars, LinkTypeOK, TypeOK, Trying
<1>12. CASE BoardReports
  <2>1. LinkTypeOK(Request, Reply)'
    BY <1>12, LinkTypes DEF BoardReports, TypeOK
  <2> QED  BY <1>12, <2>1 DEF BoardReports, Reported, own, past, TypeOK, Trying
<1>13. CASE LoseRequest
  <2>1. LinkTypeOK(Request, Reply)'
    BY <1>13, LinkTypes DEF LoseRequest, TypeOK
  <2> QED  BY <1>13, <2>1 DEF LoseRequest, Lost, own, past, TypeOK, Trying
<1>14. CASE UNCHANGED vars
  BY <1>14 DEF vars, own, past, linkVars, LinkTypeOK, TypeOK, Trying
<1> QED
  BY <1>1, <1>2, <1>3, <1>4, <1>5, <1>6, <1>7, <1>8, <1>9, <1>10, <1>11, <1>12,
     <1>13, <1>14 DEF Next, Proceeds, AllRun

\* Whatever a reply says, and whatever garbage a request starts from, the
\* programs send requests and count their tries.
THEOREM Typing == Spec => [](TypeOK /\ Trying)
  BY InitTyped, StepTyped, PTL DEF Spec

-----------------------------------------------------------------------------
(***************************************************************************)
(* The order of the packets, step by step.                                 *)
(***************************************************************************)

Lines == fromBoard \in Seq(Reply) /\ toBoard \in Seq(Request)

\* A program reads a reply, or throws away what has come, or neither.
GetsLess ==
  /\ \/ fromBoard' = fromBoard
     \/ fromBoard' = <<>>
     \/ fromBoard # <<>> /\ fromBoard' = Tail(fromBoard)
  /\ board' = board

LEMMA LineTypes == TypeOK => Lines /\ board \in Reply /\ request \in Request
  BY DEF TypeOK, LinkTypeOK, Lines

\* What is true of the reply that is read is true of all that follow.
LEMMA ReadFirst ==
  ASSUME NEW S, Lines, fromBoard # <<>>
  PROVE  /\ Follows(S) /\ NextReply \in S => AllIn(S)
         /\ AllIn(S) => NextReply \in S
<1>1. /\ 1 \in DOMAIN fromBoard /\ NextReply = fromBoard[1]
      /\ \A i \in DOMAIN fromBoard : i = 1 \/ 1 < i
  BY DEF Lines, NextReply
<1> QED  BY <1>1 DEF Follows, AllIn

LEMMA ReadLess ==
  ASSUME Lines, GetsLess
  PROVE  \E gone \in Nat :
           \A i \in DOMAIN fromBoard' :
             i \in Nat /\ i + gone \in DOMAIN fromBoard /\ fromBoard'[i] = fromBoard[i + gone]
<1>1. CASE fromBoard' = fromBoard
  <2>1. \A i \in DOMAIN fromBoard : i \in Nat /\ i + 0 = i
    BY DEF Lines
  <2> QED  BY <1>1, <2>1
<1>2. CASE fromBoard' = <<>>
  BY <1>2
<1>3. CASE fromBoard # <<>> /\ fromBoard' = Tail(fromBoard)
  <2>1. \A i \in DOMAIN fromBoard' :
          i \in Nat /\ i + 1 \in DOMAIN fromBoard /\ fromBoard'[i] = fromBoard[i + 1]
    BY <1>3 DEF Lines
  <2> QED  BY <2>1
<1> QED  BY <1>1, <1>2, <1>3 DEF GetsLess

\* A program that sends nothing.
LEMMA OnlyReads ==
  ASSUME NEW S, Lines, GetsLess, toBoard' = toBoard
  PROVE  /\ Follows(S) => Follows(S)'
         /\ AllIn(S) => AllIn(S)'
<1>1. PICK gone \in Nat :
        \A i \in DOMAIN fromBoard' :
          i \in Nat /\ i + gone \in DOMAIN fromBoard /\ fromBoard'[i] = fromBoard[i + gone]
  BY ReadLess
<1> QED  BY <1>1 DEF Follows, AllIn, GetsLess

\* A program that sends.
LEMMA ReadsAndSends ==
  ASSUME NEW S, Lines, GetsLess, NEW req \in Request, toBoard' = Append(toBoard, req)
  PROVE  /\ Follows(S) /\ req \in S => Follows(S)'
         /\ AllIn(S) /\ req \in S => AllIn(S)'
         /\ (/\ \A i \in DOMAIN fromBoard : fromBoard[i] \notin S
             /\ board \notin S
             /\ \A i \in DOMAIN toBoard : toBoard[i] \notin S) => Follows(S)'
<1>1. PICK gone \in Nat :
        \A i \in DOMAIN fromBoard' :
          i \in Nat /\ i + gone \in DOMAIN fromBoard /\ fromBoard'[i] = fromBoard[i + gone]
  BY ReadLess
<1>2. \A i \in DOMAIN toBoard' :
        \/ i \in DOMAIN toBoard /\ toBoard'[i] = toBoard[i]
        \/ toBoard'[i] = req /\ \A j \in DOMAIN toBoard' : ~(i < j)
  <2>1. /\ DOMAIN toBoard' = 1 .. Len(toBoard) + 1 /\ Len(toBoard) \in Nat
        /\ DOMAIN toBoard = 1 .. Len(toBoard)
        /\ \A i \in 1 .. Len(toBoard) : toBoard'[i] = toBoard[i]
        /\ toBoard'[Len(toBoard) + 1] = req
    BY DEF Lines
  <2> QED  BY <2>1
<1>3. board' = board
  BY DEF GetsLess
<1> QED  BY <1>1, <1>2, <1>3 DEF Follows, AllIn

\* The board takes a request, and shows what it says.
LEMMA TakesNext ==
  ASSUME NEW S, Lines, fromBoard' = fromBoard, toBoard # <<>>, toBoard' = Tail(toBoard),
         board' \in S <=> NextRequest \in S
  PROVE  /\ Follows(S) => Follows(S)'
         /\ AllIn(S) => AllIn(S)'
<1>1. /\ 1 \in DOMAIN toBoard /\ NextRequest = toBoard[1]
      /\ \A i \in DOMAIN toBoard' :
           i \in Nat /\ 1 < i + 1 /\ i + 1 \in DOMAIN toBoard /\ toBoard'[i] = toBoard[i + 1]
  BY DEF Lines, NextRequest
<1> QED  BY <1>1 DEF Follows, AllIn

\* A request is lost.
LEMMA LosesNext ==
  ASSUME NEW S, Lines, UNCHANGED <<fromBoard, board>>, toBoard # <<>>,
         toBoard' = Tail(toBoard)
  PROVE  /\ Follows(S) => Follows(S)'
         /\ AllIn(S) => AllIn(S)'
<1>1. \A i \in DOMAIN toBoard' :
        i \in Nat /\ i + 1 \in DOMAIN toBoard /\ toBoard'[i] = toBoard[i + 1]
  BY DEF Lines
<1> QED  BY <1>1 DEF Follows, AllIn

\* The board reports what it shows.
LEMMA Reports ==
  ASSUME NEW S, Lines, UNCHANGED <<toBoard, board>>, board \in Reply,
         fromBoard' = Append(fromBoard, board)
  PROVE  /\ Follows(S) => Follows(S)'
         /\ AllIn(S) => AllIn(S)'
<1>1. \A i \in DOMAIN fromBoard' :
        \/ i \in DOMAIN fromBoard /\ fromBoard'[i] = fromBoard[i]
        \/ fromBoard'[i] = board /\ \A j \in DOMAIN fromBoard' : ~(i < j)
  <2>1. /\ DOMAIN fromBoard' = 1 .. Len(fromBoard) + 1 /\ Len(fromBoard) \in Nat
        /\ DOMAIN fromBoard = 1 .. Len(fromBoard)
        /\ \A i \in 1 .. Len(fromBoard) : fromBoard'[i] = fromBoard[i]
        /\ fromBoard'[Len(fromBoard) + 1] = board
    BY DEF Lines
  <2> QED  BY <2>1
<1> QED  BY <1>1 DEF Follows, AllIn

\* What the programs' steps do to the line.
LEMMA ProgramSteps ==
  ASSUME TypeOK, Trying,
         Start \/ Pwm1 \/ Sleep \/ Eeval \/ Eer \/ Eew \/ Proceeds \/ Silence \/ AllRun
         \/ UNCHANGED vars
  PROVE  /\ GetsLess /\ UNCHANGED mem
         /\ toBoard' = toBoard \/ (toBoard' = Append(toBoard, request') /\ request' \in Request)
<1> USE DEF own, past, linkVars, GetsLess
<1>1. CASE MonitorSetup \/ BAT3readEEPROM \/ BAT3writeEEPROM \/ ReadAnswered \/ SendOptions
  <2>1. TypeOK'
    BY <1>1, StepTyped DEF Next, Proceeds
  <2>2. request' \in Request
    BY <2>1 DEF TypeOK, LinkTypeOK
  <2> QED  BY <1>1, <2>2 DEF MonitorSetup, BAT3readEEPROM, BAT3writeEEPROM, ReadAnswered,
                            SendOptions, Sends, Submit, ReplyGet
<1>2. CASE NotAnswered
  <2>1. request' = request /\ request \in Request
    BY <1>2, LineTypes DEF NotAnswered, Reject
  <2> QED  BY <1>2, <2>1 DEF NotAnswered, Reject, ReplyGet
<1>3. CASE Answered \/ BAT3setup \/ PrintReply
  BY <1>3 DEF Answered, Accept, BAT3setup, PrintReply, ReplyGet
<1>4. CASE Start \/ NothingToSend \/ Silence \/ AllRun \/ UNCHANGED vars
  BY <1>4 DEF Start, NothingToSend, Silence, Unanswered, AllRun, vars
<1>5. CASE Pwm1 \/ Sleep \/ Eeval \/ Eer \/ Eew
  BY <1>5 DEF Pwm1, Sleep, Eeval, Eer, Eew, Option
<1> QED  BY <1>1, <1>2, <1>3, <1>4, <1>5 DEF Proceeds

\* What the line and the board do; kind is what the packets of a set have in common.
LEMMA BoardSteps ==
  ASSUME TypeOK, BoardTakes \/ BoardIsReady \/ BoardReports \/ LoseRequest,
         NEW S, S = JP3set \/ \E on \in Bit : S = Switched(on)
  PROVE  /\ Follows(S) => Follows(S)'
         /\ AllIn(S) => AllIn(S)'
<1> USE LineTypes
<1>1. CASE BoardTakes
  <2>1. /\ board' \in Reply /\ NextRequest \in Request
        /\ board'.PWM1en = NextRequest.PWM1en /\ board'.softJP3 = NextRequest.softJP3
        /\ toBoard # <<>> /\ toBoard' = Tail(toBoard)
    BY <1>1, TakenTypes
  <2>2. board' \in S <=> NextRequest \in S
    BY <2>1 DEF JP3set, Switched
  <2>3. fromBoard' = fromBoard
    BY <1>1 DEF BoardTakes, Taken
  <2> QED  BY <2>1, <2>2, <2>3, TakesNext
<1>2. CASE BoardIsReady
  <2>1. board' \in Reply /\ board \in Reply
        /\ board'.PWM1en = board.PWM1en /\ board'.softJP3 = board.softJP3
    BY <1>2 DEF BoardIsReady, Reply, Bit
  <2>2. board' \in S <=> board \in S
    BY <2>1 DEF JP3set, Switched
  <2> QED  BY <1>2, <2>2 DEF BoardIsReady, linkVars, Follows, AllIn
<1>3. CASE BoardReports
  BY <1>3, Reports DEF BoardReports, Reported
<1>4. CASE LoseRequest
  BY <1>4, LosesNext DEF LoseRequest, Lost
<1> QED  BY <1>1, <1>2, <1>3, <1>4

-----------------------------------------------------------------------------
(***************************************************************************)
(* The switches.                                                           *)
(***************************************************************************)

LEMMA SwitchInit == Init => SwitchInv
<1> SUFFICES ASSUME Init PROVE SwitchInv
  OBVIOUS
<1>1. board \in Reply
  BY UtilityAssumption DEF Init
<1> QED  BY <1>1 DEF Init, SwitchInv, AllIn, Switched

LEMMA SwitchStart ==
  TypeOK /\ SwitchInv /\ Start => SwitchInv'
<1> SUFFICES ASSUME TypeOK, SwitchInv, Start PROVE SwitchInv'
  OBVIOUS
<1>1. fromBoard' = <<>> /\ toBoard' = <<>> /\ board' = board /\ pc' = "setup"
  BY DEF Start
<1>2. board \in Switched(ordered')
  BY LineTypes DEF Start, SwitchInv, AllIn, Switched
<1> QED  BY <1>1, <1>2 DEF SwitchInv, AllIn

\* Between the programs' requests nothing changes the switches.
LEMMA SwitchReads ==
  TypeOK /\ Trying /\ SwitchInv
    /\ (\/ Pwm1 \/ Sleep \/ Eeval \/ Eer \/ Eew
       \/ BAT3setup \/ NothingToSend \/ PrintReply)
  => SwitchInv'
<1> SUFFICES ASSUME TypeOK, Trying, SwitchInv,
                    \/ Pwm1 \/ Sleep \/ Eeval \/ Eer \/ Eew
                    \/ BAT3setup \/ NothingToSend \/ PrintReply
             PROVE  SwitchInv'
  OBVIOUS
<1>1. /\ pc \notin {"sending", "failed"} /\ pc' # "sending" /\ ordered' = ordered
      /\ toBoard' = toBoard
  BY DEF Pwm1, Sleep, Eeval, Eer, Eew, Option, BAT3setup, NothingToSend, PrintReply,
         past, linkVars
<1>2. GetsLess
  BY ProgramSteps DEF Proceeds
<1>3. PICK v : v = ordered
  OBVIOUS
<1>4. AllIn(Switched(v))
  BY <1>1, <1>3 DEF SwitchInv
<1>5. AllIn(Switched(v))'
  BY <1>1, <1>2, <1>4, LineTypes, OnlyReads
<1> QED  BY <1>1, <1>3, <1>5 DEF SwitchInv, AllIn

\* The dialogues echo them.
LEMMA SwitchDialogues ==
  TypeOK /\ Trying /\ SwitchInv
    /\ (MonitorSetup \/ BAT3readEEPROM \/ BAT3writeEEPROM \/ ReadAnswered)
  => SwitchInv'
<1> SUFFICES ASSUME TypeOK, Trying, SwitchInv,
                    MonitorSetup \/ BAT3readEEPROM \/ BAT3writeEEPROM \/ ReadAnswered
             PROVE  SwitchInv'
  OBVIOUS
<1> USE DEF MonitorSetup, BAT3readEEPROM, BAT3writeEEPROM, ReadAnswered
<1>1. /\ pc # "failed" /\ ~(pc = "sending" /\ purpose = "options")
      /\ pc' = "sending" /\ purpose' # "options" /\ ordered' = ordered
      /\ toBoard' = Append(toBoard, request') /\ fromBoard # <<>>
  BY DEF Sends, Submit, ReplyGet
<1>2. GetsLess
  BY ProgramSteps DEF Proceeds
<1>3. PICK v : v = ordered
  OBVIOUS
<1>4. AllIn(Switched(v))
  BY <1>1, <1>3 DEF SwitchInv
<1>5. NextReply.PWM1en = v
  BY <1>1, <1>4, LineTypes, ReadFirst DEF Switched
<1>6. request'.PWM1en = v
  <2>1. CASE MonitorSetup
    BY <2>1, <1>5, SetupTypes
  <2>2. CASE BAT3readEEPROM \/ BAT3writeEEPROM
    BY <2>2, <1>5, AccessTypes
  <2>3. CASE ReadAnswered
    BY <2>3, <1>1, <1>3, AnswerTypes DEF SwitchInv
  <2> QED  BY <2>1, <2>2, <2>3
<1>7. request' \in Request
  <2>1. TypeOK'
    BY StepTyped DEF Next, Proceeds
  <2> QED  BY <2>1 DEF TypeOK, LinkTypeOK
<1>8. AllIn(Switched(v))'
  BY <1>1, <1>2, <1>4, <1>6, <1>7, LineTypes, ReadsAndSends DEF Switched
<1> QED  BY <1>1, <1>3, <1>6, <1>8 DEF SwitchInv, AllIn

\* The options' request is the one that may change them.
LEMMA SwitchSends ==
  TypeOK /\ Trying /\ SwitchInv /\ SendOptions => SwitchInv'
<1> SUFFICES ASSUME TypeOK, Trying, SwitchInv, SendOptions PROVE SwitchInv'
  OBVIOUS
<1>1. /\ pc = "options" /\ pc' = "sending" /\ purpose' = "options" /\ request' = bReq
      /\ toBoard' = Append(toBoard, bReq) /\ bReq \in Request
  BY DEF SendOptions, Sends, Submit, TypeOK
<1>2. GetsLess
  BY ProgramSteps DEF Proceeds
<1>3. PICK v : v = bReq.PWM1en
  OBVIOUS
<1>4. bReq \in Switched(v)
  BY <1>1, <1>3 DEF Switched
<1>5. AllIn(Switched(ordered))
  BY <1>1 DEF SwitchInv
<1>6. Follows(Switched(v))'
  <2>1. CASE v = ordered
    <3>1. AllIn(Switched(v))
      BY <1>5, <2>1
    <3>2. AllIn(Switched(v))'
      BY <1>1, <1>2, <1>4, <3>1, LineTypes, ReadsAndSends
    <3> QED  BY <3>2 DEF AllIn, Follows
  <2>2. CASE v # ordered
    <3>1. /\ \A i \in DOMAIN fromBoard : fromBoard[i] \notin Switched(v)
          /\ board \notin Switched(v)
          /\ \A i \in DOMAIN toBoard : toBoard[i] \notin Switched(v)
      BY <1>5, <2>2 DEF AllIn, Switched
    <3> QED  BY <1>1, <1>2, <3>1, LineTypes, ReadsAndSends
  <2> QED  BY <2>1, <2>2
<1> QED  BY <1>1, <1>3, <1>6 DEF SwitchInv, Follows

LEMMA SwitchAnswers ==
  TypeOK /\ Trying /\ SwitchInv /\ (Answered \/ NotAnswered \/ Silence) => SwitchInv'
<1> SUFFICES ASSUME TypeOK, Trying, SwitchInv, Answered \/ NotAnswered \/ Silence
             PROVE  SwitchInv'
  OBVIOUS
<1>1. GetsLess
  BY ProgramSteps DEF Proceeds
<1>2. CASE Silence
  BY <1>2 DEF Silence, SwitchInv
<1>3. CASE Answered
  <2>1. /\ pc = "sending" /\ pc' \in {"options", "idle"} /\ toBoard' = toBoard
        /\ fromBoard # <<>> /\ IsSatisfied
        /\ ordered' = IF purpose = "options" THEN request.PWM1en ELSE ordered
    BY <1>3 DEF Answered, Accept, ReplyGet
  <2>2. PICK v : v = ordered'
    OBVIOUS
  <2>3. AllIn(Switched(v))
    <3>1. CASE purpose = "options"
      <4>1. Follows(Switched(v)) /\ v = request.PWM1en
        BY <2>1, <2>2, <3>1 DEF SwitchInv
      <4>2. NextReply.PWM1en = request.PWM1en
        BY <2>1, <3>1 DEF IsSatisfied, Satisfied, BAT3callback
      <4>3. NextReply \in Switched(v)
        BY <1>3, <4>1, <4>2, AnswerTypes DEF Switched
      <4> QED  BY <2>1, <4>1, <4>3, LineTypes, ReadFirst
    <3>2. CASE purpose # "options"
      BY <2>1, <2>2, <3>2 DEF SwitchInv
    <3> QED  BY <3>1, <3>2
  <2>4. AllIn(Switched(v))'
    BY <1>1, <2>1, <2>3, LineTypes, OnlyReads
  <2> QED  BY <2>1, <2>2, <2>4 DEF SwitchInv, AllIn
<1>4. CASE NotAnswered
  <2>1. /\ pc = "sending" /\ pc' \in {"sending", "failed"} /\ purpose' = purpose
        /\ request' = request /\ ordered' = ordered
        /\ toBoard' = toBoard \/ toBoard' = Append(toBoard, request)
    BY <1>4 DEF NotAnswered, Reject, past
  <2>2. CASE purpose = "options"
    <3>1. PICK v : v = request.PWM1en
      OBVIOUS
    <3>2. Follows(Switched(v)) /\ request \in Switched(v)
      BY <2>1, <2>2, <3>1, LineTypes DEF SwitchInv, Switched
    <3>3. Follows(Switched(v))'
      BY <1>1, <2>1, <3>2, LineTypes, OnlyReads, ReadsAndSends
    <3> QED  BY <2>1, <2>2, <3>1, <3>3 DEF SwitchInv, Follows
  <2>3. CASE purpose # "options"
    <3>1. PICK v : v = ordered
      OBVIOUS
    <3>2. AllIn(Switched(v)) /\ request \in Switched(v) /\ request.PWM1en = v
      BY <2>1, <2>3, <3>1, LineTypes DEF SwitchInv, Switched
    <3>3. AllIn(Switched(v))'
      BY <1>1, <2>1, <3>2, LineTypes, OnlyReads, ReadsAndSends
    <3> QED  BY <2>1, <2>3, <3>1, <3>2, <3>3 DEF SwitchInv, AllIn
  <2> QED  BY <2>2, <2>3
<1> QED  BY <1>2, <1>3, <1>4

LEMMA SwitchBoard ==
  TypeOK /\ SwitchInv /\ (BoardTakes \/ BoardIsReady \/ BoardReports \/ LoseRequest)
  => SwitchInv'
<1> SUFFICES ASSUME TypeOK, SwitchInv,
                    BoardTakes \/ BoardIsReady \/ BoardReports \/ LoseRequest
             PROVE  SwitchInv'
  OBVIOUS
<1>1. UNCHANGED <<pc, purpose, request, ordered>>
  BY DEF BoardTakes, Taken, BoardIsReady, BoardReports, Reported, LoseRequest, Lost,
         own, past, linkVars
<1>2. CASE pc = "sending" /\ purpose = "options"
  <2>1. PICK v : v = request.PWM1en
    OBVIOUS
  <2>2. v \in Bit
    BY <2>1, LineTypes DEF Request
  <2>3. Follows(Switched(v)) => Follows(Switched(v))'
    BY <2>2, BoardSteps
  <2> QED  BY <1>1, <1>2, <2>1, <2>3 DEF SwitchInv, Follows
<1>3. CASE ~(pc = "sending" /\ purpose = "options")
  <2>1. PICK v : v = ordered
    OBVIOUS
  <2>2. v \in Bit
    BY <2>1 DEF TypeOK
  <2>3. AllIn(Switched(v)) => AllIn(Switched(v))'
    BY <2>2, BoardSteps
  <2> QED  BY <1>1, <1>3, <2>1, <2>3 DEF SwitchInv, AllIn
<1> QED  BY <1>2, <1>3

LEMMA SwitchStep == TypeOK /\ Trying /\ SwitchInv /\ [Next]_vars => SwitchInv'
<1>1. UNCHANGED vars /\ SwitchInv => SwitchInv'
  BY DEF vars, own, past, linkVars, SwitchInv, AllIn, Follows
<1> QED
  BY <1>1, SwitchStart, SwitchReads, SwitchDialogues, SwitchSends, SwitchAnswers,
     SwitchBoard DEF Next, Proceeds, AllRun

\* The monitor's request sets softJP3, and nothing else is sent after it.
LEMMA MonitorStep == TypeOK /\ Trying /\ MonitorInv /\ [Next]_vars => MonitorInv'
<1> SUFFICES ASSUME TypeOK, Trying, MonitorInv, [Next]_vars, program' = "ups-monitor"
             PROVE  MonitorInv'
  BY DEF MonitorInv
<1> USE LineTypes
<1>1. CASE Start
  BY <1>1 DEF Start, MonitorInv, Follows
<1>2. CASE MonitorSetup
  <2>1. /\ pc = "setup" /\ program = "ups-monitor" /\ pc' = "sending"
        /\ purpose' = "softJP3" /\ toBoard' = Append(toBoard, request')
    BY <1>2 DEF MonitorSetup, Sends, Submit
  <2>2. TypeOK' /\ request'.softJP3 = 1
    BY <1>2, SetupTypes
  <2>3. request' \in Request /\ request' \in JP3set
    BY <2>2 DEF JP3set, TypeOK, LinkTypeOK
  <2>4. Follows(JP3set)
    BY <2>1 DEF MonitorInv
  <2>5. GetsLess
    BY <1>2, ProgramSteps DEF Proceeds
  <2>6. Follows(JP3set)'
    BY <2>1, <2>3, <2>4, <2>5, ReadsAndSends
  <2> QED  BY <2>1, <2>2, <2>6 DEF MonitorInv
<1>3. CASE Answered
  <2>1. /\ pc = "sending" /\ pc' = (IF purpose \in {"write", "done"} THEN "options" ELSE "idle")
        /\ fromBoard # <<>> /\ toBoard' = toBoard /\ IsSatisfied /\ program' = program
    BY <1>3 DEF Answered, Accept, ReplyGet
  <2>2. purpose = "softJP3" /\ request.softJP3 = 1 /\ Follows(JP3set)
    BY <2>1 DEF MonitorInv
  <2>3. NextReply \in JP3set
    BY <1>3, <2>1, <2>2, AnswerTypes DEF IsSatisfied, Satisfied, callback, JP3set
  <2>4. GetsLess
    BY <1>3, ProgramSteps DEF Proceeds
  <2>5. AllIn(JP3set)'
    BY <2>1, <2>2, <2>3, <2>4, ReadFirst, OnlyReads
  <2> QED  BY <2>1, <2>2, <2>5 DEF MonitorInv
<1>4. CASE NotAnswered
  <2>1. /\ pc = "sending" /\ pc' \in {"sending", "failed"}
        /\ UNCHANGED <<purpose, request, program>>
        /\ toBoard' = toBoard \/ toBoard' = Append(toBoard, request)
    BY <1>4 DEF NotAnswered, Reject
  <2>2. purpose = "softJP3" /\ request.softJP3 = 1 /\ Follows(JP3set)
    BY <2>1 DEF MonitorInv
  <2>3. request \in JP3set
    BY <2>2 DEF JP3set
  <2>4. GetsLess
    BY <1>4, ProgramSteps DEF Proceeds
  <2>5. Follows(JP3set)'
    BY <2>1, <2>2, <2>3, <2>4, OnlyReads, ReadsAndSends
  <2> QED  BY <2>1, <2>2, <2>5 DEF MonitorInv
<1>5. CASE Silence
  BY <1>5 DEF Silence, MonitorInv
<1>6. CASE BoardTakes \/ BoardIsReady \/ BoardReports \/ LoseRequest
  <2>1. UNCHANGED <<pc, purpose, request, program>>
    BY <1>6 DEF BoardTakes, Taken, BoardIsReady, BoardReports, Reported, LoseRequest,
                Lost, own, past, linkVars
  <2>2. /\ Follows(JP3set) => Follows(JP3set)'
        /\ AllIn(JP3set) => AllIn(JP3set)'
    BY <1>6, BoardSteps
  <2> QED  BY <2>1, <2>2 DEF MonitorInv
<1>7. CASE UNCHANGED vars
  BY <1>7 DEF vars, own, past, linkVars, MonitorInv, Follows, AllIn
<1>8. ~(\/ Pwm1 \/ Sleep \/ Eeval \/ Eer \/ Eew \/ BAT3setup \/ BAT3readEEPROM
        \/ BAT3writeEEPROM \/ SendOptions \/ NothingToSend \/ PrintReply \/ ReadAnswered)
  BY DEF Pwm1, Sleep, Eeval, Eer, Eew, Option, BAT3setup, BAT3readEEPROM,
         BAT3writeEEPROM, SendOptions, NothingToSend, PrintReply, ReadAnswered, MonitorInv
<1> QED
  BY <1>1, <1>2, <1>3, <1>4, <1>5, <1>6, <1>7, <1>8 DEF Next, Proceeds, AllRun

\* After a program that succeeded the board's switches are as the orders have left
\* them, and softJP3 is set after the monitor, whatever is lost or late.
THEOREM Switching == Spec => []SwitchesAsOrdered
<1>1. Init => MonitorInv
  BY DEF Init, MonitorInv
<1>2. TypeOK /\ SwitchInv /\ MonitorInv => SwitchesAsOrdered
  BY DEF SwitchesAsOrdered, SwitchInv, MonitorInv, AllIn, Switched, JP3set
<1> QED
  BY <1>1, <1>2, InitTyped, StepTyped, SwitchInit, SwitchStep, MonitorStep, PTL DEF Spec

-----------------------------------------------------------------------------
(***************************************************************************)
(* The LED.                                                                *)
(***************************************************************************)

LEMMA FreshStep == TypeOK /\ FreshInv /\ [Next]_vars => FreshInv'
<1> SUFFICES ASSUME TypeOK, FreshInv, [Next]_vars, pc' = "setup"
             PROVE  toBoard' = <<>> /\ \A i \in DOMAIN fromBoard' : Alike(fromBoard'[i], board')
  BY DEF FreshInv, Alike
<1>1. CASE Start
  BY <1>1 DEF Start
<1>2. CASE BoardIsReady
  <2>1. Alike(board, board')
    BY <1>2 DEF BoardIsReady, TypeOK, Reply, Bit, Alike
  <2>2. UNCHANGED <<pc, toBoard, fromBoard>>
    BY <1>2 DEF BoardIsReady, own, linkVars
  <2> QED  BY <2>1, <2>2 DEF FreshInv, Alike
<1>3. CASE BoardReports
  <2>1. UNCHANGED <<pc, toBoard, board>> /\ fromBoard' = Append(fromBoard, board)
    BY <1>3 DEF BoardReports, Reported, own
  <2>2. \A i \in DOMAIN fromBoard' :
          (i \in DOMAIN fromBoard /\ fromBoard'[i] = fromBoard[i]) \/ fromBoard'[i] = board
    BY <2>1, LineTypes DEF Lines
  <2> QED  BY <2>1, <2>2 DEF FreshInv, Alike
<1>4. CASE BoardTakes \/ LoseRequest
  BY <1>4 DEF BoardTakes, Taken, LoseRequest, Lost, own, FreshInv
<1>5. CASE UNCHANGED vars
  BY <1>5 DEF vars, own, linkVars, FreshInv
<1>6. ASSUME \/ Pwm1 \/ Sleep \/ Eeval \/ Eer \/ Eew \/ Proceeds \/ Silence
      PROVE  FALSE
  BY <1>6 DEF Pwm1, Sleep, Eeval, Eer, Eew, Option, Proceeds, Silence, BAT3setup,
              MonitorSetup, BAT3readEEPROM, BAT3writeEEPROM, SendOptions, Sends,
              NothingToSend, PrintReply, ReadAnswered, Answered, NotAnswered
<1> QED  BY <1>1, <1>2, <1>3, <1>4, <1>5, <1>6 DEF Next, AllRun

\* What the programs do to the LED's request.
LEMMA BlinkPrograms ==
  TypeOK /\ Trying /\ FreshInv /\ BlinkInv
    /\ (Start \/ Pwm1 \/ Sleep \/ Eeval \/ Eer \/ Eew \/ Proceeds \/ Silence)
  => BlinkInv'
<1> SUFFICES ASSUME TypeOK, Trying, FreshInv, BlinkInv,
                    Start \/ Pwm1 \/ Sleep \/ Eeval \/ Eer \/ Eew \/ Proceeds \/ Silence,
                    marked'
             PROVE  BlinkInv'
  BY DEF BlinkInv
<1> USE LineTypes
<1>1. CASE BAT3setup
  <2>1. /\ pc' = "options" /\ UNCHANGED <<toBoard, board>> /\ pc = "setup"
        /\ bReq'._led # NextReply._led /\ fromBoard # <<>> /\ fromBoard' = Tail(fromBoard)
    BY <1>1 DEF BAT3setup, ReplyGet
  <2>2. toBoard = <<>> /\ \A i \in DOMAIN fromBoard : fromBoard[i]._led = board._led
    BY <2>1 DEF FreshInv, Alike
  <2>3. NextReply._led = board._led
    BY <2>1, <2>2 DEF NextReply, Lines
  <2>4. \A i \in DOMAIN fromBoard' : i + 1 \in DOMAIN fromBoard /\ fromBoard'[i] = fromBoard[i + 1]
    BY <2>1 DEF Lines
  <2> QED  BY <2>1, <2>2, <2>3, <2>4 DEF BlinkInv, Unlit
<1>2. CASE Pwm1 \/ Sleep \/ Eeval
  <2>1. bReq'._led = bReq._led
    <3>1. bReq \in Request /\ 1 \in Bit
      BY DEF TypeOK, Bit
    <3>2. CASE Pwm1
      BY <3>1, <3>2, OptionRequests, Zenon DEF Pwm1
    <3>3. CASE Sleep
      BY <3>1, <3>3, OptionRequests, Zenon DEF Sleep
    <3>4. CASE Eeval
      BY <3>4 DEF Eeval
    <3> QED  BY <1>2, <3>2, <3>3, <3>4
  <2>2. UNCHANGED <<pc, marked, board, toBoard, fromBoard>> /\ pc = "options"
    BY <1>2 DEF Pwm1, Sleep, Eeval, Option, linkVars
  <2> QED  BY <2>1, <2>2 DEF BlinkInv, Unlit
<1>3. CASE SendOptions
  <2>1. /\ pc = "options" /\ pc' = "sending" /\ purpose' = "options" /\ request' = bReq
        /\ toBoard' = Append(toBoard, bReq) /\ UNCHANGED <<marked, fromBoard, board>>
    BY <1>3 DEF SendOptions, Sends, Submit
  <2>2. toBoard = <<>> /\ Unlit(bReq._led)
    BY <2>1 DEF BlinkInv
  <2>3. \A i \in DOMAIN toBoard' : toBoard'[i] = request'
    BY <2>1, <2>2
  <2> QED  BY <2>1, <2>2, <2>3 DEF BlinkInv, Unlit
<1>4. CASE NotAnswered
  <2>1. /\ pc = "sending" /\ pc' \in {"sending", "failed"}
        /\ UNCHANGED <<purpose, request, marked, taken, board>>
        /\ toBoard' = toBoard \/ toBoard' = Append(toBoard, request)
        /\ fromBoard # <<>> /\ fromBoard' = Tail(fromBoard)
    BY <1>4 DEF NotAnswered, Reject, ReplyGet, past
  <2>2. \A i \in DOMAIN fromBoard' : i + 1 \in DOMAIN fromBoard /\ fromBoard'[i] = fromBoard[i + 1]
    BY <2>1 DEF Lines
  <2>3. \A i \in DOMAIN toBoard' :
          (i \in DOMAIN toBoard /\ toBoard'[i] = toBoard[i]) \/ toBoard'[i] = request
    <3>1. ASSUME NEW S, NEW q \in Seq(S), NEW e, NEW i \in DOMAIN Append(q, e)
          PROVE  (i \in DOMAIN q /\ Append(q, e)[i] = q[i]) \/ Append(q, e)[i] = e
      OBVIOUS
    <3>2. toBoard \in Seq(Request)
      BY DEF TypeOK, LinkTypeOK
    <3>3. CASE toBoard' = toBoard
      BY ONLY <3>3
    <3>4. CASE toBoard' = Append(toBoard, request)
      BY ONLY <3>1, <3>2, <3>4
    <3> QED  BY <2>1, <3>3, <3>4
  <2> QED  BY <2>1, <2>2, <2>3 DEF BlinkInv, Unlit
<1>5. CASE NothingToSend \/ PrintReply \/ Answered \/ Silence
  BY <1>5 DEF NothingToSend, PrintReply, Answered, Silence, past, BlinkInv
<1>6. ~(Start \/ Eer \/ Eew \/ MonitorSetup \/ BAT3readEEPROM \/ BAT3writeEEPROM \/ ReadAnswered)
  BY DEF Start, Eer, Eew, MonitorSetup, BAT3readEEPROM, BAT3writeEEPROM, ReadAnswered,
         BlinkInv
<1> QED  BY <1>1, <1>2, <1>3, <1>4, <1>5, <1>6 DEF Proceeds

LEMMA BlinkBoard ==
  TypeOK /\ BlinkInv /\ (BoardTakes \/ BoardIsReady \/ BoardReports \/ LoseRequest)
  => BlinkInv'
<1> SUFFICES ASSUME TypeOK, BlinkInv, marked',
                    BoardTakes \/ BoardIsReady \/ BoardReports \/ LoseRequest
             PROVE  BlinkInv'
  BY DEF BlinkInv
<1> USE LineTypes
<1>1. UNCHANGED <<pc, purpose, request, marked, bReq>>
  BY DEF BoardTakes, Taken, BoardIsReady, BoardReports, Reported, LoseRequest, Lost,
         own, past, linkVars
<1>2. CASE BoardTakes
  <2>1. toBoard # <<>> /\ taken' = (taken \/ NextRequest = request)
    BY <1>2 DEF BoardTakes, Taken
  <2>2. NextRequest = toBoard[1] /\ 1 \in DOMAIN toBoard
    BY <2>1 DEF NextRequest, Lines
  <2>3. pc = "sending" => taken'
    BY <1>1, <2>1, <2>2 DEF BlinkInv
  <2> QED  BY <1>1, <2>1, <2>3 DEF BlinkInv
<1>3. CASE BoardIsReady
  <2>1. board'._led = board._led
    BY <1>3 DEF BoardIsReady, TypeOK, Reply, Bit
  <2>2. UNCHANGED <<toBoard, fromBoard, taken>>
    BY <1>3 DEF BoardIsReady, past, linkVars
  <2> QED  BY <1>1, <2>1, <2>2 DEF BlinkInv, Unlit
<1>4. CASE BoardReports
  <2>1. UNCHANGED <<toBoard, board, taken>> /\ fromBoard' = Append(fromBoard, board)
    BY <1>4 DEF BoardReports, Reported, past
  <2>2. \A i \in DOMAIN fromBoard' :
          (i \in DOMAIN fromBoard /\ fromBoard'[i] = fromBoard[i]) \/ fromBoard'[i] = board
    BY <2>1 DEF Lines
  <2> QED  BY <1>1, <2>1, <2>2 DEF BlinkInv, Unlit
<1>5. CASE LoseRequest
  <2>1. /\ UNCHANGED <<fromBoard, board, taken>> /\ toBoard # <<>>
        /\ toBoard' = Tail(toBoard)
    BY <1>5 DEF LoseRequest, Lost, past
  <2>2. \A i \in DOMAIN toBoard' : i + 1 \in DOMAIN toBoard /\ toBoard'[i] = toBoard[i + 1]
    BY <2>1 DEF Lines
  <2> QED  BY <1>1, <2>1, <2>2 DEF BlinkInv, Unlit
<1> QED  BY <1>2, <1>3, <1>4, <1>5

LEMMA BlinkStep == TypeOK /\ Trying /\ FreshInv /\ BlinkInv /\ [Next]_vars => BlinkInv'
<1>1. UNCHANGED vars /\ BlinkInv => BlinkInv'
  BY DEF vars, own, past, linkVars, BlinkInv, Unlit
<1> QED  BY <1>1, BlinkPrograms, BlinkBoard DEF Next, AllRun

\* A request that changes the LED and is acknowledged has reached the board, also
\* when requests are lost and replies are old: --sleep relies on it.
THEOREM Blinking == Spec => BlinkProvesReceipt
<1>1. Init => FreshInv /\ BlinkInv
  BY DEF Init, FreshInv, BlinkInv
<1>2. TypeOK /\ Trying /\ BlinkInv /\ [Next]_vars =>
        [purpose = "options" /\ pc = "sending" /\ pc' = "idle" /\ marked => taken]_vars
  <2> SUFFICES ASSUME TypeOK, Trying, BlinkInv, Next, purpose = "options", pc = "sending",
                      pc' = "idle", marked, ~taken
               PROVE  FALSE
    BY Zenon
  <2>1. Answered
    BY DEF Next, Start, Pwm1, Sleep, Eeval, Eer, Eew, Option, Proceeds, BAT3setup,
           MonitorSetup, BAT3readEEPROM, BAT3writeEEPROM, SendOptions, NothingToSend,
           PrintReply, ReadAnswered, NotAnswered, Silence, BoardTakes, BoardIsReady,
           BoardReports, LoseRequest, AllRun, own
  <2>2. fromBoard # <<>> /\ IsSatisfied
    BY <2>1 DEF Answered, Accept, ReplyGet
  <2>3. NextReply._led = request._led
    BY <2>2 DEF IsSatisfied, Satisfied, BAT3callback
  <2>4. 1 \in DOMAIN fromBoard /\ NextReply = fromBoard[1]
    BY <2>2, LineTypes DEF Lines, NextReply
  <2> QED  BY <2>3, <2>4 DEF BlinkInv, Unlit
<1> QED
  BY <1>1, <1>2, InitTyped, StepTyped, FreshStep, BlinkStep, PTL
  DEF Spec, BlinkProvesReceipt

-----------------------------------------------------------------------------
(***************************************************************************)
(* The EEPROM.                                                             *)
(***************************************************************************)

\* What is on the line after a program's step was there, or is its request.
LEMMA OldPackets ==
  ASSUME Lines, GetsLess, toBoard' = toBoard \/ toBoard' = Append(toBoard, request')
  PROVE  /\ \A i \in DOMAIN fromBoard' :
              \E j \in DOMAIN fromBoard : fromBoard'[i] = fromBoard[j]
         /\ \A i \in DOMAIN toBoard' :
              \/ toBoard' # toBoard /\ toBoard'[i] = request'
              \/ \E j \in DOMAIN toBoard : toBoard'[i] = toBoard[j]
<1>1. \A i \in DOMAIN fromBoard' :
        \E j \in DOMAIN fromBoard : fromBoard'[i] = fromBoard[j]
  BY ReadLess
<1>2. CASE toBoard' = toBoard
  BY <1>1, <1>2
<1>3. CASE toBoard' = Append(toBoard, request')
  <2>1. /\ DOMAIN toBoard' = 1 .. Len(toBoard) + 1 /\ Len(toBoard) \in Nat
        /\ DOMAIN toBoard = 1 .. Len(toBoard)
        /\ \A i \in 1 .. Len(toBoard) : toBoard'[i] = toBoard[i]
        /\ toBoard'[Len(toBoard) + 1] = request'
    BY <1>3 DEF Lines
  <2>2. Len(toBoard) + 1 \notin DOMAIN toBoard /\ toBoard' # toBoard
    BY <2>1
  <2> QED  BY <1>1, <2>1, <2>2
<1> QED  BY <1>2, <1>3

\* What the board does to the line: it takes the first, or it shows what it is.
LEMMA NewPackets ==
  ASSUME Lines, board \in Reply
  PROVE  /\ toBoard # <<>> =>
              /\ \A i \in DOMAIN Tail(toBoard) :
                   i + 1 \in DOMAIN toBoard /\ Tail(toBoard)[i] = toBoard[i + 1]
              /\ 1 \in DOMAIN toBoard /\ NextRequest = toBoard[1]
         /\ \A i \in DOMAIN Append(fromBoard, board) :
              \/ Append(fromBoard, board)[i] = board
              \/ i \in DOMAIN fromBoard /\ Append(fromBoard, board)[i] = fromBoard[i]
<1>1. toBoard # <<>> =>
        /\ \A i \in DOMAIN Tail(toBoard) :
             i + 1 \in DOMAIN toBoard /\ Tail(toBoard)[i] = toBoard[i + 1]
        /\ 1 \in DOMAIN toBoard /\ NextRequest = toBoard[1]
  BY DEF Lines, NextRequest
<1>2. \A i \in DOMAIN Append(fromBoard, board) :
        \/ Append(fromBoard, board)[i] = board
        \/ i \in DOMAIN fromBoard /\ Append(fromBoard, board)[i] = fromBoard[i]
  BY DEF Lines
<1> QED  BY <1>1, <1>2

LEMMA EepromInit == Init => EepromInv
<1> SUFFICES ASSUME Init PROVE EepromInv
  OBVIOUS
<1>1. EepromIdle(board)
  BY UtilityAssumption DEF Init
<1> QED  BY <1>1 DEF Init, EepromInv, Tells, Writing

\* Nothing is written by a step that sends no write, when no write is under way.
LEMMA EepromReads ==
  ASSUME TypeOK, EepromInv, GetsLess, ~stray, pc # "failed", ~Writing,
         mem' = mem, ledger' = ledger,
         \/ toBoard' = toBoard /\ pc' # "sending"
         \/ /\ toBoard' = toBoard \/ toBoard' = Append(toBoard, request')
            /\ request'.ee_write = 0 /\ purpose' # "write"
  PROVE  EepromInv'
<1>1. /\ \A i \in DOMAIN fromBoard' :
           \E j \in DOMAIN fromBoard : fromBoard'[i] = fromBoard[j]
      /\ \A i \in DOMAIN toBoard' :
           \/ toBoard' # toBoard /\ toBoard'[i] = request'
           \/ \E j \in DOMAIN toBoard : toBoard'[i] = toBoard[j]
  BY LineTypes, OldPackets
<1>2. /\ \A i \in DOMAIN toBoard : toBoard[i].ee_write = 1 => toBoard[i].ee_read = 0
      /\ Tells(board) /\ \A i \in DOMAIN fromBoard : Tells(fromBoard[i])
      /\ mem = ledger /\ \A i \in DOMAIN toBoard : Done(toBoard[i])
  BY DEF EepromInv, Writing
<1>3. /\ \A i \in DOMAIN toBoard' : toBoard'[i].ee_write = 1 => toBoard'[i].ee_read = 0
      /\ (\A i \in DOMAIN toBoard : Done(toBoard[i]))'
  BY <1>1, <1>2 DEF Done
<1>4. Tells(board)' /\ (\A i \in DOMAIN fromBoard : Tells(fromBoard[i]))'
  BY <1>1, <1>2 DEF Tells, GetsLess
<1> QED  BY <1>2, <1>3, <1>4 DEF EepromInv, Writing, Done, Tells

\* The requests that write nothing.
LEMMA NoWrite ==
  ASSUME TypeOK, Trying, EepromInv, ~stray', ~Writing,
         \/ Pwm1 \/ Sleep \/ Eeval \/ Eer \/ Eew
         \/ BAT3setup \/ MonitorSetup \/ BAT3readEEPROM \/ SendOptions \/ NothingToSend
         \/ PrintReply \/ ReadAnswered \/ Answered \/ NotAnswered \/ Silence
  PROVE  EepromInv'
<1>1. GetsLess /\ mem' = mem
  BY ProgramSteps DEF Proceeds
<1>2. CASE \/ Pwm1 \/ Sleep \/ Eeval \/ Eer \/ Eew
           \/ BAT3setup \/ NothingToSend \/ PrintReply \/ Silence
  <2>1. ~stray /\ pc # "failed" /\ ledger' = ledger /\ toBoard' = toBoard /\ pc' # "sending"
    BY <1>2 DEF Pwm1, Sleep, Eeval, Eer, Eew, Option, BAT3setup, NothingToSend,
                PrintReply, Silence, Unanswered, past, linkVars
  <2> QED  BY <1>1, <2>1, EepromReads
<1>3. CASE MonitorSetup
  <2>1. /\ ~stray /\ NextReply.ee_write # 1 /\ pc = "setup" /\ ledger' = ledger
        /\ toBoard' = Append(toBoard, request') /\ purpose' = "softJP3"
    BY <1>3 DEF MonitorSetup, Sends, Submit
  <2>2. request'.ee_write = NextReply.ee_write /\ NextReply.ee_write \in Bit
    BY <1>3, SetupTypes DEF Reply
  <2>3. request'.ee_write = 0
    BY <2>1, <2>2 DEF Bit
  <2> QED  BY <1>1, <2>1, <2>3, EepromReads
<1>4. CASE BAT3readEEPROM
  <2>1. /\ ~stray /\ pc = "get" /\ ledger' = ledger /\ purpose = "read"
        /\ toBoard' = Append(toBoard, request') /\ purpose' = "read"
    BY <1>4 DEF BAT3readEEPROM, Sends, Submit
  <2>2. request'.ee_write = 0
    BY <1>4, <2>1, AccessTypes DEF BAT3writeEEPROM
  <2> QED  BY <1>1, <2>1, <2>2, EepromReads
<1>5. CASE SendOptions
  <2>1. /\ ~stray /\ bReq.ee_write # 1 /\ pc = "options" /\ ledger' = ledger
        /\ toBoard' = Append(toBoard, request') /\ purpose' = "options" /\ request' = bReq
    BY <1>5 DEF SendOptions, Sends, Submit
  <2>2. request'.ee_write = 0
    BY <2>1 DEF TypeOK, Request, Bit
  <2> QED  BY <1>1, <2>1, <2>2, EepromReads
<1>6. CASE ReadAnswered
  <2>1. /\ ~stray /\ pc = "sending" /\ ledger' = ledger /\ purpose = "read"
        /\ toBoard' = Append(toBoard, request') /\ purpose' = "done"
    BY <1>6 DEF ReadAnswered, Sends, Submit
  <2>2. request'.ee_write = request.ee_write /\ request.ee_write = 0
    BY <1>6, <2>1, AnswerTypes DEF EepromInv
  <2> QED  BY <1>1, <2>1, <2>2, EepromReads
<1>7. CASE Answered
  <2>1. /\ ~stray /\ pc = "sending" /\ purpose # "write" /\ ledger' = ledger
        /\ toBoard' = toBoard /\ pc' # "sending"
    BY <1>7 DEF Answered, Accept, Writing
  <2> QED  BY <1>1, <2>1, EepromReads
<1>8. CASE NotAnswered
  <2>1. /\ ~stray /\ pc = "sending" /\ purpose # "write" /\ ledger' = ledger
        /\ purpose' = purpose /\ request' = request
        /\ toBoard' = toBoard \/ toBoard' = Append(toBoard, request')
    BY <1>8 DEF NotAnswered, Reject, Writing, past
  <2>2. request'.ee_write = 0
    BY <2>1 DEF EepromInv
  <2> QED  BY <1>1, <2>1, <2>2, EepromReads
<1> QED  BY <1>2, <1>3, <1>4, <1>5, <1>6, <1>7, <1>8

\* An --eew starts when nothing is in its way.
LEMMA WriteStarts ==
  ASSUME TypeOK, Trying, EepromInv, ~stray', BAT3writeEEPROM
  PROVE  EepromInv'
<1>1. GetsLess /\ mem' = mem
  BY ProgramSteps DEF Proceeds
<1>2. /\ ~stray /\ ~InTheWay(adrs) /\ pc = "get" /\ ledger' = ledger /\ pc' = "sending"
      /\ purpose' = "write" /\ toBoard' = Append(toBoard, request')
  BY DEF BAT3writeEEPROM, Sends, Submit
<1>3. request'.ee_addr = adrs /\ request'.ee_read = 0 /\ request'.ee_write = 1
  BY AccessTypes
<1>4. /\ \A i \in DOMAIN fromBoard' :
           \E j \in DOMAIN fromBoard : fromBoard'[i] = fromBoard[j]
      /\ \A i \in DOMAIN toBoard' :
           \/ toBoard' # toBoard /\ toBoard'[i] = request'
           \/ \E j \in DOMAIN toBoard : toBoard'[i] = toBoard[j]
  BY <1>1, <1>2, LineTypes, OldPackets
<1>5. /\ \A i \in DOMAIN toBoard : toBoard[i].ee_write = 1 => toBoard[i].ee_read = 0
      /\ Tells(board) /\ \A i \in DOMAIN fromBoard : Tells(fromBoard[i])
      /\ mem = ledger /\ \A i \in DOMAIN toBoard : Done(toBoard[i])
  BY <1>2 DEF EepromInv
<1>6. /\ Tells(board)' /\ (\A i \in DOMAIN fromBoard : Tells(fromBoard[i]))'
      /\ \A i \in DOMAIN toBoard' : toBoard'[i].ee_write = 1 => toBoard'[i].ee_read = 0
  BY <1>1, <1>3, <1>4, <1>5 DEF Tells, GetsLess
<1>7. NotYet'
  <2>1. board' = board /\ Quiet(board)'
    BY <1>1, <1>2, <1>3 DEF GetsLess, InTheWay, Quiet
  <2>2. (\A i \in DOMAIN fromBoard : Quiet(fromBoard[i]))'
    BY <1>2, <1>3, <1>4 DEF InTheWay, Quiet
  <2> QED  BY <1>1, <1>2, <1>5, <2>1, <2>2 DEF NotYet, Quiet
<1>8. (\A i \in DOMAIN toBoard :
         \/ toBoard[i] = request
         \/ /\ Done(toBoard[i])
            /\ toBoard[i].ee_addr = request.ee_addr => ~Accesses(toBoard[i]))'
  BY <1>2, <1>3, <1>4, <1>5 DEF InTheWay, Done
<1> QED  BY <1>2, <1>3, <1>6, <1>7, <1>8 DEF EepromInv, Writing, WriteInv, Done, Tells

\* An --eew is acknowledged, or asks again, or fails.
LEMMA WriteAnswered ==
  ASSUME TypeOK, Trying, EepromInv, ~stray', Writing, Answered \/ NotAnswered \/ Silence
  PROVE  EepromInv'
<1>1. GetsLess /\ mem' = mem
  BY ProgramSteps DEF Proceeds
<1>2. /\ ~stray /\ pc = "sending" /\ purpose = "write" /\ purpose' = "write"
      /\ request' = request
      /\ toBoard' = toBoard \/ toBoard' = Append(toBoard, request')
  BY DEF Writing, Answered, NotAnswered, Silence, Accept, Reject, Unanswered, past
<1>3. /\ \A i \in DOMAIN fromBoard' :
           \E j \in DOMAIN fromBoard : fromBoard'[i] = fromBoard[j]
      /\ \A i \in DOMAIN toBoard' :
           \/ toBoard' # toBoard /\ toBoard'[i] = request'
           \/ \E j \in DOMAIN toBoard : toBoard'[i] = toBoard[j]
  BY <1>1, <1>2, LineTypes, OldPackets
<1>4. /\ \A i \in DOMAIN toBoard : toBoard[i].ee_write = 1 => toBoard[i].ee_read = 0
      /\ Tells(board) /\ \A i \in DOMAIN fromBoard : Tells(fromBoard[i])
      /\ WriteInv
  BY <1>2 DEF EepromInv, Writing
<1>5. /\ Tells(board)' /\ (\A i \in DOMAIN fromBoard : Tells(fromBoard[i]))'
      /\ \A i \in DOMAIN toBoard' : toBoard'[i].ee_write = 1 => toBoard'[i].ee_read = 0
  BY <1>1, <1>2, <1>3, <1>4 DEF Tells, GetsLess, WriteInv
<1>6. CASE Answered
  <2>1. /\ pc' = "options" /\ fromBoard # <<>> /\ toBoard' = toBoard /\ IsSatisfied
        /\ ledger' = [ledger EXCEPT ![request.ee_addr] = request.ee_data]
    BY <1>2, <1>6 DEF Answered, Accept, ReplyGet
  <2>2. NextReply.ee_addr = request.ee_addr /\ NextReply.ee_ready = 1
    BY <1>2, <2>1 DEF IsSatisfied, Satisfied, BAT3EEPROMcallback
  <2>3. 1 \in DOMAIN fromBoard /\ NextReply = fromBoard[1]
    BY <2>1, LineTypes DEF Lines, NextReply
  <2>4. ~NotYet
    BY <2>2, <2>3 DEF NotYet, Quiet, EepromIdle
  <2>5. mem = ledger'
    BY <1>4, <2>1, <2>4 DEF WriteInv
  <2>6. ledger \in [Addresses -> Values] /\ request.ee_addr \in Addresses
    BY LineTypes DEF TypeOK, Request
  <2>7. ASSUME NEW i \in DOMAIN toBoard PROVE Done(toBoard[i])'
    <3>1. toBoard[i].ee_addr \in Addresses
      <4>1. toBoard[i] \in Request
        BY LineTypes DEF Lines
      <4> QED  BY <4>1 DEF Request
    <3>2. CASE toBoard[i] = request
      BY <2>1, <2>6, <3>2 DEF Done
    <3>3. CASE /\ Done(toBoard[i])
               /\ toBoard[i].ee_addr = request.ee_addr => ~Accesses(toBoard[i])
      BY <2>1, <2>6, <3>1, <3>3 DEF Done, Accesses
    <3> QED  BY <1>4, <3>2, <3>3 DEF WriteInv
  <2>8. mem' = ledger' /\ (\A i \in DOMAIN toBoard : Done(toBoard[i]))'
    BY <1>1, <2>1, <2>5, <2>7 DEF Done
  <2> QED  BY <1>5, <2>1, <2>8 DEF EepromInv, Writing, Done, Tells
<1>7. CASE NotAnswered \/ Silence
  <2>1. ledger' = ledger /\ pc' \in {"sending", "failed"}
    BY <1>2, <1>7 DEF NotAnswered, Silence, past
  <2>2. NotYet => NotYet'
    BY <1>1, <1>2, <1>3, <2>1 DEF NotYet, Quiet, GetsLess
  <2>3. WriteInv'
    BY <1>1, <1>2, <1>3, <1>4, <2>1, <2>2 DEF WriteInv, Done
  <2> QED  BY <1>2, <1>5, <2>1, <2>3 DEF EepromInv, Writing, Done, Tells
<1> QED  BY <1>6, <1>7

LEMMA EepromStart ==
  ASSUME TypeOK, EepromInv, ~stray', Start
  PROVE  EepromInv'
<1>1. /\ ~stray /\ pc' = "setup" /\ toBoard' = <<>> /\ fromBoard' = <<>>
      /\ UNCHANGED <<board, mem>> /\ pc \in {"idle", "failed"}
      /\ ledger' = IF pc = "failed" THEN mem ELSE ledger
  BY DEF Start
<1>2. mem' = ledger' /\ Tells(board)'
  BY <1>1 DEF EepromInv, Tells
<1> QED  BY <1>1, <1>2 DEF EepromInv, Writing, Tells, Done

\* The board takes a request: a write that is ordered, or one that changes nothing.
LEMMA EepromTakes ==
  ASSUME TypeOK, EepromInv, ~stray', BoardTakes
  PROVE  EepromInv'
<1> DEFINE req == NextRequest
<1>1. /\ ~stray /\ UNCHANGED <<pc, purpose, request, ledger, fromBoard>>
      /\ mem' = IF req.ee_write = 1 THEN [mem EXCEPT ![req.ee_addr] = req.ee_data] ELSE mem
  BY DEF BoardTakes, Taken, own
<1>2. /\ toBoard # <<>> /\ toBoard' = Tail(toBoard) /\ req \in Request /\ board' \in Reply
      /\ board'.ee_addr = req.ee_addr
      /\ board'.ee_read = req.ee_read /\ board'.ee_write = req.ee_write
      /\ board'.ee_ready = 1 => Accesses(req)
      /\ board'.ee_ready \in Bit
      /\ board'.ee_data = IF req.ee_read = 1 THEN mem[req.ee_addr] ELSE req.ee_data
  BY TakenTypes
<1>3. /\ \A i \in DOMAIN toBoard' : i + 1 \in DOMAIN toBoard /\ toBoard'[i] = toBoard[i + 1]
      /\ 1 \in DOMAIN toBoard /\ req = toBoard[1]
  BY <1>2, LineTypes, NewPackets
<1>4. /\ mem \in [Addresses -> Values] /\ ledger \in [Addresses -> Values]
      /\ req.ee_addr \in Addresses /\ request.ee_addr \in Addresses
      /\ \A i \in DOMAIN fromBoard : fromBoard[i].ee_addr \in Addresses
  <2>1. mem \in [Addresses -> Values] /\ ledger \in [Addresses -> Values]
    BY DEF TypeOK
  <2>2. request \in Request /\ \A i \in DOMAIN fromBoard : fromBoard[i] \in Reply
    BY LineTypes DEF Lines
  <2> QED  BY <1>2, <2>1, <2>2 DEF Request, Reply
<1>5. req.ee_write = 1 => req.ee_read = 0
  BY <1>1, <1>3 DEF EepromInv
<1> HIDE DEF req
<1>6. /\ EepromIdle(board') <=> ~Accesses(req)
      /\ req.ee_read = 1 => req.ee_write # 1
  <2>1. board'.ee_ready # 1 => board'.ee_ready = 0
    BY <1>2 DEF Bit
  <2> QED  BY <1>2, <1>5, <2>1 DEF EepromIdle, Accesses
<1>7. Tells(board)'
  <2>1. CASE req.ee_read = 1
    BY <1>1, <1>2, <1>6, <2>1 DEF Tells
  <2>2. CASE req.ee_read # 1 /\ req.ee_write = 1
    BY <1>1, <1>2, <1>4, <2>2 DEF Tells
  <2>3. CASE ~Accesses(req)
    BY <1>6, <2>3 DEF Tells
  <2> QED  BY <2>1, <2>2, <2>3 DEF Accesses
<1>8. \A i \in DOMAIN toBoard' : toBoard'[i].ee_write = 1 => toBoard'[i].ee_read = 0
  BY <1>1, <1>3 DEF EepromInv
<1>9. CASE Writing
  <2>1. WriteInv
    BY <1>1, <1>9 DEF EepromInv
  <2>2. CASE req = request
    <3>1. mem' = [ledger EXCEPT ![request.ee_addr] = request.ee_data]
      BY <1>1, <1>4, <2>1, <2>2 DEF WriteInv, NotYet
    <3>2. (\A i \in DOMAIN fromBoard : Tells(fromBoard[i]))'
      <4>1. CASE NotYet
        BY <1>1, <1>4, <1>9, <2>2, <4>1 DEF EepromInv, Writing, Tells, NotYet, Quiet
      <4>2. CASE mem = [ledger EXCEPT ![request.ee_addr] = request.ee_data]
        <5>1. mem' = mem
          BY <3>1, <4>2
        <5> QED  BY <1>1, <1>9, <5>1 DEF EepromInv, Writing, Tells
      <4> QED  BY <2>1, <4>1, <4>2 DEF WriteInv
    <3>3. WriteInv'
      <4>1. /\ request'.ee_write = 1 /\ request'.ee_read = 0
            /\ mem' = [ledger' EXCEPT ![request'.ee_addr] = request'.ee_data]
        BY <1>1, <2>1, <3>1 DEF WriteInv
      <4>2. (\A i \in DOMAIN toBoard :
               \/ toBoard[i] = request
               \/ /\ Done(toBoard[i])
                  /\ toBoard[i].ee_addr = request.ee_addr => ~Accesses(toBoard[i]))'
        BY <1>1, <1>3, <2>1 DEF WriteInv, Done
      <4> QED  BY <4>1, <4>2 DEF WriteInv
    <3> QED  BY <1>1, <1>7, <1>8, <1>9, <3>2, <3>3 DEF EepromInv, Writing, Tells
  <2>3. CASE req # request
    <3>1. Done(req) /\ (req.ee_addr = request.ee_addr => ~Accesses(req))
      BY <1>3, <2>1, <2>3 DEF WriteInv
    <3>2. mem' = mem
      <4>1. CASE req.ee_write = 1
        <5>1. req.ee_addr # request.ee_addr /\ ledger[req.ee_addr] = req.ee_data
          BY <3>1, <4>1 DEF Done, Accesses
        <5>2. mem[req.ee_addr] = req.ee_data
          BY <1>4, <2>1, <5>1 DEF WriteInv, NotYet
        <5> QED  BY <1>1, <1>4, <5>2
      <4> QED  BY <1>1, <4>1
    <3>3. NotYet => NotYet'
      BY <1>1, <1>2, <1>6, <3>1, <3>2 DEF NotYet, Quiet
    <3>4. WriteInv'
      BY <1>1, <1>3, <2>1, <3>2, <3>3 DEF WriteInv, Done
    <3> QED  BY <1>1, <1>7, <1>8, <1>9, <3>2, <3>4 DEF EepromInv, Writing, Tells
  <2> QED  BY <2>2, <2>3
<1>10. CASE purpose = "write" /\ pc = "failed"
  BY <1>1, <1>7, <1>8, <1>10 DEF EepromInv, Writing
<1>11. CASE ~(purpose = "write" /\ pc \in {"sending", "failed"})
  <2>1. mem = ledger /\ \A i \in DOMAIN toBoard : Done(toBoard[i])
    BY <1>1, <1>11 DEF EepromInv
  <2>2. mem' = mem
    BY <1>1, <1>3, <1>4, <2>1 DEF Done
  <2> QED  BY <1>1, <1>3, <1>7, <1>8, <1>11, <2>1, <2>2 DEF EepromInv, Writing, Tells, Done
<1> QED  BY <1>9, <1>10, <1>11 DEF Writing

\* Nothing else that happens to the board or the line writes.
LEMMA EepromRests ==
  ASSUME TypeOK, EepromInv, ~stray', BoardIsReady \/ BoardReports \/ LoseRequest
  PROVE  EepromInv'
<1>1. ~stray /\ UNCHANGED <<pc, purpose, request, ledger, mem>>
  BY DEF BoardIsReady, BoardReports, Reported, LoseRequest, Lost, own, past, linkVars
<1>2. /\ board' = board \/ (BoardIsReady /\ Accesses(board))
      /\ board'.ee_addr = board.ee_addr /\ board'.ee_data = board.ee_data
  BY DEF BoardIsReady, BoardReports, LoseRequest, TypeOK, Reply, Bit
<1>3. EepromIdle(board) <=> EepromIdle(board')
  <2>1. CASE BoardIsReady
    <3>1. ~EepromIdle(board) /\ Accesses(board')
      BY <2>1 DEF BoardIsReady, EepromIdle, Accesses, TypeOK, Reply, Bit
    <3> QED  BY <3>1 DEF EepromIdle
  <2> QED  BY <1>2, <2>1
<1>4. /\ \A i \in DOMAIN toBoard' : \E j \in DOMAIN toBoard : toBoard'[i] = toBoard[j]
      /\ \A i \in DOMAIN fromBoard' :
           fromBoard'[i] = board \/ \E j \in DOMAIN fromBoard : fromBoard'[i] = fromBoard[j]
  BY LineTypes, NewPackets DEF BoardIsReady, BoardReports, Reported, LoseRequest, Lost, linkVars
<1>5. Tells(board) => Tells(board)'
  BY <1>1, <1>2, <1>3 DEF Tells
<1>6. /\ Quiet(board) => Quiet(board)'
      /\ NotYet => NotYet'
  BY <1>1, <1>2, <1>3, <1>4 DEF NotYet, Quiet
<1>7. WriteInv => WriteInv'
  BY <1>1, <1>4, <1>6 DEF WriteInv, Done
<1> QED  BY <1>1, <1>4, <1>5, <1>7 DEF EepromInv, Writing, Tells, Done

LEMMA EepromStep == TypeOK /\ Trying /\ EepromInv /\ [Next]_vars => EepromInv'
<1> SUFFICES ASSUME TypeOK, Trying, EepromInv, [Next]_vars, ~stray'
             PROVE  EepromInv'
  BY DEF EepromInv
<1>1. CASE UNCHANGED vars
  BY <1>1 DEF vars, own, past, linkVars, EepromInv, Writing, WriteInv, NotYet, Quiet,
              Done, Tells
<1>2. Writing => ~(\/ Start \/ Pwm1 \/ Sleep \/ Eeval \/ Eer \/ Eew \/ BAT3setup
                   \/ MonitorSetup \/ BAT3readEEPROM \/ BAT3writeEEPROM \/ SendOptions
                   \/ NothingToSend \/ PrintReply \/ ReadAnswered)
  BY DEF Writing, Start, Pwm1, Sleep, Eeval, Eer, Eew, Option, BAT3setup, MonitorSetup,
         BAT3readEEPROM, BAT3writeEEPROM, SendOptions, NothingToSend, PrintReply,
         ReadAnswered
<1> QED
  BY <1>1, <1>2, NoWrite, WriteStarts, WriteAnswered, EepromStart, EepromTakes,
     EepromRests DEF Next, Proceeds, AllRun

\* The bytes of the EEPROM are what the acknowledged --eew have made them, as long
\* as no write bit is echoed and no --eew meets an access to its address.
THEOREM Ledger == Spec => []EepromAsOrderedIfClean
<1>1. EepromInv => EepromAsOrderedIfClean
  BY DEF EepromInv, EepromAsOrderedIfClean, EepromOnlyAsOrdered
<1> QED  BY <1>1, InitTyped, StepTyped, EepromInit, EepromStep, PTL DEF Spec

\* What --eer prints is what is there, under the same condition.
THEOREM Reading == Spec => ReadIsTrue
<1>1. TypeOK /\ EepromInv /\ [Next]_vars =>
        [purpose = "read" /\ purpose' = "done" /\ ~stray
           => NextReply.ee_data = ledger[request.ee_addr]]_vars
  <2> SUFFICES ASSUME TypeOK, EepromInv, Next, purpose = "read", purpose' = "done", ~stray
               PROVE  NextReply.ee_data = ledger[request.ee_addr]
    BY Zenon
  <2>1. ReadAnswered
    BY DEF Next, Start, Pwm1, Sleep, Eeval, Eer, Eew, Option, Proceeds, BAT3setup,
           MonitorSetup, BAT3readEEPROM, BAT3writeEEPROM, SendOptions, Sends, NothingToSend,
           PrintReply, Answered, NotAnswered, Silence, BoardTakes, BoardIsReady,
           BoardReports, LoseRequest, AllRun, own, vars
  <2>2. pc = "sending" /\ fromBoard # <<>> /\ IsSatisfied
    BY <2>1 DEF ReadAnswered, ReplyGet
  <2>3. NextReply.ee_addr = request.ee_addr /\ NextReply.ee_ready = 1
    BY <2>2 DEF IsSatisfied, Satisfied, BAT3EEPROMcallback
  <2>4. 1 \in DOMAIN fromBoard /\ NextReply = fromBoard[1]
    BY <2>2, LineTypes DEF Lines, NextReply
  <2>5. Tells(NextReply) /\ mem = ledger
    BY <2>2, <2>4 DEF EepromInv
  <2> QED  BY <2>3, <2>5 DEF Tells, EepromIdle
<1> QED
  BY <1>1, InitTyped, StepTyped, EepromInit, EepromStep, PTL DEF Spec, ReadIsTrue

=============================================================================
