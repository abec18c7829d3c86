------------------------------- MODULE Utility -------------------------------
(***************************************************************************)
(* Single requests to the board, by the bat3 utility (_AVRrun of avr/avr.c *)
(* with the options of avr/bat3.c, but for --charge) and by the UPS monitor*)
(* (avr/ups-monitor.c), one program after the other, over AvrLink.  The    *)
(* options --eer and --eew hold a dialogue with the board's EEPROM of      *)
(* their own before the request that the other options make up is sent.    *)
(*                                                                         *)
(* Of the switches that a program sets or echoes the module keeps one,     *)
(* PWM1en; the LED, which every request sets from the last reply, softJP3, *)
(* and what belongs to the EEPROM.  The board is modelled from how the     *)
(* code uses it.  It reports what it was last asked to do until it is      *)
(* asked for something else (dowrite of src/bat3func.c relies on this);    *)
(* ee_ready is its own.                                                    *)
(***************************************************************************)
EXTENDS AvrLink

CONSTANTS
  Addresses, Values,  \* of the EEPROM
  Boards, Memories,   \* what the board and its EEPROM may be at the start
  Stack,              \* what an uninitialised request holds: [ee_addr, ee_data]
  OptionSet,          \* the options in use: "pwm1", "sleep", "eeval", "eer", "eew"
  MaxOptions,         \* bound: options of one program
  MaxPrograms         \* bound: programs that are run

Bit == {0, 1}

Request == [ PWM1en : Bit, _led : Bit, softJP3 : Bit, alarm : Bit,
             ee_read : Bit, ee_write : Bit,
             ee_addr : Addresses, ee_data : Values ]
Reply == [ PWM1en : Bit, _led : Bit, softJP3 : Bit, batRun : Bit,
           ee_read : Bit, ee_write : Bit, ee_ready : Bit,
           ee_addr : Addresses, ee_data : Values ]

Accesses(r) == r.ee_read = 1 \/ r.ee_write = 1

\* What the board shows when nobody asks it for anything of the EEPROM.
EepromIdle(r) == ~Accesses(r) /\ r.ee_ready = 0

ASSUME UtilityAssumption ==
  /\ Addresses # {} /\ Values # {}
  /\ Boards \subseteq Reply /\ \A b \in Boards : EepromIdle(b)
  /\ Memories \subseteq [Addresses -> Values]
  /\ Stack \subseteq [ee_addr : Addresses, ee_data : Values] /\ Stack # {}
  /\ OptionSet \subseteq {"pwm1", "sleep", "eeval", "eer", "eew"}
  /\ MaxOptions \in Nat /\ MaxPrograms \in Nat

VARIABLES
  pc,        \* where the program is, "failed" after exit(3)
  program,   \* which program
  purpose,   \* what AVRsendRequest was called for
  bReq,      \* _AVRrun's request
  todo,      \* doSomething & 1: there is a request to send in the end
  adrs, val, \* arguments of the EEPROM options
  board, mem,         \* the board and its EEPROM
  options, programs,  \* bounds: options and programs so far
  (*-----------------------------------------------------------------------*)
  taken,     \* history: the board has taken the present request
  marked,    \* history: the request's LED differs from what the board showed
  ledger,    \* history: what the acknowledged orders have put in the EEPROM
  ordered,   \* history: what the acknowledged orders have put in PWM1en
  stray      \* history: a write was sent that nobody ordered, or while an older
             \* access to the same address was in its way

own == <<pc, program, purpose, bReq, todo, adrs, val, options, programs>>
past == <<taken, marked, ledger, ordered, stray>>
vars == <<own, board, mem, past, linkVars>>

TypeOK ==
  /\ pc \in {"idle", "setup", "options", "get", "sending", "loops", "failed"}
  /\ program \in {"bat3", "ups-monitor"}
  /\ purpose \in {"options", "write", "read", "done", "softJP3"}
  /\ bReq \in Request /\ todo \in BOOLEAN
  /\ adrs \in Addresses /\ val \in Values
  /\ LinkTypeOK(Request, Reply)
  /\ board \in Reply /\ mem \in [Addresses -> Values]
  /\ options \in 0 .. MaxOptions /\ programs \in 0 .. MaxPrograms
  /\ taken \in BOOLEAN /\ marked \in BOOLEAN /\ stray \in BOOLEAN
  /\ ledger \in [Addresses -> Values] /\ ordered \in Bit

(***************************************************************************)
(* A board on which no EEPROM access is under way, and no program yet.     *)
(* Unset stands for what a program has not set yet and does not read.      *)
(***************************************************************************)
Unset ==
  [ PWM1en |-> 0, _led |-> 0, softJP3 |-> 0, alarm |-> 0, ee_read |-> 0,
    ee_write |-> 0, ee_addr |-> CHOOSE a \in Addresses : TRUE,
    ee_data |-> CHOOSE d \in Values : TRUE ]

Init ==
  /\ pc = "idle" /\ program = "bat3" /\ purpose = "options"
  /\ board \in Boards /\ mem \in Memories
  /\ bReq = Unset /\ request = Unset
  /\ todo = FALSE
  /\ adrs = Unset.ee_addr /\ val = Unset.ee_data
  /\ seen = 0 /\ toBoard = <<>> /\ fromBoard = <<>> /\ faults = 0
  /\ options = 0 /\ programs = 0
  /\ taken = FALSE /\ marked = FALSE
  /\ ledger = mem /\ ordered = board.PWM1en /\ stray = FALSE

-----------------------------------------------------------------------------
(***************************************************************************)
(* A program starts when the one before has ended: closing the port waits  *)
(* for what was written, and nobody receives while it is closed.  The      *)
(* local variable val starts with what happens to lie on the stack.  After *)
(* a failure nothing is known of the board but what it shows.              *)
(***************************************************************************)
Start ==
  /\ pc \in {"idle", "failed"} /\ toBoard = <<>> /\ programs < MaxPrograms
  /\ programs' = programs + 1 /\ options' = 0
  /\ program' \in {"bat3", "ups-monitor"}
  /\ \E old \in Stack : val' = old.ee_data
  /\ todo' = FALSE /\ bReq' = Unset /\ adrs' = Unset.ee_addr
  /\ purpose' = "options" /\ request' = Unset /\ seen' = 0
  /\ pc' = "setup" /\ fromBoard' = <<>>
  /\ ledger' = IF pc = "failed" THEN mem ELSE ledger
  /\ ordered' = IF pc = "failed" THEN board.PWM1en ELSE ordered
  /\ taken' = FALSE /\ marked' = FALSE
  /\ UNCHANGED <<board, mem, toBoard, faults, stray>>

(***************************************************************************)
(* The request that a reply gives rise to.  BAT3requestInitFromReply and   *)
(* the monitor's init copy the word `outputs', in which the bits of the    *)
(* EEPROM are, too, but not the address and the data: these are whatever   *)
(* lies in the uninitialised buffer.                                       *)
(***************************************************************************)
Led(rep) ==
  IF rep.batRun = 1 THEN 1 ELSE IF rep.PWM1en = 1 THEN 1 - rep._led ELSE 0

\* Faulty: the switches are not echoed.
Echo_blank(rep, led, softJP3, old) ==
  [ PWM1en |-> 0, _led |-> led, softJP3 |-> softJP3, alarm |-> 0,
    ee_read |-> rep.ee_read, ee_write |-> rep.ee_write,
    ee_addr |-> old.ee_addr, ee_data |-> old.ee_data ]

Echo(rep, led, softJP3, old) ==
  [ PWM1en |-> rep.PWM1en, _led |-> led, softJP3 |-> softJP3, alarm |-> 0,
    ee_read |-> rep.ee_read, ee_write |-> rep.ee_write,
    ee_addr |-> old.ee_addr, ee_data |-> old.ee_data ]

BAT3requestInitFromReply(rep, old) == Echo(rep, Led(rep), 0, old)

init(rep, old) == Echo(rep, rep._led, 1, old)

Sends(req, why) ==
  /\ Submit(req)
  /\ pc' = "sending" /\ purpose' = why
  /\ taken' = FALSE

BAT3setup ==
  /\ pc = "setup" /\ program = "bat3"
  /\ ReplyGet
  /\ \E old \in Stack : bReq' = BAT3requestInitFromReply(NextReply, old)
  /\ marked' = (bReq'._led # NextReply._led)
  /\ pc' = "options"
  /\ UNCHANGED <<program, purpose, todo, adrs, val, options, programs, board, mem,
                 request, seen, toBoard, faults, taken, ledger, ordered, stray>>

MonitorSetup ==
  /\ pc = "setup" /\ program = "ups-monitor"
  /\ ReplyGet
  /\ \E old \in Stack : Sends(init(NextReply, old), "softJP3")
  /\ marked' = FALSE
  /\ stray' = (stray \/ NextReply.ee_write = 1)
  /\ UNCHANGED <<program, bReq, todo, adrs, val, options, programs, board, mem,
                 ledger, ordered>>

-----------------------------------------------------------------------------
(***************************************************************************)
(* BAT3processOptions, one option after the other.                         *)
(***************************************************************************)
Option(name) ==
  /\ pc = "options" /\ options < MaxOptions /\ name \in OptionSet
  /\ options' = options + 1
  /\ UNCHANGED <<program, programs, board, mem, taken, ledger, ordered, stray>>

Pwm1 ==
  /\ Option("pwm1")
  /\ \E on \in Bit : bReq' = [bReq EXCEPT !.PWM1en = on]
  /\ todo' = TRUE
  /\ UNCHANGED <<pc, purpose, adrs, val, marked, linkVars>>

Sleep ==
  /\ Option("sleep")
  /\ bReq' = [bReq EXCEPT !.alarm = 1]
  /\ todo' = TRUE
  /\ UNCHANGED <<pc, purpose, adrs, val, marked, linkVars>>

Eeval ==
  /\ Option("eeval")
  /\ val' \in Values
  /\ UNCHANGED <<pc, purpose, bReq, todo, adrs, marked, linkVars>>

(***************************************************************************)
(* The EEPROM options wait for a fresh reply; --eew throws away first what *)
(* has come in already (fileFlushInput).  The data of a request to read    *)
(* are uninitialised, too; val stands for them.                            *)
(***************************************************************************)
Eer ==
  /\ Option("eer")
  /\ adrs' \in Addresses
  /\ pc' = "get" /\ purpose' = "read" /\ marked' = FALSE
  /\ UNCHANGED <<bReq, todo, val, linkVars>>

Eew ==
  /\ Option("eew")
  /\ adrs' \in Addresses
  /\ pc' = "get" /\ purpose' = "write" /\ marked' = FALSE
  /\ fromBoard' = <<>>
  /\ UNCHANGED <<bReq, todo, val, request, seen, toBoard, faults>>

Argument == [ ee_addr |-> adrs, ee_data |-> val ]

\* An access to the address is on its way, or shown, or still to be read of.
InTheWay(address) ==
  \/ \E i \in DOMAIN toBoard : toBoard[i].ee_addr = address /\ Accesses(toBoard[i])
  \/ board.ee_addr = address /\ ~EepromIdle(board)
  \/ \E i \in DOMAIN fromBoard :
       fromBoard[i].ee_addr = address /\ ~EepromIdle(fromBoard[i])

BAT3readEEPROM ==
  /\ pc = "get" /\ purpose = "read"
  /\ ReplyGet
  /\ Sends([BAT3requestInitFromReply(NextReply, Argument)
              EXCEPT !.ee_read = 1, !.ee_write = 0], "read")
  /\ UNCHANGED <<program, bReq, todo, adrs, val, options, programs, board, mem,
                 marked, ledger, ordered, stray>>

BAT3writeEEPROM ==
  /\ pc = "get" /\ purpose = "write"
  /\ ReplyGet
  /\ Sends([BAT3requestInitFromReply(NextReply, Argument)
              EXCEPT !.ee_read = 0, !.ee_write = 1], "write")
  /\ stray' = (stray \/ InTheWay(adrs))
  /\ UNCHANGED <<program, bReq, todo, adrs, val, options, programs, board, mem,
                 marked, ledger, ordered>>

(***************************************************************************)
(* After the options: the request, if there is one, or a look at the       *)
(* board's state.                                                          *)
(***************************************************************************)
SendOptions ==
  /\ pc = "options" /\ todo
  /\ Sends(bReq, "options")
  /\ stray' = (stray \/ bReq.ee_write = 1)
  /\ UNCHANGED <<program, bReq, todo, adrs, val, options, programs, fromBoard,
                 board, mem, marked, ledger, ordered>>

NothingToSend ==
  /\ pc = "options" /\ ~todo
  /\ pc' = "loops"
  /\ UNCHANGED <<program, purpose, bReq, todo, adrs, val, options, programs, board,
                 mem, past, linkVars>>

PrintReply ==
  /\ pc = "loops"
  /\ ReplyGet
  /\ pc' = "idle"
  /\ UNCHANGED <<program, purpose, bReq, todo, adrs, val, options, programs, board,
                 mem, past, request, seen, toBoard, faults>>

-----------------------------------------------------------------------------
(***************************************************************************)
(* The callbacks, as far as 0 (satisfied) goes; between "send again" and   *)
(* "another reply" AVRsendRequest makes no difference.                     *)
(***************************************************************************)

\* Faulty: the LED is not compared.
BAT3callback_dark(req, r) == req.PWM1en = r.PWM1en

BAT3callback(req, r) == req.PWM1en = r.PWM1en /\ req._led = r._led

\* Faulty: any address will do.
BAT3EEPROMcallback_any(req, r) == r.ee_ready = 1

\* Faulty: does not wait until the board is ready.
BAT3EEPROMcallback_hasty(req, r) == r.ee_addr = req.ee_addr

BAT3EEPROMcallback(req, r) == r.ee_addr = req.ee_addr /\ r.ee_ready = 1

BAT3EEPROMdoneCallback(req, r) == r.ee_ready = 0

callback(req, r) == req.softJP3 = r.softJP3

Satisfied(why, req, r) ==
  CASE why = "options" -> BAT3callback(req, r)
    [] why \in {"read", "write"} -> BAT3EEPROMcallback(req, r)
    [] why = "done" -> BAT3EEPROMdoneCallback(req, r)
    [] why = "softJP3" -> callback(req, r)

IsSatisfied == Satisfied(purpose, request, NextReply)

\* The end of --eer: the value is there, now reading is switched off.
ReadAnswered ==
  /\ pc = "sending" /\ purpose = "read"
  /\ ReplyGet /\ IsSatisfied
  /\ Sends([request EXCEPT !.ee_read = 0], "done")
  /\ UNCHANGED <<program, bReq, todo, adrs, val, options, programs, board, mem,
                 marked, ledger, ordered, stray>>

Answered ==
  /\ pc = "sending" /\ purpose # "read"
  /\ Accept(IsSatisfied)
  /\ pc' = IF purpose \in {"write", "done"} THEN "options" ELSE "idle"
  /\ ledger' = IF purpose = "write"
               THEN [ledger EXCEPT ![request.ee_addr] = request.ee_data] ELSE ledger
  /\ ordered' = IF purpose = "options" THEN request.PWM1en ELSE ordered
  /\ UNCHANGED <<program, purpose, bReq, todo, adrs, val, options, programs, board,
                 mem, taken, marked, stray>>

\* Faulty: never stops asking.
NotAnswered_ever ==
  /\ pc = "sending"
  /\ Accept(~IsSatisfied)
  /\ pc' = pc
  /\ UNCHANGED <<program, purpose, bReq, todo, adrs, val, options, programs, board,
                 mem, past>>

NotAnswered ==
  /\ pc = "sending"
  /\ Reject(IsSatisfied)
  /\ pc' = IF GivesUp(seen + 1) THEN "failed" ELSE pc
  /\ UNCHANGED <<program, purpose, bReq, todo, adrs, val, options, programs, board,
                 mem, past>>

Silence ==
  /\ pc \in {"setup", "get", "sending", "loops"}
  /\ Unanswered
  /\ pc' = "failed"
  /\ UNCHANGED <<program, purpose, bReq, todo, adrs, val, options, programs, board,
                 mem, past>>

-----------------------------------------------------------------------------
(***************************************************************************)
(* The board.  An access to the EEPROM may take a while to become ready.   *)
(***************************************************************************)
BoardTakes ==
  /\ Taken
  /\ LET req  == NextRequest
     IN  /\ \E ready \in Bit :
              /\ ready = 1 => Accesses(req)
              /\ board' = [ PWM1en |-> req.PWM1en, _led |-> req._led,
                            softJP3 |-> req.softJP3, batRun |-> board.batRun,
                            ee_read |-> req.ee_read, ee_write |-> req.ee_write,
                            ee_ready |-> ready, ee_addr |-> req.ee_addr,
                            ee_data |-> IF req.ee_read = 1 THEN mem[req.ee_addr]
                                        ELSE req.ee_data ]
         /\ mem' = IF req.ee_write = 1
                   THEN [mem EXCEPT ![req.ee_addr] = req.ee_data] ELSE mem
         /\ taken' = (taken \/ req = request)
  /\ UNCHANGED <<own, marked, ledger, ordered, stray>>

BoardIsReady ==
  /\ Accesses(board) /\ board.ee_ready = 0
  /\ board' = [board EXCEPT !.ee_ready = 1]
  /\ UNCHANGED <<own, mem, past, linkVars>>

BoardReports ==
  /\ pc \notin {"idle", "failed"}
  /\ Reported(board)
  /\ UNCHANGED <<own, board, mem, past>>

LoseRequest ==
  /\ Lost
  /\ UNCHANGED <<own, board, mem, past>>

AllRun == pc \in {"idle", "failed"} /\ programs = MaxPrograms /\ UNCHANGED vars

(***************************************************************************)
(* What a program does by itself once its options are given.               *)
(***************************************************************************)
Proceeds ==
  \/ BAT3setup \/ MonitorSetup
  \/ BAT3readEEPROM \/ BAT3writeEEPROM \/ SendOptions \/ NothingToSend \/ PrintReply
  \/ ReadAnswered \/ Answered \/ NotAnswered

Next ==
  \/ Start
  \/ Pwm1 \/ Sleep \/ Eeval \/ Eer \/ Eew
  \/ Proceeds \/ Silence
  \/ BoardTakes \/ BoardIsReady \/ BoardReports \/ LoseRequest
  \/ AllRun

Spec == Init /\ [][Next]_vars

(***************************************************************************)
(* Fairness: the program waits for nothing but replies, and the board      *)
(* takes what reaches it and reports periodically.  Not that an access to  *)
(* the EEPROM ends.                                                        *)
(***************************************************************************)
FairSpec ==
  Spec /\ WF_vars(Proceeds) /\ WF_vars(BoardTakes) /\ WF_vars(BoardReports)

-----------------------------------------------------------------------------
(***************************************************************************)
(* avr/avr.c: "When we send a request, we must "echo" back the AVR state   *)
(* that we don't want to change".  The bytes of the EEPROM are what the    *)
(* acknowledged --eew have made them, and nothing else changes them.       *)
(***************************************************************************)
EepromOnlyAsOrdered ==
  ~(purpose = "write" /\ pc \in {"sending", "failed"}) => mem = ledger

(***************************************************************************)
(* The same, as far as it goes, whatever is lost or late: as long as no    *)
(* request repeats the write bit of an older one, and no --eew meets an    *)
(* access to its address that is not switched off yet.  It is not enough   *)
(* that the reply it starts from shows none: what AVRsendRequest has sent  *)
(* again of an older one may still be on its way.                          *)
(***************************************************************************)
EepromAsOrderedIfClean == ~stray => EepromOnlyAsOrdered

(***************************************************************************)
(* What --eer prints is what is there, also when the board still shows an  *)
(* access to another address, or an earlier reading that was broken off.   *)
(***************************************************************************)
ReadIsTrue ==
  [][purpose = "read" /\ purpose' = "done" /\ ~stray
       => NextReply.ee_data = ledger[request.ee_addr]]_vars

(***************************************************************************)
(* The other half of the echo: after a program that succeeded the board's  *)
(* switches are as the orders have left them, through all the dialogues,   *)
(* and softJP3 is set after the monitor.                                   *)
(***************************************************************************)
SwitchesAsOrdered ==
  pc = "idle" /\ toBoard = <<>>
    => /\ board.PWM1en = ordered
       /\ program = "ups-monitor" => board.softJP3 = 1

(***************************************************************************)
(* "0: to indicate that its satisfied that the request has succeeded":     *)
(* BAT3callback does not look at the alarm, so --sleep relies on the LED,  *)
(* which blinks while the board charges, as on an alternating bit.  If the *)
(* request changes it, an acknowledged request has reached the board, also *)
(* when requests are lost and replies are old.                             *)
(***************************************************************************)
BlinkProvesReceipt ==
  [][purpose = "options" /\ pc = "sending" /\ pc' = "idle" /\ marked => taken]_vars

(***************************************************************************)
(* Every program ends, even if the EEPROM never gets ready.                *)
(***************************************************************************)
EveryProgramEnds == pc = "setup" ~> pc \in {"idle", "failed"}

=============================================================================
