------------------------------ MODULE MySocket ------------------------------
(***************************************************************************)
(* The network side of the bat3 daemon (src/mysocket.c): the port it       *)
(* listens to, the clients that connect to it, and the orders they give.   *)
(* runArgument calls processMySocket once in every turn of its loop.       *)
(*                                                                         *)
(* A file descriptor is modelled with what it stands for, because the      *)
(* table of clients is indexed by it.  What an order does to the loader is *)
(* the Order of Daemon; here it matters only that it is obeyed, and that   *)
(* "quit" and "exit" end a connection or all.  A client sends whole lines; *)
(* several may arrive in one read.  That TCP may also cut a line in two is *)
(* left out.                                                               *)
(***************************************************************************)
EXTENDS Integers, Sequences, FiniteSets, FiniteSetsExt

CONSTANTS
  Clients,
  Orders,       \* what clients send, of "quit", "exit", "state"
  MAXSFD,       \* the size of sfd_connect
  FdLimit,      \* how many files the process may have open
  BaseFds,      \* how many it has open before: stdin, ..., the serial line
  PortTaken,    \* may another process hold the port?
  MaxVisits,    \* bound: connections per client
  MaxPending    \* bound: orders under way per client

ASSUME MySocketAssumption ==
  /\ IsFiniteSet(Clients)
  /\ Clients \cap {"free", "base", "port", "leaked"} = {}
  /\ Orders \subseteq {"quit", "exit", "state"}
  /\ MAXSFD \in Nat /\ FdLimit \in Nat
  /\ BaseFds \in Nat /\ BaseFds < MAXSFD /\ MAXSFD < FdLimit
  /\ PortTaken \in BOOLEAN
  /\ MaxVisits \in Nat /\ MaxPending \in Nat

Fd == 0 .. FdLimit - 1
NoFd == -1

VARIABLES
  pc,           \* where processMySocket is
  files,        \* what each descriptor of the process stands for
  sockfd,       \* the descriptor of the open port
  sfd_connect,  \* the descriptors that are marked 1 in the table
  rfds,         \* what select found readable
  portFree,     \* nobody else holds the port
  place,        \* where a client is: away, in the backlog, or accepted
  health,       \* of a connection: the client is here, it has left, a send
                \* will fail, or a failure has been reported already
  inbox,        \* the orders a client has sent and that were not read
  visits        \* bound: how often a client has connected

server == <<pc, files, sockfd, sfd_connect, rfds>>
peers  == <<place, health, inbox>>
vars   == <<server, portFree, peers, visits>>

Uses == {"free", "base", "port", "leaked"} \cup Clients

TypeOK ==
  /\ pc \in {"idle", "poll", "accept", "serve", "ended"}
  /\ files \in [Fd -> Uses]
  /\ sockfd \in Fd \cup {NoFd}
  /\ sfd_connect \subseteq 0 .. MAXSFD - 1
  /\ rfds \subseteq Fd
  /\ portFree \in BOOLEAN
  /\ place \in [Clients -> {"away", "backlog", "accepted"}]
  /\ health \in [Clients -> {"here", "left", "reset", "dead"}]
  /\ inbox \in [Clients -> Seq(Orders)]
  /\ visits \in [Clients -> 0 .. MaxVisits]

Init ==
  /\ pc = "idle"
  /\ files = [fd \in Fd |-> IF fd < BaseFds THEN "base" ELSE "free"]
  /\ sockfd = NoFd /\ sfd_connect = {} /\ rfds = {}
  /\ portFree = ~PortTaken
  /\ place = [c \in Clients |-> "away"] /\ health = [c \in Clients |-> "here"]
  /\ inbox = [c \in Clients |-> <<>>]
  /\ visits = [c \in Clients |-> 0]

FdsOf(use) == { fd \in Fd : files[fd] = use }

(***************************************************************************)
(* socket() and accept() give the lowest descriptor that is free.          *)
(***************************************************************************)
NewFd == IF FdsOf("free") = {} THEN NoFd ELSE Min(FdsOf("free"))

(***************************************************************************)
(* processMySocket opens the port, unless it tried within 30 seconds.  If  *)
(* bind or listen fails, openMySocket shuts the new socket down; it stays  *)
(* a descriptor of the process.  If socket() fails, so does bind.          *)
(***************************************************************************)
OpenPort ==
  /\ pc = "idle" /\ sockfd = NoFd
  /\ NewFd # NoFd
  /\ IF portFree
     THEN /\ files' = [files EXCEPT ![NewFd] = "port"]
          /\ sockfd' = NewFd
          /\ pc' = "poll"
     ELSE /\ files' = [files EXCEPT ![NewFd] = "leaked"]
          /\ UNCHANGED <<sockfd, pc>>
  /\ UNCHANGED <<sfd_connect, rfds, portFree, peers, visits>>

(***************************************************************************)
(* select looks once, at the port and at every client in the table.        *)
(***************************************************************************)
Backlog == { c \in Clients : place[c] = "backlog" }

HasNews(c) == inbox[c] # <<>> \/ health[c] # "here"

\* Faulty: one client at a time.
Select_single ==
  /\ pc = "poll" \/ (pc = "idle" /\ sockfd # NoFd)
  /\ rfds' = { fd \in sfd_connect : files[fd] \in Clients /\ HasNews(files[fd]) }
  /\ pc' = IF Backlog # {} /\ sfd_connect = {} THEN "accept" ELSE "serve"
  /\ UNCHANGED <<files, sockfd, sfd_connect, portFree, peers, visits>>

Select ==
  /\ pc = "poll" \/ (pc = "idle" /\ sockfd # NoFd)
  /\ rfds' = { fd \in sfd_connect : files[fd] \in Clients /\ HasNews(files[fd]) }
  /\ pc' = IF Backlog # {} THEN "accept" ELSE "serve"
  /\ UNCHANGED <<files, sockfd, sfd_connect, portFree, peers, visits>>

(***************************************************************************)
(* A connection that the daemon closes.                                    *)
(***************************************************************************)
Closed(c) ==
  /\ place' = [place EXCEPT ![c] = "away"]
  /\ health' = [health EXCEPT ![c] = "here"]
  /\ inbox' = [inbox EXCEPT ![c] = <<>>]

(***************************************************************************)
(* writeFd: a send fails when the connection was reset, and whenever it    *)
(* would have to wait (MSG_DONTWAIT) for a client that does not read.      *)
(***************************************************************************)
SendsFail(c) == IF health[c] \in {"reset", "dead"} THEN {TRUE} ELSE BOOLEAN

(***************************************************************************)
(* acceptSocket welcomes the client, or closes what it has accepted.  A    *)
(* descriptor that does not fit in the table is closed after all.  Without *)
(* a descriptor accept fails, and sfd_connect[-1] is what is set: portno   *)
(* and lasttry may lie there, and neither is read while the port is open.  *)
(***************************************************************************)
Admit(c, fd) ==
  /\ files' = [files EXCEPT ![fd] = c]
  /\ sfd_connect' = sfd_connect \cup {fd}
  /\ place' = [place EXCEPT ![c] = "accepted"]
  /\ UNCHANGED <<health, inbox>>

Refuse(c) == Closed(c) /\ UNCHANGED <<files, sfd_connect>>

\* Faulty: off by one at the end of the table.
AcceptClient_beyond ==
  /\ pc = "accept"
  /\ \E c \in Backlog :
       IF NewFd = NoFd
       THEN UNCHANGED <<files, sfd_connect, peers>>
       ELSE \E fails \in SendsFail(c) :
              IF fails \/ NewFd > MAXSFD THEN Refuse(c) ELSE Admit(c, NewFd)
  /\ pc' = "serve"
  /\ UNCHANGED <<sockfd, rfds, portFree, visits>>

AcceptClient ==
  /\ pc = "accept"
  /\ \E c \in Backlog :
       IF NewFd = NoFd
       THEN UNCHANGED <<files, sfd_connect, peers>>
       ELSE \E fails \in SendsFail(c) :
              IF fails \/ NewFd >= MAXSFD THEN Refuse(c) ELSE Admit(c, NewFd)
  /\ pc' = "serve"
  /\ UNCHANGED <<sockfd, rfds, portFree, visits>>

(***************************************************************************)
(* The loop over the table: the descriptors that select found, in order.   *)
(***************************************************************************)
Due == rfds \cap sfd_connect

\* Faulty: closes, and does not clear the table.
closeFd_stale(fd) ==
  /\ files' = [files EXCEPT ![fd] = "free"]
  /\ UNCHANGED sfd_connect

\* Faulty: clears the table, and does not close.
closeFd_open(fd) ==
  /\ files' = [files EXCEPT ![fd] = "leaked"]
  /\ sfd_connect' = sfd_connect \ {fd}

closeFd(fd) ==
  /\ files' = [files EXCEPT ![fd] = "free"]
  /\ sfd_connect' = sfd_connect \ {fd}

\* Faulty: a send that fails closes nothing.
Answer_anyway(c, fd, quits, unread) ==
  IF quits
  THEN closeFd(fd) /\ Closed(c)
  ELSE /\ inbox' = [inbox EXCEPT ![c] = unread]
       /\ UNCHANGED <<files, sfd_connect, place, health>>

\* The answer and the prompt, or a connection that closes.
Answer(c, fd, quits, unread) ==
  \E fails \in SendsFail(c) :
    IF quits \/ fails
    THEN closeFd(fd) /\ Closed(c)
    ELSE /\ inbox' = [inbox EXCEPT ![c] = unread]
         /\ UNCHANGED <<files, sfd_connect, place, health>>

Turn(c, fd) ==
  /\ pc = "serve" /\ Due # {}
  /\ fd = Min(Due) /\ files[fd] = c
  /\ rfds' = rfds \ {fd}
  /\ UNCHANGED <<sockfd, portFree, visits>>

(***************************************************************************)
(* readSocket: one read takes one or several of the lines that are there,  *)
(* the first of them is the order, and the others are lost.                *)
(***************************************************************************)
ReadOrder(c, fd) ==
  /\ Turn(c, fd)
  /\ inbox[c] # <<>> /\ health[c] \in {"here", "left"} /\ Head(inbox[c]) # "exit"
  /\ \E n \in 1 .. Len(inbox[c]) :
       Answer(c, fd, Head(inbox[c]) = "quit",
              SubSeq(inbox[c], n + 1, Len(inbox[c])))
  /\ UNCHANGED pc

ReadExit(c, fd) ==
  /\ Turn(c, fd)
  /\ inbox[c] # <<>> /\ health[c] \in {"here", "left"} /\ Head(inbox[c]) = "exit"
  /\ pc' = "ended"
  /\ files' = [f \in Fd |-> IF f \in sfd_connect \cup {sockfd, 0} THEN "free"
                                                                  ELSE files[f]]
  /\ sfd_connect' = {}
  /\ UNCHANGED peers

(***************************************************************************)
(* A read that fails is not looked at again...                             *)
(***************************************************************************)
ReadError(c, fd) ==
  /\ Turn(c, fd)
  /\ health[c] = "reset"
  /\ health' = [health EXCEPT ![c] = "dead"]
  /\ UNCHANGED <<pc, files, sfd_connect, place, inbox>>

(***************************************************************************)
(* ...and the end of the input is a line that cannot be decoded: it is     *)
(* answered, and cmd holds whatever is on the stack, perhaps the command   *)
(* of an earlier call.  Without an argument only "quit" would matter.      *)
(***************************************************************************)
ReadEnd(c, fd) ==
  /\ Turn(c, fd)
  /\ health[c] = "dead" \/ (health[c] = "left" /\ inbox[c] = <<>>)
  /\ \E stale \in {"quit", "state"} : Answer(c, fd, stale = "quit", inbox[c])
  /\ UNCHANGED pc

Return ==
  /\ pc = "serve" /\ Due = {}
  /\ pc' = "idle" /\ rfds' = {}
  /\ UNCHANGED <<files, sockfd, sfd_connect, portFree, peers, visits>>

-----------------------------------------------------------------------------
(***************************************************************************)
(* The clients, the network, and the other process.                        *)
(***************************************************************************)
Knock(c) ==
  /\ place[c] = "away" /\ sockfd # NoFd /\ pc # "ended" /\ visits[c] < MaxVisits
  /\ place' = [place EXCEPT ![c] = "backlog"]
  /\ visits' = [visits EXCEPT ![c] = @ + 1]
  /\ UNCHANGED <<server, portFree, health, inbox>>

Say(c) ==
  /\ place[c] = "accepted" /\ health[c] = "here" /\ Len(inbox[c]) < MaxPending
  /\ \E order \in Orders : inbox' = [inbox EXCEPT ![c] = Append(@, order)]
  /\ UNCHANGED <<server, portFree, place, health, visits>>

Leave(c) ==
  /\ place[c] # "away" /\ health[c] = "here"
  /\ health' = [health EXCEPT ![c] = "left"]
  /\ UNCHANGED <<server, portFree, place, inbox, visits>>

Reset(c) ==
  /\ place[c] # "away" /\ health[c] = "left"
  /\ health' = [health EXCEPT ![c] = "reset"]
  /\ UNCHANGED <<server, portFree, place, inbox, visits>>

PortChanges ==
  /\ PortTaken /\ sockfd = NoFd
  /\ portFree' = ~portFree
  /\ UNCHANGED <<server, peers, visits>>

Serve ==
  \E c \in Clients, fd \in Fd :
    ReadOrder(c, fd) \/ ReadExit(c, fd) \/ ReadError(c, fd) \/ ReadEnd(c, fd)

Step == OpenPort \/ Select \/ AcceptClient \/ Serve \/ Return

Next ==
  \/ OpenPort \/ Select \/ AcceptClient \/ Serve \/ Return
  \/ \E c \in Clients : Knock(c) \/ Say(c) \/ Leave(c) \/ Reset(c)
  \/ PortChanges

Spec == Init /\ [][Next]_vars

(***************************************************************************)
(* Fairness: runArgument calls processMySocket again and again, and none   *)
(* of its calls waits; TCP tells a sender that its peer has left.          *)
(***************************************************************************)
FairSpec == Spec /\ WF_vars(Step) /\ \A c \in Clients : WF_vars(Reset(c))

-----------------------------------------------------------------------------
(***************************************************************************)
(* The table and the descriptors of the process agree at all times: none   *)
(* is forgotten open, none that is closed is read, whichever of the many   *)
(* ways a connection ended (closeFd in writeFd, cmdQuit, the refusals of   *)
(* acceptSocket).                                                          *)
(***************************************************************************)
TableIsExact ==
  /\ sfd_connect = { fd \in Fd : files[fd] \in Clients }
  /\ \A c \in Clients :
       place[c] = "accepted" /\ pc # "ended" <=> \E fd \in Fd : files[fd] = c

(***************************************************************************)
(* "To much connected clients" is said when there are too many: with all   *)
(* the table can hold besides the port and what was open before.           *)
(***************************************************************************)
RefusedOnlyWhenFull ==
  pc = "accept" /\ NewFd >= MAXSFD
    => Cardinality(sfd_connect) >= MAXSFD - BaseFds - 1

(***************************************************************************)
(* ...and it is true if the first attempt to open the port succeeded: every*)
(* connection that ended, in whichever way, has made room.                 *)
(***************************************************************************)
OpenedAtOnce == sockfd = BaseFds

RefusedOnlyWhenFullOnceOpened == OpenedAtOnce => RefusedOnlyWhenFull

(***************************************************************************)
(* A client that has left is forgotten, although a read that fails or ends *)
(* closes nothing.  What is sent to it does, at the second attempt.        *)
(***************************************************************************)
LeftIsForgotten ==
  \A c \in Clients :
    (place[c] = "accepted" /\ health[c] # "here")
      ~> (place[c] = "away" \/ pc = "ended")

(***************************************************************************)
(* Nobody starves: a client that knocks is answered, and an order that was *)
(* sent is read, whatever the other clients do.  (When failed attempts to  *)
(* open the port have used up all descriptors, accept fails for ever.)     *)
(***************************************************************************)
NobodyStarves ==
  \A c \in Clients :
    /\ place[c] = "backlog" /\ OpenedAtOnce
         ~> (place[c] # "backlog" \/ pc = "ended")
    /\ \/ []<>(inbox[c] = <<>> \/ pc = "ended")
       \/ []<><<Len(inbox'[c]) < Len(inbox[c])>>_vars

=============================================================================
