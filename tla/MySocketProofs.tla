--------------------------- MODULE MySocketProofs ---------------------------
(***************************************************************************)
(* Theorems about MySocket, for any number of clients, any table and any   *)
(* limit of descriptors, and whatever the clients send.                    *)
(***************************************************************************)
EXTENDS MySocket, FiniteSetTheorems, WellFoundedInduction, TLAPS

-----------------------------------------------------------------------------
(***************************************************************************)
(* Descriptors.                                                            *)
(***************************************************************************)

\* A set of descriptors has a least one.
LEMMA LeastFd ==
  ASSUME NEW S \in SUBSET Fd, S # {}
  PROVE  /\ Min(S) \in S
         /\ \A fd \in S : Min(S) <= fd
<1>1. S \in SUBSET Nat
  BY MySocketAssumption DEF Fd
<1> DEFINE below == { p \in Nat \X Nat : p[1] < p[2] }
<1>2. OpToRel(<, Nat) = below
  BY DEF OpToRel
<1>3. IsWellFoundedOn(below, Nat)
  BY <1>2, NatLessThanWellFounded
<1>4. PICK m \in S : \A fd \in S : ~(<<fd, m>> \in below)
  <2> HIDE DEF below
  <2> QED  BY <1>1, <1>3, WFMin, Zenon
<1>5. ASSUME NEW fd \in S
      PROVE  m <= fd
  <2>1. fd \in Nat /\ m \in Nat
    BY <1>1
  <2>2. fd < m => <<fd, m>> \in below
    BY <2>1
  <2>3. ~(fd < m)
    BY <1>4, <2>2, Zenon
  <2> QED  BY <2>1, <2>3
<1> QED  BY <1>1, <1>5 DEF Min

\* What socket() and accept() return: a free descriptor, none below it free.
LEMMA NewFdIsLowest ==
  ASSUME NewFd # NoFd
  PROVE  /\ NewFd \in Fd /\ files[NewFd] = "free"
         /\ \A fd \in Fd : fd < NewFd => files[fd] # "free"
<1>1. FdsOf("free") # {} /\ NewFd = Min(FdsOf("free"))
  BY DEF NewFd
<1>2. FdsOf("free") \in SUBSET Fd
  BY DEF FdsOf
<1>3. /\ NewFd \in FdsOf("free")
      /\ \A fd \in FdsOf("free") : NewFd <= fd
  BY <1>1, <1>2, LeastFd
<1>4. NewFd \in Int /\ \A fd \in Fd : fd \in Int
  BY <1>2, <1>3, MySocketAssumption DEF Fd
<1> QED  BY <1>3, <1>4 DEF FdsOf

\* The descriptor that is served is a client's and in the table.
LEMMA TurnIsDue ==
  ASSUME NEW c \in Clients, NEW fd \in Fd, TypeOK, Turn(c, fd)
  PROVE  fd \in sfd_connect /\ files[fd] = c /\ pc = "serve"
<1>1. Due \in SUBSET Fd /\ Due # {} /\ Due \subseteq sfd_connect
  BY DEF TypeOK, Due, Turn
<1> QED  BY <1>1, LeastFd DEF Turn

\* After an answer the connection is closed, or goes on as it was.
LEMMA AnswerEnds ==
  ASSUME NEW c, NEW fd, NEW quits, NEW unread, Answer(c, fd, quits, unread)
  PROVE  \/ closeFd(fd) /\ Closed(c)
         \/ /\ inbox' = [inbox EXCEPT ![c] = unread]
            /\ UNCHANGED <<files, sfd_connect, place, health>>
BY DEF Answer

-----------------------------------------------------------------------------
(***************************************************************************)
(* Types.  What a client has said and was not read stays a sequence of     *)
(* orders, however many lines a read takes.                                *)
(***************************************************************************)

LEMMA RestOfInbox ==
  ASSUME NEW c \in Clients, TypeOK, NEW n \in 1 .. Len(inbox[c])
  PROVE  SubSeq(inbox[c], n + 1, Len(inbox[c])) \in Seq(Orders)
<1>1. inbox[c] \in Seq(Orders)
  BY DEF TypeOK
<1> QED  BY <1>1

\* TypeOK: the table, the descriptors and the clients keep their kinds.
THEOREM Typing == Spec => []TypeOK
<1>1. Init => TypeOK
  BY MySocketAssumption DEF Init, TypeOK, Fd, Uses
<1>2. TypeOK /\ [Next]_vars => TypeOK'
  <2> SUFFICES ASSUME TypeOK, [Next]_vars
               PROVE  TypeOK'
    OBVIOUS
  <2>1. CASE OpenPort
    BY <2>1, NewFdIsLowest DEF OpenPort, TypeOK, peers, Uses
  <2>2. CASE Select
    <3>1. sfd_connect \subseteq Fd
      BY MySocketAssumption DEF TypeOK, Fd
    <3> QED  BY <2>2, <3>1 DEF Select, TypeOK, peers
  <2>3. CASE AcceptClient
    <3>1. PICK c \in Backlog :
            IF NewFd = NoFd THEN UNCHANGED <<files, sfd_connect, peers>>
            ELSE \E fails \in SendsFail(c) :
                   IF fails \/ NewFd >= MAXSFD THEN Refuse(c) ELSE Admit(c, NewFd)
      BY <2>3 DEF AcceptClient
    <3>2. c \in Clients
      BY DEF Backlog
    <3>3. CASE NewFd = NoFd
      BY <2>3, <3>1, <3>3 DEF AcceptClient, TypeOK, peers
    <3>4. CASE NewFd # NoFd /\ Refuse(c)
      BY <2>3, <3>2, <3>4 DEF AcceptClient, Refuse, Closed, TypeOK, peers
    <3>5. CASE NewFd # NoFd /\ NewFd < MAXSFD /\ Admit(c, NewFd)
      <4>1. NewFd \in Fd /\ NewFd \in 0 .. MAXSFD - 1
        BY <3>5, NewFdIsLowest, MySocketAssumption DEF Fd
      <4> QED  BY <2>3, <3>2, <3>5, <4>1 DEF AcceptClient, Admit, TypeOK, Uses
    <3>6. NewFd # NoFd => NewFd \in Int /\ MAXSFD \in Int
      BY NewFdIsLowest, MySocketAssumption DEF Fd
    <3> QED  BY <3>1, <3>3, <3>4, <3>5, <3>6
  <2>4. ASSUME NEW c \in Clients, NEW fd \in Fd, NEW quits \in BOOLEAN,
               NEW unread \in Seq(Orders),
               Answer(c, fd, quits, unread), UNCHANGED <<pc, sockfd, portFree, visits>>,
               rfds' = rfds \ {fd}
        PROVE  TypeOK'
    <3>1. CASE closeFd(fd) /\ Closed(c)
      <4>1. files' \in [Fd -> Uses]
        BY <3>1 DEF closeFd, TypeOK, Uses
      <4>2. sfd_connect' \subseteq 0 .. MAXSFD - 1 /\ rfds' \subseteq Fd
        BY <2>4, <3>1 DEF closeFd, TypeOK
      <4>3. /\ place' \in [Clients -> {"away", "backlog", "accepted"}]
            /\ health' \in [Clients -> {"here", "left", "reset", "dead"}]
            /\ inbox' \in [Clients -> Seq(Orders)]
        BY <3>1 DEF Closed, TypeOK
      <4> QED  BY <2>4, <4>1, <4>2, <4>3 DEF TypeOK
    <3>2. CASE /\ inbox' = [inbox EXCEPT ![c] = unread]
               /\ UNCHANGED <<files, sfd_connect, place, health>>
      BY <2>4, <3>2 DEF TypeOK
    <3>3. Answer(c, fd, quits, unread)
      BY <2>4
    <3> QED  BY <3>1, <3>2, <3>3, AnswerEnds, Zenon
  <2>5. ASSUME NEW c \in Clients, NEW fd \in Fd, ReadOrder(c, fd)
        PROVE  TypeOK'
    <3>1. PICK n \in 1 .. Len(inbox[c]) :
            Answer(c, fd, Head(inbox[c]) = "quit",
                   SubSeq(inbox[c], n + 1, Len(inbox[c])))
      BY <2>5 DEF ReadOrder
    <3> DEFINE rest == SubSeq(inbox[c], n + 1, Len(inbox[c]))
               quits == Head(inbox[c]) = "quit"
    <3>2. rest \in Seq(Orders) /\ quits \in BOOLEAN
      BY RestOfInbox
    <3>3. Answer(c, fd, quits, rest)
      BY <3>1
    <3> HIDE DEF rest, quits
    <3> QED  BY <2>4, <2>5, <3>2, <3>3 DEF ReadOrder, Turn
  <2>6. ASSUME NEW c \in Clients, NEW fd \in Fd, ReadExit(c, fd)
        PROVE  TypeOK'
    BY <2>6 DEF ReadExit, Turn, TypeOK, peers, Uses
  <2>7. ASSUME NEW c \in Clients, NEW fd \in Fd, ReadError(c, fd)
        PROVE  TypeOK'
    BY <2>7 DEF ReadError, Turn, TypeOK
  <2>8. ASSUME NEW c \in Clients, NEW fd \in Fd, ReadEnd(c, fd)
        PROVE  TypeOK'
    <3>1. inbox[c] \in Seq(Orders)
      BY DEF TypeOK
    <3>2. PICK stale \in {"quit", "state"} : Answer(c, fd, stale = "quit", inbox[c])
      BY <2>8 DEF ReadEnd
    <3>3. (stale = "quit") \in BOOLEAN
      OBVIOUS
    <3> QED  BY <2>4, <2>8, <3>1, <3>2, <3>3 DEF ReadEnd, Turn
  <2>9. CASE Return
    BY <2>9 DEF Return, TypeOK, peers
  <2>10. ASSUME NEW c \in Clients, Knock(c) \/ Say(c) \/ Leave(c) \/ Reset(c)
         PROVE  TypeOK'
    <3>1. CASE Knock(c)
      <4>1. visits[c] + 1 \in 0 .. MaxVisits
        BY <3>1, MySocketAssumption DEF Knock, TypeOK
      <4> QED  BY <3>1, <4>1 DEF Knock, TypeOK, server
    <3>2. CASE Say(c)
      BY <3>2 DEF Say, TypeOK, server
    <3>3. CASE Leave(c)
      BY <3>3 DEF Leave, TypeOK, server
    <3>4. CASE Reset(c)
      BY <3>4 DEF Reset, TypeOK, server
    <3> QED  BY <2>10, <3>1, <3>2, <3>3, <3>4
  <2>11. CASE PortChanges
    BY <2>11 DEF PortChanges, TypeOK, server, peers
  <2>12. CASE UNCHANGED vars
    BY <2>12 DEF vars, server, peers, TypeOK
  <2> QED  BY <2>1, <2>2, <2>3, <2>5, <2>6, <2>7, <2>8, <2>9, <2>10, <2>11, <2>12
              DEF Next, Serve
<1> QED  BY <1>1, <1>2, PTL DEF Spec

-----------------------------------------------------------------------------
(***************************************************************************)
(* The table.  TableIsExact is not inductive: when a descriptor is closed, *)
(* its client must not have another one.                                   *)
(***************************************************************************)
TableInv ==
  /\ TableIsExact
  /\ \A f, g \in Fd : files[f] = files[g] /\ files[f] \in Clients => f = g

(***************************************************************************)
(* Room for clients.  Descriptors are given out from below.  So either the *)
(* port got the first one that was free, and no attempt to open it has     *)
(* left a descriptor behind, or the first attempt did, which then lies     *)
(* where the port would.                                                   *)
(***************************************************************************)
RoomInv ==
  pc # "ended" =>
    /\ \A fd \in Fd : files[fd] = "base" <=> fd < BaseFds
    /\ \A fd \in Fd : files[fd] = "port" => fd = sockfd
    /\ sockfd = NoFd =>
         /\ pc = "idle"
         /\ \A fd \in Fd : files[fd] \notin Clients
         /\ files[BaseFds] = "free" =>
              \A fd \in Fd : fd > BaseFds => files[fd] = "free"
    /\ OpenedAtOnce => \A fd \in Fd : files[fd] # "leaked"

\* What a descriptor stands for besides a client is not a client.
LEMMA UsesAreApart ==
  /\ \A use \in {"free", "base", "port", "leaked"} : use \notin Clients
  /\ BaseFds \in Fd /\ \A fd \in Fd : fd \in Nat /\ fd # NoFd
BY MySocketAssumption DEF Fd, NoFd

\* A connection that the daemon closes leaves the table exact.
LEMMA ClosingKeepsTable ==
  ASSUME TypeOK, TableInv, NEW c \in Clients, NEW fd \in Fd,
         fd \in sfd_connect, files[fd] = c, closeFd(fd), Closed(c), UNCHANGED pc
  PROVE  TableInv'
<1>1. \A f \in Fd : files'[f] = IF f = fd THEN "free" ELSE files[f]
  BY DEF closeFd, TypeOK
<1>2. sfd_connect' = sfd_connect \ {fd}
  BY DEF closeFd
<1>3. \A d \in Clients : place'[d] = IF d = c THEN "away" ELSE place[d]
  BY DEF Closed, TypeOK
<1>4. \A f \in Fd : files[f] = c => f = fd
  BY DEF TableInv
<1>5. sfd_connect' = { f \in Fd : files'[f] \in Clients }
  BY <1>1, <1>2, UsesAreApart DEF TableInv, TableIsExact
<1>6. ASSUME NEW d \in Clients
      PROVE  place'[d] = "accepted" /\ pc' # "ended" <=> \E f \in Fd : files'[f] = d
  <2>1. place[d] = "accepted" /\ pc # "ended" <=> \E f \in Fd : files[f] = d
    BY DEF TableInv, TableIsExact
  <2>2. CASE d = c
    BY <1>1, <1>3, <1>4, <2>2, UsesAreApart
  <2>3. CASE d # c
    BY <1>1, <1>3, <2>1, <2>3, UsesAreApart
  <2> QED  BY <2>2, <2>3
<1>7. \A f, g \in Fd : files'[f] = files'[g] /\ files'[f] \in Clients => f = g
  BY <1>1, UsesAreApart DEF TableInv
<1> QED  BY <1>5, <1>6, <1>7 DEF TableInv, TableIsExact

\* So does any step that leaves the descriptors and the accepted clients.
LEMMA OthersKeepTable ==
  ASSUME TableInv, UNCHANGED <<files, sfd_connect>>,
         \A c \in Clients : place'[c] = "accepted" <=> place[c] = "accepted",
         pc' = "ended" <=> pc = "ended"
  PROVE  TableInv'
BY DEF TableInv, TableIsExact

(***************************************************************************)
(* TableIsExact: the table of clients and the descriptors of the process   *)
(* agree at all times, for any number of clients and any limits.           *)
(***************************************************************************)
THEOREM Table == Spec => []TableIsExact
<1>1. Init => TableInv
  BY UsesAreApart DEF Init, TableInv, TableIsExact
<1>2. TypeOK /\ TableInv /\ [Next]_vars => TableInv'
  <2> SUFFICES ASSUME TypeOK, TableInv, [Next]_vars
               PROVE  TableInv'
    OBVIOUS
  <2>1. CASE OpenPort
    <3>1. NewFd \in Fd /\ files[NewFd] = "free"
      BY <2>1, NewFdIsLowest DEF OpenPort
    <3>2. \E use \in {"port", "leaked"} : files' = [files EXCEPT ![NewFd] = use]
      BY <2>1 DEF OpenPort
    <3>3. /\ \A f \in Fd : files'[f] \in Clients <=> files[f] \in Clients
          /\ \A f \in Fd : files[f] \in Clients => files'[f] = files[f]
      BY <3>1, <3>2, UsesAreApart DEF TypeOK
    <3>4. UNCHANGED <<sfd_connect, place>> /\ pc # "ended" /\ pc' # "ended"
      BY <2>1 DEF OpenPort, peers
    <3> QED  BY <3>3, <3>4 DEF TableInv, TableIsExact
  <2>2. CASE Select
    BY <2>2, OthersKeepTable DEF Select, peers
  <2>3. CASE AcceptClient
    <3>1. PICK c \in Backlog :
            IF NewFd = NoFd THEN UNCHANGED <<files, sfd_connect, peers>>
            ELSE \E fails \in SendsFail(c) :
                   IF fails \/ NewFd >= MAXSFD THEN Refuse(c) ELSE Admit(c, NewFd)
      BY <2>3 DEF AcceptClient
    <3>2. c \in Clients /\ place[c] = "backlog" /\ pc # "ended" /\ pc' # "ended"
      BY <2>3 DEF Backlog, AcceptClient
    <3>3. CASE NewFd = NoFd
      BY <3>1, <3>2, <3>3, OthersKeepTable DEF peers
    <3>4. CASE Refuse(c)
      BY <3>2, <3>4, OthersKeepTable DEF Refuse, Closed, TypeOK
    <3>5. CASE NewFd # NoFd /\ Admit(c, NewFd)
      <4> DEFINE fd == NewFd
      <4>1. fd \in Fd /\ files[fd] = "free"
        BY <3>5, NewFdIsLowest
      <4> HIDE DEF fd
      <4>2. /\ \A f \in Fd : files'[f] = IF f = fd THEN c ELSE files[f]
            /\ sfd_connect' = sfd_connect \cup {fd}
            /\ \A d \in Clients : place'[d] = IF d = c THEN "accepted" ELSE place[d]
        BY <3>2, <3>5, <4>1 DEF Admit, TypeOK, fd
      <4>3. \A f \in Fd : files[f] # c
        BY <3>2 DEF TableInv, TableIsExact
      <4>4. sfd_connect' = { f \in Fd : files'[f] \in Clients }
        BY <3>2, <4>1, <4>2 DEF TableInv, TableIsExact
      <4>5. ASSUME NEW d \in Clients
            PROVE  place'[d] = "accepted" /\ pc' # "ended"
                     <=> \E f \in Fd : files'[f] = d
        <5>1. place[d] = "accepted" <=> \E f \in Fd : files[f] = d
          BY <3>2 DEF TableInv, TableIsExact
        <5> QED  BY <3>2, <4>1, <4>2, <5>1, UsesAreApart
      <4>6. \A f, g \in Fd : files'[f] = files'[g] /\ files'[f] \in Clients => f = g
        BY <4>1, <4>2, <4>3 DEF TableInv
      <4> QED  BY <4>4, <4>5, <4>6 DEF TableInv, TableIsExact
    <3> QED  BY <3>1, <3>3, <3>4, <3>5
  <2>4. ASSUME NEW c \in Clients, NEW fd \in Fd, NEW quits, NEW unread,
               Turn(c, fd), Answer(c, fd, quits, unread), UNCHANGED pc
        PROVE  TableInv'
    <3>1. CASE closeFd(fd) /\ Closed(c)
      BY <2>4, <3>1, TurnIsDue, ClosingKeepsTable
    <3>2. CASE UNCHANGED <<files, sfd_connect, place, health>>
      BY <2>4, <3>2, OthersKeepTable
    <3> QED  BY <2>4, <3>1, <3>2, AnswerEnds
  <2>5. ASSUME NEW c \in Clients, NEW fd \in Fd, ReadOrder(c, fd)
        PROVE  TableInv'
    BY <2>4, <2>5 DEF ReadOrder
  <2>6. ASSUME NEW c \in Clients, NEW fd \in Fd, ReadExit(c, fd)
        PROVE  TableInv'
    <3>1. \A f \in Fd : files'[f] \notin Clients
      BY <2>6, UsesAreApart DEF ReadExit, TableInv, TableIsExact, TypeOK
    <3>2. sfd_connect' = {} /\ pc' = "ended"
      BY <2>6 DEF ReadExit
    <3> QED  BY <3>1, <3>2 DEF TableInv, TableIsExact
  <2>7. ASSUME NEW c \in Clients, NEW fd \in Fd, ReadError(c, fd)
        PROVE  TableInv'
    BY <2>7, OthersKeepTable DEF ReadError
  <2>8. ASSUME NEW c \in Clients, NEW fd \in Fd, ReadEnd(c, fd)
        PROVE  TableInv'
    BY <2>4, <2>8 DEF ReadEnd
  <2>9. CASE Return
    BY <2>9, OthersKeepTable DEF Return, peers
  <2>10. ASSUME NEW c \in Clients, Knock(c) \/ Say(c) \/ Leave(c) \/ Reset(c)
         PROVE  TableInv'
    <3>1. \A d \in Clients : place'[d] = "accepted" <=> place[d] = "accepted"
      BY <2>10 DEF Knock, Say, Leave, Reset, TypeOK
    <3> QED  BY <2>10, <3>1, OthersKeepTable DEF Knock, Say, Leave, Reset, server
  <2>11. CASE PortChanges
    BY <2>11, OthersKeepTable DEF PortChanges, server, peers
  <2>12. CASE UNCHANGED vars
    BY <2>12, OthersKeepTable DEF vars, server, peers
  <2> QED  BY <2>1, <2>2, <2>3, <2>5, <2>6, <2>7, <2>8, <2>9, <2>10, <2>11, <2>12
              DEF Next, Serve
<1>3. TableInv => TableIsExact
  BY DEF TableInv
<1> QED  BY <1>1, <1>2, <1>3, Typing, PTL DEF Spec

-----------------------------------------------------------------------------
\* A step that leaves the descriptors, or frees or fills a client's.
LEMMA ClientsKeepRoom ==
  ASSUME TypeOK, RoomInv, pc # "ended", sockfd # NoFd, UNCHANGED sockfd,
         \A fd \in Fd : \/ files'[fd] = files[fd]
                        \/ /\ files[fd] \in Clients \cup {"free"}
                           /\ files'[fd] \in Clients \cup {"free"}
  PROVE  RoomInv'
<1>1. \A fd \in Fd : \A use \in {"base", "port", "leaked"} :
        files'[fd] = use <=> files[fd] = use
  BY UsesAreApart
<1> QED  BY <1>1 DEF RoomInv, OpenedAtOnce

\* Opening the port takes the first descriptor, or has failed to before.
LEMMA OpeningKeepsRoom ==
  ASSUME TypeOK, RoomInv, OpenPort
  PROVE  RoomInv'
<1> DEFINE fd == NewFd
<1>1. /\ fd \in Fd /\ files[fd] = "free"
      /\ \A f \in Fd : f < fd => files[f] # "free"
  BY NewFdIsLowest DEF OpenPort
<1> HIDE DEF fd
<1>2. pc # "ended" /\ sockfd = NoFd
  BY DEF OpenPort
<1>3. /\ \A f \in Fd : files[f] = "base" <=> f < BaseFds
      /\ \A f \in Fd : files[f] \notin Clients /\ files[f] # "port"
      /\ files[BaseFds] = "free" =>
           \A f \in Fd : f > BaseFds => files[f] = "free"
  BY <1>2, UsesAreApart DEF RoomInv
<1>4. fd >= BaseFds /\ (files[BaseFds] = "free" => fd = BaseFds)
  <2>1. fd \in Nat /\ BaseFds \in Nat /\ BaseFds \in Fd
    BY <1>1, UsesAreApart
  <2> QED  BY <1>1, <1>3, <2>1
<1>5. CASE portFree
  <2>1. /\ \A f \in Fd : files'[f] = IF f = fd THEN "port" ELSE files[f]
        /\ sockfd' = fd /\ pc' = "poll"
    BY <1>1, <1>5 DEF OpenPort, TypeOK, fd
  <2>2. fd = BaseFds => \A f \in Fd : files[f] # "leaked"
    <3>1. ASSUME fd = BaseFds, NEW f \in Fd
          PROVE  files[f] # "leaked"
      <4>1. f < BaseFds \/ f = BaseFds \/ f > BaseFds
        BY UsesAreApart
      <4>2. files[BaseFds] = "free"
        BY <1>1, <3>1
      <4> QED  BY <1>3, <4>1, <4>2
    <3> QED  BY <3>1
  <2>3. \A f \in Fd : files'[f] = "base" <=> f < BaseFds
    <3>1. ~(fd < BaseFds)
      BY <1>1, <1>4, UsesAreApart
    <3> QED  BY <1>3, <2>1, <3>1
  <2>4. \A f \in Fd : files'[f] = "port" => f = sockfd'
    BY <1>3, <2>1
  <2>5. sockfd' # NoFd
    BY <1>1, <2>1, UsesAreApart
  <2>6. OpenedAtOnce' => \A f \in Fd : files'[f] # "leaked"
    BY <2>1, <2>2 DEF OpenedAtOnce
  <2> QED  BY <2>3, <2>4, <2>5, <2>6 DEF RoomInv
<1>6. CASE ~portFree
  <2>1. /\ \A f \in Fd : files'[f] = IF f = fd THEN "leaked" ELSE files[f]
        /\ UNCHANGED <<sockfd, pc>>
    BY <1>1, <1>6 DEF OpenPort, TypeOK, fd
  <2>2. files'[BaseFds] # "free"
    BY <1>1, <1>4, <2>1, UsesAreApart
  <2>3. ~OpenedAtOnce'
    BY <1>2, <2>1, UsesAreApart DEF OpenedAtOnce
  <2>4. ~(fd < BaseFds)
    BY <1>1, <1>4, UsesAreApart
  <2> QED  BY <1>2, <1>3, <2>1, <2>2, <2>3, <2>4, UsesAreApart DEF RoomInv
<1> QED  BY <1>5, <1>6

(***************************************************************************)
(* RefusedOnlyWhenFullOnceOpened: a client that is told that there are too *)
(* many is told the truth, unless opening the port has failed before.      *)
(***************************************************************************)
THEOREM Room == Spec => []RefusedOnlyWhenFullOnceOpened
<1>1. Init => RoomInv
  BY UsesAreApart DEF Init, RoomInv, OpenedAtOnce
<1>2. TypeOK /\ TableIsExact /\ RoomInv /\ [Next]_vars => RoomInv'
  <2> SUFFICES ASSUME TypeOK, TableIsExact, RoomInv, [Next]_vars
               PROVE  RoomInv'
    OBVIOUS
  <2>1. CASE OpenPort
    BY <2>1, OpeningKeepsRoom
  <2>2. CASE Select
    <3>1. sockfd # NoFd
      BY <2>2 DEF Select, RoomInv
    <3> QED  BY <2>2, <3>1, ClientsKeepRoom DEF Select
  <2>3. CASE AcceptClient
    <3>1. sockfd # NoFd /\ pc # "ended"
      BY <2>3 DEF AcceptClient, RoomInv
    <3>2. PICK c \in Backlog :
            \/ UNCHANGED files
            \/ NewFd # NoFd /\ files' = [files EXCEPT ![NewFd] = c]
      BY <2>3 DEF AcceptClient, Refuse, Admit
    <3>3. \A fd \in Fd : \/ files'[fd] = files[fd]
                         \/ /\ files[fd] = "free"
                            /\ files'[fd] \in Clients
      BY <3>2, NewFdIsLowest DEF TypeOK, Backlog
    <3> QED  BY <2>3, <3>1, <3>3, ClientsKeepRoom DEF AcceptClient
  <2>4. ASSUME NEW c \in Clients, NEW fd \in Fd, Turn(c, fd),
               closeFd(fd) \/ UNCHANGED files
        PROVE  RoomInv'
    <3>1. pc # "ended" /\ sockfd # NoFd /\ UNCHANGED sockfd
      BY <2>4 DEF Turn, RoomInv
    <3>2. files[fd] = c
      BY <2>4 DEF Turn
    <3>3. \A f \in Fd : \/ files'[f] = files[f]
                        \/ files[f] = c /\ files'[f] = "free"
      BY <2>4, <3>2 DEF closeFd, TypeOK
    <3> QED  BY <3>1, <3>3, ClientsKeepRoom
  <2>5. ASSUME NEW c \in Clients, NEW fd \in Fd, ReadOrder(c, fd)
        PROVE  RoomInv'
    BY <2>4, <2>5, AnswerEnds DEF ReadOrder
  <2>6. ASSUME NEW c \in Clients, NEW fd \in Fd, ReadExit(c, fd)
        PROVE  RoomInv'
    BY <2>6 DEF ReadExit, RoomInv
  <2>7. ASSUME NEW c \in Clients, NEW fd \in Fd, ReadError(c, fd)
        PROVE  RoomInv'
    BY <2>4, <2>7 DEF ReadError
  <2>8. ASSUME NEW c \in Clients, NEW fd \in Fd, ReadEnd(c, fd)
        PROVE  RoomInv'
    BY <2>4, <2>8, AnswerEnds DEF ReadEnd
  <2>9. CASE Return
    BY <2>9, ClientsKeepRoom DEF Return, RoomInv
  <2>10. CASE \E c \in Clients : Knock(c) \/ Say(c) \/ Leave(c) \/ Reset(c)
    <3>1. UNCHANGED server
      BY <2>10 DEF Knock, Say, Leave, Reset
    <3> QED  BY <3>1 DEF server, RoomInv, OpenedAtOnce
  <2>11. CASE PortChanges
    BY <2>11 DEF PortChanges, server, RoomInv, OpenedAtOnce
  <2>12. CASE UNCHANGED vars
    BY <2>12 DEF vars, server, RoomInv, OpenedAtOnce
  <2> QED  BY <2>1, <2>2, <2>3, <2>5, <2>6, <2>7, <2>8, <2>9, <2>10, <2>11, <2>12
              DEF Next, Serve
<1>3. TypeOK /\ TableIsExact /\ RoomInv => RefusedOnlyWhenFullOnceOpened
  <2> SUFFICES ASSUME TypeOK, TableIsExact, RoomInv, OpenedAtOnce,
                      pc = "accept", NewFd >= MAXSFD
               PROVE  Cardinality(sfd_connect) >= MAXSFD - BaseFds - 1
    BY DEF RefusedOnlyWhenFullOnceOpened, RefusedOnlyWhenFull
  <2> DEFINE rest == BaseFds + 1 .. MAXSFD - 1
  <2>1. NewFd # NoFd
    BY MySocketAssumption DEF NoFd
  <2>2. ASSUME NEW fd \in rest
        PROVE  fd \in sfd_connect
    <3>1. fd \in Fd /\ fd < NewFd /\ ~(fd < BaseFds) /\ fd # BaseFds
      <4>1. NewFd \in Int
        BY <2>1, NewFdIsLowest, UsesAreApart
      <4> QED  BY <4>1, MySocketAssumption DEF Fd
    <3>2. files[fd] # "free" /\ files[fd] # "base" /\ files[fd] # "leaked"
      BY <2>1, <3>1, NewFdIsLowest DEF RoomInv
    <3>3. files[fd] # "port"
      BY <3>1 DEF RoomInv, OpenedAtOnce
    <3> QED  BY <3>1, <3>2, <3>3 DEF TypeOK, Uses, TableIsExact
  <2>3. Cardinality(rest) = MAXSFD - BaseFds - 1
    <3>1. BaseFds + 1 \in Int /\ MAXSFD - 1 \in Int
      BY MySocketAssumption
    <3>2. Cardinality(rest) = IF BaseFds + 1 > MAXSFD - 1 THEN 0
                              ELSE (MAXSFD - 1) - (BaseFds + 1) + 1
      BY <3>1, FS_Interval
    <3> QED  BY <3>2, MySocketAssumption
  <2>4. IsFiniteSet(sfd_connect)
    <3>1. IsFiniteSet(0 .. MAXSFD - 1)
      BY FS_Interval, MySocketAssumption
    <3> QED  BY <3>1, FS_Subset DEF TypeOK
  <2>5. Cardinality(rest) <= Cardinality(sfd_connect)
    BY <2>2, <2>4, FS_Subset
  <2>6. Cardinality(sfd_connect) \in Nat /\ Cardinality(rest) \in Int
    BY <2>3, <2>4, FS_CardinalityType, MySocketAssumption
  <2> HIDE DEF rest
  <2> QED  BY <2>3, <2>5, <2>6
<1> QED  BY <1>1, <1>2, <1>3, Typing, Table, PTL DEF Spec
=============================================================================
