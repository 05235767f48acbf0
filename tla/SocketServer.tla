---------------------------- MODULE SocketServer ----------------------------
(***************************************************************************)
(* The gateway's connections: the client list of socket_server.c, the poll *)
(* loop of zbController.c that serves it, and the replies and broadcasts   *)
(* that interface_srpcserver.c writes.  What the messages say is left out. *)
(*                                                                         *)
(* One process serves everything.  A round of its loop polls the list as   *)
(* it is then, handles the serial line, then each descriptor with events,  *)
(* in list order, the listening socket first.  Peers act at any time, also *)
(* between two writes of one broadcast.                                    *)
(***************************************************************************)
EXTENDS Naturals, Sequences, SequencesExt, FiniteSets

CONSTANTS Conn,          \* connections of clients
          NoConn,        \* a descriptor that is not open
          MaxFd,         \* descriptors 1..MaxFd are for clients
          MaxMessages,   \* bound: writes one request or serial frame causes
          MaxBadRecords, \* bound: records of failed accepts that are kept
          Faults         \* of "abort", "slow", "limit" and "stop", see below

ASSUME ConnAssumption == NoConn \notin Conn
ASSUME BoundAssumption == MaxFd \in Nat /\ MaxMessages \in Nat /\ MaxBadRecords \in Nat

VARIABLES list,      \* the descriptors of the client records, head left out
          fdTable,   \* kernel: the connection behind each descriptor
          backlog,   \* kernel: connections not yet accepted
          peer,      \* kernel: what has happened to each connection
          inq,       \* connections with requests to read
          pc,        \* where the process is
          round,     \* what poll reported and the loop has not come to
          todo,      \* messages still to be written
          at,        \* srchRec: position in the list of the next write
          heard      \* connections the current broadcast was written to

vars == <<list, fdTable, backlog, peer, inq, pc, round, todo, at, heard>>

Listen == 0         \* the listening socket
BadFd  == MaxFd + 1 \* the -1 of a failed accept
Fd     == 1..MaxFd

\* "open": both ends live.  "closed": the peer has closed.  "closing": it has
\* closed, and a write since then makes it answer with a reset.  "broken": the
\* next write raises SIGPIPE.  "reset": the peer aborted; the next write fails.
PeerState == {"idle", "open", "closed", "closing", "broken", "reset"}
Gone == {"closed", "closing", "broken", "reset"}

Accepted == {fdTable[f] : f \in Fd} \ {NoConn}

\* One entry of the array that poll fills in.
PollFd == [fd : Fd \cup {Listen, BadFd}, in : BOOLEAN, hup : BOOLEAN,
           conn : Conn \cup {NoConn}]

TypeOK ==
    /\ list \in Seq(Fd \cup {BadFd})
    /\ fdTable \in [Fd -> Conn \cup {NoConn}]
    /\ backlog \in Seq(Conn)
    /\ peer \in [Conn -> PeerState]
    /\ inq \subseteq Conn
    /\ pc \in {"poll", "serial", "send", "sockets", "reply", "down"}
    /\ round \in Seq(PollFd)
    /\ todo \in 0..MaxMessages
    /\ at \in Nat
    /\ heard \subseteq Conn

Init ==
    /\ list = <<>>
    /\ fdTable = [f \in Fd |-> NoConn]
    /\ backlog = <<>>
    /\ peer = [c \in Conn |-> "idle"]
    /\ inq = {}
    /\ pc = "poll"
    /\ round = <<>>
    /\ todo = 0
    /\ at = 1
    /\ heard = {}

server == <<list, fdTable, pc, round, todo, at, heard>>

-----------------------------------------------------------------------------
(* Clients and the network. *)

\* A client connects; a connection may be used again once nobody knows it.
PeerConnect(c) ==
    /\ pc # "down"
    /\ c \notin Accepted /\ c \notin ToSet(backlog)
    /\ backlog' = Append(backlog, c)
    /\ peer' = [peer EXCEPT ![c] = "open"]
    /\ inq' = inq \ {c}
    /\ UNCHANGED server

PeerSend(c) ==
    /\ peer[c] = "open"
    /\ inq' = inq \cup {c}
    /\ UNCHANGED <<backlog, peer, server>>

PeerClose(c) ==
    /\ peer[c] = "open"
    /\ peer' = [peer EXCEPT ![c] = "closed"]
    /\ UNCHANGED <<backlog, inq, server>>

\* Fault "abort": the peer resets the connection, what it sent is discarded.
PeerAbort(c) ==
    /\ "abort" \in Faults
    /\ peer[c] = "open"
    /\ peer' = [peer EXCEPT ![c] = "reset"]
    /\ inq' = inq \ {c}
    /\ UNCHANGED <<backlog, server>>

ResetArrives(c) ==
    /\ peer[c] = "closing"
    /\ peer' = [peer EXCEPT ![c] = "broken"]
    /\ UNCHANGED <<backlog, inq, server>>

-----------------------------------------------------------------------------
(* One write to a connection. *)

\* "ok", "fail" (write returns -1) or "kill" (SIGPIPE, which nothing in the
\* program catches or ignores).  Fault "slow": the send buffer of a
\* non-blocking socket is full because the client does not read.
WriteResult(c) ==
    CASE peer[c] = "reset"  -> {"fail"}
      [] peer[c] = "broken" -> {"kill"}
      [] OTHER -> {"ok"} \cup (IF "slow" \in Faults THEN {"fail"} ELSE {})

\* What the write does to the connection.
AfterWrite(c) ==
    peer' = [peer EXCEPT ![c] = CASE @ = "closed" -> "closing"
                                  [] @ = "reset"  -> "broken"
                                  [] OTHER        -> @]

\* The process dies and the kernel closes its descriptors.
Die ==
    /\ pc' = "down"
    /\ list' = <<>>
    /\ fdTable' = [f \in Fd |-> NoConn]
    /\ round' = <<>>
    /\ todo' = 0
    /\ at' = 1
    /\ heard' = {}

-----------------------------------------------------------------------------
(* The list. *)

\* Mutant: the record goes, the descriptor stays open.
DeleteSocketRecOnly(f) ==
    /\ list' = IF Contains(list, f) THEN RemoveFirst(list, f) ELSE list
    /\ UNCHANGED fdTable

\* deleteSocketRec: the first record with this descriptor leaves the list and
\* the descriptor is closed; without a record, nothing happens.
DeleteSocketRec(f) ==
    IF Contains(list, f)
      THEN /\ list' = RemoveFirst(list, f)
           /\ fdTable' = [g \in Fd |-> IF g = f THEN NoConn ELSE fdTable[g]]
      ELSE UNCHANGED <<list, fdTable>>

FreeFd == {f \in Fd : fdTable[f] = NoConn}

BadRecords == Cardinality({i \in DOMAIN list : list[i] = BadFd})

\* createSocketRec: accept gives the lowest free descriptor, or -1 if the
\* process or the system has no more (fault "limit"); a record is appended in
\* either case.
CreateSocketRec ==
    \/ /\ FreeFd # {}
       /\ list' = Append(list, Min(FreeFd))
       /\ fdTable' = [fdTable EXCEPT ![Min(FreeFd)] = Head(backlog)]
       /\ backlog' = Tail(backlog)
    \/ /\ "limit" \in Faults
       /\ list' = IF BadRecords < MaxBadRecords THEN Append(list, BadFd) ELSE list
       /\ UNCHANGED <<fdTable, backlog>>

-----------------------------------------------------------------------------
(* The poll loop of main. *)

Readable(f) == fdTable[f] \in inq \/ peer[fdTable[f]] \in Gone

HungUp(f) == peer[fdTable[f]] \in Gone

\* What poll reports of a descriptor; conn is history: whose events they are.
ListenEvent == [fd |-> Listen, in |-> backlog # <<>>, hup |-> FALSE, conn |-> NoConn]

ClientEvent(f, in, hup) ==
    [fd |-> f, in |-> in, hup |-> hup, conn |-> IF f \in Fd THEN fdTable[f] ELSE NoConn]

\* Mutants: POLLRDHUP, or POLLIN, is not asked for.
EventNoHup(f) ==
    IF f = Listen
      THEN ListenEvent
      ELSE ClientEvent(f, f \in Fd /\ Readable(f), FALSE)

EventNoIn(f) ==
    IF f = Listen
      THEN ListenEvent
      ELSE ClientEvent(f, FALSE, f \in Fd /\ HungUp(f))

\* The events the loop asks for.  poll ignores a descriptor of -1.
Event(f) ==
    IF f = Listen
      THEN ListenEvent
      ELSE ClientEvent(f, f \in Fd /\ Readable(f), f \in Fd /\ HungUp(f))

Polled == [i \in 1..(Len(list) + 1) |->
             IF i = 1 THEN Event(Listen) ELSE Event(list[i - 1])]

Quiet(e) == ~e.in /\ ~e.hup

\* Poll returns for a socket, for the serial line, or for both.
Poll ==
    /\ pc = "poll"
    /\ round' = Polled
    /\ pc' \in {"serial", "sockets"}
    /\ pc' = "sockets" => \E i \in DOMAIN Polled : ~Quiet(Polled[i])
    /\ todo' \in (IF pc' = "serial" THEN 0..MaxMessages ELSE {0})
    /\ UNCHANGED <<list, fdTable, backlog, peer, inq, at, heard>>

AlwaysOutstanding == TRUE                         \* mutant: writes one too many

Outstanding == todo > 0

\* zbSocProcessRpc handles one frame, whose callbacks broadcast todo messages.
StartBroadcast ==
    /\ pc = "serial"
    /\ Outstanding
    /\ todo' = todo - 1
    /\ at' = 1
    /\ heard' = {}
    /\ pc' = "send"
    /\ UNCHANGED <<list, fdTable, backlog, peer, inq, round>>

SerialDone ==
    /\ pc = "serial"
    /\ todo = 0
    /\ pc' = "sockets"
    /\ UNCHANGED <<list, fdTable, backlog, peer, inq, round, todo, at, heard>>

-----------------------------------------------------------------------------
(* socketSeverSendAllclients. *)

Current == list[at]

\* Mutant: the record after the next is taken.
WriteOkSkips ==
    /\ pc = "send" /\ at <= Len(list) /\ Current \in Fd
    /\ "ok" \in WriteResult(fdTable[Current])
    /\ AfterWrite(fdTable[Current])
    /\ heard' = heard \cup {fdTable[Current]}
    /\ at' = at + 2
    /\ UNCHANGED <<list, fdTable, backlog, inq, pc, round, todo>>

WriteOk ==
    /\ pc = "send" /\ at <= Len(list) /\ Current \in Fd
    /\ "ok" \in WriteResult(fdTable[Current])
    /\ AfterWrite(fdTable[Current])
    /\ heard' = heard \cup {fdTable[Current]}
    /\ at' = at + 1
    /\ UNCHANGED <<list, fdTable, backlog, inq, pc, round, todo>>

\* The client goes and the broadcast is over.
WriteFails ==
    /\ pc = "send" /\ at <= Len(list)
    /\ IF Current \in Fd
         THEN "fail" \in WriteResult(fdTable[Current]) /\ AfterWrite(fdTable[Current])
         ELSE UNCHANGED peer
    /\ DeleteSocketRec(Current)
    /\ pc' = "serial"
    /\ UNCHANGED <<backlog, inq, round, todo, at, heard>>

WriteKills ==
    /\ pc = "send" /\ at <= Len(list) /\ Current \in Fd
    /\ "kill" \in WriteResult(fdTable[Current])
    /\ Die
    /\ UNCHANGED <<backlog, peer, inq>>

BroadcastDone ==
    /\ pc = "send"
    /\ at > Len(list)
    /\ pc' = "serial"
    /\ UNCHANGED <<list, fdTable, backlog, peer, inq, round, todo, at, heard>>

-----------------------------------------------------------------------------
(* socketSeverPoll, for the descriptors of the round. *)

Serving == pc = "sockets" /\ round # <<>>

RoundDone ==
    /\ pc = "sockets"
    /\ round = <<>>
    /\ pc' = "poll"
    /\ UNCHANGED <<list, fdTable, backlog, peer, inq, round, todo, at, heard>>

Accept ==
    /\ Serving /\ Head(round).fd = Listen /\ Head(round).in
    /\ CreateSocketRec
    /\ round' = Tail(round)
    /\ UNCHANGED <<peer, inq, pc, todo, at, heard>>

\* SRPC_RxCB reads what FIONREAD counts; the requests are answered with some
\* number of messages.
ReadRequests ==
    /\ Serving /\ Head(round).fd \in Fd /\ Head(round).in
    /\ fdTable[Head(round).fd] # NoConn
    /\ LET c == fdTable[Head(round).fd] IN
         /\ inq' = inq \ {c}
         /\ todo' \in (IF c \in inq THEN 0..MaxMessages ELSE {0})
    /\ round' = [round EXCEPT ![1].in = FALSE]
    /\ pc' = "reply"
    /\ UNCHANGED <<list, fdTable, backlog, peer, at, heard>>

\* The descriptor has been closed in this round: ioctl fails and the count is
\* what the stack held.  Zero reads nothing; otherwise read fails and error()
\* ends the process.
ReadClosed ==
    /\ Serving /\ Head(round).fd \in Fd /\ Head(round).in
    /\ fdTable[Head(round).fd] = NoConn
    /\ \/ /\ round' = [round EXCEPT ![1].in = FALSE]
          /\ UNCHANGED <<list, fdTable, pc, todo, at, heard>>
       \/ Die
    /\ UNCHANGED <<backlog, peer, inq>>

\* Fault "stop": the request is SRPC_close with its magic number.  Every client
\* is closed, then the listening socket, and the process exits.
CloseGateway ==
    /\ "stop" \in Faults
    /\ Serving /\ Head(round).fd \in Fd /\ Head(round).in
    /\ fdTable[Head(round).fd] \in inq
    /\ Die
    /\ UNCHANGED <<backlog, peer, inq>>

\* socketSeverSend: a failed write is only reported.
Reply ==
    /\ pc = "reply"
    /\ Outstanding
    /\ LET c == fdTable[Head(round).fd] IN
         IF peer[c] = "broken"
           THEN Die /\ UNCHANGED peer
           ELSE /\ AfterWrite(c)
                /\ todo' = todo - 1
                /\ UNCHANGED <<list, fdTable, pc, round, at, heard>>
    /\ UNCHANGED <<backlog, inq>>

RepliesDone ==
    /\ pc = "reply"
    /\ todo = 0
    /\ pc' = "sockets"
    /\ UNCHANGED <<list, fdTable, backlog, peer, inq, round, todo, at, heard>>

\* Mutant: any event is a shutdown.
HangUpAlways ==
    /\ Serving /\ Head(round).fd \in Fd /\ ~Head(round).in
    /\ DeleteSocketRec(Head(round).fd)
    /\ round' = Tail(round)
    /\ UNCHANGED <<backlog, peer, inq, pc, todo, at, heard>>

\* The events with their input served: a shutdown removes the client.
HangUp ==
    /\ Serving /\ Head(round).fd \in Fd /\ ~Head(round).in
    /\ Head(round).hup
    /\ DeleteSocketRec(Head(round).fd)
    /\ round' = Tail(round)
    /\ UNCHANGED <<backlog, peer, inq, pc, todo, at, heard>>

\* A descriptor without events, or with none left to serve.
NextDescriptor ==
    /\ Serving
    /\ Quiet(Head(round))
    /\ round' = Tail(round)
    /\ UNCHANGED <<list, fdTable, backlog, peer, inq, pc, todo, at, heard>>

-----------------------------------------------------------------------------
PeerStep ==
    \E c \in Conn : \/ PeerConnect(c) \/ PeerSend(c) \/ PeerClose(c)
                    \/ PeerAbort(c) \/ ResetArrives(c)

Broadcast == StartBroadcast \/ WriteOk \/ WriteFails \/ WriteKills \/ BroadcastDone

Sockets ==
    \/ Accept \/ ReadRequests \/ ReadClosed \/ CloseGateway
    \/ Reply \/ RepliesDone \/ HangUp \/ NextDescriptor \/ RoundDone

ServerStep == Poll \/ SerialDone \/ Broadcast \/ Sockets

Next == PeerStep \/ ServerStep

\* The process runs whenever it can: poll blocks only while nothing is ready,
\* and nothing else in the loop blocks (client sockets are non-blocking).
Spec == Init /\ [][Next]_vars /\ WF_vars(ServerStep)
-----------------------------------------------------------------------------
(* Correctness. *)

\* Each open descriptor has one record and each record but those of failed
\* accepts one open descriptor: no descriptor leaks, none is closed twice, and
\* the kernel never reuses a number the list still holds.
FdsOwned ==
    /\ \A i, j \in DOMAIN list : list[i] \in Fd /\ list[i] = list[j] => i = j
    /\ ToSet(list) \cap Fd = {f \in Fd : fdTable[f] # NoConn}
    /\ \A f, g \in Fd : fdTable[f] # NoConn /\ fdTable[f] = fdTable[g] => f = g

\* "its a shut down close the socket" (socket_server.c:366) and "closing client
\* socket" (:432): the connection of a client that is there and takes what is
\* written to it is never closed, as long as the process lives.
OnlyDepartedDropped ==
    [][pc # "send" /\ pc' # "down" =>
         \A c \in Accepted : peer[c] = "open" => c \in Accepted']_vars

\* What does happen: outside a broadcast a live client is only dropped by an
\* event that poll reported, in the same round, of an earlier connection with
\* its descriptor; its own events never drop it.
DropsMatchEvents ==
    [][pc = "sockets" /\ pc' # "down" =>
         \A c \in Accepted \ Accepted' :
            peer[c] = "open" => Head(round).conn # c /\ fdTable[Head(round).fd] = c]_vars

\* "Send a buffer to all clients" (socket_server.c:411): a broadcast that drops
\* nobody has been written to every client that is still there when it returns.
\* (One that drops a client ends there, and misses the clients after it.)
BroadcastReachesAll ==
    [][pc = "send" /\ pc' = "serial" /\ list' = list =>
         \A c \in Accepted' : peer[c] = "open" => c \in heard]_vars

\* The process forgets a client that has gone and frees its descriptor, and
\* accepts a client that waits, or it has died.
DepartedIsForgotten ==
    \A c \in Conn : c \in Accepted /\ peer[c] \in Gone ~> c \notin Accepted

RequestsAreRead ==
    \A c \in Conn : c \in Accepted /\ c \in inq ~> c \notin inq \/ c \notin Accepted
=============================================================================
