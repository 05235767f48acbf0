------------------------ MODULE SocketServer_proofs -------------------------
(***************************************************************************)
(* What holds of the gateway's connections for every number of clients,    *)
(* descriptors and messages and with every fault: no descriptor leaks or   *)
(* is owned twice, and which clients a round and a broadcast can lose.     *)
(***************************************************************************)
EXTENDS SocketServer, RecordFile_proofs

\* The kernel queues a connection once, and not one that has a descriptor.
BacklogIsNew ==
    /\ \A i, j \in DOMAIN backlog : backlog[i] = backlog[j] => i = j
    /\ \A i \in DOMAIN backlog : backlog[i] \notin Accepted

\* socketSeverSend writes to a descriptor that is open, the one the requests
\* came from: nothing closes it between the read and the last reply.
ReplyHasReader ==
    pc = "reply" => /\ round # <<>>
                    /\ Head(round).fd \in Fd
                    /\ fdTable[Head(round).fd] # NoConn

\* The listening socket is the first entry (socket_server.c:83); a client whose
\* shutdown poll reported is still gone, unless it was dropped since; and the
\* connection that the round will accept is none of those.
RoundIsTrue ==
    /\ \A i \in DOMAIN round : round[i].fd = Listen => i = 1
    /\ \A i \in DOMAIN round :
         round[i].hup => /\ round[i].fd \in Fd
                         /\ round[i].conn \in Accepted => peer[round[i].conn] \in Gone
    /\ round # <<>> /\ round[1].fd = Listen /\ round[1].in
         => /\ backlog # <<>>
            /\ \A i \in DOMAIN round : round[i].hup => round[i].conn # backlog[1]

\* A broadcast has been written to every record before its position.
WrittenBefore ==
    /\ at >= 1
    /\ pc = "send" => \A i \in DOMAIN list :
                         i < at => list[i] \in Fd /\ fdTable[list[i]] \in heard

ServerInv ==
    /\ TypeOK
    /\ FdsOwned
    /\ BacklogIsNew
    /\ ReplyHasReader
    /\ RoundIsTrue
    /\ WrittenBefore

-----------------------------------------------------------------------------
(* Lemmas about the operators. *)

\* Removing the first occurrence of an element takes one occurrence out and
\* keeps the order of the rest (deleteSocketRec, socket_server.c:149-188).
LEMMA RemoveFirstProperties ==
    ASSUME NEW R, NEW s \in Seq(R), NEW e, Contains(s, e)
    PROVE  \E n \in 1..Len(s) :
             /\ s[n] = e
             /\ RemoveFirst(s, e) \in Seq(R)
             /\ DOMAIN RemoveFirst(s, e) = 1..(Len(s) - 1)
             /\ \A i \in 1..(Len(s) - 1) :
                  RemoveFirst(s, e)[i] = IF i < n THEN s[i] ELSE s[i + 1]
<1> DEFINE I == {i \in 1..Len(s) : s[i] = e}
<1>1. I # {} /\ I \subseteq Nat
  BY LenProperties DEF Contains
<1>2. FirstOf(I) \in I
  BY <1>1, FirstOfProperties
<1>3. RemoveFirst(s, e) = RemoveAt(s, FirstOf(I))
  BY <1>1 DEF RemoveFirst, SelectInSeq, FirstOf, Contains
<1> QED
  BY <1>2, <1>3, RemoveAtProperties

\* The connections that have a descriptor.
LEMMA AcceptedProperties ==
    ASSUME TypeOK
    PROVE  /\ Accepted \subseteq Conn
           /\ \A f \in Fd : fdTable[f] # NoConn => fdTable[f] \in Accepted
           /\ \A c \in Accepted : \E f \in Fd : fdTable[f] = c /\ c # NoConn
BY DEF TypeOK, Accepted

\* A record of a descriptor that is not -1 belongs to an open connection.
LEMMA RecordIsOpen ==
    ASSUME TypeOK, FdsOwned, NEW i \in DOMAIN list, list[i] \in Fd
    PROVE  fdTable[list[i]] # NoConn /\ fdTable[list[i]] \in Conn
<1>1. list[i] \in ToSet(list) \cap Fd
  BY DEF ToSet
<1>2. fdTable[list[i]] # NoConn
  BY <1>1 DEF FdsOwned
<1> QED
  BY <1>2 DEF TypeOK

\* Removing a client record closes its descriptor and no other.
LEMMA DeleteSocketRecKeeps ==
    ASSUME TypeOK, FdsOwned, NEW f \in Fd \cup {BadFd}, DeleteSocketRec(f)
    PROVE  /\ list' \in Seq(Fd \cup {BadFd})
           /\ fdTable' \in [Fd -> Conn \cup {NoConn}]
           /\ FdsOwned'
           /\ \A g \in Fd : fdTable'[g] # NoConn => fdTable'[g] = fdTable[g]
           /\ \A g \in Fd : g # f => fdTable'[g] = fdTable[g]
           /\ Contains(list, f) => list' # list
<1>1. CASE ~Contains(list, f)
  BY <1>1 DEF DeleteSocketRec, TypeOK, FdsOwned, ToSet
<1>2. CASE Contains(list, f)
  <2>1. PICK n \in 1..Len(list) :
          /\ list[n] = f
          /\ list' \in Seq(Fd \cup {BadFd})
          /\ DOMAIN list' = 1..(Len(list) - 1)
          /\ \A i \in 1..(Len(list) - 1) :
               list'[i] = IF i < n THEN list[i] ELSE list[i + 1]
    BY <1>2, RemoveFirstProperties DEF DeleteSocketRec, TypeOK
  <2>2. /\ Len(list) \in Nat
        /\ DOMAIN list = 1..Len(list)
    BY LenProperties DEF TypeOK
  <2>3. fdTable' = [g \in Fd |-> IF g = f THEN NoConn ELSE fdTable[g]]
    BY <1>2 DEF DeleteSocketRec
  <2>4. /\ fdTable' \in [Fd -> Conn \cup {NoConn}]
        /\ \A g \in Fd : fdTable'[g] = IF g = f THEN NoConn ELSE fdTable[g]
    BY <2>3 DEF TypeOK
  <2> DEFINE from(i) == IF i < n THEN i ELSE i + 1
  <2>5. /\ \A i \in DOMAIN list' : from(i) \in DOMAIN list /\ list'[i] = list[from(i)]
        /\ \A i \in DOMAIN list' : from(i) # n
        /\ \A i, j \in DOMAIN list' : from(i) = from(j) => i = j
    BY <2>1, <2>2
  <2>6. \A k \in DOMAIN list : k # n => \E i \in DOMAIN list' : from(i) = k
    <3> SUFFICES ASSUME NEW k \in DOMAIN list, k # n
                 PROVE  \E i \in DOMAIN list' : from(i) = k
      OBVIOUS
    <3>1. CASE k < n
      BY <2>1, <2>2, <3>1
    <3>2. CASE k > n
      <4>1. k - 1 \in DOMAIN list' /\ from(k - 1) = k
        BY <2>1, <2>2, <3>2
      <4> QED
        BY <4>1
    <3> QED
      BY <2>2, <3>1, <3>2
  <2> HIDE DEF from
  <2>7. \A i, j \in DOMAIN list' : list'[i] \in Fd /\ list'[i] = list'[j] => i = j
    BY <2>5 DEF FdsOwned
  <2>8. ASSUME NEW g \in Fd
        PROVE  g \in ToSet(list') <=> g \in ToSet(list) /\ g # f
    <3>1. g \in ToSet(list') => g \in ToSet(list)
      BY <2>5 DEF ToSet
    <3>2. g \in ToSet(list') => g # f
      BY <2>1, <2>2, <2>5 DEF ToSet, FdsOwned
    <3>3. g \in ToSet(list) /\ g # f => g \in ToSet(list')
      <4> SUFFICES ASSUME NEW k \in DOMAIN list, list[k] = g, g # f
                   PROVE  g \in ToSet(list')
        BY DEF ToSet
      <4>1. PICK i \in DOMAIN list' : from(i) = k
        BY <2>1, <2>6
      <4> QED
        BY <2>5, <4>1 DEF ToSet
    <3> QED
      BY <3>1, <3>2, <3>3
  <2>9. ToSet(list') \cap Fd = {g \in Fd : fdTable'[g] # NoConn}
    BY <2>4, <2>8 DEF FdsOwned
  <2>10. \A g, h \in Fd : fdTable'[g] # NoConn /\ fdTable'[g] = fdTable'[h] => g = h
    BY <2>4 DEF FdsOwned
  <2>11. list' # list
    BY <2>1, <2>2
  <2> QED
    BY <2>1, <2>4, <2>7, <2>9, <2>10, <2>11 DEF FdsOwned
<1> QED
  BY <1>1, <1>2

\* accept hands out a descriptor that no record holds, and the record gets it.
LEMMA CreateSocketRecKeeps ==
    ASSUME TypeOK, FdsOwned, BacklogIsNew, backlog # <<>>, CreateSocketRec
    PROVE  /\ list' \in Seq(Fd \cup {BadFd})
           /\ fdTable' \in [Fd -> Conn \cup {NoConn}]
           /\ backlog' \in Seq(Conn)
           /\ FdsOwned'
           /\ BacklogIsNew'
           /\ Accepted' \subseteq Accepted \cup {backlog[1]}
<1>1. /\ backlog[1] \in Conn /\ Head(backlog) = backlog[1]
      /\ 1 \in DOMAIN backlog
      /\ Len(backlog) \in Nat \ {0}
      /\ DOMAIN backlog = 1..Len(backlog)
  BY LenProperties, EmptySeq, ElementOfSeq DEF TypeOK
<1>2. /\ Len(list) \in Nat
      /\ DOMAIN list = 1..Len(list)
  BY LenProperties DEF TypeOK
<1>3. CASE /\ list' = IF BadRecords < MaxBadRecords THEN Append(list, BadFd) ELSE list
           /\ UNCHANGED <<fdTable, backlog>>
  <2>1. BadFd \notin Fd
    BY BoundAssumption DEF BadFd, Fd
  <2>2. CASE list' = list
    BY <1>3, <2>2 DEF TypeOK, FdsOwned, BacklogIsNew, Accepted, ToSet
  <2>3. CASE list' = Append(list, BadFd)
    <3>1. /\ list' \in Seq(Fd \cup {BadFd})
          /\ DOMAIN list' = 1..(Len(list) + 1)
          /\ \A i \in 1..Len(list) : list'[i] = list[i]
          /\ list'[Len(list) + 1] = BadFd
      BY <2>3, AddRecordProperties DEF AddRecord, TypeOK
    <3>2. \A i, j \in DOMAIN list' : list'[i] \in Fd /\ list'[i] = list'[j] => i = j
      BY <1>2, <2>1, <3>1 DEF FdsOwned
    <3>3. ToSet(list') \cap Fd = ToSet(list) \cap Fd
      BY <1>2, <2>1, <3>1 DEF ToSet
    <3> QED
      BY <1>3, <3>1, <3>2, <3>3 DEF TypeOK, FdsOwned, BacklogIsNew, Accepted
  <2> QED
    BY <1>3, <2>2, <2>3
<1>4. CASE /\ FreeFd # {}
           /\ list' = Append(list, Min(FreeFd))
           /\ fdTable' = [fdTable EXCEPT ![Min(FreeFd)] = Head(backlog)]
           /\ backlog' = Tail(backlog)
  <2> DEFINE new == Min(FreeFd)
  <2>1. new \in Fd /\ fdTable[new] = NoConn
    <3>1. FreeFd \subseteq Nat
      BY DEF FreeFd, Fd
    <3>2. FirstOf(FreeFd) \in FreeFd
      BY <1>4, <3>1, FirstOfProperties
    <3> QED
      BY <3>2 DEF FirstOf, FreeFd
  <2> HIDE DEF new
  <2>2. /\ list' \in Seq(Fd \cup {BadFd})
        /\ DOMAIN list' = 1..(Len(list) + 1)
        /\ \A i \in 1..Len(list) : list'[i] = list[i]
        /\ list'[Len(list) + 1] = new
    BY <1>4, <2>1, AddRecordProperties DEF AddRecord, TypeOK, new
  <2>3. /\ fdTable' \in [Fd -> Conn \cup {NoConn}]
        /\ \A g \in Fd : fdTable'[g] = IF g = new THEN backlog[1] ELSE fdTable[g]
    BY <1>1, <1>4, <2>1 DEF TypeOK, new
  <2>4. backlog[1] # NoConn /\ backlog[1] \notin Accepted
    BY <1>1, ConnAssumption DEF BacklogIsNew
  <2>5. new \notin ToSet(list)
    BY <2>1 DEF FdsOwned
  <2>6. \A i, j \in DOMAIN list' : list'[i] \in Fd /\ list'[i] = list'[j] => i = j
    BY <1>2, <2>2, <2>5 DEF FdsOwned, ToSet
  <2>7. \A g \in Fd : g \in ToSet(list') <=> g \in ToSet(list) \/ g = new
    BY <1>2, <2>2 DEF ToSet
  <2>8. ToSet(list') \cap Fd = {g \in Fd : fdTable'[g] # NoConn}
    BY <2>1, <2>3, <2>4, <2>7 DEF FdsOwned
  <2>9. \A g, h \in Fd : fdTable'[g] # NoConn /\ fdTable'[g] = fdTable'[h] => g = h
    <3>1. \A g \in Fd : fdTable[g] # backlog[1]
      BY <2>4 DEF Accepted
    <3> QED
      BY <2>3, <3>1 DEF FdsOwned
  <2>10. Accepted' \subseteq Accepted \cup {backlog[1]}
    BY <2>3 DEF Accepted
  <2>11. /\ backlog' \in Seq(Conn)
         /\ DOMAIN backlog' = 1..(Len(backlog) - 1)
         /\ \A i \in DOMAIN backlog' : backlog'[i] = backlog[i + 1]
    BY <1>4, HeadTailProperties, LenProperties DEF TypeOK
  <2>12. \A i \in DOMAIN backlog' : i + 1 \in DOMAIN backlog /\ i + 1 # 1
    BY <1>1, <2>11
  <2>13. BacklogIsNew'
    BY <1>1, <2>10, <2>11, <2>12 DEF BacklogIsNew
  <2> QED
    BY <2>2, <2>3, <2>6, <2>8, <2>9, <2>10, <2>11, <2>13 DEF FdsOwned
<1> QED
  BY <1>3, <1>4 DEF CreateSocketRec

-----------------------------------------------------------------------------
(* The parts of the invariant that a step can disturb only in certain ways. *)

\* No connection that has gone comes back, unless it is accepted anew.
StayGone == \A c \in Accepted' : peer[c] \in Gone => peer'[c] \in Gone

\* The round stays true while nobody is accepted.
LEMMA RoundKept ==
    ASSUME TypeOK, RoundIsTrue, round' = round, Accepted' \subseteq Accepted, StayGone,
           backlog # <<>> => backlog' # <<>> /\ backlog'[1] = backlog[1]
    PROVE  RoundIsTrue'
<1>1. \A i \in DOMAIN round : round[i].conn \in Accepted' => round[i].conn \in Accepted
  OBVIOUS
<1> QED
  BY <1>1 DEF RoundIsTrue, StayGone

\* It stays true when its first entry has been served.
LEMMA RoundServed ==
    ASSUME TypeOK, RoundIsTrue, round # <<>>, round' = Tail(round), peer' = peer,
           \A i \in DOMAIN round :
             round[i].hup /\ round[i].conn \in Accepted' => round[i].conn \in Accepted
    PROVE  RoundIsTrue' /\ round' \in Seq(PollFd)
<1>1. /\ Len(round) \in Nat
      /\ DOMAIN round = 1..Len(round)
      /\ round' \in Seq(PollFd)
      /\ DOMAIN round' = 1..(Len(round) - 1)
      /\ \A i \in DOMAIN round' : round'[i] = round[i + 1]
  BY HeadTailProperties, LenProperties DEF TypeOK
<1>2. \A i \in DOMAIN round' : i + 1 \in DOMAIN round /\ i + 1 # 1 /\ i \in Nat
  BY <1>1
<1>3. \A i \in DOMAIN round' : round'[i].fd # Listen
  BY <1>1, <1>2 DEF RoundIsTrue
<1>4. \A i \in DOMAIN round' :
        round'[i].hup => /\ round'[i].fd \in Fd
                         /\ round'[i].conn \in Accepted' => peer'[round'[i].conn] \in Gone
  BY <1>1, <1>2 DEF RoundIsTrue
<1>5. round' # <<>> => 1 \in DOMAIN round'
  BY <1>1, EmptySeq, LenProperties
<1> QED
  BY <1>1, <1>3, <1>4, <1>5 DEF RoundIsTrue

\* The head of a round that is not over.
LEMMA HeadOfRound ==
    ASSUME TypeOK, round # <<>>
    PROVE  /\ Head(round) = round[1] /\ 1 \in DOMAIN round
           /\ round[1] \in PollFd
           /\ Tail(round) \in Seq(PollFd)
BY HeadTailProperties, EmptySeq, LenProperties, ElementOfSeq DEF TypeOK

\* What one write does to its connection.
LEMMA AfterWriteKeeps ==
    ASSUME TypeOK, NEW c \in Conn, AfterWrite(c)
    PROVE  /\ peer' \in [Conn -> PeerState]
           /\ \A d \in Conn : peer[d] \in Gone => peer'[d] \in Gone
BY DEF TypeOK, AfterWrite, PeerState, Gone

\* The end of the process leaves nothing open.
LEMMA DieKeeps ==
    ASSUME ServerInv, Die, UNCHANGED <<backlog, peer, inq>>
    PROVE  ServerInv'
<1>1. TypeOK'
  <2>1. list' \in Seq(Fd \cup {BadFd}) /\ round' \in Seq(PollFd)
    BY EmptySeq DEF Die
  <2>2. fdTable' \in [Fd -> Conn \cup {NoConn}]
    BY DEF Die
  <2>3. todo' \in 0..MaxMessages /\ at' \in Nat /\ heard' \subseteq Conn
    BY BoundAssumption DEF Die
  <2> QED
    BY <2>1, <2>2, <2>3 DEF ServerInv, TypeOK, Die
<1>2. Accepted' = {} /\ FdsOwned'
  BY DEF Die, Accepted, FdsOwned, ToSet
<1> QED
  BY <1>1, <1>2
     DEF ServerInv, Die, BacklogIsNew, ReplyHasReader, RoundIsTrue, WrittenBefore

\* A step that changes only what the process remembers of a broadcast.
LEMMA OnlyControl ==
    ASSUME ServerInv, TypeOK', ReplyHasReader', WrittenBefore',
           UNCHANGED <<list, fdTable, backlog, peer, round>>
    PROVE  ServerInv'
<1>1. Accepted' = Accepted
  BY DEF Accepted
<1>2. RoundIsTrue'
  BY <1>1, RoundKept DEF ServerInv, StayGone
<1>3. FdsOwned' /\ BacklogIsNew'
  BY <1>1 DEF ServerInv, FdsOwned, BacklogIsNew
<1> QED
  BY <1>2, <1>3 DEF ServerInv

-----------------------------------------------------------------------------
(* The steps. *)

\* Clients and the network.
LEMMA PeerStepKeeps ==
    ASSUME ServerInv, PeerStep
    PROVE  ServerInv'
<1>1. PICK c \in Conn : \/ PeerConnect(c) \/ PeerSend(c) \/ PeerClose(c)
                        \/ PeerAbort(c) \/ ResetArrives(c)
  BY DEF PeerStep
<1>2. UNCHANGED server
  BY <1>1 DEF PeerConnect, PeerSend, PeerClose, PeerAbort, ResetArrives
<1>3. /\ Accepted' = Accepted
      /\ FdsOwned' /\ ReplyHasReader' /\ WrittenBefore'
  BY <1>2 DEF ServerInv, server, Accepted, FdsOwned, ReplyHasReader, WrittenBefore
<1>4. peer' \in [Conn -> PeerState] /\ inq' \subseteq Conn /\ StayGone
  <2> USE DEF ServerInv, TypeOK, PeerState, Gone, StayGone
  <2>1. Accepted' \subseteq Conn
    BY <1>3, AcceptedProperties
  <2>2. CASE PeerConnect(c)
    BY <1>3, <2>1, <2>2 DEF PeerConnect
  <2>3. CASE PeerSend(c)
    BY <2>1, <2>3 DEF PeerSend
  <2>4. CASE PeerClose(c)
    BY <2>1, <2>4 DEF PeerClose
  <2>5. CASE PeerAbort(c)
    BY <2>1, <2>5 DEF PeerAbort
  <2>6. CASE ResetArrives(c)
    BY <2>1, <2>6 DEF ResetArrives
  <2> QED
    BY <1>1, <2>2, <2>3, <2>4, <2>5, <2>6
<1>5. CASE PeerConnect(c)
  <2>1. /\ Len(backlog) \in Nat
        /\ DOMAIN backlog = 1..Len(backlog)
        /\ backlog' \in Seq(Conn)
        /\ DOMAIN backlog' = 1..(Len(backlog) + 1)
        /\ \A i \in 1..Len(backlog) : backlog'[i] = backlog[i]
        /\ backlog'[Len(backlog) + 1] = c
    BY <1>5, LenProperties, AddRecordProperties
       DEF ServerInv, TypeOK, PeerConnect, AddRecord
  <2>2. c \notin Accepted /\ \A i \in DOMAIN backlog : backlog[i] # c
    BY <1>5 DEF PeerConnect, ToSet
  <2>3. BacklogIsNew'
    BY <1>3, <2>1, <2>2 DEF ServerInv, BacklogIsNew
  <2>4. backlog # <<>> => backlog' # <<>> /\ backlog'[1] = backlog[1]
    <3>1. backlog # <<>> => Len(backlog) \in Nat \ {0}
      BY EmptySeq DEF ServerInv, TypeOK
    <3>2. backlog' # <<>>
      BY <1>5, AppendProperties DEF ServerInv, TypeOK, PeerConnect
    <3> QED
      BY <2>1, <3>1, <3>2
  <2>5. RoundIsTrue'
    BY <1>2, <1>3, <1>4, <2>4, RoundKept DEF ServerInv, server
  <2>6. TypeOK'
    BY <1>2, <1>4, <2>1 DEF ServerInv, TypeOK, server
  <2> QED
    BY <1>3, <2>3, <2>5, <2>6 DEF ServerInv
<1>6. CASE ~PeerConnect(c)
  <2>1. backlog' = backlog
    BY <1>1, <1>6 DEF PeerSend, PeerClose, PeerAbort, ResetArrives
  <2>2. RoundIsTrue' /\ BacklogIsNew' /\ TypeOK'
    BY <1>2, <1>3, <1>4, <2>1, RoundKept DEF ServerInv, TypeOK, BacklogIsNew, server
  <2> QED
    BY <1>3, <2>2 DEF ServerInv
<1> QED
  BY <1>5, <1>6

\* What poll reports is true when it reports it.
LEMMA PolledIsTrue ==
    ASSUME ServerInv
    PROVE  /\ Polled \in Seq(PollFd)
           /\ DOMAIN Polled = 1..(Len(list) + 1)
           /\ Polled[1] = ListenEvent
           /\ \A i \in DOMAIN Polled : i # 1 => Polled[i].fd \in Fd \cup {BadFd}
           /\ \A i \in DOMAIN Polled :
                Polled[i].hup => /\ Polled[i].fd \in Fd
                                 /\ Polled[i].conn \in Accepted
                                 /\ peer[Polled[i].conn] \in Gone
<1>1. /\ Len(list) \in Nat
      /\ DOMAIN list = 1..Len(list)
      /\ \A i \in DOMAIN list : list[i] \in Fd \cup {BadFd}
      /\ Listen \notin Fd \cup {BadFd} /\ BadFd \notin Fd
  BY LenProperties, ElementOfSeq, BoundAssumption
     DEF ServerInv, TypeOK, Listen, BadFd, Fd
<1>2. \A i \in 1..(Len(list) + 1) :
        i # 1 => i - 1 \in DOMAIN list /\ list[i - 1] \in Fd \cup {BadFd}
  BY <1>1
<1>3. \A f \in Fd : fdTable[f] \in Conn \cup {NoConn}
  BY DEF ServerInv, TypeOK
<1>4. /\ ListenEvent \in PollFd /\ ListenEvent.fd = Listen /\ ~ListenEvent.hup
  BY DEF ListenEvent, PollFd
<1>5. ASSUME NEW f \in Fd \cup {BadFd}
      PROVE  /\ Event(f) \in PollFd
             /\ Event(f).fd = f
             /\ Event(f).hup => f \in Fd /\ HungUp(f) /\ Event(f).conn = fdTable[f]
  <2>1. Event(f) = ClientEvent(f, f \in Fd /\ Readable(f), f \in Fd /\ HungUp(f))
    BY <1>1 DEF Event
  <2> DEFINE in == f \in Fd /\ Readable(f)
             hup == f \in Fd /\ HungUp(f)
             conn == IF f \in Fd THEN fdTable[f] ELSE NoConn
  <2>2. in \in BOOLEAN /\ hup \in BOOLEAN
    BY DEF Readable, HungUp
  <2>3. conn \in Conn \cup {NoConn}
    BY <1>3
  <2>4. hup => f \in Fd /\ HungUp(f) /\ conn = fdTable[f]
    OBVIOUS
  <2>5. Event(f) = [fd |-> f, in |-> in, hup |-> hup, conn |-> conn]
    BY <2>1 DEF ClientEvent
  <2> HIDE DEF in, hup, conn
  <2>6. Event(f) \in PollFd /\ Event(f).fd = f /\ Event(f).conn = conn
    BY <2>2, <2>3, <2>5 DEF PollFd
  <2>7. Event(f).hup = hup
    BY <2>5
  <2> QED
    BY <2>4, <2>6, <2>7
<1>6. \A i \in 1..(Len(list) + 1) :
        Polled[i] = IF i = 1 THEN ListenEvent ELSE Event(list[i - 1])
  BY DEF Polled, Event
<1>7. \A i \in 1..(Len(list) + 1) : Polled[i] \in PollFd
  BY <1>2, <1>4, <1>5, <1>6
<1>8. Polled \in Seq(PollFd) /\ DOMAIN Polled = 1..(Len(list) + 1)
  BY <1>1, <1>7 DEF Polled
<1>9. \A i \in DOMAIN Polled :
        i # 1 => /\ Polled[i].fd = list[i - 1]
                 /\ Polled[i].hup => /\ list[i - 1] \in Fd
                                     /\ HungUp(list[i - 1])
                                     /\ Polled[i].conn = fdTable[list[i - 1]]
  BY <1>2, <1>5, <1>6, <1>8
<1>10. \A i \in DOMAIN Polled :
         i # 1 /\ Polled[i].hup => fdTable[list[i - 1]] \in Accepted
  BY <1>2, <1>8, <1>9, RecordIsOpen, AcceptedProperties DEF ServerInv
<1> QED
  BY <1>1, <1>2, <1>4, <1>6, <1>8, <1>9, <1>10 DEF HungUp

\* Poll, and the steps between the stages of a round.
LEMMA LoopStepKeeps ==
    ASSUME ServerInv, Poll \/ SerialDone \/ RoundDone \/ RepliesDone
    PROVE  ServerInv'
<1>1. CASE Poll
  <2>1. UNCHANGED <<list, fdTable, backlog, peer>> /\ Accepted' = Accepted
    BY <1>1 DEF Poll, Accepted
  <2>2. TypeOK'
    <3>1. todo' \in 0..MaxMessages
      BY <1>1, BoundAssumption DEF Poll
    <3> QED
      BY <1>1, <3>1, PolledIsTrue DEF ServerInv, TypeOK, Poll
  <2>3. FdsOwned' /\ BacklogIsNew'
    BY <2>1 DEF ServerInv, FdsOwned, BacklogIsNew
  <2>4. ReplyHasReader' /\ WrittenBefore'
    BY <1>1 DEF ServerInv, Poll, ReplyHasReader, WrittenBefore
  <2>5. RoundIsTrue'
    <3>1. \A i \in DOMAIN Polled : Polled[i].fd = Listen => i = 1
      BY PolledIsTrue, BoundAssumption DEF Listen, Fd, BadFd
    <3>2. Polled[1].in => backlog # <<>> /\ backlog[1] \notin Accepted
      <4>1. Polled[1].in => backlog # <<>>
        <5>1. ListenEvent.in = (backlog # <<>>)
          BY DEF ListenEvent
        <5> QED
          BY <5>1, PolledIsTrue
      <4>2. backlog # <<>> => 1 \in DOMAIN backlog
        BY EmptySeq, LenProperties DEF ServerInv, TypeOK
      <4> QED
        BY <4>1, <4>2 DEF ServerInv, BacklogIsNew
    <3>3. round' = Polled
      BY <1>1 DEF Poll
    <3> QED
      BY <2>1, <3>1, <3>2, <3>3, PolledIsTrue DEF RoundIsTrue
  <2> QED
    BY <2>2, <2>3, <2>4, <2>5 DEF ServerInv
<1>2. CASE SerialDone \/ RoundDone \/ RepliesDone
  <2>1. UNCHANGED <<list, fdTable, backlog, peer, inq, round, todo, at, heard>>
    BY <1>2 DEF SerialDone, RoundDone, RepliesDone
  <2>2. pc' \in {"poll", "sockets"}
    BY <1>2 DEF SerialDone, RoundDone, RepliesDone
  <2>3. TypeOK' /\ ReplyHasReader' /\ WrittenBefore'
    BY <2>1, <2>2 DEF ServerInv, TypeOK, ReplyHasReader, WrittenBefore
  <2> QED
    BY <2>1, <2>3, OnlyControl
<1> QED
  BY <1>1, <1>2

\* The record that a broadcast is at is one of the list.
LEMMA CurrentRecord ==
    ASSUME ServerInv, at <= Len(list)
    PROVE  /\ at \in DOMAIN list
           /\ Current \in Fd \cup {BadFd}
           /\ Current \in Fd => /\ fdTable[Current] \in Conn
                               /\ fdTable[Current] # NoConn
<1>1. at \in DOMAIN list
  BY LenProperties DEF ServerInv, TypeOK, WrittenBefore
<1> QED
  BY <1>1, LenProperties, ElementOfSeq, RecordIsOpen DEF ServerInv, TypeOK, Current

\* A broadcast, write by write.
LEMMA BroadcastKeeps ==
    ASSUME ServerInv, Broadcast
    PROVE  ServerInv'
<1>1. CASE StartBroadcast \/ BroadcastDone
  <2>1. UNCHANGED <<list, fdTable, backlog, peer, inq, round>>
    BY <1>1 DEF StartBroadcast, BroadcastDone
  <2>2. TypeOK' /\ ReplyHasReader' /\ WrittenBefore'
    <3>1. CASE StartBroadcast
      <4>1. todo' \in 0..MaxMessages
        BY <3>1, BoundAssumption DEF ServerInv, TypeOK, StartBroadcast, Outstanding
      <4>2. at' = 1 /\ heard' = {} /\ pc' = "send"
        BY <3>1 DEF StartBroadcast
      <4>3. TypeOK' /\ ReplyHasReader'
        BY <2>1, <4>1, <4>2 DEF ServerInv, TypeOK, ReplyHasReader
      <4>4. \A i \in DOMAIN list : ~(i < 1)
        BY LenProperties DEF ServerInv, TypeOK
      <4> QED
        BY <2>1, <4>2, <4>3, <4>4 DEF WrittenBefore
    <3>2. CASE BroadcastDone
      BY <3>2 DEF ServerInv, TypeOK, BroadcastDone, ReplyHasReader, WrittenBefore
    <3> QED
      BY <1>1, <3>1, <3>2
  <2> QED
    BY <2>1, <2>2, OnlyControl
<1>2. CASE WriteOk
  <2> DEFINE c == fdTable[Current]
  <2>1. /\ pc = "send" /\ AfterWrite(c)
        /\ heard' = heard \cup {c} /\ at' = at + 1
        /\ UNCHANGED <<list, fdTable, backlog, inq, pc, round, todo>>
    BY <1>2 DEF WriteOk
  <2>2. c \in Conn /\ Current \in Fd /\ at \in DOMAIN list
    BY <1>2, CurrentRecord DEF WriteOk
  <2> HIDE DEF c
  <2>3. Accepted' = Accepted
    BY <2>1 DEF Accepted
  <2>4. peer' \in [Conn -> PeerState] /\ StayGone
    BY <2>1, <2>2, <2>3, AfterWriteKeeps, AcceptedProperties DEF ServerInv, StayGone
  <2>5. TypeOK'
    BY <2>1, <2>2, <2>4 DEF ServerInv, TypeOK
  <2>6. FdsOwned' /\ BacklogIsNew' /\ ReplyHasReader'
    BY <2>1, <2>3 DEF ServerInv, FdsOwned, BacklogIsNew, ReplyHasReader
  <2>7. RoundIsTrue'
    BY <2>1, <2>3, <2>4, RoundKept DEF ServerInv
  <2>8. WrittenBefore'
    <3>1. \A i \in DOMAIN list : i < at' => i < at \/ i = at
      BY <2>1, <2>2, LenProperties DEF ServerInv, TypeOK
    <3>2. \A i \in DOMAIN list : i < at => list[i] \in Fd /\ fdTable[list[i]] \in heard
      BY <2>1 DEF ServerInv, WrittenBefore
    <3>3. list[at] \in Fd /\ fdTable[list[at]] = c
      BY <2>2 DEF Current, c
    <3>4. at' >= 1
      BY <2>1 DEF ServerInv, TypeOK
    <3> QED
      BY <2>1, <3>1, <3>2, <3>3, <3>4 DEF WrittenBefore
  <2> QED
    BY <2>5, <2>6, <2>7, <2>8 DEF ServerInv
<1>3. CASE WriteFails
  <2>1. /\ at <= Len(list) /\ DeleteSocketRec(Current) /\ pc' = "serial"
        /\ UNCHANGED <<backlog, inq, round, todo, at, heard>>
    BY <1>3 DEF WriteFails
  <2>2. Current \in Fd \cup {BadFd}
    BY <2>1, CurrentRecord
  <2>3. /\ peer' \in [Conn -> PeerState]
        /\ \A d \in Conn : peer[d] \in Gone => peer'[d] \in Gone
    BY <1>3, <2>1, CurrentRecord, AfterWriteKeeps DEF WriteFails, ServerInv, TypeOK
  <2>4. /\ list' \in Seq(Fd \cup {BadFd})
        /\ fdTable' \in [Fd -> Conn \cup {NoConn}]
        /\ FdsOwned'
        /\ \A g \in Fd : fdTable'[g] # NoConn => fdTable'[g] = fdTable[g]
    BY <2>1, <2>2, DeleteSocketRecKeeps DEF ServerInv
  <2>5. Accepted' \subseteq Accepted /\ StayGone
    BY <2>3, <2>4, AcceptedProperties DEF ServerInv, Accepted, StayGone
  <2>6. TypeOK'
    BY <2>1, <2>3, <2>4 DEF ServerInv, TypeOK
  <2>7. BacklogIsNew' /\ ReplyHasReader' /\ WrittenBefore'
    BY <2>1, <2>5 DEF ServerInv, BacklogIsNew, ReplyHasReader, WrittenBefore
  <2>8. RoundIsTrue'
    BY <2>1, <2>5, RoundKept DEF ServerInv
  <2> QED
    BY <2>4, <2>6, <2>7, <2>8 DEF ServerInv
<1>4. CASE WriteKills
  BY <1>4, DieKeeps DEF WriteKills
<1> QED
  BY <1>1, <1>2, <1>3, <1>4 DEF Broadcast

\* The listening socket: a client gets a record and a descriptor.
LEMMA AcceptKeeps ==
    ASSUME ServerInv, Accept
    PROVE  ServerInv'
<1>1. /\ round # <<>> /\ Head(round).fd = Listen /\ Head(round).in
      /\ CreateSocketRec /\ round' = Tail(round) /\ pc = "sockets"
      /\ UNCHANGED <<peer, inq, pc, todo, at, heard>>
  BY DEF Accept, Serving
<1>2. backlog # <<>> /\ \A i \in DOMAIN round : round[i].hup => round[i].conn # backlog[1]
  BY <1>1, HeadOfRound DEF ServerInv, RoundIsTrue
<1>3. /\ list' \in Seq(Fd \cup {BadFd})
      /\ fdTable' \in [Fd -> Conn \cup {NoConn}]
      /\ backlog' \in Seq(Conn)
      /\ FdsOwned' /\ BacklogIsNew'
      /\ Accepted' \subseteq Accepted \cup {backlog[1]}
  BY <1>1, <1>2, CreateSocketRecKeeps DEF ServerInv
<1>4. RoundIsTrue' /\ round' \in Seq(PollFd)
  BY <1>1, <1>2, <1>3, RoundServed DEF ServerInv
<1>5. TypeOK'
  BY <1>1, <1>3, <1>4 DEF ServerInv, TypeOK
<1>6. ReplyHasReader' /\ WrittenBefore'
  BY <1>1 DEF ServerInv, ReplyHasReader, WrittenBefore
<1> QED
  BY <1>3, <1>4, <1>5, <1>6 DEF ServerInv

\* Reading from a client that is there, and from a descriptor that was closed
\* in this round.
LEMMA ReadKeeps ==
    ASSUME ServerInv, ReadRequests \/ ReadClosed
    PROVE  ServerInv'
<1>1. CASE ReadClosed /\ Die
  BY <1>1, DieKeeps DEF ReadClosed
<1>2. CASE ~(ReadClosed /\ Die)
  <2>1. /\ round # <<>> /\ Head(round).fd \in Fd /\ pc = "sockets"
        /\ round' = [round EXCEPT ![1].in = FALSE]
        /\ UNCHANGED <<list, fdTable, backlog, peer, at, heard>>
    BY <1>2 DEF ReadRequests, ReadClosed, Serving
  <2>2. /\ Len(round) \in Nat /\ DOMAIN round = 1..Len(round)
        /\ 1 \in DOMAIN round /\ round[1] \in PollFd /\ round[1].fd \in Fd
    BY <2>1, HeadOfRound, LenProperties DEF ServerInv, TypeOK
  <2>3. [round[1] EXCEPT !.in = FALSE] \in PollFd
    BY <2>2 DEF PollFd
  <2>4. /\ round' \in Seq(PollFd)
        /\ DOMAIN round' = DOMAIN round
        /\ \A i \in DOMAIN round : i # 1 => round'[i] = round[i]
        /\ round'[1] = [round[1] EXCEPT !.in = FALSE]
    <3>1. round' = [round EXCEPT ![1] = [round[1] EXCEPT !.in = FALSE]]
      BY <2>1
    <3> QED
      BY <2>2, <2>3, <3>1, ExceptSeq, LenProperties DEF ServerInv, TypeOK
  <2>5. /\ round'[1].fd = round[1].fd /\ round'[1].hup = round[1].hup
        /\ round'[1].conn = round[1].conn
    BY <2>2, <2>4 DEF PollFd
  <2>6. Accepted' = Accepted
    BY <2>1 DEF Accepted
  <2>7. RoundIsTrue'
    <3>1. round'[1].fd # Listen
      BY <2>2, <2>5, BoundAssumption DEF Listen, Fd
    <3>2. \A i \in DOMAIN round' : /\ round'[i].fd = round[i].fd
                                  /\ round'[i].hup = round[i].hup
                                  /\ round'[i].conn = round[i].conn
      BY <2>4, <2>5
    <3> QED
      BY <2>1, <2>4, <2>6, <3>1, <3>2 DEF ServerInv, RoundIsTrue
  <2>8. /\ pc' \in {"sockets", "reply"}
        /\ todo' \in 0..MaxMessages
        /\ inq' \subseteq Conn
    BY <1>2, <2>1, BoundAssumption DEF ReadRequests, ReadClosed, ServerInv, TypeOK
  <2>9. TypeOK' /\ FdsOwned' /\ BacklogIsNew' /\ WrittenBefore'
    BY <2>1, <2>4, <2>6, <2>8
       DEF ServerInv, TypeOK, FdsOwned, BacklogIsNew, WrittenBefore
  <2>10. ReplyHasReader'
    <3>1. CASE pc' = "reply"
      <4>1. fdTable[Head(round).fd] # NoConn
        BY <1>2, <2>1, <3>1 DEF ReadRequests, ReadClosed
      <4>2. round' # <<>> /\ Head(round') = round'[1]
        BY <2>2, <2>4, EmptySeq, HeadTailProperties, LenProperties
      <4> QED
        BY <2>1, <2>2, <2>5, <4>1, <4>2, HeadOfRound DEF ServerInv, ReplyHasReader
    <3> QED
      BY <3>1 DEF ReplyHasReader
  <2> QED
    BY <2>7, <2>9, <2>10 DEF ServerInv
<1> QED
  BY <1>1, <1>2

\* The answers to a request.
LEMMA ReplyKeeps ==
    ASSUME ServerInv, Reply
    PROVE  ServerInv'
<1> DEFINE c == fdTable[Head(round).fd]
<1>1. pc = "reply" /\ Outstanding /\ UNCHANGED <<backlog, inq>>
  BY DEF Reply
<1>2. c \in Conn
  BY <1>1 DEF ServerInv, TypeOK, ReplyHasReader
<1>3. CASE peer[c] = "broken"
  BY <1>1, <1>3, DieKeeps DEF Reply
<1>4. CASE peer[c] # "broken"
  <2>1. /\ AfterWrite(c) /\ todo' = todo - 1
        /\ UNCHANGED <<list, fdTable, pc, round, at, heard>>
    BY <1>4 DEF Reply
  <2> HIDE DEF c
  <2>2. Accepted' = Accepted
    BY <2>1 DEF Accepted
  <2>3. peer' \in [Conn -> PeerState] /\ StayGone
    BY <1>2, <2>1, <2>2, AfterWriteKeeps, AcceptedProperties DEF ServerInv, StayGone
  <2>4. todo' \in 0..MaxMessages
    BY <1>1, <2>1, BoundAssumption DEF ServerInv, TypeOK, Outstanding
  <2>5. TypeOK' /\ FdsOwned' /\ BacklogIsNew' /\ ReplyHasReader' /\ WrittenBefore'
    BY <1>1, <2>1, <2>2, <2>3, <2>4
       DEF ServerInv, TypeOK, FdsOwned, BacklogIsNew, ReplyHasReader, WrittenBefore
  <2>6. RoundIsTrue'
    BY <1>1, <2>1, <2>2, <2>3, RoundKept DEF ServerInv
  <2> QED
    BY <2>5, <2>6 DEF ServerInv
<1> QED
  BY <1>3, <1>4

\* The end of a descriptor's turn, with or without its removal.
LEMMA TurnEndKeeps ==
    ASSUME ServerInv, HangUp \/ NextDescriptor
    PROVE  ServerInv'
<1>1. /\ round # <<>> /\ round' = Tail(round) /\ pc = "sockets"
      /\ UNCHANGED <<backlog, peer, inq, pc, todo, at, heard>>
  BY DEF HangUp, NextDescriptor, Serving
<1>2. /\ list' \in Seq(Fd \cup {BadFd})
      /\ fdTable' \in [Fd -> Conn \cup {NoConn}]
      /\ FdsOwned'
      /\ \A g \in Fd : fdTable'[g] # NoConn => fdTable'[g] = fdTable[g]
  <2>1. CASE HangUp
    BY <2>1, DeleteSocketRecKeeps DEF ServerInv, HangUp
  <2>2. CASE NextDescriptor
    BY <2>2 DEF NextDescriptor, ServerInv, TypeOK, FdsOwned
  <2> QED
    BY <2>1, <2>2
<1>3. Accepted' \subseteq Accepted
  BY <1>2 DEF Accepted
<1>4. RoundIsTrue' /\ round' \in Seq(PollFd)
  BY <1>1, <1>3, RoundServed DEF ServerInv
<1>5. TypeOK' /\ BacklogIsNew' /\ ReplyHasReader' /\ WrittenBefore'
  BY <1>1, <1>2, <1>3, <1>4
     DEF ServerInv, TypeOK, BacklogIsNew, ReplyHasReader, WrittenBefore
<1> QED
  BY <1>2, <1>4, <1>5 DEF ServerInv

-----------------------------------------------------------------------------
(* The theorems. *)

\* The invariant is inductive.
LEMMA ServerInvInductive == ServerInv /\ [Next]_vars => ServerInv'
<1> SUFFICES ASSUME ServerInv, [Next]_vars
             PROVE  ServerInv'
  OBVIOUS
<1>1. CASE PeerStep
  BY <1>1, PeerStepKeeps
<1>2. CASE Poll \/ SerialDone \/ RoundDone \/ RepliesDone
  BY <1>2, LoopStepKeeps
<1>3. CASE Broadcast
  BY <1>3, BroadcastKeeps
<1>4. CASE Accept
  BY <1>4, AcceptKeeps
<1>5. CASE ReadRequests \/ ReadClosed
  BY <1>5, ReadKeeps
<1>6. CASE CloseGateway
  BY <1>6, DieKeeps DEF CloseGateway
<1>7. CASE Reply
  BY <1>7, ReplyKeeps
<1>8. CASE HangUp \/ NextDescriptor
  BY <1>8, TurnEndKeeps
<1>9. CASE UNCHANGED vars
  <2>1. TypeOK' /\ ReplyHasReader' /\ WrittenBefore'
    BY <1>9 DEF vars, ServerInv, TypeOK, ReplyHasReader, WrittenBefore
  <2> QED
    BY <1>9, <2>1, OnlyControl DEF vars
<1> QED
  BY <1>1, <1>2, <1>3, <1>4, <1>5, <1>6, <1>7, <1>8, <1>9
     DEF Next, ServerStep, Sockets

\* The invariant holds initially.
LEMMA ServerInvInit == Init => ServerInv
<1> SUFFICES ASSUME Init
             PROVE  ServerInv
  OBVIOUS
<1>1. TypeOK
  <2>1. list \in Seq(Fd \cup {BadFd}) /\ round \in Seq(PollFd) /\ backlog \in Seq(Conn)
    BY EmptySeq DEF Init
  <2>2. fdTable \in [Fd -> Conn \cup {NoConn}] /\ peer \in [Conn -> PeerState]
    BY DEF Init, PeerState
  <2> QED
    BY <2>1, <2>2, BoundAssumption DEF Init, TypeOK
<1>2. FdsOwned
  BY DEF Init, FdsOwned, ToSet
<1> QED
  BY <1>1, <1>2
     DEF Init, ServerInv, BacklogIsNew, ReplyHasReader, RoundIsTrue, WrittenBefore

\* The invariant always holds.
THEOREM ServerInvariant == Spec => []ServerInv
BY ServerInvInit, ServerInvInductive, PTL DEF Spec

\* The state of the server always has its types: in particular no more messages
\* are written than were due (the counter never wraps).
THEOREM ServerTypeCorrect == Spec => []TypeOK
<1>1. ServerInv => TypeOK
  BY DEF ServerInv
<1> QED
  BY <1>1, ServerInvariant, PTL

\* Whatever clients do and whatever fails, each open descriptor has one record
\* and each record its own descriptor.
THEOREM NoDescriptorLeaks == Spec => []FdsOwned
<1>1. ServerInv => FdsOwned
  BY DEF ServerInv
<1> QED
  BY <1>1, ServerInvariant, PTL

\* A step that drops a live client serves a stale event.
LEMMA DropsAreStale ==
    ASSUME ServerInv, [Next]_vars
    PROVE  pc = "sockets" /\ pc' # "down" =>
             \A c \in Accepted \ Accepted' :
               peer[c] = "open" => Head(round).conn # c /\ fdTable[Head(round).fd] = c
<1> SUFFICES ASSUME pc = "sockets", pc' # "down",
                    NEW c \in Accepted, c \notin Accepted', peer[c] = "open"
             PROVE  Head(round).conn # c /\ fdTable[Head(round).fd] = c
  OBVIOUS
<1>1. fdTable' # fdTable
  BY DEF Accepted
<1>2. PICK f \in Fd : fdTable[f] = c /\ c # NoConn
  BY DEF Accepted
<1>3. fdTable'[f] # c
  BY <1>2 DEF Accepted
<1>4. CASE Accept
  <2>1. FdsOwned /\ TypeOK
    BY DEF ServerInv
  <2>2. fdTable' = [fdTable EXCEPT ![Min(FreeFd)] = Head(backlog)] /\ FreeFd # {}
    BY <1>1, <1>4 DEF Accept, CreateSocketRec
  <2>3. FreeFd \subseteq Nat
    BY DEF FreeFd, Fd
  <2>4. Min(FreeFd) \in FreeFd
    BY <2>2, <2>3, FirstOfProperties DEF FirstOf
  <2> QED
    BY <1>2, <1>3, <2>1, <2>2, <2>4 DEF FreeFd, TypeOK
<1>5. CASE HangUp
  <2>1. /\ round # <<>> /\ Head(round).fd \in Fd /\ Head(round).hup
        /\ DeleteSocketRec(Head(round).fd)
    BY <1>5 DEF HangUp, Serving
  <2>2. f = Head(round).fd
    BY <1>2, <1>3, <2>1, DeleteSocketRecKeeps DEF ServerInv
  <2>3. Head(round).conn \in Accepted => peer[Head(round).conn] \in Gone
    BY <2>1, HeadOfRound DEF ServerInv, RoundIsTrue
  <2> QED
    BY <1>2, <2>2, <2>3 DEF Gone
<1>6. CASE ~Accept /\ ~HangUp
  BY <1>1, <1>6
     DEF Next, vars, server, PeerStep, PeerConnect, PeerSend, PeerClose, PeerAbort,
         ResetArrives, ServerStep, Poll, SerialDone, Broadcast, StartBroadcast, WriteOk,
         WriteFails, WriteKills, BroadcastDone, Sockets, ReadRequests, ReadClosed,
         CloseGateway, Reply, RepliesDone, NextDescriptor, RoundDone, Die
<1> QED
  BY <1>4, <1>5, <1>6

\* A broadcast that returns with the list it had is done with all of it.
LEMMA ReturnsWhenDone ==
    ASSUME ServerInv, [Next]_vars
    PROVE  pc = "send" /\ pc' = "serial" /\ list' = list =>
             \A c \in Accepted' : peer[c] = "open" => c \in heard
<1> SUFFICES ASSUME pc = "send", pc' = "serial", list' = list
             PROVE  \A c \in Accepted' : c \in heard
  OBVIOUS
<1>1. ~WriteFails
  <2> SUFFICES ASSUME WriteFails
               PROVE  FALSE
    OBVIOUS
  <2>1. at <= Len(list) /\ DeleteSocketRec(Current)
    BY DEF WriteFails
  <2>2. Current \in Fd \cup {BadFd} /\ at \in DOMAIN list
    BY <2>1, CurrentRecord
  <2>3. Contains(list, Current)
    BY <2>2, LenProperties DEF ServerInv, TypeOK, Contains, Current
  <2> QED
    BY <2>1, <2>2, <2>3, DeleteSocketRecKeeps DEF ServerInv
<1>2. BroadcastDone
  BY <1>1
     DEF Next, vars, server, PeerStep, PeerConnect, PeerSend, PeerClose, PeerAbort,
         ResetArrives, ServerStep, Poll, SerialDone, Broadcast, StartBroadcast, WriteOk,
         WriteKills, Sockets, Accept, ReadRequests, ReadClosed, Serving,
         CloseGateway, Reply, RepliesDone, HangUp, NextDescriptor, RoundDone, Die
<1>3. at > Len(list) /\ Accepted' = Accepted
  BY <1>2 DEF BroadcastDone, Accepted
<1>4. \A i \in DOMAIN list : i < at
  BY <1>3, LenProperties DEF ServerInv, TypeOK
<1>5. ASSUME NEW c \in Accepted
      PROVE  c \in heard
  <2>1. PICK f \in Fd : fdTable[f] = c /\ c # NoConn
    BY DEF Accepted
  <2>2. f \in ToSet(list)
    BY <2>1 DEF ServerInv, FdsOwned
  <2>3. PICK i \in DOMAIN list : list[i] = f
    BY <2>2 DEF ToSet
  <2> QED
    BY <1>4, <2>1, <2>3 DEF ServerInv, WrittenBefore
<1> QED
  BY <1>3, <1>5

\* A live client that is dropped outside a broadcast falls to an event of an
\* earlier connection with its descriptor, never to one of its own.
THEOREM OnlyStaleEventsDrop == Spec => DropsMatchEvents
BY ServerInvariant, DropsAreStale, PTL DEF Spec, DropsMatchEvents

\* A broadcast that drops nobody has been written to every client that is still
\* there when it returns.
THEOREM BroadcastIsComplete == Spec => BroadcastReachesAll
BY ServerInvariant, ReturnsWhenDone, PTL DEF Spec, BroadcastReachesAll
=============================================================================
