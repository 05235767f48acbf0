------------------------- MODULE CommandLine_proofs -------------------------
(***************************************************************************)
(* What holds of the command line programs, of the two threads of their    *)
(* library and of their requests, for any number of cells, messages and    *)
(* requests, any width of the counter and with every fault.                *)
(***************************************************************************)
EXTENDS CommandLine, FiniteSetTheorems, SequenceTheorems, TLAPS

-----------------------------------------------------------------------------
(* The invariant of the library's threads. *)

\* Until a message was cut, whoever works on a list holds the mutex.
MutexIsHeld ==
    aligned => /\ hd = "walk" => mutex = "handle"
               /\ rx = "move" => mutex = "rx"

\* Each list has one cell at most: the receive thread hands over what it has
\* read before it reads on.
ListsAreShort ==
    /\ rx \in {"poll", "move", "signal", "done"} => rxBuf = <<>>
    /\ rx = "lock" => Len(rxBuf) = 1
    /\ hd \in {"start", "wait", "woken"} => searchList = <<>>
    /\ hd = "wild" => rx = "wild"
    /\ Len(rxBuf) <= 1 /\ Len(rxProcBuf) <= 1 /\ Len(searchList) <= 1

\* The handle thread walks the list that was moved over last.
WalksTheLast == aligned /\ hd = "walk" /\ searchList # <<>> => searchList = rxProcBuf

\* In no message of the second list is older than one of the first.
Before(first, second) ==
    \A i \in DOMAIN first, j \in DOMAIN second :
       LET c == first[i]
           d == second[j]
       IN  c \in live /\ d \in live /\ c # d => heap[d] = Garbled \/ heap[c] < heap[d]

PipelineInOrder ==
    /\ Before(searchList, rxProcBuf)
    /\ Before(searchList, rxBuf)
    /\ Before(rxProcBuf, rxBuf)

\* What the callback got is older than whatever it can still get.
HandledBefore(list) ==
    \A i \in DOMAIN handled, j \in DOMAIN list :
       list[j] \in live => heap[list[j]] = Garbled \/ handled[i] < heap[list[j]]

OnlyNewerLeft ==
    /\ HandledBefore(searchList)
    /\ HandledBefore(rxProcBuf)
    /\ HandledBefore(rxBuf)

\* Messages are numbered as they are read.
NothingFromTheFuture ==
    /\ \A c \in live : heap[c] <= taken
    /\ \A i \in DOMAIN handled : handled[i] <= taken

ThreadsInv ==
    /\ TypeOK
    /\ MutexIsHeld
    /\ ListsAreShort
    /\ WalksTheLast
    /\ PipelineInOrder
    /\ OnlyNewerLeft
    /\ NothingFromTheFuture
    /\ HandledInOrder

-----------------------------------------------------------------------------
(* The invariant of the main threads. *)

\* flashLed's counter: how far it is from the end, or that it never gets there.
Endless == arg \notin 1..(Word - 3)

CounterCounts ==
    program = "flashLed" =>
      /\ main = "connect" => asked = <<>>
      /\ main # "connect" =>
           /\ Endless => loops \in {0, 1}
           /\ ~Endless => loops \in 2..(arg + 2)
           /\ ~Endless /\ main = "wait" => loops > 2
           /\ ~Endless /\ open /\ main \in {"send", "ended", "stuck"} => loops = arg + 2 - Len(asked)
           /\ ~Endless /\ open /\ main = "wait" => loops = arg + 3 - Len(asked)
           /\ main \in {"ended", "stuck"} => loops = 2

\* The next request differs from the last one.
NextAlternates ==
    program = "flashLed" =>
      /\ open /\ asked # <<>> /\ main \in {"send", "wait"} =>
           IF main = "wait" THEN asked[Len(asked)] = Asks ELSE asked[Len(asked)] # Asks
      /\ \A i \in 1..(Len(asked) - 1) : asked[i] # asked[i + 1]

-----------------------------------------------------------------------------
(* The invariant of the byte stream. *)

\* Byte number n of all that a program sends.
Byte(n) == [req |-> ((n - 1) \div Size) + 1, at |-> ((n - 1) % Size) + 1]

\* What follows byte number n of the stream.
From(s, n) == \A k \in DOMAIN s : s[k] = Byte(n + k)

Bytes == [req : DOMAIN asked, at : 1..Size]

BytesAreSent ==
    /\ got \in Seq(Bytes) /\ sock \in Seq(Bytes) /\ upLine \in Seq(Bytes)

\* The requests carried out, the header that was read, what has arrived and
\* what is under way are the stream, in this order and without a gap.
StreamIsWhole ==
    LET done == Size * Len(acted) IN
      /\ From(got, done)
      /\ From(sock, done + Len(got))
      /\ From(upLine, done + Len(got) + Len(sock))
      /\ done + Len(got) + Len(sock) + Len(upLine) = Size * Len(asked)

\* The bytes counted are whole requests that are there.
CountIsWhole ==
    /\ byteToRead % Size = 0
    /\ byteToRead \in 0..(Len(got) + Len(sock))
    /\ gw \notin {"header", "body"} => byteToRead = 0
    /\ gw = "body" => byteRead = Header /\ Len(got) = Header /\ byteToRead > 0

-----------------------------------------------------------------------------
(* The threads of the library. *)

\* What happens to the threads and their connection: a step of SocketClient, the
\* end of the gateway, or that of the program (socket_client.c:580-617).
ThreadsStep ==
    \/ Next
    \/ open' = FALSE /\ UNCHANGED <<sent, taken, aligned, memory, rxBuf, rxProcBuf, mutex,
                                   rx, hd, searchList, handled>>
    \/ /\ heap' = [c \in Cell |-> Garbled] /\ live' = {}
       /\ rxBuf' = <<>> /\ rxProcBuf' = <<>> /\ searchList' = <<>>
       /\ mutex' = "free" /\ rx' = "done" /\ hd' = "wait"
       /\ UNCHANGED <<wire, handled>>
    \/ UNCHANGED vars

\* Every step of a program is one.
LEMMA StepIsThreadsStep ==
    ASSUME ClNext PROVE ThreadsStep
<1>1. CASE Main \/ Key
  BY <1>1 DEF Main, Key, Connect, Send, SendFails, Pause, Leave, CloseAndExit, ThreadsStep
<1>2. CASE RxRuns \/ HandleRuns \/ WakesUp \/ HandleForeign
  BY <1>2 DEF RxRuns, HandleRuns, WakesUp, HandleForeign, Next, ThreadsStep
<1>3. CASE BytesArrive \/ EndArrives \/ Replies \/ Stops
  BY <1>3 DEF BytesArrive, EndArrives, Replies, Stops, Next, ThreadsStep
<1>4. CASE Polls \/ Counts \/ ReadsHeader \/ ReadsDone
  BY <1>4 DEF Polls, Counts, ReadsHeader, ReadsDone, ThreadsStep
<1>5. CASE ReadsBody
  <2>1. open' = FALSE \/ UNCHANGED open
    BY <1>5 DEF ReadsBody, Processes
  <2> QED
    BY <1>5, <2>1 DEF ReadsBody, ThreadsStep, vars, wire, memory
<1> QED
  BY <1>1, <1>2, <1>3, <1>4, <1>5 DEF ClNext, Gateway

\* Every step keeps the types.
LEMMA ThreadsTypeStep ==
    ASSUME TypeOK, ThreadsStep PROVE TypeOK'
<1> USE MessagesAssumption
<1>1. CASE RxReceive
  <2>1. PICK c \in Cell \ live :
          /\ heap' = [heap EXCEPT ![c] = IF aligned THEN taken' ELSE Garbled]
          /\ live' = live \cup {c}
          /\ rxBuf' = Append(rxBuf, c)
    BY <1>1 DEF RxReceive
  <2>2. taken' \in 0..sent /\ taken' \in Message
    BY <1>1 DEF RxReceive, TypeOK, Message
  <2>3. heap' \in [Cell -> Message \cup {Garbled}]
    BY <2>1, <2>2 DEF TypeOK
  <2>4. rxBuf' \in Seq(Cell)
    BY <2>1 DEF TypeOK
  <2> QED
    BY <1>1, <2>1, <2>2, <2>3, <2>4 DEF RxReceive, TypeOK
<1>2. CASE HandleMessage
  <2>1. Head(searchList) \in Cell /\ Tail(searchList) \in Seq(Cell)
    BY <1>2, HeadTailProperties DEF HandleMessage, TypeOK
  <2>2. handled' \in Seq(Message \cup {Garbled})
    BY <1>2, <2>1 DEF HandleMessage, TypeOK
  <2> QED
    BY <1>2, <2>1, <2>2 DEF HandleMessage, TypeOK, wire
<1>3. CASE GatewaySends
  <2>1. sent' \in 0..MaxMessages /\ taken' \in 0..sent'
    BY <1>3 DEF GatewaySends, TypeOK
  <2> QED
    BY <1>3, <2>1 DEF GatewaySends, TypeOK, memory
<1>4. CASE GatewayCloses \/ Spurious
  BY <1>4 DEF GatewayCloses, Spurious, TypeOK, wire, memory
<1>5. CASE RxShort
  <2>1. taken' \in 0..sent' /\ mutex' \in {"free", "rx", "handle"}
    BY <1>5 DEF RxShort, TypeOK
  <2>2. aligned' \in BOOLEAN
    BY <1>5 DEF RxShort
  <2> QED
    BY <1>5, <2>1, <2>2 DEF RxShort, TypeOK, memory
<1>6. CASE RxClosed \/ RxUnlock \/ RxSignal
  BY <1>6 DEF RxClosed, RxUnlock, RxSignal, TypeOK, wire, memory
<1>7. CASE RxMove
  BY <1>7, EmptySeq DEF RxMove, MovedList, TypeOK, wire, memory
<1>8. CASE HandleStarts \/ HandleLocks \/ HandleFreed \/ HandleWaits
  BY <1>8 DEF HandleStarts, HandleLocks, HandleFreed, HandleWaits, TypeOK, wire, memory
<1>9. CASE ~Next
  BY <1>9, EmptySeq DEF ThreadsStep, TypeOK, vars, wire, memory
<1> QED
  BY <1>1, <1>2, <1>3, <1>4, <1>5, <1>6, <1>7, <1>8, <1>9 DEF Next, RxThread, HandleThread

\* A message that is read is the newest; a cell it reuses is no longer meant by
\* the lists that still point to it.
LEMMA ReceiveStep ==
    ASSUME ThreadsInv, TypeOK', RxReceive PROVE ThreadsInv'
<1> USE DEF ThreadsInv
<1>1. PICK c \in Cell \ live :
        /\ heap' = [heap EXCEPT ![c] = IF aligned THEN taken' ELSE Garbled]
        /\ live' = live \cup {c}
        /\ rxBuf' = Append(rxBuf, c)
  BY DEF RxReceive
<1>2. rxBuf' = <<c>> /\ rxBuf = <<>>
  BY <1>1 DEF RxReceive, ListsAreShort
<1>3. heap'[c] = (IF aligned THEN taken + 1 ELSE 0) /\ \A d \in live : heap'[d] = heap[d]
  BY <1>1 DEF RxReceive, TypeOK, Garbled
<1>4. \A d \in live : heap[d] \in Nat /\ heap[d] <= taken
  BY MessagesAssumption DEF TypeOK, Message, Garbled, NothingFromTheFuture
<1>5. /\ taken \in Nat /\ taken' = taken + 1 /\ rx' = "lock" /\ rx = "poll"
      /\ UNCHANGED <<aligned, rxProcBuf, mutex, hd, searchList, handled>>
  BY MessagesAssumption DEF RxReceive, TypeOK
<1>6. \A i \in DOMAIN handled : handled[i] \in Nat /\ handled[i] <= taken
  BY MessagesAssumption, ElementOfSeq, LenProperties
     DEF TypeOK, Message, Garbled, NothingFromTheFuture
<1>7. MutexIsHeld' /\ ListsAreShort' /\ WalksTheLast'
  BY <1>2, <1>5 DEF MutexIsHeld, ListsAreShort, WalksTheLast
<1>8. PipelineInOrder'
  <2>1. Before(searchList, rxProcBuf)'
    <3>1. CASE aligned
      <4>1. searchList = <<>> \/ searchList = rxProcBuf
        BY <1>5, <3>1 DEF ListsAreShort, WalksTheLast, TypeOK
      <4>2. \A i \in DOMAIN searchList, j \in DOMAIN rxProcBuf : searchList[i] = rxProcBuf[j]
        BY <4>1 DEF ListsAreShort, TypeOK
      <4> QED
        BY <1>5, <4>2 DEF Before
    <3>2. CASE ~aligned
      <4> SUFFICES ASSUME NEW i \in DOMAIN searchList, NEW j \in DOMAIN rxProcBuf,
                          searchList[i] \in live', rxProcBuf[j] \in live',
                          searchList[i] # rxProcBuf[j]
                   PROVE  \/ heap'[rxProcBuf[j]] = Garbled
                          \/ heap'[searchList[i]] < heap'[rxProcBuf[j]]
        BY <1>5 DEF Before
      <4>1. CASE rxProcBuf[j] = c
        BY <1>3, <3>2, <4>1 DEF Garbled
      <4>2. CASE searchList[i] = c
        BY <1>1, <1>3, <1>4, <3>2, <4>2 DEF Garbled
      <4>3. CASE rxProcBuf[j] # c /\ searchList[i] # c
        BY <1>1, <1>3, <4>3 DEF PipelineInOrder, Before
      <4> QED
        BY <4>1, <4>2, <4>3
    <3> QED
      BY <3>1, <3>2 DEF TypeOK
  <2>2. \A d \in live' : d # c => heap'[c] = Garbled \/ heap'[d] < heap'[c]
    BY <1>1, <1>3, <1>4, <1>5 DEF Garbled
  <2>3. \A j \in DOMAIN rxBuf' : rxBuf'[j] = c
    BY <1>2
  <2>4. Before(searchList, rxBuf)' /\ Before(rxProcBuf, rxBuf)'
    BY <2>2, <2>3 DEF Before
  <2> QED
    BY <2>1, <2>4 DEF PipelineInOrder
<1>9. OnlyNewerLeft'
  <2>1. \A i \in DOMAIN handled : heap'[c] = Garbled \/ handled[i] < heap'[c]
    BY <1>3, <1>5, <1>6 DEF Garbled
  <2>2. HandledBefore(searchList)'
    BY <1>1, <1>3, <1>5, <2>1 DEF HandledBefore, OnlyNewerLeft
  <2>3. HandledBefore(rxProcBuf)'
    BY <1>1, <1>3, <1>5, <2>1 DEF HandledBefore, OnlyNewerLeft
  <2>4. HandledBefore(rxBuf)'
    BY <1>2, <1>5, <2>1 DEF HandledBefore
  <2> QED
    BY <2>2, <2>3, <2>4 DEF OnlyNewerLeft
<1>10. NothingFromTheFuture' /\ HandledInOrder'
  BY <1>1, <1>3, <1>4, <1>5, <1>6 DEF NothingFromTheFuture, HandledInOrder
<1> QED
  BY <1>7, <1>8, <1>9, <1>10

\* The list that is moved over replaces one that nobody walks, unless a message
\* was cut.
LEMMA MoveStep ==
    ASSUME ThreadsInv, TypeOK', RxMove PROVE ThreadsInv'
<1> USE DEF ThreadsInv
<1>1. /\ rxProcBuf' = rxBuf /\ rxBuf' = <<>> /\ rx' = "move" /\ rx = "lock"
      /\ mutex = "free" /\ mutex' = "rx"
      /\ UNCHANGED <<taken, aligned, heap, live, hd, searchList, handled>>
  BY DEF RxMove, MovedList, Unlocked, wire, memory
<1>2. MutexIsHeld' /\ ListsAreShort' /\ WalksTheLast'
  BY <1>1 DEF MutexIsHeld, ListsAreShort, WalksTheLast
<1>3. PipelineInOrder' /\ OnlyNewerLeft'
  BY <1>1 DEF PipelineInOrder, Before, OnlyNewerLeft, HandledBefore
<1>4. NothingFromTheFuture' /\ HandledInOrder'
  BY <1>1 DEF NothingFromTheFuture, HandledInOrder
<1> QED
  BY <1>2, <1>3, <1>4

\* The handle thread takes over the list it was given.
LEMMA LocksStep ==
    ASSUME ThreadsInv, TypeOK', HandleLocks PROVE ThreadsInv'
<1> USE DEF ThreadsInv
<1>1. /\ searchList' = rxProcBuf /\ hd' = "walk" /\ mutex' = "handle" /\ mutex = "free"
      /\ UNCHANGED <<taken, aligned, heap, live, rxBuf, rxProcBuf, rx, handled>>
  BY DEF HandleLocks, Unlocked, wire, memory
<1>2. MutexIsHeld' /\ ListsAreShort' /\ WalksTheLast'
  BY <1>1 DEF MutexIsHeld, ListsAreShort, WalksTheLast
<1>3. \A i, j \in DOMAIN rxProcBuf : rxProcBuf[i] = rxProcBuf[j]
  BY DEF ListsAreShort, TypeOK
<1>4. PipelineInOrder' /\ OnlyNewerLeft'
  BY <1>1, <1>3 DEF PipelineInOrder, Before, OnlyNewerLeft, HandledBefore
<1>5. NothingFromTheFuture' /\ HandledInOrder'
  BY <1>1 DEF NothingFromTheFuture, HandledInOrder
<1> QED
  BY <1>2, <1>4, <1>5

\* What is left of a list of one cell.
LEMMA SingleElement ==
    ASSUME NEW R, NEW s \in Seq(R), s # <<>>, Len(s) <= 1
    PROVE  Head(s) = s[1] /\ 1 \in DOMAIN s /\ Tail(s) = <<>>
<1>1. Len(s) \in Nat \ {0}
  BY EmptySeq
<1>2. \A n \in Nat \ {0} : n <= 1 => n = 1
  OBVIOUS
<1>3. Len(s) = 1
  BY <1>1, <1>2
<1>4. Tail(s) \in Seq(R) /\ Len(Tail(s)) = 0
  BY <1>3, HeadTailProperties
<1>5. Tail(s) = <<>>
  BY <1>4, EmptySeq
<1>6. Head(s) = s[1]
  OBVIOUS
<1>7. 1 \in DOMAIN s
  BY <1>3, LenProperties
<1> QED
  BY <1>5, <1>6, <1>7

\* The callback gets a message that is newer than those it got.
LEMMA MessageStep ==
    ASSUME ThreadsInv, TypeOK', HandleMessage PROVE ThreadsInv'
<1> USE DEF ThreadsInv
<1> DEFINE c == Head(searchList)
<1>1. /\ searchList # <<>> /\ c \in live /\ hd = "walk" /\ searchList' = Tail(searchList)
      /\ handled' = Append(handled, heap[c]) /\ live' = live \ {c}
      /\ UNCHANGED <<taken, aligned, heap, rxBuf, rxProcBuf, mutex, rx, hd>>
  BY DEF HandleMessage, wire
<1>2. c = searchList[1] /\ 1 \in DOMAIN searchList /\ searchList' = <<>>
  <2>1. searchList \in Seq(Cell) /\ Len(searchList) <= 1
    BY DEF ListsAreShort, TypeOK
  <2> QED
    BY <1>1, <2>1, SingleElement
<1>3. heap[c] \in Message \cup {Garbled} /\ \A d \in live : heap[d] \in Nat
  BY <1>1, MessagesAssumption DEF TypeOK, Message, Garbled
<1>4. /\ DOMAIN handled' = 1..(Len(handled) + 1) /\ handled'[Len(handled) + 1] = heap[c]
      /\ \A i \in 1..Len(handled) : handled'[i] = handled[i]
      /\ DOMAIN handled = 1..Len(handled) /\ Len(handled) \in Nat
  BY <1>1, <1>3, AppendProperties, LenProperties DEF TypeOK
<1> HIDE DEF c
<1>5. \A i \in DOMAIN handled : heap[c] = Garbled \/ handled[i] < heap[c]
  BY <1>1, <1>2 DEF OnlyNewerLeft, HandledBefore
<1>6. MutexIsHeld' /\ ListsAreShort' /\ WalksTheLast'
  BY <1>1, <1>2 DEF MutexIsHeld, ListsAreShort, WalksTheLast
<1>7. PipelineInOrder'
  BY <1>1, <1>2 DEF PipelineInOrder, Before
<1>8. OnlyNewerLeft'
  <2>1. \A j \in DOMAIN rxProcBuf : rxProcBuf[j] \in live' =>
           heap[rxProcBuf[j]] = Garbled \/ heap[c] < heap[rxProcBuf[j]]
    BY <1>1, <1>2 DEF PipelineInOrder, Before
  <2>2. \A j \in DOMAIN rxBuf : rxBuf[j] \in live' =>
           heap[rxBuf[j]] = Garbled \/ heap[c] < heap[rxBuf[j]]
    BY <1>1, <1>2 DEF PipelineInOrder, Before
  <2>3. HandledBefore(rxProcBuf)'
    BY <1>1, <1>4, <2>1 DEF HandledBefore, OnlyNewerLeft
  <2>4. HandledBefore(rxBuf)'
    BY <1>1, <1>4, <2>2 DEF HandledBefore, OnlyNewerLeft
  <2> QED
    BY <1>2, <2>3, <2>4 DEF HandledBefore, OnlyNewerLeft
<1>9. NothingFromTheFuture'
  BY <1>1, <1>4 DEF NothingFromTheFuture
<1>10. HandledInOrder'
  BY <1>4, <1>5 DEF HandledInOrder
<1> QED
  BY <1>6, <1>7, <1>8, <1>9, <1>10

\* Every step keeps the invariant of the threads.
LEMMA ThreadsInvStep ==
    ASSUME ThreadsInv, ThreadsStep PROVE ThreadsInv'
<1> USE DEF ThreadsInv
<1>1. TypeOK'
  BY ThreadsTypeStep
<1>2. CASE \/ RxReceive \/ RxMove \/ HandleLocks \/ HandleMessage
  BY <1>1, <1>2, ReceiveStep, MoveStep, LocksStep, MessageStep
<1> DEFINE Lists == MutexIsHeld /\ ListsAreShort /\ WalksTheLast
           Ages == PipelineInOrder /\ OnlyNewerLeft /\ NothingFromTheFuture /\ HandledInOrder
<1>3. ASSUME UNCHANGED <<heap, live, taken, handled, rxBuf, rxProcBuf, searchList>>
      PROVE  Ages'
  BY <1>3 DEF PipelineInOrder, Before, OnlyNewerLeft, HandledBefore, NothingFromTheFuture,
              HandledInOrder
<1>4. CASE RxShort
  <2>1. /\ rx = "poll" /\ taken' = taken + 1 /\ ~aligned'
        /\ UNCHANGED <<heap, live, handled, rxBuf, rxProcBuf, searchList, rx, hd>>
    BY <1>4 DEF RxShort, memory
  <2>2. Lists'
    BY <2>1 DEF MutexIsHeld, ListsAreShort, WalksTheLast
  <2>3. PipelineInOrder' /\ OnlyNewerLeft' /\ HandledInOrder'
    BY <2>1 DEF PipelineInOrder, Before, OnlyNewerLeft, HandledBefore, HandledInOrder
  <2>4. taken \in Nat /\ (\A c \in live : heap[c] \in Nat)
    BY MessagesAssumption DEF TypeOK, Message, Garbled
  <2>5. \A i \in DOMAIN handled : handled[i] \in Nat
    BY MessagesAssumption, ElementOfSeq, LenProperties DEF TypeOK, Message, Garbled
  <2>6. NothingFromTheFuture'
    BY <2>1, <2>4, <2>5 DEF NothingFromTheFuture
  <2> QED
    BY <1>1, <2>2, <2>3, <2>6
<1>5. CASE GatewaySends \/ GatewayCloses \/ Spurious
  <2>1. UNCHANGED <<heap, live, taken, handled, rxBuf, rxProcBuf, searchList, aligned, rx, mutex>>
    BY <1>5 DEF GatewaySends, GatewayCloses, Spurious, wire, memory
  <2>2. hd' = hd \/ (hd = "wait" /\ hd' = "woken")
    BY <1>5 DEF GatewaySends, GatewayCloses, Spurious
  <2>3. Lists'
    BY <2>1, <2>2 DEF MutexIsHeld, ListsAreShort, WalksTheLast
  <2> QED
    BY <1>1, <1>3, <2>1, <2>3
<1>6. CASE RxClosed \/ RxUnlock \/ RxSignal
  <2>1. UNCHANGED <<heap, live, taken, handled, rxBuf, rxProcBuf, searchList, aligned>>
    BY <1>6 DEF RxClosed, RxUnlock, RxSignal, wire, memory
  <2>2. MutexIsHeld'
    BY <1>6, <2>1 DEF RxClosed, RxUnlock, RxSignal, MutexIsHeld
  <2>3. ListsAreShort' /\ WalksTheLast'
    BY <1>6, <2>1 DEF RxClosed, RxUnlock, RxSignal, ListsAreShort, WalksTheLast
  <2> QED
    BY <1>1, <1>3, <2>1, <2>2, <2>3
<1>7. CASE HandleStarts \/ HandleFreed \/ HandleWaits
  <2>1. UNCHANGED <<heap, live, taken, handled, rxBuf, rxProcBuf, searchList, aligned>>
    BY <1>7 DEF HandleStarts, HandleFreed, HandleWaits, wire, memory
  <2>2. MutexIsHeld'
    BY <1>7, <2>1 DEF HandleStarts, HandleFreed, HandleWaits, MutexIsHeld
  <2>3. ListsAreShort' /\ WalksTheLast'
    BY <1>7, <2>1 DEF HandleStarts, HandleFreed, HandleWaits, ListsAreShort, WalksTheLast
  <2> QED
    BY <1>1, <1>3, <2>1, <2>2, <2>3
<1>8. CASE \/ open' = FALSE /\ UNCHANGED <<sent, taken, aligned, memory, rxBuf, rxProcBuf,
                                         mutex, rx, hd, searchList, handled>>
           \/ UNCHANGED vars
  <2>1. UNCHANGED <<heap, live, taken, handled, rxBuf, rxProcBuf, searchList, aligned, mutex, rx, hd>>
    BY <1>8 DEF vars, wire, memory
  <2>2. Lists'
    BY <2>1 DEF MutexIsHeld, ListsAreShort, WalksTheLast
  <2> QED
    BY <1>1, <1>3, <2>1, <2>2
<1>9. CASE /\ heap' = [c \in Cell |-> Garbled] /\ live' = {}
           /\ rxBuf' = <<>> /\ rxProcBuf' = <<>> /\ searchList' = <<>>
           /\ mutex' = "free" /\ rx' = "done" /\ hd' = "wait"
           /\ UNCHANGED <<wire, handled>>
  <2>1. UNCHANGED <<taken, handled, aligned>>
    BY <1>9 DEF wire
  <2>2. Lists'
    BY <1>9 DEF MutexIsHeld, ListsAreShort, WalksTheLast
  <2>3. Ages'
    BY <1>9, <2>1 DEF PipelineInOrder, Before, OnlyNewerLeft, HandledBefore,
                      NothingFromTheFuture, HandledInOrder
  <2> QED
    BY <1>1, <2>2, <2>3
<1> QED
  BY <1>2, <1>4, <1>5, <1>6, <1>7, <1>8, <1>9 DEF ThreadsStep, Next, RxThread, HandleThread

\* The threads start with nothing.
LEMMA ThreadsInvInit == Init => ThreadsInv
<1> SUFFICES ASSUME Init PROVE ThreadsInv
  OBVIOUS
<1>1. TypeOK
  <2>1. heap \in [Cell -> Message \cup {Garbled}]
    BY DEF Init
  <2>2. sent \in 0..MaxMessages /\ taken \in 0..sent
    BY MessagesAssumption DEF Init
  <2>3. aligned \in BOOLEAN /\ open \in BOOLEAN
    BY DEF Init
  <2> QED
    BY <2>1, <2>2, <2>3, EmptySeq DEF Init, TypeOK
<1>2. MutexIsHeld /\ ListsAreShort /\ WalksTheLast
  BY DEF Init, MutexIsHeld, ListsAreShort, WalksTheLast
<1>3. PipelineInOrder /\ OnlyNewerLeft /\ NothingFromTheFuture /\ HandledInOrder
  BY DEF Init, PipelineInOrder, Before, OnlyNewerLeft, HandledBefore, NothingFromTheFuture,
         HandledInOrder
<1> QED
  BY <1>1, <1>2, <1>3 DEF ThreadsInv

-----------------------------------------------------------------------------
(* The main threads. *)

MainTypeOK ==
    /\ program \in Programs
    /\ main \in {"connect", "send", "wait", "ended", "failed", "stuck", "wild"}
    /\ arg \in Loops /\ loops \in 0..(Word - 1)
    /\ connected \in BOOLEAN
    /\ asked \in Seq({"devices", "on", "off", "join"}) /\ Len(asked) <= MaxRequests

\* Every step of ClNext changes the main thread's state by one of these.
MainStep ==
    \/ Connect \/ Send \/ SendFails \/ Pause \/ Leave \/ Key \/ HandleForeign
    \/ UNCHANGED mainVars

\* The main thread's state only changes by its own actions.
LEMMA StepIsMainStep ==
    ASSUME ClNext PROVE MainStep
<1>1. CASE RxRuns \/ HandleRuns \/ WakesUp
  BY <1>1 DEF RxRuns, HandleRuns, WakesUp, MainStep
<1>2. CASE BytesArrive \/ EndArrives \/ Replies \/ Stops
  BY <1>2 DEF BytesArrive, EndArrives, Replies, Stops, MainStep
<1>3. CASE Gateway
  BY <1>3 DEF Gateway, Polls, Counts, ReadsHeader, ReadsBody, ReadsDone, MainStep
<1> QED
  BY <1>1, <1>2, <1>3 DEF ClNext, Main, MainStep

\* flashLed's counter is 16 bits wide: adding 2 to the argument wraps for the two
\* largest ones (flashled.c:115), and counting never leaves the width.
LEMMA CounterStart ==
    ASSUME NEW n \in 0..(Word - 1)
    PROVE  /\ n \in 1..(Word - 3) => (n + 2) % Word = n + 2
           /\ n # 0 /\ n \notin 1..(Word - 3) => (n + 2) % Word \in {0, 1}
<1> USE WordAssumption
<1>1. CASE n + 2 < Word
  BY <1>1
<1>2. CASE n = Word - 2
  <2>1. Word % Word = 0
    OBVIOUS
  <2> QED
    BY <1>2, <2>1
<1>3. CASE n = Word - 1
  <2>1. (Word + 1) % Word = 1
    OBVIOUS
  <2>2. n + 2 = Word + 1
    BY <1>3
  <2> QED
    BY <1>3, <2>1, <2>2
<1> QED
  BY <1>1, <1>2, <1>3

\* Counting down or toggling changes the parity (flashled.c:133-136).
LEMMA CounterStep ==
    ASSUME NEW n \in 0..(Word - 1)
    PROVE  /\ NextLoops(n) \in 0..(Word - 1)
           /\ n > 1 => NextLoops(n) = n - 1
           /\ n \in {0, 1} => NextLoops(n) \in {0, 1}
           /\ NextLoops(n) % 2 # n % 2
BY WordAssumption DEF NextLoops

\* A counter of the other parity compares with 0 or 1 the other way round.
LEMMA Parity ==
    \A m, n \in Nat :
       m % 2 # n % 2 => (m % 2 = StartWith <=> n % 2 # StartWith) \/ StartWith \notin {0, 1}
<1> TAKE m, n \in Nat
<1>1. (m % 2 = 0 \/ m % 2 = 1) /\ (n % 2 = 0 \/ n % 2 = 1)
  OBVIOUS
<1> QED
  BY <1>1

\* What a program asks for is one of four requests.
LEMMA AsksType ==
    ASSUME MainTypeOK PROVE Asks \in {"devices", "on", "off", "join"}
BY ProgramsAssumption DEF Asks, MainTypeOK

\* Every step keeps the types of the main thread.
LEMMA MainTypeStep ==
    ASSUME MainTypeOK, MainStep PROVE MainTypeOK'
<1> USE WordAssumption, RequestsAssumption DEF MainTypeOK
<1>1. CASE Connect
  <2>1. loops' \in 0..(Word - 1) /\ connected' \in BOOLEAN
    <3>1. connected' \in BOOLEAN
      BY <1>1 DEF Connect
    <3>2. CASE arg = 0
      BY <1>1, <3>1, <3>2 DEF Connect
    <3>3. CASE arg # 0
      BY <1>1, <3>1, <3>3, CounterStart DEF Connect
    <3> QED
      BY <3>2, <3>3
  <2> QED
    BY <1>1, <2>1 DEF Connect
<1>2. CASE Send
  <2>1. asked' \in Seq({"devices", "on", "off", "join"}) /\ Len(asked') <= MaxRequests
    BY <1>2, AsksType DEF Send
  <2> QED
    BY <1>2, <2>1 DEF Send
<1>3. CASE SendFails
  BY <1>3 DEF SendFails
<1>4. CASE Pause
  BY <1>4, CounterStep DEF Pause
<1>5. CASE Leave \/ Key
  BY <1>5 DEF Leave, Key, CloseAndExit
<1>6. CASE HandleForeign
  BY <1>6 DEF HandleForeign
<1>7. CASE UNCHANGED mainVars
  BY <1>7 DEF mainVars
<1> QED
  BY <1>1, <1>2, <1>3, <1>4, <1>5, <1>6, <1>7 DEF MainStep

\* Every step keeps what the counter says.
LEMMA CounterCountsStep ==
    ASSUME MainTypeOK, CounterCounts, MainStep, open' => open PROVE CounterCounts'
<1> USE WordAssumption DEF CounterCounts, Endless
<1> SUFFICES ASSUME program' = "flashLed" PROVE CounterCounts'
  OBVIOUS
<1>1. arg \in 0..(Word - 1) /\ loops \in 0..(Word - 1) /\ Len(asked) \in Nat
  BY DEF MainTypeOK
<1>2. CASE Connect
  <2>1. Len(asked') = 0 /\ program = "flashLed" /\ main' = "send" /\ arg' = arg
    BY <1>2 DEF Connect
  <2>2. Endless => loops' \in {0, 1}
    BY <1>1, <1>2, CounterStart DEF Connect
  <2>3. ~Endless => loops' = arg + 2
    BY <1>1, <1>2, CounterStart DEF Connect
  <2> QED
    BY <1>1, <2>1, <2>2, <2>3
<1>3. CASE Send
  <2>1. Len(asked') = Len(asked) + 1
    BY <1>3, AsksType DEF Send, MainTypeOK
  <2> QED
    BY <1>1, <1>3, <2>1 DEF Send, Finished
<1>4. CASE SendFails
  BY <1>1, <1>4 DEF SendFails, Finished, vars, wire
<1>5. CASE Pause
  <2>1. /\ main = "wait" /\ main' = "send" /\ loops' = NextLoops(loops) /\ program = "flashLed"
        /\ UNCHANGED <<arg, asked, open>>
    BY <1>5 DEF Pause, vars, wire
  <2>2. CASE Endless
    BY <1>1, <2>1, <2>2, CounterStep
  <2>3. CASE ~Endless
    <3>1. loops' = loops - 1
      BY <1>1, <2>1, <2>3, CounterStep
    <3> QED
      BY <1>1, <2>1, <2>3, <3>1
  <2> QED
    BY <2>2, <2>3
<1>6. CASE Leave \/ Key
  BY <1>1, <1>6 DEF Leave, Key, CloseAndExit, Finished, wire
<1>7. CASE HandleForeign
  BY <1>1, <1>7 DEF HandleForeign
<1>8. CASE UNCHANGED mainVars
  BY <1>1, <1>8 DEF mainVars
<1> QED
  BY <1>2, <1>3, <1>4, <1>5, <1>6, <1>7, <1>8 DEF MainStep

\* flashLed takes turns if its optional argument is 0 or 1; with any other one
\* it compares unequal always, and only switches off (flashled.c:122).
LEMMA NextAlternatesStep ==
    ASSUME StartWith \in {0, 1}, MainTypeOK, CounterCounts, NextAlternates, MainStep,
           open' => open
    PROVE  NextAlternates'
<1> USE DEF NextAlternates
<1> SUFFICES ASSUME program' = "flashLed" PROVE NextAlternates'
  OBVIOUS
<1>1. program = "flashLed" /\ arg' \in Nat
  BY WordAssumption DEF MainStep, Connect, Send, SendFails, Pause, Leave, Key, CloseAndExit,
                        HandleForeign, mainVars, MainTypeOK
<1>2. loops \in 0..(Word - 1) /\ loops \in Nat /\ Len(asked) \in Nat
  BY WordAssumption DEF MainTypeOK
<1>3. CASE Send
  <2>1. /\ asked' = Append(asked, Asks) /\ main = "send" /\ main' = "wait" /\ open
        /\ UNCHANGED <<loops, open>>
    BY <1>3 DEF Send, vars, wire
  <2>2. /\ Len(asked') = Len(asked) + 1 /\ asked'[Len(asked) + 1] = Asks
        /\ \A i \in 1..Len(asked) : asked'[i] = asked[i]
    BY <2>1, AsksType, AppendProperties DEF MainTypeOK
  <2>3. Asks' = Asks
    BY <1>1, <2>1 DEF Asks
  <2>4. Len(asked) # 0 => asked[Len(asked)] # Asks
    BY <1>1, <2>1
  <2>5. \A i \in 1..(Len(asked') - 1) : asked'[i] # asked'[i + 1]
    <3> SUFFICES ASSUME NEW i \in 1..Len(asked) PROVE asked'[i] # asked'[i + 1]
      BY <1>2, <2>2
    <3>1. CASE i = Len(asked)
      BY <2>2, <2>4, <3>1
    <3>2. CASE i < Len(asked)
      <4>1. i \in 1..(Len(asked) - 1) /\ i + 1 \in 1..Len(asked)
        BY <1>2, <3>2
      <4> QED
        BY <1>1, <2>2, <4>1
    <3> QED
      BY <1>2, <3>1, <3>2
  <2>6. asked'[Len(asked')] = Asks'
    BY <2>2, <2>3
  <2> QED
    BY <2>1, <2>5, <2>6
<1>4. CASE Pause
  <2>1. /\ main = "wait" /\ main' = "send" /\ loops' = NextLoops(loops)
        /\ UNCHANGED <<asked, open>>
    BY <1>4 DEF Pause, vars, wire
  <2>2. Asks' # Asks
    <3>1. loops' % 2 # loops % 2 /\ loops' \in Nat
      BY <1>2, <2>1, CounterStep
    <3>2. loops' % 2 = StartWith <=> loops % 2 # StartWith
      BY <1>2, <3>1, Parity
    <3> QED
      BY <1>1, <3>2 DEF Asks
  <2> QED
    BY <1>1, <1>2, <2>1, <2>2
<1>5. CASE Connect
  <2>1. asked' = <<>>
    BY <1>1, <1>5 DEF Connect, CounterCounts
  <2> QED
    BY <2>1
<1>6. CASE SendFails
  <2>1. asked' = asked /\ (main' = "failed" \/ (main' = "wait" /\ ~open'))
    BY <1>6 DEF SendFails, vars, wire
  <2> QED
    BY <1>1, <2>1
<1>7. CASE Leave \/ Key
  <2>1. asked' = asked /\ main' \in {"ended", "stuck"}
    BY <1>7 DEF Leave, Key, CloseAndExit
  <2> QED
    BY <1>1, <2>1
<1>8. CASE HandleForeign
  BY <1>1, <1>8 DEF HandleForeign
<1>9. CASE UNCHANGED mainVars
  <2>1. UNCHANGED <<main, asked, program, loops>>
    BY <1>9 DEF mainVars
  <2>2. Asks' = Asks
    BY <2>1 DEF Asks
  <2> QED
    BY <1>1, <2>1, <2>2
<1> QED
  BY <1>3, <1>4, <1>5, <1>6, <1>7, <1>8, <1>9 DEF MainStep

\* What the counter and the turns say is what a user of flashLed sees.
LEMMA FlashesImplied ==
    MainTypeOK /\ CounterCounts /\ NextAlternates => FlashesAsTold
<1> SUFFICES ASSUME MainTypeOK, CounterCounts, NextAlternates, program = "flashLed"
             PROVE  FlashesAsTold
  BY DEF FlashesAsTold
<1>1. \A i \in 1..(Len(asked) - 1) : asked[i] # asked[i + 1]
  BY DEF NextAlternates
<1>2. ASSUME main \in {"ended", "stuck"}
      PROVE  arg \in 1..(Word - 3) /\ (open => Len(asked) = arg)
  <2>1. loops = 2 /\ ~Endless
    BY <1>2 DEF CounterCounts
  <2>2. arg \in 1..(Word - 3) /\ Len(asked) \in Nat
    BY <2>1 DEF Endless, MainTypeOK
  <2> QED
    BY <1>2, <2>1, <2>2, WordAssumption DEF CounterCounts
<1> QED
  BY <1>1, <1>2 DEF FlashesAsTold

-----------------------------------------------------------------------------
(* The byte stream. *)

\* A request is a header, with or without a body.
LEMMA SizeIs ==
    /\ Size = 2 \/ Size = 5
    /\ Size = Header + BodyLength(program)
    /\ program = "listDevs" <=> Size = 2
    /\ Header = 2 /\ Pad = 2 /\ Garbled = 0
BY DEF Size, BodyLength, Header, Pad, Garbled

\* Requests lie in the stream one after the other.
LEMMA StreamArithmetic ==
    ASSUME NEW n \in Nat
    PROVE  /\ Size * n \in Nat
           /\ Size * (n + 1) = Size * n + Size
           /\ \A m \in 0..n : Size * m <= Size * n
           /\ n > 0 /\ n % Size = 0 => n >= Size /\ (n - Size) % Size = 0
           /\ 0 % Size = 0
<1>1. CASE Size = 2
  BY <1>1
<1>2. CASE Size = 5
  BY <1>2
<1> QED
  BY <1>1, <1>2, SizeIs

\* The bytes of request n + 1, and which bytes end a request.
LEMMA ByteAt ==
    ASSUME NEW n \in Nat
    PROVE  /\ \A k \in 1..Size : Byte(Size * n + k) = [req |-> n + 1, at |-> k]
           /\ \A k \in Nat \ {0} : Byte(Size * n + k).at = Size <=> k % Size = 0
<1>1. CASE Size = 2
  BY <1>1 DEF Byte
<1>2. CASE Size = 5
  BY <1>2 DEF Byte
<1> QED
  BY <1>1, <1>2, SizeIs

\* Cutting a sequence in two.
LEMMA CutProperties ==
    ASSUME NEW R, NEW s \in Seq(R), NEW n \in 0..Len(s)
    PROVE  /\ SubSeq(s, 1, n) \in Seq(R) /\ Len(SubSeq(s, 1, n)) = n
           /\ \A i \in 1..n : SubSeq(s, 1, n)[i] = s[i]
           /\ SubSeq(s, n + 1, Len(s)) \in Seq(R) /\ Len(SubSeq(s, n + 1, Len(s))) = Len(s) - n
           /\ \A i \in 1..(Len(s) - n) : SubSeq(s, n + 1, Len(s))[i] = s[n + i]
<1>1. Len(s) \in Nat /\ \A i \in 1..Len(s) : s[i] \in R
  BY LenProperties, ElementOfSeq
<1>2. \A i \in 1..n : s[i] \in R
  BY <1>1
<1>3. \A i \in (n + 1)..Len(s) : s[i] \in R
  BY <1>1
<1>4. /\ SubSeq(s, 1, n) \in Seq(R) /\ Len(SubSeq(s, 1, n)) = n
      /\ \A i \in 1..n : SubSeq(s, 1, n)[i] = s[i]
  BY <1>1, <1>2, SubSeqProperties
<1>5. /\ SubSeq(s, n + 1, Len(s)) \in Seq(R) /\ Len(SubSeq(s, n + 1, Len(s))) = Len(s) - n
      /\ \A i \in 1..(Len(s) - n) : SubSeq(s, n + 1, Len(s))[i] = s[n + i]
  BY <1>1, <1>3, SubSeqProperties
<1> QED
  BY <1>4, <1>5

\* The smaller of the bytes wanted and the bytes that are there.
LEMMA MinOfTwo ==
    ASSUME NEW a \in Nat, NEW b \in Nat
    PROVE  Min({a, b}) = IF a <= b THEN a ELSE b
<1>1. \E x \in {a, b} : \A y \in {a, b} : x <= y
  OBVIOUS
<1>2. Min({a, b}) \in {a, b} /\ \A y \in {a, b} : Min({a, b}) <= y
  BY <1>1 DEF Min
<1> QED
  BY <1>2

StreamTypeOK ==
    /\ fin \in {"no", "sent", "arrived"}
    /\ gw \in {"poll", "count", "header", "body", "gone", "dead", "stopped"}
    /\ hup \in BOOLEAN /\ cut \in BOOLEAN
    /\ byteToRead \in Int
    /\ byteRead \in -1..Header /\ Len(got) <= Header
    /\ acted \in Seq(0..MaxRequests)
    /\ BytesAreSent
    /\ gw # "body" => got = <<>> /\ byteRead = 0

Whole == StreamIsWhole /\ CountIsWhole /\ gw # "dead" /\ \A i \in DOMAIN acted : acted[i] = i

RequestsInv == StreamTypeOK /\ (~cut => Whole)

\* The parts of the stream are sequences with a length.
LEMMA StreamLengths ==
    ASSUME StreamTypeOK
    PROVE  /\ Len(acted) \in Nat /\ Size * Len(acted) \in Nat
           /\ Len(got) \in Nat /\ Len(sock) \in Nat /\ Len(upLine) \in Nat
           /\ DOMAIN got = 1..Len(got) /\ DOMAIN sock = 1..Len(sock)
           /\ DOMAIN upLine = 1..Len(upLine) /\ DOMAIN acted = 1..Len(acted)
<1>1. /\ got \in Seq(Bytes) /\ sock \in Seq(Bytes) /\ upLine \in Seq(Bytes)
      /\ acted \in Seq(0..MaxRequests)
  BY DEF StreamTypeOK, BytesAreSent
<1>2. Len(acted) \in Nat
  BY <1>1
<1> QED
  BY <1>1, <1>2, StreamArithmetic, LenProperties

\* A program sends the next request behind what it has sent.
LEMMA SendStep ==
    ASSUME MainTypeOK, MainTypeOK', RequestsInv, Send PROVE RequestsInv'
<1> DEFINE n == Len(asked)
<1>1. /\ asked' = Append(asked, Asks) /\ upLine' = upLine \o Request(Len(asked'))
      /\ UNCHANGED <<program, fin, sock, gw, hup, byteToRead, got, byteRead, acted, cut>>
  BY DEF Send, gateway
<1>2. n \in Nat /\ Len(asked') = n + 1 /\ DOMAIN asked' = 1..(n + 1) /\ DOMAIN asked = 1..n
  BY <1>1, AsksType DEF MainTypeOK
<1>3. Size' = Size /\ Size \in Nat /\ (\A k : Byte(k)' = Byte(k))
  BY <1>1, SizeIs DEF Size, BodyLength, Byte
<1>4. Bytes' = [req : 1..(n + 1), at : 1..Size] /\ Bytes = [req : 1..n, at : 1..Size]
  BY <1>2, <1>3 DEF Bytes
<1>5. got \in Seq(Bytes') /\ sock \in Seq(Bytes') /\ upLine \in Seq(Bytes')
  <2>1. Bytes \subseteq Bytes'
    BY <1>2, <1>4
  <2> QED
    BY <2>1, SeqMonotonic DEF RequestsInv, StreamTypeOK, BytesAreSent, Bytes
<1>6. /\ Request(n + 1) \in Seq(Bytes') /\ Len(Request(n + 1)) = Size
      /\ \A k \in 1..Size : Request(n + 1)[k] = [req |-> n + 1, at |-> k]
  <2>1. \A k \in 1..Size : [req |-> n + 1, at |-> k] \in Bytes'
    BY <1>2, <1>4
  <2> QED
    BY <1>3, <2>1 DEF Request
<1>7. /\ upLine' \in Seq(Bytes') /\ Len(upLine') = Len(upLine) + Size
      /\ \A k \in 1..(Len(upLine) + Size) :
            upLine'[k] = IF k <= Len(upLine) THEN upLine[k] ELSE Request(n + 1)[k - Len(upLine)]
  <2> DEFINE r == Request(n + 1)
  <2>1. r \in Seq(Bytes') /\ Len(r) = Size /\ upLine \in Seq(Bytes') /\ upLine' = upLine \o r
    BY <1>1, <1>2, <1>5, <1>6
  <2> HIDE DEF r
  <2>2. /\ upLine \o r \in Seq(Bytes')
        /\ Len(upLine \o r) = Len(upLine) + Len(r)
        /\ \A k \in 1..(Len(upLine) + Len(r)) :
              (upLine \o r)[k] = IF k <= Len(upLine) THEN upLine[k] ELSE r[k - Len(upLine)]
    BY <2>1, ConcatProperties
  <2> QED
    BY <2>1, <2>2 DEF r
<1>8. StreamTypeOK'
  BY <1>1, <1>5, <1>7 DEF StreamTypeOK, RequestsInv, BytesAreSent, Bytes
<1>9. ASSUME ~cut PROVE Whole'
  <2>1. Whole
    BY <1>9 DEF RequestsInv
  <2> DEFINE done == Size * Len(acted)
  <2>2. done \in Nat /\ Len(got) \in Nat /\ Len(sock) \in Nat /\ Len(upLine) \in Nat
    BY StreamLengths DEF RequestsInv
  <2>3. done + Len(got) + Len(sock) + Len(upLine) = Size * n
    BY <2>1 DEF Whole, StreamIsWhole
  <2>4. Size * (n + 1) = Size * n + Size
    BY <1>2, StreamArithmetic
  <2>5. \A k \in 1..Size : Request(n + 1)[k] = Byte(Size * n + k)
    <3> SUFFICES ASSUME NEW k \in 1..Size
                 PROVE  Request(n + 1)[k] = Byte(Size * n + k)
      OBVIOUS
    <3>1. Byte(Size * n + k) = [req |-> n + 1, at |-> k]
      BY <1>2, ByteAt
    <3>2. Request(n + 1)[k] = [req |-> n + 1, at |-> k]
      BY <1>6
    <3> QED
      BY <3>1, <3>2
  <2> HIDE DEF done
  <2>6. \A k \in DOMAIN upLine' : upLine'[k] = Byte(done + Len(got) + Len(sock) + k)
    <3> SUFFICES ASSUME NEW k \in 1..(Len(upLine) + Size)
                 PROVE  upLine'[k] = Byte(done + Len(got) + Len(sock) + k)
      BY <1>7, LenProperties
    <3>1. CASE k <= Len(upLine)
      <4>1. k \in DOMAIN upLine /\ upLine'[k] = upLine[k]
        BY <1>5, <1>7, <2>2, <3>1, LenProperties
      <4> QED
        BY <2>1, <4>1 DEF Whole, StreamIsWhole, From, done
    <3>2. CASE k > Len(upLine)
      <4>1. k - Len(upLine) \in 1..Size
        BY <1>3, <2>2, <3>2
      <4>2. Size * n + (k - Len(upLine)) = done + Len(got) + Len(sock) + k
        BY <1>3, <2>2, <2>3
      <4> QED
        BY <1>7, <2>5, <3>2, <4>1, <4>2
    <3> QED
      BY <1>3, <2>2, <3>1, <3>2
  <2>7. StreamIsWhole'
    <3>1. From(got, done)' /\ From(sock, done + Len(got))'
      BY <1>1, <1>3, <2>1 DEF Whole, StreamIsWhole, From, done
    <3>2. From(upLine, done + Len(got) + Len(sock))'
      BY <1>1, <1>3, <2>6 DEF From, done
    <3>3. done + Len(got) + Len(sock) + Len(upLine') = Size * (n + 1)
      BY <1>3, <1>7, <2>2, <2>3, <2>4
    <3> QED
      BY <1>1, <1>2, <1>3, <3>1, <3>2, <3>3 DEF StreamIsWhole, done
  <2>8. CountIsWhole'
    BY <1>1, <1>3, <2>1 DEF Whole, CountIsWhole
  <2> QED
    BY <1>1, <2>1, <2>7, <2>8 DEF Whole
<1> QED
  BY <1>1, <1>8, <1>9 DEF RequestsInv

\* Bytes arrive in the order in which they were sent.
LEMMA ArriveStep ==
    ASSUME RequestsInv, BytesArrive PROVE RequestsInv'
<1>1. PICK n \in DOMAIN upLine :
        /\ sock' = sock \o SubSeq(upLine, 1, n)
        /\ upLine' = SubSeq(upLine, n + 1, Len(upLine))
  BY DEF BytesArrive
<1>2. UNCHANGED <<program, asked, fin, gw, hup, byteToRead, got, byteRead, acted, cut>>
  BY DEF BytesArrive, mainVars, gateway
<1>3. Size' = Size /\ (\A k : Byte(k)' = Byte(k)) /\ Bytes' = Bytes
  BY <1>2 DEF Size, BodyLength, Byte, Bytes
<1> DEFINE first == SubSeq(upLine, 1, n)
           rest == SubSeq(upLine, n + 1, Len(upLine))
<1>4. /\ got \in Seq(Bytes) /\ sock \in Seq(Bytes) /\ upLine \in Seq(Bytes)
      /\ Len(got) \in Nat /\ Len(sock) \in Nat /\ Len(upLine) \in Nat /\ n \in 1..Len(upLine)
      /\ DOMAIN sock = 1..Len(sock) /\ DOMAIN upLine = 1..Len(upLine)
  BY StreamLengths DEF RequestsInv, StreamTypeOK, BytesAreSent
<1>5. /\ first \in Seq(Bytes) /\ Len(first) = n /\ \A i \in 1..n : first[i] = upLine[i]
      /\ rest \in Seq(Bytes) /\ Len(rest) = Len(upLine) - n
      /\ \A i \in 1..(Len(upLine) - n) : rest[i] = upLine[n + i]
  BY <1>4, CutProperties, SMTT(20)
<1> HIDE DEF first, rest
<1>6. /\ sock' \in Seq(Bytes) /\ Len(sock') = Len(sock) + n
      /\ \A k \in 1..(Len(sock) + n) :
            sock'[k] = IF k <= Len(sock) THEN sock[k] ELSE first[k - Len(sock)]
  <2>1. sock' = sock \o first
    BY <1>1 DEF first
  <2> QED
    BY <1>4, <1>5, <2>1, ConcatProperties
<1>7. upLine' = rest
  BY <1>1 DEF rest
<1>8. StreamTypeOK'
  BY <1>2, <1>3, <1>4, <1>5, <1>6, <1>7 DEF StreamTypeOK, RequestsInv, BytesAreSent
<1>9. ASSUME ~cut PROVE Whole'
  <2>1. Whole
    BY <1>9 DEF RequestsInv
  <2> DEFINE done == Size * Len(acted)
  <2>2. done \in Nat
    BY StreamLengths DEF RequestsInv
  <2>3. /\ \A k \in 1..Len(sock) : sock[k] = Byte(done + Len(got) + k)
        /\ \A k \in 1..Len(upLine) : upLine[k] = Byte(done + Len(got) + Len(sock) + k)
        /\ From(got, done)
        /\ done + Len(got) + Len(sock) + Len(upLine) = Size * Len(asked)
    BY <1>4, <2>1 DEF Whole, StreamIsWhole, From
  <2>4. done' = done /\ From(got, done)'
    BY <1>2, <1>3, <2>3 DEF From
  <2> HIDE DEF done
  <2>5. From(sock, done + Len(got))'
    <3> SUFFICES ASSUME NEW k \in 1..(Len(sock) + n) PROVE sock'[k] = Byte(done + Len(got) + k)
      BY <1>2, <1>3, <1>6, <2>4, LenProperties DEF From
    <3>1. CASE k <= Len(sock)
      BY <1>4, <1>6, <2>3, <3>1
    <3>2. CASE k > Len(sock)
      <4>1. k - Len(sock) \in 1..n
        BY <1>4, <3>2
      <4>2. sock'[k] = upLine[k - Len(sock)] /\ k - Len(sock) \in 1..Len(upLine)
        BY <1>4, <1>5, <1>6, <3>2, <4>1
      <4>3. done + Len(got) + Len(sock) + (k - Len(sock)) = done + Len(got) + k
        BY <1>4, <2>2
      <4> QED
        BY <2>3, <4>2, <4>3
    <3> QED
      BY <1>4, <3>1, <3>2
  <2>6. From(upLine, done + Len(got) + Len(sock))'
    <3> SUFFICES ASSUME NEW k \in 1..(Len(upLine) - n)
                 PROVE  rest[k] = Byte(done + Len(got) + (Len(sock) + n) + k)
      BY <1>2, <1>3, <1>5, <1>6, <1>7, <2>4, LenProperties DEF From
    <3>1. n + k \in 1..Len(upLine)
      BY <1>4
    <3>2. done + Len(got) + Len(sock) + (n + k) = done + Len(got) + (Len(sock) + n) + k
      BY <1>4, <2>2
    <3> QED
      BY <1>5, <2>3, <3>1, <3>2
  <2>7. done + Len(got) + Len(sock') + Len(upLine') = Size * Len(asked)
    BY <1>4, <1>5, <1>6, <1>7, <2>2, <2>3, SMTT(20)
  <2>8. StreamIsWhole'
    BY <1>2, <1>3, <2>4, <2>5, <2>6, <2>7 DEF StreamIsWhole, done
  <2>9. CountIsWhole'
    BY <1>2, <1>3, <1>4, <1>6, <2>1 DEF Whole, CountIsWhole
  <2> QED
    BY <1>2, <2>1, <2>8, <2>9 DEF Whole
<1> QED
  BY <1>2, <1>8, <1>9 DEF RequestsInv

\* Bytes that are counted with no request cut are whole requests.
LEMMA CountsStep ==
    ASSUME RequestsInv, Counts PROVE RequestsInv'
<1>1. /\ gw = "count" /\ gw' = "header" /\ byteToRead' = Len(sock)
      /\ cut' = (cut \/ (sock # <<>> /\ Last(sock).at # Size))
      /\ UNCHANGED <<program, asked, upLine, fin, sock, hup, got, byteRead, acted>>
  BY DEF Counts, mainVars, stream
<1>2. Size' = Size /\ (\A k : Byte(k)' = Byte(k)) /\ Bytes' = Bytes
  BY <1>1 DEF Size, BodyLength, Byte, Bytes
<1>3. /\ Len(got) = 0 /\ Len(sock) \in Nat /\ DOMAIN sock = 1..Len(sock) /\ got = <<>>
      /\ Len(acted) \in Nat /\ Size * Len(acted) \in Nat
  BY <1>1, StreamLengths DEF RequestsInv, StreamTypeOK
<1>4. StreamTypeOK'
  <2>1. cut' \in BOOLEAN /\ hup' \in BOOLEAN
    BY <1>1 DEF RequestsInv, StreamTypeOK
  <2> QED
    BY <1>1, <1>2, <1>3, <2>1 DEF StreamTypeOK, RequestsInv, BytesAreSent
<1>5. ASSUME ~cut' PROVE Whole'
  <2>1. Whole /\ (sock = <<>> \/ Last(sock).at = Size)
    BY <1>1, <1>5 DEF RequestsInv
  <2>2. Len(sock) % Size = 0
    <3>1. CASE sock = <<>>
      BY <3>1, StreamArithmetic
    <3>2. CASE sock # <<>>
      <4>1. Len(sock) \in 1..Len(sock) /\ Len(sock) \in Nat \ {0}
        BY <3>2, EmptySeq DEF RequestsInv, StreamTypeOK, BytesAreSent
      <4>2. Last(sock) = Byte(Size * Len(acted) + Len(sock))
        BY <1>3, <2>1, <4>1 DEF Last, Whole, StreamIsWhole, From
      <4> QED
        BY <1>3, <2>1, <3>2, <4>1, <4>2, ByteAt
    <3> QED
      BY <3>1, <3>2
  <2>3. StreamIsWhole'
    BY <1>1, <1>2, <2>1 DEF Whole, StreamIsWhole, From
  <2>4. CountIsWhole'
    BY <1>1, <1>2, <1>3, <2>2 DEF CountIsWhole
  <2> QED
    BY <1>1, <2>1, <2>3, <2>4 DEF Whole
<1> QED
  BY <1>4, <1>5 DEF RequestsInv

\* The gateway's other steps leave the stream alone.
LEMMA QuietStep ==
    ASSUME RequestsInv,
           UNCHANGED <<program, asked, upLine, sock, byteToRead, got, byteRead, acted, cut>>,
           StreamTypeOK', gw' # gw => gw' \notin {"body", "dead"} /\ gw # "body",
           gw' # gw /\ gw = "header" => byteToRead = 0
    PROVE  RequestsInv'
<1>1. Size' = Size /\ (\A k : Byte(k)' = Byte(k))
  BY DEF Size, BodyLength, Byte
<1>2. ASSUME Whole PROVE Whole'
  <2>1. StreamIsWhole'
    BY <1>1, <1>2 DEF Whole, StreamIsWhole, From
  <2>2. CountIsWhole'
    BY <1>1, <1>2 DEF Whole, CountIsWhole
  <2> QED
    BY <1>2, <2>1, <2>2 DEF Whole
<1> QED
  BY <1>2 DEF RequestsInv

\* Polling, the end of a round and the ends of either side are such steps.
LEMMA QuietGatewayStep ==
    ASSUME RequestsInv, Polls \/ ReadsDone \/ Stops \/ EndArrives
    PROVE  RequestsInv'
<1>1. UNCHANGED <<program, asked, upLine, sock, byteToRead, got, byteRead, acted, cut>>
  BY DEF Polls, ReadsDone, Stops, EndArrives, mainVars, stream, gateway
<1>2. /\ gw' \in {"poll", "count", "gone", "stopped", gw}
      /\ gw' # gw => gw # "body" /\ (gw = "header" => byteToRead = 0)
  BY DEF Polls, ReadsDone, Stops, EndArrives, gateway
<1>3. fin' \in {"no", "sent", "arrived"}
  BY DEF Polls, ReadsDone, Stops, EndArrives, stream, RequestsInv, StreamTypeOK
<1>4. hup' \in BOOLEAN /\ cut' \in BOOLEAN
  <2>1. CASE Polls
    BY <1>1, <2>1 DEF Polls, RequestsInv, StreamTypeOK
  <2>2. CASE ReadsDone \/ Stops \/ EndArrives
    BY <1>1, <2>2 DEF ReadsDone, Stops, EndArrives, gateway, RequestsInv, StreamTypeOK
  <2> QED
    BY <2>1, <2>2
<1>5. Size' = Size /\ Bytes' = Bytes
  BY <1>1 DEF Size, BodyLength, Bytes
<1>6. StreamTypeOK'
  BY <1>1, <1>2, <1>3, <1>4, <1>5 DEF RequestsInv, StreamTypeOK, BytesAreSent
<1> QED
  BY <1>1, <1>2, <1>6, QuietStep

\* What a read of a socket that does not block returns.
LEMMA ResultType ==
    ASSUME NEW n \in Nat
    PROVE  /\ n > 0 => Result(n) = n
           /\ n = 0 => Result(n) \in {0, -1}
BY DEF Result

\* While no request was cut, a header that is read is there in full.
LEMMA HeaderStep ==
    ASSUME RequestsInv, ReadsHeader PROVE RequestsInv'
<1> DEFINE n == Min({Header, Len(sock)})
           first == SubSeq(sock, 1, n)
           rest == SubSeq(sock, n + 1, Len(sock))
<1>1. /\ gw = "header" /\ byteToRead # 0 /\ gw' = "body"
      /\ got' = first /\ sock' = rest /\ byteRead' = Result(n)
      /\ UNCHANGED <<program, asked, upLine, fin, hup, byteToRead, acted, cut>>
  BY DEF ReadsHeader, mainVars
<1>2. Size' = Size /\ (\A k : Byte(k)' = Byte(k)) /\ Bytes' = Bytes
  BY <1>1 DEF Size, BodyLength, Byte, Bytes
<1>3. /\ sock \in Seq(Bytes) /\ upLine \in Seq(Bytes) /\ got = <<>> /\ Len(got) = 0
      /\ Len(sock) \in Nat /\ DOMAIN sock = 1..Len(sock)
      /\ Len(acted) \in Nat /\ Size * Len(acted) \in Nat
  BY <1>1, StreamLengths DEF RequestsInv, StreamTypeOK, BytesAreSent
<1>4. n = IF Len(sock) < 2 THEN Len(sock) ELSE 2
  <2>1. Len(sock) \in Nat /\ Header = 2
    BY <1>3, SizeIs
  <2>2. n = IF Header <= Len(sock) THEN Header ELSE Len(sock)
    BY <2>1, MinOfTwo
  <2> QED
    BY <2>1, <2>2
<1> HIDE DEF n
<1>n. n \in Nat /\ n \in 0..Len(sock) /\ n <= 2
  BY <1>3, <1>4
<1>5. /\ first \in Seq(Bytes) /\ Len(first) = n /\ \A i \in 1..n : first[i] = sock[i]
      /\ rest \in Seq(Bytes) /\ Len(rest) = Len(sock) - n
      /\ \A i \in 1..(Len(sock) - n) : rest[i] = sock[n + i]
  <2>1. /\ first \in Seq(Bytes) /\ Len(first) = n
        /\ \A i \in 1..n : first[i] = sock[i]
    BY <1>3, <1>n, CutProperties
  <2>2. /\ rest \in Seq(Bytes) /\ Len(rest) = Len(sock) - n
        /\ \A i \in 1..(Len(sock) - n) : rest[i] = sock[n + i]
    <3>1. sock \in Seq(Bytes) /\ n \in 0..Len(sock)
      BY <1>3, <1>n
    <3> QED
      BY <3>1, CutProperties
  <2> QED
    BY <2>1, <2>2
<1> HIDE DEF first, rest
<1>6. byteRead' \in -1..2 /\ (n = 2 => byteRead' = 2)
  BY <1>1, <1>n, ResultType
<1>7. StreamTypeOK'
  <2>1. fin' \in {"no", "sent", "arrived"} /\ byteToRead' \in Int /\ acted' \in Seq(0..MaxRequests)
    BY <1>1 DEF RequestsInv, StreamTypeOK
  <2>2. hup' \in BOOLEAN /\ cut' \in BOOLEAN
    BY <1>1 DEF RequestsInv, StreamTypeOK
  <2>3. BytesAreSent'
    BY <1>1, <1>2, <1>3, <1>5 DEF BytesAreSent
  <2>4. byteRead' \in -1..Header /\ Len(got') <= Header
    BY <1>1, <1>5, <1>6, <1>n DEF Header
  <2> QED
    BY <1>1, <2>1, <2>2, <2>3, <2>4 DEF StreamTypeOK
<1>8. ASSUME ~cut PROVE Whole'
  <2>1. Whole
    BY <1>8 DEF RequestsInv
  <2>2. byteToRead \in 0..Len(sock) /\ byteToRead % Size = 0
    BY <1>3, <2>1 DEF Whole, CountIsWhole
  <2>3. byteToRead \in Nat /\ byteToRead > 0
    BY <1>1, <1>3, <2>2
  <2>4. byteToRead >= Size
    BY <2>2, <2>3, StreamArithmetic
  <2>5. n = 2 /\ Header = 2 /\ Len(sock) >= 2
    BY <1>3, <1>4, <2>2, <2>4, SizeIs
  <2> DEFINE done == Size * Len(acted)
  <2>6. /\ done \in Nat
        /\ \A k \in 1..Len(sock) : sock[k] = Byte(done + k)
        /\ From(upLine, done + Len(sock))
        /\ done + Len(sock) + Len(upLine) = Size * Len(asked)
    BY <1>3, <2>1 DEF Whole, StreamIsWhole, From
  <2>7. done' = done
    BY <1>1, <1>2
  <2> HIDE DEF done
  <2>8. From(got, done)'
    BY <1>1, <1>2, <1>3, <1>5, <2>5, <2>6, <2>7, LenProperties DEF From
  <2>9. From(sock, done + Len(got))'
    <3> SUFFICES ASSUME NEW k \in 1..(Len(sock) - 2) PROVE rest[k] = Byte(done + 2 + k)
      BY <1>1, <1>2, <1>5, <2>5, <2>7, LenProperties DEF From
    <3>1. 2 + k \in 1..Len(sock) /\ done + (2 + k) = done + 2 + k
      BY <1>3, <2>6
    <3> QED
      BY <1>5, <2>5, <2>6, <3>1
  <2>10. done + Len(got') + Len(sock') = done + Len(sock)
    BY <1>1, <1>3, <1>5, <2>5, <2>6
  <2>11. From(upLine, done + Len(got) + Len(sock))'
    BY <1>1, <1>2, <2>6, <2>7, <2>10 DEF From
  <2>12. StreamIsWhole'
    BY <1>1, <1>2, <2>6, <2>7, <2>8, <2>9, <2>10, <2>11 DEF StreamIsWhole, done
  <2>13. CountIsWhole'
    BY <1>1, <1>2, <1>3, <1>5, <1>6, <2>2, <2>3, <2>5 DEF CountIsWhole, Header
  <2> QED
    BY <1>1, <2>1, <2>12, <2>13 DEF Whole
<1> QED
  BY <1>1, <1>7, <1>8 DEF RequestsInv

\* What the gateway takes for a request is one that the program sent, or garbled.
LEMMA MeantType ==
    ASSUME NEW msg \in Seq(Bytes), msg # <<>>
    PROVE  Meant(msg) \in DOMAIN asked \cup {Garbled}
<1>1. Len(msg) \in Nat \ {0} /\ 1 \in 1..Len(msg)
  BY EmptySeq
<1>2. msg[1] \in Bytes
  BY <1>1, ElementOfSeq
<1>3. msg[1].req \in DOMAIN asked
  BY <1>2 DEF Bytes
<1> QED
  BY <1>3 DEF Meant

\* Another request is carried out.
LEMMA ActedAppended ==
    \A s \in Seq(0..MaxRequests), m \in 0..MaxRequests : Append(s, m) \in Seq(0..MaxRequests)
OBVIOUS

\* Reading a body leaves the types alone, whatever length the header gave.
LEMMA BodyStep ==
    ASSUME RequestsInv, MainTypeOK, ReadsBody PROVE RequestsInv'
<1>1. PICK len \in BodyLengths :
         LET n == Min({len, Len(sock)})
             body == IF len = 0 THEN 0 ELSE Result(n)
             total == Taken(byteRead, body)
         IN /\ byteToRead' = byteToRead - total
            /\ sock' = SubSeq(sock, n + 1, Len(sock))
            /\ IF total < 0 \/ total < len
                 THEN gw' = "dead" /\ open' = FALSE /\ UNCHANGED acted
                 ELSE Processes(got \o SubSeq(sock, 1, n))
  BY DEF ReadsBody
<1>2. /\ gw = "body" /\ got' = <<>> /\ byteRead' = 0
      /\ UNCHANGED <<program, asked, upLine, fin, hup, cut>>
  BY DEF ReadsBody, mainVars
<1>3. Size' = Size /\ (\A k : Byte(k)' = Byte(k)) /\ Bytes' = Bytes
  BY <1>2 DEF Size, BodyLength, Byte, Bytes
<1> DEFINE n == Min({len, Len(sock)})
           first == SubSeq(sock, 1, n)
           rest == SubSeq(sock, n + 1, Len(sock))
           body == IF len = 0 THEN 0 ELSE Result(n)
           msg == got \o first
<1>4. /\ got \in Seq(Bytes) /\ sock \in Seq(Bytes) /\ upLine \in Seq(Bytes)
      /\ Len(got) \in Nat /\ Len(sock) \in Nat /\ DOMAIN sock = 1..Len(sock)
      /\ Len(acted) \in Nat /\ Size * Len(acted) \in Nat /\ DOMAIN got = 1..Len(got)
      /\ acted \in Seq(0..MaxRequests) /\ byteRead \in -1..2
  BY StreamLengths, SizeIs DEF RequestsInv, StreamTypeOK, BytesAreSent
<1>5. len \in 0..3
  BY SizeIs DEF BodyLengths, BodyLength
<1>s. Size \in Nat /\ Size >= 2 /\ Size <= 5
  BY SizeIs
<1>6. n = IF len <= Len(sock) THEN len ELSE Len(sock)
  BY <1>4, <1>5, MinOfTwo
<1>7. n \in Nat /\ n \in 0..Len(sock)
  BY <1>4, <1>5, <1>6
<1> HIDE DEF n
<1>8. /\ first \in Seq(Bytes) /\ Len(first) = n /\ \A i \in 1..n : first[i] = sock[i]
      /\ rest \in Seq(Bytes) /\ Len(rest) = Len(sock) - n
      /\ \A i \in 1..(Len(sock) - n) : rest[i] = sock[n + i]
  BY <1>4, <1>7, CutProperties
<1>9. sock' = rest /\ byteToRead' = byteToRead - (byteRead + body)
  BY <1>1 DEF n, Taken
<1>10. (gw' = "dead" /\ acted' = acted) \/ Processes(msg)
  BY <1>1 DEF n
<1> HIDE DEF first, rest
<1>11. /\ msg \in Seq(Bytes) /\ Len(msg) = Len(got) + n
       /\ \A i \in 1..Len(got) : msg[i] = got[i]
  <2>1. got \o first \in Seq(Bytes) /\ Len(got \o first) = Len(got) + Len(first)
    BY <1>4, <1>8, ConcatProperties
  <2>2. \A i \in 1..(Len(got) + Len(first)) :
           (got \o first)[i] = IF i <= Len(got) THEN got[i] ELSE first[i - Len(got)]
    BY <1>4, <1>8, ConcatProperties
  <2> QED
    BY <1>4, <1>7, <1>8, <2>1, <2>2
<1> HIDE DEF msg
<1>12. body \in Int /\ (n > 0 => body = n) /\ (len = 0 => body = 0)
  BY <1>5, <1>6, <1>7, ResultType
<1> HIDE DEF body
<1>13. DOMAIN asked \subseteq 0..MaxRequests
  BY RequestsAssumption DEF MainTypeOK
<1>14. gw' \in {"header", "dead"} /\ acted' \in Seq(0..MaxRequests)
  <2>1. CASE gw' = "dead" /\ acted' = acted
    BY <1>4, <2>1
  <2>2. CASE Processes(msg)
    <3>1. CASE msg = <<>>
      BY <1>2, <1>4, <2>2, <3>1 DEF Processes
    <3>2. CASE msg # <<>>
      <4>1. Meant(msg) \in 0..MaxRequests /\ Garbled \in 0..MaxRequests
        BY <1>11, <1>13, <3>2, MeantType, RequestsAssumption DEF Garbled
      <4>2. acted' = acted \/ acted' = Append(acted, Meant(msg)) \/ acted' = Append(acted, Garbled)
        BY <2>2, <3>2 DEF Processes
      <4>3. gw' \in {"header", "dead"}
        BY <2>2, <3>2 DEF Processes
      <4> QED
        BY <1>4, <4>1, <4>2, <4>3, ActedAppended
    <3> QED
      BY <3>1, <3>2
  <2> QED
    BY <1>10, <2>1, <2>2
<1>15. StreamTypeOK'
  <2>1. hup' \in BOOLEAN /\ cut' \in BOOLEAN
    BY <1>2 DEF RequestsInv, StreamTypeOK
  <2>2. byteToRead' \in Int
    BY <1>4, <1>9, <1>12 DEF RequestsInv, StreamTypeOK
  <2>3. BytesAreSent'
    BY <1>2, <1>3, <1>4, <1>8, <1>9, EmptySeq DEF BytesAreSent
  <2>4. fin' \in {"no", "sent", "arrived"}
    BY <1>2 DEF RequestsInv, StreamTypeOK
  <2>5. byteRead' \in -1..Header /\ Len(got') <= Header
    BY <1>2, SizeIs
  <2> QED
    BY <1>2, <1>14, <2>1, <2>2, <2>3, <2>4, <2>5 DEF StreamTypeOK
<1>16. ASSUME ~cut PROVE Whole'
  <2>1. Whole
    BY <1>16 DEF RequestsInv
  <2> DEFINE done == Size * Len(acted)
  <2>2. /\ done \in Nat /\ byteRead = 2 /\ Len(got) = 2 /\ byteToRead % Size = 0
        /\ byteToRead \in 0..(2 + Len(sock)) /\ byteToRead > 0
    BY <1>2, <1>4, <2>1, SizeIs DEF Whole, CountIsWhole
  <2>3. byteToRead >= Size /\ (byteToRead - Size) % Size = 0 /\ byteToRead \in Nat
    BY <1>4, <2>2, StreamArithmetic
  <2>4. got[1] = [req |-> Len(acted) + 1, at |-> 1]
    <3>1. 1 \in DOMAIN got /\ 1 \in 1..Size
      BY <1>4, <2>2, SizeIs
    <3>2. got[1] = Byte(done + 1)
      BY <2>1, <3>1 DEF Whole, StreamIsWhole, From
    <3> QED
      BY <1>4, <3>1, <3>2, ByteAt
  <2>5. len = Size - 2 /\ len = BodyLength(program)
    BY <2>2, <2>4, SizeIs DEF BodyLengths
  <2>6. n = len /\ n = Size - 2
    <3>1. len <= Len(sock)
      BY <1>4, <1>s, <2>2, <2>3, <2>5
    <3> QED
      BY <1>6, <2>5, <3>1
  <2>7. body = len
    BY <1>5, <1>12, <2>6
  <2>8. ~(byteRead + body < 0) /\ ~(byteRead + body < len) /\ byteRead + body = Size
    BY <1>5, <2>2, <2>5, <2>7
  <2>9. Processes(msg)
    BY <1>1, <2>8 DEF n, body, msg, first, Taken
  <2>10. Meant(msg) = Len(acted) + 1 /\ msg # <<>> /\ Meant(msg) # Garbled
    <3>1. Len(msg) = Size /\ msg[1] = got[1] /\ msg # <<>>
      <4>1. Len(msg) = Size /\ msg[1] = got[1]
        BY <1>11, <1>s, <2>2, <2>6
      <4> QED
        BY <1>11, <1>s, <4>1, EmptySeq
    <3>2. Meant(msg) = Len(acted) + 1
      BY <2>4, <3>1, SizeIs DEF Meant
    <3> QED
      BY <1>4, <3>1, <3>2, SizeIs
  <2>11. acted' = Append(acted, Len(acted) + 1) /\ gw' = "header"
    BY <2>9, <2>10 DEF Processes
  <2>12. /\ Len(acted') = Len(acted) + 1 /\ acted'[Len(acted) + 1] = Len(acted) + 1
         /\ \A i \in 1..Len(acted) : acted'[i] = acted[i]
         /\ DOMAIN acted' = 1..(Len(acted) + 1) /\ DOMAIN acted = 1..Len(acted)
    <3>1. acted \in Seq(Nat) /\ Len(acted) + 1 \in Nat
      BY <1>4, SeqMonotonic, RequestsAssumption
    <3> QED
      BY <2>11, <3>1, AppendProperties, LenProperties
  <2>13. \A i \in DOMAIN acted' : acted'[i] = i
    BY <1>4, <2>1, <2>12 DEF Whole
  <2>14. done' = done + Size /\ Len(got') = 0 /\ Len(sock') = Len(sock) - (Size - 2)
    BY <1>2, <1>3, <1>4, <1>8, <1>9, <2>6, <2>12, StreamArithmetic
  <2>15. /\ \A k \in 1..Len(sock) : sock[k] = Byte(done + 2 + k)
         /\ From(upLine, done + 2 + Len(sock))
         /\ done + 2 + Len(sock) + Len(upLine) = Size * Len(asked)
    BY <1>4, <2>1, <2>2 DEF Whole, StreamIsWhole, From
  <2> HIDE DEF done
  <2>16. From(got, done)'
    BY <1>2 DEF From
  <2>17. From(sock, done + Len(got))'
    <3> SUFFICES ASSUME NEW k \in 1..(Len(sock) - (Size - 2)) PROVE rest[k] = Byte(done + Size + k)
      BY <1>2, <1>3, <1>8, <1>9, <2>2, <2>6, <2>14, LenProperties, SizeIs, SMTT(20) DEF From
    <3>1. n + k \in 1..Len(sock) /\ done + 2 + (n + k) = done + Size + k
      BY <1>4, <1>s, <2>2, <2>6
    <3>2. rest[k] = sock[n + k]
      BY <1>8, <2>6
    <3> QED
      BY <2>15, <3>1, <3>2
  <2>18. done' + Len(got') + Len(sock') = done + 2 + Len(sock)
    BY <1>4, <2>2, <2>14, SizeIs, SMTT(20)
  <2>19. From(upLine, done + Len(got) + Len(sock))'
    BY <1>2, <1>3, <2>15, <2>18 DEF From
  <2>20. StreamIsWhole'
    BY <1>2, <1>3, <2>15, <2>16, <2>17, <2>18, <2>19 DEF StreamIsWhole, done
  <2>21. CountIsWhole'
    <3>1. byteToRead' = byteToRead - Size
      BY <1>9, <2>8
    <3>2. byteToRead' \in 0..(Len(got') + Len(sock'))
      BY <1>4, <1>s, <2>2, <2>3, <2>14, <3>1
    <3> QED
      BY <1>3, <2>3, <2>11, <3>1, <3>2 DEF CountIsWhole
  <2> QED
    BY <2>11, <2>13, <2>20, <2>21 DEF Whole
<1> QED
  BY <1>2, <1>15, <1>16 DEF RequestsInv

\* Every step keeps the stream.
LEMMA RequestsStep ==
    ASSUME RequestsInv, MainTypeOK, MainTypeOK', ClNext PROVE RequestsInv'
<1>1. CASE Send
  BY <1>1, SendStep
<1>2. CASE BytesArrive
  BY <1>2, ArriveStep
<1>3. CASE Counts
  BY <1>3, CountsStep
<1>4. CASE ReadsHeader
  BY <1>4, HeaderStep
<1>5. CASE ReadsBody
  BY <1>5, BodyStep
<1>6. CASE Polls \/ ReadsDone \/ Stops \/ EndArrives
  BY <1>6, QuietGatewayStep
<1>7. CASE \/ Connect \/ SendFails \/ Pause \/ Leave \/ Key
           \/ RxRuns \/ HandleRuns \/ WakesUp \/ HandleForeign \/ Replies
  <2>1. /\ UNCHANGED <<program, asked, upLine, sock, gateway>>
        /\ fin' = fin \/ fin' = "sent"
    <3>1. CASE Connect \/ SendFails \/ Pause \/ HandleForeign
      BY <3>1 DEF Connect, SendFails, Pause, HandleForeign, stream
    <3>2. CASE Leave \/ Key
      BY <3>2 DEF Leave, Key, CloseAndExit
    <3>3. CASE RxRuns \/ HandleRuns \/ WakesUp \/ Replies
      BY <3>3 DEF RxRuns, HandleRuns, WakesUp, Replies, stream, mainVars
    <3> QED
      BY <1>7, <3>1, <3>2, <3>3
  <2>2. UNCHANGED <<gw, hup, byteToRead, got, byteRead, acted, cut>>
    BY <2>1 DEF gateway
  <2>3. Bytes' = Bytes
    BY <2>1 DEF Bytes, Size, BodyLength
  <2>4. hup' \in BOOLEAN /\ cut' \in BOOLEAN
    BY <2>2 DEF RequestsInv, StreamTypeOK
  <2>5. StreamTypeOK'
    BY <2>1, <2>2, <2>3, <2>4 DEF RequestsInv, StreamTypeOK, BytesAreSent
  <2> QED
    BY <2>1, <2>2, <2>5, QuietStep
<1> QED
  BY <1>1, <1>2, <1>3, <1>4, <1>5, <1>6, <1>7 DEF ClNext, Main, Gateway

-----------------------------------------------------------------------------
(* The theorems. *)

ClInv == ThreadsInv /\ MainTypeOK /\ CounterCounts /\ RequestsInv

\* A gateway that has ended does not come back.
LEMMA ConnectionStaysClosed ==
    ASSUME ThreadsStep PROVE open' => open
<1>1. CASE Next
  BY <1>1 DEF Next, GatewaySends, GatewayCloses, RxThread, RxReceive, RxShort, RxClosed, RxMove,
              RxUnlock, RxSignal, HandleThread, HandleStarts, HandleLocks, HandleMessage,
              HandleFreed, HandleWaits, Spurious, wire
<1>2. CASE ~Next
  BY <1>2 DEF ThreadsStep, vars, wire
<1> QED
  BY <1>1, <1>2

\* A program starts with no request made, and a gateway that waits for one.
LEMMA ClInvInit == ClInit => ClInv
<1> SUFFICES ASSUME ClInit PROVE ClInv
  OBVIOUS
<1>1. ThreadsInv
  BY ThreadsInvInit DEF ClInit
<1>2. MainTypeOK
  <2>1. asked \in Seq({"devices", "on", "off", "join"}) /\ Len(asked) = 0
    BY EmptySeq DEF ClInit
  <2>2. loops \in 0..(Word - 1)
    BY WordAssumption DEF ClInit
  <2>3. connected \in BOOLEAN
    BY DEF ClInit
  <2> QED
    BY <2>1, <2>2, <2>3, RequestsAssumption DEF ClInit, MainTypeOK
<1>3. CounterCounts
  BY DEF ClInit, CounterCounts
<1>4. StreamTypeOK
  <2>1. hup \in BOOLEAN /\ cut \in BOOLEAN
    BY DEF ClInit
  <2> QED
    BY <2>1, EmptySeq, SizeIs DEF ClInit, StreamTypeOK, BytesAreSent
<1>5. Whole
  <2>1. Len(acted) = 0 /\ Len(asked) = 0 /\ Size * 0 = 0 /\ 0 % Size = 0
    BY SizeIs DEF ClInit
  <2>2. StreamIsWhole
    BY <2>1 DEF ClInit, StreamIsWhole, From
  <2>3. CountIsWhole
    BY <2>1 DEF ClInit, CountIsWhole
  <2> QED
    BY <2>2, <2>3 DEF ClInit, Whole
<1> QED
  BY <1>1, <1>2, <1>3, <1>4, <1>5 DEF ClInv, RequestsInv

\* Every step of the program, its threads and the gateway keeps the invariant.
LEMMA ClInvStep ==
    ASSUME ClInv, [ClNext]_clVars
    PROVE  ClInv' /\ MainStep /\ (open' => open)
<1>1. CASE ClNext
  <2>1. ThreadsStep /\ MainStep
    BY <1>1, StepIsThreadsStep, StepIsMainStep
  <2>2. ThreadsInv' /\ MainTypeOK' /\ (open' => open)
    BY <2>1, ThreadsInvStep, MainTypeStep, ConnectionStaysClosed DEF ClInv
  <2>3. CounterCounts'
    BY <2>1, <2>2, CounterCountsStep DEF ClInv
  <2>4. RequestsInv'
    BY <1>1, <2>2, RequestsStep DEF ClInv
  <2> QED
    BY <2>1, <2>2, <2>3, <2>4 DEF ClInv
<1>2. CASE UNCHANGED clVars
  <2>1. ThreadsStep /\ MainStep
    BY <1>2 DEF clVars, ThreadsStep, MainStep
  <2>2. ThreadsInv' /\ MainTypeOK' /\ (open' => open)
    BY <2>1, ThreadsInvStep, MainTypeStep, ConnectionStaysClosed DEF ClInv
  <2>3. CounterCounts'
    BY <2>1, <2>2, CounterCountsStep DEF ClInv
  <2>4. /\ UNCHANGED <<program, asked, fin, upLine, sock, gw, hup, byteToRead, got, byteRead,
                       acted, cut>>
    BY <1>2 DEF clVars, mainVars, stream, gateway
  <2>5. Bytes' = Bytes
    BY <2>4 DEF Bytes, Size, BodyLength
  <2>6. hup' \in BOOLEAN /\ cut' \in BOOLEAN
    BY <2>4 DEF ClInv, RequestsInv, StreamTypeOK
  <2>7. StreamTypeOK'
    BY <2>4, <2>5, <2>6 DEF ClInv, RequestsInv, StreamTypeOK, BytesAreSent
  <2>8. RequestsInv'
    BY <2>4, <2>7, QuietStep DEF ClInv
  <2> QED
    BY <2>1, <2>2, <2>3, <2>8 DEF ClInv
<1> QED
  BY <1>1, <1>2

\* The invariant of a program with its threads and its connection.
THEOREM ClInvariant == ClSpec => []ClInv
<1>1. ClInv /\ [ClNext]_clVars => ClInv'
  BY ClInvStep
<1> QED
  BY ClInvInit, <1>1, PTL DEF ClSpec

\* What the invariant says of the types.
LEMMA ClTypeImplied == ClInv => ClTypeOK
<1> SUFFICES ASSUME ClInv PROVE ClTypeOK
  OBVIOUS
<1>1. TypeOK /\ MainTypeOK /\ StreamTypeOK
  BY DEF ClInv, ThreadsInv, RequestsInv
<1>2. \A b \in ToSet(sock \o upLine) : b.req \in DOMAIN asked
  <2>1. sock \in Seq(Bytes) /\ upLine \in Seq(Bytes)
    BY <1>1 DEF StreamTypeOK, BytesAreSent
  <2>2. sock \o upLine \in Seq(Bytes)
    BY <2>1, ConcatProperties
  <2>3. \A i \in DOMAIN (sock \o upLine) : (sock \o upLine)[i] \in Bytes
    BY <2>2, ElementOfSeq, LenProperties
  <2> QED
    BY <2>3 DEF ToSet, Bytes
<1>3. ~cut => byteToRead \in 0..(Size * MaxRequests)
  <2> SUFFICES ASSUME ~cut PROVE byteToRead \in 0..(Size * MaxRequests)
    OBVIOUS
  <2>1. Whole
    BY DEF ClInv, RequestsInv
  <2>2. Size * Len(asked) <= Size * MaxRequests /\ Size * MaxRequests \in Nat
    <3>1. Len(asked) \in 0..MaxRequests
      BY <1>1 DEF MainTypeOK
    <3> QED
      BY <3>1, RequestsAssumption, StreamArithmetic
  <2>3. /\ Size * Len(acted) \in Nat /\ Len(got) \in Nat /\ Len(sock) \in Nat
        /\ Len(upLine) \in Nat
    BY <1>1, StreamLengths
  <2>4. Size * Len(acted) + Len(got) + Len(sock) + Len(upLine) = Size * Len(asked)
    BY <2>1 DEF Whole, StreamIsWhole
  <2>5. byteToRead \in 0..(Len(got) + Len(sock))
    BY <2>1 DEF Whole, CountIsWhole
  <2>6. Size * Len(asked) \in Nat
    BY <1>1, StreamArithmetic DEF MainTypeOK
  <2> QED
    BY <2>2, <2>3, <2>4, <2>5, <2>6
<1>4. /\ connected \in BOOLEAN /\ hup \in BOOLEAN /\ cut \in BOOLEAN
  BY <1>1 DEF MainTypeOK, StreamTypeOK
<1> QED
  BY <1>1, <1>2, <1>3, <1>4 DEF ClTypeOK, MainTypeOK, StreamTypeOK

\* The state of the programs always has its types; the bytes counted are never
\* more than were sent, nor negative, until a request was cut.
THEOREM ClTypeCorrect == ClSpec => []ClTypeOK
BY ClInvariant, ClTypeImplied, PTL

\* No list is moved over while the handle thread walks one, as long as no message
\* was cut (socket_client.c:360, :524).
THEOREM ListsAreExclusive == ClSpec => []ListIsExclusive
<1>1. ClInv => ListIsExclusive
  BY DEF ClInv, ThreadsInv, MutexIsHeld, ListIsExclusive
<1> QED
  BY <1>1, ClInvariant, PTL

\* The callback gets the messages in their order and each at most once, although
\* lists are handed over that are not finished and cells are reused.
THEOREM MessagesInOrder == ClSpec => []HandledInOrder
<1>1. ClInv => HandledInOrder
  BY DEF ClInv, ThreadsInv
<1> QED
  BY <1>1, ClInvariant, PTL

\* The gateway cuts the stream into the requests that were made, however they
\* are spread over rounds and reads (interface_srpcserver.c:1461-1497).
THEOREM RequestsAreCutRight == ClSpec => []ActedAsAsked
<1>1. ClInv => ActedAsAsked
  BY DEF ClInv, RequestsInv, Whole, ActedAsAsked
<1> QED
  BY <1>1, ClInvariant, PTL

\* flashLed switches as often as it is told, on and off in turn; the hypothesis is
\* that its optional argument is 0 or 1: with another it compares unequal always
\* and only switches off (flashled.c:122).
THEOREM FlashLedFlashes ==
    ASSUME StartWith \in {0, 1}
    PROVE  ClSpec => []FlashesAsTold
<1>1. ClInit => ClInv /\ NextAlternates
  <2>1. ClInit => NextAlternates
    BY DEF ClInit, NextAlternates
  <2> QED
    BY <2>1, ClInvInit
<1>2. (ClInv /\ NextAlternates) /\ [ClNext]_clVars => (ClInv /\ NextAlternates)'
  <2> SUFFICES ASSUME ClInv, NextAlternates, [ClNext]_clVars PROVE ClInv' /\ NextAlternates'
    OBVIOUS
  <2>1. ClInv' /\ MainStep /\ (open' => open)
    BY ClInvStep
  <2> QED
    BY <2>1, NextAlternatesStep DEF ClInv
<1>3. ClInv /\ NextAlternates => FlashesAsTold
  BY FlashesImplied DEF ClInv
<1> QED
  BY <1>1, <1>2, <1>3, PTL DEF ClSpec
=============================================================================
