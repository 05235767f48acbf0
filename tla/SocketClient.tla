---------------------------- MODULE SocketClient ----------------------------
(***************************************************************************)
(* The two threads of the C client library, client/CClients/Source/        *)
(* socket_client.c.  The receive thread reads a message from the gateway,  *)
(* puts it into a cell of the heap, moves its list over to the handle      *)
(* thread and signals; the handle thread waits for a signal, gives each    *)
(* message of the list to the program's callback and frees its cell.       *)
(*                                                                         *)
(* One action per statement that locks, unlocks, waits, signals, allocates *)
(* or frees.  Using a cell that has been freed is undefined, and so is     *)
(* what the process does from there on: both threads are "wild".           *)
(***************************************************************************)
EXTENDS Naturals, Sequences, SequencesExt

CONSTANTS Cell,         \* what malloc hands out
          MaxMessages,  \* bound: messages the gateway sends
          Faults        \* of "short" and "spurious", see RxShort and Spurious

ASSUME MessagesAssumption == MaxMessages \in Nat

VARIABLES sent,       \* messages the gateway has sent: 1..sent, in this order
          taken,      \* those the receive thread has read from the socket
          aligned,    \* it reads at a message boundary
          open,       \* the gateway has not closed the connection
          heap,       \* what the cells hold
          live,       \* the cells that are allocated
          rxBuf,      \* the list of the receive thread
          rxProcBuf,  \* the list moved over for the handle thread
          mutex,      \* who holds clientRxMutex
          rx,         \* what the receive thread does next
          hd,         \* what the handle thread does next
          searchList, \* what is left of the list the handle thread walks
          handled     \* history: the messages the callback got

wire == <<sent, taken, aligned, open>>
memory == <<heap, live>>
vars == <<wire, memory, rxBuf, rxProcBuf, mutex, rx, hd, searchList, handled>>

Garbled == 0     \* a message made of other messages' bytes
Message == 1..MaxMessages

TypeOK ==
    /\ sent \in 0..MaxMessages
    /\ taken \in 0..sent
    /\ aligned \in BOOLEAN /\ open \in BOOLEAN
    /\ heap \in [Cell -> Message \cup {Garbled}]
    /\ live \subseteq Cell
    /\ rxBuf \in Seq(Cell) /\ rxProcBuf \in Seq(Cell) /\ searchList \in Seq(Cell)
    /\ mutex \in {"free", "rx", "handle"}
    /\ rx \in {"poll", "lock", "move", "signal", "done", "wild"}
    /\ hd \in {"start", "wait", "woken", "walk", "wild"}
    /\ handled \in Seq(Message \cup {Garbled})

Init ==
    /\ sent = 0 /\ taken = 0 /\ aligned = TRUE /\ open = TRUE
    /\ heap = [c \in Cell |-> Garbled]
    /\ live = {}
    /\ rxBuf = <<>> /\ rxProcBuf = <<>> /\ searchList = <<>>
    /\ mutex = "free"
    /\ rx = "poll"
    /\ hd = "start"
    /\ handled = <<>>

-----------------------------------------------------------------------------
(* The gateway. *)

GatewaySends ==
    /\ open /\ sent < MaxMessages
    /\ sent' = sent + 1
    /\ UNCHANGED <<taken, aligned, open, memory, rxBuf, rxProcBuf, mutex, rx, hd,
                   searchList, handled>>

GatewayCloses ==
    /\ open
    /\ open' = FALSE
    /\ UNCHANGED <<sent, taken, aligned, memory, rxBuf, rxProcBuf, mutex, rx, hd,
                   searchList, handled>>

-----------------------------------------------------------------------------
(* rxThreadFunc. *)

\* Mutant: the end of the stream is taken for a message.
RxReceiveAtEnd ==
    /\ rx = "poll" /\ (taken < sent \/ ~open)
    /\ taken' = taken + 1
    /\ \E c \in Cell \ live :
         /\ heap' = [heap EXCEPT ![c] = IF aligned THEN taken' ELSE Garbled]
         /\ live' = live \cup {c}
         /\ rxBuf' = Append(rxBuf, c)
    /\ rx' = "lock"
    /\ UNCHANGED <<sent, aligned, open, rxProcBuf, mutex, hd, searchList, handled>>

\* The header and the whole body are there.  Past a message boundary, what is
\* read is garbled; bound: as many garbled messages as there were whole ones.
RxReceive ==
    /\ rx = "poll" /\ taken < sent
    /\ taken' = taken + 1
    /\ \E c \in Cell \ live :
         /\ heap' = [heap EXCEPT ![c] = IF aligned THEN taken' ELSE Garbled]
         /\ live' = live \cup {c}
         /\ rxBuf' = Append(rxBuf, c)
    /\ rx' = "lock"
    /\ UNCHANGED <<sent, aligned, open, rxProcBuf, mutex, hd, searchList, handled>>

\* Fault "short": the message arrives in pieces.  With half a header nothing
\* happens; with part of a body the mutex, which this thread does not hold, is
\* unlocked.  Either way the rest is taken for a header.
RxShort ==
    /\ "short" \in Faults
    /\ rx = "poll" /\ taken < sent
    /\ taken' = taken + 1
    /\ aligned' = FALSE
    /\ mutex' \in {mutex, "free"}
    /\ UNCHANGED <<sent, open, memory, rxBuf, rxProcBuf, rx, hd, searchList, handled>>

RxClosed ==
    /\ rx = "poll" /\ taken = sent /\ ~open
    /\ rx' = "done"
    /\ UNCHANGED <<wire, memory, rxBuf, rxProcBuf, mutex, hd, searchList, handled>>

\* Mutants: the lock is not waited for; the new list goes before the old one.
NeverLocked == TRUE

NewestFirst == rxBuf \o rxProcBuf

Unlocked == mutex = "free"

MovedList == rxBuf

RxMove ==
    /\ rx = "lock" /\ Unlocked
    /\ mutex' = "rx"
    /\ rxProcBuf' = MovedList
    /\ rxBuf' = <<>>
    /\ rx' = "move"
    /\ UNCHANGED <<wire, memory, hd, searchList, handled>>

RxUnlock ==
    /\ rx = "move"
    /\ mutex' = "free"
    /\ rx' = "signal"
    /\ UNCHANGED <<wire, memory, rxBuf, rxProcBuf, hd, searchList, handled>>

\* Mutant: the thread that is woken goes back to waiting.
SignalNobody ==
    /\ rx = "signal"
    /\ rx' = "poll"
    /\ UNCHANGED <<wire, memory, rxBuf, rxProcBuf, mutex, hd, searchList, handled>>

\* The signal wakes the handle thread if it waits, and is lost otherwise.
RxSignal ==
    /\ rx = "signal"
    /\ hd' = IF hd = "wait" THEN "woken" ELSE hd
    /\ rx' = "poll"
    /\ UNCHANGED <<wire, memory, rxBuf, rxProcBuf, mutex, searchList, handled>>

-----------------------------------------------------------------------------
(* handleThreadFunc. *)

\* Its first lock, which the first wait releases.
HandleStarts ==
    /\ hd = "start" /\ Unlocked
    /\ hd' = "wait"
    /\ UNCHANGED <<wire, memory, rxBuf, rxProcBuf, mutex, rx, searchList, handled>>

\* Fault "spurious": pthread_cond_wait may return without a signal.
Spurious ==
    /\ "spurious" \in Faults
    /\ hd = "wait"
    /\ hd' = "woken"
    /\ UNCHANGED <<wire, memory, rxBuf, rxProcBuf, mutex, rx, searchList, handled>>

HandleLocks ==
    /\ hd = "woken" /\ Unlocked
    /\ mutex' = "handle"
    /\ searchList' = rxProcBuf
    /\ hd' = "walk"
    /\ UNCHANGED <<wire, memory, rxBuf, rxProcBuf, rx, handled>>

\* The callback gets the message, the cell is freed; rxProcBuf still points
\* to it.
HandleMessage ==
    /\ hd = "walk" /\ searchList # <<>>
    /\ Head(searchList) \in live
    /\ handled' = Append(handled, heap[Head(searchList)])
    /\ live' = live \ {Head(searchList)}
    /\ searchList' = Tail(searchList)
    /\ UNCHANGED <<wire, heap, rxBuf, rxProcBuf, mutex, rx, hd>>

HandleFreed ==
    /\ hd = "walk" /\ searchList # <<>>
    /\ Head(searchList) \notin live
    /\ hd' = "wild"
    /\ rx' = "wild"
    /\ UNCHANGED <<wire, memory, rxBuf, rxProcBuf, mutex, searchList, handled>>

HandleWaits ==
    /\ hd = "walk" /\ searchList = <<>>
    /\ mutex' = "free"
    /\ hd' = "wait"
    /\ UNCHANGED <<wire, memory, rxBuf, rxProcBuf, rx, searchList, handled>>

-----------------------------------------------------------------------------
RxThread == RxReceive \/ RxShort \/ RxClosed \/ RxMove \/ RxUnlock \/ RxSignal

HandleThread == HandleStarts \/ HandleLocks \/ HandleMessage \/ HandleFreed \/ HandleWaits

Next == GatewaySends \/ GatewayCloses \/ RxThread \/ HandleThread \/ Spurious

\* Fairness is stated where the program is added that has the threads.
Spec == Init /\ [][Next]_vars
-----------------------------------------------------------------------------
(* Correctness. *)

\* The callback never gets a message after a newer one, nor twice, although
\* lists are handed over that are not finished and cells are reused.
HandledInOrder ==
    \A i, j \in DOMAIN handled :
       i < j /\ handled[j] # Garbled => handled[i] < handled[j]

\* "Walk through all received AREQ messages before releasing MUTEX"
\* (socket_client.c:360): no list is moved over under the handle thread, as
\* long as no message was cut and made the receive thread unlock (:524).
ListIsExclusive == aligned => ~(rx = "move" /\ hd = "walk")

\* "Handle thread must make sure it has finished its list" (:533): when a list
\* is moved over, the one before it has been handled.
ListFinished ==
    [][rx = "lock" /\ rx' = "move" =>
         \A c \in ToSet(rxProcBuf) \ ToSet(rxBuf) : c \notin live]_vars
=============================================================================
