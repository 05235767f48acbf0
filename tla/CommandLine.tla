---------------------------- MODULE CommandLine ----------------------------
(***************************************************************************)
(* The command line programs listDevs, flashLed and openNetwork: the main  *)
(* thread of each, over the two threads of the client library, and the     *)
(* gateway's end of the connection, which cuts the byte stream into        *)
(* requests again (SRPC_RxCB of interface_srpcserver.c).                   *)
(*                                                                         *)
(* A request is a header, command and length of the body, and a body, whose*)
(* last two bytes the programs count but do not set.  A byte knows which   *)
(* byte of which request it is.  The gateway counts what has arrived, and  *)
(* then reads a header and a body as often as that count takes.            *)
(***************************************************************************)
EXTENDS SocketClient, Integers

CONSTANTS Programs,    \* of "listDevs", "flashLed", "openNetwork"
          Word,        \* 2^16: the values of flashLed's loop counter
          Loops,       \* values of its argument
          StartWith,   \* its optional argument: 0, or 1
          MaxRequests  \* bound: requests of a program

ASSUME ProgramsAssumption == Programs \subseteq {"listDevs", "flashLed", "openNetwork"}
ASSUME WordAssumption == Word \in Nat \ {0, 1} /\ Loops \subseteq 0..(Word - 1) /\ StartWith \in Nat
ASSUME RequestsAssumption == MaxRequests \in Nat

VARIABLES program, main,   \* the program, and what its main thread does next
          arg, loops,      \* flashLed: its argument and its counter
          connected,
          asked,           \* what each request asks for
          upLine,          \* bytes under way to the gateway
          fin,             \* the end of the stream: "no", "sent" or "arrived"
          sock,            \* bytes that have arrived
          gw,              \* what the gateway does next with this client
          hup,             \* POLLRDHUP was among the events
          byteToRead, got, \* SRPC_RxCB: bytes counted, message so far
          byteRead,        \* the result of reading the header
          acted,           \* history: requests carried out, 0 for a garbled one
          cut              \* history: the bytes counted ended inside a request

mainVars == <<program, main, arg, loops, connected, asked>>
stream == <<upLine, fin, sock>>
gateway == <<gw, hup, byteToRead, got, byteRead, acted, cut>>
clVars == <<vars, mainVars, stream, gateway>>

Header == 2
Pad == 2
BodyLength(p) == IF p = "listDevs" THEN 0 ELSE 1 + Pad
Size == Header + BodyLength(program)

Request(n) == [k \in 1..Size |-> [req |-> n, at |-> k]]

ClTypeOK ==
    /\ TypeOK
    /\ program \in Programs
    /\ main \in {"connect", "send", "wait", "ended", "failed", "stuck", "wild"}
    /\ arg \in Loops /\ loops \in 0..(Word - 1)
    /\ connected \in BOOLEAN
    /\ asked \in Seq({"devices", "on", "off", "join"}) /\ Len(asked) <= MaxRequests
    /\ \A b \in ToSet(sock \o upLine) : b.req \in DOMAIN asked
    /\ fin \in {"no", "sent", "arrived"}
    /\ gw \in {"poll", "count", "header", "body", "gone", "dead", "stopped"}
    /\ hup \in BOOLEAN /\ cut \in BOOLEAN
    /\ byteToRead \in Int /\ (~cut => byteToRead \in 0..(Size * MaxRequests))
    /\ byteRead \in -1..Header /\ Len(got) <= Header
    /\ acted \in Seq(0..MaxRequests)

ClInit ==
    /\ Init
    /\ program \in Programs /\ main = "connect"
    /\ arg \in Loops /\ (program # "flashLed" => arg = Min(Loops))
    /\ loops = 0 /\ connected = FALSE
    /\ asked = <<>> /\ upLine = <<>> /\ fin = "no" /\ sock = <<>>
    /\ gw = "poll" /\ hup = FALSE
    /\ byteToRead = 0 /\ got = <<>> /\ byteRead = 0
    /\ acted = <<>> /\ cut = FALSE

-----------------------------------------------------------------------------
(* The main threads. *)

\* socketClientInit: its result is not looked at, and the threads are started
\* whether or not there is a connection.  flashLed's counter starts two above
\* its argument, if that is not 0.
Connect ==
    /\ main = "connect"
    /\ connected' \in BOOLEAN
    /\ loops' = IF arg = 0 THEN 0 ELSE (arg + 2) % Word
    /\ main' = "send"
    /\ UNCHANGED <<vars, program, arg, asked, stream, gateway>>

Asks ==
    CASE program = "listDevs" -> "devices"
      [] program = "openNetwork" -> "join"
      [] program = "flashLed" -> IF loops % 2 = StartWith THEN "on" ELSE "off"

Finished == program = "flashLed" /\ loops = 2

Send ==
    /\ main = "send" /\ ~Finished
    /\ connected /\ open
    /\ Len(asked) < MaxRequests
    /\ asked' = Append(asked, Asks)
    /\ upLine' = upLine \o Request(Len(asked'))
    /\ main' = "wait"
    /\ UNCHANGED <<vars, program, arg, loops, connected, fin, sock, gateway>>

\* Without a connection send fails, and the program exits; the first send after
\* the gateway has ended may still succeed.
SendFails ==
    /\ main = "send" /\ ~Finished
    /\ ~(connected /\ open)
    /\ main' \in {"failed"} \cup (IF connected THEN {"wait"} ELSE {})
    /\ UNCHANGED <<vars, program, arg, loops, connected, asked, stream, gateway>>

\* Mutant: flashLed's counter goes down to 0.
NextLoopsDown(n) == IF n > 0 THEN n - 1 ELSE 0

NextLoops(n) == IF n > 1 THEN n - 1 ELSE 1 - n

\* flashLed's pause.
Pause ==
    /\ main = "wait" /\ program = "flashLed"
    /\ main' = "send"
    /\ loops' = NextLoops(loops)
    /\ UNCHANGED <<vars, program, arg, connected, asked, stream, gateway>>

\* socketClientClose destroys the condition the handle thread waits for, which
\* is undefined: the call returns, or waits for that thread for ever.  The
\* process ends with its threads and memory; what they do until then is left out.
CloseAndExit ==
    /\ fin' = "sent"
    /\ main' \in {"ended"} \cup (IF hd = "wait" THEN {"stuck"} ELSE {})
    /\ heap' = [c \in Cell |-> Garbled] /\ live' = {}
    /\ rxBuf' = <<>> /\ rxProcBuf' = <<>> /\ searchList' = <<>>
    /\ mutex' = "free" /\ rx' = "done" /\ hd' = "wait"
    /\ UNCHANGED <<wire, handled, program, arg, loops, connected, asked, upLine, sock, gateway>>

\* flashLed has flashed, or openNetwork has slept for a second.
Leave ==
    /\ \/ main = "send" /\ Finished
       \/ main = "wait" /\ program = "openNetwork"
    /\ CloseAndExit

\* listDevs: "Any key ppress will exit".
Key == main = "wait" /\ program = "listDevs" /\ CloseAndExit

Main == Connect \/ Send \/ SendFails \/ Pause \/ Leave

-----------------------------------------------------------------------------
(* The threads of the library. *)

Running == connected /\ main \in {"send", "wait"}

RxRuns == Running /\ RxThread /\ UNCHANGED <<mainVars, stream, gateway>>
RxMoves == Running /\ RxMove /\ UNCHANGED <<mainVars, stream, gateway>>
HandleRuns == Running /\ HandleThread /\ UNCHANGED <<mainVars, stream, gateway>>

\* Bound: not in the programs that do nothing with messages.
WakesUp ==
    /\ Running /\ program = "listDevs"
    /\ Spurious
    /\ UNCHANGED <<mainVars, stream, gateway>>

\* Fault "foreign": listDevs has handlers for two commands and takes the handler
\* of any other one from behind its table.
HandleForeign ==
    /\ "foreign" \in Faults
    /\ Running /\ program = "listDevs"
    /\ hd = "walk" /\ searchList # <<>>
    /\ main' = "wild"
    /\ UNCHANGED <<vars, program, arg, loops, connected, asked, stream, gateway>>

-----------------------------------------------------------------------------
(* The connection. *)

\* Fault "pieces": not only whole requests arrive; bound: until one was cut.
BytesArrive ==
    /\ \E k \in DOMAIN upLine :
         /\ upLine[k].at = Size \/ ("pieces" \in Faults /\ ~cut)
         /\ sock' = sock \o SubSeq(upLine, 1, k)
         /\ upLine' = SubSeq(upLine, k + 1, Len(upLine))
    /\ UNCHANGED <<vars, mainVars, fin, gateway>>

EndArrives ==
    /\ fin = "sent" /\ upLine = <<>>
    /\ fin' = "arrived"
    /\ UNCHANGED <<vars, mainVars, upLine, sock, gateway>>

-----------------------------------------------------------------------------
(* The gateway. *)

\* Device messages to listDevs, after its request or broadcast later; the other
\* programs do nothing with messages.
Replies ==
    /\ Running
    /\ program = "listDevs" /\ gw = "poll" /\ acted # <<>>
    /\ GatewaySends
    /\ UNCHANGED <<mainVars, stream, gateway>>

\* Another client makes the gateway exit.
Stops ==
    /\ Running /\ gw = "poll"
    /\ GatewayCloses
    /\ gw' = "stopped"
    /\ UNCHANGED <<mainVars, stream, hup, byteToRead, got, byteRead, acted, cut>>

\* Mutant: the client is removed before it is read.
PollsDropping ==
    /\ gw = "poll" /\ connected
    /\ sock # <<>> \/ fin = "arrived"
    /\ hup' = (fin = "arrived")
    /\ gw' = IF hup' THEN "gone" ELSE "count"
    /\ UNCHANGED <<vars, mainVars, stream, byteToRead, got, byteRead, acted, cut>>

Polls ==
    /\ gw = "poll" /\ connected
    /\ sock # <<>> \/ fin = "arrived"
    /\ hup' = (fin = "arrived")
    /\ gw' = "count"
    /\ UNCHANGED <<vars, mainVars, stream, byteToRead, got, byteRead, acted, cut>>

\* FIONREAD.
Counts ==
    /\ gw = "count"
    /\ byteToRead' = Len(sock)
    /\ cut' = (cut \/ (sock # <<>> /\ Last(sock).at # Size))
    /\ gw' = "header"
    /\ UNCHANGED <<vars, mainVars, stream, hup, got, byteRead, acted>>

\* The socket does not block: nothing to read is -1, the end of the stream 0.
Result(n) == IF n > 0 THEN n ELSE IF fin = "arrived" THEN 0 ELSE -1

ReadsHeader ==
    /\ gw = "header" /\ byteToRead # 0
    /\ LET n == Min({Header, Len(sock)}) IN
         /\ got' = SubSeq(sock, 1, n)
         /\ sock' = SubSeq(sock, n + 1, Len(sock))
         /\ byteRead' = Result(n)
    /\ gw' = "body"
    /\ UNCHANGED <<vars, mainVars, upLine, fin, hup, byteToRead, acted, cut>>

\* Mutant: the header is not counted.
TakenBody(head, body) == body

Taken(head, body) == head + body

\* A header that is not there in full reads as length 0; one taken from other
\* bytes has any length.
BodyLengths ==
    IF byteRead < Header THEN {0}
    ELSE IF got[1].at = 1 THEN {BodyLength(program)} ELSE 0..(1 + Pad)

\* A request that starts at its start and has its last meaningful byte.
Meant(msg) ==
    IF msg[1].at = 1 /\ Len(msg) >= (IF program = "listDevs" THEN 1 ELSE Header + 1)
    THEN msg[1].req ELSE Garbled

\* Nothing read is command 0, close, without its magic number.  A garbled
\* request may do anything, or end the gateway.
Processes(msg) ==
    IF msg = <<>> THEN UNCHANGED <<acted, open>> /\ gw' = "header"
    ELSE IF Meant(msg) # Garbled
      THEN acted' = Append(acted, Meant(msg)) /\ UNCHANGED open /\ gw' = "header"
    ELSE \/ acted' = Append(acted, Garbled) /\ UNCHANGED open /\ gw' = "header"
         \/ UNCHANGED acted /\ open' = FALSE /\ gw' = "dead"

\* A failed read and a message with more than the header missing end the gateway.
ReadsBody ==
    /\ gw = "body"
    /\ \E len \in BodyLengths :
         LET n == Min({len, Len(sock)})
             body == IF len = 0 THEN 0 ELSE Result(n)
             total == Taken(byteRead, body)
         IN /\ byteToRead' = byteToRead - total
            /\ sock' = SubSeq(sock, n + 1, Len(sock))
            /\ IF total < 0 \/ total < len
                 THEN gw' = "dead" /\ open' = FALSE /\ UNCHANGED acted
                 ELSE Processes(got \o SubSeq(sock, 1, n))
    /\ got' = <<>> /\ byteRead' = 0
    /\ UNCHANGED <<mainVars, upLine, fin, hup, cut, sent, taken, aligned, memory, rxBuf,
                   rxProcBuf, mutex, rx, hd, searchList, handled>>

ReadsDone ==
    /\ gw = "header" /\ byteToRead = 0
    /\ gw' = IF hup THEN "gone" ELSE "poll"
    /\ UNCHANGED <<vars, mainVars, stream, hup, byteToRead, got, byteRead, acted, cut>>

Gateway == Polls \/ Counts \/ ReadsHeader \/ ReadsBody \/ ReadsDone

ClNext ==
    \/ Main \/ Key
    \/ RxRuns \/ HandleRuns \/ WakesUp \/ HandleForeign
    \/ BytesArrive \/ EndArrives
    \/ Replies \/ Stops \/ Gateway

\* The threads of the program and the gateway run; what was sent arrives.  A
\* thread that waits for the mutex gets it when it is free again and again,
\* which unlocking a mutex others wait for ensures on Linux by waking one.
ClSpec ==
    /\ ClInit /\ [][ClNext]_clVars
    /\ WF_clVars(Main) /\ WF_clVars(RxRuns) /\ WF_clVars(HandleRuns) /\ SF_clVars(RxMoves)
    /\ WF_clVars(BytesArrive) /\ WF_clVars(EndArrives) /\ WF_clVars(Gateway)
-----------------------------------------------------------------------------
(* Correctness. *)

\* However requests are spread over rounds, reads and the end of the stream, the
\* gateway carries out what was asked, in order and once, and goes on, unless
\* it counted bytes while a request was arriving (interface_srpcserver.c:1488).
ActedAsAsked ==
    ~cut => /\ gw # "dead"
            /\ \A i \in DOMAIN acted : acted[i] = i

\* A program that has sent its request and closed at once has still made it.
RequestsAreCarriedOut ==
    \A n \in 1..MaxRequests :
       Len(asked) >= n ~> n \in ToSet(acted) \/ cut \/ gw = "stopped"

\* flashLed switches as often as it is told, on and off in turn, although its
\* counter counts down to 2 or, "for ever if loops = 0" (flashled.c:118), is
\* toggled; it never ends for an argument whose counter wraps.
FlashesAsTold ==
    program = "flashLed" =>
      /\ \A i \in 1..(Len(asked) - 1) : asked[i] # asked[i + 1]
      /\ main \in {"ended", "stuck"} =>
           /\ arg \in 1..(Word - 3)
           /\ open => Len(asked) = arg

\* A message that arrives whole with the handle thread running is handled,
\* unless another one overtakes it or the program ends: its signal is not lost.
\* Before the thread has started, it is.
NewestIsHandled ==
    \A m \in Message :
       aligned /\ rx = "lock" /\ taken = m /\ hd # "start"
         ~> m \in ToSet(handled) \/ taken > m \/ hd = "wild" \/ ~Running
=============================================================================
