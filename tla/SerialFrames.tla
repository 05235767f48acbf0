---------------------------- MODULE SerialFrames ----------------------------
(***************************************************************************)
(* The serial line from the ZigBee processor: zbSocOpen and zbSocProcessRpc*)
(* of zbSocDriver/zbSocCmd.c.  A frame is a start byte, the length of its  *)
(* data, two command bytes, the data and a checksum that nobody looks at.  *)
(* Bytes arrive one by one; the reader does not block, finds the start of a*)
(* frame, its length, and then whatever is there until the frame is        *)
(* complete or five reads have found nothing.                              *)
(*                                                                         *)
(* Lengths are counted in bytes of Byte values.  What a frame says is left *)
(* out: a byte knows its value and which byte of which frame it is.        *)
(***************************************************************************)
EXTENDS Integers, Sequences, SequencesExt

CONSTANTS Byte,         \* 2^8: values of a byte, and of the length counter
          SOF,          \* MT_RPC_SOF, the start byte: 16#FE
          Lengths,      \* lengths of data the ZigBee processor sends
          Fill,         \* bytes of a body
          MaxRetries,   \* 5
          MaxFrames,    \* bound: frames sent
          EmptyRead     \* "fails" or "zero", see ReadNothing

ASSUME ByteAssumption == Byte \in Nat /\ SOF \in 0..(Byte - 1) /\ Fill \subseteq 0..(Byte - 1)
\* At most 250 bytes, so that a whole body is shorter than a failed read's -1.
ASSUME LengthAssumption == Lengths \subseteq 0..(Byte - 6) \ {SOF}
ASSUME BoundAssumption == MaxRetries \in Nat /\ MaxFrames \in Nat

VARIABLES frames,        \* what the ZigBee processor has sent
          line,          \* bytes under way
          tty,           \* bytes that have arrived
          pc,            \* what the reader does next
          rpcLen,        \* bytes it still expects
          rpcBuff,       \* the body it has so far
          retryAttempts,
          heard,         \* history: the frames that were processed
          lost           \* history: a frame has been given up or missed

vars == <<frames, line, tty, pc, rpcLen, rpcBuff, retryAttempts, heard, lost>>
reader == <<pc, rpcLen, rpcBuff, retryAttempts, heard, lost>>

Garbled == 0
Header == 2      \* start byte and length

\* Frame n with len bytes of data: its body is filled with b, with a start byte
\* at position dirty, if that is one of its positions.
Frame(n, len, b, dirty) ==
    [k \in 1..(Header + len + 3) |->
       [frame |-> n, at |-> k,
        value |-> CASE k = 1 -> SOF [] k = 2 -> len [] k = dirty -> SOF [] OTHER -> b]]

Body(f) == SubSeq(f, Header + 1, Len(f))

Clean(f) == \A k \in DOMAIN f : k > Header => f[k].value # SOF

TypeOK ==
    /\ Len(frames) <= MaxFrames
    /\ pc \in {"closed", "sof", "len", "body"}
    /\ rpcLen \in 0..(Byte - 1)
    /\ retryAttempts \in 0..MaxRetries
    /\ heard \in Seq(0..MaxFrames)
    /\ lost \in BOOLEAN

Init ==
    /\ frames = <<>> /\ line = <<>> /\ tty = <<>>
    /\ pc = "closed"
    /\ rpcLen = 0 /\ rpcBuff = <<>> /\ retryAttempts = 0
    /\ heard = <<>> /\ lost = FALSE

-----------------------------------------------------------------------------
SocSends(len, b, dirty) ==
    /\ Len(frames) < MaxFrames
    /\ LET f == Frame(Len(frames) + 1, len, b, dirty) IN
         /\ frames' = Append(frames, f)
         /\ line' = line \o f
    /\ UNCHANGED <<tty, reader>>

ByteArrives ==
    /\ line # <<>>
    /\ tty' = Append(tty, Head(line))
    /\ line' = Tail(line)
    /\ UNCHANGED <<frames, reader>>

\* zbSocOpen discards what has arrived, perhaps in the middle of a frame.
Open ==
    /\ pc = "closed"
    /\ tty' = <<>>
    /\ lost' = (frames # <<>>)
    /\ pc' = "sof"
    /\ UNCHANGED <<frames, line, rpcLen, rpcBuff, retryAttempts, heard>>

-----------------------------------------------------------------------------
(* zbSocProcessRpc, called when there is something to read. *)

\* Any other byte is skipped.
ReadSof ==
    /\ pc = "sof" /\ tty # <<>>
    /\ tty' = Tail(tty)
    /\ IF Head(tty).value = SOF
         THEN pc' = "len" /\ retryAttempts' = 0
         ELSE UNCHANGED <<pc, retryAttempts>>
    /\ UNCHANGED <<frames, line, rpcLen, rpcBuff, heard, lost>>

\* Mutant: the counter does not wrap.
BodyLengthWide(len) == len + 3

BodyLength(len) == (len + 3) % Byte

ReadLen ==
    /\ pc = "len" /\ tty # <<>>
    /\ rpcLen' = BodyLength(Head(tty).value)
    /\ tty' = Tail(tty)
    /\ rpcBuff' = <<>>
    /\ pc' = "body"
    /\ UNCHANGED <<frames, line, retryAttempts, heard, lost>>

\* The length is not there yet: the start byte is forgotten.
ReadNoLen ==
    /\ pc = "len" /\ tty = <<>>
    /\ pc' = "sof"
    /\ lost' = TRUE
    /\ UNCHANGED <<frames, line, tty, rpcLen, rpcBuff, retryAttempts, heard>>

\* Mutant: one read is taken to be enough.
ReadBodyOnce ==
    /\ pc = "body" /\ rpcLen > 0 /\ tty # <<>>
    /\ LET n == Min({rpcLen, Len(tty)}) IN
         /\ rpcBuff' = rpcBuff \o SubSeq(tty, 1, n)
         /\ tty' = SubSeq(tty, n + 1, Len(tty))
         /\ rpcLen' = 0
    /\ UNCHANGED <<frames, line, pc, retryAttempts, heard, lost>>

ReadBody ==
    /\ pc = "body" /\ rpcLen > 0 /\ tty # <<>>
    /\ LET n == Min({rpcLen, Len(tty)}) IN
         /\ rpcBuff' = rpcBuff \o SubSeq(tty, 1, n)
         /\ tty' = SubSeq(tty, n + 1, Len(tty))
         /\ rpcLen' = rpcLen - n
    /\ UNCHANGED <<frames, line, pc, retryAttempts, heard, lost>>

\* A read that finds nothing fails, or returns 0 and is repeated at once: which
\* one is up to termios fields that zbSocOpen does not set.  The -1 of a failure
\* is kept in a byte, so it is noticed only if that is more than is expected.
ReadFails ==
    /\ EmptyRead = "fails"
    /\ pc = "body" /\ rpcLen > 0 /\ tty = <<>>

\* Mutants: a retry is not counted; a frame that is given up is processed.
RetryForEver ==
    /\ ReadFails /\ rpcLen < Byte - 1
    /\ UNCHANGED vars

GiveUpAndProcess ==
    /\ ReadFails /\ rpcLen < Byte - 1
    /\ retryAttempts = MaxRetries
    /\ rpcLen' = 0
    /\ lost' = TRUE
    /\ UNCHANGED <<frames, line, tty, pc, rpcBuff, retryAttempts, heard>>

Retry ==
    /\ ReadFails /\ rpcLen < Byte - 1
    /\ retryAttempts < MaxRetries
    /\ retryAttempts' = retryAttempts + 1
    /\ UNCHANGED <<frames, line, tty, pc, rpcLen, rpcBuff, heard, lost>>

GiveUp ==
    /\ ReadFails /\ rpcLen < Byte - 1
    /\ retryAttempts = MaxRetries
    /\ pc' = "sof"
    /\ lost' = TRUE
    /\ UNCHANGED <<frames, line, tty, rpcLen, rpcBuff, retryAttempts, heard>>

FailureUnnoticed ==
    /\ ReadFails /\ rpcLen = Byte - 1
    /\ rpcLen' = 0
    /\ UNCHANGED <<frames, line, tty, pc, rpcBuff, retryAttempts, heard, lost>>

\* The body goes to the handler of its subsystem and command, whole or not.
Process ==
    /\ pc = "body" /\ rpcLen = 0
    /\ heard' = Append(heard, IF \E f \in ToSet(frames) : rpcBuff = Body(f)
                              THEN rpcBuff[1].frame ELSE Garbled)
    /\ pc' = "sof"
    /\ UNCHANGED <<frames, line, tty, rpcLen, rpcBuff, retryAttempts, lost>>

-----------------------------------------------------------------------------
SocSendsAny ==
    \E len \in Lengths, b \in Fill, dirty \in 0..(Header + Byte) :
       (dirty = 0 \/ dirty \in (Header + 1)..(Header + len + 3)) /\ SocSends(len, b, dirty)

ZbSocProcessRpc ==
    \/ ReadSof \/ ReadLen \/ ReadNoLen \/ ReadBody
    \/ Retry \/ GiveUp \/ FailureUnnoticed \/ Process

Next == SocSendsAny \/ ByteArrives \/ Open \/ ZbSocProcessRpc

\* The process runs; nothing is assumed of when bytes arrive.
Spec == Init /\ [][Next]_vars /\ WF_vars(ZbSocProcessRpc)
-----------------------------------------------------------------------------
(* Correctness. *)

\* As long as no read came too early, every frame is processed once, in order,
\* however its bytes are spread over reads (zbSocCmd.c:1619, "non blocking read,
\* so we need to wait for the rpc to be read"), and none is left behind.
FramesProcessed ==
    ~lost =>
      /\ \A i \in DOMAIN heard : heard[i] = i
      /\ pc = "sof" /\ tty = <<>> /\ line = <<>> => Len(heard) = Len(frames)

\* The checksum is not looked at, yet a handler only gets a body made of pieces
\* if a frame was lost and a body holds a start byte: otherwise the reader
\* finds the next frame.
GarbledNeedsStartByte ==
    Contains(heard, Garbled) => lost /\ \E f \in ToSet(frames) : ~Clean(f)

\* The reader, which holds up the whole gateway, comes back, even if the rest
\* of a frame never arrives (:1633).
ReaderReturns == pc \in {"len", "body"} ~> pc = "sof"
=============================================================================
