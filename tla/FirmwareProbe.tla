--------------------------- MODULE FirmwareProbe ---------------------------
(***************************************************************************)
(* The programs on the serial line: the gateway, which reads what comes,   *)
(* and the two probes zbFwStart and getFwModel, which ask the ZigBee       *)
(* processor for its address, ask that address for its model, and end when *)
(* the model is known or six polls have timed out.  They differ in one     *)
(* command: zbFwStart first tells the processor to start its network.      *)
(*                                                                         *)
(* Which program and which processor it is is chosen in the initial state. *)
(* A command is written in pieces of eight bytes, and after each the output*)
(* queue is flushed: it arrives, or what had not left is discarded.        *)
(***************************************************************************)
EXTENDS SerialFrames

CONSTANTS Programs,     \* of "gateway", "zbFwStart", "getFwModel"
          InfoLen,      \* length of the data of a device information response
          ModelLen,     \* length of the data of a model response
          MaxUnasked,   \* bound: frames the processor sends unasked
          MaxTimeouts,  \* 5
          InfoTimeouts  \* 3: those after which the information is asked again

ASSUME AnswerAssumption == {InfoLen, ModelLen} \subseteq Lengths /\ Fill # {}
ASSUME TimeoutAssumption == MaxTimeouts \in Nat /\ InfoTimeouts \in 0..MaxTimeouts
ASSUME ProgramAssumption == Programs \subseteq {"gateway", "zbFwStart", "getFwModel"}
ASSUME UnaskedAssumption == MaxUnasked \in Nat

VARIABLES program,     \* the program that has the line
          soc,         \* the processor: what it answers
          up,          \* its network runs
          command,     \* the command the program is about to write
          timeoutCnt,
          verdict,     \* what the probe has printed when it ends
          says,        \* what each frame of the processor is
          slips        \* history: commands discarded and answers late, up to 2

probe == <<program, soc, up, command, timeoutCnt, verdict, says, slips>>
prVars == <<vars, probe>>

Answers == {"info", "failure", "model", "other"}
Commands == {"start", "getInfo", "getModel own", "getModel 0", "getModel odd", "none"}

\* A processor may lack the utility commands or fail them, be the coordinator
\* (address 0) or not, and wait for the command that starts its network.
Soc == [util : {"info", "failure", "none"}, coordinator : BOOLEAN, waits : BOOLEAN]

PrTypeOK ==
    /\ TypeOK
    /\ program \in Programs /\ soc \in Soc /\ up \in BOOLEAN
    /\ command \in Commands
    /\ timeoutCnt \in 0..(MaxTimeouts + 1)
    /\ verdict \in {"none", "model", "unknown"}
    /\ says \in Seq(Answers) /\ Len(says) = Len(frames)
    /\ slips \in 0..2

PrInit ==
    /\ Init
    /\ program \in Programs /\ soc \in Soc
    /\ program = "gateway" => soc = [util |-> "none", coordinator |-> TRUE, waits |-> FALSE]
    /\ up = ~soc.waits
    /\ command = CASE program = "gateway" -> "none"
                   [] program = "zbFwStart" -> "start"
                   [] program = "getFwModel" -> "getInfo"
    /\ timeoutCnt = 0 /\ verdict = "none" /\ says = <<>> /\ slips = 0

Slip == slips' = Min({2, slips + 1})

\* The main loop of a program that has neither ended nor a command to write.
Loops == command = "none" /\ verdict = "none"

-----------------------------------------------------------------------------
(* Commands. *)

\* What the processor answers to a command; it may send nothing.
Answer(c) ==
    CASE c = "getInfo" -> soc.util
      [] c = "getModel own" -> IF up THEN "model" ELSE "none"
      [] c = "getModel 0" -> IF up /\ soc.coordinator THEN "model" ELSE "none"
      [] OTHER -> "none"

AnswerFrame(a) ==
    Frame(Len(frames) + 1, IF a = "model" THEN ModelLen ELSE InfoLen, Min(Fill), 0)

After(c) == IF c = "start" THEN "getInfo" ELSE "none"

WriteArrives ==
    /\ pc = "sof" /\ command # "none"
    /\ up' = (up \/ command = "start")
    /\ LET a == Answer(command) IN
         IF a = "none" THEN UNCHANGED <<frames, line, says>>
         ELSE /\ Len(frames) < MaxFrames
              /\ frames' = Append(frames, AnswerFrame(a))
              /\ line' = line \o AnswerFrame(a)
              /\ says' = Append(says, a)
    /\ command' = After(command)
    /\ UNCHANGED <<tty, reader, program, soc, timeoutCnt, verdict, slips>>

\* Bound: also what becomes of a command whose answer would be one too many.
WriteDiscarded ==
    /\ pc = "sof" /\ command # "none"
    /\ command' = After(command)
    /\ Slip
    /\ UNCHANGED <<vars, program, soc, up, timeoutCnt, verdict, says>>

-----------------------------------------------------------------------------
(* The main loop. *)

\* Mutants: the first time-outs are forgotten; the coordinator is not tried.
TimeOutForgets ==
    /\ program # "gateway" /\ Loops
    /\ pc = "sof" /\ tty = <<>>
    /\ timeoutCnt' = 1
    /\ command' = "getInfo"
    /\ UNCHANGED <<vars, program, soc, up, verdict, says, slips>>

NoFallback(n) == "getInfo"

\* "maybe MT_UTIL is not define, assume coord": what the n-th time-out writes.
Fallback(n) == IF n > InfoTimeouts THEN "getModel 0" ELSE "getInfo"

\* Half a second without a byte.
TimeOut ==
    /\ program # "gateway" /\ Loops
    /\ pc = "sof" /\ tty = <<>>
    /\ timeoutCnt' = timeoutCnt + 1
    /\ IF timeoutCnt' > MaxTimeouts
         THEN verdict' = "unknown" /\ UNCHANGED command
         ELSE command' = Fallback(timeoutCnt') /\ UNCHANGED verdict
    /\ IF line # <<>> THEN Slip ELSE UNCHANGED slips
    /\ UNCHANGED <<vars, program, soc, up, says>>

\* The callbacks.  That of the information asks for the model whatever the
\* status is; with a failure the address is uninitialised.
Callback(a) ==
    /\ command' = CASE a = "info" -> "getModel own"
                    [] a = "failure" -> "getModel odd"
                    [] OTHER -> "none"
    /\ verdict' = IF a = "model" THEN "model" ELSE "none"

\* A garbled body may be taken for any answer.  The gateway's callbacks are in
\* the other modules.
PrProcess ==
    /\ Loops /\ Process
    /\ IF program = "gateway" THEN UNCHANGED <<command, verdict>>
       ELSE \E a \in Answers :
              /\ Last(heard') # Garbled => a = says[Last(heard')]
              /\ Callback(a)
    /\ UNCHANGED <<program, soc, up, timeoutCnt, says, slips>>

PrRead ==
    /\ Loops
    /\ ReadSof \/ ReadLen \/ ReadNoLen \/ ReadBody \/ Retry \/ GiveUp \/ FailureUnnoticed
    /\ UNCHANGED probe

Program == PrRead \/ PrProcess \/ WriteArrives \/ WriteDiscarded \/ TimeOut

\* What the processor sends of its own accord, before the line is opened or to
\* the gateway.
Unasked ==
    /\ program = "gateway" /\ Len(frames) < MaxUnasked
    /\ SocSendsAny
    /\ says' = Append(says, "other")
    /\ UNCHANGED <<program, soc, up, command, timeoutCnt, verdict, slips>>

PrOpen == Open /\ UNCHANGED probe

Arrives == ByteArrives /\ UNCHANGED probe

PrNext == Unasked \/ Arrives \/ PrOpen \/ Program

\* The program runs, and the bytes that were sent arrive; poll times out.
PrSpec == PrInit /\ [][PrNext]_prVars /\ WF_prVars(PrOpen) /\ WF_prVars(Program)
-----------------------------------------------------------------------------
(* Correctness. *)

\* "Unknown model" is said only of a processor that could not be asked, or after
\* two commands or answers went astray: one loss is made good by the repeats
\* and by asking the coordinator (zbFwStart.c:133).  Only the command that
\* starts the network is not repeated.
UnknownNeedsLosses ==
    verdict = "unknown" /\ ~lost /\ (soc.coordinator \/ soc.util = "info")
      /\ (soc.waits => program = "zbFwStart")
      => slips >= (IF soc.waits THEN 1 ELSE 2)

\* A probe ends, with or without a model, whatever is lost or late.
ProbeEnds == <>(program = "gateway" \/ verdict # "none")
=============================================================================
