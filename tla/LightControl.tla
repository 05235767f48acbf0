---------------------------- MODULE LightControl ----------------------------
(***************************************************************************)
(* Controlling lights: the commands and reads that the screen zllMain.java *)
(* of the Android application sends, how the gateway passes them to the    *)
(* ZigBee processor (interface_srpcserver.c, zbSocCmd.c) and the answers   *)
(* back, and the threads of the application that send, receive and wait.   *)
(*                                                                         *)
(* The main thread handles a selection step by step, the receive thread    *)
(* handles one message at a time, and each selection starts a background   *)
(* task (with minSdkVersion 9 they run in parallel).  They share the       *)
(* device objects and lock nothing; each load and each store is a step.    *)
(* Transaction numbers are left out: nobody looks at them                  *)
(* (zbSocCmd.c:1192).                                                      *)
(***************************************************************************)
EXTENDS Naturals, Sequences, SequencesExt, FiniteSets

CONSTANTS Light,        \* lights, all of them listed by the application
          FirstLight,   \* the one that is selected when the screen opens
          HighEndpoint, \* lights with an endpoint above 127
          Order,        \* the attributes, in the order the screen asks for them
          Has,          \* the attributes each light has
          Group,        \* groups
          Members,      \* the lights in each group
          Setting,      \* what commands set: values of some attributes
          Rounds,       \* rounds a task waits: 100
          AskEvery,     \* rounds after which it asks again: 30
          MaxInputs,    \* bound: selections of a light and commands, together
          MaxReads,     \* bound: reads and their answers in the air
          MaxAnswers    \* bound: answers the application has not received

Attr == ToSet(Order)
Value == {0, 1}
Undefined == 2  \* the frame ends after the status, the rest is read behind it

ASSUME LightAssumption == FirstLight \in Light /\ HighEndpoint \subseteq Light
ASSUME OrderAssumption == Order \in Seq(Attr) /\ Order # <<>>
ASSUME HasAssumption == Has \in [Light -> SUBSET Attr]
ASSUME GroupAssumption == Members \in [Group -> SUBSET Light] /\ Group \cap Light = {}
ASSUME SettingAssumption == \A s \in Setting : DOMAIN s \subseteq Attr /\ \A a \in DOMAIN s : s[a] \in Value
ASSUME RoundAssumption == Rounds \in Nat /\ AskEvery \in Nat \ {0}
ASSUME BoundAssumption == {MaxInputs, MaxReads, MaxAnswers} \subseteq Nat

VARIABLES lights,    \* the attributes of the lights
          had,       \* history: every value each attribute has had
          requests,  \* from the application to the gateway
          air,       \* from the gateway to the lights and back, in no order
          answers,   \* from the gateway to the application
          shown,     \* currentState, currentLevel, currentHue, currentSat
          updated,   \* currentColorAttrsUpdated
          rx,        \* the receive thread
          ui,        \* the main thread
          target,    \* currDevice, or currGroup when currDevice is null
          tasks,     \* the background task of each selection
          heard,     \* history: attributes received since they were cleared
          known,     \* history: attributes received since the application started
          raced,     \* history: lights whose updates have overlapped
          sent       \* [select, command]: how many there have been

world == <<lights, had>>
wire == <<requests, air, answers>>
objects == <<shown, updated, heard, known, raced>>
vars == <<world, wire, objects, rx, ui, target, tasks, sent>>

Get(l, a) == [op |-> "get", to |-> l, attr |-> a]
Set(t, s) == [op |-> "set", to |-> t, with |-> s]
Rsp(l, a, v) == [op |-> "rsp", from |-> l, attr |-> a, val |-> v]

\* The getters of ZigbeeAssistant, one message each.
Asked(l, attrs) == [k \in DOMAIN attrs |-> Get(l, attrs[k])]

\* Its setters, one for a light and one for a group.
ToTarget(s) == Set(target, s)

Idle == [pc |-> "idle"]
NoTask == [pc |-> "none"]
Look(r) == [pc |-> "look", round |-> r, k |-> 1, since |-> 0]
Crashed == [pc |-> "crashed"]   \* and the application with it
Up == \A i \in DOMAIN tasks : tasks[i] # Crashed

TypeOK ==
    /\ lights \in [Light -> [Attr -> Value]]
    /\ \A r \in ToSet(requests) \cup air :
          \/ r \in {Get(l, a) : l \in Light, a \in Attr}
          \/ r \in {Set(t, s) : t \in Light \cup Group, s \in Setting}
          \/ r \in {Rsp(l, a, v) : l \in Light, a \in Attr, v \in Value \cup {Undefined}}
    /\ \A m \in ToSet(answers) : m.from \in Light /\ m.attr \in Attr
    /\ shown \in [Light -> [Attr -> Value \cup {Undefined}]]
    /\ updated \in [Light -> SUBSET Attr]
    /\ rx.pc \in {"idle", "mark"}
    /\ ui.pc \in {"idle", "load", "store", "ask"}
    /\ target \in Light \cup Group
    /\ tasks \in [1..MaxInputs -> {NoTask, Crashed} \cup [pc : {"found", "silent"}] \cup
                    [pc : {"look", "ask", "give"}, round : 0..Rounds, k : DOMAIN Order,
                     since : 0..MaxInputs]]
    /\ heard \in [Light -> SUBSET Attr] /\ known \in [Light -> SUBSET Attr]

\* The lights may be set to anything when the application starts; the fields of
\* its objects have Java's default.
Init ==
    /\ lights \in [Light -> [Attr -> Value]]
    /\ had = [l \in Light |-> [a \in Attr |-> {lights[l][a]}]]
    /\ requests = <<>> /\ air = {} /\ answers = <<>>
    /\ shown = [l \in Light |-> [a \in Attr |-> 0]]
    /\ updated = [l \in Light |-> {}]
    /\ rx = Idle /\ ui = Idle
    /\ target = FirstLight
    /\ tasks = [i \in 1..MaxInputs |-> NoTask]
    /\ heard = [l \in Light |-> {}] /\ known = [l \in Light |-> {}]
    /\ raced = {}
    /\ sent = [select |-> 0, command |-> 0]

-----------------------------------------------------------------------------
(* The main thread. *)

InputLeft == sent.select + sent.command < MaxInputs

\* A light is selected.
Select(l) ==
    /\ Up /\ ui = Idle
    /\ InputLeft
    /\ sent' = [sent EXCEPT !.select = @ + 1]
    /\ target' = l
    /\ ui' = [pc |-> "load", k |-> 1]
    /\ UNCHANGED <<world, wire, objects, rx, tasks>>

\* currentColorAttrsUpdated &= ~..., for one attribute after the other.
ClearLoad ==
    /\ Up /\ ui.pc = "load"
    /\ ui' = [pc |-> "store", k |-> ui.k, seen |-> updated[target]]
    /\ UNCHANGED <<world, wire, objects, rx, target, tasks, sent>>

\* Mutant: the attribute stays marked.
ClearNothing(seen, k) == seen

Cleared(seen, k) == seen \ {Order[k]}

ClearStore ==
    /\ Up /\ ui.pc = "store"
    /\ updated' = [updated EXCEPT ![target] = Cleared(ui.seen, ui.k)]
    /\ heard' = [heard EXCEPT ![target] = @ \ {Order[ui.k]}]
    /\ raced' = IF rx.pc = "mark" /\ rx.light = target THEN raced \cup {target} ELSE raced
    /\ ui' = IF ui.k < Len(Order) THEN [pc |-> "load", k |-> ui.k + 1] ELSE [pc |-> "ask"]
    /\ UNCHANGED <<world, wire, shown, known, rx, target, tasks, sent>>

\* Every attribute is asked for, whether the light has it or not, and the task
\* starts.
AskAll ==
    /\ Up /\ ui.pc = "ask"
    /\ requests' = requests \o Asked(target, Order)
    /\ tasks' = [tasks EXCEPT ![sent.select] = Look(0)]
    /\ ui' = Idle
    /\ UNCHANGED <<world, air, answers, objects, rx, target, sent>>

SelectGroup(g) ==
    /\ Up /\ ui = Idle
    /\ target' = g
    /\ UNCHANGED <<world, wire, objects, rx, ui, tasks, sent>>

\* A button, the slider or the colour picker: for the light, or else the group.
Control(s) ==
    /\ Up /\ ui = Idle
    /\ InputLeft
    /\ sent' = [sent EXCEPT !.command = @ + 1]
    /\ requests' = Append(requests, ToTarget(s))
    /\ UNCHANGED <<world, air, answers, objects, rx, ui, target, tasks>>

-----------------------------------------------------------------------------
(* The receive thread. *)

\* The four cases of rpcsProcessIncoming: the light is found by its network
\* address and endpoint; an endpoint above 127 is sign-extended to one width
\* in the list and to another in the message, and never found.
Found(l) == l \notin HighEndpoint

\* The value is stored and the marks are read ...
Receive ==
    /\ Up /\ rx = Idle /\ answers # <<>>
    /\ answers' = Tail(answers)
    /\ LET m == Head(answers) IN
         IF Found(m.from)
           THEN /\ shown' = [shown EXCEPT ![m.from][m.attr] = m.val]
                /\ rx' = [pc |-> "mark", light |-> m.from, attr |-> m.attr,
                          seen |-> updated[m.from]]
                /\ heard' = [heard EXCEPT ![m.from] = @ \cup {m.attr}]
                /\ known' = [known EXCEPT ![m.from] = @ \cup {m.attr}]
           ELSE UNCHANGED <<shown, rx, heard, known>>
    /\ UNCHANGED <<world, requests, air, updated, raced, ui, target, tasks, sent>>

\* Mutant: a value without its mark.
MarkedNone(seen, a) == seen

Marked(seen, a) == seen \cup {a}

\* ... and written back with one more.
Mark ==
    /\ Up /\ rx.pc = "mark"
    /\ updated' = [updated EXCEPT ![rx.light] = Marked(rx.seen, rx.attr)]
    /\ raced' = IF ui.pc = "store" /\ target = rx.light THEN raced \cup {rx.light} ELSE raced
    /\ rx' = Idle
    /\ UNCHANGED <<world, wire, shown, heard, known, ui, target, tasks, sent>>

-----------------------------------------------------------------------------
(* The background task i: waitRspTask.  It looks at one attribute after the  *)
(* other, each time of currDevice as it is then; a null currDevice ends the  *)
(* application.  "since" is the selection in which it began to look, 0 if    *)
(* that selection was being made.  What the colour picker is then given to   *)
(* show is left out.                                                         *)

Since(i) ==
    IF tasks[i].k > 1 THEN tasks[i].since ELSE IF ui = Idle THEN sent.select ELSE 0

\* getCurrentStateUpdated and its three siblings: an attribute the light does
\* not have counts as updated.
Missing(l) == Has[l] \ updated[l]

MissesNow(i) == Order[tasks[i].k] \in Missing(target)

Checks(i, pc) == Up /\ tasks[i].pc = pc /\ target \in Light

\* Mutant: one attribute too many.
AtLastLate(i) == tasks[i].k > Len(Order)

AtLast(i) == tasks[i].k = Len(Order)

Next1(t, i) == [t EXCEPT !.k = @ + 1, !.since = Since(i)]

\* The round after r, or the last look.
NextRound(r) ==
    IF r + 1 < Rounds THEN Look(r + 1) ELSE [Look(Rounds) EXCEPT !.pc = "give"]

\* Are all attributes updated?  If not, every 30th round asks for them.
TaskLooks(i) ==
    /\ Checks(i, "look")
    /\ LET t == tasks[i] IN
         tasks' = [tasks EXCEPT ![i] =
           CASE MissesNow(i) /\ t.round > 0 /\ t.round % AskEvery = 0
                  -> [Look(t.round) EXCEPT !.pc = "ask"]
             [] MissesNow(i) -> NextRound(t.round)
             [] OTHER -> IF AtLast(i) THEN [pc |-> "found"] ELSE Next1(t, i)]
    /\ UNCHANGED <<world, wire, objects, rx, ui, target, sent>>

TaskAsks(i) ==
    /\ Checks(i, "ask")
    /\ requests' = IF MissesNow(i) THEN requests \o Asked(target, <<Order[tasks[i].k]>>)
                                   ELSE requests
    /\ LET t == tasks[i] IN
         tasks' = [tasks EXCEPT ![i] = IF AtLast(i) THEN NextRound(t.round) ELSE Next1(t, i)]
    /\ UNCHANGED <<world, air, answers, objects, rx, ui, target, sent>>

\* Is any attribute updated?  One the light does not have counts as an answer.
TaskGivesUp(i) ==
    /\ Checks(i, "give")
    /\ tasks' = [tasks EXCEPT ![i] =
         IF ~MissesNow(i) THEN [pc |-> "found"]
         ELSE IF AtLast(i) THEN [pc |-> "silent"] ELSE Next1(@, i)]
    /\ UNCHANGED <<world, wire, objects, rx, ui, target, sent>>

\* What is under way then matters no more.
TaskDies(i) ==
    /\ Up /\ tasks[i].pc \in {"look", "ask", "give"} /\ target \in Group
    /\ tasks' = [t \in DOMAIN tasks |-> Crashed]
    /\ requests' = <<>> /\ air' = {} /\ answers' = <<>>
    /\ rx' = Idle /\ ui' = Idle
    /\ UNCHANGED <<world, objects, target, sent>>

TaskStep(i) == TaskLooks(i) \/ TaskAsks(i) \/ TaskGivesUp(i) \/ TaskDies(i)

-----------------------------------------------------------------------------
(* The gateway.  It keeps nothing of what it passes on. *)

\* zbSocTransportWrite discards what the line has not yet taken, and the radio
\* may lose the rest: a command arrives whole or does not arrive.
Written(c) == {air, air \cup {c}}

\* zbSocGetState and its siblings, zbSocSetState and its: one frame each, which
\* nothing acknowledges.
SendGet(c) == air' \in Written(c)

SendSet(c) == air' \in Written(c)

\* SRPC_getDevice...: one of four reads.
ServeGet ==
    /\ requests # <<>> /\ Head(requests).op = "get"
    /\ Cardinality({m \in air : m.op # "set"}) < MaxReads
    /\ requests' = Tail(requests)
    /\ SendGet(Head(requests))
    /\ UNCHANGED <<world, answers, objects, rx, ui, target, tasks, sent>>

\* SRPC_setDevice...: one of three commands.
ServeSet ==
    /\ requests # <<>> /\ Head(requests).op = "set"
    /\ requests' = Tail(requests)
    /\ SendSet(Head(requests))
    /\ UNCHANGED <<world, answers, objects, rx, ui, target, tasks, sent>>

\* Mutant: the answer carries the endpoint of another light.
AnswerOther(m) == [from |-> CHOOSE l \in Light : l # m.from, attr |-> m.attr, val |-> m.val]

\* The callback of the attribute, and its message to all clients.
Answer(m) == [from |-> m.from, attr |-> m.attr, val |-> m.val]

\* A read response.  A failed one has no data type: the checksum is in its
\* place, and matches the attribute's or not.
Dispatched(m) == IF m.val = Undefined THEN {<<>>, <<Answer(m)>>} ELSE {<<Answer(m)>>}

ReadRsp(m) ==
    /\ m \in air /\ m.op = "rsp" /\ Len(answers) < MaxAnswers
    /\ air' = air \ {m}
    /\ \E ans \in Dispatched(m) : answers' = answers \o ans
    /\ UNCHANGED <<world, requests, objects, rx, ui, target, tasks, sent>>

-----------------------------------------------------------------------------
(* The lights. *)

LightsOf(t) == IF t \in Group THEN Members[t] ELSE {t}

\* A command reaches some of the lights it is for, or none.
LightsTake(c) ==
    /\ c \in air /\ c.op = "set"
    /\ air' = air \ {c}
    /\ \E S \in SUBSET LightsOf(c.to) :
         lights' = [l \in Light |->
                      [a \in Attr |-> IF l \in S /\ a \in Has[l] \cap DOMAIN c.with
                                        THEN c.with[a] ELSE lights[l][a]]]
    /\ had' = [l \in Light |-> [a \in Attr |-> had[l][a] \cup {lights'[l][a]}]]
    /\ UNCHANGED <<requests, answers, objects, rx, ui, target, tasks, sent>>

\* A light answers a read; that the answer is lost is like the loss of the read.
LightAnswers(c) ==
    /\ c \in air /\ c.op = "get"
    /\ LET v == IF c.attr \in Has[c.to] THEN lights[c.to][c.attr] ELSE Undefined
       IN  air' = (air \ {c}) \cup {Rsp(c.to, c.attr, v)}
    /\ UNCHANGED <<world, requests, answers, objects, rx, ui, target, tasks, sent>>

-----------------------------------------------------------------------------
Screen ==
    \/ \E l \in Light : Select(l)
    \/ \E g \in Group : SelectGroup(g)
    \/ \E s \in Setting : Control(s)
    \/ ClearLoad \/ ClearStore \/ AskAll

RxStep == Receive \/ Mark

GatewayStep == ServeGet \/ ServeSet \/ \E m \in air : ReadRsp(m)

Network == \E c \in air : LightsTake(c) \/ LightAnswers(c)

Next ==
    Screen \/ RxStep \/ GatewayStep \/ Network \/ \E i \in DOMAIN tasks : TaskStep(i)

Spec == Init /\ [][Next]_vars
-----------------------------------------------------------------------------
(* Correctness. *)

\* What the application holds of an attribute it has received is a value that
\* attribute of that light has had, whatever the lights were set to at the start,
\* in whatever order commands, reads and answers pass each other, and whatever
\* the gateway makes of reads of attributes a light lacks.  Nothing is said of an
\* attribute not received since the start: its field is Java's 0
\* (ZigbeeDevice.java:71-74), which the light may never have had, and the colour
\* picker may draw it as a "last known value" (zllMain.java:281-283).
ShownWasHad ==
    \A l \in Light : \A a \in Has[l] \cap known[l] : shown[l][a] \in had[l][a]

\* Task i ends its wait for the selected light, while no other is selected.
EndsWell(i) ==
    /\ tasks[i].pc \in {"look", "give"} /\ tasks'[i].pc = "found"
    /\ ui = Idle /\ Since(i) = sent.select

\* The wait for a light ends well only when each attribute it has was received
\* after its mark was cleared (zllMain.java:237) or, when it is given up, "we got
\* a response but not all HSV value" (:281), unless its marks were updated by two
\* threads at once, or the selection changed while they were looked at.  A light
\* that lacks an attribute is found then even if it is silent.
WaitSeesAnswers ==
    [][\A i \in DOMAIN tasks : EndsWell(i) /\ target \notin raced =>
         IF tasks[i].pc = "look" THEN Has[target] \subseteq heard[target]
         ELSE Has[target] = Attr => heard[target] # {}]_vars

\* "We did not get any response" (zllMain.java:290) rests on the marks: an
\* attribute is marked if and only if it was received since its mark was cleared,
\* but for the one the receive thread is about to mark, and unless the marks were
\* updated by two threads at once.
MarksAreTrue ==
    Up => \A l \in Light \ raced :
            heard[l] = updated[l] \cup (IF rx.pc = "mark" /\ rx.light = l THEN {rx.attr} ELSE {})
=============================================================================
