------------------------- MODULE LightControl_proofs ------------------------
(***************************************************************************)
(* What holds of the screen of a light, its three kinds of threads and the *)
(* commands, reads and answers under way, for any number of lights,        *)
(* attributes, settings and selections.                                    *)
(***************************************************************************)
EXTENDS LightControl, SequenceTheorems, TLAPS

-----------------------------------------------------------------------------
(* The invariant. *)

GetRequest == [op : {"get"}, to : Light, attr : Attr]
SetRequest == [op : {"set"}, to : Light \cup Group, with : Setting]
Response == [op : {"rsp"}, from : Light, attr : Attr, val : Value \cup {Undefined}]
AnswerMessage == [from : Light, attr : Attr, val : Value \cup {Undefined}]

Waiting == [pc : {"look", "ask", "give"}, round : 0..Rounds, k : DOMAIN Order, since : 0..MaxInputs]

WireTypeOK ==
    /\ lights \in [Light -> [Attr -> Value]]
    /\ had \in [Light -> [Attr -> SUBSET Value]]
    /\ requests \in Seq(GetRequest \cup SetRequest)
    /\ air \subseteq GetRequest \cup SetRequest \cup Response
    /\ answers \in Seq(AnswerMessage)

ScreenTypeOK ==
    /\ shown \in [Light -> [Attr -> Value \cup {Undefined}]]
    /\ updated \in [Light -> SUBSET Attr]
    /\ heard \in [Light -> SUBSET Attr] /\ known \in [Light -> SUBSET Attr]
    /\ rx \in {Idle} \cup [pc : {"mark"}, light : Light, attr : Attr, seen : SUBSET Attr]
    /\ ui \in {Idle, [pc |-> "ask"]} \cup [pc : {"load"}, k : DOMAIN Order]
              \cup [pc : {"store"}, k : DOMAIN Order, seen : SUBSET Attr]
    /\ target \in Light \cup Group
    /\ tasks \in [1..MaxInputs -> {NoTask, Crashed} \cup [pc : {"found", "silent"}] \cup Waiting]
    /\ sent \in [select : Nat, command : Nat]

\* Each selection has its task, and while one is being made a light is selected.
SelectionsCounted ==
    /\ sent.select + sent.command <= MaxInputs
    /\ ui # Idle => target \in Light /\ sent.select >= 1

\* Values on their way to the screen have been true: a response without a value
\* only comes from a light that lacks the attribute.
ValuesWereTrue ==
    /\ \A l \in Light, a \in Attr : lights[l][a] \in had[l][a]
    /\ \A m \in air : m.op = "rsp" /\ m.attr \in Has[m.from] => m.val \in had[m.from][m.attr]
    /\ \A i \in DOMAIN answers : LET m == answers[i] IN
         m.attr \in Has[m.from] => m.val \in had[m.from][m.attr]

\* The marks that a thread has loaded are the marks, unless the updates overlap.
LoadsAreFresh ==
    Up => /\ rx.pc = "mark" /\ rx.light \notin raced => rx.seen = updated[rx.light]
          /\ ui.pc = "store" /\ target \notin raced => ui.seen = updated[target]

\* A task that began to look in the present selection has found the attributes
\* that it has passed: nothing takes their marks away before the next selection.
Passed(i) ==
    tasks[i].pc \in {"look", "ask", "give"} /\ tasks[i].k > 1 =>
      /\ tasks[i].since <= sent.select
      /\ tasks[i].since = sent.select =>
           /\ ui = Idle
           /\ tasks[i].pc = "look" /\ target \in Light /\ target \notin raced =>
                \A j \in 1..(tasks[i].k - 1) : Order[j] \notin Missing(target)

PassedAreMarked == \A i \in DOMAIN tasks : Passed(i)

LightInv ==
    /\ WireTypeOK
    /\ ScreenTypeOK
    /\ SelectionsCounted
    /\ ValuesWereTrue
    /\ ShownWasHad
    /\ LoadsAreFresh
    /\ MarksAreTrue
    /\ PassedAreMarked

-----------------------------------------------------------------------------
(* The types. *)

\* A task that waits has a round, an attribute and a selection.
LEMMA WaitingTask ==
    ASSUME ScreenTypeOK, NEW i \in DOMAIN tasks, tasks[i].pc \in {"look", "ask", "give"}
    PROVE  tasks[i] \in Waiting
<1>1. tasks[i] \in {NoTask, Crashed} \cup [pc : {"found", "silent"}] \cup Waiting
  BY DEF ScreenTypeOK
<1> QED
  BY <1>1 DEF NoTask, Crashed

\* The reads that the application asks for are requests.
LEMMA AskedType ==
    ASSUME NEW l \in Light, NEW attrs \in Seq(Attr)
    PROVE  Asked(l, attrs) \in Seq(GetRequest \cup SetRequest)
<1>1. Len(attrs) \in Nat /\ DOMAIN attrs = 1..Len(attrs) /\ \A k \in DOMAIN attrs : attrs[k] \in Attr
  BY LenProperties, ElementOfSeq
<1>2. \A k \in DOMAIN attrs : Get(l, attrs[k]) \in GetRequest \cup SetRequest
  BY <1>1 DEF Get, GetRequest
<1>3. Asked(l, attrs) \in [1..Len(attrs) -> GetRequest \cup SetRequest]
  BY <1>1, <1>2 DEF Asked
<1> QED
  BY <1>1, <1>3

\* The attributes in their order.
LEMMA OrderProperties ==
    /\ Order \in Seq(Attr) /\ Len(Order) \in Nat \ {0}
    /\ DOMAIN Order = 1..Len(Order) /\ 1 \in DOMAIN Order
    /\ \A k \in DOMAIN Order : Order[k] \in Attr
    /\ \A a \in Attr : \E k \in DOMAIN Order : a = Order[k]
<1>1. Order \in Seq(Attr) /\ Len(Order) \in Nat \ {0}
  BY OrderAssumption, EmptySeq
<1>2. DOMAIN Order = 1..Len(Order)
  BY <1>1, LenProperties
<1> QED
  BY <1>1, <1>2, ElementOfSeq DEF Attr, ToSet

\* The states of the tasks.
LEMMA TaskTypes ==
    /\ \A r \in 0..Rounds : Look(r) \in Waiting
    /\ \A r \in 0..Rounds : [Look(r) EXCEPT !.pc = "ask"] \in Waiting
    /\ \A r \in 0..Rounds : NextRound(r) \in Waiting
    /\ \A r \in 0..Rounds : NextRound(r).k = 1
<1> USE RoundAssumption, BoundAssumption
<1>1. \A r \in 0..Rounds : Look(r) \in Waiting
  BY OrderProperties DEF Look, Waiting
<1>2. \A r \in 0..Rounds : [Look(r) EXCEPT !.pc = "ask"] \in Waiting
  BY OrderProperties, SMTT(20) DEF Look, Waiting
<1>3. [Look(Rounds) EXCEPT !.pc = "give"] \in Waiting
  BY OrderProperties DEF Look, Waiting
<1>4. \A r \in 0..Rounds : r + 1 < Rounds => r + 1 \in 0..Rounds
  OBVIOUS
<1>5. \A r \in 0..Rounds : NextRound(r) \in Waiting
  BY <1>1, <1>3, <1>4 DEF NextRound
<1>6. \A r \in 0..Rounds : NextRound(r).k = 1
  BY DEF NextRound, Look
<1> QED
  BY <1>1, <1>2, <1>5, <1>6

\* Once the application has crashed it stays so.
LEMMA UpBefore ==
    ASSUME [Next]_vars, Up' PROVE Up
<1>1. CASE Screen \/ RxStep \/ \E i \in DOMAIN tasks : TaskStep(i)
  BY <1>1 DEF Screen, Select, ClearLoad, ClearStore, AskAll, SelectGroup, Control, RxStep,
       Receive, Mark, TaskStep, TaskLooks, TaskAsks, TaskGivesUp, TaskDies, Checks
<1>2. CASE GatewayStep \/ Network \/ UNCHANGED vars
  BY <1>2 DEF GatewayStep, ServeGet, ServeSet, ReadRsp, Network, LightsTake, LightAnswers,
       vars, Up
<1> QED
  BY <1>1, <1>2 DEF Next

\* The messages keep their types.
LEMMA WireTypeStep ==
    ASSUME WireTypeOK, ScreenTypeOK, SelectionsCounted, [Next]_vars
    PROVE  WireTypeOK'
<1> DEFINE Request == GetRequest \cup SetRequest
           Same == UNCHANGED <<lights, had, air, answers>>
<1>1. ASSUME requests' \in Seq(Request), Same PROVE WireTypeOK'
  BY <1>1 DEF WireTypeOK
<1>2. \A s \in Seq(Request), m \in Request : Append(s, m) \in Seq(Request)
  BY AppendProperties
<1>3. \A s, t \in Seq(Request) : s \o t \in Seq(Request)
  BY ConcatProperties
<1>4. requests \in Seq(Request)
  BY DEF WireTypeOK
<1>5. requests # <<>> => Head(requests) \in Request /\ Tail(requests) \in Seq(Request)
  BY <1>4, HeadTailProperties
<1>6. answers # <<>> => Head(answers) \in AnswerMessage /\ Tail(answers) \in Seq(AnswerMessage)
  BY HeadTailProperties DEF WireTypeOK
<1> HIDE DEF Request
<1>7. CASE AskAll
  <2>1. target \in Light
    BY <1>7 DEF AskAll, SelectionsCounted, Idle
  <2>2. Asked(target, Order) \in Seq(Request)
    BY <2>1, AskedType, OrderProperties DEF Request
  <2> QED
    BY <1>1, <1>3, <1>4, <1>7, <2>2 DEF AskAll, world
<1>8. ASSUME NEW s \in Setting, Control(s) PROVE WireTypeOK'
  <2>1. ToTarget(s) \in Request
    BY DEF ToTarget, Set, SetRequest, Request, ScreenTypeOK
  <2> QED
    BY <1>1, <1>2, <1>4, <1>8, <2>1 DEF Control, world
<1>9. CASE Receive
  BY <1>6, <1>9 DEF Receive, WireTypeOK, world
<1>10. ASSUME NEW i \in DOMAIN tasks, TaskAsks(i) PROVE WireTypeOK'
  <2>1. /\ target \in Light /\ tasks[i].pc = "ask"
        /\ requests' = IF MissesNow(i) THEN requests \o Asked(target, <<Order[tasks[i].k]>>) ELSE requests
        /\ Same
    BY <1>10 DEF TaskAsks, Checks, world
  <2>2. tasks[i] \in Waiting
    BY <2>1, WaitingTask
  <2>3. Order[tasks[i].k] \in Attr
    BY <2>2, OrderProperties DEF Waiting
  <2>4. <<Order[tasks[i].k]>> \in Seq(Attr)
    BY <2>3
  <2>5. Asked(target, <<Order[tasks[i].k]>>) \in Seq(Request)
    BY <2>1, <2>4, AskedType DEF Request
  <2> QED
    BY <1>1, <1>3, <1>4, <2>1, <2>5
<1>11. ASSUME NEW i \in DOMAIN tasks, TaskDies(i) PROVE WireTypeOK'
  <2>1. requests' = <<>> /\ air' = {} /\ answers' = <<>> /\ UNCHANGED world
    BY <1>11 DEF TaskDies
  <2> QED
    BY <2>1, EmptySeq DEF WireTypeOK, world
<1>12. CASE ServeGet \/ ServeSet
  <2>1. /\ requests # <<>> /\ requests' = Tail(requests) /\ air' \in {air, air \cup {Head(requests)}}
        /\ UNCHANGED <<lights, had, answers>>
    BY <1>12 DEF ServeGet, ServeSet, SendGet, SendSet, Written, world
  <2> QED
    BY <1>5, <2>1 DEF WireTypeOK, Request
<1>13. ASSUME NEW m \in air, ReadRsp(m) PROVE WireTypeOK'
  <2>1. /\ m.op = "rsp" /\ air' = air \ {m} /\ UNCHANGED <<lights, had, requests>>
        /\ answers' = answers \o <<>> \/ answers' = answers \o <<Answer(m)>>
    BY <1>13 DEF ReadRsp, Dispatched, world
  <2>2. m \in Response
    BY <2>1 DEF WireTypeOK, GetRequest, SetRequest
  <2>3. Answer(m) \in AnswerMessage
    BY <2>2 DEF Answer, Response, AnswerMessage
  <2>4. <<>> \in Seq(AnswerMessage) /\ <<Answer(m)>> \in Seq(AnswerMessage)
    BY <2>3
  <2>5. \A s, t \in Seq(AnswerMessage) : s \o t \in Seq(AnswerMessage)
    BY ConcatProperties
  <2>6. answers' \in Seq(AnswerMessage)
    BY <2>1, <2>4, <2>5 DEF WireTypeOK
  <2> QED
    BY <2>1, <2>6 DEF WireTypeOK
<1>14. ASSUME NEW c \in air, LightsTake(c) PROVE WireTypeOK'
  <2>1. /\ c.op = "set" /\ air' = air \ {c} /\ UNCHANGED <<requests, answers>>
        /\ had' = [l \in Light |-> [a \in Attr |-> had[l][a] \cup {lights'[l][a]}]]
    BY <1>14 DEF LightsTake
  <2>2. PICK S \in SUBSET LightsOf(c.to) :
          lights' = [l \in Light |->
                      [a \in Attr |-> IF l \in S /\ a \in Has[l] \cap DOMAIN c.with
                                        THEN c.with[a] ELSE lights[l][a]]]
    BY <1>14 DEF LightsTake
  <2>3. c.with \in Setting
    BY <2>1 DEF WireTypeOK, GetRequest, SetRequest, Response
  <2>4. \A a \in DOMAIN c.with : c.with[a] \in Value
    BY <2>3, SettingAssumption
  <2>5. lights' \in [Light -> [Attr -> Value]]
    BY <2>2, <2>4 DEF WireTypeOK
  <2>6. had' \in [Light -> [Attr -> SUBSET Value]]
    BY <2>1, <2>5 DEF WireTypeOK
  <2> QED
    BY <2>1, <2>5, <2>6 DEF WireTypeOK
<1>15. ASSUME NEW c \in air, LightAnswers(c) PROVE WireTypeOK'
  <2>1. /\ c.op = "get" /\ UNCHANGED <<lights, had, requests, answers>>
        /\ air' = (air \ {c}) \cup
             {Rsp(c.to, c.attr, IF c.attr \in Has[c.to] THEN lights[c.to][c.attr] ELSE Undefined)}
    BY <1>15 DEF LightAnswers, world
  <2>2. c \in GetRequest
    BY <2>1 DEF WireTypeOK, SetRequest, Response
  <2>3. (IF c.attr \in Has[c.to] THEN lights[c.to][c.attr] ELSE Undefined) \in Value \cup {Undefined}
    BY <2>2 DEF GetRequest, WireTypeOK
  <2>4. Rsp(c.to, c.attr, IF c.attr \in Has[c.to] THEN lights[c.to][c.attr] ELSE Undefined) \in Response
    BY <2>2, <2>3 DEF GetRequest, Rsp, Response
  <2> QED
    BY <2>1, <2>4 DEF WireTypeOK
<1>16. ASSUME UNCHANGED wire, UNCHANGED world PROVE WireTypeOK'
  BY <1>16 DEF wire, world, WireTypeOK
<1>17. CASE Screen
  BY <1>7, <1>8, <1>16, <1>17 DEF Screen, Select, ClearLoad, ClearStore, SelectGroup, wire
<1>18. CASE RxStep
  BY <1>9, <1>16, <1>18 DEF RxStep, Mark
<1>19. CASE GatewayStep \/ Network
  BY <1>12, <1>13, <1>14, <1>15, <1>19 DEF GatewayStep, Network
<1>20. CASE \E i \in DOMAIN tasks : TaskStep(i)
  BY <1>10, <1>11, <1>16, <1>20 DEF TaskStep, TaskLooks, TaskGivesUp
<1>21. CASE UNCHANGED vars
  BY <1>16, <1>21 DEF vars
<1> QED
  BY <1>17, <1>18, <1>19, <1>20, <1>21 DEF Next

\* The screen, its threads and its tasks keep their types.
LEMMA ScreenTypeStep ==
    ASSUME WireTypeOK, ScreenTypeOK, SelectionsCounted, [Next]_vars
    PROVE  ScreenTypeOK' /\ SelectionsCounted'
<1> USE BoundAssumption
<1>1. ASSUME NEW l \in Light, Select(l) PROVE ScreenTypeOK' /\ SelectionsCounted'
  <2>1. ui' \in [pc : {"load"}, k : DOMAIN Order]
    BY <1>1, OrderProperties DEF Select
  <2>2. /\ sent'.select = sent.select + 1 /\ sent'.command = sent.command
        /\ sent' \in [select : Nat, command : Nat]
    BY <1>1 DEF Select, ScreenTypeOK
  <2>3. SelectionsCounted'
    BY <1>1, <2>2 DEF Select, SelectionsCounted, ScreenTypeOK, InputLeft
  <2>4. UNCHANGED <<shown, updated, heard, known, rx, tasks>> /\ target' = l
    BY <1>1 DEF Select, objects
  <2> QED
    BY <2>1, <2>2, <2>3, <2>4 DEF ScreenTypeOK
<1>2. CASE ClearLoad
  <2>1. target \in Light
    BY <1>2 DEF ClearLoad, SelectionsCounted, Idle
  <2>2. ui \in [pc : {"load"}, k : DOMAIN Order]
    BY <1>2 DEF ClearLoad, ScreenTypeOK, Idle
  <2>3. ui' \in [pc : {"store"}, k : DOMAIN Order, seen : SUBSET Attr]
    BY <1>2, <2>1, <2>2 DEF ClearLoad, ScreenTypeOK
  <2>4. UNCHANGED <<shown, updated, heard, known, rx, tasks, target, sent>>
    BY <1>2 DEF ClearLoad, objects
  <2> QED
    BY <2>1, <2>3, <2>4, <1>2 DEF ScreenTypeOK, SelectionsCounted, ClearLoad, Idle
<1>3. CASE ClearStore
  <2>1. target \in Light /\ sent.select >= 1
    BY <1>3 DEF ClearStore, SelectionsCounted, Idle
  <2>2. ui \in [pc : {"store"}, k : DOMAIN Order, seen : SUBSET Attr]
    BY <1>3 DEF ClearStore, ScreenTypeOK, Idle
  <2>3. ui' \in [pc : {"load"}, k : DOMAIN Order] \cup {[pc |-> "ask"]}
    <3>1. CASE ui.k < Len(Order)
      BY <1>3, <2>2, <3>1, OrderProperties DEF ClearStore
    <3>2. CASE ~(ui.k < Len(Order))
      BY <1>3, <3>2 DEF ClearStore
    <3> QED
      BY <3>1, <3>2
  <2>4. updated' \in [Light -> SUBSET Attr] /\ heard' \in [Light -> SUBSET Attr]
    BY <1>3, <2>2 DEF ClearStore, ScreenTypeOK, Cleared
  <2>5. UNCHANGED <<shown, known, rx, tasks, target, sent>>
    BY <1>3 DEF ClearStore
  <2> QED
    BY <2>1, <2>3, <2>4, <2>5 DEF ScreenTypeOK, SelectionsCounted
<1>4. CASE AskAll
  <2>1. tasks' = [tasks EXCEPT ![sent.select] = Look(0)] /\ ui' = Idle
        /\ UNCHANGED <<shown, updated, heard, known, rx, target, sent>>
    BY <1>4 DEF AskAll, objects
  <2>2. Look(0) \in Waiting
    BY TaskTypes, RoundAssumption
  <2> QED
    BY <2>1, <2>2 DEF ScreenTypeOK, SelectionsCounted
<1>5. ASSUME NEW g \in Group, SelectGroup(g) PROVE ScreenTypeOK' /\ SelectionsCounted'
  BY <1>5 DEF SelectGroup, ScreenTypeOK, SelectionsCounted, objects
<1>6. ASSUME NEW s \in Setting, Control(s) PROVE ScreenTypeOK' /\ SelectionsCounted'
  <2>1. /\ sent'.select = sent.select /\ sent'.command = sent.command + 1
        /\ sent' \in [select : Nat, command : Nat]
    BY <1>6 DEF Control, ScreenTypeOK
  <2>2. UNCHANGED <<shown, updated, heard, known, rx, ui, target, tasks>> /\ InputLeft
    BY <1>6 DEF Control, objects
  <2> QED
    BY <2>1, <2>2 DEF ScreenTypeOK, SelectionsCounted, InputLeft
<1>7. CASE Receive
  <2>1. UNCHANGED <<updated, ui, target, tasks, sent>> /\ answers # <<>>
    BY <1>7 DEF Receive
  <2>2. PICK m \in AnswerMessage :
          IF Found(m.from)
            THEN /\ shown' = [shown EXCEPT ![m.from][m.attr] = m.val]
                 /\ rx' = [pc |-> "mark", light |-> m.from, attr |-> m.attr, seen |-> updated[m.from]]
                 /\ heard' = [heard EXCEPT ![m.from] = @ \cup {m.attr}]
                 /\ known' = [known EXCEPT ![m.from] = @ \cup {m.attr}]
            ELSE UNCHANGED <<shown, rx, heard, known>>
    <3>1. Head(answers) \in AnswerMessage
      BY <2>1, HeadTailProperties DEF WireTypeOK
    <3> QED
      BY <1>7, <3>1 DEF Receive
  <2>3. m.from \in Light /\ m.attr \in Attr /\ m.val \in Value \cup {Undefined}
    BY DEF AnswerMessage
  <2>4. shown' \in [Light -> [Attr -> Value \cup {Undefined}]]
    <3>1. [shown[m.from] EXCEPT ![m.attr] = m.val] \in [Attr -> Value \cup {Undefined}]
      BY <2>3 DEF ScreenTypeOK
    <3>2. shown \in [Light -> [Attr -> Value \cup {Undefined}]]
      BY DEF ScreenTypeOK
    <3>3. [shown EXCEPT ![m.from][m.attr] = m.val] \in [Light -> [Attr -> Value \cup {Undefined}]]
      BY <2>3, <3>1, <3>2
    <3> QED
      BY <2>2, <3>2, <3>3
  <2>5. rx' \in {Idle} \cup [pc : {"mark"}, light : Light, attr : Attr, seen : SUBSET Attr]
    BY <2>2, <2>3 DEF ScreenTypeOK
  <2>6. heard' \in [Light -> SUBSET Attr] /\ known' \in [Light -> SUBSET Attr]
    <3>1. heard[m.from] \cup {m.attr} \in SUBSET Attr
      BY <2>3 DEF ScreenTypeOK
    <3>2. known[m.from] \cup {m.attr} \in SUBSET Attr
      BY <2>3 DEF ScreenTypeOK
    <3>3. heard' \in [Light -> SUBSET Attr]
      BY <2>2, <3>1 DEF ScreenTypeOK
    <3>4. known' \in [Light -> SUBSET Attr]
      BY <2>2, <3>2 DEF ScreenTypeOK
    <3> QED
      BY <3>3, <3>4
  <2> QED
    BY <2>1, <2>4, <2>5, <2>6 DEF ScreenTypeOK, SelectionsCounted
<1>8. CASE Mark
  <2>1. rx \in [pc : {"mark"}, light : Light, attr : Attr, seen : SUBSET Attr]
    BY <1>8 DEF Mark, ScreenTypeOK, Idle
  <2>2. updated' \in [Light -> SUBSET Attr]
    BY <1>8, <2>1 DEF Mark, ScreenTypeOK, Marked
  <2> QED
    BY <1>8, <2>2 DEF Mark, ScreenTypeOK, SelectionsCounted
<1>9. ASSUME NEW i \in DOMAIN tasks, TaskLooks(i) \/ TaskAsks(i) \/ TaskGivesUp(i)
      PROVE  ScreenTypeOK' /\ SelectionsCounted'
  <2>1. tasks[i].pc \in {"look", "ask", "give"}
        /\ UNCHANGED <<shown, updated, heard, known, rx, ui, target, sent>>
    BY <1>9 DEF TaskLooks, TaskAsks, TaskGivesUp, Checks, objects
  <2>2. tasks[i] \in Waiting
    BY <2>1, WaitingTask
  <2>3. Since(i) \in 0..MaxInputs
    BY <2>2 DEF Since, ScreenTypeOK, SelectionsCounted, Waiting
  <2>4. ~AtLast(i) => Next1(tasks[i], i) \in Waiting
    <3>1. ~AtLast(i) => tasks[i].k + 1 \in DOMAIN Order
      BY <2>2, OrderProperties DEF AtLast, Waiting
    <3> HIDE DEF AtLast
    <3> QED
      BY <2>2, <2>3, <3>1 DEF Next1, Waiting
  <2>5. \/ tasks' = [tasks EXCEPT ![i] = [Look(tasks[i].round) EXCEPT !.pc = "ask"]]
        \/ tasks' = [tasks EXCEPT ![i] = NextRound(tasks[i].round)]
        \/ tasks' = [tasks EXCEPT ![i] = [pc |-> "found"]]
        \/ tasks' = [tasks EXCEPT ![i] = [pc |-> "silent"]]
        \/ ~AtLast(i) /\ tasks' = [tasks EXCEPT ![i] = Next1(tasks[i], i)]
    BY <1>9 DEF TaskLooks, TaskAsks, TaskGivesUp
  <2>6. tasks' \in [1..MaxInputs -> {NoTask, Crashed} \cup [pc : {"found", "silent"}] \cup Waiting]
    <3>1. tasks[i].round \in 0..Rounds
      BY <2>2 DEF Waiting
    <3>2. /\ [Look(tasks[i].round) EXCEPT !.pc = "ask"] \in Waiting
          /\ NextRound(tasks[i].round) \in Waiting
      BY <3>1, TaskTypes
    <3>3. [pc |-> "found"] \in [pc : {"found", "silent"}] /\ [pc |-> "silent"] \in [pc : {"found", "silent"}]
      OBVIOUS
    <3> QED
      BY <2>4, <2>5, <3>2, <3>3 DEF ScreenTypeOK
  <2> QED
    BY <2>1, <2>6 DEF ScreenTypeOK, SelectionsCounted
<1>10. ASSUME NEW i \in DOMAIN tasks, TaskDies(i) PROVE ScreenTypeOK' /\ SelectionsCounted'
  <2>1. tasks' \in [1..MaxInputs -> {NoTask, Crashed} \cup [pc : {"found", "silent"}] \cup Waiting]
    BY <1>10 DEF TaskDies, ScreenTypeOK
  <2> QED
    BY <1>10, <2>1 DEF TaskDies, ScreenTypeOK, SelectionsCounted, objects
<1>11. CASE UNCHANGED <<objects, rx, ui, target, tasks, sent>>
  BY <1>11 DEF ScreenTypeOK, SelectionsCounted, objects
<1>12. CASE Screen
  BY <1>1, <1>2, <1>3, <1>4, <1>5, <1>6, <1>12 DEF Screen
<1>13. CASE RxStep
  BY <1>7, <1>8, <1>13 DEF RxStep
<1>14. CASE GatewayStep \/ Network
  BY <1>11, <1>14 DEF GatewayStep, ServeGet, ServeSet, ReadRsp, Network, LightsTake, LightAnswers
<1>15. CASE \E i \in DOMAIN tasks : TaskStep(i)
  BY <1>9, <1>10, <1>15 DEF TaskStep
<1>16. CASE UNCHANGED vars
  BY <1>11, <1>16 DEF vars
<1> QED
  BY <1>12, <1>13, <1>14, <1>15, <1>16 DEF Next

-----------------------------------------------------------------------------
(* Values. *)

\* Every step keeps what lights had, and what is under way and shown of it.
LEMMA ValuesStep ==
    ASSUME LightInv, WireTypeOK', [Next]_vars
    PROVE  ValuesWereTrue' /\ ShownWasHad'
<1> USE DEF LightInv
<1> DEFINE Kept == \A l \in Light, a \in Attr : had[l][a] \subseteq had'[l][a]
           WasTrue(m) == m.attr \in Has[m.from] => m.val \in had[m.from][m.attr]
           Sent(m) == m.op = "rsp" => WasTrue(m)
<1>1. ASSUME UNCHANGED <<lights, had, shown, known>>, \A m \in air' : m \in air \/ Sent(m),
             \A i \in DOMAIN answers' : \E m \in AnswerMessage : answers'[i] = m /\ WasTrue(m)
      PROVE  ValuesWereTrue' /\ ShownWasHad'
  BY <1>1 DEF ValuesWereTrue, ShownWasHad
<1>2. \A i \in DOMAIN answers : answers[i] \in AnswerMessage /\ WasTrue(answers[i])
  BY ElementOfSeq, LenProperties DEF WireTypeOK, ValuesWereTrue
<1>3. CASE Receive
  <2>1. answers # <<>> /\ answers' = Tail(answers) /\ UNCHANGED <<lights, had, air>>
    BY <1>3 DEF Receive, world
  <2>2. /\ 1 \in DOMAIN answers /\ Head(answers) = answers[1]
        /\ \A i \in DOMAIN answers' : i + 1 \in DOMAIN answers /\ answers'[i] = answers[i + 1]
    BY <2>1, HeadTailProperties, LenProperties, EmptySeq DEF WireTypeOK
  <2>3. ValuesWereTrue'
    BY <1>2, <2>1, <2>2 DEF ValuesWereTrue
  <2> DEFINE m == answers[1]
  <2>4. m \in AnswerMessage /\ WasTrue(m)
    BY <1>2, <2>2
  <2>5. \/ UNCHANGED <<shown, known>>
        \/ /\ shown' = [shown EXCEPT ![m.from][m.attr] = m.val]
           /\ known' = [known EXCEPT ![m.from] = @ \cup {m.attr}]
    BY <1>3, <2>2 DEF Receive
  <2>6. ASSUME NEW l \in Light, NEW a \in Has[l] \cap known'[l]
        PROVE  \/ a \in known[l] /\ shown'[l][a] = shown[l][a]
               \/ l = m.from /\ a = m.attr /\ shown'[l][a] = m.val
    <3>1. a \in Attr
      BY HasAssumption
    <3>2. m.from \in Light /\ m.attr \in Attr
      BY <2>4 DEF AnswerMessage
    <3> QED
      BY <2>5, <3>1, <3>2 DEF ScreenTypeOK
  <2>7. ShownWasHad'
    BY <2>1, <2>4, <2>6 DEF ShownWasHad
  <2> QED
    BY <2>3, <2>7
<1>4. CASE ServeGet \/ ServeSet
  <2>1. /\ air' \in {air, air \cup {Head(requests)}} /\ requests # <<>>
        /\ UNCHANGED <<lights, had, shown, known, answers>>
    BY <1>4 DEF ServeGet, ServeSet, SendGet, SendSet, Written, world, objects
  <2>2. Head(requests) \in GetRequest \cup SetRequest
    BY <2>1, HeadTailProperties DEF WireTypeOK
  <2>3. Head(requests).op # "rsp"
    BY <2>2 DEF GetRequest, SetRequest
  <2> QED
    BY <1>1, <1>2, <2>1, <2>3
<1>5. ASSUME NEW m \in air, ReadRsp(m) PROVE ValuesWereTrue' /\ ShownWasHad'
  <2>1. /\ m.op = "rsp" /\ air' = air \ {m} /\ UNCHANGED <<lights, had, shown, known>>
        /\ answers' = answers \o <<>> \/ answers' = answers \o <<Answer(m)>>
    BY <1>5 DEF ReadRsp, Dispatched, world, objects
  <2>2. m \in Response
    BY <2>1 DEF WireTypeOK, GetRequest, SetRequest
  <2>3. Answer(m) \in AnswerMessage
    BY <2>2 DEF Answer, Response, AnswerMessage
  <2>4. WasTrue(Answer(m))
    BY <2>1 DEF ValuesWereTrue, Answer
  <2>5. answers' = answers \/ answers' = Append(answers, Answer(m))
    BY <2>1, <2>3, ConcatEmptySeq DEF WireTypeOK
  <2>6. \A i \in DOMAIN answers' : \E n \in AnswerMessage : answers'[i] = n /\ WasTrue(n)
    <3>1. CASE answers' = answers
      BY <1>2, <3>1
    <3>2. CASE answers' = Append(answers, Answer(m))
      <4>1. \A i \in DOMAIN answers' : (i \in DOMAIN answers /\ answers'[i] = answers[i])
                                       \/ answers'[i] = Answer(m)
        BY <2>3, <3>2, AppendProperties, LenProperties DEF WireTypeOK
      <4> QED
        BY <1>2, <2>3, <2>4, <4>1
    <3> QED
      BY <2>5, <3>1, <3>2
  <2> QED
    BY <1>1, <2>1, <2>6
<1>6. ASSUME NEW c \in air, LightsTake(c) PROVE ValuesWereTrue' /\ ShownWasHad'
  <2>1. /\ air' = air \ {c} /\ UNCHANGED <<shown, known, answers>>
        /\ had' = [l \in Light |-> [a \in Attr |-> had[l][a] \cup {lights'[l][a]}]]
    BY <1>6 DEF LightsTake, objects
  <2>2. \A l \in Light, a \in Attr : had'[l][a] = had[l][a] \cup {lights'[l][a]}
    BY <2>1
  <2>3. \A l \in Light, a \in Attr : lights'[l][a] \in had'[l][a]
    BY <2>2
  <2>4. Kept
    BY <2>2
  <2>5. \A m \in air' : Sent(m) => (Sent(m))'
    <3> SUFFICES ASSUME NEW m \in air', m.op = "rsp", m.attr \in Has[m.from], Sent(m)
                 PROVE  m.val \in had'[m.from][m.attr]
      OBVIOUS
    <3>1. m \in Response
      BY <2>1 DEF WireTypeOK, GetRequest, SetRequest
    <3>2. m.from \in Light /\ m.attr \in Attr
      BY <3>1 DEF Response
    <3> QED
      BY <2>4, <3>2
  <2>6. \A i \in DOMAIN answers' : LET m == answers'[i] IN
          m.attr \in Has[m.from] => m.val \in had'[m.from][m.attr]
    <3> SUFFICES ASSUME NEW i \in DOMAIN answers, answers[i].attr \in Has[answers[i].from]
                 PROVE  answers[i].val \in had'[answers[i].from][answers[i].attr]
      BY <2>1
    <3>1. answers[i] \in AnswerMessage /\ WasTrue(answers[i])
      BY <1>2
    <3>2. answers[i].from \in Light /\ answers[i].attr \in Attr
      BY <3>1 DEF AnswerMessage
    <3> QED
      BY <2>4, <3>1, <3>2
  <2>7. ValuesWereTrue'
    BY <2>1, <2>3, <2>5, <2>6 DEF ValuesWereTrue
  <2>8. ShownWasHad'
    BY <2>1, <2>4, HasAssumption DEF ShownWasHad
  <2> QED
    BY <2>7, <2>8
<1>7. ASSUME NEW c \in air, LightAnswers(c) PROVE ValuesWereTrue' /\ ShownWasHad'
  <2> DEFINE v == IF c.attr \in Has[c.to] THEN lights[c.to][c.attr] ELSE Undefined
  <2>1. /\ c.op = "get" /\ UNCHANGED <<lights, had, shown, known, answers>>
        /\ air' = (air \ {c}) \cup {Rsp(c.to, c.attr, v)}
    BY <1>7 DEF LightAnswers, world, objects
  <2>2. c \in GetRequest
    BY <2>1 DEF WireTypeOK, SetRequest, Response
  <2>3. Sent(Rsp(c.to, c.attr, v))
    BY <2>2 DEF Rsp, GetRequest, ValuesWereTrue
  <2> QED
    BY <1>1, <1>2, <2>1, <2>3
<1>8. ASSUME NEW i \in DOMAIN tasks, TaskDies(i) PROVE ValuesWereTrue' /\ ShownWasHad'
  BY <1>1, <1>8 DEF TaskDies, world, objects
<1>9. ASSUME UNCHANGED <<lights, had, shown, known, air, answers>> PROVE ValuesWereTrue' /\ ShownWasHad'
  BY <1>1, <1>2, <1>9
<1>10. CASE Screen
  BY <1>9, <1>10 DEF Screen, Select, ClearLoad, ClearStore, AskAll, SelectGroup, Control, world,
       wire, objects
<1>11. CASE RxStep
  BY <1>3, <1>9, <1>11 DEF RxStep, Mark, world, wire
<1>12. CASE GatewayStep \/ Network
  BY <1>4, <1>5, <1>6, <1>7, <1>12 DEF GatewayStep, Network
<1>13. CASE \E i \in DOMAIN tasks : TaskStep(i)
  BY <1>8, <1>9, <1>13 DEF TaskStep, TaskLooks, TaskAsks, TaskGivesUp, world, wire, objects
<1>14. CASE UNCHANGED vars
  BY <1>9, <1>14 DEF vars, world, wire, objects
<1> QED
  BY <1>10, <1>11, <1>12, <1>13, <1>14 DEF Next

-----------------------------------------------------------------------------
(* Marks. *)

\* Every step keeps what the marks mean.
LEMMA MarksStep ==
    ASSUME LightInv, ScreenTypeOK', SelectionsCounted', [Next]_vars
    PROVE  LoadsAreFresh' /\ MarksAreTrue'
<1> USE DEF LightInv
<1> SUFFICES ASSUME Up' PROVE LoadsAreFresh' /\ MarksAreTrue'
  BY DEF LoadsAreFresh, MarksAreTrue
<1>1. Up
  BY UpBefore
<1>2. CASE ClearLoad
  <2>1. /\ ui'.pc = "store" /\ ui'.seen = updated[target]
        /\ UNCHANGED <<updated, heard, raced, rx, target>>
    BY <1>2 DEF ClearLoad, objects
  <2> QED
    BY <1>1, <2>1 DEF LoadsAreFresh, MarksAreTrue
<1>3. CASE ClearStore
  <2>1. target \in Light
    BY <1>3 DEF ClearStore, SelectionsCounted, Idle
  <2>2. ui \in [pc : {"store"}, k : DOMAIN Order, seen : SUBSET Attr]
    BY <1>3 DEF ClearStore, ScreenTypeOK, Idle
  <2>3. /\ updated' = [updated EXCEPT ![target] = ui.seen \ {Order[ui.k]}]
        /\ heard' = [heard EXCEPT ![target] = @ \ {Order[ui.k]}]
        /\ raced' = IF rx.pc = "mark" /\ rx.light = target THEN raced \cup {target} ELSE raced
        /\ ui'.pc # "store" /\ UNCHANGED <<rx, target>>
    BY <1>3 DEF ClearStore, Cleared
  <2>4. LoadsAreFresh'
    <3> SUFFICES ASSUME rx.pc = "mark", rx.light \notin raced' PROVE rx.seen = updated'[rx.light]
      BY <2>3 DEF LoadsAreFresh
    <3>1. rx.light # target /\ rx.light \notin raced
      BY <2>3
    <3>2. rx.light \in Light
      BY DEF ScreenTypeOK, Idle
    <3> QED
      BY <1>1, <2>3, <3>1, <3>2 DEF LoadsAreFresh, ScreenTypeOK
  <2>5. ASSUME NEW l \in Light \ raced'
        PROVE  heard'[l] = updated'[l] \cup
                 (IF rx.pc = "mark" /\ rx.light = l THEN {rx.attr} ELSE {})
    <3>1. CASE l # target
      BY <1>1, <2>3, <2>5, <3>1 DEF MarksAreTrue, ScreenTypeOK
    <3>2. CASE l = target
      <4>1. l \notin raced /\ ~(rx.pc = "mark" /\ rx.light = l)
        BY <2>3, <2>5, <3>2
      <4>2. heard[l] = updated[l]
        BY <1>1, <4>1 DEF MarksAreTrue
      <4>3. ui.seen = updated[l]
        BY <1>1, <1>3, <3>2, <4>1 DEF LoadsAreFresh, ClearStore
      <4>4. heard'[l] = heard[l] \ {Order[ui.k]} /\ updated'[l] = ui.seen \ {Order[ui.k]}
        BY <2>3, <3>2 DEF ScreenTypeOK
      <4> QED
        BY <4>1, <4>2, <4>3, <4>4
    <3> QED
      BY <3>1, <3>2
  <2> QED
    BY <2>3, <2>4, <2>5 DEF MarksAreTrue
<1>4. CASE Receive
  <2>1. /\ rx = Idle /\ UNCHANGED <<updated, raced, ui, target>> /\ answers # <<>>
    BY <1>4 DEF Receive
  <2>2. PICK m \in AnswerMessage :
          IF Found(m.from)
            THEN /\ rx' = [pc |-> "mark", light |-> m.from, attr |-> m.attr, seen |-> updated[m.from]]
                 /\ heard' = [heard EXCEPT ![m.from] = @ \cup {m.attr}]
            ELSE UNCHANGED <<rx, heard>>
    <3>1. Head(answers) \in AnswerMessage
      BY <2>1, HeadTailProperties DEF WireTypeOK
    <3> QED
      BY <1>4, <3>1 DEF Receive
  <2>3. m.from \in Light /\ m.attr \in Attr
    BY DEF AnswerMessage
  <2>4. LoadsAreFresh'
    BY <1>1, <2>1, <2>2 DEF LoadsAreFresh
  <2>5. CASE Found(m.from)
    <3>1. \A l \in Light : heard'[l] = IF l = m.from THEN heard[l] \cup {m.attr} ELSE heard[l]
      BY <2>2, <2>3, <2>5 DEF ScreenTypeOK
    <3>2. \A l \in Light \ raced : heard[l] = updated[l]
      BY <1>1, <2>1 DEF MarksAreTrue, Idle
    <3>3. rx'.pc = "mark" /\ rx'.light = m.from /\ rx'.attr = m.attr
      BY <2>2, <2>5
    <3>4. \A l \in Light \ raced' : heard'[l] = updated'[l] \cup
             (IF rx'.pc = "mark" /\ rx'.light = l THEN {rx'.attr} ELSE {})
      BY <2>1, <3>1, <3>2, <3>3
    <3> QED
      BY <2>4, <3>4 DEF MarksAreTrue
  <2>6. CASE ~Found(m.from)
    BY <1>1, <2>1, <2>2, <2>4, <2>6 DEF MarksAreTrue
  <2> QED
    BY <2>5, <2>6
<1>5. CASE Mark
  <2>1. rx \in [pc : {"mark"}, light : Light, attr : Attr, seen : SUBSET Attr]
    BY <1>5 DEF Mark, ScreenTypeOK, Idle
  <2>2. /\ updated' = [updated EXCEPT ![rx.light] = rx.seen \cup {rx.attr}]
        /\ raced' = IF ui.pc = "store" /\ target = rx.light THEN raced \cup {rx.light} ELSE raced
        /\ rx' = Idle /\ rx.pc = "mark" /\ UNCHANGED <<heard, ui, target>>
    BY <1>5 DEF Mark, Marked
  <2>3. LoadsAreFresh'
    <3> SUFFICES ASSUME ui.pc = "store", target \notin raced' PROVE ui.seen = updated'[target]
      BY <2>2 DEF LoadsAreFresh, Idle
    <3>1. rx.light # target /\ target \notin raced
      BY <2>2
    <3>2. target \in Light
      BY DEF SelectionsCounted, Idle
    <3> QED
      BY <1>1, <2>2, <3>1, <3>2 DEF LoadsAreFresh, ScreenTypeOK
  <2>4. ASSUME NEW l \in Light \ raced' PROVE heard'[l] = updated'[l]
    <3>1. l \notin raced
      BY <2>2, <2>4
    <3>2. CASE l # rx.light
      <4>1. heard[l] = updated[l]
        BY <1>1, <3>1, <3>2 DEF MarksAreTrue
      <4> QED
        BY <2>2, <3>2, <4>1 DEF ScreenTypeOK
    <3>3. CASE l = rx.light
      BY <1>1, <2>2, <3>1, <3>3 DEF MarksAreTrue, LoadsAreFresh, ScreenTypeOK
    <3> QED
      BY <3>2, <3>3
  <2> QED
    BY <2>2, <2>3, <2>4 DEF MarksAreTrue, Idle
<1>6. CASE (\E l \in Light : Select(l)) \/ (\E g \in Group : SelectGroup(g)) \/ AskAll
  <2>1. UNCHANGED <<updated, heard, raced, rx>> /\ ui'.pc # "store"
    BY <1>6 DEF Select, SelectGroup, AskAll, objects, Idle
  <2> QED
    BY <1>1, <2>1 DEF LoadsAreFresh, MarksAreTrue
<1>7. CASE UNCHANGED <<updated, heard, raced, rx, ui, target>>
  BY <1>1, <1>7 DEF LoadsAreFresh, MarksAreTrue
<1>8. CASE Screen
  BY <1>2, <1>3, <1>6, <1>7, <1>8 DEF Screen, Control, objects
<1>9. CASE RxStep
  BY <1>4, <1>5, <1>9 DEF RxStep
<1>10. CASE GatewayStep \/ Network
  BY <1>7, <1>10 DEF GatewayStep, ServeGet, ServeSet, ReadRsp, Network, LightsTake, LightAnswers,
       objects
<1>11. CASE \E i \in DOMAIN tasks : TaskStep(i)
  <2>1. PICK i \in DOMAIN tasks : TaskStep(i)
    BY <1>11
  <2>2. ~TaskDies(i)
    BY DEF TaskDies, Up
  <2> QED
    BY <1>7, <2>1, <2>2 DEF TaskStep, TaskLooks, TaskAsks, TaskGivesUp, objects
<1>12. CASE UNCHANGED vars
  BY <1>7, <1>12 DEF vars, objects
<1> QED
  BY <1>8, <1>9, <1>10, <1>11, <1>12 DEF Next

-----------------------------------------------------------------------------
(* Tasks. *)

\* A task that looks at one more attribute of the light has passed it too.
LEMMA TaskPasses ==
    ASSUME LightInv, NEW i \in DOMAIN tasks, tasks[i].pc \in {"look", "ask", "give"}
    PROVE  /\ Since(i) <= sent.select
           /\ Since(i) = sent.select /\ tasks[i].pc = "look" =>
                ui = Idle /\ (target \in Light \ raced => \A j \in 1..(tasks[i].k - 1) : Order[j] \notin Missing(target))
           /\ Since(i) = sent.select => ui = Idle
<1> USE DEF LightInv
<1>1. tasks[i] \in Waiting /\ tasks[i].k \in Nat \ {0}
  BY WaitingTask, OrderProperties DEF Waiting
<1>2. sent.select \in Nat
  BY DEF ScreenTypeOK
<1>3. CASE tasks[i].k > 1
  BY <1>3 DEF PassedAreMarked, Passed, Since
<1>4. CASE tasks[i].k = 1
  <2>1. 1..(tasks[i].k - 1) = {}
    BY <1>4
  <2>2. Since(i) = IF ui = Idle THEN sent.select ELSE 0
    BY <1>4 DEF Since
  <2>3. ui # Idle => sent.select >= 1
    BY DEF SelectionsCounted
  <2> QED
    BY <1>2, <2>1, <2>2, <2>3
<1> QED
  BY <1>1, <1>3, <1>4

\* Every step keeps what tasks have passed.
LEMMA PassedStep ==
    ASSUME LightInv, ScreenTypeOK', [Next]_vars
    PROVE  PassedAreMarked'
<1> USE DEF LightInv
<1>0. sent.select \in Nat
  BY DEF ScreenTypeOK
<1>1. ASSUME UNCHANGED <<tasks, sent, raced, ui>>, target' = target \/ target' \notin Light,
             \A l \in Light \ raced : updated[l] \subseteq updated'[l]
      PROVE  PassedAreMarked'
  <2>1. \A l \in Light \ raced : Missing(l)' \subseteq Missing(l)
    BY <1>1 DEF Missing
  <2> HIDE DEF Missing
  <2> QED
    BY <1>1, <2>1 DEF PassedAreMarked, Passed
<1>2. ASSUME UNCHANGED tasks, sent'.select = sent.select, ui # Idle
      PROVE  PassedAreMarked'
  BY <1>2 DEF PassedAreMarked, Passed
<1>3. ASSUME NEW l \in Light, Select(l) PROVE PassedAreMarked'
  <2>1. sent'.select = sent.select + 1 /\ UNCHANGED tasks
    BY <1>3 DEF Select, ScreenTypeOK
  <2>2. SUFFICES ASSUME NEW i \in DOMAIN tasks, tasks[i].pc \in {"look", "ask", "give"},
                        tasks[i].k > 1
                 PROVE  tasks[i].since <= sent'.select /\ tasks[i].since # sent'.select
    BY <2>1 DEF PassedAreMarked, Passed
  <2>3. tasks[i].since \in Nat
    BY <2>2, WaitingTask, BoundAssumption DEF Waiting
  <2> QED
    BY <1>0, <2>1, <2>2, <2>3 DEF PassedAreMarked, Passed
<1>4. CASE ClearLoad \/ ClearStore
  BY <1>2, <1>4 DEF ClearLoad, ClearStore, Idle
<1>5. CASE AskAll
  <2>1. /\ tasks' = [tasks EXCEPT ![sent.select] = Look(0)] /\ ui # Idle
        /\ UNCHANGED sent
    BY <1>5 DEF AskAll, Idle
  <2>2. SUFFICES ASSUME NEW i \in DOMAIN tasks, tasks'[i].pc \in {"look", "ask", "give"},
                        tasks'[i].k > 1
                 PROVE  tasks'[i].since <= sent.select /\ tasks'[i].since # sent.select
    BY <2>1 DEF PassedAreMarked, Passed
  <2>3. tasks'[i] = tasks[i]
    BY <2>1, <2>2 DEF Look
  <2>4. tasks[i].since \in Nat
    BY <2>2, <2>3, WaitingTask, BoundAssumption DEF Waiting
  <2> QED
    BY <1>0, <2>1, <2>2, <2>3, <2>4 DEF PassedAreMarked, Passed
<1>6. ASSUME NEW g \in Group, SelectGroup(g) PROVE PassedAreMarked'
  <2>1. target' \notin Light
    BY <1>6, GroupAssumption DEF SelectGroup
  <2> QED
    BY <1>1, <1>6, <2>1 DEF SelectGroup, objects
<1>7. ASSUME NEW s \in Setting, Control(s) PROVE PassedAreMarked'
  <2>1. sent'.select = sent.select /\ UNCHANGED <<tasks, raced, ui, target, updated>>
    BY <1>7 DEF Control, ScreenTypeOK, objects
  <2> QED
    BY <2>1 DEF PassedAreMarked, Passed, Missing
<1>8. CASE Mark
  <2>1. rx \in [pc : {"mark"}, light : Light, attr : Attr, seen : SUBSET Attr]
    BY <1>8 DEF Mark, ScreenTypeOK, Idle
  <2>2. /\ updated' = [updated EXCEPT ![rx.light] = rx.seen \cup {rx.attr}]
        /\ UNCHANGED <<tasks, sent, ui, target>> /\ rx.pc = "mark" /\ Up
        /\ raced' = IF ui.pc = "store" /\ target = rx.light THEN raced \cup {rx.light} ELSE raced
    BY <1>8 DEF Mark, Marked
  <2>3. CASE ui = Idle
    <3>1. \A l \in Light \ raced : updated[l] \subseteq updated'[l]
      BY <2>1, <2>2 DEF LoadsAreFresh, ScreenTypeOK
    <3>2. raced' = raced
      BY <2>2, <2>3 DEF Idle
    <3> QED
      BY <1>1, <2>2, <3>1, <3>2
  <2>4. CASE ui # Idle
    BY <1>2, <2>2, <2>4
  <2> QED
    BY <2>3, <2>4
<1>9. ASSUME NEW i \in DOMAIN tasks, TaskLooks(i) \/ TaskAsks(i) \/ TaskGivesUp(i)
      PROVE  PassedAreMarked'
  <2>1. /\ tasks[i].pc \in {"look", "ask", "give"} /\ target \in Light
        /\ UNCHANGED <<updated, raced, ui, target, sent>>
    BY <1>9 DEF TaskLooks, TaskAsks, TaskGivesUp, Checks, objects
  <2>2. tasks[i] \in Waiting
    BY <2>1, WaitingTask
  <2>3. \/ tasks' = [tasks EXCEPT ![i] = [Look(tasks[i].round) EXCEPT !.pc = "ask"]]
        \/ tasks' = [tasks EXCEPT ![i] = NextRound(tasks[i].round)]
        \/ tasks' = [tasks EXCEPT ![i] = [pc |-> "found"]]
        \/ tasks' = [tasks EXCEPT ![i] = [pc |-> "silent"]]
        \/ /\ tasks' = [tasks EXCEPT ![i] = Next1(tasks[i], i)]
           /\ tasks[i].pc = "look" => ~MissesNow(i)
    BY <1>9 DEF TaskLooks, TaskAsks, TaskGivesUp, Checks
  <2>4. \A j \in DOMAIN tasks : j # i => tasks'[j] = tasks[j]
    BY <2>3
  <2>5. Missing(target)' = Missing(target)
    BY <2>1 DEF Missing
  <2>6. \A j \in DOMAIN tasks : j # i => Passed(j)'
    BY <2>1, <2>4, <2>5 DEF PassedAreMarked, Passed
  <2>7. Passed(i)'
    <3>1. CASE \/ tasks'[i] = [Look(tasks[i].round) EXCEPT !.pc = "ask"]
               \/ tasks'[i] = NextRound(tasks[i].round)
      <4>1. tasks[i].round \in 0..Rounds
        BY <2>2 DEF Waiting
      <4>2. NextRound(tasks[i].round).k = 1
        BY <4>1, TaskTypes
      <4>3. tasks'[i].k = 1
        BY <3>1, <4>2 DEF Look
      <4> QED
        BY <4>3 DEF Passed
    <3>2. CASE tasks'[i].pc \in {"found", "silent"}
      BY <3>2 DEF Passed
    <3>3. CASE tasks'[i] = Next1(tasks[i], i) /\ (tasks[i].pc = "look" => ~MissesNow(i))
      <4>1. /\ tasks'[i].pc = tasks[i].pc /\ tasks'[i].k = tasks[i].k + 1
            /\ tasks'[i].since = Since(i)
        BY <2>2, <3>3 DEF Next1, Waiting
      <4>2. tasks[i].k \in Nat
        BY <2>2, OrderProperties DEF Waiting
      <4>3. \A j \in 1..(tasks'[i].k - 1) : j \in 1..(tasks[i].k - 1) \/ j = tasks[i].k
        BY <4>1, <4>2
      <4>4. tasks[i].pc = "look" => Order[tasks[i].k] \notin Missing(target)
        BY <3>3 DEF MissesNow
      <4> QED
        BY <2>1, <2>5, <4>1, <4>3, <4>4, TaskPasses DEF Passed
    <3> QED
      BY <2>3, <3>1, <3>2, <3>3
  <2> QED
    BY <2>3, <2>6, <2>7 DEF PassedAreMarked, Passed
<1>10. ASSUME NEW i \in DOMAIN tasks, TaskDies(i) PROVE PassedAreMarked'
  BY <1>10 DEF TaskDies, PassedAreMarked, Passed, Crashed
<1>11. CASE UNCHANGED <<tasks, sent, raced, ui, target, updated>>
  BY <1>1, <1>11
<1>12. CASE Screen
  BY <1>3, <1>4, <1>5, <1>6, <1>7, <1>12 DEF Screen
<1>13. CASE RxStep
  BY <1>8, <1>11, <1>13 DEF RxStep, Receive
<1>14. CASE GatewayStep \/ Network
  BY <1>11, <1>14 DEF GatewayStep, ServeGet, ServeSet, ReadRsp, Network, LightsTake, LightAnswers,
       objects
<1>15. CASE \E i \in DOMAIN tasks : TaskStep(i)
  BY <1>9, <1>10, <1>15 DEF TaskStep
<1>16. CASE UNCHANGED vars
  BY <1>11, <1>16 DEF vars, objects
<1> QED
  BY <1>12, <1>13, <1>14, <1>15, <1>16 DEF Next

-----------------------------------------------------------------------------
(* Theorems. *)

\* The invariant holds when the screen opens.
LEMMA LightInvInit == Init => LightInv
<1> SUFFICES ASSUME Init PROVE LightInv
  OBVIOUS
<1> USE BoundAssumption DEF Init
<1>1. WireTypeOK
  <2>1. lights \in [Light -> [Attr -> Value]] /\ had \in [Light -> [Attr -> SUBSET Value]]
    BY DEF Value
  <2> QED
    BY <2>1, EmptySeq DEF WireTypeOK
<1>2. ScreenTypeOK
  <2>1. shown \in [Light -> [Attr -> Value \cup {Undefined}]]
    BY DEF Value
  <2>2. /\ updated \in [Light -> SUBSET Attr]
        /\ heard \in [Light -> SUBSET Attr] /\ known \in [Light -> SUBSET Attr]
    OBVIOUS
  <2>3. target \in Light \cup Group
    BY LightAssumption
  <2> QED
    BY <2>1, <2>2, <2>3 DEF ScreenTypeOK
<1>3. SelectionsCounted
  BY DEF SelectionsCounted
<1>4. ValuesWereTrue /\ ShownWasHad
  BY HasAssumption DEF ValuesWereTrue, ShownWasHad
<1>5. LoadsAreFresh /\ MarksAreTrue
  BY DEF LoadsAreFresh, MarksAreTrue, Idle
<1>6. PassedAreMarked
  BY DEF PassedAreMarked, Passed, NoTask
<1> QED
  BY <1>1, <1>2, <1>3, <1>4, <1>5, <1>6 DEF LightInv

\* It is inductive.
THEOREM LightInvariant == Spec => []LightInv
<1>1. LightInv /\ [Next]_vars => LightInv'
  <2> SUFFICES ASSUME LightInv, [Next]_vars PROVE LightInv'
    OBVIOUS
  <2>1. WireTypeOK' /\ ScreenTypeOK' /\ SelectionsCounted'
    BY WireTypeStep, ScreenTypeStep DEF LightInv
  <2>2. ValuesWereTrue' /\ ShownWasHad'
    BY <2>1, ValuesStep
  <2>3. LoadsAreFresh' /\ MarksAreTrue'
    BY <2>1, MarksStep
  <2>4. PassedAreMarked'
    BY <2>1, PassedStep
  <2> QED
    BY <2>1, <2>2, <2>3, <2>4 DEF LightInv
<1> QED
  BY LightInvInit, <1>1, PTL DEF Spec

\* What the invariant says of the types.
LEMMA LightTypeImplied == WireTypeOK /\ ScreenTypeOK => TypeOK
<1> SUFFICES ASSUME WireTypeOK, ScreenTypeOK PROVE TypeOK
  OBVIOUS
<1>1. ASSUME NEW r \in ToSet(requests) \cup air
      PROVE  \/ r \in {Get(l, a) : l \in Light, a \in Attr}
             \/ r \in {Set(t, s) : t \in Light \cup Group, s \in Setting}
             \/ r \in {Rsp(l, a, v) : l \in Light, a \in Attr, v \in Value \cup {Undefined}}
  <2>1. r \in GetRequest \cup SetRequest \cup Response
    BY <1>1, ElementOfSeq, LenProperties DEF WireTypeOK, ToSet
  <2>2. CASE r \in GetRequest
    <3>1. r = Get(r.to, r.attr) /\ r.to \in Light /\ r.attr \in Attr
      BY <2>2 DEF GetRequest, Get
    <3> QED
      BY <3>1
  <2>3. CASE r \in SetRequest
    <3>1. r = Set(r.to, r.with) /\ r.to \in Light \cup Group /\ r.with \in Setting
      BY <2>3 DEF SetRequest, Set
    <3> QED
      BY <3>1
  <2>4. CASE r \in Response
    <3>1. r = Rsp(r.from, r.attr, r.val) /\ r.from \in Light /\ r.attr \in Attr
          /\ r.val \in Value \cup {Undefined}
      BY <2>4 DEF Response, Rsp
    <3> QED
      BY <3>1
  <2> QED
    BY <2>1, <2>2, <2>3, <2>4
<1>2. \A m \in ToSet(answers) : m.from \in Light /\ m.attr \in Attr
  <2>1. \A m \in ToSet(answers) : m \in AnswerMessage
    BY ElementOfSeq, LenProperties DEF WireTypeOK, ToSet
  <2> QED
    BY <2>1 DEF AnswerMessage
<1>3. rx.pc \in {"idle", "mark"} /\ ui.pc \in {"idle", "load", "store", "ask"}
  BY DEF ScreenTypeOK, Idle
<1>4. tasks \in [1..MaxInputs -> {NoTask, Crashed} \cup [pc : {"found", "silent"}] \cup
                  [pc : {"look", "ask", "give"}, round : 0..Rounds, k : DOMAIN Order,
                   since : 0..MaxInputs]]
  BY DEF ScreenTypeOK, Waiting
<1> QED
  BY <1>1, <1>2, <1>3, <1>4 DEF TypeOK, WireTypeOK, ScreenTypeOK

\* Every message, thread and task is in one of the forms the code gives it.
THEOREM LightTypeCorrect == Spec => []TypeOK
<1>1. LightInv => TypeOK
  BY LightTypeImplied DEF LightInv
<1> QED
  BY <1>1, LightInvariant, PTL

\* Whatever the lights are set to when the application starts, what it holds of an
\* attribute it has received is a value that the attribute of that light has had,
\* whatever commands, reads and answers are lost or pass each other.
THEOREM ReceivedWasHad == Spec => []ShownWasHad
<1>1. LightInv => ShownWasHad
  BY DEF LightInv
<1> QED
  BY <1>1, LightInvariant, PTL

\* A mark says that its attribute was received since it was cleared, and the lack
\* of one that it was not, for every light whose marks two threads did not update
\* at once (zllMain.java:191-194).
THEOREM MarksCanBeTrusted == Spec => []MarksAreTrue
<1>1. LightInv => MarksAreTrue
  BY DEF LightInv
<1> QED
  BY <1>1, LightInvariant, PTL

\* What a task that ends well has seen.
LEMMA EndsWellStep ==
    ASSUME LightInv, Next, NEW i \in DOMAIN tasks, EndsWell(i), target \notin raced
    PROVE  IF tasks[i].pc = "look" THEN Has[target] \subseteq heard[target]
           ELSE Has[target] = Attr => heard[target] # {}
<1> USE DEF LightInv
<1>1. TaskLooks(i) \/ TaskGivesUp(i)
  <2>1. tasks'[i] # tasks[i] /\ tasks'[i].pc = "found"
    BY DEF EndsWell
  <2>2. ~(Screen \/ RxStep \/ GatewayStep \/ Network)
    <3>1. CASE AskAll
      BY <2>1, <3>1 DEF AskAll, ScreenTypeOK, Look
    <3>2. CASE UNCHANGED tasks
      BY <2>1, <3>2
    <3> QED
      BY <3>1, <3>2 DEF Screen, Select, ClearLoad, ClearStore, SelectGroup, Control, RxStep,
           Receive, Mark, GatewayStep, ServeGet, ServeSet, ReadRsp, Network, LightsTake, LightAnswers
  <2>3. PICK j \in DOMAIN tasks : TaskStep(j)
    BY <2>2 DEF Next
  <2>4. ~TaskDies(j)
    BY <2>1 DEF TaskDies, Crashed
  <2>5. j = i
    BY <2>1, <2>3, <2>4 DEF TaskStep, TaskLooks, TaskAsks, TaskGivesUp
  <2>6. ~TaskAsks(i)
    <3> SUFFICES ASSUME TaskAsks(i) PROVE FALSE
      OBVIOUS
    <3>1. tasks[i].pc = "ask"
      BY DEF TaskAsks, Checks
    <3> QED
      BY <3>1 DEF EndsWell
  <2> QED
    BY <2>3, <2>4, <2>5, <2>6 DEF TaskStep
<1>2. /\ target \in Light /\ Up /\ ui = Idle
      /\ tasks[i].pc \in {"look", "give"} /\ Since(i) = sent.select
  BY <1>1 DEF EndsWell, TaskLooks, TaskGivesUp, Checks
<1>3. updated[target] \subseteq heard[target]
  BY <1>2 DEF MarksAreTrue
<1>4. tasks[i] \in Waiting
  BY <1>2, WaitingTask
<1>5. Order[tasks[i].k] \in Attr /\ tasks[i].k \in Nat \ {0}
  BY <1>4, OrderProperties DEF Waiting
<1>6. CASE TaskGivesUp(i)
  <2>1. tasks[i].pc = "give"
    BY <1>6 DEF TaskGivesUp, Checks
  <2>2. ~MissesNow(i)
    <3> SUFFICES ASSUME MissesNow(i) PROVE FALSE
      OBVIOUS
    <3>1. tasks'[i].pc = IF AtLast(i) THEN "silent" ELSE tasks[i].pc
      BY <1>4, <1>6 DEF TaskGivesUp, Next1, ScreenTypeOK, Waiting
    <3> QED
      BY <2>1, <3>1 DEF EndsWell
  <2>3. Has[target] = Attr => Order[tasks[i].k] \in updated[target]
    BY <1>5, <2>2 DEF MissesNow, Missing
  <2> QED
    BY <1>3, <2>1, <2>3
<1>7. CASE TaskLooks(i)
  <2>1. tasks[i].pc = "look"
    BY <1>7 DEF TaskLooks, Checks
  <2>2. ~MissesNow(i) /\ AtLast(i)
    <3>1. tasks[i].round \in 0..Rounds
      BY <1>4 DEF Waiting
    <3>2. NextRound(tasks[i].round).pc \in {"look", "give"}
      BY DEF NextRound, Look
    <3>3. [Look(tasks[i].round) EXCEPT !.pc = "ask"].pc = "ask"
      BY DEF Look
    <3>4. Next1(tasks[i], i).pc = tasks[i].pc
      BY <1>4 DEF Next1, Waiting
    <3>5. \/ tasks'[i] = [Look(tasks[i].round) EXCEPT !.pc = "ask"]
          \/ tasks'[i] = NextRound(tasks[i].round)
          \/ ~MissesNow(i) /\ AtLast(i)
          \/ tasks'[i] = Next1(tasks[i], i)
      BY <1>7 DEF TaskLooks
    <3> QED
      BY <2>1, <3>2, <3>3, <3>4, <3>5 DEF EndsWell
  <2>3. \A j \in 1..(tasks[i].k - 1) : Order[j] \notin Missing(target)
    BY <1>2, <2>1, TaskPasses
  <2>4. \A j \in DOMAIN Order : Order[j] \notin Missing(target)
    <3>1. \A j \in DOMAIN Order : j \in 1..(tasks[i].k - 1) \/ j = tasks[i].k
      BY <1>5, <2>2, OrderProperties DEF AtLast
    <3> QED
      BY <2>2, <2>3, <3>1 DEF MissesNow
  <2>5. Missing(target) \subseteq Attr
    BY <1>2, HasAssumption DEF Missing
  <2>6. Missing(target) = {}
    BY <2>4, <2>5, OrderProperties
  <2> QED
    BY <1>3, <2>1, <2>6 DEF Missing
<1> QED
  BY <1>1, <1>6, <1>7

\* "Found" tells the truth: all the light has was received in this selection, or
\* something was when the task gave up (zllMain.java:237, :281), whatever rounds,
\* other tasks and other selections there are.
THEOREM WaitIsHonest == Spec => WaitSeesAnswers
<1>1. LightInv /\ [Next]_vars =>
        [\A i \in DOMAIN tasks : EndsWell(i) /\ target \notin raced =>
           IF tasks[i].pc = "look" THEN Has[target] \subseteq heard[target]
           ELSE Has[target] = Attr => heard[target] # {}]_vars
  BY EndsWellStep
<1> QED
  BY <1>1, LightInvariant, PTL DEF Spec, WaitSeesAnswers
=============================================================================
