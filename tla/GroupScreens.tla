---------------------------- MODULE GroupScreens ----------------------------
(***************************************************************************)
(* The Android client's groups and scenes (groupSelect.java,               *)
(* sceneSelect.java, ZigbeeAssistant.java) and the gateway that serves its *)
(* requests, module GroupScenes.                                           *)
(*                                                                         *)
(* The screens show lists of names that were copied when they were filled; *)
(* their buttons use the position of the chosen name in the lists of       *)
(* ZigbeeAssistant, which the thread that receives messages changes.  A    *)
(* name that is typed in is in those lists before the gateway knows it.    *)
(*                                                                         *)
(* Scene ids and statuses in its lists are left out: nothing reads them.   *)
(***************************************************************************)
EXTENDS GroupScenes

CONSTANTS GroupTyped,  \* names of groups the user types in
          SceneTyped,  \* names of scenes
          MaxRequests, \* bound: requests under way
          MaxPresses,  \* bound: names typed in and requests sent from a screen
          MaxUnread,   \* bound: messages not read when a request is served
          MaxItems     \* bound: groups, and scenes, in the application's lists

ASSUME TypedAssumption == GroupTyped \subseteq GroupName /\ SceneTyped \subseteq SceneName
ASSUME ItemsAssumption == MaxItems \in Nat /\ MaxRequests \in Nat \ {0, 1}
ASSUME PressAssumption == MaxPresses \in Nat

VARIABLES user,        \* who sends requests: the application or any clients
          app,         \* "closed", "runs" or "wild": one stream, two readers
          connected,   \* the gateway has the application's socket
          requests,    \* under way to the gateway
          inbox,       \* messages in the stream of the last connection
          oldInbox,    \* in that of the one before, which a thread still reads
          readers,     \* threads that read the streams: <<old, last>>
          ourGroups,   \* ZigbeeAssistant.ourGroups: names, ids, statuses
          ourScenes,   \* ZigbeeAssistant.ourScenes: names and group ids
          screen,      \* "none", "groups" or "scenes"
          groupItems,  \* the names its group spinner shows
          sceneItems,  \* the names its scene spinner shows
          currGroup,   \* the chosen positions
          currScene,
          unfiltered,  \* history: the scene spinner was filled with all scenes
          presses      \* names typed in and requests sent

lists == <<ourGroups, ourScenes>>
link == <<connected, requests, inbox, oldInbox, readers>>
view == <<screen, groupItems, sceneItems, currGroup, currScene, unfiltered>>
appVars == <<user, app, link, lists, view, presses>>
grVars == <<gsVars, appVars>>

RequestOf ==
    [op : {"getGroups", "getScenes"}]
      \cup [op : {"addGroup"}, name : GroupName, member : Member]
      \cup [op : {"storeScene", "recallScene"}, name : SceneName, gid : GroupId]

GrTypeOK ==
    /\ GsTypeOK
    /\ user \in {"app", "any"} /\ app \in {"closed", "runs", "wild"}
    /\ connected \in BOOLEAN /\ requests \in Seq(RequestOf)
    /\ readers \in (0..1) \X (0..2)
    /\ ourGroups \in Seq([name : GroupName, id : GroupId, active : BOOLEAN])
    /\ ourScenes \in Seq([name : SceneName, gid : GroupId])
    /\ screen \in {"none", "groups", "scenes"}
    /\ groupItems \in Seq(GroupName) /\ sceneItems \in Seq(SceneName)
    /\ Len(groupItems) <= Len(ourGroups) /\ Len(sceneItems) <= Len(ourScenes)
    /\ presses \in 0..MaxPresses
    /\ currGroup \in 1..(MaxItems + 1) /\ currScene \in 0..(MaxItems + 1)

GrInit ==
    /\ GsInit
    /\ user \in {"app", "any"} /\ app = "closed"
    /\ requests = <<>> /\ presses = 0
    /\ ourGroups = <<>> /\ ourScenes = <<>>
    /\ screen = "none" /\ groupItems = <<>> /\ sceneItems = <<>>
    /\ currGroup = 1 /\ currScene = 1 /\ unfiltered = TRUE
    /\ connected = FALSE /\ inbox = <<>> /\ oldInbox = <<>> /\ readers = <<0, 0>>

Names(list) == [i \in DOMAIN list |-> list[i].name]

-----------------------------------------------------------------------------
(* The gateway. *)

Handle(q) ==
    CASE q.op = "getGroups"   -> GetGroups
      [] q.op = "getScenes"   -> GetScenes
      [] q.op = "addGroup"    -> AddGroup(q.name, q.member)
      [] q.op = "storeScene"  -> StoreScene(q.name, q.gid) \/ SceneDies(q.name, q.gid)
      [] q.op = "recallScene" -> RecallScene(q.name, q.gid) \/ SceneDies(q.name, q.gid)

\* What the last step answers arrives; a gateway that has ended has closed.
Answered ==
    /\ inbox' = IF connected THEN inbox \o answer' ELSE inbox
    /\ connected' = (connected /\ task' # Down)

Serve ==
    /\ user = "app"
    /\ Len(inbox) <= MaxUnread
    /\ \/ /\ requests # <<>> /\ Handle(Head(requests))
          /\ requests' = IF task' = Down THEN <<>> ELSE Tail(requests)
       \/ AddGroupDone /\ UNCHANGED requests
    /\ Answered
    /\ UNCHANGED <<user, app, oldInbox, readers, lists, view, presses>>

\* What was under way is lost with the process.
GatewayEnds ==
    /\ user = "app"
    /\ Crash
    /\ requests' = <<>>
    /\ Answered
    /\ UNCHANGED <<user, app, oldInbox, readers, lists, view, presses>>

GatewayStarts == Start /\ UNCHANGED appVars

\* Other clients, when the application does not run.
OthersServed ==
    /\ user = "any"
    /\ Request \/ AddGroupDone \/ Crash
    /\ UNCHANGED appVars

-----------------------------------------------------------------------------
(* The application is started and ends. *)

NoScreen ==
    /\ screen' = "none" /\ groupItems' = <<>> /\ sceneItems' = <<>>
    /\ currGroup' = 1 /\ currScene' = 1 /\ unfiltered' = TRUE

\* LightingController.onCreate: it connects and asks for the lists (that of the
\* devices, and what is said of them, is in module Gateway).  When it is
\* started again in a process that has lived on, the lists of groups and scenes
\* are as they were, and the thread of the connection before goes on reading.
\* Bounds: once per process, and with no requests under way.
Launch ==
    /\ task # Down
    /\ app \in {"closed", "runs"} /\ requests = <<>>
    /\ app = "runs" => readers = <<0, 1>>
    /\ app' = "runs" /\ connected' = TRUE
    /\ requests' = <<[op |-> "getGroups"], [op |-> "getScenes"]>>
    /\ oldInbox' = inbox /\ inbox' = <<>>
    /\ readers' = <<readers[2], 1>>
    /\ NoScreen
    /\ UNCHANGED lists

\* Its process is gone; what it has sent may still be served.
Gone ==
    /\ app' = "closed"
    /\ ourGroups' = <<>> /\ ourScenes' = <<>>
    /\ connected' = FALSE /\ inbox' = <<>> /\ oldInbox' = <<>> /\ readers' = <<0, 0>>
    /\ UNCHANGED requests
    /\ NoScreen

Killed == app # "closed" /\ Gone

-----------------------------------------------------------------------------
(* Receiving: rpcsProcessIncoming. *)

\* Positions of the entries with a name.
Called(list, n) == {i \in DOMAIN list : list[i].name = n}

Active(n, id) == [name |-> n, id |-> id, active |-> TRUE]

\* Mutant: a new group comes first.
NewGroupInFront(n, id) ==
    IF Called(ourGroups, n) = {} THEN <<Active(n, id)>> \o ourGroups
    ELSE [ourGroups EXCEPT ![FirstOf(Called(ourGroups, n))] = Active(n, id)]

NewGroup(n, id) ==
    IF Called(ourGroups, n) = {} THEN Append(ourGroups, Active(n, id))
    ELSE [ourGroups EXCEPT ![FirstOf(Called(ourGroups, n))] = Active(n, id)]

\* By name: a scene of another group with that name becomes one of this group.
NewScene(n, g) ==
    IF Called(ourScenes, n) = {} THEN Append(ourScenes, [name |-> n, gid |-> g])
    ELSE [ourScenes EXCEPT ![FirstOf(Called(ourScenes, n))].gid = g]

\* The answer to a store sets fields nobody reads.
Process(m) ==
    CASE m.type = "addGroup" ->
           /\ ourGroups' = IF Called(ourGroups, m.name) = {} THEN ourGroups
                           ELSE NewGroup(m.name, m.id)
           /\ UNCHANGED ourScenes
      [] m.type = "getGroup" ->
           /\ Len(ourGroups) < MaxItems \/ Called(ourGroups, m.name) # {}
           /\ ourGroups' = NewGroup(m.name, m.id)
           /\ UNCHANGED ourScenes
      [] m.type = "getScene" ->
           /\ Len(ourScenes) < MaxItems \/ Called(ourScenes, m.name) # {}
           /\ ourScenes' = NewScene(m.name, m.gid)
           /\ UNCHANGED ourGroups
      [] OTHER -> UNCHANGED lists

Receive ==
    /\ app = "runs" /\ readers[2] > 0 /\ inbox # <<>>
    /\ Process(Head(inbox))
    /\ inbox' = Tail(inbox)
    /\ UNCHANGED <<app, connected, requests, oldInbox, readers, view>>

\* The old thread takes a message, of these or one that is broadcast, and goes
\* on with the stream it then finds, the new one.
OldReaderMoves ==
    /\ app = "runs" /\ readers[1] = 1
    /\ IF oldInbox = <<>> THEN UNCHANGED lists ELSE Process(Head(oldInbox))
    /\ oldInbox' = <<>>
    /\ readers' = <<0, 2>>
    /\ UNCHANGED <<app, connected, requests, inbox, view>>

\* One thread takes the header of a message, the other what comes after it.
Misread ==
    /\ app = "runs" /\ readers[2] = 2 /\ inbox # <<>>
    /\ app' = "wild"
    /\ UNCHANGED <<lists, link>>
    /\ NoScreen

-----------------------------------------------------------------------------
(* The screens. *)

\* Where the user can press something.
At(s) == app = "runs" /\ screen = s

Send(q) ==
    /\ Len(requests) < MaxRequests
    /\ requests' = IF connected THEN Append(requests, q) ELSE requests
    /\ UNCHANGED <<app, connected, inbox, oldInbox, readers, lists, view>>

\* The scenes of the group at a position, as far as there are any.
FillScenes(groupList, sceneList, at) ==
    LET ofGroup == Selected(sceneList,
                            {i \in DOMAIN sceneList : sceneList[i].gid = groupList[at].id})
    IN
    /\ sceneItems' = Names(ofGroup)
    /\ unfiltered' = (ofGroup = sceneList)

\* A spinner that is filled reports its first entry as chosen; an empty one that
\* nothing is, 0, if it had entries before.
FirstScene == IF sceneItems' = <<>> THEN {0, 1} ELSE {1}

\* groupSelect.onCreate.
OpenGroups ==
    /\ app = "runs" /\ screen # "groups"
    /\ screen' = "groups"
    /\ groupItems' = Names(ourGroups) /\ currGroup' = 1
    /\ sceneItems' = <<>> /\ currScene' = 1 /\ unfiltered' = TRUE
    /\ UNCHANGED <<app, link, lists>>

\* sceneSelect.onCreate: with scenes but no group an exception.
OpenScenes ==
    /\ app = "runs" /\ screen # "scenes"
    /\ ourGroups # <<>> \/ ourScenes = <<>>
    /\ screen' = "scenes"
    /\ groupItems' = Names(ourGroups) /\ currGroup' = 1
    /\ FillScenes(ourGroups, ourScenes, 1)
    /\ currScene' \in FirstScene
    /\ UNCHANGED <<app, link, lists>>

OpenScenesDies ==
    /\ app = "runs" /\ screen # "scenes"
    /\ ourGroups = <<>> /\ ourScenes # <<>>
    /\ Gone

ChooseGroup(i) ==
    /\ app = "runs" /\ screen # "none"
    /\ i \in DOMAIN groupItems
    /\ currGroup' = i
    /\ IF screen = "scenes"
         THEN FillScenes(ourGroups, ourScenes, i) /\ currScene' \in FirstScene
         ELSE UNCHANGED <<currScene, sceneItems, unfiltered>>
    /\ UNCHANGED <<app, link, lists, screen, groupItems>>

ChooseScene(i) ==
    /\ At("scenes")
    /\ i \in DOMAIN sceneItems
    /\ currScene' = i
    /\ UNCHANGED <<app, link, lists, screen, groupItems, sceneItems, currGroup,
                   unfiltered>>

\* "set selection to the new group, which will be last as this is a new one":
\* last of those the spinner has shown so far.
CreateGroup(n) ==
    /\ At("groups") /\ Len(ourGroups) < MaxItems
    /\ ourGroups' = Append(ourGroups, [name |-> n, id |-> 0, active |-> FALSE])
    /\ currGroup' = Len(groupItems) + 1
    /\ groupItems' = Names(ourGroups')
    /\ UNCHANGED <<app, link, ourScenes, screen, sceneItems, currScene, unfiltered>>

\* ZigbeeAssistant.newScene with a name and a group.
CreateScene(n) ==
    /\ At("scenes") /\ Len(ourScenes) < MaxItems
    /\ currGroup \in DOMAIN ourGroups
    /\ ourScenes' = Append(ourScenes, [name |-> n, gid |-> ourGroups[currGroup].id])
    /\ currScene' = Len(sceneItems) + 1
    /\ FillScenes(ourGroups, ourScenes', currGroup)
    /\ UNCHANGED <<app, link, ourGroups, screen, groupItems, currGroup>>

\* Bound: the application adds one light.
AddLight(m) ==
    /\ At("groups") /\ currGroup \in DOMAIN groupItems
    /\ \A i \in DOMAIN groups : ToSet(groups[i].members) \subseteq {m}
    /\ Send([op |-> "addGroup", name |-> groupItems[currGroup], member |-> m])

\* The name is that at the position in the list of all scenes.
SceneButton(op) ==
    /\ At("scenes")
    /\ currGroup \in DOMAIN ourGroups /\ currScene \in DOMAIN ourScenes
    /\ Send([op |-> op, name |-> ourScenes[currScene].name, gid |-> ourGroups[currGroup].id])

\* Nothing is there at the position.
ButtonDies ==
    \/ At("groups") /\ currGroup \notin DOMAIN groupItems /\ Gone
    \/ /\ At("scenes")
       /\ currGroup \notin DOMAIN ourGroups \/ currScene \notin DOMAIN ourScenes
       /\ Gone

Look ==
    \/ OpenGroups \/ OpenScenes \/ OpenScenesDies
    \/ \E i \in 1..MaxItems : ChooseGroup(i) \/ ChooseScene(i)
    \/ ButtonDies

Press ==
    \/ \E n \in GroupTyped : CreateGroup(n)
    \/ \E n \in SceneTyped : CreateScene(n)
    \/ \E m \in Member : AddLight(m)
    \/ SceneButton("storeScene") \/ SceneButton("recallScene")

AppStep ==
    /\ user = "app"
    /\ \/ /\ Launch \/ Killed \/ Receive \/ OldReaderMoves \/ Misread \/ Look
          /\ UNCHANGED presses
       \/ presses < MaxPresses /\ Press /\ presses' = presses + 1
    /\ Quiet
    /\ UNCHANGED <<user, groups, scenes, lastGroupId, lastSceneId, task, given, stored>>

GrNext == OthersServed \/ Serve \/ GatewayEnds \/ GatewayStarts \/ AppStep

GrSpec == GrInit /\ [][GrNext]_grVars
-----------------------------------------------------------------------------
(* Correctness. *)

\* The buttons mean what the screen shows, although they go by the position of a
\* name in lists that change meanwhile, and by ids the gateway gives later: the
\* group at a position has the name that is shown there, and once it is active
\* the id that lights were told for that name; the scene has the name that is
\* shown if the spinner was filled with all scenes (sceneSelect.java:150 leaves
\* out those of other groups, which line 212 counts).
ButtonsMeanWhatIsShown ==
    app = "runs" /\ screen # "none" =>
      /\ \A i \in DOMAIN groupItems : ourGroups[i].name = groupItems[i]
      /\ \A i \in DOMAIN ourGroups : ourGroups[i].active =>
           [name |-> ourGroups[i].name, id |-> ourGroups[i].id] \in given
      /\ screen = "scenes" /\ unfiltered =>
           \A i \in DOMAIN sceneItems : ourScenes[i].name = sceneItems[i]
=============================================================================
