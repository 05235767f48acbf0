---------------------------- MODULE GroupScenes ----------------------------
(***************************************************************************)
(* The gateway's groups and scenes: interface_grouplist.c and              *)
(* interface_scenelist.c over SimpleDB, the requests of clients that       *)
(* interface_srpcserver.c serves from them, and the ids they give out,     *)
(* which lights keep for good.                                             *)
(*                                                                         *)
(* Requests are handled one at a time.  Only a group that gets a member is *)
(* written twice: the record goes and comes back.  What a restart does to  *)
(* a file is module DeviceList; here it keeps it.                          *)
(***************************************************************************)
EXTENDS RecordFile, FiniteSets

CONSTANTS Member,      \* lights: network address and endpoint
          GroupName,   \* names of groups
          SceneName,   \* names of scenes
          NoName,      \* the empty name
          BadName,     \* names whose record the parser rejects
          BadMember,   \* lights with an address the parser rejects: above 16#FF00
          GroupIds,    \* 2^16: group ids are 0..GroupIds-1
          SceneIds,    \* 2^8: scene ids are 0..SceneIds-1
          MaxMembers,  \* members a record is read back with: 20
          MaxGroups,   \* bound: groups in the file
          MaxScenes,   \* bound: scenes in the file
          Faults       \* of "crash" and "gap", see Crash

ASSUME IdAssumption == GroupIds \in Nat \ {0} /\ SceneIds \in Nat \ {0}
ASSUME MemberAssumption == MaxMembers \in Nat \ {0}
ASSUME NameAssumption == NoName \notin BadName
ASSUME SizeAssumption == MaxGroups \in Nat /\ MaxScenes \in Nat

VARIABLES groups,       \* the lines of the group file
          scenes,       \* the lines of the scene file
          lastGroupId,  \* lastUsedGroupId, lost when the process ends
          lastSceneId,  \* lastUsedSceneId, likewise
          task,         \* what the process is doing
          radio,        \* the command sent to the lights in the last step
          answer,       \* the messages sent to the requesting client in it
          given,        \* history: the group ids lights were told, with names
          stored        \* history: the scenes lights were told to store

gsVars == <<groups, scenes, lastGroupId, lastSceneId, task, radio, answer, given, stored>>

GroupId == 0..(GroupIds - 1)
SceneId == 0..(SceneIds - 1)
NotFound == SceneIds - 1     \* sceneListGetSceneId's -1, as a uint8_t

Group == [id : GroupId, name : GroupName, members : Seq(Member)]
\* The program writes no members of a scene.
Scene == [gid : GroupId, id : SceneId, name : SceneName, members : {<<>>}]

Idle == [op |-> "idle"]
Down == [op |-> "down"]
Hung == [op |-> "hung"]      \* searching for an unused id, for ever
Regroup == [op : {"regroup"}, rec : Group]

Silence == [cmd |-> "none"]

Garbled == [garbled |-> TRUE]   \* no name of a scene

GsTypeOK ==
    /\ groups \in Seq(Group)
    /\ scenes \in Seq(Scene)
    /\ lastGroupId \in GroupId
    /\ lastSceneId \in SceneId
    /\ task \in {Idle, Down, Hung} \cup Regroup
    /\ given \subseteq [name : GroupName, id : GroupId]
    /\ stored \subseteq [name : SceneName, gid : GroupId, id : SceneId]

GsInit ==
    /\ groups = <<>>
    /\ scenes = <<>>
    /\ lastGroupId = 0
    /\ lastSceneId = 0
    /\ task = Down
    /\ radio = Silence
    /\ answer = <<>>
    /\ given = {}
    /\ stored = {}

Quiet == radio' = Silence /\ answer' = <<>>

-----------------------------------------------------------------------------
(* Searching the lists. *)

\* Mutant: one member fewer.
ReadMembersShort(r) == SubSeq(r.members, 1, Min({Len(r.members), MaxMembers - 1}))

\* A record is read back with the first MaxMembers of its members.
ReadMembers(r) == SubSeq(r.members, 1, Min({Len(r.members), MaxMembers}))

Readable(r) ==
    r.name \notin BadName /\ \A i \in DOMAIN ReadMembers(r) : r.members[i] \notin BadMember

\* The lines at which a search by name stops.  A record with the empty name is
\* read back with a NULL name, and comparing it kills the process.
GroupsNamed(n) ==
    {i \in DOMAIN groups : Readable(groups[i]) /\ groups[i].name \in {n, NoName}}

\* Mutant: any scene of the group.
ScenesOfGroup(n, g) ==
    {i \in DOMAIN scenes : Readable(scenes[i]) /\ scenes[i].gid = g}

ScenesNamed(n, g) ==
    {i \in DOMAIN scenes :
       /\ Readable(scenes[i])
       /\ scenes[i].name = NoName \/ (scenes[i].name = n /\ scenes[i].gid = g)}

Kills(f, S) == S # {} /\ f[FirstOf(S)].name = NoName

IdsOf(f) == {f[i].id : i \in {j \in DOMAIN f : Readable(f[j])}}

\* Mutants: the next id is not looked up; the counter does not wrap.
NextId(used, last, ids) == (last + 1) % ids

NoWrap(used, last, ids) == last + FirstOf({k \in 1..ids : last + k \notin used})

\* The ids after last are tried one by one, wrapping at the width of the
\* counter, until one is in no readable record.
FirstUnused(used, last, ids) ==
    (last + FirstOf({k \in 1..ids : (last + k) % ids \notin used})) % ids

Exhausted(used, ids) == \A x \in 0..(ids - 1) : x \in used

-----------------------------------------------------------------------------
(* SRPC_addGroup: groupListAddDeviceToGroup, then a message to the light and *)
(* an answer to the client.                                                  *)

AddGroupCmd(id, m) == [cmd |-> "addGroup", id |-> id, member |-> m]

TellGroup(n, id, m) ==
    /\ radio' = AddGroupCmd(id, m)
    /\ answer' = <<[type |-> "addGroup", name |-> n, id |-> id]>>
    /\ given' = given \cup {[name |-> n, id |-> id]}

\* The group does not exist: it is created with its member.
AddGroupNew(n, m) ==
    /\ task = Idle
    /\ GroupsNamed(n) = {}
    /\ Len(groups) < MaxGroups
    /\ ~Exhausted(IdsOf(groups), GroupIds)
    /\ lastGroupId' = FirstUnused(IdsOf(groups), lastGroupId, GroupIds)
    /\ groups' = AddRecord(groups, [id |-> lastGroupId', name |-> n, members |-> <<m>>])
    /\ TellGroup(n, lastGroupId', m)
    /\ UNCHANGED <<scenes, lastSceneId, task, stored>>

\* The group has the member already: nothing is written.
AddGroupKnown(n, m) ==
    /\ task = Idle
    /\ GroupsNamed(n) # {} /\ ~Kills(groups, GroupsNamed(n))
    /\ LET r == groups[FirstOf(GroupsNamed(n))] IN
         /\ Contains(ReadMembers(r), m)
         /\ TellGroup(n, r.id, m)
    /\ UNCHANGED <<groups, scenes, lastGroupId, lastSceneId, task, stored>>

\* The record goes ...
AddGroupMember(n, m) ==
    /\ task = Idle
    /\ GroupsNamed(n) # {} /\ ~Kills(groups, GroupsNamed(n))
    /\ LET r == groups[FirstOf(GroupsNamed(n))] IN
         /\ ~Contains(ReadMembers(r), m)
         /\ task' = [op |-> "regroup",
                     rec |-> [r EXCEPT !.members = Append(ReadMembers(r), m)]]
    /\ groups' = DeleteRecord(groups, GroupsNamed(n))
    /\ Quiet
    /\ UNCHANGED <<scenes, lastGroupId, lastSceneId, given, stored>>

\* ... and comes back with the member.
AddGroupDone ==
    /\ task.op = "regroup"
    /\ groups' = AddRecord(groups, task.rec)
    /\ task' = Idle
    /\ TellGroup(task.rec.name, task.rec.id, Last(task.rec.members))
    /\ UNCHANGED <<scenes, lastGroupId, lastSceneId, stored>>

AddGroupDies(n) ==
    /\ task = Idle
    /\ Kills(groups, GroupsNamed(n))
    /\ task' = Down
    /\ Quiet
    /\ UNCHANGED <<groups, scenes, lastGroupId, lastSceneId, given, stored>>

-----------------------------------------------------------------------------
(* SRPC_storeScene and SRPC_recallScene. *)

\* SRPC_CallBack_addSceneRsp takes the first character of the name for its
\* length, and the answer's name starts with the second: only the empty name
\* arrives as it is.
SceneAnswerName(n) == IF n = NoName THEN NoName ELSE Garbled

\* The commands to the lights; the name is history.
StoreSceneCmd(n, g, id) == [cmd |-> "storeScene", gid |-> g, id |-> id, name |-> n]

RecallSceneCmd(n, g, id) == [cmd |-> "recallScene", gid |-> g, id |-> id, name |-> n]

TellScene(n, g, id) ==
    /\ radio' = StoreSceneCmd(n, g, id)
    /\ answer' = <<[type |-> "addScene", name |-> SceneAnswerName(n), gid |-> g, id |-> id]>>
    /\ stored' = stored \cup {[name |-> n, gid |-> g, id |-> id]}

StoreSceneNew(n, g) ==
    /\ task = Idle
    /\ ScenesNamed(n, g) = {}
    /\ Len(scenes) < MaxScenes
    /\ ~Exhausted(IdsOf(scenes), SceneIds)
    /\ lastSceneId' = FirstUnused(IdsOf(scenes), lastSceneId, SceneIds)
    /\ scenes' = AddRecord(scenes, [gid |-> g, id |-> lastSceneId', name |-> n,
                                      members |-> <<>>])
    /\ TellScene(n, g, lastSceneId')
    /\ UNCHANGED <<groups, lastGroupId, task, given>>

StoreSceneKnown(n, g) ==
    /\ task = Idle
    /\ ScenesNamed(n, g) # {} /\ ~Kills(scenes, ScenesNamed(n, g))
    /\ TellScene(n, g, scenes[FirstOf(ScenesNamed(n, g))].id)
    /\ UNCHANGED <<groups, scenes, lastGroupId, lastSceneId, task, given>>

\* Every id is in use: the search goes on for ever.
StoreSceneHangs(n, g) ==
    /\ task = Idle
    /\ ScenesNamed(n, g) = {}
    /\ Exhausted(IdsOf(scenes), SceneIds)
    /\ task' = Hung
    /\ Quiet
    /\ UNCHANGED <<groups, scenes, lastGroupId, lastSceneId, given, stored>>

\* A scene that is not listed is recalled as NotFound.
RecallScene(n, g) ==
    /\ task = Idle
    /\ ~Kills(scenes, ScenesNamed(n, g))
    /\ LET id == IF ScenesNamed(n, g) = {} THEN NotFound
                 ELSE scenes[FirstOf(ScenesNamed(n, g))].id
       IN  radio' = RecallSceneCmd(n, g, id)
    /\ answer' = <<>>
    /\ UNCHANGED <<groups, scenes, lastGroupId, lastSceneId, task, given, stored>>

\* Storing or recalling a scene when the search meets an empty name.
SceneDies(n, g) ==
    /\ task = Idle
    /\ Kills(scenes, ScenesNamed(n, g))
    /\ task' = Down
    /\ Quiet
    /\ UNCHANGED <<groups, scenes, lastGroupId, lastSceneId, given, stored>>

-----------------------------------------------------------------------------
(* SRPC_getGroups and SRPC_getScenes: a message per readable record, up to   *)
(* one with the empty name, which kills the process.                         *)

Nameless(f) == {i \in DOMAIN f : Readable(f[i]) /\ f[i].name = NoName}

Listed(f) ==
    Selected(f, {i \in DOMAIN f : Readable(f[i]) /\ \A j \in Nameless(f) : i < j})

GetGroups ==
    /\ task = Idle
    /\ answer' = [i \in DOMAIN Listed(groups) |->
                    LET r == Listed(groups)[i]
                    IN  [type |-> "getGroup", name |-> r.name, id |-> r.id]]
    /\ task' = IF Nameless(groups) = {} THEN Idle ELSE Down
    /\ radio' = Silence
    /\ UNCHANGED <<groups, scenes, lastGroupId, lastSceneId, given, stored>>

GetScenes ==
    /\ task = Idle
    /\ answer' = [i \in DOMAIN Listed(scenes) |->
                    LET r == Listed(scenes)[i]
                    IN  [type |-> "getScene", name |-> r.name, gid |-> r.gid, id |-> r.id]]
    /\ task' = IF Nameless(scenes) = {} THEN Idle ELSE Down
    /\ radio' = Silence
    /\ UNCHANGED <<groups, scenes, lastGroupId, lastSceneId, given, stored>>

-----------------------------------------------------------------------------
(* The process ends and starts. *)

\* Fault "crash": anywhere but between the two writes of a group that gets a
\* member, which is fault "gap".
Crash ==
    /\ task # Down
    /\ IF task.op = "regroup" THEN "gap" \in Faults ELSE "crash" \in Faults
    /\ task' = Down
    /\ Quiet
    /\ UNCHANGED <<groups, scenes, lastGroupId, lastSceneId, given, stored>>

Start ==
    /\ task = Down
    /\ task' = Idle
    /\ lastGroupId' = 0
    /\ lastSceneId' = 0
    /\ Quiet
    /\ UNCHANGED <<groups, scenes, given, stored>>

-----------------------------------------------------------------------------
\* The group ids a client may name: what it was told, or 0, the id of a group
\* that the gateway has not created yet.
KnownIds == {0} \cup {p.id : p \in given}

AddGroup(n, m) ==
    AddGroupNew(n, m) \/ AddGroupKnown(n, m) \/ AddGroupMember(n, m) \/ AddGroupDies(n)

StoreScene(n, g) ==
    StoreSceneNew(n, g) \/ StoreSceneKnown(n, g) \/ StoreSceneHangs(n, g)

Request ==
    \/ \E n \in GroupName, m \in Member : AddGroup(n, m)
    \/ \E n \in SceneName, g \in KnownIds :
         StoreScene(n, g) \/ RecallScene(n, g) \/ SceneDies(n, g)
    \/ GetGroups \/ GetScenes

GsNext == Request \/ AddGroupDone \/ Crash \/ Start

GsSpec == GsInit /\ [][GsNext]_gsVars
-----------------------------------------------------------------------------
(* Correctness. *)

\* Lights keep the group ids they were told, so an id must never come to mean
\* another group, nor a group get a second id: not after a restart, which
\* forgets the last id, nor when the counter wraps (interface_grouplist.c:193).
\* Names the parser rejects have no such protection.
GroupIdsStable ==
    \A p, q \in given : p.name \notin BadName /\ q.name \notin BadName =>
       (p.id = q.id <=> p.name = q.name)

\* A recalled scene is the one that was stored under its name, or the id that
\* stands for none, which is an id like any other (interface_scenelist.c:282).
RecallsWhatWasStored ==
    radio.cmd = "recallScene" /\ radio.id # NotFound =>
      \A s \in stored : s.gid = radio.gid /\ s.id = radio.id /\ s.name \notin BadName
                          => s.name = radio.name

AllGroups == IF task.op = "regroup" THEN AddRecord(groups, task.rec) ELSE groups

\* A group keeps its first MaxMembers members in their order, although adding
\* one reads the record, deletes it and writes another (:266-289).
MembersKept ==
    [][\A i \in DOMAIN AllGroups : Readable(AllGroups[i]) =>
         \E j \in DOMAIN AllGroups' :
            LET old == AllGroups[i]
                new == AllGroups'[j]
            IN  /\ new.id = old.id /\ new.name = old.name
                /\ \A k \in DOMAIN old.members \cap (1..MaxMembers) :
                     k \in DOMAIN new.members /\ new.members[k] = old.members[k]]_gsVars
=============================================================================
