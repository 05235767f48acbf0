------------------------- MODULE GroupScreens_proofs -------------------------
(***************************************************************************)
(* Theorems about the gateway's groups and scenes, served to any clients   *)
(* or to the Android application, and about what the application's buttons *)
(* mean: for any number of lights, names, groups, scenes, members,         *)
(* requests and entries, and any width of the ids.                         *)
(***************************************************************************)
EXTENDS GroupScreens, RecordFile_proofs

\* The hypotheses: no light has an address that the parser of the record file
\* rejects, and no crash falls between the two writes of a group that gets a
\* member.  Without either a group can be forgotten that lights know.
GroupsSafe == Member \cap BadMember = {} /\ "gap" \notin Faults

\* Readable groups differ in their ids and in their names, the one that is
\* between its two writes included.
GroupsDiffer ==
    \A i, j \in DOMAIN AllGroups :
       /\ AllGroups[i].name \notin BadName /\ AllGroups[j].name \notin BadName
       /\ AllGroups[i].id = AllGroups[j].id \/ AllGroups[i].name = AllGroups[j].name
       => i = j

\* What lights were told of a group is what its record says.
GivenListed ==
    \A p \in given : p.name \notin BadName =>
       \E i \in DOMAIN AllGroups : AllGroups[i].id = p.id /\ AllGroups[i].name = p.name

\* GroupIdsStable says nothing of the file, so no step could be shown to keep it.
GroupsInv == GsTypeOK /\ GroupsDiffer /\ GivenListed

\* Readable scenes differ in their ids.
ScenesDiffer ==
    \A i, j \in DOMAIN scenes :
       /\ scenes[i].name \notin BadName /\ scenes[j].name \notin BadName
       /\ scenes[i].id = scenes[j].id
       => i = j

\* What lights stored is what the record of the scene says.
StoredListed ==
    \A s \in stored : s.name \notin BadName =>
       \E i \in DOMAIN scenes :
          scenes[i].gid = s.gid /\ scenes[i].id = s.id /\ scenes[i].name = s.name

ScenesInv == GsTypeOK /\ ScenesDiffer /\ StoredListed /\ RecallsWhatWasStored

-----------------------------------------------------------------------------
(* Lemmas about the operators. *)

\* The search for an id ends with one that is not in use, if there is one,
\* whatever the last id was and where the counter wraps
\* (interface_grouplist.c:190-214, interface_scenelist.c:203-227).
LEMMA FirstUnusedProperties ==
    ASSUME NEW used, NEW ids \in Nat \ {0}, NEW last \in 0..(ids - 1),
           ~Exhausted(used, ids)
    PROVE  /\ FirstUnused(used, last, ids) \in 0..(ids - 1)
           /\ FirstUnused(used, last, ids) \notin used
<1> DEFINE S == {k \in 1..ids : (last + k) % ids \notin used}
<1>1. PICK x \in 0..(ids - 1) : x \notin used
  BY DEF Exhausted
<1>2. x % ids = x /\ (x + ids) % ids = x
  OBVIOUS
<1>3. \E k \in 1..ids : (last + k) % ids = x
  <2>1. CASE x > last
    <3>1. x - last \in 1..ids /\ last + (x - last) = x
      BY <2>1
    <3> QED
      BY <1>2, <3>1
  <2>2. CASE x <= last
    <3>1. x - last + ids \in 1..ids /\ last + (x - last + ids) = x + ids
      BY <2>2
    <3> QED
      BY <1>2, <3>1
  <2> QED
    BY <2>1, <2>2
<1>4. S # {} /\ S \subseteq Nat
  <2>1. PICK k \in 1..ids : (last + k) % ids = x
    BY <1>3
  <2>2. k \in S
    BY <1>1, <2>1
  <2>3. S \subseteq 1..ids
    OBVIOUS
  <2> HIDE DEF S
  <2> QED
    BY <2>2, <2>3
<1>5. FirstOf(S) \in S
  BY <1>4, FirstOfProperties
<1>6. \A k \in 1..ids : (last + k) % ids \in 0..(ids - 1)
  OBVIOUS
<1> QED
  BY <1>5, <1>6 DEF FirstUnused

\* Reading a record back cuts its members off after MaxMembers
\* (interface_grouplist.c:88-146).
LEMMA ReadMembersProperties ==
    ASSUME NEW M, NEW r, r.members \in Seq(M)
    PROVE  /\ ReadMembers(r) \in Seq(M)
           /\ DOMAIN ReadMembers(r) = DOMAIN r.members \cap (1..MaxMembers)
           /\ \A i \in DOMAIN ReadMembers(r) : ReadMembers(r)[i] = r.members[i]
<1> DEFINE ms == r.members
           n == Min({Len(ms), MaxMembers})
<1>1. Len(ms) \in Nat /\ DOMAIN ms = 1..Len(ms) /\ MaxMembers \in Nat
  BY LenProperties, MemberAssumption
<1>2. n \in {Len(ms), MaxMembers} /\ n <= Len(ms) /\ n <= MaxMembers
  <2>1. /\ FirstOf({Len(ms), MaxMembers}) \in {Len(ms), MaxMembers}
        /\ \A j \in {Len(ms), MaxMembers} : FirstOf({Len(ms), MaxMembers}) <= j
    BY <1>1, FirstOfProperties
  <2> QED
    BY <2>1 DEF FirstOf
<1> HIDE DEF n
<1>3. n \in Nat /\ 1..n = DOMAIN ms \cap (1..MaxMembers)
  BY <1>1, <1>2
<1>4. \A i \in 1..n : ms[i] \in M
  BY <1>1, <1>2, ElementOfSeq
<1>5. /\ SubSeq(ms, 1, n) \in Seq(M)
      /\ Len(SubSeq(ms, 1, n)) = n
      /\ \A i \in 1..n : SubSeq(ms, 1, n)[i] = ms[i]
  BY <1>3, <1>4, SubSeqProperties
<1>6. DOMAIN SubSeq(ms, 1, n) = 1..n
  BY <1>5, LenProperties
<1> QED
  BY <1>3, <1>5, <1>6 DEF ReadMembers, n

\* Which records the parser takes.
LEMMA ReadableGroup ==
    ASSUME GroupsSafe, NEW r \in Group
    PROVE  Readable(r) <=> r.name \notin BadName
<1>1. r.members \in Seq(Member)
  BY DEF Group
<1>2. \A i \in DOMAIN ReadMembers(r) : r.members[i] \in Member
  BY <1>1, ReadMembersProperties, ElementOfSeq, LenProperties
<1> QED
  BY <1>2 DEF GroupsSafe, Readable

\* A scene has no members the parser could reject.
LEMMA ReadableScene ==
    ASSUME NEW r \in Scene
    PROVE  Readable(r) <=> r.name \notin BadName
<1>1. r.members = <<>> /\ r.members \in Seq({})
  BY EmptySeq DEF Scene
<1>2. DOMAIN ReadMembers(r) = {}
  <2>1. DOMAIN r.members = {}
    BY <1>1
  <2> QED
    BY <1>1, <2>1, ReadMembersProperties
<1> QED
  BY <1>2 DEF Readable

\* A search that does not kill the process finds the record with the name.
LEMMA GroupFound ==
    ASSUME GsTypeOK, NEW n, GroupsNamed(n) # {}, ~Kills(groups, GroupsNamed(n))
    PROVE  LET i == FirstOf(GroupsNamed(n)) IN
             /\ i \in DOMAIN groups /\ groups[i] \in Group
             /\ Readable(groups[i]) /\ groups[i].name = n
             /\ GroupsNamed(n) \subseteq DOMAIN groups
<1>1. GroupsNamed(n) \subseteq DOMAIN groups /\ DOMAIN groups \subseteq Nat
  BY LenProperties DEF GsTypeOK, GroupsNamed
<1>2. FirstOf(GroupsNamed(n)) \in GroupsNamed(n)
  BY <1>1, FirstOfProperties
<1>3. groups[FirstOf(GroupsNamed(n))] \in Group
  BY <1>1, <1>2, ElementOfSeq, LenProperties DEF GsTypeOK
<1> QED
  BY <1>1, <1>2, <1>3 DEF Kills, GroupsNamed

\* The same for the search for a scene by name and group.
LEMMA SceneFound ==
    ASSUME GsTypeOK, NEW n, NEW g,
           ScenesNamed(n, g) # {}, ~Kills(scenes, ScenesNamed(n, g))
    PROVE  LET i == FirstOf(ScenesNamed(n, g)) IN
             /\ i \in DOMAIN scenes /\ scenes[i] \in Scene
             /\ Readable(scenes[i]) /\ scenes[i].name = n /\ scenes[i].gid = g
<1>1. ScenesNamed(n, g) \subseteq DOMAIN scenes /\ DOMAIN scenes \subseteq Nat
  BY LenProperties DEF GsTypeOK, ScenesNamed
<1>2. FirstOf(ScenesNamed(n, g)) \in ScenesNamed(n, g)
  BY <1>1, FirstOfProperties
<1>3. scenes[FirstOf(ScenesNamed(n, g))] \in Scene
  BY <1>1, <1>2, ElementOfSeq, LenProperties DEF GsTypeOK
<1> QED
  BY <1>1, <1>2, <1>3 DEF Kills, ScenesNamed

-----------------------------------------------------------------------------
(* Types. *)

\* A step of the gateway, for a request with any group id; or a step in which
\* it does nothing.
GatewayStep ==
    \/ \E n \in GroupName, m \in Member : AddGroup(n, m)
    \/ \E n \in SceneName, g \in GroupId :
         StoreScene(n, g) \/ RecallScene(n, g) \/ SceneDies(n, g)
    \/ GetGroups \/ GetScenes \/ AddGroupDone \/ Crash \/ Start
    \/ Quiet /\ UNCHANGED <<groups, scenes, lastGroupId, lastSceneId, task, given, stored>>

\* Every step of GroupScenes is one: clients name ids they were told.
LEMMA StepIsGatewayStep ==
    ASSUME GsTypeOK, GsNext
    PROVE  GatewayStep
<1>1. KnownIds \subseteq GroupId
  BY IdAssumption DEF GsTypeOK, KnownIds, GroupId
<1> QED
  BY <1>1 DEF GsNext, Request, GatewayStep

\* The tasks.
LEMMA TaskKinds ==
    ASSUME GsTypeOK
    PROVE  /\ task.op = "regroup" => task \in Regroup /\ task.rec \in Group
           /\ task = Idle \/ task = Down => task.op # "regroup"
BY DEF GsTypeOK, Idle, Down, Hung, Regroup

\* A new group.
LEMMA NewGroupRecord ==
    ASSUME GsTypeOK, NEW n \in GroupName, NEW m \in Member, AddGroupNew(n, m)
    PROVE  /\ lastGroupId' \in GroupId /\ lastGroupId' \notin IdsOf(groups)
           /\ [id |-> lastGroupId', name |-> n, members |-> <<m>>] \in Group
           /\ groups' = AddRecord(groups, [id |-> lastGroupId', name |-> n,
                                           members |-> <<m>>])
           /\ groups' \in Seq(Group)
<1>1. lastGroupId' \in GroupId /\ lastGroupId' \notin IdsOf(groups)
  BY FirstUnusedProperties, IdAssumption DEF AddGroupNew, GsTypeOK, GroupId
<1>2. <<m>> \in Seq(Member)
  OBVIOUS
<1>3. [id |-> lastGroupId', name |-> n, members |-> <<m>>] \in Group
  BY <1>1, <1>2 DEF Group
<1>4. groups' = AddRecord(groups, [id |-> lastGroupId', name |-> n, members |-> <<m>>])
  BY DEF AddGroupNew
<1> QED
  BY <1>1, <1>3, <1>4, AddRecordProperties DEF GsTypeOK

\* The record of a group that gets a member: its id and name, and the members
\* that were read back with the new one.
LEMMA MemberRecord ==
    ASSUME GsTypeOK, NEW n \in GroupName, NEW m \in Member, AddGroupMember(n, m)
    PROVE  LET r == groups[FirstOf(GroupsNamed(n))] IN
             /\ r \in Group /\ task'.op = "regroup" /\ task'.rec \in Group
             /\ task'.rec.id = r.id /\ task'.rec.name = r.name /\ r.name = n
             /\ task'.rec.members = Append(ReadMembers(r), m)
             /\ GroupsNamed(n) # {} /\ GroupsNamed(n) \subseteq DOMAIN groups
             /\ groups' = DeleteRecord(groups, GroupsNamed(n))
             /\ groups' \in Seq(Group)
<1> DEFINE r == groups[FirstOf(GroupsNamed(n))]
<1>1. /\ GroupsNamed(n) # {} /\ ~Kills(groups, GroupsNamed(n))
      /\ task' = [op |-> "regroup",
                  rec |-> [r EXCEPT !.members = Append(ReadMembers(r), m)]]
      /\ groups' = DeleteRecord(groups, GroupsNamed(n))
  BY DEF AddGroupMember
<1>2. r \in Group /\ r.name = n /\ GroupsNamed(n) \subseteq DOMAIN groups
  BY <1>1, GroupFound
<1>3. groups' \in Seq(Group)
  BY <1>1, <1>2, DeleteRecordProperties DEF GsTypeOK
<1> HIDE DEF r
<1>4. r.members \in Seq(Member)
  BY <1>2 DEF Group
<1>5. Append(ReadMembers(r), m) \in Seq(Member)
  BY <1>4, ReadMembersProperties, AppendProperties
<1>6. /\ task'.op = "regroup" /\ task'.rec \in Group
      /\ task'.rec.id = r.id /\ task'.rec.name = r.name
      /\ task'.rec.members = Append(ReadMembers(r), m)
  BY <1>1, <1>2, <1>5 DEF Group
<1> QED
  BY <1>1, <1>2, <1>3, <1>6 DEF r

\* A new scene.
LEMMA NewSceneRecord ==
    ASSUME GsTypeOK, NEW n \in SceneName, NEW g \in GroupId, StoreSceneNew(n, g)
    PROVE  LET r == [gid |-> g, id |-> lastSceneId', name |-> n, members |-> <<>>] IN
             /\ lastSceneId' \in SceneId /\ lastSceneId' \notin IdsOf(scenes)
             /\ r \in Scene /\ scenes' = AddRecord(scenes, r)
             /\ scenes' \in Seq(Scene)
<1>1. lastSceneId' \in SceneId /\ lastSceneId' \notin IdsOf(scenes)
  BY FirstUnusedProperties, IdAssumption DEF StoreSceneNew, GsTypeOK, SceneId
<1>2. [gid |-> g, id |-> lastSceneId', name |-> n, members |-> <<>>] \in Scene
  BY <1>1 DEF Scene
<1> QED
  BY <1>1, <1>2, AddRecordProperties DEF StoreSceneNew, GsTypeOK

\* Every step keeps the types and the width of the ids.
LEMMA GsTypeStep ==
    ASSUME GsTypeOK, GatewayStep
    PROVE  GsTypeOK'
<1>1. ASSUME NEW n \in GroupName, NEW m \in Member, AddGroup(n, m)
      PROVE  GsTypeOK'
  <2>1. CASE AddGroupNew(n, m)
    <3>1. given' \subseteq [name : GroupName, id : GroupId]
      BY <2>1, NewGroupRecord DEF AddGroupNew, TellGroup, GsTypeOK
    <3> QED
      BY <2>1, <3>1, NewGroupRecord DEF AddGroupNew, GsTypeOK
  <2>2. CASE AddGroupKnown(n, m)
    <3> DEFINE r == groups[FirstOf(GroupsNamed(n))]
    <3>1. r \in Group
      BY <2>2, GroupFound DEF AddGroupKnown
    <3>2. given' = given \cup {[name |-> n, id |-> r.id]}
      BY <2>2 DEF AddGroupKnown, TellGroup
    <3> HIDE DEF r
    <3>3. given' \subseteq [name : GroupName, id : GroupId]
      BY <3>1, <3>2 DEF GsTypeOK, Group
    <3> QED
      BY <2>2, <3>3 DEF AddGroupKnown, GsTypeOK
  <2>3. CASE AddGroupMember(n, m)
    <3>1. groups' \in Seq(Group)
      BY <2>3, MemberRecord
    <3>2. task' \in Regroup
      <4>1. task' = [op |-> "regroup", rec |-> task'.rec]
        BY <2>3 DEF AddGroupMember
      <4>2. task'.rec \in Group
        BY <2>3, MemberRecord
      <4> QED
        BY <4>1, <4>2 DEF Regroup
    <3> QED
      BY <2>3, <3>1, <3>2 DEF AddGroupMember, GsTypeOK
  <2>4. CASE AddGroupDies(n)
    BY <2>4 DEF AddGroupDies, GsTypeOK
  <2> QED
    BY <1>1, <2>1, <2>2, <2>3, <2>4 DEF AddGroup
<1>2. ASSUME NEW n \in SceneName, NEW g \in GroupId,
             StoreScene(n, g) \/ RecallScene(n, g) \/ SceneDies(n, g)
      PROVE  GsTypeOK'
  <2>1. CASE StoreSceneNew(n, g)
    <3>1. stored' \subseteq [name : SceneName, gid : GroupId, id : SceneId]
      BY <2>1, NewSceneRecord, SMTT(20) DEF StoreSceneNew, TellScene, GsTypeOK
    <3> QED
      BY <2>1, <3>1, NewSceneRecord DEF StoreSceneNew, GsTypeOK
  <2>2. CASE StoreSceneKnown(n, g)
    <3> DEFINE r == scenes[FirstOf(ScenesNamed(n, g))]
    <3>1. r \in Scene
      BY <2>2, SceneFound DEF StoreSceneKnown
    <3>2. stored' = stored \cup {[name |-> n, gid |-> g, id |-> r.id]}
      BY <2>2 DEF StoreSceneKnown, TellScene
    <3> HIDE DEF r
    <3>3. stored' \subseteq [name : SceneName, gid : GroupId, id : SceneId]
      BY <3>1, <3>2 DEF GsTypeOK, Scene
    <3> QED
      BY <2>2, <3>3 DEF StoreSceneKnown, GsTypeOK
  <2>3. CASE StoreSceneHangs(n, g) \/ RecallScene(n, g) \/ SceneDies(n, g)
    BY <2>3 DEF StoreSceneHangs, RecallScene, SceneDies, GsTypeOK
  <2> QED
    BY <1>2, <2>1, <2>2, <2>3 DEF StoreScene
<1>3. CASE GetGroups \/ GetScenes
  BY <1>3 DEF GetGroups, GetScenes, GsTypeOK
<1>4. CASE AddGroupDone
  <2>1. task.rec \in Group
    BY <1>4, TaskKinds DEF AddGroupDone
  <2>2. groups' \in Seq(Group)
    BY <1>4, <2>1, AddRecordProperties DEF AddGroupDone, GsTypeOK
  <2>3. given' \subseteq [name : GroupName, id : GroupId]
    BY <1>4, <2>1 DEF AddGroupDone, TellGroup, GsTypeOK, Group
  <2> QED
    BY <1>4, <2>2, <2>3 DEF AddGroupDone, GsTypeOK
<1>5. CASE Crash \/ Start
  BY <1>5, IdAssumption DEF Crash, Start, GsTypeOK, GroupId, SceneId
<1>6. CASE UNCHANGED <<groups, scenes, lastGroupId, lastSceneId, task, given, stored>>
  BY <1>6 DEF GsTypeOK
<1> QED
  BY <1>1, <1>2, <1>3, <1>4, <1>5, <1>6 DEF GatewayStep

-----------------------------------------------------------------------------
(* Groups. *)

\* The groups, the one that is between its two writes included.
LEMMA AllGroupsType ==
    ASSUME GsTypeOK
    PROVE  /\ AllGroups \in Seq(Group)
           /\ task.op # "regroup" => AllGroups = groups
           /\ \A i \in DOMAIN AllGroups : AllGroups[i] \in Group
<1>1. AllGroups \in Seq(Group)
  BY TaskKinds, AddRecordProperties DEF AllGroups, GsTypeOK
<1> QED
  BY <1>1, LenProperties, ElementOfSeq DEF AllGroups

\* A group goes to the end of the file.
LEMMA GroupAppended ==
    \A f \in Seq(Group), r \in Group :
       /\ DOMAIN AddRecord(f, r) = 1..(Len(f) + 1)
       /\ \A i \in 1..Len(f) : AddRecord(f, r)[i] = f[i]
       /\ AddRecord(f, r)[Len(f) + 1] = r
<1> TAKE f \in Seq(Group), r \in Group
<1> QED
  BY AppendProperties DEF AddRecord

\* A member goes after those that were read back.
LEMMA MemberAppended ==
    \A f \in Seq(Member), m \in Member :
       /\ DOMAIN Append(f, m) = 1..(Len(f) + 1)
       /\ \A i \in 1..Len(f) : Append(f, m)[i] = f[i]
<1> TAKE f \in Seq(Member), m \in Member
<1> QED
  BY AppendProperties

\* A record that is deleted and written again with a member more goes to the end
\* of the file; every group is still there, with the members it had.
LEMMA MemberMoves ==
    ASSUME GsTypeOK, NEW n \in GroupName, NEW m \in Member, AddGroupMember(n, m)
    PROVE  \E from \in [DOMAIN AllGroups' -> DOMAIN AllGroups] :
             /\ \A i, j \in DOMAIN AllGroups' : from[i] = from[j] => i = j
             /\ \A k \in DOMAIN AllGroups : \E i \in DOMAIN AllGroups' : from[i] = k
             /\ \A i \in DOMAIN AllGroups' :
                  LET new == AllGroups'[i]
                      old == AllGroups[from[i]]
                  IN  /\ new.id = old.id /\ new.name = old.name
                      /\ \A k \in DOMAIN old.members \cap (1..MaxMembers) :
                           k \in DOMAIN new.members /\ new.members[k] = old.members[k]
<1> DEFINE S == GroupsNamed(n)
           at == FirstOf(S)
           old == groups[at]
           rec == task'.rec
<1>1. /\ old \in Group /\ rec \in Group /\ task'.op = "regroup"
      /\ rec.id = old.id /\ rec.name = old.name
      /\ rec.members = Append(ReadMembers(old), m)
      /\ S # {} /\ S \subseteq DOMAIN groups
      /\ groups' = DeleteRecord(groups, S) /\ groups' \in Seq(Group)
  BY MemberRecord
<1>2. task = Idle /\ AllGroups = groups
  BY TaskKinds, AllGroupsType DEF AddGroupMember
<1>3. AllGroups' = AddRecord(groups', rec)
  BY <1>1 DEF AllGroups
<1>4. at \in DOMAIN groups
  BY <1>1, DeleteRecordProperties DEF GsTypeOK
<1> HIDE DEF S, at, old, rec
<1>5. PICK from \in [DOMAIN groups' -> DOMAIN groups] :
        /\ \A i \in DOMAIN groups' : groups'[i] = groups[from[i]] /\ from[i] # at
        /\ \A i, j \in DOMAIN groups' : from[i] = from[j] => i = j
        /\ \A k \in DOMAIN groups : k # at => \E i \in DOMAIN groups' : from[i] = k
  BY <1>1, DeleteRecordLines, SMTT(20) DEF GsTypeOK, at
<1>6. /\ Len(groups') \in Nat /\ DOMAIN groups' = 1..Len(groups')
      /\ DOMAIN AllGroups' = 1..(Len(groups') + 1)
      /\ \A i \in 1..Len(groups') : AllGroups'[i] = groups'[i]
      /\ AllGroups'[Len(groups') + 1] = rec
  <2>1. Len(groups') \in Nat /\ DOMAIN groups' = 1..Len(groups')
    BY <1>1, LenProperties
  <2>2. /\ DOMAIN AddRecord(groups', rec) = 1..(Len(groups') + 1)
        /\ \A i \in 1..Len(groups') : AddRecord(groups', rec)[i] = groups'[i]
        /\ AddRecord(groups', rec)[Len(groups') + 1] = rec
    <3>1. groups' \in Seq(Group) /\ rec \in Group
      BY <1>1
    <3> QED
      BY <3>1, GroupAppended
  <2> QED
    BY <1>3, <2>1, <2>2
<1> DEFINE last == Len(groups') + 1
           back == [i \in DOMAIN AllGroups' |-> IF i = last THEN at ELSE from[i]]
<1>7. \A i \in DOMAIN AllGroups' : i = last \/ (i \in DOMAIN groups' /\ i # last)
  BY <1>6
<1>8. last \in DOMAIN AllGroups' /\ DOMAIN groups' \subseteq DOMAIN AllGroups'
      /\ last \notin DOMAIN groups'
  BY <1>6
<1> HIDE DEF last
<1>9. back \in [DOMAIN AllGroups' -> DOMAIN AllGroups]
  BY <1>2, <1>4, <1>5, <1>7
<1>10. \A i, j \in DOMAIN AllGroups' : back[i] = back[j] => i = j
  BY <1>5, <1>7
<1>11. ASSUME NEW k \in DOMAIN AllGroups
       PROVE  \E i \in DOMAIN AllGroups' : back[i] = k
  <2>1. CASE k = at
    BY <1>8, <2>1
  <2>2. CASE k # at
    <3>1. PICK i \in DOMAIN groups' : from[i] = k
      BY <1>2, <1>5, <2>2
    <3> QED
      BY <1>8, <3>1
  <2> QED
    BY <2>1, <2>2
<1>12. ASSUME NEW i \in DOMAIN AllGroups'
       PROVE  LET new == AllGroups'[i]
                  was == AllGroups[back[i]]
              IN  /\ new.id = was.id /\ new.name = was.name
                  /\ \A k \in DOMAIN was.members \cap (1..MaxMembers) :
                       k \in DOMAIN new.members /\ new.members[k] = was.members[k]
  <2>1. CASE i = last
    <3>1. AllGroups'[i] = rec /\ AllGroups[back[i]] = old
      BY <1>2, <1>6, <2>1 DEF last, old
    <3>2. old.members \in Seq(Member)
      BY <1>1 DEF Group
    <3> DEFINE read == ReadMembers(old)
    <3>3. /\ read \in Seq(Member)
          /\ DOMAIN read = DOMAIN old.members \cap (1..MaxMembers)
          /\ \A k \in DOMAIN read : read[k] = old.members[k]
      BY <3>2, ReadMembersProperties
    <3> HIDE DEF read
    <3>4. \A k \in DOMAIN read : k \in DOMAIN Append(read, m) /\ Append(read, m)[k] = read[k]
      <4>1. DOMAIN read = 1..Len(read) /\ Len(read) \in Nat
        BY <3>3, LenProperties
      <4>2. /\ DOMAIN Append(read, m) = 1..(Len(read) + 1)
            /\ \A k \in 1..Len(read) : Append(read, m)[k] = read[k]
        BY <3>3, MemberAppended
      <4> QED
        BY <4>1, <4>2
    <3> QED
      BY <1>1, <3>1, <3>3, <3>4 DEF read
  <2>2. CASE i # last
    <3>1. AllGroups'[i] = AllGroups[back[i]]
      BY <1>2, <1>5, <1>6, <1>7, <2>2
    <3> QED
      BY <3>1
  <2> QED
    BY <2>1, <2>2
<1> HIDE DEF back
<1> QED
  BY <1>9, <1>10, <1>11, <1>12

\* What a step can do to the groups and to what lights know of them.
LEMMA GroupSteps ==
    ASSUME GsTypeOK, GatewayStep, "gap" \notin Faults
    PROVE  \/ \E n \in GroupName, m \in Member : AddGroupNew(n, m)
           \/ \E n \in GroupName, m \in Member : AddGroupMember(n, m)
           \/ AllGroups' = AllGroups /\ given' = given
           \/ /\ AllGroups' = AllGroups
              /\ \E i \in DOMAIN AllGroups :
                   given' = given \cup {[name |-> AllGroups[i].name, id |-> AllGroups[i].id]}
<1>1. ASSUME NEW n \in GroupName, NEW m \in Member, AddGroupKnown(n, m)
      PROVE  /\ AllGroups' = AllGroups
             /\ \E i \in DOMAIN AllGroups :
                  given' = given \cup {[name |-> AllGroups[i].name, id |-> AllGroups[i].id]}
  <2> DEFINE i == FirstOf(GroupsNamed(n))
  <2>1. AllGroups = groups /\ AllGroups' = groups
    BY <1>1, TaskKinds DEF AddGroupKnown, AllGroups
  <2>2. i \in DOMAIN groups /\ groups[i].name = n
    BY <1>1, GroupFound DEF AddGroupKnown
  <2>3. given' = given \cup {[name |-> n, id |-> groups[i].id]}
    BY <1>1 DEF AddGroupKnown, TellGroup
  <2> QED
    BY <2>1, <2>2, <2>3
<1>2. ASSUME AddGroupDone
      PROVE  /\ AllGroups' = AllGroups
             /\ \E i \in DOMAIN AllGroups :
                  given' = given \cup {[name |-> AllGroups[i].name, id |-> AllGroups[i].id]}
  <2>1. AllGroups = groups' /\ AllGroups' = groups'
    BY <1>2 DEF AddGroupDone, AllGroups, Idle
  <2>2. task.rec \in Group /\ groups' = AddRecord(groups, task.rec)
    BY <1>2, TaskKinds DEF AddGroupDone
  <2>3. /\ Len(groups) + 1 \in DOMAIN AllGroups
        /\ AllGroups[Len(groups) + 1] = task.rec
    <3>1. groups \in Seq(Group) /\ Len(groups) \in Nat
      BY LenProperties DEF GsTypeOK
    <3>2. /\ DOMAIN AddRecord(groups, task.rec) = 1..(Len(groups) + 1)
          /\ AddRecord(groups, task.rec)[Len(groups) + 1] = task.rec
      <4>1. \A r \in Group :
              /\ DOMAIN AddRecord(groups, r) = 1..(Len(groups) + 1)
              /\ AddRecord(groups, r)[Len(groups) + 1] = r
        BY <3>1, AddRecordProperties
      <4> QED
        BY <2>2, <4>1
    <3>3. AllGroups = AddRecord(groups, task.rec)
      BY <2>1, <2>2
    <3> HIDE <2>1, <2>2
    <3> QED
      BY <3>1, <3>2, <3>3
  <2>4. given' = given \cup {[name |-> task.rec.name, id |-> task.rec.id]}
    BY <1>2 DEF AddGroupDone, TellGroup
  <2> QED
    BY <2>1, <2>3, <2>4
<1>3. ASSUME NEW n \in GroupName, NEW m \in Member, AddGroupDies(n)
      PROVE  AllGroups' = AllGroups /\ given' = given
  BY <1>3 DEF AddGroupDies, AllGroups, Idle, Down
<1>4. ASSUME NEW n \in SceneName, NEW g \in GroupId,
             StoreScene(n, g) \/ RecallScene(n, g) \/ SceneDies(n, g)
      PROVE  AllGroups' = AllGroups /\ given' = given
  BY <1>4 DEF StoreScene, StoreSceneNew, StoreSceneKnown, StoreSceneHangs, RecallScene,
              SceneDies, AllGroups, Idle, Down, Hung
<1>5. ASSUME GetGroups \/ GetScenes \/ Crash \/ Start
      PROVE  AllGroups' = AllGroups /\ given' = given
  BY <1>5 DEF GetGroups, GetScenes, Crash, Start, AllGroups, Idle, Down
<1>6. ASSUME UNCHANGED <<groups, scenes, lastGroupId, lastSceneId, task, given, stored>>
      PROVE  AllGroups' = AllGroups /\ given' = given
  BY <1>6 DEF AllGroups
<1> QED
  BY <1>1, <1>2, <1>3, <1>4, <1>5, <1>6 DEF GatewayStep, AddGroup

\* An id that no readable group has is another than theirs, and so is a name
\* that the search did not find.
LEMMA NewGroupDiffers ==
    ASSUME GroupsSafe, GsTypeOK, NEW n \in GroupName, NEW m \in Member, AddGroupNew(n, m)
    PROVE  \A i \in DOMAIN groups : groups[i].name \notin BadName =>
              groups[i].id # lastGroupId' /\ (n \notin BadName => groups[i].name # n)
<1> SUFFICES ASSUME NEW i \in DOMAIN groups, groups[i].name \notin BadName
             PROVE  groups[i].id # lastGroupId' /\ (n \notin BadName => groups[i].name # n)
  OBVIOUS
<1>1. Readable(groups[i])
  BY ReadableGroup, LenProperties, ElementOfSeq DEF GsTypeOK
<1>2. groups[i].id \in IdsOf(groups)
  BY <1>1 DEF IdsOf
<1>3. GroupsNamed(n) = {}
  BY DEF AddGroupNew
<1> QED
  BY <1>1, <1>2, <1>3, NewGroupRecord DEF GroupsNamed

\* The file after a new group has been added to it.
LEMMA NewGroupAppended ==
    ASSUME GsTypeOK, NEW n \in GroupName, NEW m \in Member, AddGroupNew(n, m)
    PROVE  /\ AllGroups = groups /\ AllGroups' = groups'
           /\ Len(groups) \in Nat /\ DOMAIN groups = 1..Len(groups)
           /\ DOMAIN groups' = 1..(Len(groups) + 1)
           /\ \A i \in 1..Len(groups) : groups'[i] = groups[i]
           /\ groups'[Len(groups) + 1].id = lastGroupId'
           /\ groups'[Len(groups) + 1].name = n
<1>1. AllGroups = groups /\ AllGroups' = groups'
  BY DEF AddGroupNew, AllGroups, Idle
<1>2. Len(groups) \in Nat /\ DOMAIN groups = 1..Len(groups) /\ groups \in Seq(Group)
  BY LenProperties DEF GsTypeOK
<1>3. PICK r \in Group : /\ groups' = AddRecord(groups, r)
                         /\ r.id = lastGroupId' /\ r.name = n
  BY NewGroupRecord
<1>4. /\ DOMAIN groups' = 1..(Len(groups) + 1)
      /\ \A i \in 1..Len(groups) : groups'[i] = groups[i]
      /\ groups'[Len(groups) + 1] = r
  BY <1>2, <1>3, GroupAppended
<1> QED
  BY <1>1, <1>2, <1>3, <1>4

\* Every step keeps readable groups apart and what lights know in the file.
LEMMA GroupsStep ==
    ASSUME GroupsSafe, GroupsInv, GatewayStep
    PROVE  GroupsInv'
<1>1. GsTypeOK /\ GsTypeOK'
  BY GsTypeStep DEF GroupsInv
<1>2. ASSUME NEW n \in GroupName, NEW m \in Member, AddGroupNew(n, m)
      PROVE  GroupsDiffer' /\ GivenListed'
  <2> DEFINE last == Len(groups) + 1
  <2>1. /\ AllGroups = groups /\ AllGroups' = groups'
        /\ \A i \in DOMAIN groups' : i = last \/ (i \in DOMAIN groups /\ groups'[i] = groups[i])
        /\ last \in DOMAIN groups' /\ DOMAIN groups \subseteq DOMAIN groups'
        /\ \A i \in DOMAIN groups : groups'[i] = groups[i]
        /\ groups'[last].id = lastGroupId' /\ groups'[last].name = n
    BY <1>1, <1>2, NewGroupAppended
  <2> HIDE DEF last
  <2>2. \A i \in DOMAIN groups : groups[i].name \notin BadName =>
           groups[i].id # lastGroupId' /\ (n \notin BadName => groups[i].name # n)
    BY <1>1, <1>2, NewGroupDiffers
  <2>3. GroupsDiffer'
    BY <2>1, <2>2 DEF GroupsInv, GroupsDiffer
  <2>4. given' = given \cup {[name |-> n, id |-> lastGroupId']}
    BY <1>2 DEF AddGroupNew, TellGroup
  <2>5. GivenListed'
    <3> SUFFICES ASSUME NEW p \in given', p.name \notin BadName
                 PROVE  \E i \in DOMAIN groups' : groups'[i].id = p.id /\ groups'[i].name = p.name
      BY <2>1 DEF GivenListed
    <3>1. CASE p \in given
      BY <2>1, <3>1 DEF GroupsInv, GivenListed
    <3>2. CASE p = [name |-> n, id |-> lastGroupId']
      BY <2>1, <3>2
    <3> QED
      BY <2>4, <3>1, <3>2
  <2> QED
    BY <2>3, <2>5
<1>3. ASSUME NEW n \in GroupName, NEW m \in Member, AddGroupMember(n, m)
      PROVE  GroupsDiffer' /\ GivenListed'
  <2>1. PICK from \in [DOMAIN AllGroups' -> DOMAIN AllGroups] :
          /\ \A i, j \in DOMAIN AllGroups' : from[i] = from[j] => i = j
          /\ \A k \in DOMAIN AllGroups : \E i \in DOMAIN AllGroups' : from[i] = k
          /\ \A i \in DOMAIN AllGroups' : /\ AllGroups'[i].id = AllGroups[from[i]].id
                                         /\ AllGroups'[i].name = AllGroups[from[i]].name
    BY <1>1, <1>3, MemberMoves
  <2>2. \A i \in DOMAIN AllGroups' : from[i] \in DOMAIN AllGroups
    BY <2>1
  <2>3. GroupsDiffer'
    BY <2>1, <2>2 DEF GroupsInv, GroupsDiffer
  <2>4. given' = given
    BY <1>3 DEF AddGroupMember
  <2>5. GivenListed'
    <3> SUFFICES ASSUME NEW p \in given, p.name \notin BadName
                 PROVE  \E i \in DOMAIN AllGroups' :
                           AllGroups'[i].id = p.id /\ AllGroups'[i].name = p.name
      BY <2>4 DEF GivenListed
    <3>1. PICK k \in DOMAIN AllGroups : AllGroups[k].id = p.id /\ AllGroups[k].name = p.name
      BY DEF GroupsInv, GivenListed
    <3> QED
      BY <2>1, <3>1
  <2> QED
    BY <2>3, <2>5
<1>4. CASE AllGroups' = AllGroups /\ given' = given
  BY <1>1, <1>4 DEF GroupsInv, GroupsDiffer, GivenListed
<1>5. ASSUME AllGroups' = AllGroups, NEW i \in DOMAIN AllGroups,
             given' = given \cup {[name |-> AllGroups[i].name, id |-> AllGroups[i].id]}
      PROVE  GroupsDiffer' /\ GivenListed'
  BY <1>5 DEF GroupsInv, GroupsDiffer, GivenListed
<1>6. \/ \E n \in GroupName, m \in Member : AddGroupNew(n, m)
      \/ \E n \in GroupName, m \in Member : AddGroupMember(n, m)
      \/ AllGroups' = AllGroups /\ given' = given
      \/ /\ AllGroups' = AllGroups
         /\ \E i \in DOMAIN AllGroups :
              given' = given \cup {[name |-> AllGroups[i].name, id |-> AllGroups[i].id]}
  BY <1>1, GroupSteps DEF GroupsSafe
<1>7. CASE \E n \in GroupName, m \in Member : AddGroupNew(n, m)
  BY <1>1, <1>2, <1>7 DEF GroupsInv
<1>8. CASE \E n \in GroupName, m \in Member : AddGroupMember(n, m)
  BY <1>1, <1>3, <1>8 DEF GroupsInv
<1>9. CASE /\ AllGroups' = AllGroups
           /\ \E i \in DOMAIN AllGroups :
                given' = given \cup {[name |-> AllGroups[i].name, id |-> AllGroups[i].id]}
  BY <1>1, <1>5, <1>9 DEF GroupsInv
<1> QED
  BY <1>4, <1>6, <1>7, <1>8, <1>9

\* A readable group has one id and one name, so what lights know of it agrees.
LEMMA GroupsInvImplies ==
    ASSUME GroupsInv
    PROVE  GroupIdsStable
<1> SUFFICES ASSUME NEW p \in given, NEW q \in given,
                    p.name \notin BadName, q.name \notin BadName
             PROVE  p.id = q.id <=> p.name = q.name
  BY DEF GroupIdsStable
<1>1. PICK i \in DOMAIN AllGroups : AllGroups[i].id = p.id /\ AllGroups[i].name = p.name
  BY DEF GroupsInv, GivenListed
<1>2. PICK j \in DOMAIN AllGroups : AllGroups[j].id = q.id /\ AllGroups[j].name = q.name
  BY DEF GroupsInv, GivenListed
<1>3. p.id = q.id \/ p.name = q.name => i = j
  BY <1>1, <1>2 DEF GroupsInv, GroupsDiffer
<1> QED
  BY <1>1, <1>2, <1>3

\* A step that is not lost half-way keeps the first MaxMembers members of every
\* group.
LEMMA MembersStep ==
    ASSUME "gap" \notin Faults, GsTypeOK, GatewayStep
    PROVE  \A i \in DOMAIN AllGroups : Readable(AllGroups[i]) =>
             \E j \in DOMAIN AllGroups' :
                LET old == AllGroups[i]
                    new == AllGroups'[j]
                IN  /\ new.id = old.id /\ new.name = old.name
                    /\ \A k \in DOMAIN old.members \cap (1..MaxMembers) :
                         k \in DOMAIN new.members /\ new.members[k] = old.members[k]
<1> SUFFICES ASSUME NEW i \in DOMAIN AllGroups
             PROVE  \E j \in DOMAIN AllGroups' :
                LET old == AllGroups[i]
                    new == AllGroups'[j]
                IN  /\ new.id = old.id /\ new.name = old.name
                    /\ \A k \in DOMAIN old.members \cap (1..MaxMembers) :
                         k \in DOMAIN new.members /\ new.members[k] = old.members[k]
  OBVIOUS
<1>1. CASE AllGroups' = AllGroups
  BY <1>1
<1>2. ASSUME NEW n \in GroupName, NEW m \in Member, AddGroupNew(n, m)
      PROVE  i \in DOMAIN AllGroups' /\ AllGroups'[i] = AllGroups[i]
  BY <1>2, NewGroupAppended
<1>3. CASE \E n \in GroupName, m \in Member : AddGroupNew(n, m)
  <2>1. i \in DOMAIN AllGroups' /\ AllGroups'[i] = AllGroups[i]
    BY <1>2, <1>3
  <2> QED
    BY <2>1
<1>4. CASE \E n \in GroupName, m \in Member : AddGroupMember(n, m)
  <2>1. PICK n \in GroupName, m \in Member : AddGroupMember(n, m)
    BY <1>4
  <2>2. PICK from \in [DOMAIN AllGroups' -> DOMAIN AllGroups] :
          /\ \E j \in DOMAIN AllGroups' : from[j] = i
          /\ \A j \in DOMAIN AllGroups' :
               LET new == AllGroups'[j]
                   old == AllGroups[from[j]]
               IN  /\ new.id = old.id /\ new.name = old.name
                   /\ \A k \in DOMAIN old.members \cap (1..MaxMembers) :
                        k \in DOMAIN new.members /\ new.members[k] = old.members[k]
    BY <2>1, MemberMoves
  <2>3. PICK j \in DOMAIN AllGroups' : from[j] = i
    BY <2>2
  <2> QED
    BY <2>2, <2>3
<1> QED
  BY <1>1, <1>3, <1>4, GroupSteps

-----------------------------------------------------------------------------
(* Scenes. *)

\* A scene goes to the end of the file.
LEMMA SceneAppended ==
    \A f \in Seq(Scene), r \in Scene :
       /\ DOMAIN AddRecord(f, r) = 1..(Len(f) + 1)
       /\ \A i \in 1..Len(f) : AddRecord(f, r)[i] = f[i]
       /\ AddRecord(f, r)[Len(f) + 1] = r
<1> TAKE f \in Seq(Scene), r \in Scene
<1> QED
  BY AppendProperties DEF AddRecord

\* A new scene gets an id that no other scene has.
LEMMA NewSceneStep ==
    ASSUME ScenesInv, NEW n \in SceneName, NEW g \in GroupId, StoreSceneNew(n, g)
    PROVE  ScenesDiffer' /\ StoredListed' /\ RecallsWhatWasStored'
<1> DEFINE last == Len(scenes) + 1
           r == [gid |-> g, id |-> lastSceneId', name |-> n, members |-> <<>>]
<1>1. /\ Len(scenes) \in Nat /\ DOMAIN scenes = 1..Len(scenes)
      /\ scenes \in Seq(Scene)
  BY LenProperties DEF ScenesInv, GsTypeOK
<1>2. /\ r \in Scene /\ lastSceneId' \notin IdsOf(scenes)
      /\ scenes' = AddRecord(scenes, r)
  BY NewSceneRecord DEF ScenesInv
<1>3. r.gid = g /\ r.id = lastSceneId' /\ r.name = n
  OBVIOUS
<1> HIDE DEF r
<1>4. /\ DOMAIN scenes' = 1..last
      /\ \A i \in 1..Len(scenes) : scenes'[i] = scenes[i]
      /\ scenes'[last] = r
  BY <1>1, <1>2, SceneAppended
<1>5. /\ \A i \in DOMAIN scenes' : i = last \/ i \in DOMAIN scenes
      /\ \A i \in DOMAIN scenes : i \in DOMAIN scenes' /\ scenes'[i] = scenes[i]
      /\ last \in DOMAIN scenes'
  BY <1>1, <1>4
<1> HIDE DEF last
<1>6. ASSUME NEW i \in DOMAIN scenes, scenes[i].name \notin BadName
      PROVE  scenes[i].id # lastSceneId'
  <2>1. Readable(scenes[i])
    BY <1>1, <1>6, ReadableScene, ElementOfSeq
  <2> QED
    BY <1>2, <2>1 DEF IdsOf
<1>7. ScenesDiffer'
  BY <1>3, <1>4, <1>5, <1>6 DEF ScenesInv, ScenesDiffer
<1>8. stored' = stored \cup {[name |-> n, gid |-> g, id |-> lastSceneId']}
  BY DEF StoreSceneNew, TellScene
<1>9. StoredListed'
  <2> SUFFICES ASSUME NEW s \in stored', s.name \notin BadName
               PROVE  \E i \in DOMAIN scenes' : /\ scenes'[i].gid = s.gid
                                              /\ scenes'[i].id = s.id
                                              /\ scenes'[i].name = s.name
    BY DEF StoredListed
  <2>1. CASE s \in stored
    BY <1>5, <2>1 DEF ScenesInv, StoredListed
  <2>2. CASE s = [name |-> n, gid |-> g, id |-> lastSceneId']
    BY <1>3, <1>4, <1>5, <2>2
  <2> QED
    BY <1>8, <2>1, <2>2
<1>10. RecallsWhatWasStored'
  BY DEF StoreSceneNew, TellScene, StoreSceneCmd, RecallsWhatWasStored
<1> QED
  BY <1>7, <1>9, <1>10

\* Every step keeps readable scenes apart and what lights stored in the file.
LEMMA ScenesStep ==
    ASSUME ScenesInv, GatewayStep
    PROVE  ScenesInv'
<1>1. GsTypeOK /\ GsTypeOK'
  BY GsTypeStep DEF ScenesInv
<1>2. ASSUME NEW n \in SceneName, NEW g \in GroupId, StoreSceneNew(n, g)
      PROVE  ScenesInv'
  BY <1>1, <1>2, NewSceneStep DEF ScenesInv
<1>3. ASSUME NEW n \in SceneName, NEW g \in GroupId, StoreSceneKnown(n, g)
      PROVE  ScenesInv'
  <2> DEFINE i == FirstOf(ScenesNamed(n, g))
  <2>1. /\ i \in DOMAIN scenes /\ scenes[i].name = n /\ scenes[i].gid = g
        /\ scenes' = scenes
    BY <1>1, <1>3, SceneFound DEF StoreSceneKnown
  <2>2. stored' = stored \cup {[name |-> n, gid |-> g, id |-> scenes[i].id]}
    BY <1>3 DEF StoreSceneKnown, TellScene
  <2>3. RecallsWhatWasStored'
    BY <1>3 DEF StoreSceneKnown, TellScene, StoreSceneCmd, RecallsWhatWasStored
  <2> HIDE DEF i
  <2>4. ScenesDiffer' /\ StoredListed'
    BY <2>1, <2>2 DEF ScenesInv, ScenesDiffer, StoredListed
  <2> QED
    BY <1>1, <2>3, <2>4 DEF ScenesInv
<1>4. ASSUME NEW n \in SceneName, NEW g \in GroupId, RecallScene(n, g)
      PROVE  ScenesInv'
  <2>1. scenes' = scenes /\ stored' = stored
    BY <1>4 DEF RecallScene
  <2>2. ScenesDiffer' /\ StoredListed'
    BY <2>1 DEF ScenesInv, ScenesDiffer, StoredListed
  <2>3. RecallsWhatWasStored'
    <3>1. CASE ScenesNamed(n, g) = {}
      BY <1>4, <3>1 DEF RecallScene, RecallSceneCmd, RecallsWhatWasStored
    <3>2. CASE ScenesNamed(n, g) # {}
      <4> DEFINE i == FirstOf(ScenesNamed(n, g))
      <4>1. radio'.name = n /\ radio'.id = scenes[i].id /\ radio'.gid = g
        BY <1>4, <3>2 DEF RecallScene, RecallSceneCmd
      <4>2. /\ i \in DOMAIN scenes /\ scenes[i] \in Scene
            /\ Readable(scenes[i]) /\ scenes[i].name = n
        BY <1>1, <1>4, <3>2, SceneFound DEF RecallScene
      <4>3. scenes[i].name \notin BadName
        BY <4>2, ReadableScene
      <4> HIDE DEF i
      <4>4. \A s \in stored : s.id = radio'.id /\ s.name \notin BadName => s.name = n
        BY <4>1, <4>2, <4>3 DEF ScenesInv, ScenesDiffer, StoredListed
      <4> QED
        BY <2>1, <4>1, <4>4 DEF RecallsWhatWasStored
    <3> QED
      BY <3>1, <3>2
  <2> QED
    BY <1>1, <2>2, <2>3 DEF ScenesInv
<1>5. ASSUME UNCHANGED <<scenes, stored>>, radio'.cmd # "recallScene"
      PROVE  ScenesInv'
  BY <1>1, <1>5 DEF ScenesInv, ScenesDiffer, StoredListed, RecallsWhatWasStored
<1>6. ASSUME NEW n \in GroupName, NEW m \in Member, AddGroup(n, m)
      PROVE  UNCHANGED <<scenes, stored>> /\ radio'.cmd # "recallScene"
  BY <1>6 DEF AddGroup, AddGroupNew, AddGroupKnown, AddGroupMember, AddGroupDies,
              TellGroup, AddGroupCmd, Quiet, Silence
<1>7. ASSUME NEW n \in SceneName, NEW g \in GroupId,
             StoreSceneHangs(n, g) \/ SceneDies(n, g)
      PROVE  UNCHANGED <<scenes, stored>> /\ radio'.cmd # "recallScene"
  BY <1>7 DEF StoreSceneHangs, SceneDies, Quiet, Silence
<1>8. ASSUME GetGroups \/ GetScenes \/ AddGroupDone \/ Crash \/ Start
      PROVE  UNCHANGED <<scenes, stored>> /\ radio'.cmd # "recallScene"
  BY <1>8 DEF GetGroups, GetScenes, AddGroupDone, Crash, Start, TellGroup, AddGroupCmd,
              Quiet, Silence
<1>9. ASSUME Quiet, UNCHANGED <<scenes, stored>>
      PROVE  UNCHANGED <<scenes, stored>> /\ radio'.cmd # "recallScene"
  BY <1>9 DEF Quiet, Silence
<1> QED
  BY <1>2, <1>3, <1>4, <1>5, <1>6, <1>7, <1>8, <1>9 DEF GatewayStep, StoreScene

-----------------------------------------------------------------------------
(* The application and the messages to it. *)

GroupEntry == [name : GroupName, id : GroupId, active : BOOLEAN]
SceneEntry == [name : SceneName, gid : GroupId]

\* The messages the gateway answers with.
MessageOf ==
    [type : {"addGroup", "getGroup"}, name : GroupName, id : GroupId]
      \cup [type : {"addScene"}, name : {NoName, Garbled}, gid : GroupId, id : SceneId]
      \cup [type : {"getScene"}, name : SceneName, gid : GroupId, id : SceneId]

PairOf(r) == [name |-> r.name, id |-> r.id]

\* The groups a message box tells of are groups that lights were told of.
Tells(box) ==
    \A i \in DOMAIN box : box[i].type \in {"addGroup", "getGroup"} => PairOf(box[i]) \in given

\* So are those in the file.
RecordsGiven ==
    /\ \A i \in DOMAIN groups : PairOf(groups[i]) \in given
    /\ task.op = "regroup" => PairOf(task.rec) \in given

LinksOK ==
    /\ app \in {"closed", "runs", "wild"} /\ connected \in BOOLEAN
    /\ requests \in Seq(RequestOf)
    /\ readers \in (0..1) \X (0..2)
    /\ app = "closed" => readers = <<0, 0>>
    /\ inbox \in Seq(MessageOf) /\ oldInbox \in Seq(MessageOf)
    /\ Tells(inbox) /\ Tells(oldInbox)

ListsOK ==
    /\ ourGroups \in Seq(GroupEntry) /\ Len(ourGroups) <= MaxItems
    /\ ourScenes \in Seq(SceneEntry) /\ Len(ourScenes) <= MaxItems
    /\ \A i \in DOMAIN ourGroups : ourGroups[i].active => PairOf(ourGroups[i]) \in given

\* What a spinner shows at a position has that name in the list.
Shows(items, list) ==
    Len(items) <= Len(list) /\ \A i \in DOMAIN items : list[i].name = items[i]

ViewOK ==
    /\ screen \in {"none", "groups", "scenes"} /\ unfiltered \in BOOLEAN
    /\ groupItems \in Seq(GroupName) /\ sceneItems \in Seq(SceneName)
    /\ currGroup \in 1..(MaxItems + 1) /\ currScene \in 0..(MaxItems + 1)
    /\ Shows(groupItems, ourGroups)
    /\ Len(sceneItems) <= Len(ourScenes)
    /\ unfiltered => Shows(sceneItems, ourScenes)

\* ButtonsMeanWhatIsShown says nothing of the file nor of messages under way,
\* and both become entries of the lists.
ScreensInv ==
    /\ GsTypeOK /\ RecordsGiven
    /\ user \in {"app", "any"} /\ presses \in 0..MaxPresses
    /\ LinksOK /\ ListsOK /\ ViewOK

-----------------------------------------------------------------------------
(* What the gateway answers. *)

\* The messages that a list request is answered with, one per line listed.
LEMMA ListedLines ==
    ASSUME NEW R, NEW f \in Seq(R)
    PROVE  /\ Listed(f) \in Seq(R)
           /\ \A k \in DOMAIN Listed(f) :
                Listed(f)[k] \in R /\ \E i \in DOMAIN f : Listed(f)[k] = f[i]
<1> DEFINE S == {i \in DOMAIN f : Readable(f[i]) /\ \A j \in Nameless(f) : i < j}
<1>1. S \subseteq DOMAIN f
  OBVIOUS
<1>2. Listed(f) = Selected(f, S)
  BY DEF Listed
<1> HIDE DEF S
<1>3. /\ Listed(f) \in Seq(R)
      /\ \A k \in DOMAIN Listed(f) : NthOf(S, k) \in S /\ Listed(f)[k] = f[NthOf(S, k)]
  BY <1>1, <1>2, SelectedProperties
<1> QED
  BY <1>1, <1>3, ElementOfSeq, LenProperties

\* One message.
LEMMA OneMessage ==
    ASSUME NEW box, NEW m \in MessageOf, box = <<m>>
    PROVE  box \in Seq(MessageOf) /\ \A i \in DOMAIN box : box[i] = m
BY EmptySeq

\* A group that lights are told of is one the client is told of.
LEMMA ToldGroup ==
    ASSUME NEW n \in GroupName, NEW id \in GroupId, NEW m, TellGroup(n, id, m)
    PROVE  /\ answer' \in Seq(MessageOf) /\ Tells(answer)'
           /\ given' = given \cup {PairOf([name |-> n, id |-> id])}
<1> DEFINE msg == [type |-> "addGroup", name |-> n, id |-> id]
<1>1. msg \in MessageOf
  BY DEF MessageOf
<1>2. answer' = <<msg>> /\ given' = given \cup {[name |-> n, id |-> id]}
  BY DEF TellGroup
<1>3. PairOf(msg) \in given'
  BY <1>2 DEF PairOf
<1> HIDE DEF msg
<1>4. answer' \in Seq(MessageOf) /\ \A i \in DOMAIN answer' : answer'[i] = msg
  BY <1>1, <1>2, OneMessage
<1> QED
  BY <1>2, <1>3, <1>4 DEF Tells, PairOf

\* A step of the gateway adds to the file, and answers with, groups that lights
\* are told of.
LEMMA GivenStep ==
    ASSUME GsTypeOK, RecordsGiven, GatewayStep
    PROVE  /\ given \subseteq given' /\ RecordsGiven'
           /\ answer' \in Seq(MessageOf) /\ Tells(answer)'
<1>1. ASSUME answer' = <<>>
      PROVE  answer' \in Seq(MessageOf) /\ Tells(answer)'
  BY <1>1, EmptySeq DEF Tells
<1>2. ASSUME UNCHANGED <<groups, given>>, task'.op # "regroup"
      PROVE  given \subseteq given' /\ RecordsGiven'
  BY <1>2 DEF RecordsGiven
<1>3. Idle.op # "regroup" /\ Down.op # "regroup" /\ Hung.op # "regroup"
  BY DEF Idle, Down, Hung
<1>4. ASSUME NEW n \in GroupName, NEW m \in Member, AddGroupNew(n, m)
      PROVE  /\ given \subseteq given' /\ RecordsGiven'
             /\ answer' \in Seq(MessageOf) /\ Tells(answer)'
  <2> DEFINE r == [id |-> lastGroupId', name |-> n, members |-> <<m>>]
  <2>1. lastGroupId' \in GroupId /\ r \in Group /\ groups' = AddRecord(groups, r)
    BY <1>4, NewGroupRecord
  <2>2. TellGroup(n, lastGroupId', m) /\ task' = Idle
    BY <1>4 DEF AddGroupNew
  <2>3. r.id = lastGroupId' /\ r.name = n
    OBVIOUS
  <2> HIDE DEF r
  <2>4. /\ answer' \in Seq(MessageOf) /\ Tells(answer)'
        /\ given' = given \cup {PairOf([name |-> n, id |-> lastGroupId'])}
    BY <2>1, <2>2, ToldGroup
  <2>5. PairOf(r) \in given' /\ given \subseteq given'
    BY <2>3, <2>4 DEF PairOf
  <2>6. ASSUME NEW i \in DOMAIN groups'
        PROVE  PairOf(groups'[i]) \in given'
    <3>1. /\ DOMAIN groups = 1..Len(groups) /\ Len(groups) \in Nat
          /\ groups \in Seq(Group)
      BY LenProperties DEF GsTypeOK
    <3>2. groups'[i] = r \/ (i \in DOMAIN groups /\ groups'[i] = groups[i])
      BY <2>1, <3>1, GroupAppended
    <3> QED
      BY <2>5, <3>2 DEF RecordsGiven
  <2> QED
    BY <1>3, <2>2, <2>4, <2>5, <2>6 DEF RecordsGiven
<1>5. ASSUME NEW n \in GroupName, NEW m \in Member, AddGroupKnown(n, m)
      PROVE  /\ given \subseteq given' /\ RecordsGiven'
             /\ answer' \in Seq(MessageOf) /\ Tells(answer)'
  <2> DEFINE r == groups[FirstOf(GroupsNamed(n))]
  <2>1. r \in Group
    BY <1>5, GroupFound DEF AddGroupKnown
  <2>2. TellGroup(n, r.id, m) /\ groups' = groups /\ task' = task /\ task = Idle
    BY <1>5 DEF AddGroupKnown
  <2> HIDE DEF r
  <2>3. r.id \in GroupId
    BY <2>1 DEF Group
  <2>4. /\ answer' \in Seq(MessageOf) /\ Tells(answer)'
        /\ given' = given \cup {PairOf([name |-> n, id |-> r.id])}
    BY <2>2, <2>3, ToldGroup
  <2> QED
    BY <1>3, <2>2, <2>4 DEF RecordsGiven
<1>6. ASSUME NEW n \in GroupName, NEW m \in Member, AddGroupMember(n, m)
      PROVE  /\ given \subseteq given' /\ RecordsGiven'
             /\ answer' \in Seq(MessageOf) /\ Tells(answer)'
  <2> DEFINE r == groups[FirstOf(GroupsNamed(n))]
             S == GroupsNamed(n)
  <2>1. /\ task'.rec.id = r.id /\ task'.rec.name = r.name
        /\ S # {} /\ S \subseteq DOMAIN groups /\ groups' = DeleteRecord(groups, S)
    BY <1>6, MemberRecord
  <2>2. FirstOf(S) \in DOMAIN groups
    BY <1>6, GroupFound DEF AddGroupMember
  <2>3. given' = given /\ answer' = <<>>
    BY <1>6 DEF AddGroupMember, Quiet
  <2>4. PairOf(task'.rec) \in given'
    BY <2>1, <2>2, <2>3 DEF RecordsGiven, PairOf
  <2> HIDE DEF S
  <2>5. PICK from \in [DOMAIN groups' -> DOMAIN groups] :
          \A i \in DOMAIN groups' : groups'[i] = groups[from[i]]
    BY <2>1, DeleteRecordLines DEF GsTypeOK
  <2>6. \A i \in DOMAIN groups' : PairOf(groups'[i]) \in given'
    BY <2>3, <2>5 DEF RecordsGiven
  <2> QED
    BY <1>1, <2>3, <2>4, <2>6 DEF RecordsGiven
<1>7. ASSUME NEW n \in GroupName, AddGroupDies(n)
      PROVE  /\ given \subseteq given' /\ RecordsGiven'
             /\ answer' \in Seq(MessageOf) /\ Tells(answer)'
  BY <1>1, <1>2, <1>3, <1>7 DEF AddGroupDies, Quiet
<1>8. CASE AddGroupDone
  <2>1. task.rec \in Group /\ task.op = "regroup"
    BY <1>8, TaskKinds DEF AddGroupDone
  <2>2. /\ TellGroup(task.rec.name, task.rec.id, Last(task.rec.members))
        /\ groups' = AddRecord(groups, task.rec) /\ task' = Idle
    BY <1>8 DEF AddGroupDone
  <2>3. task.rec.name \in GroupName /\ task.rec.id \in GroupId
    BY <2>1 DEF Group
  <2>4. /\ answer' \in Seq(MessageOf) /\ Tells(answer)' /\ given \subseteq given'
    BY <2>2, <2>3, ToldGroup
  <2>5. ASSUME NEW i \in DOMAIN groups'
        PROVE  PairOf(groups'[i]) \in given'
    <3>1. /\ DOMAIN groups = 1..Len(groups) /\ Len(groups) \in Nat
          /\ groups \in Seq(Group)
      BY LenProperties DEF GsTypeOK
    <3>2. groups'[i] = task.rec \/ (i \in DOMAIN groups /\ groups'[i] = groups[i])
      BY <2>1, <2>2, <3>1, GroupAppended
    <3> QED
      BY <2>1, <2>4, <3>2 DEF RecordsGiven
  <2> QED
    BY <1>3, <2>2, <2>4, <2>5 DEF RecordsGiven
<1>9. ASSUME NEW n \in SceneName, NEW g \in GroupId, NEW id \in SceneId, TellScene(n, g, id)
      PROVE  answer' \in Seq(MessageOf) /\ Tells(answer)'
  <2> DEFINE msg == [type |-> "addScene", name |-> SceneAnswerName(n), gid |-> g, id |-> id]
  <2>1. msg \in MessageOf /\ msg.type = "addScene"
    BY DEF MessageOf, SceneAnswerName
  <2>2. answer' = <<msg>>
    BY <1>9 DEF TellScene
  <2> HIDE DEF msg
  <2>3. answer' \in Seq(MessageOf) /\ \A i \in DOMAIN answer' : answer'[i] = msg
    BY <2>1, <2>2, OneMessage
  <2> QED
    BY <2>1, <2>3 DEF Tells
<1>10. ASSUME NEW n \in SceneName, NEW g \in GroupId,
              StoreScene(n, g) \/ RecallScene(n, g) \/ SceneDies(n, g)
       PROVE  /\ given \subseteq given' /\ RecordsGiven'
              /\ answer' \in Seq(MessageOf) /\ Tells(answer)'
  <2>1. given \subseteq given' /\ RecordsGiven'
    BY <1>2, <1>3, <1>10 DEF StoreScene, StoreSceneNew, StoreSceneKnown, StoreSceneHangs,
                             RecallScene, SceneDies
  <2>2. CASE StoreSceneNew(n, g)
    <3>1. lastSceneId' \in SceneId
      BY <2>2, NewSceneRecord
    <3>2. TellScene(n, g, lastSceneId')
      BY <2>2 DEF StoreSceneNew
    <3> QED
      BY <1>9, <2>1, <3>1, <3>2
  <2>3. CASE StoreSceneKnown(n, g)
    <3>1. scenes[FirstOf(ScenesNamed(n, g))] \in Scene
      BY <2>3, SceneFound DEF StoreSceneKnown
    <3>2. scenes[FirstOf(ScenesNamed(n, g))].id \in SceneId
      BY <3>1 DEF Scene
    <3>3. TellScene(n, g, scenes[FirstOf(ScenesNamed(n, g))].id)
      BY <2>3 DEF StoreSceneKnown
    <3> QED
      BY <1>9, <2>1, <3>2, <3>3
  <2>4. CASE StoreSceneHangs(n, g) \/ RecallScene(n, g) \/ SceneDies(n, g)
    BY <1>1, <2>1, <2>4 DEF StoreSceneHangs, RecallScene, SceneDies, Quiet
  <2> QED
    BY <1>10, <2>2, <2>3, <2>4 DEF StoreScene
<1>11. CASE GetGroups
  <2> DEFINE L == Listed(groups)
             msg(i) == [type |-> "getGroup", name |-> L[i].name, id |-> L[i].id]
  <2>1. /\ L \in Seq(Group)
        /\ \A k \in DOMAIN L : L[k] \in Group /\ \E i \in DOMAIN groups : L[k] = groups[i]
    BY ListedLines DEF GsTypeOK
  <2>2. answer' = [i \in DOMAIN L |-> msg(i)] /\ UNCHANGED <<groups, given>>
    BY <1>11 DEF GetGroups
  <2>3. given \subseteq given' /\ RecordsGiven'
    BY <1>2, <1>3, <1>11 DEF GetGroups
  <2> HIDE DEF L
  <2>4. \A i \in DOMAIN L : msg(i) \in MessageOf /\ PairOf(msg(i)) \in given
    BY <2>1 DEF MessageOf, Group, RecordsGiven, PairOf
  <2>5. DOMAIN L = 1..Len(L) /\ Len(L) \in Nat
    BY <2>1, LenProperties
  <2> HIDE DEF msg
  <2>6. answer' \in Seq(MessageOf)
    BY <2>2, <2>4, <2>5, IsASeq
  <2>7. \A i \in DOMAIN answer' : PairOf(answer'[i]) \in given'
    BY <2>2, <2>4
  <2> QED
    BY <2>3, <2>6, <2>7 DEF Tells
<1>12. CASE GetScenes
  <2> DEFINE L == Listed(scenes)
             msg(i) == [type |-> "getScene", name |-> L[i].name, gid |-> L[i].gid,
                        id |-> L[i].id]
  <2>1. /\ L \in Seq(Scene)
        /\ \A k \in DOMAIN L : L[k] \in Scene
    BY ListedLines DEF GsTypeOK
  <2>2. answer' = [i \in DOMAIN L |-> msg(i)]
    BY <1>12 DEF GetScenes
  <2>3. given \subseteq given' /\ RecordsGiven'
    BY <1>2, <1>3, <1>12 DEF GetScenes
  <2> HIDE DEF L
  <2>4. \A i \in DOMAIN L : msg(i) \in MessageOf /\ msg(i).type = "getScene"
    BY <2>1 DEF MessageOf, Scene
  <2>5. DOMAIN L = 1..Len(L) /\ Len(L) \in Nat
    BY <2>1, LenProperties
  <2> HIDE DEF msg
  <2>6. answer' \in Seq(MessageOf)
    BY <2>2, <2>4, <2>5, IsASeq
  <2>7. \A i \in DOMAIN answer' : answer'[i].type = "getScene"
    BY <2>2, <2>4
  <2> QED
    BY <2>3, <2>6, <2>7 DEF Tells
<1>13. CASE Crash \/ Start
  BY <1>1, <1>2, <1>3, <1>13 DEF Crash, Start, Quiet
<1>14. CASE Quiet /\ UNCHANGED <<groups, scenes, lastGroupId, lastSceneId, task, given, stored>>
  BY <1>1, <1>14 DEF Quiet, RecordsGiven
<1> QED
  BY <1>4, <1>5, <1>6, <1>7, <1>8, <1>10, <1>11, <1>12, <1>13, <1>14
     DEF GatewayStep, AddGroup

-----------------------------------------------------------------------------
(* The application's lists and spinners. *)

\* Lights are told of more and more groups.
LEMMA TellsMore ==
    ASSUME NEW box, Tells(box), given \subseteq given'
    PROVE  \A i \in DOMAIN box :
              box[i].type \in {"addGroup", "getGroup"} => PairOf(box[i]) \in given'
BY DEF Tells

\* The names of a list.
LEMMA NamesOfList ==
    ASSUME NEW N, NEW R, NEW list \in Seq(R), \A r \in R : r.name \in N
    PROVE  Names(list) \in Seq(N) /\ Len(Names(list)) = Len(list) /\ Shows(Names(list), list)
<1>1. DOMAIN list = 1..Len(list) /\ Len(list) \in Nat
  BY LenProperties
<1>2. \A i \in 1..Len(list) : list[i].name \in N
  BY <1>1, ElementOfSeq
<1>3. Names(list) = [i \in 1..Len(list) |-> list[i].name]
  BY <1>1 DEF Names
<1>4. Names(list) \in Seq(N) /\ Len(Names(list)) = Len(list)
  BY <1>1, <1>2, <1>3, IsASeq
<1> QED
  BY <1>1, <1>3, <1>4 DEF Shows

\* The scene spinner shows scenes of the list; all of them, or unfiltered says
\* otherwise.
LEMMA FilledScenes ==
    ASSUME NEW groupList, NEW sceneList \in Seq(SceneEntry), NEW at,
           FillScenes(groupList, sceneList, at)
    PROVE  /\ sceneItems' \in Seq(SceneName) /\ Len(sceneItems') <= Len(sceneList)
           /\ unfiltered' \in BOOLEAN
           /\ unfiltered' => Shows(sceneItems', sceneList)
<1> DEFINE ofGroup == Selected(sceneList,
                               {i \in DOMAIN sceneList : sceneList[i].gid = groupList[at].id})
<1>1. /\ sceneItems' = Names(ofGroup)
      /\ unfiltered' = (ofGroup = sceneList)
  BY DEF FillScenes
<1>2. ofGroup \in Seq(SceneEntry) /\ Len(ofGroup) <= Len(sceneList)
  BY SelectedProperties
<1>3. \A r \in SceneEntry : r.name \in SceneName
  BY DEF SceneEntry
<1> HIDE DEF ofGroup
<1>4. /\ Names(ofGroup) \in Seq(SceneName) /\ Len(Names(ofGroup)) = Len(ofGroup)
      /\ Shows(Names(ofGroup), ofGroup)
  BY <1>2, <1>3, NamesOfList
<1> QED
  BY <1>1, <1>2, <1>4

\* An entry with a name is set at the first position with that name, or comes
\* last.
EntrySet(f, e) ==
    IF Called(f, e.name) = {} THEN Append(f, e) ELSE [f EXCEPT ![FirstOf(Called(f, e.name))] = e]

\* Names never move.
LEMMA EntrySetProperties ==
    ASSUME NEW R, NEW f \in Seq(R), NEW e \in R
    PROVE  /\ EntrySet(f, e) \in Seq(R)
           /\ Called(f, e.name) = {} => Len(EntrySet(f, e)) = Len(f) + 1
           /\ Called(f, e.name) # {} => Len(EntrySet(f, e)) = Len(f)
           /\ \A i \in DOMAIN EntrySet(f, e) :
                \/ EntrySet(f, e)[i] = e
                \/ i \in DOMAIN f /\ EntrySet(f, e)[i] = f[i]
           /\ \A i \in DOMAIN f : /\ i \in DOMAIN EntrySet(f, e)
                                 /\ EntrySet(f, e)[i].name = f[i].name
<1> DEFINE g == EntrySet(f, e)
<1>1. DOMAIN f = 1..Len(f) /\ Len(f) \in Nat
  BY LenProperties
<1>2. CASE Called(f, e.name) = {}
  <2>1. g = Append(f, e)
    BY <1>2 DEF EntrySet
  <2> HIDE DEF g
  <2>2. /\ g \in Seq(R) /\ Len(g) = Len(f) + 1
        /\ \A i \in 1..Len(f) : g[i] = f[i]
        /\ g[Len(f) + 1] = e
    BY <2>1, AppendProperties
  <2>3. DOMAIN g = 1..(Len(f) + 1)
    BY <2>2, LenProperties
  <2>4. \A i \in DOMAIN g : g[i] = e \/ (i \in DOMAIN f /\ g[i] = f[i])
    BY <1>1, <2>2, <2>3
  <2>5. \A i \in DOMAIN f : i \in DOMAIN g /\ g[i].name = f[i].name
    BY <1>1, <2>2, <2>3
  <2> QED
    BY <1>2, <2>2, <2>4, <2>5 DEF g
<1>3. CASE Called(f, e.name) # {}
  <2> DEFINE k == FirstOf(Called(f, e.name))
  <2>1. k \in Called(f, e.name)
    <3>1. Called(f, e.name) \subseteq Nat
      BY <1>1 DEF Called
    <3> QED
      BY <1>3, <3>1, FirstOfProperties
  <2>2. k \in 1..Len(f) /\ k \in DOMAIN f /\ f[k].name = e.name
    BY <1>1, <2>1 DEF Called
  <2>3. g = [f EXCEPT ![k] = e]
    BY <1>3 DEF EntrySet
  <2> HIDE DEF g, k
  <2>4. g \in Seq(R) /\ Len(g) = Len(f)
    BY <2>2, <2>3, ExceptSeq
  <2>5. DOMAIN g = DOMAIN f /\ \A i \in DOMAIN f : g[i] = IF i = k THEN e ELSE f[i]
    BY <2>3
  <2>6. \A i \in DOMAIN g : g[i] = e \/ (i \in DOMAIN f /\ g[i] = f[i])
    BY <2>5
  <2>7. \A i \in DOMAIN f : i \in DOMAIN g /\ g[i].name = f[i].name
    BY <2>2, <2>5
  <2> QED
    BY <1>3, <2>4, <2>6, <2>7 DEF g
<1> QED
  BY <1>2, <1>3

\* Names stay at their positions.
Kept(f, g) == Len(f) <= Len(g) /\ \A i \in DOMAIN f : i \in DOMAIN g /\ g[i].name = f[i].name

\* What a spinner shows stays right when names stay at their positions.
LEMMA ShowsKept ==
    ASSUME NEW R, NEW items \in Seq(R), NEW f, NEW g, Len(f) \in Nat, Len(g) \in Nat,
           DOMAIN f = 1..Len(f), Shows(items, f), Kept(f, g)
    PROVE  Shows(items, g) /\ Len(items) <= Len(g)
<1>1. DOMAIN items = 1..Len(items) /\ Len(items) \in Nat
  BY LenProperties
<1> QED
  BY <1>1 DEF Shows, Kept

\* A message received keeps every name at its position, and makes entries only
\* of groups that lights were told of.
LEMMA ProcessStep ==
    ASSUME ListsOK, NEW m \in MessageOf, Process(m), given' = given,
           m.type \in {"addGroup", "getGroup"} => PairOf(m) \in given
    PROVE  ListsOK' /\ Kept(ourGroups, ourGroups') /\ Kept(ourScenes, ourScenes')
<1>1. /\ ourGroups \in Seq(GroupEntry) /\ Len(ourGroups) \in Nat
      /\ ourScenes \in Seq(SceneEntry) /\ Len(ourScenes) \in Nat
  BY LenProperties DEF ListsOK
<1>2. Kept(ourGroups, ourGroups) /\ Kept(ourScenes, ourScenes)
  BY <1>1 DEF Kept
<1>3. CASE UNCHANGED lists
  BY <1>2, <1>3 DEF lists, ListsOK
<1>4. CASE /\ m.type \in {"addGroup", "getGroup"}
           /\ Len(ourGroups) < MaxItems \/ Called(ourGroups, m.name) # {}
           /\ ourGroups' = NewGroup(m.name, m.id) /\ ourScenes' = ourScenes
  <2>1. m.name \in GroupName /\ m.id \in GroupId
    BY <1>4 DEF MessageOf
  <2> DEFINE e == Active(m.name, m.id)
  <2>2. e \in GroupEntry /\ e.name = m.name /\ PairOf(e) \in given
    BY <1>4, <2>1 DEF Active, GroupEntry, PairOf
  <2>3. ourGroups' = EntrySet(ourGroups, e)
    BY <1>4, <2>2 DEF NewGroup, EntrySet, e
  <2> HIDE DEF e
  <2>4. /\ ourGroups' \in Seq(GroupEntry)
        /\ Called(ourGroups, m.name) = {} => Len(ourGroups') = Len(ourGroups) + 1
        /\ Called(ourGroups, m.name) # {} => Len(ourGroups') = Len(ourGroups)
        /\ \A i \in DOMAIN ourGroups' :
             ourGroups'[i] = e \/ (i \in DOMAIN ourGroups /\ ourGroups'[i] = ourGroups[i])
        /\ \A i \in DOMAIN ourGroups :
             i \in DOMAIN ourGroups' /\ ourGroups'[i].name = ourGroups[i].name
    <3> DEFINE g == EntrySet(ourGroups, e)
    <3>1. ourGroups \in Seq(GroupEntry) /\ e \in GroupEntry /\ e.name = m.name
      BY <1>1, <2>2
    <3>2. g \in Seq(GroupEntry)
      BY <3>1, EntrySetProperties
    <3>3. /\ Called(ourGroups, e.name) = {} => Len(g) = Len(ourGroups) + 1
          /\ Called(ourGroups, e.name) # {} => Len(g) = Len(ourGroups)
      <4>1. Called(ourGroups, e.name) = {} => Len(g) = Len(ourGroups) + 1
        BY <3>1, EntrySetProperties
      <4>2. Called(ourGroups, e.name) # {} => Len(g) = Len(ourGroups)
        BY <3>1, EntrySetProperties
      <4> QED
        BY <4>1, <4>2
    <3>4. \A i \in DOMAIN ourGroups : i \in DOMAIN g /\ g[i].name = ourGroups[i].name
      BY <3>1, EntrySetProperties
    <3>5. \A i \in DOMAIN g : g[i] = e \/ (i \in DOMAIN ourGroups /\ g[i] = ourGroups[i])
      BY <3>1, EntrySetProperties
    <3> HIDE DEF g
    <3>6. ourGroups' = g
      BY <2>3 DEF g
    <3> QED
      BY <3>1, <3>2, <3>3, <3>4, <3>5, <3>6
  <2>5. Len(ourGroups') <= MaxItems /\ Len(ourGroups) <= Len(ourGroups')
    BY <1>1, <1>4, <2>4, ItemsAssumption DEF ListsOK
  <2>6. \A i \in DOMAIN ourGroups' : ourGroups'[i].active => PairOf(ourGroups'[i]) \in given'
    BY <2>2, <2>4 DEF ListsOK
  <2>7. Kept(ourGroups, ourGroups')
    BY <2>4, <2>5 DEF Kept
  <2> QED
    BY <1>2, <1>4, <2>4, <2>5, <2>6, <2>7 DEF ListsOK
<1>5. CASE m.type = "getScene"
  <2>1. m.name \in SceneName /\ m.gid \in GroupId
    BY <1>5 DEF MessageOf
  <2>2. /\ Len(ourScenes) < MaxItems \/ Called(ourScenes, m.name) # {}
        /\ ourScenes' = NewScene(m.name, m.gid) /\ ourGroups' = ourGroups
    BY <1>5 DEF Process
  <2> DEFINE e == [name |-> m.name, gid |-> m.gid]
             k == FirstOf(Called(ourScenes, m.name))
  <2>3. e \in SceneEntry /\ e.name = m.name
    BY <2>1 DEF SceneEntry
  <2>4. Called(ourScenes, m.name) # {} =>
          [ourScenes EXCEPT ![k].gid = m.gid] = [ourScenes EXCEPT ![k] = e]
    <3> SUFFICES ASSUME Called(ourScenes, m.name) # {}
                 PROVE  [ourScenes EXCEPT ![k].gid = m.gid] = [ourScenes EXCEPT ![k] = e]
      OBVIOUS
    <3>1. k \in Called(ourScenes, m.name)
      <4>1. DOMAIN ourScenes = 1..Len(ourScenes)
        BY <1>1, LenProperties
      <4>2. Called(ourScenes, m.name) \subseteq Nat
        BY <1>1, <4>1 DEF Called
      <4> QED
        BY <4>2, FirstOfProperties
    <3>2. k \in DOMAIN ourScenes /\ ourScenes[k].name = m.name /\ ourScenes[k] \in SceneEntry
      BY <1>1, <3>1, ElementOfSeq, LenProperties DEF Called
    <3> HIDE DEF k
    <3>3. [ourScenes[k] EXCEPT !.gid = m.gid] = e
      BY <2>1, <3>2 DEF SceneEntry
    <3> QED
      BY <3>3
  <2>5. ourScenes' = EntrySet(ourScenes, e)
    BY <2>2, <2>3, <2>4 DEF NewScene, EntrySet
  <2> HIDE DEF e
  <2>6. /\ ourScenes' \in Seq(SceneEntry)
        /\ Called(ourScenes, m.name) = {} => Len(ourScenes') = Len(ourScenes) + 1
        /\ Called(ourScenes, m.name) # {} => Len(ourScenes') = Len(ourScenes)
        /\ \A i \in DOMAIN ourScenes :
             i \in DOMAIN ourScenes' /\ ourScenes'[i].name = ourScenes[i].name
    <3> DEFINE g == EntrySet(ourScenes, e)
    <3>1. ourScenes \in Seq(SceneEntry) /\ e \in SceneEntry /\ e.name = m.name
      BY <1>1, <2>3
    <3>2. g \in Seq(SceneEntry)
      BY <3>1, EntrySetProperties
    <3>3. /\ Called(ourScenes, e.name) = {} => Len(g) = Len(ourScenes) + 1
          /\ Called(ourScenes, e.name) # {} => Len(g) = Len(ourScenes)
      <4>1. Called(ourScenes, e.name) = {} => Len(g) = Len(ourScenes) + 1
        BY <3>1, EntrySetProperties
      <4>2. Called(ourScenes, e.name) # {} => Len(g) = Len(ourScenes)
        BY <3>1, EntrySetProperties
      <4> QED
        BY <4>1, <4>2
    <3>4. \A i \in DOMAIN ourScenes : i \in DOMAIN g /\ g[i].name = ourScenes[i].name
      BY <3>1, EntrySetProperties
    <3> HIDE DEF g
    <3>5. ourScenes' = g
      BY <2>5 DEF g
    <3> QED
      BY <3>1, <3>2, <3>3, <3>4, <3>5
  <2>7. Len(ourScenes') <= MaxItems /\ Len(ourScenes) <= Len(ourScenes')
    BY <1>1, <2>2, <2>6, ItemsAssumption DEF ListsOK
  <2>8. Kept(ourScenes, ourScenes')
    BY <2>6, <2>7 DEF Kept
  <2> QED
    BY <1>2, <2>2, <2>6, <2>7, <2>8 DEF ListsOK
<1>6. CASE m.type = "addGroup"
  <2>1. CASE Called(ourGroups, m.name) = {}
    BY <1>3, <1>6, <2>1 DEF Process, lists
  <2>2. CASE Called(ourGroups, m.name) # {}
    BY <1>4, <1>6, <2>2 DEF Process
  <2> QED
    BY <2>1, <2>2
<1>7. CASE m.type = "getGroup"
  BY <1>4, <1>7 DEF Process
<1>8. CASE m.type = "addScene"
  BY <1>3, <1>8 DEF Process
<1>9. m.type \in {"addGroup", "getGroup", "addScene", "getScene"}
  BY DEF MessageOf
<1> QED
  BY <1>5, <1>6, <1>7, <1>8, <1>9

\* A screen stays right when names stay at their positions.
LEMMA ViewKept ==
    ASSUME ListsOK, ListsOK', ViewOK, UNCHANGED view,
           Kept(ourGroups, ourGroups'), Kept(ourScenes, ourScenes')
    PROVE  ViewOK'
<1>1. /\ Len(ourGroups) \in Nat /\ Len(ourGroups') \in Nat
      /\ DOMAIN ourGroups = 1..Len(ourGroups)
      /\ Len(ourScenes) \in Nat /\ Len(ourScenes') \in Nat
      /\ DOMAIN ourScenes = 1..Len(ourScenes)
  BY LenProperties DEF ListsOK
<1>2. groupItems \in Seq(GroupName) /\ sceneItems \in Seq(SceneName)
  BY DEF ViewOK
<1>3. Shows(groupItems, ourGroups')
  BY <1>1, <1>2, ShowsKept DEF ViewOK
<1>4. unfiltered => Shows(sceneItems, ourScenes')
  BY <1>1, <1>2, ShowsKept DEF ViewOK
<1>5. Len(sceneItems) <= Len(ourScenes')
  <2>1. Len(sceneItems) \in Nat
    BY <1>2, LenProperties
  <2> QED
    BY <1>1, <2>1 DEF ViewOK, Kept
<1>6. /\ screen' = screen /\ groupItems' = groupItems /\ sceneItems' = sceneItems
      /\ currGroup' = currGroup /\ currScene' = currScene /\ unfiltered' = unfiltered
  BY DEF view
<1> QED
  BY <1>3, <1>4, <1>5, <1>6 DEF ViewOK

\* An empty screen shows nothing wrong.
LEMMA EmptyView ==
    ASSUME NoScreen, ListsOK'
    PROVE  ViewOK'
<1>1. Len(ourGroups') \in Nat /\ Len(ourScenes') \in Nat
  BY LenProperties DEF ListsOK
<1>2. groupItems' = <<>> /\ sceneItems' = <<>>
  BY DEF NoScreen
<1>3. groupItems' \in Seq(GroupName) /\ sceneItems' \in Seq(SceneName)
  BY <1>2, EmptySeq
<1>4. Len(groupItems') = 0 /\ Len(sceneItems') = 0
      /\ DOMAIN groupItems' = {} /\ DOMAIN sceneItems' = {}
  BY <1>2
<1>5. Shows(groupItems', ourGroups') /\ Shows(sceneItems', ourScenes')
  BY <1>1, <1>4 DEF Shows
<1> QED
  BY <1>1, <1>3, <1>4, <1>5, ItemsAssumption DEF NoScreen, ViewOK

-----------------------------------------------------------------------------
(* Steps of the gateway, as the application meets them. *)

\* A request is served with a group id of the right width.
LEMMA ScreensAreGatewaySteps ==
    ASSUME ScreensInv, GrNext
    PROVE  GatewayStep
<1>1. KnownIds \subseteq GroupId
  BY IdAssumption DEF ScreensInv, GsTypeOK, KnownIds, GroupId
<1>2. CASE OthersServed
  BY <1>1, <1>2 DEF OthersServed, Request, GatewayStep
<1>3. CASE Serve
  <2>1. CASE AddGroupDone
    BY <2>1 DEF GatewayStep
  <2>2. CASE requests # <<>> /\ Handle(Head(requests))
    <3> DEFINE q == Head(requests)
    <3>1. q \in RequestOf
      BY <2>2, HeadTailProperties DEF ScreensInv, LinksOK
    <3>2. Handle(q)
      BY <2>2
    <3> HIDE DEF q
    <3>3. CASE q.op = "getGroups" \/ q.op = "getScenes"
      BY <3>2, <3>3 DEF Handle, GatewayStep
    <3>4. CASE q.op = "addGroup"
      <4>1. q.name \in GroupName /\ q.member \in Member
        BY <3>1, <3>4 DEF RequestOf
      <4> QED
        BY <3>2, <3>4, <4>1 DEF Handle, GatewayStep
    <3>5. CASE q.op \in {"storeScene", "recallScene"}
      <4>1. q.name \in SceneName /\ q.gid \in GroupId
        BY <3>1, <3>5 DEF RequestOf
      <4>2. \/ StoreScene(q.name, q.gid) \/ RecallScene(q.name, q.gid)
            \/ SceneDies(q.name, q.gid)
        BY <3>2, <3>5 DEF Handle
      <4> QED
        BY <4>1, <4>2 DEF GatewayStep
    <3>6. q.op \in {"getGroups", "getScenes", "addGroup", "storeScene", "recallScene"}
      BY <3>1 DEF RequestOf
    <3> QED
      BY <3>3, <3>4, <3>5, <3>6
  <2> QED
    BY <1>3, <2>1, <2>2 DEF Serve
<1>4. CASE GatewayEnds \/ GatewayStarts
  BY <1>4 DEF GatewayEnds, GatewayStarts, GatewayStep
<1>5. CASE AppStep
  BY <1>5 DEF AppStep, GatewayStep
<1> QED
  BY <1>2, <1>3, <1>4, <1>5 DEF GrNext

\* What is told stays told, also of the messages that are added to a box.
LEMMA BoxGrows ==
    ASSUME NEW box \in Seq(MessageOf), Tells(box), given \subseteq given',
           answer' \in Seq(MessageOf), Tells(answer)'
    PROVE  /\ box \o answer' \in Seq(MessageOf)
           /\ \A i \in DOMAIN (box \o answer') :
                (box \o answer')[i].type \in {"addGroup", "getGroup"}
                  => PairOf((box \o answer')[i]) \in given'
<1> DEFINE new == answer'
           all == box \o new
<1>1. /\ DOMAIN box = 1..Len(box) /\ Len(box) \in Nat
      /\ DOMAIN new = 1..Len(new) /\ Len(new) \in Nat
  BY LenProperties
<1>2. new \in Seq(MessageOf)
  OBVIOUS
<1>3. \A i \in DOMAIN new : new[i].type \in {"addGroup", "getGroup"} => PairOf(new[i]) \in given'
  BY DEF Tells
<1>4. \A i \in DOMAIN box : box[i].type \in {"addGroup", "getGroup"} => PairOf(box[i]) \in given'
  BY DEF Tells
<1> HIDE DEF new
<1>5. /\ all \in Seq(MessageOf) /\ Len(all) = Len(box) + Len(new)
      /\ \A i \in 1..(Len(box) + Len(new)) :
           all[i] = IF i <= Len(box) THEN box[i] ELSE new[i - Len(box)]
  BY <1>2, ConcatProperties
<1> HIDE DEF all
<1>6. DOMAIN all = 1..(Len(box) + Len(new))
  BY <1>5, LenProperties
<1>7. ASSUME NEW i \in DOMAIN all
      PROVE  \/ i \in DOMAIN box /\ all[i] = box[i]
             \/ i - Len(box) \in DOMAIN new /\ all[i] = new[i - Len(box)]
  <2>1. i \in 1..(Len(box) + Len(new))
    BY <1>6, <1>7
  <2>2. all[i] = IF i <= Len(box) THEN box[i] ELSE new[i - Len(box)]
    BY <1>5, <2>1
  <2>3. CASE i <= Len(box)
    BY <1>1, <2>1, <2>2, <2>3
  <2>4. CASE ~(i <= Len(box))
    <3>1. i - Len(box) \in 1..Len(new)
      BY <1>1, <2>1, <2>4
    <3> QED
      BY <1>1, <2>2, <2>4, <3>1
  <2> QED
    BY <2>3, <2>4
<1>8. \A i \in DOMAIN all : all[i].type \in {"addGroup", "getGroup"} => PairOf(all[i]) \in given'
  BY <1>3, <1>4, <1>7
<1> QED
  BY <1>5, <1>8 DEF all, new

\* A step of the gateway in which the application does nothing.
LEMMA GatewayKeepsScreens ==
    ASSUME ScreensInv, GatewayStep, inbox' = inbox \/ inbox' = inbox \o answer',
           connected' \in BOOLEAN, requests' \in Seq(RequestOf),
           UNCHANGED <<user, app, oldInbox, readers, lists, view, presses>>
    PROVE  ScreensInv'
<1>1. GsTypeOK' /\ RecordsGiven' /\ given \subseteq given'
  BY GsTypeStep, GivenStep DEF ScreensInv
<1>2. inbox \in Seq(MessageOf) /\ Tells(inbox) /\ oldInbox \in Seq(MessageOf) /\ Tells(oldInbox)
  BY DEF ScreensInv, LinksOK
<1>3. inbox' \in Seq(MessageOf) /\ Tells(inbox)'
  <2>1. CASE inbox' = inbox
    <3>1. \A i \in DOMAIN inbox :
             inbox[i].type \in {"addGroup", "getGroup"} => PairOf(inbox[i]) \in given'
      BY <1>1, <1>2, TellsMore
    <3> QED
      BY <1>2, <2>1, <3>1 DEF Tells
  <2>2. CASE inbox' = inbox \o answer'
    <3>1. answer' \in Seq(MessageOf) /\ Tells(answer)'
      BY GivenStep DEF ScreensInv
    <3>2. /\ inbox \o answer' \in Seq(MessageOf)
          /\ \A i \in DOMAIN (inbox \o answer') :
               (inbox \o answer')[i].type \in {"addGroup", "getGroup"}
                 => PairOf((inbox \o answer')[i]) \in given'
      BY <1>1, <1>2, <3>1, BoxGrows
    <3> QED
      BY <2>2, <3>2 DEF Tells
  <2> QED
    BY <2>1, <2>2
<1>4. oldInbox' \in Seq(MessageOf) /\ Tells(oldInbox)'
  <2>1. \A i \in DOMAIN oldInbox :
           oldInbox[i].type \in {"addGroup", "getGroup"} => PairOf(oldInbox[i]) \in given'
    BY <1>1, <1>2, TellsMore
  <2> QED
    BY <1>2, <2>1 DEF Tells
<1>5. LinksOK'
  BY <1>3, <1>4 DEF ScreensInv, LinksOK
<1>6. ListsOK'
  BY <1>1 DEF ScreensInv, ListsOK, lists
<1>7. ViewOK'
  BY DEF ScreensInv, ViewOK, view, lists
<1> QED
  BY <1>1, <1>5, <1>6, <1>7 DEF ScreensInv

-----------------------------------------------------------------------------
(* Steps of the application. *)

\* Connecting.
LEMMA LaunchStep ==
    ASSUME ScreensInv, Launch, given' = given
    PROVE  LinksOK' /\ ListsOK' /\ ViewOK'
<1>1. ListsOK'
  BY DEF ScreensInv, Launch, lists, ListsOK
<1>2. ViewOK'
  BY <1>1, EmptyView DEF Launch
<1>3. requests' \in Seq(RequestOf)
  <2>1. [op |-> "getGroups"] \in RequestOf /\ [op |-> "getScenes"] \in RequestOf
    BY DEF RequestOf
  <2> QED
    BY <2>1 DEF Launch
<1>4. readers' \in (0..1) \X (0..2)
  <2>1. readers = <<0, 0>> \/ readers = <<0, 1>>
    BY DEF Launch, ScreensInv, LinksOK
  <2> QED
    BY <2>1 DEF Launch
<1>5. inbox' = <<>> /\ oldInbox' = inbox
  BY DEF Launch
<1>6. inbox' \in Seq(MessageOf) /\ Tells(inbox)'
  BY <1>5, EmptySeq DEF Tells
<1>7. oldInbox' \in Seq(MessageOf) /\ Tells(oldInbox)'
  BY <1>5 DEF ScreensInv, LinksOK, Tells
<1>8. LinksOK'
  BY <1>3, <1>4, <1>6, <1>7 DEF Launch, LinksOK
<1> QED
  BY <1>1, <1>2, <1>8

\* The end of the process.
LEMMA GoneStep ==
    ASSUME ScreensInv, Gone, given' = given
    PROVE  LinksOK' /\ ListsOK' /\ ViewOK'
<1>1. /\ ourGroups' = <<>> /\ ourScenes' = <<>> /\ inbox' = <<>> /\ oldInbox' = <<>>
      /\ readers' = <<0, 0>> /\ app' = "closed" /\ connected' = FALSE /\ requests' = requests
  BY DEF Gone
<1>2. ListsOK'
  <2>1. ourGroups' \in Seq(GroupEntry) /\ ourScenes' \in Seq(SceneEntry)
    BY <1>1, EmptySeq
  <2>2. Len(ourGroups') = 0 /\ Len(ourScenes') = 0 /\ DOMAIN ourGroups' = {}
    BY <1>1
  <2> QED
    BY <2>1, <2>2, ItemsAssumption DEF ListsOK
<1>3. ViewOK'
  BY <1>2, EmptyView DEF Gone
<1>4. inbox' \in Seq(MessageOf) /\ oldInbox' \in Seq(MessageOf)
  BY <1>1, EmptySeq
<1>5. Tells(inbox)' /\ Tells(oldInbox)'
  BY <1>1 DEF Tells
<1>6. readers' \in (0..1) \X (0..2)
  BY <1>1
<1>7. LinksOK'
  BY <1>1, <1>4, <1>5, <1>6 DEF ScreensInv, LinksOK
<1> QED
  BY <1>2, <1>3, <1>7

\* The first message of a box, and the others.
LEMMA BoxTaken ==
    ASSUME NEW box \in Seq(MessageOf), Tells(box), box # <<>>
    PROVE  /\ Head(box) \in MessageOf
           /\ Head(box).type \in {"addGroup", "getGroup"} => PairOf(Head(box)) \in given
           /\ Tail(box) \in Seq(MessageOf)
           /\ Tells(Tail(box))
<1>1. /\ Head(box) \in MessageOf /\ Tail(box) \in Seq(MessageOf)
      /\ Len(Tail(box)) = Len(box) - 1
      /\ \A i \in 1..Len(Tail(box)) : Tail(box)[i] = box[i + 1]
  BY HeadTailProperties
<1>2. Head(box) = box[1]
  OBVIOUS
<1>3. DOMAIN box = 1..Len(box) /\ Len(box) \in Nat /\ Len(box) # 0
  BY LenProperties, EmptySeq
<1>4. DOMAIN Tail(box) = 1..(Len(box) - 1)
  BY <1>1, LenProperties
<1>5. 1 \in DOMAIN box
  BY <1>3
<1>6. \A i \in DOMAIN Tail(box) : i + 1 \in DOMAIN box /\ Tail(box)[i] = box[i + 1]
  BY <1>1, <1>3, <1>4
<1>7. Tells(Tail(box))
  BY <1>6 DEF Tells
<1> QED
  BY <1>1, <1>2, <1>5, <1>7 DEF Tells

\* Receiving a message.
LEMMA ReceiveStep ==
    ASSUME ScreensInv, Receive \/ OldReaderMoves, given' = given
    PROVE  LinksOK' /\ ListsOK' /\ ViewOK'
<1>1. ListsOK /\ ViewOK
  BY DEF ScreensInv
<1>2. /\ inbox \in Seq(MessageOf) /\ Tells(inbox)
      /\ oldInbox \in Seq(MessageOf) /\ Tells(oldInbox)
  BY DEF ScreensInv, LinksOK
<1>3. /\ Len(ourGroups) \in Nat /\ Len(ourScenes) \in Nat
      /\ Kept(ourGroups, ourGroups) /\ Kept(ourScenes, ourScenes)
  BY <1>1, LenProperties DEF ListsOK, Kept
<1>4. CASE Receive
  <2>1. Process(Head(inbox)) /\ inbox # <<>> /\ inbox' = Tail(inbox) /\ UNCHANGED view
    BY <1>4 DEF Receive
  <2>2. /\ Head(inbox) \in MessageOf
        /\ Head(inbox).type \in {"addGroup", "getGroup"} => PairOf(Head(inbox)) \in given
        /\ Tail(inbox) \in Seq(MessageOf) /\ Tells(Tail(inbox))
    BY <1>2, <2>1, BoxTaken
  <2>3. ListsOK' /\ Kept(ourGroups, ourGroups') /\ Kept(ourScenes, ourScenes')
    BY <1>1, <2>1, <2>2, ProcessStep
  <2>4. ViewOK'
    BY <1>1, <2>1, <2>3, ViewKept
  <2>5. Tells(inbox)' /\ Tells(oldInbox)'
    BY <1>2, <1>4, <2>1, <2>2 DEF Tells, Receive
  <2>6. LinksOK'
    BY <1>4, <2>1, <2>2, <2>5 DEF Receive, ScreensInv, LinksOK
  <2> QED
    BY <2>3, <2>4, <2>6
<1>5. CASE OldReaderMoves
  <2>1. /\ IF oldInbox = <<>> THEN UNCHANGED lists ELSE Process(Head(oldInbox))
        /\ oldInbox' = <<>> /\ readers' = <<0, 2>> /\ app = "runs"
        /\ UNCHANGED <<app, connected, requests, inbox, view>>
    BY <1>5 DEF OldReaderMoves
  <2>2. ListsOK' /\ Kept(ourGroups, ourGroups') /\ Kept(ourScenes, ourScenes')
    <3>1. CASE oldInbox = <<>>
      BY <1>1, <1>3, <2>1, <3>1 DEF lists, ListsOK
    <3>2. CASE oldInbox # <<>>
      <4>1. /\ Head(oldInbox) \in MessageOf
            /\ Head(oldInbox).type \in {"addGroup", "getGroup"}
                 => PairOf(Head(oldInbox)) \in given
        BY <1>2, <3>2, BoxTaken
      <4> QED
        BY <1>1, <2>1, <3>2, <4>1, ProcessStep
    <3> QED
      BY <3>1, <3>2
  <2>3. ViewOK'
    BY <1>1, <2>1, <2>2, ViewKept
  <2>4. Tells(inbox)' /\ Tells(oldInbox)'
    BY <1>2, <2>1 DEF Tells
  <2>5. oldInbox' \in Seq(MessageOf) /\ readers' \in (0..1) \X (0..2)
    BY <2>1, EmptySeq
  <2>6. LinksOK'
    BY <2>1, <2>4, <2>5 DEF ScreensInv, LinksOK
  <2> QED
    BY <2>2, <2>3, <2>6
<1> QED
  BY <1>4, <1>5

\* One stream, two readers.
LEMMA MisreadStep ==
    ASSUME ScreensInv, Misread, given' = given
    PROVE  LinksOK' /\ ListsOK' /\ ViewOK'
<1>1. UNCHANGED <<lists, link>> /\ app' = "wild"
  BY DEF Misread
<1>2. ListsOK'
  BY <1>1 DEF ScreensInv, lists, ListsOK
<1>3. ViewOK'
  BY <1>2, EmptyView DEF Misread
<1>4. Tells(inbox)' /\ Tells(oldInbox)'
  BY <1>1 DEF ScreensInv, LinksOK, Tells, link
<1>5. LinksOK'
  BY <1>1, <1>4 DEF ScreensInv, LinksOK, link
<1> QED
  BY <1>2, <1>3, <1>5

\* Nothing happens to the links nor to the lists.
LEMMA LinksKept ==
    ASSUME ScreensInv, given' = given, UNCHANGED <<app, link>>
    PROVE  LinksOK'
<1>1. Tells(inbox)' /\ Tells(oldInbox)'
  BY DEF ScreensInv, LinksOK, Tells, link
<1> QED
  BY <1>1 DEF ScreensInv, LinksOK, link

\* A request goes out.
LEMMA SendStep ==
    ASSUME ScreensInv, NEW q \in RequestOf, Send(q), given' = given
    PROVE  LinksOK' /\ ListsOK' /\ ViewOK'
<1>1. /\ UNCHANGED <<app, connected, inbox, oldInbox, readers, lists, view>>
      /\ requests' = IF connected THEN Append(requests, q) ELSE requests
  BY DEF Send
<1>2. requests' \in Seq(RequestOf)
  BY <1>1, AppendProperties DEF ScreensInv, LinksOK
<1>3. Tells(inbox)' /\ Tells(oldInbox)'
  BY <1>1 DEF ScreensInv, LinksOK, Tells
<1>4. LinksOK'
  BY <1>1, <1>2, <1>3 DEF ScreensInv, LinksOK
<1>5. ListsOK' /\ ViewOK'
  BY <1>1 DEF ScreensInv, ListsOK, ViewOK, lists, view
<1> QED
  BY <1>4, <1>5

\* The buttons send well-formed requests.
LEMMA ButtonStep ==
    ASSUME ScreensInv, given' = given,
           (\E m \in Member : AddLight(m))
             \/ SceneButton("storeScene") \/ SceneButton("recallScene")
    PROVE  LinksOK' /\ ListsOK' /\ ViewOK'
<1>1. /\ ourGroups \in Seq(GroupEntry) /\ ourScenes \in Seq(SceneEntry)
      /\ groupItems \in Seq(GroupName)
  BY DEF ScreensInv, ListsOK, ViewOK
<1>2. ASSUME NEW m \in Member, AddLight(m)
      PROVE  LinksOK' /\ ListsOK' /\ ViewOK'
  <2>1. groupItems[currGroup] \in GroupName
    BY <1>1, <1>2, ElementOfSeq, LenProperties DEF AddLight
  <2>2. [op |-> "addGroup", name |-> groupItems[currGroup], member |-> m] \in RequestOf
    BY <2>1 DEF RequestOf
  <2>3. Send([op |-> "addGroup", name |-> groupItems[currGroup], member |-> m])
    BY <1>2 DEF AddLight
  <2> QED
    BY <2>2, <2>3, SendStep
<1>3. ASSUME NEW o \in {"storeScene", "recallScene"}, SceneButton(o)
      PROVE  LinksOK' /\ ListsOK' /\ ViewOK'
  <2>1. ourScenes[currScene] \in SceneEntry /\ ourGroups[currGroup] \in GroupEntry
    BY <1>1, <1>3, ElementOfSeq, LenProperties DEF SceneButton
  <2> DEFINE q == [op |-> o, name |-> ourScenes[currScene].name,
                   gid |-> ourGroups[currGroup].id]
  <2>2. q \in RequestOf
    BY <2>1 DEF SceneEntry, GroupEntry, RequestOf
  <2>3. Send(q)
    BY <1>3 DEF SceneButton
  <2> HIDE DEF q
  <2> QED
    BY <2>2, <2>3, SendStep
<1> QED
  BY <1>2, <1>3

\* What a screen shows of the groups when it is filled.
LEMMA GroupsShown ==
    ASSUME NEW list \in Seq(GroupEntry)
    PROVE  /\ Names(list) \in Seq(GroupName) /\ Len(Names(list)) = Len(list)
           /\ Shows(Names(list), list)
<1>1. \A r \in GroupEntry : r.name \in GroupName
  BY DEF GroupEntry
<1> QED
  BY <1>1, NamesOfList

\* Looking at a screen: what it shows is what is in the lists.
LEMMA LookStep ==
    ASSUME ScreensInv, given' = given,
           OpenGroups \/ OpenScenes
             \/ \E i \in 1..MaxItems : ChooseGroup(i) \/ ChooseScene(i)
    PROVE  LinksOK' /\ ListsOK' /\ ViewOK'
<1>1. UNCHANGED <<app, link, lists>>
  BY DEF OpenGroups, OpenScenes, ChooseGroup, ChooseScene
<1>2. LinksOK'
  BY <1>1, LinksKept
<1>3. ListsOK'
  BY <1>1 DEF ScreensInv, ListsOK, lists
<1>4. /\ ourGroups' = ourGroups /\ ourGroups \in Seq(GroupEntry)
      /\ ourScenes' = ourScenes /\ ourScenes \in Seq(SceneEntry)
      /\ Len(ourScenes) \in Nat
  BY <1>1, LenProperties DEF ScreensInv, ListsOK, lists
<1>5. /\ Names(ourGroups) \in Seq(GroupName)
      /\ Shows(Names(ourGroups), ourGroups)
  BY <1>4, GroupsShown
<1>6. ViewOK
  BY DEF ScreensInv
<1>7. CASE OpenGroups
  <2>1. /\ screen' = "groups" /\ groupItems' = Names(ourGroups) /\ currGroup' = 1
        /\ sceneItems' = <<>> /\ currScene' = 1 /\ unfiltered' = TRUE
    BY <1>7 DEF OpenGroups
  <2>2. sceneItems' \in Seq(SceneName) /\ Len(sceneItems') <= Len(ourScenes)
        /\ Shows(sceneItems', ourScenes)
    <3>1. Len(sceneItems') = 0 /\ DOMAIN sceneItems' = {}
      BY <2>1
    <3> QED
      BY <1>4, <2>1, <3>1, EmptySeq DEF Shows
  <2> QED
    BY <1>2, <1>3, <1>4, <1>5, <2>1, <2>2, ItemsAssumption DEF ViewOK
<1>8. ASSUME NEW i, FillScenes(ourGroups, ourScenes, i), currScene' \in FirstScene
      PROVE  /\ sceneItems' \in Seq(SceneName) /\ Len(sceneItems') <= Len(ourScenes)
             /\ unfiltered' \in BOOLEAN /\ (unfiltered' => Shows(sceneItems', ourScenes))
             /\ currScene' \in 0..(MaxItems + 1)
  <2>1. currScene' \in {0, 1}
    BY <1>8 DEF FirstScene
  <2> QED
    BY <1>4, <1>8, <2>1, FilledScenes, ItemsAssumption
<1>9. CASE OpenScenes
  <2>1. /\ screen' = "scenes" /\ groupItems' = Names(ourGroups) /\ currGroup' = 1
        /\ FillScenes(ourGroups, ourScenes, 1) /\ currScene' \in FirstScene
    BY <1>9 DEF OpenScenes
  <2> QED
    BY <1>2, <1>3, <1>4, <1>5, <1>8, <2>1, ItemsAssumption DEF ViewOK
<1>10. ASSUME NEW i \in 1..MaxItems, ChooseGroup(i)
       PROVE  ViewOK'
  <2>1. screen' = screen /\ groupItems' = groupItems /\ currGroup' = i
    BY <1>10 DEF ChooseGroup
  <2>2. i \in 1..(MaxItems + 1)
    BY ItemsAssumption
  <2>3. CASE screen = "scenes"
    <3>1. FillScenes(ourGroups, ourScenes, i) /\ currScene' \in FirstScene
      BY <1>10, <2>3 DEF ChooseGroup
    <3> QED
      BY <1>4, <1>6, <1>8, <2>1, <2>2, <3>1 DEF ViewOK
  <2>4. CASE screen # "scenes"
    <3>1. UNCHANGED <<currScene, sceneItems, unfiltered>>
      BY <1>10, <2>4 DEF ChooseGroup
    <3> QED
      BY <1>4, <1>6, <2>1, <2>2, <3>1 DEF ViewOK
  <2> QED
    BY <2>3, <2>4
<1>11. ASSUME NEW i \in 1..MaxItems, ChooseScene(i)
       PROVE  ViewOK'
  <2>1. /\ currScene' = i
        /\ UNCHANGED <<screen, groupItems, sceneItems, currGroup, unfiltered>>
    BY <1>11 DEF ChooseScene
  <2>2. i \in 0..(MaxItems + 1)
    BY ItemsAssumption
  <2> QED
    BY <1>4, <1>6, <2>1, <2>2 DEF ViewOK
<1> QED
  BY <1>2, <1>3, <1>7, <1>9, <1>10, <1>11

\* A group that is typed in is not active, and shown last.
LEMMA CreateGroupStep ==
    ASSUME ScreensInv, NEW n \in GroupName, CreateGroup(n), given' = given
    PROVE  LinksOK' /\ ListsOK' /\ ViewOK'
<1> DEFINE e == [name |-> n, id |-> 0, active |-> FALSE]
<1>1. /\ ourGroups' = Append(ourGroups, e) /\ Len(ourGroups) < MaxItems
      /\ currGroup' = Len(groupItems) + 1
      /\ groupItems' = Names(ourGroups')
      /\ UNCHANGED <<app, link, ourScenes, screen, sceneItems, currScene, unfiltered>>
  BY DEF CreateGroup
<1>2. e \in GroupEntry /\ e.active = FALSE
  BY IdAssumption DEF GroupEntry, GroupId
<1> HIDE DEF e
<1>3. LinksOK'
  BY <1>1, LinksKept
<1>4. ourGroups \in Seq(GroupEntry) /\ Len(ourGroups) \in Nat
  BY LenProperties DEF ScreensInv, ListsOK
<1>5. /\ ourGroups' \in Seq(GroupEntry) /\ Len(ourGroups') = Len(ourGroups) + 1
      /\ \A i \in 1..Len(ourGroups) : ourGroups'[i] = ourGroups[i]
      /\ ourGroups'[Len(ourGroups) + 1] = e
  BY <1>1, <1>2, <1>4, AppendProperties
<1>6. DOMAIN ourGroups' = 1..(Len(ourGroups) + 1) /\ DOMAIN ourGroups = 1..Len(ourGroups)
  BY <1>4, <1>5, LenProperties
<1>7. ASSUME NEW i \in DOMAIN ourGroups'
      PROVE  ourGroups'[i].active => PairOf(ourGroups'[i]) \in given'
  <2>1. ourGroups'[i] = e \/ (i \in DOMAIN ourGroups /\ ourGroups'[i] = ourGroups[i])
    BY <1>4, <1>5, <1>6
  <2> QED
    BY <1>2, <2>1 DEF ScreensInv, ListsOK
<1>8. ListsOK'
  BY <1>1, <1>4, <1>5, <1>7, ItemsAssumption DEF ScreensInv, ListsOK
<1>9. groupItems' \in Seq(GroupName) /\ Shows(groupItems', ourGroups')
  <2> DEFINE g == ourGroups'
  <2>1. g \in Seq(GroupEntry)
    BY <1>5
  <2> HIDE DEF g
  <2>2. Names(g) \in Seq(GroupName) /\ Shows(Names(g), g)
    BY <2>1, GroupsShown
  <2> QED
    BY <1>1, <2>2 DEF g
<1>10. currGroup' \in 1..(MaxItems + 1)
  <2>1. Len(groupItems) \in Nat /\ Len(groupItems) <= Len(ourGroups)
    BY LenProperties DEF ScreensInv, ViewOK, Shows
  <2> QED
    BY <1>1, <1>4, <2>1, ItemsAssumption
<1>11. ViewOK'
  BY <1>1, <1>9, <1>10 DEF ScreensInv, ViewOK
<1> QED
  BY <1>3, <1>8, <1>11

\* A scene that is typed in is last in the list.
LEMMA CreateSceneStep ==
    ASSUME ScreensInv, NEW n \in SceneName, CreateScene(n), given' = given
    PROVE  LinksOK' /\ ListsOK' /\ ViewOK'
<1> DEFINE e == [name |-> n, gid |-> ourGroups[currGroup].id]
<1>1. /\ ourScenes' = Append(ourScenes, e) /\ Len(ourScenes) < MaxItems
      /\ currGroup \in DOMAIN ourGroups
      /\ currScene' = Len(sceneItems) + 1
      /\ FillScenes(ourGroups, ourScenes', currGroup)
      /\ UNCHANGED <<app, link, ourGroups, screen, groupItems, currGroup>>
  BY DEF CreateScene
<1>2. /\ ourGroups \in Seq(GroupEntry) /\ ourScenes \in Seq(SceneEntry)
      /\ Len(ourScenes) \in Nat
  BY LenProperties DEF ScreensInv, ListsOK
<1>3. e \in SceneEntry
  <2>1. ourGroups[currGroup] \in GroupEntry
    BY <1>1, <1>2, ElementOfSeq, LenProperties
  <2> QED
    BY <2>1 DEF GroupEntry, SceneEntry
<1> HIDE DEF e
<1>4. LinksOK'
  BY <1>1, LinksKept
<1>5. ourScenes' \in Seq(SceneEntry) /\ Len(ourScenes') = Len(ourScenes) + 1
  BY <1>1, <1>2, <1>3, AppendProperties
<1>6. ListsOK'
  BY <1>1, <1>2, <1>5, ItemsAssumption DEF ScreensInv, ListsOK
<1>7. /\ sceneItems' \in Seq(SceneName) /\ Len(sceneItems') <= Len(ourScenes')
      /\ unfiltered' \in BOOLEAN /\ (unfiltered' => Shows(sceneItems', ourScenes'))
  BY <1>1, <1>5, FilledScenes
<1>8. currScene' \in 0..(MaxItems + 1)
  <2>1. Len(sceneItems) \in Nat /\ Len(sceneItems) <= Len(ourScenes)
    BY LenProperties DEF ScreensInv, ViewOK
  <2> QED
    BY <1>1, <1>2, <2>1, ItemsAssumption
<1>9. ViewOK'
  BY <1>1, <1>7, <1>8 DEF ScreensInv, ViewOK
<1> QED
  BY <1>4, <1>6, <1>9

\* Every step keeps the invariant.
LEMMA ScreensStep ==
    ASSUME ScreensInv, GrNext
    PROVE  ScreensInv'
<1>1. GatewayStep
  BY ScreensAreGatewaySteps
<1>2. CASE OthersServed \/ GatewayStarts
  <2>1. UNCHANGED appVars
    BY <1>2 DEF OthersServed, GatewayStarts
  <2>2. /\ inbox' = inbox /\ connected' \in BOOLEAN /\ requests' \in Seq(RequestOf)
        /\ UNCHANGED <<user, app, oldInbox, readers, lists, view, presses>>
    BY <2>1 DEF appVars, link, ScreensInv, LinksOK
  <2> QED
    BY <1>1, <2>2, GatewayKeepsScreens
<1>3. ASSUME Answered
      PROVE  (inbox' = inbox \/ inbox' = inbox \o answer') /\ connected' \in BOOLEAN
  BY <1>3 DEF Answered, ScreensInv, LinksOK
<1>4. CASE Serve
  <2>1. Answered /\ UNCHANGED <<user, app, oldInbox, readers, lists, view, presses>>
    BY <1>4 DEF Serve
  <2>2. requests \in Seq(RequestOf) /\ (requests # <<>> => Tail(requests) \in Seq(RequestOf))
    BY HeadTailProperties DEF ScreensInv, LinksOK
  <2>3. requests' \in Seq(RequestOf)
    BY <1>4, <2>2, EmptySeq DEF Serve
  <2> QED
    BY <1>1, <1>3, <2>1, <2>3, GatewayKeepsScreens
<1>5. CASE GatewayEnds
  <2>1. /\ Answered /\ requests' = <<>>
        /\ UNCHANGED <<user, app, oldInbox, readers, lists, view, presses>>
    BY <1>5 DEF GatewayEnds
  <2>2. requests' \in Seq(RequestOf)
    BY <2>1, EmptySeq
  <2> QED
    BY <1>1, <1>3, <2>1, <2>2, GatewayKeepsScreens
<1>6. CASE AppStep
  <2>1. /\ UNCHANGED <<user, groups, scenes, lastGroupId, lastSceneId, task, given, stored>>
        /\ presses' = presses \/ (presses < MaxPresses /\ presses' = presses + 1)
    BY <1>6 DEF AppStep
  <2>2. GsTypeOK' /\ RecordsGiven'
    BY <2>1 DEF ScreensInv, GsTypeOK, RecordsGiven
  <2>3. user' \in {"app", "any"} /\ presses' \in 0..MaxPresses
    BY <2>1, PressAssumption DEF ScreensInv
  <2>4. LinksOK' /\ ListsOK' /\ ViewOK'
    <3>1. given' = given
      BY <2>1
    <3>2. CASE Launch
      BY <3>1, <3>2, LaunchStep
    <3>3. CASE Killed \/ OpenScenesDies \/ ButtonDies
      <4>1. Gone
        BY <3>3 DEF Killed, OpenScenesDies, ButtonDies
      <4> QED
        BY <3>1, <4>1, GoneStep
    <3>4. CASE Receive \/ OldReaderMoves
      BY <3>1, <3>4, ReceiveStep
    <3>5. CASE Misread
      BY <3>1, <3>5, MisreadStep
    <3>6. CASE OpenGroups \/ OpenScenes
                 \/ \E i \in 1..MaxItems : ChooseGroup(i) \/ ChooseScene(i)
      BY <3>1, <3>6, LookStep
    <3>7. CASE \E n \in GroupTyped : CreateGroup(n)
      BY <3>1, <3>7, CreateGroupStep, TypedAssumption
    <3>8. CASE \E n \in SceneTyped : CreateScene(n)
      BY <3>1, <3>8, CreateSceneStep, TypedAssumption
    <3>9. CASE (\E m \in Member : AddLight(m))
                 \/ SceneButton("storeScene") \/ SceneButton("recallScene")
      BY <3>1, <3>9, ButtonStep
    <3> QED
      BY <1>6, <3>2, <3>3, <3>4, <3>5, <3>6, <3>7, <3>8, <3>9 DEF AppStep, Look, Press
  <2> QED
    BY <2>2, <2>3, <2>4 DEF ScreensInv
<1> QED
  BY <1>2, <1>4, <1>5, <1>6 DEF GrNext

\* The invariant implies the types.
LEMMA ScreensInvTypes ==
    ASSUME ScreensInv
    PROVE  GrTypeOK
BY DEF ScreensInv, LinksOK, ListsOK, ViewOK, Shows, GroupEntry, SceneEntry, GrTypeOK

\* It implies that the buttons mean what is shown.
LEMMA ScreensInvMeans ==
    ASSUME ScreensInv
    PROVE  ButtonsMeanWhatIsShown
BY DEF ScreensInv, ListsOK, ViewOK, Shows, PairOf, ButtonsMeanWhatIsShown

-----------------------------------------------------------------------------
(* The theorems. *)

\* The gateway starts in a well-typed state.
LEMMA GsTypeInit == GsInit => GsTypeOK
<1> SUFFICES ASSUME GsInit
             PROVE  GsTypeOK
  OBVIOUS
<1>1. groups \in Seq(Group) /\ scenes \in Seq(Scene)
  BY EmptySeq DEF GsInit
<1> QED
  BY <1>1, IdAssumption DEF GsInit, GsTypeOK, GroupId, SceneId

\* No groups, and no light knows one.
LEMMA GroupsInit == GsInit => GroupsInv
BY GsTypeInit DEF GsInit, GroupsInv, GroupsDiffer, GivenListed, AllGroups, Down

\* No scenes, and no light has stored one.
LEMMA ScenesInit == GsInit => ScenesInv
BY GsTypeInit
   DEF GsInit, ScenesInv, ScenesDiffer, StoredListed, RecallsWhatWasStored, Silence

\* The state of groups and scenes always has its types: ids stay in their width.
THEOREM GsTypeCorrect == GsSpec => []GsTypeOK
<1>1. GsTypeOK /\ [GsNext]_gsVars => GsTypeOK'
  BY StepIsGatewayStep, GsTypeStep DEF gsVars, GsTypeOK
<1> QED
  BY GsTypeInit, <1>1, PTL DEF GsSpec

\* Whatever names clients ask for, in whatever order, with restarts and with
\* counters of ids that wrap, lights are never told one id for two groups, nor
\* two ids for one.
THEOREM GroupIdsNeverChange ==
    ASSUME GroupsSafe
    PROVE  GsSpec => []GroupIdsStable
<1>1. GroupsInv /\ [GsNext]_gsVars => GroupsInv'
  <2>1. GroupsInv /\ GsNext => GroupsInv'
    BY StepIsGatewayStep, GroupsStep DEF GroupsInv
  <2>2. GroupsInv /\ UNCHANGED gsVars => GroupsInv'
    BY DEF gsVars, GroupsInv, GsTypeOK, GroupsDiffer, GivenListed, AllGroups
  <2> QED
    BY <2>1, <2>2
<1> QED
  BY GroupsInit, <1>1, GroupsInvImplies, PTL DEF GsSpec

\* A recalled scene is the one that lights stored under its name.
THEOREM ScenesRecallTheirOwn == GsSpec => []RecallsWhatWasStored
<1>1. ScenesInv /\ [GsNext]_gsVars => ScenesInv'
  <2>1. ScenesInv /\ GsNext => ScenesInv'
    BY StepIsGatewayStep, ScenesStep DEF ScenesInv
  <2>2. ScenesInv /\ UNCHANGED gsVars => ScenesInv'
    BY DEF gsVars, ScenesInv, GsTypeOK, ScenesDiffer, StoredListed, RecallsWhatWasStored
  <2> QED
    BY <2>1, <2>2
<1>2. ScenesInv => RecallsWhatWasStored
  BY DEF ScenesInv
<1> QED
  BY ScenesInit, <1>1, <1>2, PTL DEF GsSpec

\* No group loses its first MaxMembers members, whatever is added to it or to
\* others, unless a crash falls between the two writes.
THEOREM GroupsKeepMembers ==
    ASSUME "gap" \notin Faults
    PROVE  GsSpec => MembersKept
BY GsTypeCorrect, StepIsGatewayStep, MembersStep, PTL DEF GsSpec, MembersKept

-----------------------------------------------------------------------------
(* The same with the Android application, and what its screens show. *)

\* Nothing is listed, shown or under way.
LEMMA ScreensInit == GrInit => ScreensInv
<1> SUFFICES ASSUME GrInit
             PROVE  ScreensInv
  OBVIOUS
<1>1. GsTypeOK
  BY GsTypeInit DEF GrInit
<1>2. RecordsGiven
  BY DEF GrInit, GsInit, RecordsGiven, Down
<1>3. ListsOK
  <2>1. /\ ourGroups = <<>> /\ ourGroups \in Seq(GroupEntry)
        /\ ourScenes = <<>> /\ ourScenes \in Seq(SceneEntry)
    BY EmptySeq DEF GrInit
  <2>2. Len(ourGroups) = 0 /\ Len(ourScenes) = 0 /\ DOMAIN ourGroups = {}
    BY <2>1
  <2> QED
    BY <2>1, <2>2, ItemsAssumption DEF ListsOK
<1>4. LinksOK
  <2>1. /\ requests \in Seq(RequestOf) /\ inbox \in Seq(MessageOf)
        /\ oldInbox \in Seq(MessageOf)
    BY EmptySeq DEF GrInit
  <2>2. inbox = <<>> /\ oldInbox = <<>> /\ readers = <<0, 0>>
    BY DEF GrInit
  <2>3. Tells(inbox) /\ Tells(oldInbox)
    BY <2>2 DEF Tells
  <2>4. readers \in (0..1) \X (0..2)
    BY <2>2
  <2>5. app = "closed" /\ connected = FALSE
    BY DEF GrInit
  <2> QED
    BY <2>1, <2>2, <2>3, <2>4, <2>5 DEF LinksOK
<1>5. ViewOK
  <2>1. /\ groupItems = <<>> /\ sceneItems = <<>> /\ ourGroups = <<>> /\ ourScenes = <<>>
        /\ groupItems \in Seq(GroupName) /\ sceneItems \in Seq(SceneName)
    BY EmptySeq DEF GrInit
  <2>2. /\ Len(groupItems) = 0 /\ Len(ourGroups) = 0 /\ DOMAIN groupItems = {}
        /\ Len(sceneItems) = 0 /\ Len(ourScenes) = 0 /\ DOMAIN sceneItems = {}
    BY <2>1
  <2>3. Shows(groupItems, ourGroups) /\ Shows(sceneItems, ourScenes)
    BY <2>2 DEF Shows
  <2> QED
    BY <2>1, <2>2, <2>3, ItemsAssumption DEF GrInit, ViewOK
<1> QED
  BY <1>1, <1>2, <1>3, <1>4, <1>5, PressAssumption DEF GrInit, ScreensInv

\* The invariant of the screens always holds.
LEMMA ScreensInvariant == GrSpec => []ScreensInv
<1>1. ScreensInv /\ [GrNext]_grVars => ScreensInv'
  <2>1. ScreensInv /\ GrNext => ScreensInv'
    BY ScreensStep
  <2>2. ScreensInv /\ UNCHANGED grVars => ScreensInv'
    <3> SUFFICES ASSUME ScreensInv, UNCHANGED grVars
                 PROVE  ScreensInv'
      OBVIOUS
    <3>1. UNCHANGED <<groups, scenes, lastGroupId, lastSceneId, task, given, stored>>
      BY DEF grVars, gsVars
    <3>2. UNCHANGED <<user, app, link, lists, view, presses>>
      BY DEF grVars, appVars
    <3>3. GsTypeOK' /\ RecordsGiven'
      BY <3>1 DEF ScreensInv, GsTypeOK, RecordsGiven
    <3>4. LinksOK'
      BY <3>1, <3>2, LinksKept
    <3>5. ListsOK' /\ ViewOK'
      BY <3>1, <3>2 DEF ScreensInv, ListsOK, ViewOK, lists, view
    <3> QED
      BY <3>2, <3>3, <3>4, <3>5 DEF ScreensInv
  <2> QED
    BY <2>1, <2>2
<1> QED
  BY ScreensInit, <1>1, PTL DEF GrSpec

\* The lists, the screens and the messages always have their types, and a
\* spinner never shows more than there is.
THEOREM GrTypeCorrect == GrSpec => []GrTypeOK
BY ScreensInvariant, ScreensInvTypes, PTL

\* Whatever the gateway answers late, whatever the user types in before it does,
\* and whichever thread reads the answers, the position of a chosen name stays
\* that of the name, and its id the one that lights were told.
THEOREM ButtonsMeanIt == GrSpec => []ButtonsMeanWhatIsShown
BY ScreensInvariant, ScreensInvMeans, PTL

\* With the application as the client, too, a light finds a group for ever under
\* the name it was told (groupListAddDeviceToGroup, interface_grouplist.c).
THEOREM GroupIdsNeverChangeOnScreen ==
    ASSUME GroupsSafe
    PROVE  GrSpec => []GroupIdsStable
<1>1. GrInit => GroupsInv
  BY GroupsInit DEF GrInit
<1>2. ScreensInv /\ GroupsInv /\ [GrNext]_grVars => GroupsInv'
  <2>1. ScreensInv /\ GroupsInv /\ GrNext => GroupsInv'
    BY ScreensAreGatewaySteps, GroupsStep
  <2>2. GroupsInv /\ UNCHANGED grVars => GroupsInv'
    BY DEF grVars, gsVars, GroupsInv, GsTypeOK, GroupsDiffer, GivenListed, AllGroups
  <2> QED
    BY <2>1, <2>2
<1> QED
  BY ScreensInvariant, <1>1, <1>2, GroupsInvImplies, PTL DEF GrSpec

\* What its recall button asks for has the id under which the scene was last
\* stored (sceneListGetSceneId, interface_scenelist.c).
THEOREM ScenesRecallTheirOwnOnScreen == GrSpec => []RecallsWhatWasStored
<1>1. GrInit => ScenesInv
  BY ScenesInit DEF GrInit
<1>2. ScreensInv /\ ScenesInv /\ [GrNext]_grVars => ScenesInv'
  <2>1. ScreensInv /\ ScenesInv /\ GrNext => ScenesInv'
    BY ScreensAreGatewaySteps, ScenesStep
  <2>2. ScenesInv /\ UNCHANGED grVars => ScenesInv'
    BY DEF grVars, gsVars, ScenesInv, GsTypeOK, ScenesDiffer, StoredListed,
           RecallsWhatWasStored
  <2> QED
    BY <2>1, <2>2
<1>3. ScenesInv => RecallsWhatWasStored
  BY DEF ScenesInv
<1> QED
  BY ScreensInvariant, <1>1, <1>2, <1>3, PTL DEF GrSpec

\* And no addition or restart takes a member from a group, unless the process
\* dies between the two writes of a group.
THEOREM GroupsKeepMembersOnScreen ==
    ASSUME "gap" \notin Faults
    PROVE  GrSpec => MembersKept
<1>1. ScreensInv /\ [GrNext]_grVars =>
        [\A i \in DOMAIN AllGroups : Readable(AllGroups[i]) =>
           \E j \in DOMAIN AllGroups' :
              LET old == AllGroups[i]
                  new == AllGroups'[j]
              IN  /\ new.id = old.id /\ new.name = old.name
                  /\ \A k \in DOMAIN old.members \cap (1..MaxMembers) :
                       k \in DOMAIN new.members /\ new.members[k] = old.members[k]]_gsVars
  <2>1. ASSUME ScreensInv, GrNext
        PROVE  GsTypeOK /\ GatewayStep
    BY <2>1, ScreensAreGatewaySteps DEF ScreensInv
  <2>2. ASSUME UNCHANGED grVars
        PROVE  UNCHANGED gsVars
    BY <2>2 DEF grVars
  <2> QED
    BY <2>1, <2>2, MembersStep
<1> QED
  BY ScreensInvariant, <1>1, PTL DEF GrSpec, MembersKept
=============================================================================
