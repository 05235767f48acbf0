--------------------------- MODULE Gateway_proofs ---------------------------
(***************************************************************************)
(* Theorems about DeviceList and Gateway for every set of devices,         *)
(* addresses, endpoints and names, and for files of any length.  The first *)
(* part is about the device list alone; in the second one the list keeps   *)
(* the promise of DeviceRegistry, and a client that listens to it knows it.*)
(*                                                                         *)
(* Three hypotheses run through the second part, each about what the       *)
(* callbacks take for granted: OneDevicePerAddress (an address is never    *)
(* given to a second device), TouchLinked = {} (a TouchLink adds a record  *)
(* without looking) and UnreadableName = {} (a name that the parser        *)
(* rejects hides the record it is given to).                               *)
(***************************************************************************)
EXTENDS Gateway, RecordFile_proofs

-----------------------------------------------------------------------------
(* Facts about the operators. *)

\* The search operators return line numbers of the file.
LEMMA MatchesAreLines ==
    ASSUME NEW f, NEW na, NEW ieee, NEW ep
    PROVE  /\ ByNaEp(f, na, ep) \subseteq DOMAIN f
           /\ ByIeeeEp(f, ieee, ep) \subseteq DOMAIN f
BY DEF ByNaEp, ByIeeeEp

\* A matching line holds a record.
LEMMA FirstMatch ==
    ASSUME NEW f \in Seq(Record), NEW S, S \subseteq DOMAIN f, S # {}
    PROVE  f[FirstOf(S)] \in Record /\ FirstOf(S) \in S
BY DeleteRecordProperties

\* Deleting leaves a file of records.
LEMMA DeleteRecordType ==
    ASSUME NEW f \in Seq(Record), NEW S, S \subseteq DOMAIN f
    PROVE  DeleteRecord(f, S) \in Seq(Record)
BY DeleteRecordProperties

\* What the process is in the middle of determines the fields of job.
LEMMA JobFields ==
    ASSUME job \in Job
    PROVE  /\ job.op = "desc" => job \in DescJob
           /\ job.op = "add" => job \in AddJob
           /\ job.op = "leave" => job \in LeaveJob
BY DEF Job, DescJob, AddJob, LeaveJob

\* The jobs without fields.
LEMMA PlainJobs ==
    /\ Idle \in Job /\ Down \in Job
    /\ [op |-> "copy"] \in Job /\ [op |-> "rename"] \in Job
BY DEF Job, Idle, Down

-----------------------------------------------------------------------------
(* Types. *)

\* The gateway starts in a well-typed state.
LEMMA InitType == Init => TypeOK
<1> SUFFICES ASSUME Init PROVE TypeOK
  OBVIOUS
<1>1. <<>> \in Seq(Record)
  BY EmptySeq
<1> QED
  BY <1>1, PlainJobs DEF Init, TypeOK

\* Every step keeps the types: a field is only taken of a record that was found.
LEMMA NextType == TypeOK /\ [Next]_vars => TypeOK'
<1> SUFFICES ASSUME TypeOK, [Next]_vars PROVE TypeOK'
  OBVIOUS
<1> USE DEF TypeOK
<1>1. CASE StartUp
  <2>1. CASE OpenDatabase
    BY <2>1, EmptySeq, PlainJobs DEF OpenDatabase
  <2>2. CASE CopyLine
    <3>1. db[Len(tmp) + 1] \in Record
      BY <2>2, LenProperties, ElementOfSeq DEF CopyLine
    <3>2. tmp' \in Seq(Record)
      BY <2>2, <3>1, AppendProperties DEF CopyLine, CopyNext
    <3> QED
      BY <2>2, <3>2 DEF CopyLine
  <2>3. CASE DropOriginal
    BY <2>3, EmptySeq, PlainJobs DEF DropOriginal
  <2>4. CASE RenameCopy
    BY <2>4, EmptySeq, PlainJobs DEF RenameCopy
  <2> QED
    BY <1>1, <2>1, <2>2, <2>3, <2>4 DEF StartUp
<1>2. CASE Crash
  BY <1>2, PlainJobs DEF Crash
<1>3. CASE Network
  <2>1. ASSUME NEW d \in Ieee, NEW na \in NwkAddr, DeviceAnnce(d, na)
        PROVE  TypeOK'
    <3>1. DummyRecord(d, na) \in Record
      BY NameAssumption DEF DummyRecord, Record
    <3>2. db' \in Seq(Record)
      BY <2>1, <3>1, AddRecordProperties DEF DeviceAnnce
    <3> QED
      BY <2>1, <3>2 DEF DeviceAnnce, Join
  <2>2. ASSUME NEW d \in Ieee, NEW na \in NwkAddr, MissedAnnce(d, na)
        PROVE  TypeOK'
    BY <2>2 DEF MissedAnnce, Join
  <2>3. ASSUME NEW na \in NwkAddr, NEW ep \in Endpoint, LoseAnswer(na, ep)
        PROVE  TypeOK'
    BY <2>3 DEF LoseAnswer
  <2>4. ASSUME NEW na \in NwkAddr, NEW ep \in Endpoint, SimpleDescRsp(na, ep)
        PROVE  TypeOK'
    <3>1. CASE ByNaEp(db, na, AnyEp) = {}
      BY <2>4, <3>1, PlainJobs DEF SimpleDescRsp
    <3>2. CASE ByNaEp(db, na, AnyEp) # {}
      <4>1. db[FirstOf(ByNaEp(db, na, AnyEp))] \in Record
        BY <3>2, MatchesAreLines, FirstMatch
      <4>2. db' \in Seq(Record)
        BY <2>4, <3>2, MatchesAreLines, DeleteRecordType DEF SimpleDescRsp
      <4>3. job' = [op |-> "desc", ieee |-> db[FirstOf(ByNaEp(db, na, AnyEp))].ieee,
                    na |-> na, ep |-> ep]
        BY <2>4, <3>2 DEF SimpleDescRsp
      <4>4. job' \in Job
        BY <4>1, <4>3 DEF Job, DescJob, Record
      <4> QED
        BY <2>4, <4>2, <4>4 DEF SimpleDescRsp
    <3> QED
      BY <3>1, <3>2
  <2>5. ASSUME NEW na \in NwkAddr, LeaveInd(na)
        PROVE  TypeOK'
    <3>1. job' \in Job
      BY <2>5 DEF LeaveInd, Job, LeaveJob
    <3> QED
      BY <2>5, <3>1 DEF LeaveInd
  <2>6. ASSUME NEW na \in NwkAddr, NEW ep \in Endpoint, TouchLinkInd(na, ep)
        PROVE  TypeOK'
    <3>1. PICK x \in Ieee \cup {Garbage}, n \in Name :
            LET rec == [ieee |-> x, na |-> na, ep |-> ep, name |-> n] IN
              /\ db' = AddRecord(db, rec)
              /\ out' = [type |-> "NEW", rec |-> rec, prev |-> na]
      BY <2>6 DEF TouchLinkInd
    <3> DEFINE rec == [ieee |-> x, na |-> na, ep |-> ep, name |-> n]
    <3>2. rec \in Record
      BY DEF Record
    <3>3. db' \in Seq(Record)
      BY <3>1, <3>2, AddRecordProperties
    <3>4. out' \in Msg
      BY <3>1, <3>2 DEF Msg
    <3> QED
      BY <2>6, <3>3, <3>4 DEF TouchLinkInd
  <2>7. ASSUME NEW na \in NwkAddr, NEW ep \in Endpoint, TouchLinkDeath(na, ep)
        PROVE  TypeOK'
    BY <2>7, PlainJobs DEF TouchLinkDeath
  <2> QED
    BY <1>3, <2>1, <2>2, <2>3, <2>4, <2>5, <2>6, <2>7 DEF Network
<1>4. CASE Callback
  <2>1. ASSUME job.op = "desc" PROVE Described \in Record
    BY <2>1, JobFields, NameAssumption DEF Described, DescJob, Record
  <2>2. CASE DescribesNew
    <3>1. job' \in Job
      BY <2>1, <2>2, JobFields DEF DescribesNew, AddDescribed, DescJob, AddJob, Job
    <3> QED
      BY <2>2, <3>1 DEF DescribesNew
  <2>3. CASE DescribesExisting
    BY <2>3, PlainJobs DEF DescribesExisting
  <2>4. CASE DescribesMoved
    <3>1. db[FirstOf(SameEndpoint)] \in Record
      BY <2>4, MatchesAreLines, FirstMatch DEF DescribesMoved, SameEndpoint
    <3>2. OldAddress \in NwkAddr
      BY <3>1 DEF OldAddress, Record
    <3>3. job' \in Job
      BY <2>1, <2>4, <3>2 DEF DescribesMoved, AddDescribed, AddJob, Job
    <3>4. db' \in Seq(Record)
      BY <2>4, MatchesAreLines, DeleteRecordProperties DEF DescribesMoved, OldRecord
    <3> QED
      BY <2>4, <3>3, <3>4 DEF DescribesMoved
  <2>5. CASE AddDevice
    <3>1. job \in AddJob
      BY <2>5, JobFields DEF AddDevice
    <3>2. db' \in Seq(Record)
      BY <2>5, <3>1, AddRecordProperties DEF AddDevice, AddJob
    <3>3. out' \in Msg \cup {NoMsg}
      BY <2>5, <3>1 DEF AddDevice, AddJob, Msg
    <3> QED
      BY <2>5, <3>2, <3>3, PlainJobs DEF AddDevice
  <2>6. CASE RemoveNext
    <3>1. job \in LeaveJob
      BY <2>6, JobFields DEF RemoveNext
    <3>2. CASE ByNaEp(db, job.na, AnyEp) = {}
      BY <2>6, <3>2, PlainJobs DEF RemoveNext
    <3>3. CASE ByNaEp(db, job.na, AnyEp) # {}
      <4>1. db[FirstOf(ByNaEp(db, job.na, AnyEp))] \in Record
        BY <3>3, MatchesAreLines, FirstMatch
      <4>2. db' \in Seq(Record)
        BY <2>6, <3>3, MatchesAreLines, DeleteRecordType DEF RemoveNext
      <4>3. out' \in Msg
        BY <2>6, <3>1, <3>3, <4>1 DEF RemoveNext, Msg, LeaveJob
      <4> QED
        BY <2>6, <3>3, <4>2, <4>3 DEF RemoveNext
    <3> QED
      BY <3>2, <3>3
  <2> QED
    BY <1>4, <2>2, <2>3, <2>4, <2>5, <2>6 DEF Callback
<1>5. CASE Client
  <2>1. PICK na \in NwkAddr, ep \in Endpoint \cup {DummyEp, AnyEp}, name \in Name :
          ChangeDeviceName(na, ep, name)
    BY <1>5 DEF Client
  <2> DEFINE named == ByNaEp(db, na, ep)
  <2>2. named # {}
    BY <2>1 DEF ChangeDeviceName
  <2>3. db[FirstOf(named)] \in Record
    BY <2>2, MatchesAreLines, FirstMatch
  <2>4. db' \in Seq(Record)
    BY <2>1, MatchesAreLines, DeleteRecordProperties DEF ChangeDeviceName
  <2>5. [db[FirstOf(named)] EXCEPT !.name = name] \in Record
    BY <2>3 DEF Record
  <2>6. job' \in Job
    BY <2>1, <2>5 DEF ChangeDeviceName, AddJob, Job
  <2> QED
    BY <2>1, <2>4, <2>6 DEF ChangeDeviceName
<1>6. CASE UNCHANGED vars
  BY <1>6 DEF vars
<1> QED
  BY <1>1, <1>2, <1>3, <1>4, <1>5, <1>6 DEF Next

\* The variables keep their types: in particular the file never holds a line
\* that is not a record, and no callback reads a field its job does not have.
THEOREM TypeCorrect == Spec => []TypeOK
BY InitType, NextType, PTL DEF Spec

-----------------------------------------------------------------------------
(* Start-up. *)

\* While start-up copies, the copy is a prefix of the original: the part of
\* the inductive invariant that removing the original relies on.
CopyIsPrefix ==
    job.op = "copy" => /\ Len(tmp) <= Len(db)
                       /\ \A i \in 1..Len(tmp) : tmp[i] = db[i]

\* Apart from start-up itself and a crash, only the loss of an answer happens
\* while start-up copies or renames.
LEMMA StartUpSteps ==
    ASSUME Next, job.op \in {"copy", "rename"}
    PROVE  \/ StartUp \/ Crash
           \/ \E na \in NwkAddr, ep \in Endpoint : LoseAnswer(na, ep)
<1>1. job # Idle /\ job # Down
  BY DEF Idle, Down
<1>2. ~Callback
  BY DEF Callback, DescribesNew, DescribesExisting, DescribesMoved, AddDevice, RemoveNext
<1>3. ~Client
  BY <1>1 DEF Client, ChangeDeviceName
<1>4. ASSUME Network
      PROVE  \E na \in NwkAddr, ep \in Endpoint : LoseAnswer(na, ep)
  BY <1>1, <1>4 DEF Network, DeviceAnnce, MissedAnnce, SimpleDescRsp, LeaveInd,
                    TouchLinkInd, TouchLinkDeath
<1> QED
  BY <1>2, <1>3, <1>4 DEF Next

\* Once it serves, the process copies again only after it has died.
LEMMA CopyStarts ==
    ASSUME TypeOK, Next, job'.op = "copy", job.op # "copy"
    PROVE  OpenDatabase
<1>1. CASE StartUp
  BY <1>1 DEF StartUp, CopyLine, DropOriginal, RenameCopy, Idle
<1>2. CASE Crash
  BY <1>2 DEF Crash, Down
<1>3. CASE Network
  <2>1. ASSUME NEW na \in NwkAddr, NEW ep \in Endpoint, SimpleDescRsp(na, ep)
        PROVE  job'.op \in {"down", "desc"}
    BY <2>1 DEF SimpleDescRsp, Down
  <2>2. ASSUME NEW d \in Ieee, NEW na \in NwkAddr, DeviceAnnce(d, na) \/ MissedAnnce(d, na)
        PROVE  job' = job
    BY <2>2 DEF DeviceAnnce, MissedAnnce
  <2>3. ASSUME NEW na \in NwkAddr, NEW ep \in Endpoint,
               LoseAnswer(na, ep) \/ TouchLinkInd(na, ep)
        PROVE  job' = job
    BY <2>3 DEF LoseAnswer, TouchLinkInd
  <2>4. ASSUME NEW na \in NwkAddr, NEW ep \in Endpoint, TouchLinkDeath(na, ep)
        PROVE  job'.op = "down"
    BY <2>4 DEF TouchLinkDeath, Down
  <2>5. ASSUME NEW na \in NwkAddr, LeaveInd(na)
        PROVE  job'.op = "leave"
    BY <2>5 DEF LeaveInd
  <2> QED
    BY <1>3, <2>1, <2>2, <2>3, <2>4, <2>5 DEF Network
<1>4. CASE Callback
  BY <1>4 DEF Callback, DescribesNew, DescribesExisting, DescribesMoved, AddDevice,
              RemoveNext, AddDescribed, Idle
<1>5. CASE Client
  BY <1>5 DEF Client, ChangeDeviceName
<1> QED
  BY <1>1, <1>2, <1>3, <1>4, <1>5 DEF Next

\* Copying adds the next line of the list, and nothing else writes either file.
LEMMA CopyStep == TypeOK /\ CopyIsPrefix /\ [Next]_vars => CopyIsPrefix'
<1> SUFFICES ASSUME TypeOK, CopyIsPrefix, [Next]_vars, job'.op = "copy"
             PROVE  /\ Len(tmp') <= Len(db')
                    /\ \A i \in 1..Len(tmp') : tmp'[i] = db'[i]
  BY DEF CopyIsPrefix
<1>1. CASE UNCHANGED vars
  BY <1>1 DEF CopyIsPrefix, vars
<1>2. CASE Next /\ job.op # "copy"
  <2>1. OpenDatabase
    BY <1>2, CopyStarts
  <2>2. tmp' = <<>> /\ Len(db') \in Nat
    BY <2>1, LenProperties DEF OpenDatabase, TypeOK
  <2> QED
    BY <2>2
<1>3. CASE Next /\ job.op = "copy"
  <2>1. CASE CopyLine
    <3>1. db[Len(tmp) + 1] \in Record /\ Len(tmp) \in Nat /\ Len(db) \in Nat
      BY <2>1, LenProperties, ElementOfSeq DEF CopyLine, TypeOK
    <3>2. /\ Len(tmp') = Len(tmp) + 1
          /\ \A i \in 1..Len(tmp) : tmp'[i] = tmp[i]
          /\ tmp'[Len(tmp) + 1] = db[Len(tmp) + 1]
      BY <2>1, <3>1, AppendProperties DEF CopyLine, CopyNext, TypeOK
    <3> QED
      BY <1>3, <2>1, <3>1, <3>2 DEF CopyLine, CopyIsPrefix
  <2>2. CASE StartUp /\ ~CopyLine
    BY <1>3, <2>2 DEF StartUp, OpenDatabase, DropOriginal, RenameCopy, Idle, Down
  <2>3. CASE Crash
    BY <2>3 DEF Crash, Down
  <2>4. CASE \E na \in NwkAddr, ep \in Endpoint : LoseAnswer(na, ep)
    BY <1>3, <2>4 DEF LoseAnswer, CopyIsPrefix
  <2> QED
    BY <1>3, <2>1, <2>2, <2>3, <2>4, StartUpSteps
<1> QED
  BY <1>1, <1>2, <1>3

\* While the list is copied, the copy is the beginning of it (SimpleDB.c).
LEMMA CopyInvariant == Spec => []CopyIsPrefix
<1>1. Init => CopyIsPrefix
  BY DEF Init, CopyIsPrefix, Down
<1> QED
  BY <1>1, TypeCorrect, CopyStep, PTL DEF Spec

\* A step of start-up, and a step in which the process dies, leave the list.
LEMMA RestartStep ==
    ASSUME "gap" \notin Faults, "full" \notin Faults,
           TypeOK, CopyIsPrefix, Next, ~Serving \/ ~Serving'
    PROVE  List' = List
<1>1. CASE job.op \in {"copy", "rename"}
  <2>1. CASE CopyLine \/ OpenDatabase
    BY <1>1, <2>1 DEF CopyLine, OpenDatabase, List, Down
  <2>2. CASE DropOriginal
    <3>1. Len(tmp) = Len(db)
      BY <2>2 DEF DropOriginal, CopyDone
    <3>2. tmp = db
      BY <2>2, <3>1, SeqEqual DEF DropOriginal, CopyIsPrefix, TypeOK
    <3> QED
      BY <2>2, <3>2 DEF DropOriginal, List
  <2>3. CASE RenameCopy
    BY <2>3 DEF RenameCopy, List, Idle
  <2>4. CASE Crash
    BY <1>1, <2>4 DEF Crash, List, Down
  <2>5. CASE \E na \in NwkAddr, ep \in Endpoint : LoseAnswer(na, ep)
    BY <2>5 DEF LoseAnswer, List
  <2> QED
    BY <1>1, <2>1, <2>2, <2>3, <2>4, <2>5, StartUpSteps DEF StartUp
<1>2. CASE job.op \notin {"copy", "rename"}
  <2>1. CASE StartUp
    BY <1>2, <2>1 DEF StartUp, OpenDatabase, CopyLine, DropOriginal, RenameCopy, List
  <2>2. CASE Crash
    BY <1>2, <2>2 DEF Crash, List, Down
  <2>3. CASE Network
    <3>1. ASSUME NEW na \in NwkAddr, NEW ep \in Endpoint, SimpleDescRsp(na, ep)
          PROVE  List' = List
      <4>1. Serving
        BY <3>1 DEF SimpleDescRsp, Serving, Idle
      <4>2. job' = Down /\ db' = db
        BY <3>1, <4>1 DEF SimpleDescRsp, Serving
      <4> QED
        BY <1>2, <4>2 DEF List, Down
    <3>2. ASSUME NEW d \in Ieee, NEW na \in NwkAddr, DeviceAnnce(d, na)
          PROVE  FALSE
      BY <3>2 DEF DeviceAnnce, Serving, Idle
    <3>3. ASSUME NEW d \in Ieee, NEW na \in NwkAddr, MissedAnnce(d, na)
          PROVE  List' = List
      BY <3>3 DEF MissedAnnce, List
    <3>4. ASSUME NEW na \in NwkAddr, NEW ep \in Endpoint, LoseAnswer(na, ep)
          PROVE  List' = List
      BY <3>4 DEF LoseAnswer, List
    <3>5. ASSUME NEW na \in NwkAddr, LeaveInd(na)
          PROVE  FALSE
      BY <3>5 DEF LeaveInd, Serving, Idle
    <3>6. ASSUME NEW na \in NwkAddr, NEW ep \in Endpoint, TouchLinkInd(na, ep)
          PROVE  FALSE
      BY <3>6 DEF TouchLinkInd, Serving, Idle
    <3>7. ASSUME NEW na \in NwkAddr, NEW ep \in Endpoint, TouchLinkDeath(na, ep)
          PROVE  List' = List
      BY <1>2, <3>7 DEF TouchLinkDeath, List, Down
    <3> QED
      BY <2>3, <3>1, <3>2, <3>3, <3>4, <3>5, <3>6, <3>7 DEF Network
  <2>4. CASE Callback
    BY <2>4 DEF Callback, DescribesNew, DescribesExisting, DescribesMoved, AddDevice,
                RemoveNext, AddDescribed, Serving, Idle
  <2>5. CASE Client
    BY <2>5 DEF Client, ChangeDeviceName, Serving, Idle
  <2> QED
    BY <2>1, <2>2, <2>3, <2>4, <2>5 DEF Next
<1> QED
  BY <1>1, <1>2

\* However long the list and wherever the process dies, restarting it leaves
\* the list as it was, as long as no crash falls between removing the original
\* and renaming the copy, and no write of the copy fails.
THEOREM RestartSafe ==
    ASSUME "gap" \notin Faults, "full" \notin Faults
    PROVE  Spec => RestartKeepsList
<1>1. ASSUME TypeOK, CopyIsPrefix, [Next]_vars
      PROVE  [~Serving \/ ~Serving' => List' = List]_vars
  BY <1>1, RestartStep
<1>2. TypeOK /\ CopyIsPrefix /\ [Next]_vars
        => [~Serving \/ ~Serving' => List' = List]_vars
  BY <1>1
<1> QED
  BY <1>2, TypeCorrect, CopyInvariant, PTL DEF Spec, RestartKeepsList

-----------------------------------------------------------------------------
(* Lines the parser rejects. *)

UnreadableLines(f) == {i \in DOMAIN f : ~Readable(f[i])}

\* Adding a line leaves the rejected ones where they are, and a rejected one
\* comes after them.
LEMMA RejectedAdded ==
    ASSUME NEW f \in Seq(Record), NEW r \in Record
    PROVE  IsPrefix(Rejected(f), Rejected(AddRecord(f, r)))
<1> DEFINE g == AddRecord(f, r)
           S == UnreadableLines(f)
           T == UnreadableLines(g)
           to == [i \in S |-> i]
<1>1. /\ g \in Seq(Record) /\ DOMAIN g = 1..(Len(f) + 1)
      /\ \A i \in 1..Len(f) : g[i] = f[i]
  BY AddRecordProperties
<1>2. DOMAIN f = 1..Len(f) /\ Len(f) \in Nat
  BY LenProperties
<1> HIDE DEF g
<1>3. S \subseteq DOMAIN f /\ T \subseteq DOMAIN g
  BY DEF UnreadableLines
<1>4. \A i \in S : i \in T /\ g[i] = f[i] /\ i \in 1..Len(f)
  BY <1>1, <1>2 DEF UnreadableLines
<1>5. \A t \in T : t \in S \/ t = Len(f) + 1
  BY <1>1, <1>2 DEF UnreadableLines
<1> HIDE DEF S, T
<1>6. to \in [S -> T] /\ \A i \in S : to[i] = i
  BY <1>4
<1> HIDE DEF to
<1>7. \A t \in T : (\E i \in S : to[i] = t) \/ (\A i \in S : to[i] < t)
  BY <1>2, <1>4, <1>5, <1>6
<1>8. /\ \A i, j \in S : i < j => to[i] < to[j]
      /\ \A i \in S : g[to[i]] = f[i]
  BY <1>4, <1>6
<1>9. IsPrefix(Selected(f, S), Selected(g, T))
  BY <1>1, <1>3, <1>6, <1>7, <1>8, SelectedMoved
<1> QED
  BY <1>9 DEF Rejected, S, T, UnreadableLines, g

\* Deleting a line that the parser accepts moves the rejected ones up, past
\* none of each other.
LEMMA RejectedDeleted ==
    ASSUME NEW f \in Seq(Record), NEW M, M \subseteq DOMAIN f, M # {},
           \A i \in M : Readable(f[i])
    PROVE  IsPrefix(Rejected(f), Rejected(DeleteRecord(f, M)))
<1> DEFINE g == DeleteRecord(f, M)
           n == FirstOf(M)
           S == UnreadableLines(f)
           T == UnreadableLines(g)
           to == [i \in S |-> IF i < n THEN i ELSE i - 1]
<1>1. /\ g \in Seq(Record) /\ DOMAIN g = 1..(Len(f) - 1)
      /\ n \in M /\ n \in 1..Len(f)
      /\ \A i \in 1..(Len(f) - 1) : g[i] = IF i < n THEN f[i] ELSE f[i + 1]
  BY DeleteRecordProperties
<1>2. DOMAIN f = 1..Len(f) /\ Len(f) \in Nat
  BY LenProperties
<1> HIDE DEF g, n
<1>3. S \subseteq DOMAIN f /\ T \subseteq DOMAIN g
  BY DEF UnreadableLines
<1>4. \A i \in S : i \in 1..Len(f) /\ i # n /\ ~Readable(f[i])
  BY <1>1, <1>2 DEF UnreadableLines
<1>5. \A t \in T : t \in 1..(Len(f) - 1) /\ (IF t < n THEN t \in S ELSE t + 1 \in S)
  BY <1>1, <1>2 DEF UnreadableLines
<1>6. \A i \in S : LET k == IF i < n THEN i ELSE i - 1 IN k \in T /\ g[k] = f[i]
  <2> SUFFICES ASSUME NEW i \in S
               PROVE  LET k == IF i < n THEN i ELSE i - 1 IN k \in T /\ g[k] = f[i]
    OBVIOUS
  <2>1. CASE i < n
    <3>1. i \in DOMAIN g /\ g[i] = f[i] /\ ~Readable(f[i])
      BY <1>1, <1>2, <1>4, <2>1
    <3> QED
      BY <2>1, <3>1 DEF UnreadableLines
  <2>2. CASE ~(i < n)
    <3>1. /\ i - 1 \in 1..(Len(f) - 1) /\ ~(i - 1 < n) /\ (i - 1) + 1 = i
          /\ ~Readable(f[i])
      BY <1>1, <1>2, <1>4, <2>2
    <3>2. i - 1 \in DOMAIN g /\ g[i - 1] = f[i]
      BY <1>1, <3>1
    <3> QED
      BY <2>2, <3>1, <3>2 DEF UnreadableLines
  <2> QED
    BY <2>1, <2>2
<1> HIDE DEF S, T
<1>7. /\ to \in [S -> T]
      /\ \A i \in S : to[i] = IF i < n THEN i ELSE i - 1
      /\ \A i \in S : g[to[i]] = f[i]
  BY <1>6
<1> HIDE DEF to
<1>8. \A i, j \in S : i < j => to[i] < to[j]
  BY <1>1, <1>2, <1>4, <1>7
<1>9. \A t \in T : \E i \in S : to[i] = t
  <2> SUFFICES ASSUME NEW t \in T
               PROVE  \E i \in S : to[i] = t
    OBVIOUS
  <2>1. CASE t < n
    BY <1>5, <1>7, <2>1
  <2>2. CASE ~(t < n)
    <3>1. t + 1 \in S /\ ~(t + 1 < n) /\ (t + 1) - 1 = t
      BY <1>1, <1>2, <1>5, <2>2
    <3>2. to[t + 1] = t
      BY <1>7, <3>1
    <3> QED
      BY <3>1, <3>2
  <2> QED
    BY <2>1, <2>2
<1>10. IsPrefix(Selected(f, S), Selected(g, T))
  <2>1. \A t \in T : (\E i \in S : to[i] = t) \/ (\A i \in S : to[i] < t)
    BY <1>9
  <2>2. \A i \in S : g[to[i]] = f[i]
    BY <1>7
  <2>3. /\ f \in Seq(Record) /\ g \in Seq(Record) /\ to \in [S -> T]
        /\ S \subseteq DOMAIN f /\ T \subseteq DOMAIN g
    BY <1>1, <1>3, <1>7
  <2> QED
    BY <1>8, <2>1, <2>2, <2>3, SelectedMoved
<1> QED
  BY <1>10 DEF Rejected, S, T, UnreadableLines, g

\* A list begins with itself.
LEMMA RejectedSame ==
    ASSUME NEW f \in Seq(Record)
    PROVE  IsPrefix(Rejected(f), Rejected(f))
<1>1. Rejected(f) \in Seq(Record)
  BY SelectedProperties DEF Rejected
<1>2. Len(Rejected(f)) \in Nat
  BY <1>1, LenProperties
<1> QED
  BY <1>2 DEF IsPrefix

\* What a callback and the request of a client do to the list: a record more at
\* the end, or one of the lines that match a key less.
LEMMA ServingSteps ==
    ASSUME TypeOK, Next, Serving, Serving'
    PROVE  \/ db' = db
           \/ \E r \in Record : db' = AddRecord(db, r)
           \/ \E M \in SUBSET DOMAIN db :
                M # {} /\ (\A i \in M : Readable(db[i])) /\ db' = DeleteRecord(db, M)
<1> DEFINE Goal == \/ db' = db
                   \/ \E r \in Record : db' = AddRecord(db, r)
                   \/ \E M \in SUBSET DOMAIN db :
                        M # {} /\ (\A i \in M : Readable(db[i])) /\ db' = DeleteRecord(db, M)
<1>1. ASSUME NEW na, NEW ep, NEW f, f = DeleteRecord(db, ByNaEp(db, na, ep)), db' = f
      PROVE  Goal
  <2>1. CASE ByNaEp(db, na, ep) = {}
    BY <1>1, <2>1 DEF DeleteRecord
  <2>2. CASE ByNaEp(db, na, ep) # {}
    <3>1. /\ ByNaEp(db, na, ep) \in SUBSET DOMAIN db
          /\ \A i \in ByNaEp(db, na, ep) : Readable(db[i])
      BY DEF ByNaEp
    <3> QED
      BY <1>1, <2>2, <3>1
  <2> QED
    BY <2>1, <2>2
<1>2. CASE StartUp
  BY <1>2 DEF StartUp, OpenDatabase, CopyLine, DropOriginal, RenameCopy, Serving, Down
<1>3. CASE Crash
  BY <1>3 DEF Crash
<1>4. CASE Network
  <2>1. ASSUME NEW d \in Ieee, NEW na \in NwkAddr, DeviceAnnce(d, na)
        PROVE  Goal
    <3>1. DummyRecord(d, na) \in Record
      BY NameAssumption DEF DummyRecord, Record
    <3> QED
      BY <2>1, <3>1 DEF DeviceAnnce
  <2>2. ASSUME NEW na \in NwkAddr, NEW ep \in Endpoint, SimpleDescRsp(na, ep)
        PROVE  Goal
    BY <1>1, <2>2 DEF SimpleDescRsp
  <2>3. ASSUME NEW na \in NwkAddr, NEW ep \in Endpoint, TouchLinkInd(na, ep)
        PROVE  Goal
    <3>1. PICK x \in Ieee \cup {Garbage}, n \in Name :
            db' = AddRecord(db, [ieee |-> x, na |-> na, ep |-> ep, name |-> n])
      BY <2>3 DEF TouchLinkInd
    <3>2. [ieee |-> x, na |-> na, ep |-> ep, name |-> n] \in Record
      BY DEF Record
    <3> QED
      BY <3>1, <3>2
  <2>4. ASSUME \/ \E d \in Ieee, na \in NwkAddr : MissedAnnce(d, na)
               \/ \E na \in NwkAddr, ep \in Endpoint : LoseAnswer(na, ep)
               \/ \E na \in NwkAddr : LeaveInd(na)
               \/ \E na \in NwkAddr, ep \in Endpoint : TouchLinkDeath(na, ep)
        PROVE  Goal
    BY <2>4 DEF MissedAnnce, LoseAnswer, LeaveInd, TouchLinkDeath
  <2> HIDE DEF Goal
  <2>5. Goal
    BY <1>4, <2>1, <2>2, <2>3, <2>4 DEF Network
  <2> QED
    BY <2>5 DEF Goal
<1>5. CASE Callback
  <2>1. CASE DescribesNew \/ DescribesExisting
    BY <2>1 DEF DescribesNew, DescribesExisting
  <2>2. CASE DescribesMoved
    BY <1>1, <2>2 DEF DescribesMoved, OldRecord
  <2>3. CASE AddDevice
    <3>1. job.rec \in Record
      BY <2>3, JobFields DEF AddDevice, AddJob, TypeOK
    <3> QED
      BY <2>3, <3>1 DEF AddDevice
  <2>4. CASE RemoveNext
    BY <1>1, <2>4 DEF RemoveNext
  <2> QED
    BY <1>5, <2>1, <2>2, <2>3, <2>4 DEF Callback
<1>6. CASE Client
  BY <1>1, <1>6 DEF Client, ChangeDeviceName
<1> QED
  BY <1>2, <1>3, <1>4, <1>5, <1>6 DEF Next

\* Every step keeps the rejected lines in their order.
LEMMA RejectedStep ==
    ASSUME "gap" \notin Faults, "full" \notin Faults, TypeOK, CopyIsPrefix, Next
    PROVE  IsPrefix(Rejected(List), Rejected(List'))
<1>1. List \in Seq(Record) /\ db \in Seq(Record)
  BY DEF List, TypeOK
<1>2. CASE ~Serving \/ ~Serving'
  <2>1. List' = List
    BY <1>2, RestartStep
  <2> QED
    BY <1>1, <2>1, RejectedSame
<1>3. CASE Serving /\ Serving'
  <2>1. List = db /\ List' = db'
    BY <1>3 DEF List, Serving
  <2>2. CASE db' = db
    BY <1>1, <2>1, <2>2, RejectedSame
  <2>3. CASE \E r \in Record : db' = AddRecord(db, r)
    BY <1>1, <2>1, <2>3, RejectedAdded
  <2>4. ASSUME NEW M \in SUBSET DOMAIN db, M # {}, \A i \in M : Readable(db[i]),
               db' = DeleteRecord(db, M)
        PROVE  IsPrefix(Rejected(List), Rejected(List'))
    <3>1. IsPrefix(Rejected(db), Rejected(DeleteRecord(db, M)))
      BY <1>1, <2>4, RejectedDeleted
    <3> QED
      BY <2>1, <2>4, <3>1
  <2> QED
    BY <1>3, <2>2, <2>3, <2>4, ServingSteps
<1> QED
  BY <1>2, <1>3

\* A line the parser rejects is never deleted nor overtaken by another such
\* line: not by the deletions around it, which search for keys of readable
\* lines, nor by the copy at start-up, if no crash falls between its two last
\* steps and no write of it fails (SimpleDB.c:182-206, 261-293).
THEOREM RejectedLinesStay ==
    ASSUME "gap" \notin Faults, "full" \notin Faults
    PROVE  Spec => UnreadableKept
<1>1. TypeOK /\ CopyIsPrefix /\ [Next]_vars
        => [IsPrefix(Rejected(List), Rejected(List'))]_vars
  BY RejectedStep
<1> QED
  BY <1>1, TypeCorrect, CopyInvariant, PTL DEF Spec, UnreadableKept

-----------------------------------------------------------------------------
(* Keys: an endpoint of a device has at most one record, provided an address *)
(* is only ever given to one device and no TouchLink adds records unseen.    *)

AssignedIn(f) == \A i \in DOMAIN f : <<f[i].ieee, f[i].na>> \in Assign

\* No record pairs a device with an address it was never given, nor will the
\* callback under way: the IEEE address taken from an earlier record of the
\* network address (zbController.c:220) is that of a device that was given it.
PairsAssigned ==
    /\ AssignedIn(db)
    /\ AssignedIn(tmp)
    /\ job.op = "desc" => <<job.ieee, job.na>> \in Assign
    /\ job.op = "add" => <<job.rec.ieee, job.rec.na>> \in Assign

NotListed(f, r) == \A i \in DOMAIN f : Readable(f[i]) => ~SameKey(f[i], r)

\* The record that a callback is about to add has no equal in the list: the
\* one it replaces went first (zbController.c:237, 253).
PendingNotListed ==
    job.op = "add" /\ job.rec.ep # DummyEp => NotListed(db, job.rec)

\* UniqueEndpoint is not inductive: adding a record keeps it only if the
\* record's key is not listed, and the record that a move removes has the
\* right key only if the records of an address belong to one device.
KeysInv ==
    /\ TypeOK
    /\ CopyIsPrefix
    /\ PairsAssigned
    /\ UniqueIn(db)
    /\ UniqueIn(tmp)
    /\ PendingNotListed

\* The hypothesis: no address is ever given to a second device.
OneDevicePerAddress ==
    \A x, y \in Ieee, na \in NwkAddr :
       <<x, na>> \in Assign /\ <<y, na>> \in Assign => x = y

-----------------------------------------------------------------------------
(* What deleting and adding does to keys. *)

\* Deleting keeps a file unique and assigned.
LEMMA DeleteKeeps ==
    ASSUME NEW f \in Seq(Record), NEW S, S \subseteq DOMAIN f
    PROVE  /\ UniqueIn(f) => UniqueIn(DeleteRecord(f, S))
           /\ AssignedIn(f) => AssignedIn(DeleteRecord(f, S))
<1>1. CASE S = {}
  BY <1>1 DEF DeleteRecord
<1>2. CASE S # {}
  <2> DEFINE g == DeleteRecord(f, S)
             from(i) == IF i < FirstOf(S) THEN i ELSE i + 1
  <2>1. /\ DOMAIN g = 1..(Len(f) - 1)
        /\ FirstOf(S) \in 1..Len(f)
        /\ \A i \in 1..(Len(f) - 1) : g[i] = f[from(i)]
    BY <1>2, DeleteRecordProperties
  <2>2. DOMAIN f = 1..Len(f) /\ Len(f) \in Nat
    BY LenProperties
  <2>3. /\ \A i \in 1..(Len(f) - 1) : from(i) \in 1..Len(f)
        /\ \A i, j \in 1..(Len(f) - 1) : from(i) = from(j) => i = j
    BY <2>1, <2>2
  <2> HIDE DEF g, from
  <2>4. /\ \A i \in DOMAIN g : from(i) \in DOMAIN f /\ g[i] = f[from(i)]
        /\ \A i, j \in DOMAIN g : from(i) = from(j) => i = j
    BY <2>1, <2>2, <2>3
  <2>5. UniqueIn(f) => UniqueIn(g)
    BY <2>4 DEF UniqueIn
  <2>6. AssignedIn(f) => AssignedIn(g)
    BY <2>4 DEF AssignedIn
  <2> QED
    BY <2>5, <2>6 DEF g
<1> QED
  BY <1>1, <1>2

\* Deleting the record of an endpoint from a unique file leaves none of it.
LEMMA DeleteClears ==
    ASSUME NEW f \in Seq(Record), NEW S, S \subseteq DOMAIN f, S # {},
           UniqueIn(f), Readable(f[FirstOf(S)]), f[FirstOf(S)].ep # DummyEp,
           NEW r, SameKey(f[FirstOf(S)], r)
    PROVE  NotListed(DeleteRecord(f, S), r)
<1> DEFINE g == DeleteRecord(f, S)
           gone == FirstOf(S)
           from(i) == IF i < gone THEN i ELSE i + 1
<1>1. /\ DOMAIN g = 1..(Len(f) - 1)
      /\ gone \in 1..Len(f)
      /\ \A i \in 1..(Len(f) - 1) : g[i] = f[from(i)]
  BY DeleteRecordProperties
<1>2. DOMAIN f = 1..Len(f) /\ Len(f) \in Nat
  BY LenProperties
<1>3. ASSUME NEW i \in DOMAIN g
      PROVE  from(i) \in DOMAIN f /\ g[i] = f[from(i)] /\ from(i) # gone
  BY <1>1, <1>2
<1>4. gone \in DOMAIN f
  BY <1>1, <1>2
<1>5. ASSUME NEW i \in DOMAIN g, Readable(g[i]), SameKey(g[i], r)
      PROVE  FALSE
  <2>1. SameKey(f[gone], f[from(i)])
    BY <1>3, <1>5 DEF SameKey
  <2> HIDE DEF g, gone, from
  <2>2. gone = from(i)
    BY <1>3, <1>4, <1>5, <2>1 DEF UniqueIn, gone
  <2> QED
    BY <1>3, <2>2
<1> QED
  BY <1>5 DEF NotListed

\* Adding a dummy, or an endpoint that is not listed, keeps a file unique.
LEMMA AddKeeps ==
    ASSUME NEW f \in Seq(Record), NEW r \in Record
    PROVE  /\ UniqueIn(f) /\ (r.ep = DummyEp \/ NotListed(f, r))
                => UniqueIn(AddRecord(f, r))
           /\ AssignedIn(f) /\ <<r.ieee, r.na>> \in Assign
                => AssignedIn(AddRecord(f, r))
<1> DEFINE g == AddRecord(f, r)
           n == Len(f)
<1>1. /\ DOMAIN f = 1..n /\ n \in Nat
      /\ DOMAIN g = 1..(n + 1)
      /\ \A i \in 1..n : g[i] = f[i]
      /\ g[n + 1] = r
  BY LenProperties, AddRecordProperties
<1> HIDE DEF g, n
<1>2. ASSUME UniqueIn(f), r.ep = DummyEp \/ NotListed(f, r)
      PROVE  UniqueIn(g)
  <2> SUFFICES ASSUME NEW i \in DOMAIN g, NEW j \in DOMAIN g,
                      Readable(g[i]), Readable(g[j]), g[i].ep # DummyEp,
                      SameKey(g[i], g[j])
               PROVE  i = j
    BY DEF UniqueIn
  <2>1. CASE i \in 1..n /\ j \in 1..n
    BY <1>1, <1>2, <2>1 DEF UniqueIn
  <2>2. CASE i \in 1..n /\ j = n + 1
    BY <1>1, <1>2, <2>2 DEF NotListed, SameKey
  <2>3. CASE i = n + 1 /\ j \in 1..n
    BY <1>1, <1>2, <2>3 DEF NotListed, SameKey
  <2> QED
    BY <1>1, <2>1, <2>2, <2>3
<1>3. ASSUME AssignedIn(f), <<r.ieee, r.na>> \in Assign
      PROVE  AssignedIn(g)
  BY <1>1, <1>3 DEF AssignedIn
<1> QED
  BY <1>2, <1>3 DEF g

\* The first match of a search has the address and the endpoint asked for.
LEMMA MatchByNaEp ==
    ASSUME NEW f \in Seq(Record), NEW na, NEW ep, ByNaEp(f, na, ep) # {}
    PROVE  LET r == f[FirstOf(ByNaEp(f, na, ep))] IN
             r \in Record /\ Readable(r) /\ r.na = na /\ ep \in {AnyEp, r.ep}
BY FirstMatch, MatchesAreLines DEF ByNaEp

\* The first match of a search has the IEEE address and the endpoint asked for.
LEMMA MatchByIeeeEp ==
    ASSUME NEW f \in Seq(Record), NEW ieee, NEW ep, ByIeeeEp(f, ieee, ep) # {}
    PROVE  LET r == f[FirstOf(ByIeeeEp(f, ieee, ep))] IN
             /\ FirstOf(ByIeeeEp(f, ieee, ep)) \in DOMAIN f
             /\ r \in Record /\ Readable(r) /\ r.ieee = ieee /\ r.ep = ep
BY FirstMatch, MatchesAreLines DEF ByIeeeEp

-----------------------------------------------------------------------------
(* The invariant. *)

\* An empty list has no endpoint twice.
LEMMA InitKeys == Init => KeysInv
<1> SUFFICES ASSUME Init PROVE KeysInv
  OBVIOUS
<1>1. TypeOK
  BY InitType
<1>2. DOMAIN db = {} /\ DOMAIN tmp = {}
  BY DEF Init
<1>3. job.op = "down"
  BY DEF Init, Down
<1> QED
  BY <1>1, <1>2, <1>3 DEF KeysInv, CopyIsPrefix, PairsAssigned, AssignedIn, UniqueIn,
                          PendingNotListed

\* A step that changes neither file, and ends or keeps the job.
LEMMA QuietStep ==
    ASSUME KeysInv, db' = db, tmp' = tmp,
           job' = job \/ job'.op \in {"idle", "down", "leave"}
    PROVE  (PairsAssigned /\ UniqueIn(db) /\ UniqueIn(tmp) /\ PendingNotListed)'
BY DEF KeysInv, PairsAssigned, AssignedIn, UniqueIn, PendingNotListed, NotListed

\* The record that a move removes, found by its address, is the one that was found
\* by its IEEE address (zbController.c:229-237): the records of an address belong
\* to one device.
LEMMA MoveFindsOld ==
    ASSUME OneDevicePerAddress, KeysInv, job.op = "desc", SameEndpoint # {}
    PROVE  LET r == db[FirstOf(OldRecord)] IN
             /\ OldRecord # {} /\ OldRecord \subseteq DOMAIN db
             /\ Readable(r) /\ r.na = OldAddress /\ r.ep = job.ep /\ r.ep # DummyEp
             /\ SameKey(r, Described)
<1> DEFINE S == ByNaEp(db, OldAddress, job.ep)
           x == FirstOf(SameEndpoint)
           y == FirstOf(S)
<1>0. db \in Seq(Record) /\ job \in Job
  BY DEF KeysInv, TypeOK
<1>1. job.ep \in Endpoint
  BY <1>0, JobFields DEF DescJob
<1>2. /\ x \in DOMAIN db /\ db[x] \in Record /\ Readable(db[x])
      /\ db[x].ieee = job.ieee /\ db[x].ep = job.ep /\ db[x].na = OldAddress
  BY <1>0, MatchByIeeeEp DEF SameEndpoint, OldAddress
<1>3. S # {} /\ S \subseteq DOMAIN db
  BY <1>2 DEF ByNaEp
<1>4. /\ y \in DOMAIN db /\ db[y] \in Record /\ Readable(db[y])
      /\ db[y].na = OldAddress /\ job.ep \in {AnyEp, db[y].ep}
  BY <1>0, <1>3, MatchByNaEp, FirstMatch
<1>5. db[y].ep = job.ep /\ job.ep # DummyEp
  BY <1>1, <1>4, EndpointAssumption DEF AnyEp, DummyEp
<1>6. <<db[x].ieee, OldAddress>> \in Assign /\ <<db[y].ieee, OldAddress>> \in Assign
  BY <1>2, <1>4 DEF KeysInv, PairsAssigned, AssignedIn
<1>7. db[y].ieee = db[x].ieee
  BY <1>6, AddressAssumption DEF OneDevicePerAddress
<1>8. SameKey(db[y], Described)
  BY <1>2, <1>5, <1>7 DEF SameKey, Described
<1> QED
  BY <1>3, <1>4, <1>5, <1>8 DEF OldRecord

\* Every step of the gateway keeps the keys apart (interface_devicelist.c, zbController.c).
LEMMA KeysStep ==
    ASSUME OneDevicePerAddress, TouchLinked = {}, KeysInv, [Next]_vars
    PROVE  (PairsAssigned /\ UniqueIn(db) /\ UniqueIn(tmp) /\ PendingNotListed)'
<1> DEFINE Goal == PairsAssigned /\ UniqueIn(db) /\ UniqueIn(tmp) /\ PendingNotListed
<1>0. TypeOK /\ db \in Seq(Record) /\ tmp \in Seq(Record)
  BY DEF KeysInv, TypeOK
<1>1. CASE UNCHANGED vars
  BY <1>1, QuietStep DEF vars
<1>2. CASE StartUp
  <2>1. CASE OpenDatabase
    <3>1. DOMAIN tmp' = {} /\ db' = db /\ job'.op = "copy"
      BY <2>1 DEF OpenDatabase
    <3> QED
      BY <3>1 DEF KeysInv, PairsAssigned, AssignedIn, UniqueIn, PendingNotListed
  <2>2. CASE CopyLine
    <3>1. db[Len(tmp) + 1] \in Record /\ Len(tmp) \in Nat /\ Len(db) \in Nat
      BY <1>0, <2>2, LenProperties, ElementOfSeq DEF CopyLine
    <3>2. /\ DOMAIN tmp' = 1..(Len(tmp) + 1)
          /\ \A i \in 1..Len(tmp) : tmp'[i] = tmp[i]
          /\ tmp'[Len(tmp) + 1] = db[Len(tmp) + 1]
      BY <1>0, <2>2, <3>1, AppendProperties DEF CopyLine, CopyNext
    <3>3. /\ Len(tmp) + 1 <= Len(db)
          /\ \A i \in 1..Len(tmp) : tmp[i] = db[i]
      BY <2>2, <3>1 DEF CopyLine, KeysInv, CopyIsPrefix
    <3>4. \A i \in DOMAIN tmp' : i \in DOMAIN db /\ tmp'[i] = db[i]
      BY <1>0, <3>1, <3>2, <3>3, LenProperties
    <3>5. db' = db /\ job' = job
      BY <2>2 DEF CopyLine
    <3>6. UniqueIn(tmp)' /\ AssignedIn(tmp)'
      BY <3>4 DEF KeysInv, PairsAssigned, UniqueIn, AssignedIn
    <3> QED
      BY <3>5, <3>6 DEF KeysInv, PairsAssigned, UniqueIn, AssignedIn, PendingNotListed,
                        NotListed
  <2>3. CASE DropOriginal
    <3>1. DOMAIN db' = {} /\ tmp' = tmp /\ job'.op = "rename"
      BY <2>3 DEF DropOriginal
    <3> QED
      BY <3>1 DEF KeysInv, PairsAssigned, AssignedIn, UniqueIn, PendingNotListed
  <2>4. CASE RenameCopy
    <3>1. DOMAIN tmp' = {} /\ db' = tmp /\ job'.op = "idle"
      BY <2>4 DEF RenameCopy, Idle
    <3> QED
      BY <3>1 DEF KeysInv, PairsAssigned, AssignedIn, UniqueIn, PendingNotListed
  <2> QED
    BY <1>2, <2>1, <2>2, <2>3, <2>4 DEF StartUp
<1>3. CASE Crash
  BY <1>3, QuietStep DEF Crash, Down
<1>4. CASE Network
  <2>1. ASSUME NEW d \in Ieee, NEW na \in NwkAddr, DeviceAnnce(d, na)
        PROVE  Goal'
    <3> DEFINE r == DummyRecord(d, na)
    <3>1. r \in Record /\ r.ep = DummyEp
      BY NameAssumption DEF DummyRecord, Record
    <3>2. <<r.ieee, r.na>> \in Assign
      BY <2>1 DEF DeviceAnnce, Join, DummyRecord
    <3>3. db' = AddRecord(db, r) /\ tmp' = tmp /\ job' = job /\ job.op = "idle"
      BY <2>1 DEF DeviceAnnce, Idle
    <3> HIDE DEF r
    <3>4. UniqueIn(AddRecord(db, r)) /\ AssignedIn(AddRecord(db, r))
      BY <1>0, <3>1, <3>2, AddKeeps DEF KeysInv, PairsAssigned
    <3> QED
      BY <3>3, <3>4 DEF KeysInv, PairsAssigned, UniqueIn, AssignedIn, PendingNotListed
  <2>2. ASSUME NEW d \in Ieee, NEW na \in NwkAddr, MissedAnnce(d, na)
        PROVE  Goal'
    BY <2>2, QuietStep DEF MissedAnnce
  <2>3. ASSUME NEW na \in NwkAddr, NEW ep \in Endpoint, LoseAnswer(na, ep)
        PROVE  Goal'
    BY <2>3, QuietStep DEF LoseAnswer
  <2>4. ASSUME NEW na \in NwkAddr, NEW ep \in Endpoint, SimpleDescRsp(na, ep)
        PROVE  Goal'
    <3> DEFINE known == ByNaEp(db, na, AnyEp)
    <3>1. CASE known = {}
      BY <2>4, <3>1, QuietStep DEF SimpleDescRsp, Down
    <3>2. CASE known # {}
      <4>1. /\ db' = DeleteRecord(db, ByNaEp(db, na, DummyEp))
            /\ tmp' = tmp
            /\ job' = [op |-> "desc", ieee |-> db[FirstOf(known)].ieee,
                       na |-> na, ep |-> ep]
        BY <2>4, <3>2 DEF SimpleDescRsp
      <4>2. db[FirstOf(known)].na = na /\ FirstOf(known) \in DOMAIN db
        BY <1>0, <3>2, MatchByNaEp, FirstMatch, MatchesAreLines
      <4>3. <<db[FirstOf(known)].ieee, na>> \in Assign
        BY <4>2 DEF KeysInv, PairsAssigned, AssignedIn
      <4>4. UniqueIn(DeleteRecord(db, ByNaEp(db, na, DummyEp)))
            /\ AssignedIn(DeleteRecord(db, ByNaEp(db, na, DummyEp)))
        BY <1>0, DeleteKeeps, MatchesAreLines DEF KeysInv, PairsAssigned
      <4> QED
        BY <4>1, <4>3, <4>4 DEF KeysInv, PairsAssigned, UniqueIn, AssignedIn,
                                PendingNotListed
    <3> QED
      BY <3>1, <3>2
  <2>5. ASSUME NEW na \in NwkAddr, LeaveInd(na)
        PROVE  Goal'
    BY <2>5, QuietStep DEF LeaveInd
  <2>6. ASSUME NEW na \in NwkAddr, NEW ep \in Endpoint,
               TouchLinkInd(na, ep) \/ TouchLinkDeath(na, ep)
        PROVE  FALSE
    BY <2>6 DEF TouchLinkInd, TouchLinkDeath
  <2> QED
    BY <1>4, <2>1, <2>2, <2>3, <2>4, <2>5, <2>6 DEF Network
<1>5. CASE Callback
  <2>1. ASSUME job.op = "desc"
        PROVE  /\ Described.ieee = job.ieee /\ Described.na = job.na
               /\ Described.ep = job.ep /\ job.ep \in Endpoint
               /\ job.ieee \in Ieee /\ <<job.ieee, job.na>> \in Assign
    BY <1>0, <2>1, JobFields, AddressAssumption DEF Described, DescJob, TypeOK, KeysInv,
                                                    PairsAssigned
  <2>2. CASE DescribesNew
    <3>1. /\ db' = db /\ tmp' = tmp
          /\ job' = [op |-> "add", rec |-> Described, note |-> "NEW", prev |-> job.na]
          /\ job.op = "desc" /\ SameEndpoint = {}
      BY <2>2 DEF DescribesNew, AddDescribed
    <3>2. NotListed(db, Described)
      BY <2>1, <3>1 DEF SameEndpoint, ByIeeeEp, NotListed, SameKey
    <3> QED
      BY <2>1, <3>1, <3>2 DEF KeysInv, PairsAssigned, UniqueIn, AssignedIn,
                              PendingNotListed, NotListed
  <2>3. CASE DescribesExisting
    BY <2>3, QuietStep DEF DescribesExisting, Idle
  <2>4. CASE DescribesMoved
    <3>1. /\ db' = DeleteRecord(db, OldRecord) /\ tmp' = tmp
          /\ job' = [op |-> "add", rec |-> Described, note |-> "UPDATED",
                     prev |-> OldAddress]
          /\ job.op = "desc" /\ SameEndpoint # {}
      BY <2>4 DEF DescribesMoved, AddDescribed
    <3>2. /\ OldRecord # {} /\ OldRecord \subseteq DOMAIN db
          /\ Readable(db[FirstOf(OldRecord)]) /\ db[FirstOf(OldRecord)].ep # DummyEp
          /\ SameKey(db[FirstOf(OldRecord)], Described)
      BY <3>1, MoveFindsOld
    <3>3. NotListed(DeleteRecord(db, OldRecord), Described)
      BY <1>0, <3>2, DeleteClears DEF KeysInv
    <3>4. UniqueIn(DeleteRecord(db, OldRecord)) /\ AssignedIn(DeleteRecord(db, OldRecord))
      BY <1>0, <3>2, DeleteKeeps DEF KeysInv, PairsAssigned
    <3> QED
      BY <2>1, <3>1, <3>3, <3>4 DEF KeysInv, PairsAssigned, UniqueIn, AssignedIn,
                                    PendingNotListed, NotListed
  <2>5. CASE AddDevice
    <3>1. /\ db' = AddRecord(db, job.rec) /\ tmp' = tmp
          /\ job'.op = "idle" /\ job.op = "add"
      BY <2>5 DEF AddDevice, Idle
    <3>2. job.rec \in Record
      BY <1>0, <3>1, JobFields DEF AddJob, TypeOK
    <3>3. UniqueIn(AddRecord(db, job.rec)) /\ AssignedIn(AddRecord(db, job.rec))
      BY <1>0, <3>1, <3>2, AddKeeps DEF KeysInv, PairsAssigned, PendingNotListed
    <3> QED
      BY <3>1, <3>3 DEF KeysInv, PairsAssigned, UniqueIn, AssignedIn, PendingNotListed
  <2>6. CASE RemoveNext
    <3> DEFINE left == ByNaEp(db, job.na, AnyEp)
    <3>1. CASE left = {}
      BY <2>6, <3>1, QuietStep DEF RemoveNext, Idle
    <3>2. CASE left # {}
      <4>1. db' = DeleteRecord(db, left) /\ tmp' = tmp /\ job' = job /\ job.op = "leave"
        BY <2>6, <3>2 DEF RemoveNext
      <4>2. UniqueIn(DeleteRecord(db, left)) /\ AssignedIn(DeleteRecord(db, left))
        BY <1>0, DeleteKeeps, MatchesAreLines DEF KeysInv, PairsAssigned
      <4> HIDE DEF left
      <4> QED
        BY <4>1, <4>2 DEF KeysInv, PairsAssigned, UniqueIn, AssignedIn, PendingNotListed
    <3> QED
      BY <3>1, <3>2
  <2> QED
    BY <1>5, <2>2, <2>3, <2>4, <2>5, <2>6 DEF Callback
<1>6. CASE Client
  <2>1. PICK na \in NwkAddr, ep \in Endpoint \cup {DummyEp, AnyEp}, name \in Name :
          ChangeDeviceName(na, ep, name)
    BY <1>6 DEF Client
  <2> DEFINE named == ByNaEp(db, na, ep)
             old == db[FirstOf(named)]
             new == [old EXCEPT !.name = name]
  <2>2. /\ named # {} /\ db' = DeleteRecord(db, named) /\ tmp' = tmp
        /\ job' = [op |-> "add", note |-> "NONE", prev |-> na, rec |-> new]
    BY <2>1 DEF ChangeDeviceName
  <2>3. /\ old \in Record /\ Readable(old) /\ FirstOf(named) \in DOMAIN db
    BY <1>0, <2>2, MatchByNaEp, FirstMatch, MatchesAreLines
  <2>4. new.ieee = old.ieee /\ new.na = old.na /\ new.ep = old.ep
    BY <2>3 DEF Record
  <2>5. <<new.ieee, new.na>> \in Assign
    BY <2>3, <2>4 DEF KeysInv, PairsAssigned, AssignedIn
  <2>6. ASSUME new.ep # DummyEp
        PROVE  NotListed(DeleteRecord(db, named), new)
    <3>1. SameKey(old, new)
      BY <2>4 DEF SameKey
    <3> QED
      BY <1>0, <2>2, <2>3, <2>4, <2>6, <3>1, DeleteClears, MatchesAreLines DEF KeysInv
  <2>7. UniqueIn(DeleteRecord(db, named)) /\ AssignedIn(DeleteRecord(db, named))
    BY <1>0, DeleteKeeps, MatchesAreLines DEF KeysInv, PairsAssigned
  <2> HIDE DEF named, old, new
  <2> QED
    BY <2>2, <2>5, <2>6, <2>7 DEF KeysInv, PairsAssigned, UniqueIn, AssignedIn,
                                  PendingNotListed, NotListed
<1> QED
  BY <1>1, <1>2, <1>3, <1>4, <1>5, <1>6 DEF Next

\* Whatever the order of announces, answers, moves, leaves, renames, crashes
\* and restarts (with any of the faults), the list holds at most one record of
\* an endpoint of a device, if no address is ever given to a second device and
\* no TouchLink reports a device.
THEOREM OneRecordPerEndpoint ==
    ASSUME OneDevicePerAddress, TouchLinked = {}
    PROVE  Spec => []UniqueEndpoint
<1>1. KeysInv /\ [Next]_vars => KeysInv'
  BY NextType, CopyStep, KeysStep DEF KeysInv
<1>2. KeysInv => UniqueEndpoint
  BY DEF KeysInv, UniqueEndpoint
<1> QED
  BY InitKeys, <1>1, <1>2, PTL DEF Spec

-----------------------------------------------------------------------------
(* Pairings: who is said to be where. *)

PairsOf(f) == {<<f[i].ieee, f[i].na>> : i \in DOMAIN f}

\* A step may announce a pair: a device that now holds an address, or what a
\* TouchLink reports.
Announced ==
    {<<holder'[na], na>> : na \in NwkAddr}
      \cup (IF job = Idle /\ out'.type = "NEW" THEN {<<out'.rec.ieee, out'.rec.na>>} ELSE {})

PairsOfJob ==
    IF job.op = "desc" THEN {<<job.ieee, job.na>>}
    ELSE IF job.op = "add" THEN {<<job.rec.ieee, job.rec.na>>} ELSE {}

\* Between removing the original and renaming the copy the list has no file.
NameIsFree == job.op = "rename" => DOMAIN db = {}

\* Deleting a record adds no pair, adding one adds its own.
LEMMA PairsOfFiles ==
    ASSUME NEW f \in Seq(Record)
    PROVE  /\ \A S : S \subseteq DOMAIN f => PairsOf(DeleteRecord(f, S)) \subseteq PairsOf(f)
           /\ \A r \in Record : PairsOf(AddRecord(f, r)) = PairsOf(f) \cup {<<r.ieee, r.na>>}
<1>1. ASSUME NEW S, S \subseteq DOMAIN f PROVE PairsOf(DeleteRecord(f, S)) \subseteq PairsOf(f)
  <2>1. CASE S = {}
    BY <2>1 DEF DeleteRecord
  <2>2. CASE S # {}
    <3>1. PICK from \in [DOMAIN DeleteRecord(f, S) -> DOMAIN f] :
            \A i \in DOMAIN DeleteRecord(f, S) : DeleteRecord(f, S)[i] = f[from[i]]
      BY <1>1, <2>2, DeleteRecordLines
    <3> QED
      BY <3>1 DEF PairsOf
  <2> QED
    BY <2>1, <2>2
<1>2. ASSUME NEW r \in Record
      PROVE  PairsOf(AddRecord(f, r)) = PairsOf(f) \cup {<<r.ieee, r.na>>}
  <2> DEFINE g == AddRecord(f, r)
  <2>1. /\ DOMAIN f = 1..Len(f) /\ Len(f) \in Nat
        /\ DOMAIN g = 1..(Len(f) + 1)
        /\ \A i \in 1..Len(f) : g[i] = f[i]
        /\ g[Len(f) + 1] = r
    BY LenProperties, AddRecordProperties
  <2> HIDE DEF g
  <2>2. DOMAIN g = DOMAIN f \cup {Len(f) + 1}
    BY <2>1
  <2> QED
    BY <2>1, <2>2 DEF PairsOf, g
<1> QED
  BY <1>1, <1>2

\* A found record's pair is in the list.
LEMMA PairFound ==
    ASSUME NEW f \in Seq(Record), NEW S, S \subseteq DOMAIN f, S # {}
    PROVE  <<f[FirstOf(S)].ieee, f[FirstOf(S)].na>> \in PairsOf(f)
BY FirstMatch DEF PairsOf

\* What holds between removing the original and renaming the copy.
LEMMA NameIsFreeStep == NameIsFree /\ TypeOK /\ [Next]_vars => NameIsFree'
<1> SUFFICES ASSUME NameIsFree, TypeOK, [Next]_vars, job'.op = "rename" PROVE DOMAIN db' = {}
  BY DEF NameIsFree
<1>1. CASE job.op \in {"copy", "rename"} /\ Next
  <2>1. CASE DropOriginal
    BY <2>1 DEF DropOriginal
  <2>2. CASE OpenDatabase \/ CopyLine \/ RenameCopy \/ Crash
    BY <2>2 DEF OpenDatabase, CopyLine, RenameCopy, Crash, Down, Idle
  <2>3. CASE \E na \in NwkAddr, ep \in Endpoint : LoseAnswer(na, ep)
    BY <1>1, <2>3 DEF LoseAnswer, NameIsFree
  <2> QED
    BY <1>1, <2>1, <2>2, <2>3, StartUpSteps DEF StartUp
<1>2. CASE UNCHANGED vars
  BY <1>2 DEF vars, NameIsFree
<1>3. CASE job.op \notin {"copy", "rename"} /\ Next
  <2>1. CASE StartUp \/ Crash
    BY <1>3, <2>1 DEF StartUp, OpenDatabase, CopyLine, DropOriginal, RenameCopy, Crash, Down, Idle
  <2>2. CASE Network
    <3>1. CASE \E na \in NwkAddr, ep \in Endpoint : SimpleDescRsp(na, ep)
      BY <3>1 DEF SimpleDescRsp, Down
    <3>2. CASE \E na \in NwkAddr : LeaveInd(na)
      BY <3>2 DEF LeaveInd
    <3>3. CASE job' = job \/ job' = Down
      BY <1>3, <3>3 DEF Down
    <3> QED
      BY <2>2, <3>1, <3>2, <3>3 DEF Network, DeviceAnnce, MissedAnnce, LoseAnswer, TouchLinkInd,
           TouchLinkDeath
  <2>3. CASE Callback \/ Client
    BY <1>3, <2>3 DEF Callback, DescribesNew, DescribesExisting, DescribesMoved, AddDevice,
         RemoveNext, AddDescribed, Client, ChangeDeviceName, Idle
  <2> QED
    BY <1>3, <2>1, <2>2, <2>3 DEF Next
<1> QED
  BY <1>1, <1>2, <1>3

\* No step but an announce or a TouchLink pairs a device with an address.
LEMMA PairingsStep ==
    ASSUME TypeOK, CopyIsPrefix, NameIsFree, Next
    PROVE  Pairings' \subseteq Pairings \cup Announced
<1>0. db \in Seq(Record) /\ tmp \in Seq(Record) /\ job \in Job
  BY DEF TypeOK
<1> DEFINE Allowed == PairsOf(List) \cup PairsOfJob \cup Announced
<1>1. /\ Pairings = PairsOf(List) \cup PairsOfJob
      /\ Pairings' = PairsOf(List)' \cup PairsOfJob'
  BY DEF Pairings, PairsOf, PairsOfJob, ToSet
<1>2. SUFFICES PairsOf(List)' \subseteq Allowed /\ PairsOfJob' \subseteq Allowed
  BY <1>1
<1>3. \A f : PairsOf(f)' = PairsOf(f)
  BY DEF PairsOf
<1>4. ASSUME List' = List, job' = job \/ job'.op \notin {"desc", "add"}
      PROVE  PairsOf(List)' \subseteq Allowed /\ PairsOfJob' \subseteq Allowed
  BY <1>4 DEF PairsOf, PairsOfJob
<1>5. CASE StartUp
  <2>1. job'.op \notin {"desc", "add"}
    BY <1>5 DEF StartUp, OpenDatabase, CopyLine, DropOriginal, RenameCopy, Idle
  <2>2. CASE OpenDatabase \/ CopyLine \/ RenameCopy
    <3>1. List' = List
      BY <2>2 DEF OpenDatabase, CopyLine, RenameCopy, List, Down, Idle
    <3> QED
      BY <1>4, <2>1, <3>1
  <2>3. CASE DropOriginal
    <3>1. List = db /\ List' = tmp
      BY <2>3 DEF DropOriginal, List
    <3>2. \A i \in DOMAIN tmp : i \in DOMAIN db /\ tmp[i] = db[i]
      BY <1>0, <2>3, LenProperties DEF DropOriginal, CopyIsPrefix
    <3>3. PairsOf(List)' \subseteq PairsOf(List)
      BY <3>1, <3>2 DEF PairsOf
    <3> QED
      BY <2>1, <3>3 DEF PairsOfJob
  <2> QED
    BY <1>5, <2>2, <2>3 DEF StartUp
<1>6. CASE Crash
  <2>1. job'.op \notin {"desc", "add"} /\ List' = db
    BY <1>6 DEF Crash, Down, List
  <2>2. PairsOf(List)' \subseteq PairsOf(List)
    BY <2>1 DEF PairsOf, NameIsFree, List
  <2> QED
    BY <2>1, <2>2 DEF PairsOfJob
<1>7. CASE Network
  <2>1. ASSUME NEW d \in Ieee, NEW na \in NwkAddr, DeviceAnnce(d, na)
        PROVE  PairsOf(List)' \subseteq Allowed /\ PairsOfJob' \subseteq Allowed
    <3>1. /\ DummyRecord(d, na) \in Record
          /\ DummyRecord(d, na).ieee = d /\ DummyRecord(d, na).na = na
      BY NameAssumption DEF DummyRecord, Record
    <3>2. List = db /\ List' = AddRecord(db, DummyRecord(d, na)) /\ job' = job
      BY <2>1 DEF DeviceAnnce, List, Idle
    <3>3. PairsOf(List)' = PairsOf(List) \cup {<<d, na>>}
      BY <1>0, <1>3, <3>1, <3>2, PairsOfFiles
    <3>4. holder'[na] = d
      BY <2>1 DEF DeviceAnnce, Join
    <3> QED
      BY <3>2, <3>3, <3>4 DEF Announced, PairsOfJob
  <2>2. ASSUME NEW d \in Ieee, NEW na \in NwkAddr, MissedAnnce(d, na)
        PROVE  PairsOf(List)' \subseteq Allowed /\ PairsOfJob' \subseteq Allowed
    BY <1>4, <2>2 DEF MissedAnnce, List
  <2>3. ASSUME NEW na \in NwkAddr, NEW ep \in Endpoint, LoseAnswer(na, ep)
        PROVE  PairsOf(List)' \subseteq Allowed /\ PairsOfJob' \subseteq Allowed
    BY <1>4, <2>3 DEF LoseAnswer, List
  <2>4. ASSUME NEW na \in NwkAddr, NEW ep \in Endpoint, SimpleDescRsp(na, ep)
        PROVE  PairsOf(List)' \subseteq Allowed /\ PairsOfJob' \subseteq Allowed
    <3> DEFINE known == ByNaEp(db, na, AnyEp)
               S == ByNaEp(db, na, DummyEp)
    <3>1. CASE known = {}
      <4>1. List' = List /\ job' = Down
        BY <2>4, <3>1 DEF SimpleDescRsp, List, Idle, Down
      <4> QED
        BY <1>4, <4>1 DEF Down
    <3>2. CASE known # {}
      <4>1. /\ db' = DeleteRecord(db, S)
            /\ job' = [op |-> "desc", ieee |-> db[FirstOf(known)].ieee, na |-> na, ep |-> ep]
        BY <2>4, <3>2 DEF SimpleDescRsp
      <4>2. List = db /\ List' = db'
        BY <2>4, <4>1 DEF SimpleDescRsp, List, Idle
      <4>3. known \subseteq DOMAIN db /\ S \subseteq DOMAIN db
        BY MatchesAreLines
      <4>4. db[FirstOf(known)].na = na
        BY <1>0, <3>2, MatchByNaEp
      <4>5. PairsOfJob' = {<<db[FirstOf(known)].ieee, db[FirstOf(known)].na>>}
        BY <4>1, <4>4 DEF PairsOfJob
      <4> HIDE DEF known, S
      <4>6. PairsOf(List)' \subseteq PairsOf(List)
        BY <1>0, <1>3, <4>1, <4>2, <4>3, PairsOfFiles
      <4> QED
        BY <1>0, <3>2, <4>2, <4>3, <4>5, <4>6, PairFound
    <3> QED
      BY <3>1, <3>2
  <2>5. ASSUME NEW na \in NwkAddr, LeaveInd(na)
        PROVE  PairsOf(List)' \subseteq Allowed /\ PairsOfJob' \subseteq Allowed
    BY <1>4, <2>5 DEF LeaveInd, List, Idle
  <2>6. ASSUME NEW na \in NwkAddr, NEW ep \in Endpoint, TouchLinkInd(na, ep)
        PROVE  PairsOf(List)' \subseteq Allowed /\ PairsOfJob' \subseteq Allowed
    <3>1. PICK rec \in Record :
            db' = AddRecord(db, rec) /\ out' = [type |-> "NEW", rec |-> rec, prev |-> na]
      BY <2>6 DEF TouchLinkInd, Record
    <3>2. List = db /\ List' = db' /\ job' = job /\ job = Idle
      BY <2>6 DEF TouchLinkInd, List, Idle
    <3>3. PairsOf(List)' = PairsOf(List) \cup {<<rec.ieee, rec.na>>}
      BY <1>0, <1>3, <3>1, <3>2, PairsOfFiles
    <3> QED
      BY <3>1, <3>2, <3>3 DEF Announced, PairsOfJob
  <2>7. ASSUME NEW na \in NwkAddr, NEW ep \in Endpoint, TouchLinkDeath(na, ep)
        PROVE  PairsOf(List)' \subseteq Allowed /\ PairsOfJob' \subseteq Allowed
    BY <1>4, <2>7 DEF TouchLinkDeath, List, Idle, Down
  <2> QED
    BY <1>7, <2>1, <2>2, <2>3, <2>4, <2>5, <2>6, <2>7 DEF Network
<1>8. CASE Callback
  <2>1. CASE DescribesNew
    BY <2>1 DEF DescribesNew, AddDescribed, Described, List, PairsOf, PairsOfJob
  <2>2. CASE DescribesExisting
    BY <1>4, <2>2 DEF DescribesExisting, List, Idle
  <2>3. CASE DescribesMoved
    <3>1. db' = DeleteRecord(db, OldRecord) /\ List = db /\ List' = db'
      BY <2>3 DEF DescribesMoved, AddDescribed, List
    <3>2. PairsOf(List)' \subseteq PairsOf(List)
      BY <1>0, <1>3, <3>1, PairsOfFiles, MatchesAreLines DEF OldRecord
    <3>3. PairsOfJob' = PairsOfJob
      BY <2>3 DEF DescribesMoved, AddDescribed, Described, PairsOfJob
    <3> QED
      BY <3>2, <3>3
  <2>4. CASE AddDevice
    <3>1. db' = AddRecord(db, job.rec) /\ List = db /\ List' = db' /\ job.op = "add"
      BY <2>4 DEF AddDevice, List, Idle
    <3>2. job.rec \in Record
      BY <1>0, <3>1, JobFields DEF AddJob
    <3>3. PairsOf(List)' = PairsOf(List) \cup {<<job.rec.ieee, job.rec.na>>}
      BY <1>0, <1>3, <3>1, <3>2, PairsOfFiles
    <3> QED
      BY <2>4, <3>1, <3>3 DEF AddDevice, PairsOfJob, Idle
  <2>5. CASE RemoveNext
    <3>1. job'.op \notin {"desc", "add"}
      BY <2>5 DEF RemoveNext, Idle
    <3>2. /\ List = db /\ List' = db'
          /\ db' = db \/ db' = DeleteRecord(db, ByNaEp(db, job.na, AnyEp))
      BY <2>5 DEF RemoveNext, List, Idle
    <3>3. PairsOf(List)' \subseteq PairsOf(List)
      BY <1>0, <1>3, <3>2, PairsOfFiles, MatchesAreLines
    <3> QED
      BY <3>1, <3>3 DEF PairsOfJob
  <2> QED
    BY <1>8, <2>1, <2>2, <2>3, <2>4, <2>5 DEF Callback
<1>9. CASE Client
  <2>1. PICK na \in NwkAddr, ep \in Endpoint \cup {DummyEp, AnyEp}, name \in Name :
          ChangeDeviceName(na, ep, name)
    BY <1>9 DEF Client
  <2> DEFINE named == ByNaEp(db, na, ep)
             old == db[FirstOf(named)]
  <2>2. /\ named # {} /\ db' = DeleteRecord(db, named)
        /\ job' = [op |-> "add", note |-> "NONE", prev |-> na, rec |-> [old EXCEPT !.name = name]]
        /\ List = db /\ List' = db'
    BY <2>1 DEF ChangeDeviceName, List, Idle
  <2>3. named \subseteq DOMAIN db /\ old \in Record
    BY <1>0, <2>2, MatchesAreLines, FirstMatch
  <2>4. PairsOfJob' = {<<old.ieee, old.na>>}
    BY <2>2, <2>3 DEF PairsOfJob, Record
  <2> HIDE DEF named
  <2>5. PairsOf(List)' \subseteq PairsOf(List)
    BY <1>0, <1>3, <2>2, <2>3, PairsOfFiles
  <2> QED
    BY <1>0, <2>2, <2>3, <2>4, <2>5, PairFound
<1> QED
  BY <1>5, <1>6, <1>7, <1>8, <1>9 DEF Next

\* A device is only ever said to be at an address that it announced or that a
\* TouchLink reported, also when addresses pass from one device to another and
\* whatever crashes leave of the list (zbController.c:218-223).
THEOREM PairingsAreAnnounced == Spec => PairingsWereAnnounced
<1>1. Init => NameIsFree
  BY DEF Init, NameIsFree, Down
<1>2. TypeOK /\ CopyIsPrefix /\ NameIsFree /\ [Next]_vars
        => [Pairings' \subseteq Pairings \cup Announced]_vars
  BY PairingsStep
<1>3. [Pairings' \subseteq Pairings \cup Announced]_vars
        => [Pairings' \subseteq Pairings
              \cup {<<holder'[na], na>> : na \in NwkAddr}
              \cup (IF job = Idle /\ out'.type = "NEW"
                      THEN {<<out'.rec.ieee, out'.rec.na>>} ELSE {})]_vars
  BY DEF Announced
<1> QED
  BY <1>1, <1>2, <1>3, TypeCorrect, CopyInvariant, NameIsFreeStep, PTL DEF Spec, PairingsWereAnnounced

-----------------------------------------------------------------------------
(* Answers. *)

\* The parser accepts the address of whatever is about to be added, since a line
\* with that address was found, and an answer brings no name.
AddressIsReadable ==
    /\ job.op = "desc" => job.na \notin UnreadableAddr
    /\ job.op = "add" => job.rec.na \notin UnreadableAddr
    /\ job.op = "add" /\ job.note # "NONE" => job.rec.name = NoName

\* Every step keeps it.
LEMMA AddressIsReadableStep ==
    ASSUME TypeOK, AddressIsReadable, [Next]_vars PROVE AddressIsReadable'
<1>0. db \in Seq(Record)
  BY DEF TypeOK
<1>1. CASE job' = job \/ job'.op \notin {"desc", "add"}
  BY <1>1 DEF AddressIsReadable
<1>2. ASSUME NEW na \in NwkAddr, NEW ep \in Endpoint, SimpleDescRsp(na, ep)
      PROVE  AddressIsReadable'
  <2>1. CASE ByNaEp(db, na, AnyEp) = {}
    BY <1>1, <1>2, <2>1 DEF SimpleDescRsp, Down
  <2>2. CASE ByNaEp(db, na, AnyEp) # {}
    <3>1. job'.op = "desc" /\ job'.na = na
      BY <1>2, <2>2 DEF SimpleDescRsp
    <3>2. na \notin UnreadableAddr
      BY <2>2 DEF ByNaEp, Readable
    <3> QED
      BY <3>1, <3>2 DEF AddressIsReadable
  <2> QED
    BY <2>1, <2>2
<1>3. CASE DescribesNew \/ DescribesMoved
  BY <1>3 DEF DescribesNew, DescribesMoved, AddDescribed, Described, AddressIsReadable
<1>4. ASSUME NEW na \in NwkAddr, NEW ep \in Endpoint \cup {DummyEp, AnyEp}, NEW name \in Name,
             ChangeDeviceName(na, ep, name)
      PROVE  AddressIsReadable'
  <2> DEFINE named == ByNaEp(db, na, ep)
             old == db[FirstOf(named)]
  <2>1. /\ named # {} /\ job'.op = "add" /\ job'.note = "NONE"
        /\ job'.rec = [old EXCEPT !.name = name]
    BY <1>4 DEF ChangeDeviceName
  <2>2. old \in Record /\ Readable(old)
    BY <1>0, <2>1, MatchByNaEp
  <2>3. job'.rec.na = old.na
    BY <2>1, <2>2 DEF Record
  <2> QED
    BY <2>1, <2>2, <2>3 DEF AddressIsReadable, Readable
<1>5. CASE StartUp \/ Crash \/ UNCHANGED vars
  BY <1>1, <1>5 DEF StartUp, OpenDatabase, CopyLine, DropOriginal, RenameCopy, Crash, Down, Idle, vars
<1>6. CASE Network
  <2>1. CASE \E na \in NwkAddr : LeaveInd(na)
    BY <1>1, <2>1 DEF LeaveInd
  <2>2. CASE job' = job \/ job' = Down
    BY <1>1, <2>2 DEF Down
  <2> QED
    BY <1>2, <1>6, <2>1, <2>2 DEF Network, DeviceAnnce, MissedAnnce, LoseAnswer, TouchLinkInd,
         TouchLinkDeath
<1>7. CASE Callback
  BY <1>1, <1>3, <1>7 DEF Callback, DescribesExisting, AddDevice, RemoveNext, Idle
<1>8. CASE Client
  BY <1>4, <1>8 DEF Client
<1> QED
  BY <1>5, <1>6, <1>7, <1>8 DEF Next

\* When the callback of an answer is done, its endpoint is listed.
LEMMA AnsweredStep ==
    ASSUME NoName \notin UnreadableName, TypeOK, AddressIsReadable, Next,
           job.op = "desc" \/ (job.op = "add" /\ job.note # "NONE"), job' = Idle,
           NEW r, r = IF job.op = "desc" THEN Described ELSE job.rec
    PROVE  \E i \in DOMAIN db' : Readable(db'[i]) /\ SameKey(db'[i], r) /\ db'[i].na = r.na
<1>0. db \in Seq(Record) /\ job \in Job
  BY DEF TypeOK
<1>1. DescribesExisting \/ AddDevice
  <2>1. job # Idle /\ job # Down /\ job.op \in {"desc", "add"}
    BY DEF Idle, Down
  <2>2. ~StartUp /\ ~Crash
    BY <2>1 DEF StartUp, OpenDatabase, CopyLine, DropOriginal, RenameCopy, Crash, Idle, Down
  <2>3. ~Network /\ ~Client
    BY <2>1 DEF Network, DeviceAnnce, MissedAnnce, LoseAnswer, SimpleDescRsp, LeaveInd,
         TouchLinkInd, TouchLinkDeath, Client, ChangeDeviceName
  <2> QED
    BY <2>1, <2>2, <2>3 DEF Next, Callback, DescribesNew, DescribesMoved, AddDescribed, RemoveNext,
         Idle
<1>2. CASE DescribesExisting
  <2>1. /\ db' = db /\ SameEndpoint # {} /\ OldAddress = job.na /\ r = Described
    BY <1>2 DEF DescribesExisting
  <2> DEFINE i == FirstOf(SameEndpoint)
  <2>2. i \in DOMAIN db /\ Readable(db[i]) /\ db[i].ieee = job.ieee /\ db[i].ep = job.ep
    BY <1>0, <2>1, MatchByIeeeEp DEF SameEndpoint
  <2>3. SameKey(db[i], r) /\ db[i].na = r.na
    BY <2>1, <2>2 DEF SameKey, Described, OldAddress
  <2> QED
    BY <2>1, <2>2, <2>3
<1>3. CASE AddDevice
  <2>1. db' = AddRecord(db, job.rec) /\ r = job.rec /\ job.op = "add"
    BY <1>3 DEF AddDevice
  <2>2. r \in Record
    BY <1>0, <2>1, JobFields DEF AddJob
  <2>3. db \in Seq(Record)
    BY <1>0 DEF TypeOK
  <2>4. Len(AddRecord(db, r)) = Len(db) + 1 /\ AddRecord(db, r)[Len(db) + 1] = r
    BY <2>3, <2>2, AppendProperties DEF AddRecord
  <2>5. AddRecord(db, r) \in Seq(Record)
    BY <2>3, <2>2, AddRecordProperties
  <2>6. Len(db) \in Nat
    BY <2>3
  <2>7. Len(db) + 1 \in DOMAIN AddRecord(db, r)
    BY <2>4, <2>5, <2>6
  <2>8. Len(db) + 1 \in DOMAIN db' /\ db'[Len(db) + 1] = r
    BY <2>1, <2>4, <2>7
  <2>9. Readable(r)
    BY <2>1 DEF Readable, AddressIsReadable
  <2> QED
    BY <2>8, <2>9 DEF SameKey
<1> QED
  BY <1>1, <1>2, <1>3

\* An endpoint that has answered is in the list at the address it answered from
\* when its callback is done (zbController.c:206-279), with every fault; the
\* hypothesis is that the parser accepts the empty name.
THEOREM AnswersAreListed ==
    ASSUME NoName \notin UnreadableName
    PROVE  Spec => AnsweredIsListed
<1>1. Init => AddressIsReadable
  BY DEF Init, AddressIsReadable, Down
<1>2. TypeOK /\ AddressIsReadable /\ [Next]_vars
        => [/\ job.op = "desc" \/ (job.op = "add" /\ job.note # "NONE")
            /\ job' = Idle
            =>
              LET r == IF job.op = "desc" THEN Described ELSE job.rec IN
                \E i \in DOMAIN db' : /\ Readable(db'[i])
                                      /\ SameKey(db'[i], r)
                                      /\ db'[i].na = r.na]_vars
  BY AnsweredStep
<1> QED
  BY <1>1, <1>2, TypeCorrect, AddressIsReadableStep, PTL DEF Spec, AnsweredIsListed

-----------------------------------------------------------------------------
(* Tables. *)

KeyOf(r) == <<r.ieee, r.ep>>

\* What a record says in a table: a dummy says nothing.
EntryOf(r) == IF r.ep = DummyEp THEN {} ELSE {<<KeyOf(r), r.na>>}

\* A table with one address per key.
Functional(t) == \A x, y \in t : x[1] = y[1] => x = y

\* What is not about key k.
But(t, k) == {x \in t : x[1] # k}

\* The table of a file, by its lines.
LEMMA TableLines ==
    ASSUME NEW f
    PROVE  \A x : x \in TableOf(f) <=>
             \E i \in DOMAIN f : /\ Readable(f[i]) /\ f[i].ep # DummyEp
                                 /\ x = <<KeyOf(f[i]), f[i].na>>
BY DEF TableOf, Listed, KeyOf

\* A list without double keys is a table with one address per key.
LEMMA UniqueIsFunctional ==
    ASSUME NEW f, UniqueIn(f)
    PROVE  Functional(TableOf(f))
<1> SUFFICES ASSUME NEW x \in TableOf(f), NEW y \in TableOf(f), x[1] = y[1] PROVE x = y
  BY DEF Functional
<1>1. PICK i \in DOMAIN f : /\ Readable(f[i]) /\ f[i].ep # DummyEp
                            /\ x = <<KeyOf(f[i]), f[i].na>>
  BY TableLines
<1>2. PICK j \in DOMAIN f : /\ Readable(f[j]) /\ f[j].ep # DummyEp
                            /\ y = <<KeyOf(f[j]), f[j].na>>
  BY TableLines
<1>3. KeyOf(f[i]) = KeyOf(f[j])
  BY <1>1, <1>2
<1>4. SameKey(f[i], f[j])
  BY <1>3 DEF KeyOf, SameKey
<1> QED
  BY <1>1, <1>2, <1>4 DEF UniqueIn

\* A record that is added brings its entry.
LEMMA TableOfAdd ==
    ASSUME NEW f \in Seq(Record), NEW r \in Record, Readable(r)
    PROVE  TableOf(AddRecord(f, r)) = TableOf(f) \cup EntryOf(r)
<1> DEFINE g == AddRecord(f, r)
           n == Len(f)
<1>1. /\ DOMAIN f = 1..n /\ n \in Nat
      /\ DOMAIN g = 1..(n + 1)
      /\ \A i \in 1..n : g[i] = f[i]
      /\ g[n + 1] = r
  BY LenProperties, AddRecordProperties
<1> HIDE DEF g, n
<1>2. DOMAIN g = DOMAIN f \cup {n + 1}
  BY <1>1
<1>3. \A x : x \in TableOf(g) <=>
        \/ \E i \in DOMAIN f : /\ Readable(f[i]) /\ f[i].ep # DummyEp
                               /\ x = <<KeyOf(f[i]), f[i].na>>
        \/ r.ep # DummyEp /\ x = <<KeyOf(r), r.na>>
  BY <1>1, <1>2, TableLines
<1>4. \A x : x \in TableOf(g) <=> x \in TableOf(f) \/ x \in EntryOf(r)
  BY <1>3, TableLines DEF EntryOf
<1> QED
  BY <1>4 DEF g

\* A record that the parser rejects, or a dummy, adds nothing.
LEMMA TableOfAddNothing ==
    ASSUME NEW f \in Seq(Record), NEW r \in Record, r.ep = DummyEp \/ ~Readable(r)
    PROVE  TableOf(AddRecord(f, r)) = TableOf(f)
<1> DEFINE g == AddRecord(f, r)
           n == Len(f)
<1>1. DOMAIN f = 1..n /\ n \in Nat
  BY LenProperties
<1>2. /\ DOMAIN g = 1..(n + 1)
      /\ \A i \in 1..n : g[i] = f[i]
      /\ g[n + 1] = r
  BY AddRecordProperties
<1> HIDE DEF g, n
<1>3. DOMAIN g = DOMAIN f \cup {n + 1}
  BY <1>1, <1>2
<1>4. \A x : x \in TableOf(g) <=> x \in TableOf(f)
  BY <1>1, <1>2, <1>3, TableLines
<1> QED
  BY <1>4 DEF g

\* Deleting the first of some readable lines takes its entry away, and no other.
LEMMA TableOfDelete ==
    ASSUME NEW f \in Seq(Record), NEW S, S \subseteq DOMAIN f, S # {},
           UniqueIn(f), Readable(f[FirstOf(S)])
    PROVE  /\ TableOf(DeleteRecord(f, S)) = TableOf(f) \ EntryOf(f[FirstOf(S)])
           /\ EntryOf(f[FirstOf(S)]) \subseteq TableOf(f)
<1> DEFINE g == DeleteRecord(f, S)
           n == FirstOf(S)
           r == f[n]
<1>1. n \in DOMAIN f /\ Readable(r)
  BY FirstMatch
<1>2. PICK from \in [DOMAIN g -> DOMAIN f] :
        /\ \A i \in DOMAIN g : g[i] = f[from[i]] /\ from[i] # n
        /\ \A i, j \in DOMAIN g : from[i] = from[j] => i = j
        /\ \A k \in DOMAIN f : k # n => \E i \in DOMAIN g : from[i] = k
  BY DeleteRecordLines
<1> HIDE DEF g, n
<1>3. \A x : x \in TableOf(g) <=>
        \E k \in DOMAIN f : /\ Readable(f[k]) /\ f[k].ep # DummyEp /\ k # n
                            /\ x = <<KeyOf(f[k]), f[k].na>>
  BY <1>2, TableLines
<1>4. \A k \in DOMAIN f :
        /\ Readable(f[k]) /\ f[k].ep # DummyEp /\ r.ep # DummyEp
        /\ <<KeyOf(f[k]), f[k].na>> = <<KeyOf(r), r.na>>
        => k = n
  BY <1>1 DEF UniqueIn, SameKey, KeyOf
<1>5. \A x : x \in TableOf(g) <=> x \in TableOf(f) /\ x \notin EntryOf(r)
  <2>1. CASE r.ep = DummyEp
    BY <1>3, <2>1, TableLines DEF EntryOf
  <2>2. CASE r.ep # DummyEp
    BY <1>3, <1>4, <2>2, TableLines DEF EntryOf
  <2> QED
    BY <2>1, <2>2
<1>6. EntryOf(r) \subseteq TableOf(f)
  BY <1>1, TableLines DEF EntryOf
<1> QED
  BY <1>5, <1>6 DEF g, n

\* A key that no line has is not in the table.
LEMMA NotListedNoEntry ==
    ASSUME NEW f, NEW r, NotListed(f, r)
    PROVE  But(TableOf(f), KeyOf(r)) = TableOf(f)
<1>1. \A i \in DOMAIN f : Readable(f[i]) => KeyOf(f[i]) # KeyOf(r)
  BY DEF NotListed, SameKey, KeyOf
<1> QED
  BY <1>1, TableLines DEF But

-----------------------------------------------------------------------------
(* The invariant of the gateway. *)

\* What a callback is about to add: an answer is about an endpoint, a message of
\* a move names two addresses, and a rename keeps the address.
JobIsSound ==
    job.op = "add" =>
      /\ job.note # "NONE" => job.rec.ep \in Endpoint
      /\ job.note = "UPDATED" => job.prev # job.rec.na
      /\ job.note = "NONE" => job.prev = job.rec.na

ListInv == KeysInv /\ AddressIsReadable /\ JobIsSound

\* The table the clients are promised: the list, and what is in flight.
Known == TableOf(List) \cup InFlight

\* Every step keeps what a callback is about to add sound.
LEMMA JobIsSoundStep ==
    ASSUME TypeOK, JobIsSound, [Next]_vars PROVE JobIsSound'
<1>0. db \in Seq(Record) /\ job \in Job
  BY DEF TypeOK
<1>1. CASE job' = job \/ job'.op # "add"
  BY <1>1 DEF JobIsSound
<1>2. CASE DescribesNew \/ DescribesMoved
  <2>1. job.op = "desc"
    BY <1>2 DEF DescribesNew, DescribesMoved
  <2>2. job.ep \in Endpoint
    BY <1>0, <2>1, JobFields DEF DescJob
  <2>3. CASE DescribesNew
    BY <2>2, <2>3 DEF DescribesNew, AddDescribed, Described, JobIsSound
  <2>4. CASE DescribesMoved
    BY <2>2, <2>4 DEF DescribesMoved, AddDescribed, Described, JobIsSound
  <2> QED
    BY <1>2, <2>3, <2>4
<1>3. ASSUME NEW na \in NwkAddr, NEW ep \in Endpoint \cup {DummyEp, AnyEp}, NEW name \in Name,
             ChangeDeviceName(na, ep, name)
      PROVE  JobIsSound'
  <2> DEFINE old == db[FirstOf(ByNaEp(db, na, ep))]
  <2>1. /\ ByNaEp(db, na, ep) # {} /\ job'.note = "NONE" /\ job'.prev = na
        /\ job'.rec = [old EXCEPT !.name = name]
    BY <1>3 DEF ChangeDeviceName
  <2>2. old \in Record /\ old.na = na
    BY <1>0, <2>1, MatchByNaEp
  <2>3. job'.rec.na = old.na
    BY <2>1, <2>2 DEF Record
  <2> QED
    BY <2>1, <2>2, <2>3 DEF JobIsSound
<1>4. CASE StartUp \/ Crash \/ UNCHANGED vars
  BY <1>1, <1>4 DEF StartUp, OpenDatabase, CopyLine, DropOriginal, RenameCopy, Crash, Down, Idle, vars
<1>5. CASE Network
  <2>1. CASE \E na \in NwkAddr, ep \in Endpoint : SimpleDescRsp(na, ep)
    BY <1>1, <2>1 DEF SimpleDescRsp, Down
  <2>2. CASE \E na \in NwkAddr : LeaveInd(na)
    BY <1>1, <2>2 DEF LeaveInd
  <2>3. CASE job' = job \/ job' = Down
    BY <1>1, <2>3 DEF Down
  <2> QED
    BY <1>5, <2>1, <2>2, <2>3 DEF Network, DeviceAnnce, MissedAnnce, LoseAnswer, TouchLinkInd,
         TouchLinkDeath
<1>6. CASE Callback
  BY <1>1, <1>2, <1>6 DEF Callback, DescribesExisting, AddDevice, RemoveNext, Idle
<1>7. CASE Client
  BY <1>3, <1>7 DEF Client
<1> QED
  BY <1>4, <1>5, <1>6, <1>7 DEF Next

\* The invariant holds at first and is kept by the gateway and the network.
LEMMA ListInvHolds ==
    ASSUME OneDevicePerAddress, TouchLinked = {}
    PROVE  /\ Init => ListInv
           /\ ListInv /\ [Next]_vars => ListInv'
<1>1. Init => ListInv
  BY InitKeys DEF ListInv, AddressIsReadable, JobIsSound, Init, Down
<1>2. ListInv /\ [Next]_vars => KeysInv'
  BY NextType, CopyStep, KeysStep DEF ListInv, KeysInv
<1>3. ListInv /\ [Next]_vars => AddressIsReadable' /\ JobIsSound'
  BY AddressIsReadableStep, JobIsSoundStep DEF ListInv, KeysInv
<1> QED
  BY <1>1, <1>2, <1>3 DEF ListInv

\* Outside start-up the list is the file, and only a callback has something in flight.
LEMMA KnownServing ==
    /\ Serving => List = db
    /\ Serving' => List' = db'
    /\ job.op # "add" => InFlight = {}
    /\ job'.op # "add" => InFlight' = {}
BY DEF Serving, List, InFlight

-----------------------------------------------------------------------------
(* The refinement, step by step.  The hypotheses hold for all of them. *)

Hypotheses ==
    OneDevicePerAddress /\ TouchLinked = {} /\ UnreadableName = {}

\* A key and an address of an endpoint are of the table's kind.
LEMMA EntryKinds ==
    ASSUME KeysInv
    PROVE  /\ \A i \in DOMAIN db : db[i].ieee \in Ieee /\ db[i].na \in NwkAddr
           /\ job.op = "add" => job.rec \in Record /\ job.rec.ieee \in Ieee /\ job.prev \in NwkAddr
<1>1. db \in Seq(Record) /\ job \in Job
  BY DEF KeysInv, TypeOK
<1>2. \A i \in DOMAIN db : db[i].ieee \in Ieee /\ db[i].na \in NwkAddr
  BY AddressAssumption DEF KeysInv, PairsAssigned, AssignedIn
<1>3. job.op = "add" => job.rec \in Record /\ job.prev \in NwkAddr
  BY <1>1, JobFields DEF AddJob
<1>4. job.op = "add" => job.rec.ieee \in Ieee
  BY AddressAssumption DEF KeysInv, PairsAssigned
<1> QED
  BY <1>2, <1>3, <1>4

\* The record that is added: the table without its key is the list, and the list
\* with it has its entry.
LEMMA AddedEntry ==
    ASSUME Hypotheses, ListInv, AddDevice
    PROVE  /\ Serving /\ Serving' /\ InFlight' = {}
           /\ Known' = TableOf(db) \cup EntryOf(job.rec)
           /\ job.rec.ep # DummyEp => But(TableOf(db), KeyOf(job.rec)) = TableOf(db)
<1>1. /\ db' = AddRecord(db, job.rec) /\ job.op = "add" /\ job' = Idle
  BY DEF AddDevice
<1>2. db \in Seq(Record) /\ job.rec \in Record
  BY <1>1, EntryKinds DEF ListInv, KeysInv, TypeOK
<1>3. Serving /\ Serving' /\ job'.op # "add"
  BY <1>1 DEF Serving, Idle
<1>4. Readable(job.rec)
  BY <1>1 DEF Hypotheses, ListInv, AddressIsReadable, Readable
<1>5. TableOf(db') = TableOf(db) \cup EntryOf(job.rec)
  BY <1>1, <1>2, <1>4, TableOfAdd
<1>6. List' = db' /\ InFlight' = {}
  BY <1>3, KnownServing
<1>7. Known' = TableOf(db') \cup InFlight'
  BY <1>6 DEF Known, TableOf, Listed, Readable
<1>8. job.rec.ep # DummyEp => NotListed(db, job.rec)
  BY <1>1 DEF ListInv, KeysInv, PendingNotListed
<1> QED
  BY <1>3, <1>5, <1>6, <1>7, <1>8, NotListedNoEntry

\* devListAddDevice after an answer about a new endpoint, with its message.
LEMMA RegisterStep ==
    ASSUME Hypotheses, ListInv, AddDevice, job.note = "NEW"
    PROVE  \E k \in Ieee \X Endpoint, a \in NwkAddr : Registry!Register(k, a)
<1> DEFINE r == job.rec
           k == KeyOf(job.rec)
<1>1. /\ Serving /\ Serving' /\ Known' = TableOf(db) \cup EntryOf(r)
      /\ r.ep # DummyEp => But(TableOf(db), k) = TableOf(db)
  BY AddedEntry
<1>2. /\ job.op = "add" /\ out' = [type |-> "NEW", rec |-> r, prev |-> job.prev]
  BY DEF AddDevice
<1>3. r \in Record /\ r.ieee \in Ieee /\ r.ep \in Endpoint /\ r.ep # DummyEp
  BY <1>2, EntryKinds, EndpointAssumption DEF ListInv, JobIsSound, DummyEp
<1>4. Known = TableOf(db)
  BY <1>1, <1>2, KnownServing DEF Known, InFlight
<1>5. \A e \in Known : e[1] # k
  BY <1>1, <1>3, <1>4 DEF But
<1>6. Known' = Known \cup {<<k, r.na>>}
  BY <1>1, <1>3, <1>4 DEF EntryOf
<1>7. Notice' = [type |-> "NEW", key |-> k, addr |-> r.na]
  BY <1>2, <1>3 DEF Notice, KeyOf
<1>8. Registry!Register(k, r.na)
  BY <1>1, <1>5, <1>6, <1>7 DEF Registry!Register, Known
<1>9. k \in Ieee \X Endpoint /\ r.na \in NwkAddr
  BY <1>3 DEF KeyOf, Record
<1> QED
  BY <1>8, <1>9

\* devListAddDevice after an answer from an endpoint that has moved.
LEMMA MoveStep ==
    ASSUME Hypotheses, ListInv, AddDevice, job.note = "UPDATED"
    PROVE  \E k \in Ieee \X Endpoint, a, old \in NwkAddr : Registry!Move(k, old, a)
<1> DEFINE r == job.rec
           k == KeyOf(job.rec)
<1>1. /\ Serving /\ Serving' /\ Known' = TableOf(db) \cup EntryOf(r)
      /\ r.ep # DummyEp => But(TableOf(db), k) = TableOf(db)
  BY AddedEntry
<1>2. /\ job.op = "add" /\ out' = [type |-> "UPDATED", rec |-> r, prev |-> job.prev]
  BY DEF AddDevice
<1>3. r \in Record /\ r.ieee \in Ieee /\ r.ep \in Endpoint /\ r.ep # DummyEp
  BY <1>2, EntryKinds, EndpointAssumption DEF ListInv, JobIsSound, DummyEp
<1>4. job.prev \in NwkAddr /\ job.prev # r.na
  BY <1>2, EntryKinds DEF ListInv, JobIsSound
<1>5. Known = TableOf(db) \cup {<<k, job.prev>>}
  BY <1>1, <1>2, <1>3, KnownServing DEF Known, InFlight, KeyOf
<1>6. <<k, job.prev>> \in Known /\ Known \ {<<k, job.prev>>} = TableOf(db)
  BY <1>1, <1>3, <1>5 DEF But
<1>7. Known' = (Known \ {<<k, job.prev>>}) \cup {<<k, r.na>>}
  BY <1>1, <1>3, <1>6 DEF EntryOf
<1>8. Notice' = [type |-> "UPDATED", key |-> k, addr |-> r.na, old |-> job.prev]
  BY <1>2, <1>3 DEF Notice, KeyOf
<1>9. Registry!Move(k, job.prev, r.na)
  BY <1>1, <1>4, <1>6, <1>7, <1>8 DEF Registry!Move, Known
<1>10. k \in Ieee \X Endpoint /\ r.na \in NwkAddr
  BY <1>3 DEF KeyOf, Record
<1> QED
  BY <1>4, <1>9, <1>10

\* devListAddDevice of SRPC_changeDeviceName: the entry comes back as it was.
LEMMA RenamedStep ==
    ASSUME Hypotheses, ListInv, AddDevice, job.note = "NONE"
    PROVE  Registry!Silent
<1>1. Serving /\ Serving' /\ Known' = TableOf(db) \cup EntryOf(job.rec)
  BY AddedEntry
<1>2. job.op = "add" /\ out' = NoMsg
  BY DEF AddDevice
<1>3. job.prev = job.rec.na
  BY <1>2 DEF ListInv, JobIsSound
<1>4. InFlight = EntryOf(job.rec)
  BY <1>2, <1>3 DEF InFlight, EntryOf, KeyOf
<1>5. Known' = Known
  BY <1>1, <1>4, KnownServing DEF Known
<1> QED
  BY <1>1, <1>2, <1>5 DEF Registry!Silent, Registry!Quiet, Notice, NoMsg, Known

\* A step of a serving gateway that says nothing and leaves the table.
LEMMA SilentStep ==
    ASSUME Serving, Serving', out' = NoMsg, TableOf(db)' \cup InFlight' = TableOf(db) \cup InFlight
    PROVE  Registry!Silent
<1>1. Known' = Known
  BY KnownServing DEF Known
<1>2. Notice' = Registry!Quiet
  BY DEF Notice, NoMsg, Registry!Quiet
<1> QED
  BY <1>1, <1>2 DEF Registry!Silent, Known

\* The first write of a move: the entry is in flight under its old address.
LEMMA MovingStep ==
    ASSUME Hypotheses, ListInv, DescribesMoved PROVE Registry!Silent
<1> DEFINE r == db[FirstOf(OldRecord)]
<1>1. /\ job.op = "desc" /\ SameEndpoint # {} /\ OldAddress # job.na
      /\ db' = DeleteRecord(db, OldRecord) /\ out' = NoMsg
      /\ job' = [op |-> "add", rec |-> Described, note |-> "UPDATED", prev |-> OldAddress]
  BY DEF DescribesMoved, AddDescribed
<1>2. /\ OldRecord # {} /\ OldRecord \subseteq DOMAIN db
      /\ Readable(r) /\ r.na = OldAddress /\ r.ep # DummyEp /\ SameKey(r, Described)
  BY <1>1, MoveFindsOld DEF Hypotheses, ListInv
<1>3. db \in Seq(Record) /\ UniqueIn(db)
  BY DEF ListInv, KeysInv, TypeOK
<1>4. /\ TableOf(DeleteRecord(db, OldRecord)) = TableOf(db) \ EntryOf(r)
      /\ EntryOf(r) \subseteq TableOf(db)
  BY <1>2, <1>3, TableOfDelete
<1>5. TableOf(db)' = TableOf(db) \ EntryOf(r)
  BY <1>1, <1>4 DEF TableOf, Listed, Readable
<1>6. Described.ep # DummyEp /\ <<Described.ieee, Described.ep>> = KeyOf(r)
  BY <1>2 DEF SameKey, KeyOf
<1>7. InFlight' = {<<<<Described.ieee, Described.ep>>, OldAddress>>}
  BY <1>1, <1>6 DEF InFlight
<1>8. InFlight' = EntryOf(r) /\ InFlight = {}
  BY <1>1, <1>2, <1>6, <1>7, KnownServing DEF EntryOf
<1>9. Serving /\ Serving'
  BY <1>1 DEF Serving
<1> QED
  BY <1>1, <1>4, <1>5, <1>8, <1>9, SilentStep

\* The first write of a rename: the entry is in flight.
LEMMA RenamingStep ==
    ASSUME Hypotheses, ListInv, Client PROVE Registry!Silent
<1>1. PICK na \in NwkAddr, ep \in Endpoint \cup {DummyEp, AnyEp}, name \in Name :
        ChangeDeviceName(na, ep, name)
  BY DEF Client
<1> DEFINE named == ByNaEp(db, na, ep)
           r == db[FirstOf(named)]
           new == [r EXCEPT !.name = name]
<1>2. /\ named # {} /\ db' = DeleteRecord(db, named) /\ out' = NoMsg /\ job = Idle
      /\ job' = [op |-> "add", note |-> "NONE", prev |-> na, rec |-> new]
  BY <1>1 DEF ChangeDeviceName
<1>3. db \in Seq(Record) /\ UniqueIn(db)
  BY DEF ListInv, KeysInv, TypeOK
<1>4. r \in Record /\ Readable(r) /\ r.na = na /\ named \subseteq DOMAIN db
  BY <1>2, <1>3, MatchByNaEp, MatchesAreLines
<1>5. new.ieee = r.ieee /\ new.ep = r.ep
  BY <1>4 DEF Record
<1> HIDE DEF named, r, new
<1>6. TableOf(DeleteRecord(db, named)) = TableOf(db) \ EntryOf(r) /\ EntryOf(r) \subseteq TableOf(db)
  BY <1>2, <1>3, <1>4, TableOfDelete DEF r
<1>7. TableOf(db)' = TableOf(db) \ EntryOf(r)
  BY <1>2, <1>6 DEF TableOf, Listed, Readable
<1>8. job'.op = "add" /\ job'.note = "NONE" /\ job'.prev = na /\ job'.rec = new
  BY <1>2
<1>9. InFlight' = EntryOf(r)
  BY <1>4, <1>5, <1>8 DEF InFlight, EntryOf, KeyOf
<1>10. Serving /\ Serving' /\ InFlight = {}
  BY <1>2, KnownServing DEF Serving, Idle
<1> QED
  BY <1>2, <1>6, <1>7, <1>9, <1>10, SilentStep

\* A record is removed after a leave: the message withdraws what it said, a dummy's
\* is none of the table's.
LEMMA WithdrawStep ==
    ASSUME Hypotheses, ListInv, RemoveNext
    PROVE  \/ Registry!Silent
           \/ \E k \in Ieee \X Endpoint, a \in NwkAddr : Registry!Withdraw(k, a)
<1> DEFINE left == ByNaEp(db, job.na, AnyEp)
           r == db[FirstOf(left)]
<1>1. CASE left = {}
  <2>1. db' = db /\ job' = Idle /\ job.op = "leave" /\ out' = NoMsg
    BY <1>1 DEF RemoveNext
  <2>2. Serving /\ Serving' /\ InFlight = {} /\ InFlight' = {}
    BY <2>1, KnownServing DEF Serving, Idle
  <2>3. TableOf(db)' = TableOf(db)
    BY <2>1 DEF TableOf, Listed, Readable
  <2> QED
    BY <2>1, <2>2, <2>3, SilentStep
<1>2. CASE left # {}
  <2>1. /\ db' = DeleteRecord(db, left) /\ job' = job /\ job.op = "leave"
        /\ out' = [type |-> "REMOVED", rec |-> r, prev |-> job.na]
    BY <1>2 DEF RemoveNext
  <2>2. db \in Seq(Record) /\ UniqueIn(db)
    BY DEF ListInv, KeysInv, TypeOK
  <2>3. /\ r \in Record /\ Readable(r) /\ left \subseteq DOMAIN db /\ FirstOf(left) \in DOMAIN db
    BY <1>2, <2>2, MatchByNaEp, MatchesAreLines, FirstMatch
  <2>4. r.ieee \in Ieee /\ r.na \in NwkAddr
    BY <2>3, EntryKinds DEF ListInv
  <2> HIDE DEF left, r
  <2>5. TableOf(DeleteRecord(db, left)) = TableOf(db) \ EntryOf(r) /\ EntryOf(r) \subseteq TableOf(db)
    BY <1>2, <2>2, <2>3, TableOfDelete DEF r
  <2>6. TableOf(db)' = TableOf(db) \ EntryOf(r)
    BY <2>1, <2>5 DEF TableOf, Listed, Readable
  <2>7. Serving /\ Serving' /\ InFlight = {} /\ InFlight' = {}
    BY <2>1, KnownServing DEF Serving
  <2>8. Known = TableOf(db) /\ Known' = Known \ EntryOf(r) /\ EntryOf(r) \subseteq Known
    BY <2>5, <2>6, <2>7, KnownServing DEF Known
  <2>9. CASE r.ep = DummyEp
    <3>1. Known' = Known
      BY <2>8, <2>9 DEF EntryOf
    <3>2. Notice' = Registry!Quiet
      BY <2>1, <2>9 DEF Notice, Registry!Quiet
    <3> QED
      BY <2>7, <3>1, <3>2 DEF Registry!Silent, Known
  <2>10. CASE r.ep # DummyEp
    <3>1. EntryOf(r) = {<<KeyOf(r), r.na>>}
      BY <2>10 DEF EntryOf
    <3>2. Notice' = [type |-> "REMOVED", key |-> KeyOf(r), addr |-> r.na]
      BY <2>1, <2>10 DEF Notice, KeyOf
    <3>3. Registry!Withdraw(KeyOf(r), r.na)
      BY <2>7, <2>8, <3>1, <3>2 DEF Registry!Withdraw, Known
    <3>4. KeyOf(r) \in Ieee \X Endpoint
      BY <2>3, <2>4, <2>10 DEF KeyOf, Record
    <3> QED
      BY <2>4, <3>3, <3>4
  <2> QED
    BY <2>9, <2>10
<1> QED
  BY <1>1, <1>2

\* The process dies while it serves: what is in flight may be lost.
LEMMA DieStep ==
    ASSUME ListInv, Serving, job' = Down, db' = db, out' = NoMsg
    PROVE  Registry!Die
<1>1. ~Serving' /\ List' = db /\ InFlight' = {} /\ List = db
  BY KnownServing DEF Serving, List, Down
<1>2. TableOf(List)' = TableOf(db)
  BY <1>1 DEF TableOf, Listed, Readable
<1>3. Known' = TableOf(db) /\ Known = TableOf(db) \cup InFlight
  BY <1>1, <1>2 DEF Known
<1> DEFINE lost == InFlight \ TableOf(db)
<1>4. lost \subseteq Known /\ Known' = Known \ lost
  BY <1>3
<1>5. \A e, f \in lost : e = f
  BY DEF InFlight
<1>6. Notice' = Registry!Quiet
  BY DEF Notice, NoMsg, Registry!Quiet
<1> HIDE DEF lost
<1> QED
  BY <1>1, <1>4, <1>5, <1>6 DEF Registry!Die, Known

\* A descriptor answer replaces the dummy of its address, which no client knew.
LEMMA AnswerStep ==
    ASSUME Hypotheses, ListInv, NEW na \in NwkAddr, NEW ep \in Endpoint, SimpleDescRsp(na, ep)
    PROVE  Registry!Silent \/ Registry!Die
<1> DEFINE S == ByNaEp(db, na, DummyEp)
<1>1. CASE ByNaEp(db, na, AnyEp) = {}
  <2>1. job' = Down /\ db' = db /\ out' = NoMsg /\ Serving
    BY <1>1 DEF SimpleDescRsp, Serving, Idle
  <2> QED
    BY <2>1, DieStep
<1>2. CASE ByNaEp(db, na, AnyEp) # {}
  <2>1. /\ db' = DeleteRecord(db, S) /\ out' = NoMsg
        /\ job.op = "idle" /\ job'.op = "desc"
    BY <1>2 DEF SimpleDescRsp, Idle
  <2>2. db \in Seq(Record) /\ UniqueIn(db)
    BY DEF ListInv, KeysInv, TypeOK
  <2>3. Serving /\ Serving' /\ InFlight = {} /\ InFlight' = {}
    BY <2>1, KnownServing DEF Serving
  <2>4. TableOf(DeleteRecord(db, S)) = TableOf(db)
    <3>1. CASE S = {}
      BY <3>1 DEF DeleteRecord
    <3>2. CASE S # {}
      <4>1. /\ S \subseteq DOMAIN db /\ Readable(db[FirstOf(S)])
            /\ DummyEp \in {AnyEp, db[FirstOf(S)].ep}
        BY <2>2, <3>2, MatchByNaEp, MatchesAreLines
      <4>2. db[FirstOf(S)].ep = DummyEp
        BY <4>1 DEF AnyEp, DummyEp
      <4>3. TableOf(DeleteRecord(db, S)) = TableOf(db) \ EntryOf(db[FirstOf(S)])
        BY <2>2, <3>2, <4>1, TableOfDelete
      <4> QED
        BY <4>2, <4>3 DEF EntryOf
    <3> QED
      BY <3>1, <3>2
  <2>5. TableOf(db)' = TableOf(db)
    BY <2>1, <2>4 DEF TableOf, Listed, Readable
  <2> QED
    BY <2>1, <2>3, <2>5, SilentStep
<1> QED
  BY <1>1, <1>2

\* What the network does to a gateway that serves.
LEMMA NetworkStep ==
    ASSUME Hypotheses, ListInv, Network, Serving
    PROVE  Registry!Silent \/ Registry!Die
<1>1. ASSUME db' = db, job' = job, out' = NoMsg PROVE Registry!Silent
  <2>1. TableOf(db)' = TableOf(db) /\ InFlight' = InFlight /\ Serving'
    BY <1>1 DEF TableOf, Listed, Readable, InFlight, Serving
  <2> QED
    BY <1>1, <2>1, SilentStep
<1>2. ASSUME NEW d \in Ieee, NEW na \in NwkAddr, DeviceAnnce(d, na) PROVE Registry!Silent
  <2>1. /\ db' = AddRecord(db, DummyRecord(d, na)) /\ job' = job /\ out' = NoMsg
    BY <1>2 DEF DeviceAnnce
  <2>2. DummyRecord(d, na) \in Record /\ DummyRecord(d, na).ep = DummyEp /\ db \in Seq(Record)
    BY NameAssumption DEF DummyRecord, Record, ListInv, KeysInv, TypeOK
  <2>3. TableOf(AddRecord(db, DummyRecord(d, na))) = TableOf(db)
    BY <2>2, TableOfAddNothing
  <2>4. TableOf(db)' = TableOf(db) /\ InFlight' = InFlight /\ Serving'
    BY <2>1, <2>3 DEF TableOf, Listed, Readable, InFlight, Serving
  <2> QED
    BY <2>1, <2>4, SilentStep
<1>3. ASSUME NEW na \in NwkAddr, LeaveInd(na) PROVE Registry!Silent
  <2>1. db' = db /\ job.op = "idle" /\ job'.op = "leave" /\ out' = NoMsg
    BY <1>3 DEF LeaveInd, Idle
  <2>2. TableOf(db)' = TableOf(db) /\ InFlight = {} /\ InFlight' = {} /\ Serving'
    BY <2>1, KnownServing DEF TableOf, Listed, Readable, Serving
  <2> QED
    BY <2>1, <2>2, SilentStep
<1>4. ASSUME NEW d \in Ieee, NEW na \in NwkAddr, MissedAnnce(d, na) PROVE FALSE
  BY <1>4 DEF MissedAnnce, Serving, Down
<1>5. ASSUME NEW na \in NwkAddr, NEW ep \in Endpoint, LoseAnswer(na, ep) PROVE Registry!Silent
  BY <1>1, <1>5 DEF LoseAnswer
<1>6. ASSUME NEW na \in NwkAddr, NEW ep \in Endpoint, TouchLinkInd(na, ep) \/ TouchLinkDeath(na, ep)
      PROVE  FALSE
  BY <1>6 DEF TouchLinkInd, TouchLinkDeath, Hypotheses
<1> QED
  BY <1>2, <1>3, <1>4, <1>5, <1>6, AnswerStep DEF Network

\* Whatever happens to a gateway that serves is one step of the registry.
LEMMA ServingStep ==
    ASSUME Hypotheses, ListInv, Next, Serving
    PROVE  Registry!Next
<1>1. CASE StartUp
  <2>1. job.op \in {"down", "copy", "rename"}
    BY <1>1 DEF StartUp, OpenDatabase, CopyLine, DropOriginal, RenameCopy, Down
  <2> QED
    BY <2>1 DEF Serving
<1>2. CASE Crash
  BY <1>2, DieStep DEF Crash, Registry!Next
<1>3. CASE Network
  BY <1>3, NetworkStep DEF Registry!Next
<1>4. CASE Callback
  <2>1. CASE DescribesNew
    <3>1. db' = db /\ job.op = "desc" /\ job'.op = "add" /\ job'.note = "NEW" /\ out' = NoMsg
      BY <2>1 DEF DescribesNew, AddDescribed
    <3>2. TableOf(db)' = TableOf(db) /\ InFlight = {} /\ InFlight' = {} /\ Serving'
      BY <3>1, KnownServing DEF TableOf, Listed, Readable, Serving, InFlight
    <3> QED
      BY <3>1, <3>2, SilentStep DEF Registry!Next
  <2>2. CASE DescribesExisting
    <3>1. db' = db /\ job.op = "desc" /\ job'.op = "idle" /\ out' = NoMsg
      BY <2>2 DEF DescribesExisting, Idle
    <3>2. TableOf(db)' = TableOf(db) /\ InFlight = {} /\ InFlight' = {} /\ Serving'
      BY <3>1, KnownServing DEF TableOf, Listed, Readable, Serving, InFlight
    <3> QED
      BY <3>1, <3>2, SilentStep DEF Registry!Next
  <2>3. CASE DescribesMoved
    BY <2>3, MovingStep DEF Registry!Next
  <2>4. CASE AddDevice
    <3>1. job.note \in {"NEW", "UPDATED", "NONE"}
      <4>1. job \in Job /\ job.op = "add"
        BY <2>4 DEF ListInv, KeysInv, TypeOK, AddDevice
      <4> QED
        BY <4>1, JobFields DEF AddJob
    <3>2. job.note = "NEW" => Registry!Next
      BY <2>4, RegisterStep DEF Registry!Next
    <3>3. job.note = "UPDATED" => Registry!Next
      BY <2>4, MoveStep DEF Registry!Next
    <3>4. job.note = "NONE" => Registry!Next
      BY <2>4, RenamedStep DEF Registry!Next
    <3> QED
      BY <3>1, <3>2, <3>3, <3>4
  <2>5. CASE RemoveNext
    BY <2>5, WithdrawStep DEF Registry!Next
  <2> QED
    BY <1>4, <2>1, <2>2, <2>3, <2>4, <2>5 DEF Callback
<1>5. CASE Client
  BY <1>5, RenamingStep DEF Registry!Next
<1> QED
  BY <1>1, <1>2, <1>3, <1>4, <1>5 DEF Next

\* What happens to a gateway that is down or starting: it comes up with the list
\* it had, and says nothing.
LEMMA StartingStep ==
    ASSUME "gap" \notin Faults, "full" \notin Faults, Hypotheses, ListInv, Next, ~Serving
    PROVE  Registry!Start \/ Registry!Silent
<1>0. job.op \in {"down", "copy", "rename"}
  BY DEF Serving
<1>1. List' = List
  BY RestartStep DEF ListInv, KeysInv
<1>2. StartUp \/ Crash \/ Network
  BY <1>0 DEF Next, Callback, DescribesNew, DescribesExisting, DescribesMoved, AddDevice, RemoveNext,
       Client, ChangeDeviceName, Idle
<1>3. job'.op \notin {"desc", "add", "leave"} /\ out' = NoMsg
  <2>1. CASE StartUp \/ Crash
    BY <2>1 DEF StartUp, OpenDatabase, CopyLine, DropOriginal, RenameCopy, Crash, Idle, Down
  <2>2. CASE Network
    <3>1. job # Idle
      BY <1>0 DEF Idle
    <3>2. job' = job /\ out' = NoMsg
      BY <2>2, <3>1 DEF Network, DeviceAnnce, MissedAnnce, LoseAnswer, SimpleDescRsp, LeaveInd,
           TouchLinkInd, TouchLinkDeath
    <3> QED
      BY <1>0, <3>2
  <2> QED
    BY <1>2, <2>1, <2>2
<1>4. InFlight = {} /\ InFlight' = {}
  BY <1>0, <1>3, KnownServing
<1>5. TableOf(List)' = TableOf(List)
  BY <1>1 DEF TableOf, Listed, Readable
<1>6. Known' = Known
  BY <1>4, <1>5 DEF Known
<1>7. Notice' = Registry!Quiet
  BY <1>3 DEF Notice, NoMsg, Registry!Quiet
<1>8. CASE Serving'
  BY <1>6, <1>7, <1>8 DEF Registry!Start, Known
<1>9. CASE ~Serving'
  <2>1. Serving' = Serving
    BY <1>9 DEF Serving
  <2> QED
    BY <1>6, <1>7, <2>1 DEF Registry!Silent, Known
<1> QED
  BY <1>8, <1>9

\* The client's own steps are none of the registry's.
LEMMA ClientStep ==
    ASSUME Connect \/ GetDevices \/ Disconnect
    PROVE  Registry!Silent
<1>1. db' = db /\ tmp' = tmp /\ job' = job /\ out' = NoMsg
  BY DEF Connect, GetDevices, Disconnect
<1>2. Known' = Known /\ Serving' = Serving
  BY <1>1 DEF Known, List, TableOf, Listed, Readable, InFlight, Serving
<1>3. Notice' = Registry!Quiet
  BY <1>1 DEF Notice, NoMsg, Registry!Quiet
<1> QED
  BY <1>2, <1>3 DEF Registry!Silent, Known

\* The client's steps and stuttering keep the invariant of the list.
LEMMA ListInvStep ==
    ASSUME Hypotheses, ListInv, [GwNext]_gwVars
    PROVE  ListInv'
<1>1. CASE GatewayStep
  BY <1>1, ListInvHolds DEF GatewayStep, Hypotheses
<1>2. CASE Connect \/ GetDevices \/ Disconnect \/ UNCHANGED gwVars
  <2>1. /\ db' = db /\ tmp' = tmp /\ job' = job /\ holder' = holder /\ owed' = owed
        /\ out' = NoMsg \/ out' = out
    BY <1>2 DEF Connect, GetDevices, Disconnect, gwVars
  <2>2. TypeOK'
    BY <2>1 DEF ListInv, KeysInv, TypeOK
  <2>3. CopyIsPrefix'
    BY <2>1 DEF ListInv, KeysInv, CopyIsPrefix
  <2>4. (PairsAssigned /\ UniqueIn(db) /\ UniqueIn(tmp) /\ PendingNotListed)'
    BY <2>1, QuietStep DEF ListInv
  <2>5. AddressIsReadable' /\ JobIsSound'
    BY <2>1 DEF ListInv, AddressIsReadable, JobIsSound
  <2> QED
    BY <2>2, <2>3, <2>4, <2>5 DEF ListInv, KeysInv
<1> QED
  BY <1>1, <1>2 DEF GwNext

LEMMA ListInvariant ==
    ASSUME Hypotheses PROVE GwSpec => []ListInv
<1>1. GwInit => ListInv
  BY ListInvHolds DEF GwInit, Hypotheses
<1>2. ListInv /\ [GwNext]_gwVars => ListInv'
  BY ListInvStep
<1> QED
  BY <1>1, <1>2, PTL DEF GwSpec

\* The device list implements the table its clients are promised (DeviceRegistry):
\* every change of an endpoint is told by one message that says what changed, and
\* the death of the process loses at most the entry a callback has in flight, if
\* it does not fall between removing and renaming and no write of the copy fails.
THEOREM ListKeepsItsPromise ==
    ASSUME Hypotheses, "gap" \notin Faults, "full" \notin Faults
    PROVE  GwSpec => RegistrySpec
<1>1. GwInit => Registry!Init
  <2> SUFFICES ASSUME GwInit PROVE Registry!Init
    OBVIOUS
  <2>1. db = <<>> /\ job = Down /\ out = NoMsg
    BY DEF GwInit, Init
  <2>2. ~Serving /\ List = <<>> /\ InFlight = {}
    BY <2>1 DEF Serving, List, InFlight, Down
  <2>3. TableOf(List) = {}
    BY <2>2 DEF TableOf, Listed
  <2>4. Notice = Registry!Quiet
    BY <2>1 DEF Notice, NoMsg, Registry!Quiet
  <2> QED
    BY <2>2, <2>3, <2>4 DEF Registry!Init
<1>2. ListInv /\ [GwNext]_gwVars => [Registry!Next]_(Registry!vars)
  <2> SUFFICES ASSUME ListInv, [GwNext]_gwVars PROVE [Registry!Next]_(Registry!vars)
    OBVIOUS
  <2>1. CASE GatewayStep
    BY <2>1, ServingStep, StartingStep DEF GatewayStep, Registry!Next
  <2>2. CASE Connect \/ GetDevices \/ Disconnect
    BY <2>2, ClientStep DEF Registry!Next
  <2>3. CASE UNCHANGED gwVars
    BY <2>3 DEF gwVars, Registry!vars, List, TableOf, Listed, Readable, InFlight, Serving, Notice
  <2> QED
    BY <2>1, <2>2, <2>3 DEF GwNext
<1> QED
  BY <1>1, <1>2, ListInvariant, PTL DEF GwSpec, RegistrySpec, Registry!Spec

-----------------------------------------------------------------------------
(* The client's copy. *)

MirrorOf(m) == {<<KeyOf(e), e.na>> : e \in {x \in m : x.ep # DummyEp}}

\* The table of a mirror, by its entries.
LEMMA MirrorLines ==
    /\ MirrorTable = MirrorOf(mirror)
    /\ \A m, x : x \in MirrorOf(m) <=>
         \E e \in m : e.ep # DummyEp /\ x = <<KeyOf(e), e.na>>
BY DEF MirrorTable, MirrorOf, KeyOf

\* What a message does to the table of a mirror (ZigbeeAssistant.newDevice,
\* removeDevice): nothing without a message or if it is about a dummy, else it
\* replaces or takes away what the mirror said about the key.
LEMMA ReceiveEffect ==
    ASSUME NEW m, NEW msg
    PROVE  /\ msg.type = "NONE" => MirrorOf(Receive(m, msg)) = MirrorOf(m)
           /\ msg.type \in {"NEW", "UPDATED", "REMOVED"} /\ msg.rec.ep = DummyEp
                => MirrorOf(Receive(m, msg)) = MirrorOf(m)
           /\ msg.type = "REMOVED" /\ msg.rec.ep # DummyEp
                => MirrorOf(Receive(m, msg)) = But(MirrorOf(m), KeyOf(msg.rec))
           /\ msg.type \in {"NEW", "UPDATED"} /\ msg.rec.ep # DummyEp
                => MirrorOf(Receive(m, msg)) =
                     But(MirrorOf(m), KeyOf(msg.rec)) \cup {<<KeyOf(msg.rec), msg.rec.na>>}
<1> DEFINE r == msg.rec
<1>1. /\ msg.type = "NONE" => Receive(m, msg) = m
      /\ msg.type = "REMOVED" => Receive(m, msg) = Without(m, r)
      /\ msg.type \in {"NEW", "UPDATED"} => Receive(m, msg) = Without(m, r) \cup {Entry(r)}
  BY DEF Receive, Learn
<1>2. Entry(r).ep = r.ep /\ Entry(r).na = r.na /\ KeyOf(Entry(r)) = KeyOf(r)
  BY DEF Entry, KeyOf
<1> HIDE DEF r
<1>3. \A e : SameKey(e, r) <=> KeyOf(e) = KeyOf(r)
  BY DEF SameKey, KeyOf
<1>4. r.ep # DummyEp => MirrorOf(Without(m, r)) = But(MirrorOf(m), KeyOf(r))
  <2>1. \A x : x \in MirrorOf(Without(m, r)) <=>
          \E e \in m : ~SameKey(e, r) /\ e.ep # DummyEp /\ x = <<KeyOf(e), e.na>>
    BY MirrorLines DEF Without
  <2>2. \A x : x \in But(MirrorOf(m), KeyOf(r)) <=>
          \E e \in m : KeyOf(e) # KeyOf(r) /\ e.ep # DummyEp /\ x = <<KeyOf(e), e.na>>
    BY MirrorLines DEF But
  <2> QED
    BY <1>3, <2>1, <2>2
<1>5. r.ep = DummyEp => MirrorOf(Without(m, r)) = MirrorOf(m)
  <2>1. r.ep = DummyEp => \A e : SameKey(e, r) => e.ep = DummyEp
    BY DEF SameKey
  <2>2. \A x : x \in MirrorOf(Without(m, r)) <=>
          \E e \in m : ~SameKey(e, r) /\ e.ep # DummyEp /\ x = <<KeyOf(e), e.na>>
    BY MirrorLines DEF Without
  <2>3. r.ep = DummyEp => \A x : x \in MirrorOf(Without(m, r)) <=> x \in MirrorOf(m)
    BY <2>1, <2>2, MirrorLines
  <2> QED
    BY <2>3
<1>6. \A n : MirrorOf(n \cup {Entry(r)}) =
               MirrorOf(n) \cup (IF r.ep = DummyEp THEN {} ELSE {<<KeyOf(r), r.na>>})
  <2> SUFFICES ASSUME NEW n
               PROVE  MirrorOf(n \cup {Entry(r)}) =
                        MirrorOf(n) \cup (IF r.ep = DummyEp THEN {} ELSE {<<KeyOf(r), r.na>>})
    OBVIOUS
  <2>1. \A x : x \in MirrorOf(n \cup {Entry(r)}) <=>
          \/ x \in MirrorOf(n)
          \/ r.ep # DummyEp /\ x = <<KeyOf(r), r.na>>
    BY <1>2, MirrorLines
  <2> QED
    BY <2>1
<1> QED
  BY <1>1, <1>4, <1>5, <1>6 DEF r

\* A set of line numbers has a last one.
LEMMA LastOf ==
    ASSUME NEW n \in Nat, NEW S, S \subseteq 1..n, S # {}
    PROVE  \E i \in S : \A j \in S : j <= i
<1> DEFINE T == {n - j : j \in S}
<1>0. \A j \in S : j \in Nat /\ n - j \in Nat
  OBVIOUS
<1>1. T \subseteq Nat /\ T # {}
  BY <1>0
<1>2. FirstOf(T) \in T /\ \A k \in T : FirstOf(T) <= k
  BY <1>1, FirstOfProperties
<1>3. PICK i \in S : FirstOf(T) = n - i
  BY <1>2
<1>4. \A j \in S : n - i <= n - j
  BY <1>2, <1>3
<1> QED
  BY <1>0, <1>4

\* A list reply makes the mirror the table of the list (SRPC_getDevices,
\* ZigbeeAssistant.newDevice), if what it knew before is in the list.
LEMMA ListedEffect ==
    ASSUME NEW m, NEW f \in Seq(Record), UniqueIn(f), MirrorOf(m) \subseteq TableOf(f)
    PROVE  MirrorOf(ReceiveList(m, f)) = TableOf(f)
<1> DEFINE Same(r) == {i \in Listed(f) : SameKey(f[i], r)}
           Lasts(r) == {i \in Listed(f) : /\ SameKey(f[i], r)
                                          /\ \A j \in Listed(f) : SameKey(f[j], r) => j <= i}
           Kept == {e \in m : \A i \in Listed(f) : ~SameKey(e, f[i])}
           News == {Entry(f[FirstOf(Lasts(f[i]))]) : i \in Listed(f)}
<1>1. ReceiveList(m, f) = Kept \cup News
  BY DEF ReceiveList
<1>2. Listed(f) \subseteq DOMAIN f /\ DOMAIN f = 1..Len(f) /\ Len(f) \in Nat
  BY LenProperties DEF Listed
<1>3. ASSUME NEW i \in Listed(f)
      PROVE  /\ FirstOf(Lasts(f[i])) \in Listed(f)
             /\ SameKey(f[FirstOf(Lasts(f[i]))], f[i])
  <2>1. i \in Same(f[i]) /\ Same(f[i]) \subseteq 1..Len(f)
    BY <1>2, <1>3 DEF SameKey
  <2>2. PICK k \in Same(f[i]) : \A j \in Same(f[i]) : j <= k
    BY <1>2, <2>1, LastOf
  <2>3. k \in Lasts(f[i]) /\ Lasts(f[i]) \subseteq Nat
    BY <1>2, <2>2
  <2>4. FirstOf(Lasts(f[i])) \in Lasts(f[i])
    BY <2>3, FirstOfProperties
  <2> QED
    BY <2>4
<1>4. ASSUME NEW i \in Listed(f), f[i].ep # DummyEp PROVE FirstOf(Lasts(f[i])) = i
  <2> DEFINE k == FirstOf(Lasts(f[i]))
  <2>1. k \in Listed(f) /\ SameKey(f[k], f[i])
    BY <1>3
  <2> HIDE DEF k
  <2>2. Readable(f[i]) /\ Readable(f[k]) /\ f[k].ep # DummyEp /\ k \in DOMAIN f /\ i \in DOMAIN f
    BY <1>4, <2>1 DEF Listed, SameKey
  <2> QED
    BY <2>1, <2>2 DEF UniqueIn, k
<1> HIDE DEF Lasts
<1>5. MirrorOf(Kept) = {}
  <2> SUFFICES ASSUME NEW e \in Kept, e.ep # DummyEp PROVE FALSE
    BY MirrorLines
  <2>1. <<KeyOf(e), e.na>> \in TableOf(f)
    BY MirrorLines
  <2>2. PICK i \in DOMAIN f : Readable(f[i]) /\ <<KeyOf(e), e.na>> = <<KeyOf(f[i]), f[i].na>>
    BY <2>1, TableLines
  <2>3. SameKey(e, f[i]) /\ i \in Listed(f)
    BY <2>2 DEF KeyOf, SameKey, Listed
  <2> QED
    BY <2>3
<1>6. \A x : x \in MirrorOf(News) <=> x \in TableOf(f)
  <2>1. ASSUME NEW i \in Listed(f)
        PROVE  LET e == Entry(f[FirstOf(Lasts(f[i]))]) IN
                 /\ e.ep = f[i].ep
                 /\ f[i].ep # DummyEp => <<KeyOf(e), e.na>> = <<KeyOf(f[i]), f[i].na>>
    BY <1>3, <1>4, <2>1 DEF Entry, KeyOf, SameKey
  <2>2. \A x : x \in MirrorOf(News) <=>
          \E i \in Listed(f) : f[i].ep # DummyEp /\ x = <<KeyOf(f[i]), f[i].na>>
    BY <2>1, MirrorLines
  <2> QED
    BY <2>2, TableLines DEF Listed
<1>7. \A x : x \in MirrorOf(Kept \cup News) <=> x \in MirrorOf(Kept) \/ x \in MirrorOf(News)
  BY MirrorLines
<1> QED
  BY <1>1, <1>5, <1>6, <1>7

\* While the gateway serves, an endpoint is known at one address.
LEMMA KnownIsFunctional ==
    ASSUME ListInv, Serving
    PROVE  Functional(Known)
<1>1. Functional(TableOf(db)) /\ List = db
  BY UniqueIsFunctional, KnownServing DEF ListInv, KeysInv
<1>2. CASE InFlight = {}
  BY <1>1, <1>2 DEF Known
<1>3. CASE InFlight # {}
  <2>1. job.op = "add" /\ job.rec.ep # DummyEp /\ InFlight = {<<KeyOf(job.rec), job.prev>>}
    BY <1>3 DEF InFlight, KeyOf
  <2>2. But(TableOf(db), KeyOf(job.rec)) = TableOf(db)
    BY <2>1, NotListedNoEntry DEF ListInv, KeysInv, PendingNotListed
  <2> QED
    BY <1>1, <2>1, <2>2 DEF Known, Functional, But
<1> QED
  BY <1>2, <1>3

\* A connected client knows part of the table, and all of it once it has the list.
MirrorFollows ==
    session # "none" =>
      /\ Serving
      /\ MirrorTable \subseteq Known
      /\ session = "synced" => MirrorTable = Known

\* A message that the registry sees says what it says; one it does not see is none
\* or about a dummy.
LEMMA NoticeSays ==
    ASSUME out' \in Msg \cup {NoMsg}
    PROVE  /\ Notice'.type = "NONE" =>
                out'.type = "NONE"
                  \/ (out'.type \in {"NEW", "UPDATED", "REMOVED"} /\ out'.rec.ep = DummyEp)
           /\ Notice'.type # "NONE" =>
                /\ out'.type = Notice'.type /\ out'.type \in {"NEW", "UPDATED", "REMOVED"}
                /\ out'.rec.ep # DummyEp
                /\ Notice'.key = KeyOf(out'.rec) /\ Notice'.addr = out'.rec.na
<1>1. out'.type = "NONE" \/ out'.type \in {"NEW", "UPDATED", "REMOVED"}
  BY DEF Msg, NoMsg
<1>2. CASE out'.type = "NONE"
  BY <1>2 DEF Notice
<1>3. CASE out'.type \in {"NEW", "UPDATED", "REMOVED"} /\ out'.rec.ep = DummyEp
  BY <1>3 DEF Notice
<1>4. CASE out'.type = "UPDATED" /\ out'.rec.ep # DummyEp
  <2>1. Notice' = [type |-> "UPDATED", key |-> KeyOf(out'.rec), addr |-> out'.rec.na, old |-> out'.prev]
    BY <1>4 DEF Notice, KeyOf
  <2> QED
    BY <1>4, <2>1
<1>5. CASE out'.type \in {"NEW", "REMOVED"} /\ out'.rec.ep # DummyEp
  <2>1. Notice' = [type |-> out'.type, key |-> KeyOf(out'.rec), addr |-> out'.rec.na]
    BY <1>5 DEF Notice, KeyOf
  <2> QED
    BY <1>5, <2>1
<1> QED
  BY <1>1, <1>2, <1>3, <1>4, <1>5

\* A gateway that serves goes on or is down.
LEMMA ServesOrDies ==
    ASSUME Next, Serving PROVE Serving' \/ job'.op = "down"
<1>1. CASE StartUp
  <2>1. job.op \in {"down", "copy", "rename"}
    BY <1>1 DEF StartUp, OpenDatabase, CopyLine, DropOriginal, RenameCopy, Down
  <2> QED
    BY <2>1 DEF Serving
<1>2. CASE Crash
  BY <1>2 DEF Crash, Down
<1>3. CASE Network
  <2>1. CASE \E na \in NwkAddr, ep \in Endpoint : SimpleDescRsp(na, ep)
    BY <2>1 DEF SimpleDescRsp, Serving, Down
  <2>2. CASE \E na \in NwkAddr : LeaveInd(na)
    BY <2>2 DEF LeaveInd, Serving
  <2>3. CASE job' = job \/ job' = Down
    BY <2>3 DEF Down, Serving
  <2> QED
    BY <1>3, <2>1, <2>2, <2>3 DEF Network, DeviceAnnce, MissedAnnce, LoseAnswer, TouchLinkInd,
         TouchLinkDeath
<1>4. CASE Callback
  BY <1>4 DEF Callback, DescribesNew, DescribesExisting, DescribesMoved, AddDevice, RemoveNext,
       AddDescribed, Idle, Serving
<1>5. CASE Client
  BY <1>5 DEF Client, ChangeDeviceName, Serving
<1> QED
  BY <1>1, <1>2, <1>3, <1>4, <1>5 DEF Next

\* What a mirror makes of a message is what the message announces.
LEMMA MessageStep ==
    ASSUME Hypotheses, ListInv, ListInv', Next, Serving, Serving',
           mirror' = Receive(mirror, out'), MirrorTable \subseteq Known
    PROVE  /\ MirrorTable' \subseteq Known'
           /\ MirrorTable = Known => MirrorTable' = Known'
<1>1. Registry!Next
  BY ServingStep
<1>2. out' \in Msg \cup {NoMsg}
  BY DEF ListInv, KeysInv, TypeOK
<1>3. MirrorTable = MirrorOf(mirror) /\ MirrorTable' = MirrorOf(Receive(mirror, out'))
  BY MirrorLines DEF MirrorTable, MirrorOf, KeyOf
<1>4. Functional(Known)
  BY KnownIsFunctional
<1>5. CASE Registry!Silent
  <2>1. Known' = Known /\ Notice'.type = "NONE"
    BY <1>5 DEF Registry!Silent, Registry!Quiet, Known
  <2>2. MirrorTable' = MirrorTable
    BY <1>2, <1>3, <2>1, NoticeSays, ReceiveEffect
  <2> QED
    BY <2>1, <2>2
<1>6. ASSUME NEW k \in Ieee \X Endpoint, NEW a \in NwkAddr, Registry!Register(k, a)
      PROVE  /\ MirrorTable' = But(MirrorTable, k) \cup {<<k, a>>}
             /\ Known' = But(Known, k) \cup {<<k, a>>}
  <2>1. /\ \A e \in Known : e[1] # k
        /\ Known' = Known \cup {<<k, a>>}
        /\ Notice' = [type |-> "NEW", key |-> k, addr |-> a]
    BY <1>6 DEF Registry!Register, Known
  <2>2. Notice'.type = "NEW" /\ Notice'.key = k /\ Notice'.addr = a
    BY <2>1
  <2>3. But(Known, k) = Known
    BY <2>1 DEF But
  <2>4. /\ out'.type = "NEW" /\ out'.rec.ep # DummyEp
        /\ KeyOf(out'.rec) = k /\ out'.rec.na = a
    BY <1>2, <2>2, NoticeSays
  <2> QED
    BY <1>3, <2>1, <2>3, <2>4, ReceiveEffect
<1>7. ASSUME NEW k \in Ieee \X Endpoint, NEW a \in NwkAddr, NEW old \in NwkAddr,
             Registry!Move(k, old, a)
      PROVE  /\ MirrorTable' = But(MirrorTable, k) \cup {<<k, a>>}
             /\ Known' = But(Known, k) \cup {<<k, a>>}
  <2>1. /\ <<k, old>> \in Known
        /\ Known' = (Known \ {<<k, old>>}) \cup {<<k, a>>}
        /\ Notice' = [type |-> "UPDATED", key |-> k, addr |-> a, old |-> old]
    BY <1>7 DEF Registry!Move, Known
  <2>2. Notice'.type = "UPDATED" /\ Notice'.key = k /\ Notice'.addr = a
    BY <2>1
  <2>3. But(Known, k) = Known \ {<<k, old>>}
    BY <1>4, <2>1 DEF But, Functional
  <2>4. /\ out'.type = "UPDATED" /\ out'.rec.ep # DummyEp
        /\ KeyOf(out'.rec) = k /\ out'.rec.na = a
    BY <1>2, <2>2, NoticeSays
  <2> QED
    BY <1>3, <2>1, <2>3, <2>4, ReceiveEffect
<1>8. ASSUME NEW k \in Ieee \X Endpoint, NEW a \in NwkAddr, Registry!Withdraw(k, a)
      PROVE  MirrorTable' = But(MirrorTable, k) /\ Known' = But(Known, k)
  <2>1. /\ <<k, a>> \in Known
        /\ Known' = Known \ {<<k, a>>}
        /\ Notice' = [type |-> "REMOVED", key |-> k, addr |-> a]
    BY <1>8 DEF Registry!Withdraw, Known
  <2>2. Notice'.type = "REMOVED" /\ Notice'.key = k
    BY <2>1
  <2>3. But(Known, k) = Known \ {<<k, a>>}
    BY <1>4, <2>1 DEF But, Functional
  <2>4. out'.type = "REMOVED" /\ out'.rec.ep # DummyEp /\ KeyOf(out'.rec) = k
    BY <1>2, <2>2, NoticeSays
  <2> QED
    BY <1>3, <2>1, <2>3, <2>4, ReceiveEffect
<1>9. \A k : But(MirrorTable, k) \subseteq But(Known, k)
  BY DEF But
<1>10. ~Registry!Die /\ ~Registry!Start
  BY DEF Registry!Die, Registry!Start
<1> QED
  BY <1>1, <1>5, <1>6, <1>7, <1>8, <1>9, <1>10 DEF Registry!Next

\* Every step keeps the client's copy in step with the table.
LEMMA MirrorStep ==
    ASSUME Hypotheses, ListInv, ListInv', MirrorFollows, [GwNext]_gwVars
    PROVE  MirrorFollows'
<1>1. CASE GatewayStep
  <2>1. CASE session = "none" \/ job'.op = "down"
    BY <1>1, <2>1 DEF GatewayStep, MirrorFollows
  <2>2. CASE session # "none" /\ job'.op # "down"
    <3>1. Next /\ session' = session /\ mirror' = Receive(mirror, out')
      BY <1>1, <2>2 DEF GatewayStep
    <3>2. /\ Serving /\ MirrorTable \subseteq Known
          /\ session = "synced" => MirrorTable = Known
      BY <2>2 DEF MirrorFollows
    <3>3. Serving'
      BY <2>2, <3>1, <3>2, ServesOrDies
    <3>4. /\ MirrorTable' \subseteq Known'
          /\ MirrorTable = Known => MirrorTable' = Known'
      BY <3>1, <3>2, <3>3, MessageStep
    <3> QED
      BY <3>1, <3>2, <3>3, <3>4 DEF MirrorFollows
  <2> QED
    BY <2>1, <2>2
<1>2. CASE Connect
  <2>1. job' = job /\ job = Idle /\ mirror' = {} /\ session' = "open"
    BY <1>2 DEF Connect
  <2>2. MirrorTable' = {} /\ Serving'
    BY <2>1 DEF MirrorTable, Serving, Idle
  <2> QED
    BY <2>1, <2>2 DEF MirrorFollows
<1>3. CASE GetDevices
  <2>1. /\ job' = job /\ job = Idle /\ db' = db /\ tmp' = tmp /\ session # "none"
        /\ mirror' = ReceiveList(mirror, db)
    BY <1>3 DEF GetDevices
  <2>2. Serving /\ Serving' /\ InFlight = {} /\ List = db
    BY <2>1 DEF Serving, Idle, InFlight, List
  <2>3. Known' = Known /\ Known = TableOf(db)
    BY <2>1, <2>2 DEF Known, List, TableOf, Listed, Readable, InFlight
  <2>4. MirrorOf(mirror) \subseteq TableOf(db)
    BY <2>1, <2>3, MirrorLines DEF MirrorFollows
  <2>5. MirrorOf(ReceiveList(mirror, db)) = TableOf(db)
    BY <2>4, ListedEffect DEF ListInv, KeysInv, TypeOK
  <2>6. MirrorTable' = TableOf(db)
    BY <2>1, <2>5 DEF MirrorTable, MirrorOf, KeyOf
  <2> QED
    BY <2>2, <2>3, <2>6 DEF MirrorFollows
<1>4. CASE Disconnect
  BY <1>4 DEF Disconnect, MirrorFollows
<1>5. CASE UNCHANGED gwVars
  <2>1. Known' = Known /\ MirrorTable' = MirrorTable /\ Serving' = Serving /\ session' = session
    BY <1>5 DEF gwVars, Known, List, TableOf, Listed, Readable, InFlight, MirrorTable, Serving
  <2> QED
    BY <2>1 DEF MirrorFollows
<1> QED
  BY <1>1, <1>2, <1>3, <1>4, <1>5 DEF GwNext

\* A client that has received the list knows exactly the endpoints of the list at
\* their addresses whenever no callback is half done, whatever announces, moves,
\* leaves, renames, crashes and reconnections come before, between and after.
THEOREM ClientKnowsTheList ==
    ASSUME Hypotheses
    PROVE  GwSpec => []MirrorAgrees
<1>1. GwInit => MirrorFollows
  BY DEF GwInit, MirrorFollows
<1>2. ListInv /\ ListInv' /\ MirrorFollows /\ [GwNext]_gwVars => MirrorFollows'
  BY MirrorStep
<1>3. MirrorFollows => MirrorAgrees
  <2> SUFFICES ASSUME MirrorFollows, session = "synced", job = Idle PROVE MirrorTable = TableOf(db)
    BY DEF MirrorAgrees
  <2>1. job.op = "idle"
    BY DEF Idle
  <2>2. List = db /\ InFlight = {}
    BY <2>1 DEF List, InFlight
  <2> QED
    BY <2>2 DEF MirrorFollows, Known
<1> QED
  BY <1>1, <1>2, <1>3, ListInvariant, PTL DEF GwSpec
=============================================================================
