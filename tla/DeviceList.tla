----------------------------- MODULE DeviceList -----------------------------
(***************************************************************************)
(* The gateway's device list: the file interface_devicelist.c keeps through*)
(* SimpleDB, the ZigBee callbacks of zbController.c that change it, the    *)
(* rename request of a client (SRPC_changeDeviceName), the consolidation   *)
(* at start-up, and process death between any two writes.                  *)
(*                                                                         *)
(* The process has one thread and runs one callback at a time.  A callback *)
(* that writes the file more than once is one action per write: job says   *)
(* what is left of it, and a crash in between leaves what was written.     *)
(***************************************************************************)
EXTENDS RecordFile

CONSTANTS Ieee,            \* IEEE addresses of the ZigBee devices
          NwkAddr,         \* 16-bit network addresses
          Endpoint,        \* endpoints that devices report, in 1..254
          Name,            \* device names
          NoName,          \* the empty name, a NULL deviceName
          Garbage,         \* IEEE bytes nobody assigned
          NoDevice,        \* nobody holds this network address
          UnreadableAddr,  \* network addresses the record parser rejects
          UnreadableName,  \* names whose record the parser rejects
          Assign,          \* which network address a device may be given
          TouchLinked,     \* <<address, endpoint>> a TouchLink may report
          Faults,          \* of "crash", "gap", "full" and "missed": see Crash,
                           \* CopyDone and MissedAnnce
          MaxLines         \* bound: no new record beyond this many lines

ASSUME EndpointAssumption == Endpoint \subseteq 1..254
ASSUME NameAssumption == NoName \in Name /\ UnreadableName \subseteq Name
ASSUME AddressAssumption == /\ UnreadableAddr \subseteq NwkAddr
                            /\ Assign \subseteq Ieee \X NwkAddr
                            /\ TouchLinked \subseteq NwkAddr \X Endpoint
ASSUME NobodyAssumption == Garbage \notin Ieee /\ NoDevice \notin Ieee
ASSUME BoundAssumption == MaxLines \in Nat

VARIABLES db,      \* the lines of the file under the list's name
          tmp,     \* the lines of the file under the name with ".tmp"
          job,     \* what the process is in the middle of
          out,     \* the SRPC_NEW_DEVICE message of the last step, if any
          holder,  \* network: who holds each address
          owed     \* network: simple descriptors asked for, not yet answered

vars == <<db, tmp, job, out, holder, owed>>

DummyEp == 0       \* the endpoint of the record a device announce leaves
AnyEp   == 255     \* wildcard of devListCheckKeyNaEp

Record == [ieee : Ieee \cup {Garbage}, na : NwkAddr,
           ep : Endpoint \cup {DummyEp}, name : Name]

\* SRPC_SendEpInfo's message.  The code sets prevNwkAddr for UPDATED only: prev
\* means nothing in the others.
NoMsg == [type |-> "NONE"]
Msg == [type : {"NEW", "UPDATED", "REMOVED"}, rec : Record, prev : NwkAddr]

-----------------------------------------------------------------------------
(* Searching the list. *)

\* devListParseRecord accepts the line.  A line it rejects is marked as bad on
\* disk, matches no key, is skipped by every reader and survives consolidation.
Readable(r) == r.na \notin UnreadableAddr /\ r.name \notin UnreadableName

Rejected(f) == Selected(f, {i \in DOMAIN f : ~Readable(f[i])})

\* Mutant: a rejected line still matches.
ByNaEpRejected(f, na, ep) ==
    {i \in DOMAIN f : f[i].na = na /\ ep \in {AnyEp, f[i].ep}}

\* Mutant: the address is not compared.
ByNaEpAnyAddress(f, na, ep) == {i \in DOMAIN f : Readable(f[i]) /\ ep \in {AnyEp, f[i].ep}}

ByNaEp(f, na, ep) ==
    {i \in DOMAIN f : Readable(f[i]) /\ f[i].na = na /\ ep \in {AnyEp, f[i].ep}}

ByIeeeEp(f, ieee, ep) ==
    {i \in DOMAIN f : Readable(f[i]) /\ f[i].ieee = ieee /\ f[i].ep = ep}

-----------------------------------------------------------------------------
(* What the process does next. *)

Idle == [op |-> "idle"]
Down == [op |-> "down"]

DescJob == [op : {"desc"}, ieee : Ieee \cup {Garbage}, na : NwkAddr, ep : Endpoint]
AddJob == [op : {"add"}, rec : Record, note : {"NEW", "UPDATED", "NONE"},
           prev : NwkAddr]
LeaveJob == [op : {"leave"}, na : NwkAddr]

Job == [op : {"idle", "down", "copy", "rename"}] \cup DescJob \cup AddJob \cup LeaveJob

Serving == job.op \notin {"down", "copy", "rename"}

TypeOK ==
    /\ db \in Seq(Record)
    /\ tmp \in Seq(Record)
    /\ job \in Job
    /\ out \in Msg \cup {NoMsg}
    /\ holder \in [NwkAddr -> Ieee \cup {NoDevice}]
    /\ owed \subseteq NwkAddr \X Endpoint

Init ==
    /\ db = <<>>
    /\ tmp = <<>>
    /\ job = Down
    /\ out = NoMsg
    /\ holder = [a \in NwkAddr |-> NoDevice]
    /\ owed = {}

Room == Len(db) < MaxLines

-----------------------------------------------------------------------------
(* Start-up: devListInitDatabase, that is sdb_init_db and sdb_consolidate_db. *)

\* Open the file, creating an empty one if the name is gone; remove an old
\* ".tmp" and open a new one.
OpenDatabase ==
    /\ job = Down
    /\ tmp' = <<>>
    /\ job' = [op |-> "copy"]
    /\ out' = NoMsg
    /\ UNCHANGED <<db, holder, owed>>

CopyLine ==
    /\ job.op = "copy"
    /\ Len(tmp) < Len(db)
    /\ tmp' = CopyNext(db, tmp)
    /\ out' = NoMsg
    /\ UNCHANGED <<db, job, holder, owed>>

\* The copy loop is over: at the end of the original or, with the fault
\* "full", because a write failed.  Either way the original is removed.
CopyDoneEarly == Len(tmp) + 1 >= Len(db)    \* mutant: stops a line short

CopyDone == Len(tmp) = Len(db) \/ "full" \in Faults

DropOriginal ==
    /\ job.op = "copy"
    /\ CopyDone
    /\ db' = <<>>
    /\ job' = [op |-> "rename"]
    /\ out' = NoMsg
    /\ UNCHANGED <<tmp, holder, owed>>

RenameCopy ==
    /\ job.op = "rename"
    /\ db' = tmp
    /\ tmp' = <<>>
    /\ job' = Idle
    /\ out' = NoMsg
    /\ UNCHANGED <<holder, owed>>

\* The process dies: between two writes of a callback or of the start-up
\* (fault "crash"), or with the original removed and the copy not yet renamed
\* (fault "gap").  Every completed write is on disk: each ends with a flush.
Crash ==
    /\ job # Down
    /\ IF job.op = "rename" THEN "gap" \in Faults ELSE "crash" \in Faults
    /\ job' = Down
    /\ out' = NoMsg
    /\ UNCHANGED <<db, tmp, holder, owed>>

-----------------------------------------------------------------------------
(* Device announce: newDevIndicationCb. *)

\* The network gives device d the address na, free or held by a device that
\* has gone silently.  The ZigBee processor reports it and asks for the
\* descriptors of the device's endpoints.
Join(d, na) ==
    /\ <<d, na>> \in Assign
    /\ holder' = [a \in NwkAddr |-> IF a = na THEN d
                                    ELSE IF holder[a] = d THEN NoDevice
                                    ELSE holder[a]]
    /\ owed' = owed \cup ({na} \X Endpoint)

\* Mutant: the wildcard instead of endpoint 0.
DummyRecordAnyEp(d, na) == [ieee |-> d, na |-> na, ep |-> AnyEp, name |-> NoName]

DummyRecord(d, na) == [ieee |-> d, na |-> na, ep |-> DummyEp, name |-> NoName]

DeviceAnnce(d, na) ==
    /\ job = Idle
    /\ Room
    /\ Join(d, na)
    /\ db' = AddRecord(db, DummyRecord(d, na))
    /\ out' = NoMsg
    /\ UNCHANGED <<tmp, job>>

\* The announce arrives while no process reads the serial line (fault
\* "missed"); the descriptors may arrive later.
MissedAnnce(d, na) ==
    /\ job = Down
    /\ "missed" \in Faults
    /\ Join(d, na)
    /\ out' = NoMsg
    /\ UNCHANGED <<db, tmp, job>>

\* A descriptor request or its answer is lost over the air.
LoseAnswer(na, ep) ==
    /\ <<na, ep>> \in owed
    /\ owed' = owed \ {<<na, ep>>}
    /\ out' = NoMsg
    /\ UNCHANGED <<db, tmp, job, holder>>

-----------------------------------------------------------------------------
(* Simple descriptor answer: zdoSimpleDescRspCb. *)

\* The IEEE address is that of the first record of this network address, and
\* one dummy record of the address goes.  Without any record the callback
\* copies from a NULL pointer and the process dies.
SimpleDescRsp(na, ep) ==
    /\ job = Idle
    /\ Room
    /\ <<na, ep>> \in owed
    /\ owed' = owed \ {<<na, ep>>}
    /\ LET known == ByNaEp(db, na, AnyEp) IN
         IF known = {}
           THEN /\ job' = Down
                /\ UNCHANGED db
           ELSE /\ db' = DeleteRecord(db, ByNaEp(db, na, DummyEp))
                /\ job' = [op |-> "desc", ieee |-> db[FirstOf(known)].ieee,
                           na |-> na, ep |-> ep]
    /\ out' = NoMsg
    /\ UNCHANGED <<tmp, holder>>

\* The endpoint as the answer describes it: it carries no name.
Described == [ieee |-> job.ieee, na |-> job.na, ep |-> job.ep, name |-> NoName]

SameEndpointHere == ByNaEp(db, job.na, job.ep)   \* mutant: looks up by address

SameEndpoint == ByIeeeEp(db, job.ieee, job.ep)

OldAddressIgnored == job.na                      \* mutant: a move goes unnoticed

OldAddress == db[FirstOf(SameEndpoint)].na

AnyOldRecord == ByNaEp(db, OldAddress, AnyEp)    \* mutant: any endpoint will do

\* The records of the endpoint at its old address, looked up by that address.
OldRecord == ByNaEp(db, OldAddress, job.ep)

\* Mutant: the message names the new address as the old one.
AddDescribedHere(note, prev) ==
    [op |-> "add", rec |-> Described, note |-> note, prev |-> job.na]

\* The record is to be added and the clients are to be told.
AddDescribed(note, prev) ==
    [op |-> "add", rec |-> Described, note |-> note, prev |-> prev]

\* The endpoint is not in the list yet.
DescribesNew ==
    /\ job.op = "desc"
    /\ SameEndpoint = {}
    /\ job' = AddDescribed("NEW", job.na)
    /\ out' = NoMsg
    /\ UNCHANGED <<db, tmp, holder, owed>>

\* It is in the list at this network address: nothing else is compared.
DescribesExisting ==
    /\ job.op = "desc"
    /\ SameEndpoint # {}
    /\ OldAddress = job.na
    /\ job' = Idle
    /\ out' = NoMsg
    /\ UNCHANGED <<db, tmp, holder, owed>>

\* It is in the list at another address: the old record goes.
DescribesMoved ==
    /\ job.op = "desc"
    /\ SameEndpoint # {}
    /\ OldAddress # job.na
    /\ db' = DeleteRecord(db, OldRecord)
    /\ job' = AddDescribed("UPDATED", OldAddress)
    /\ out' = NoMsg
    /\ UNCHANGED <<tmp, holder, owed>>

\* devListAddDevice, then SRPC_SendEpInfo to every client.  A rename adds its
\* record without a message.
AddDevice ==
    /\ job.op = "add"
    /\ db' = AddRecord(db, job.rec)
    /\ out' = IF job.note = "NONE" THEN NoMsg
              ELSE [type |-> job.note, rec |-> job.rec, prev |-> job.prev]
    /\ job' = Idle
    /\ UNCHANGED <<tmp, holder, owed>>

-----------------------------------------------------------------------------
(* Leave indication: zdoLeaveIndCb removes record after record. *)

\* The device at na leaves the network and says so.
LeaveInd(na) ==
    /\ job = Idle
    /\ holder[na] # NoDevice
    /\ holder' = [holder EXCEPT ![na] = NoDevice]
    /\ job' = [op |-> "leave", na |-> na]
    /\ out' = NoMsg
    /\ UNCHANGED <<db, tmp, owed>>

RemoveNext ==
    /\ job.op = "leave"
    /\ LET left == ByNaEp(db, job.na, AnyEp) IN
         IF left = {}
           THEN /\ job' = Idle
                /\ out' = NoMsg
                /\ UNCHANGED db
           ELSE /\ db' = DeleteRecord(db, left)
                /\ out' = [type |-> "REMOVED", rec |-> db[FirstOf(left)],
                           prev |-> job.na]
                /\ UNCHANGED job
    /\ UNCHANGED <<tmp, holder, owed>>

-----------------------------------------------------------------------------
(* Rename request of a client: SRPC_changeDeviceName. *)

\* The record goes, and comes back at the end of the file with the new name.
\* No message tells the other clients.
ChangeDeviceName(na, ep, name) ==
    /\ job = Idle
    /\ LET named == ByNaEp(db, na, ep) IN
         /\ named # {}
         /\ db' = DeleteRecord(db, named)
         /\ job' = [op |-> "add", note |-> "NONE", prev |-> na,
                    rec |-> [db[FirstOf(named)] EXCEPT !.name = name]]
    /\ out' = NoMsg
    /\ UNCHANGED <<tmp, holder, owed>>

-----------------------------------------------------------------------------
(* TouchLink indication: tlIndicationCb. *)

\* processRpcSysAppTlInd sets neither the IEEE address nor the name of the
\* record: both are whatever the stack held.  The record is added without a
\* look at the list.
TouchLinkInd(na, ep) ==
    /\ job = Idle
    /\ Room
    /\ <<na, ep>> \in TouchLinked
    /\ \E x \in Ieee \cup {Garbage}, n \in Name :
         LET rec == [ieee |-> x, na |-> na, ep |-> ep, name |-> n] IN
           /\ db' = AddRecord(db, rec)
           /\ out' = [type |-> "NEW", rec |-> rec, prev |-> na]
    /\ UNCHANGED <<tmp, job, holder, owed>>

\* The name pointer is wild and reading it kills the process.
TouchLinkDeath(na, ep) ==
    /\ job = Idle
    /\ <<na, ep>> \in TouchLinked
    /\ job' = Down
    /\ out' = NoMsg
    /\ UNCHANGED <<db, tmp, holder, owed>>

-----------------------------------------------------------------------------
StartUp == OpenDatabase \/ CopyLine \/ DropOriginal \/ RenameCopy

Network ==
    \/ \E d \in Ieee, na \in NwkAddr : DeviceAnnce(d, na) \/ MissedAnnce(d, na)
    \/ \E na \in NwkAddr, ep \in Endpoint : LoseAnswer(na, ep)
    \/ \E na \in NwkAddr, ep \in Endpoint : SimpleDescRsp(na, ep)
    \/ \E na \in NwkAddr : LeaveInd(na)
    \/ \E na \in NwkAddr, ep \in Endpoint :
         TouchLinkInd(na, ep) \/ TouchLinkDeath(na, ep)

Callback ==
    DescribesNew \/ DescribesExisting \/ DescribesMoved \/ AddDevice \/ RemoveNext

Client ==
    \E na \in NwkAddr, ep \in Endpoint \cup {DummyEp, AnyEp}, name \in Name :
       ChangeDeviceName(na, ep, name)

Next == StartUp \/ Crash \/ Network \/ Callback \/ Client

Spec == Init /\ [][Next]_vars
-----------------------------------------------------------------------------
(* Correctness. *)

SameKey(r, s) == r.ieee = s.ieee /\ r.ep = s.ep

UniqueIn(f) ==
    \A i, j \in DOMAIN f :
       /\ Readable(f[i]) /\ Readable(f[j])
       /\ f[i].ep # DummyEp
       /\ SameKey(f[i], f[j])
       => i = j

\* At most one readable record for an endpoint of a device, whatever the order
\* of announces, answers, moves, renames, leaves and crashes: the callbacks
\* look up before they add (zbController.c:229, 253-255), over several writes.
UniqueEndpoint == UniqueIn(db)

\* The list, wherever start-up has put it.
List == IF job.op = "rename" THEN tmp ELSE db

\* "devListInitDatabase - restore device list from file": no crash and no
\* start-up step changes the list the callbacks left, although start-up copies
\* it to another file, removes it and renames the copy (SimpleDB.c:265-293).
RestartKeepsList == [][~Serving \/ ~Serving' => List' = List]_vars

\* A line the parser rejects stays for whoever repairs it by hand: records are
\* deleted around it, and the list is copied, but it is never deleted, and the
\* order of such lines never changes (SimpleDB.c:261, 182-206).
UnreadableKept == [][IsPrefix(Rejected(List), Rejected(List'))]_vars

\* Who is said to be where, in the list or in the callback at work.
Pairings ==
    {<<r.ieee, r.na>> : r \in ToSet(List)}
      \cup (IF job.op = "desc" THEN {<<job.ieee, job.na>>}
            ELSE IF job.op = "add" THEN {<<job.rec.ieee, job.rec.na>>} ELSE {})

\* The IEEE address of an answer is that of the first record of its network
\* address (zbController.c:218-223), which may be another device's when the
\* address has been given again.  Even so a device is only ever said to be at
\* an address it has itself announced, but for what a TouchLink reports.
PairingsWereAnnounced ==
    [][Pairings' \subseteq Pairings
         \cup {<<holder'[na], na>> : na \in NwkAddr}
         \cup (IF job = Idle /\ out'.type = "NEW"
                 THEN {<<out'.rec.ieee, out'.rec.na>>} ELSE {})]_vars

\* A process that serves goes on serving: no answer from the network finds the
\* list without the record its callback needs (zbController.c:218-221).
AnswersFindRecord == [][Serving => Serving']_vars

\* When an answer has been handled, its endpoint is in the list at the address
\* it was answered from.
AnsweredIsListed ==
    [][/\ job.op = "desc" \/ (job.op = "add" /\ job.note # "NONE")
       /\ job' = Idle
       =>
         LET r == IF job.op = "desc" THEN Described ELSE job.rec IN
           \E i \in DOMAIN db' : /\ Readable(db'[i])
                                 /\ SameKey(db'[i], r)
                                 /\ db'[i].na = r.na]_vars
=============================================================================
