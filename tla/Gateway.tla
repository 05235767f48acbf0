------------------------------ MODULE Gateway -------------------------------
(***************************************************************************)
(* The gateway and one of its clients: the device list of DeviceList and   *)
(* the copy of it that ZigbeeAssistant.java builds from the messages it is *)
(* sent.  The connection delivers in order and loses nothing while both    *)
(* ends live (what a failed write does to it is module SocketServer).      *)
(***************************************************************************)
EXTENDS DeviceList

VARIABLES mirror,   \* ourDevices: [ieee, ep, na], the devices the client knows
          session   \* "none", "open" (connected), "synced" (list received)

gwVars == <<db, tmp, job, out, holder, owed, mirror, session>>

Entry(r) == [ieee |-> r.ieee, ep |-> r.ep, na |-> r.na]

Without(m, r) == {e \in m : ~SameKey(e, r)}

\* ZigbeeAssistant.newDevice: devices are found by IEEE address and endpoint.
Learn(m, r) == Without(m, r) \cup {Entry(r)}

Receive(m, msg) ==
    CASE msg.type = "NONE" -> m
      [] msg.type = "REMOVED" -> Without(m, msg.rec)
      [] OTHER -> Learn(m, msg.rec)

\* The SRPC_getDevices reply: every readable record as EXISTING, in file order.
Listed(f) == {i \in DOMAIN f : Readable(f[i])}

ReceiveList(m, f) ==
    LET last(r) == FirstOf({i \in Listed(f) :
                     /\ SameKey(f[i], r)
                     /\ \A j \in Listed(f) : SameKey(f[j], r) => j <= i})
    IN  {e \in m : \A i \in Listed(f) : ~SameKey(e, f[i])}
          \cup {Entry(f[last(f[i])]) : i \in Listed(f)}

GwInit == Init /\ mirror = {} /\ session = "none"

\* A step of the gateway or of the network; when the gateway dies so does the
\* connection.  What a client without a connection still shows is dropped at
\* once: a new connection starts with the empty list anyway.
GatewayStep ==
    /\ Next
    /\ IF session = "none" \/ job'.op = "down"
         THEN session' = "none" /\ mirror' = {}
         ELSE UNCHANGED session /\ mirror' = Receive(mirror, out')

\* The application starts with an empty list and connects; then it asks.
Connect ==
    /\ job = Idle
    /\ session = "none"
    /\ session' = "open"
    /\ mirror' = {}
    /\ out' = NoMsg
    /\ UNCHANGED <<db, tmp, job, holder, owed>>

GetDevices ==
    /\ job = Idle
    /\ session # "none"
    /\ session' = "synced"
    /\ mirror' = ReceiveList(mirror, db)
    /\ out' = NoMsg
    /\ UNCHANGED <<db, tmp, job, holder, owed>>

Disconnect ==
    /\ session # "none"
    /\ session' = "none"
    /\ mirror' = {}
    /\ out' = NoMsg
    /\ UNCHANGED <<db, tmp, job, holder, owed>>

GwNext == GatewayStep \/ Connect \/ GetDevices \/ Disconnect

GwSpec == GwInit /\ [][GwNext]_gwVars
-----------------------------------------------------------------------------
(* Correctness. *)

\* Records as table entries of DeviceRegistry, the dummies left out.
TableOf(f) == {<<<<f[i].ieee, f[i].ep>>, f[i].na>> :
                 i \in {j \in Listed(f) : f[j].ep # DummyEp}}

MirrorTable == {<<<<e.ieee, e.ep>>, e.na>> : e \in {x \in mirror : x.ep # DummyEp}}

\* The record a callback has removed and is about to put back.
InFlight ==
    IF job.op = "add" /\ job.rec.ep # DummyEp /\ job.note # "NEW"
      THEN {<<<<job.rec.ieee, job.rec.ep>>, job.prev>>}
      ELSE {}

\* A synced client knows exactly the endpoints of the list, at their addresses,
\* whenever no callback is half done: a list reply that overlaps with
\* announces, moves and leaves loses and invents nothing.
MirrorAgrees == session = "synced" /\ job = Idle => MirrorTable = TableOf(db)

Notice ==
    IF out.type = "NONE" THEN [type |-> "NONE"]
    ELSE IF out.rec.ep = DummyEp THEN [type |-> "NONE"]
    ELSE IF out.type = "UPDATED"
      THEN [type |-> "UPDATED", key |-> <<out.rec.ieee, out.rec.ep>>,
            addr |-> out.rec.na, old |-> out.prev]
    ELSE [type |-> out.type, key |-> <<out.rec.ieee, out.rec.ep>>,
          addr |-> out.rec.na]

\* The device list implements the table its clients are promised.
Registry == INSTANCE DeviceRegistry
              WITH Key <- Ieee \X Endpoint, Addr <- NwkAddr,
                   table <- TableOf(List) \cup InFlight,
                   up <- Serving, note <- Notice

RegistrySpec == Registry!Spec
=============================================================================
