--------------------------- MODULE DeviceRegistry ---------------------------
(***************************************************************************)
(* What the device list promises its clients: a table with one network     *)
(* address per endpoint of a device, every change of which is announced by *)
(* one message that says what changed, and of which a crash loses at most  *)
(* one endpoint, the one being moved, renamed or removed.                  *)
(***************************************************************************)
EXTENDS Naturals

CONSTANTS Key,    \* endpoints of devices: pairs of IEEE address and endpoint
          Addr    \* network addresses

VARIABLES table,  \* the set of <<key, address>> the gateway knows
          up,     \* the gateway is running
          note    \* the message of the last step

vars == <<table, up, note>>

Quiet == [type |-> "NONE"]

Init == table = {} /\ ~up /\ note = Quiet

Register(k, a) ==
    /\ up /\ up'
    /\ \A e \in table : e[1] # k
    /\ table' = table \cup {<<k, a>>}
    /\ note' = [type |-> "NEW", key |-> k, addr |-> a]

\* The message names the address the endpoint had.
Move(k, old, a) ==
    /\ up /\ up'
    /\ <<k, old>> \in table /\ old # a
    /\ table' = (table \ {<<k, old>>}) \cup {<<k, a>>}
    /\ note' = [type |-> "UPDATED", key |-> k, addr |-> a, old |-> old]

Withdraw(k, a) ==
    /\ up /\ up'
    /\ <<k, a>> \in table
    /\ table' = table \ {<<k, a>>}
    /\ note' = [type |-> "REMOVED", key |-> k, addr |-> a]

Die ==
    /\ up /\ ~up'
    /\ \E lost \in SUBSET table :
         /\ \A e, f \in lost : e = f
         /\ table' = table \ lost
    /\ note' = Quiet

Start == ~up /\ up' /\ note' = Quiet /\ UNCHANGED table

\* A step that is none of the clients' business.
Silent == note' = Quiet /\ UNCHANGED <<table, up>>

Next ==
    \/ \E k \in Key, a \in Addr : Register(k, a) \/ Withdraw(k, a)
    \/ \E k \in Key, a, old \in Addr : Move(k, old, a)
    \/ Die \/ Start \/ Silent

Spec == Init /\ [][Next]_vars
=============================================================================
