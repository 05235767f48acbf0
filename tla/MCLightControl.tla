--------------------------- MODULE MCLightControl ---------------------------
(* Instance of LightControl: two colour lights, one of them with a high endpoint,
   and a plug, in one group. *)
EXTENDS LightControl

CONSTANTS colour, plug, far

TwoAttributes == <<"state", "hue">>
HasWhat == [l \in Light |-> IF l = plug THEN {"state"} ELSE Attr]
BothIn == [g \in Group |-> Light]
Commands == {[a \in {"state"} |-> 1], [a \in {"hue"} |-> 1]}

\* Each attribute of each light starts once as the application's fields do and
\* once not, and the colour light differs from the others.
MCInit ==
    /\ Init
    /\ \E v \in Value :
          lights = [l \in Light |-> [a \in Attr |-> IF l = colour THEN v ELSE 1 - v]]

MCSpec == MCInit /\ [][Next]_vars
=============================================================================
