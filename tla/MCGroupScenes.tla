--------------------------- MODULE MCGroupScenes ---------------------------
(* Instance of GroupScenes: lights differ in nothing the gateway looks at. *)
EXTENDS GroupScreens, TLC

Lights == Permutations(Member)
=============================================================================
