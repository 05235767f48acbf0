----------------------------- MODULE MCGateway ------------------------------
(* The gateway and a client for TLC: a device with two endpoints that can    *)
(* move between two network addresses.                                       *)
EXTENDS Gateway

CONSTANTS d1, a1, a2

MCAssign == {<<d1, a1>>, <<d1, a2>>}
=============================================================================
