---------------------------- MODULE MCDeviceList ----------------------------
(* The device list for TLC with what the network may do to it: one device    *)
(* may be given any address, a second one the first of them, also while the  *)
(* records of the other still carry it, and TouchLink reports one endpoint.  *)
EXTENDS DeviceList

CONSTANTS d1, d2, a1, a2, a3

MCAssign == ({d1} \X NwkAddr) \cup {<<d2, a1>>}
MCTouchLinked == {<<a1, 1>>}
=============================================================================
