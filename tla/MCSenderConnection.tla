------------------------- MODULE MCSenderConnection --------------------------
(***************************************************************************)
(* A small instance of SenderConnection for TLC: the deliveries go to one  *)
(* destination, and their connections may be used twice.                   *)
(***************************************************************************)
EXTENDS SenderConnection

CONSTANTS h1, h2

MCKey == [d \in Deliveries |-> "key"]
MCHosts == [d \in Deliveries |-> IF d = 1 THEN {h1, h2} ELSE {h1}]
=============================================================================
