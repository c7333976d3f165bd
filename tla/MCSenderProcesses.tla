------------------------- MODULE MCSenderProcesses -------------------------
(* As many children as the chains can have at one time, so that a fork never *)
(* waits for one of the bound.                                               *)
EXTENDS SenderProcesses

MCChildren == 1..(NumZones * Processes + MaxFailures + 2)
=============================================================================
