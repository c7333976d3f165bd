---------------------------- MODULE FrameChannel ----------------------------
(***************************************************************************)
(* What one direction of a connection between the master and a child       *)
(* promises to those who use it: the frames that one side sends reach the  *)
(* handler of the other side whole, in order and once each.                *)
(***************************************************************************)
EXTENDS Naturals

CONSTANT Frames     \* how many frames are sent at most

VARIABLES
    sent,   \* how many frames have been sent
    got     \* the number of the last one that was handed over

vars == <<sent, got>>

Init == sent = 0 /\ got = 0

Send ==
    /\ sent < Frames
    /\ sent' = sent + 1
    /\ UNCHANGED got

Receive ==
    /\ got < sent
    /\ got' = got + 1
    /\ UNCHANGED sent

Next == Send \/ Receive

Spec == Init /\ [][Next]_vars
=============================================================================
