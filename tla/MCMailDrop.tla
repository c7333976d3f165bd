------------------------------ MODULE MCMailDrop ------------------------------
(***************************************************************************)
(* Two messages that one receiver process takes in at the same time.       *)
(***************************************************************************)
EXTENDS MailDrop

CONSTANTS m1, m2, r1

MCReceiver == [m \in Messages |-> r1]
=============================================================================
