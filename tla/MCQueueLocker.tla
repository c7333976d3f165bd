--------------------------- MODULE MCQueueLocker ---------------------------
(***************************************************************************)
(* Small instances of QueueLocker for TLC.                                 *)
(***************************************************************************)
EXTENDS QueueLocker

CONSTANTS k1, k2, o1, o2, z1, d1, d2, d3

MCTtls == {1, 2}

\* d1 takes one connection at a time, d2 two and d3 any number.
MCMaxConnections ==
    [z \in Zones |-> [d \in Domains |-> CASE d = d1 -> 1 [] d = d2 -> 2 [] d = d3 -> 0]]
=============================================================================
