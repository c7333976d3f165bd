---------------------------- MODULE MCMailQueue ----------------------------
(***************************************************************************)
(* Small instances of MailQueue for TLC: one Sending Zone, a message with  *)
(* two recipients at one domain, two sender processes of one connection    *)
(* each.  A lock is one or two units of time long, the margin of bodies    *)
(* one to three.                                                           *)
(***************************************************************************)
EXTENDS MailQueue, TLC

CONSTANTS m1, e1, e2, c1, c2, s1, s2, x1

MCMsgOf == [d \in Deliveries |-> m1]
MCDomainOf == [d \in Deliveries |-> x1]
MCClientOf == [s \in Slots |-> IF s = s1 THEN c1 ELSE c2]

\* Entries may be swapped, and a connection together with its process.
Symmetric ==
    Permutations(Deliveries) \cup
    {(s1 :> s2) @@ (s2 :> s1) @@ (c1 :> c2) @@ (c2 :> c1)}

SwapEntries == Permutations(Deliveries)

\* No limit, and a limit of one connection to the domain.
MCUnlimited == [z \in {Zone} |-> [x \in Domains |-> 0]]
MCOne == [z \in {Zone} |-> [x \in Domains |-> 1]]
=============================================================================
