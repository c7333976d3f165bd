---------------------------- MODULE MCBlacklist ----------------------------
(* Two addresses for one domain, of which none is, or the second domain's *)
(* first address is, disabled by the configuration; one other key.        *)
EXTENDS Blacklist

CONSTANTS d1, d2, a1, a2

MCConfigured == [d \in Domains |-> IF d = d2 THEN {a1} ELSE {}]
=============================================================================
