------------------------- MODULE MCObjectLifecycle -------------------------
(* Two sessions, one canvas and an attachment of two chunks.                                   *)
EXTENDS ObjectLifecycle, TLC

MCPolicies == {Unlimited, [keep |-> 1, days |-> FALSE], [keep |-> None, days |-> TRUE]}
MCSymmetry == Permutations(Session)
=============================================================================
