-------------------------- MODULE MCDocumentStore --------------------------
(* Two sessions and two notes. *)
EXTENDS DocumentStore
Alone == {}
Closing == {"close"}
Crashing == {"crash"}
Sessions == Permutations(Session)
============================================================================
