------------------------ MODULE MCLocalTransaction ------------------------
(* Two notes and two values; outside edits only between transactions. *)
EXTENDS LocalTransaction
NothingOutside == {}
EditsOutside == {"edit"}
============================================================================
