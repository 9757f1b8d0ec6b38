-------------------------- MODULE MCSyncReplicas --------------------------
(* Two devices and three changes of one note. *)
EXTENDS SyncReplicas
Ids == 1 .. 3
NothingOutside == {}
============================================================================
