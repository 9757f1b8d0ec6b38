--------------------------- MODULE AtomicCapture ---------------------------
(***************************************************************************)
(* What a device promises about capturing edits for sync: a captured edit   *)
(* is one transition of live storage, the change log and the cursor.  The   *)
(* log is this device's own chain of changes; position i is sequence i.     *)
(***************************************************************************)
EXTENDS Naturals, Sequences, SequencesExt

CONSTANTS Note, Value, None

VARIABLES
  live,    \* each note's highest stored revision and its value, None when deleted
  log,     \* the device's chain of changes
  cursor   \* the change each note's live value comes from, 0 when there is none

Absent == [rev |-> 0, val |-> None]

\* The position of the last entry about n, 0 when there is none.
LastOn(seq, n) == SelectLastInSeq(seq, LAMBDA e : e.note = n)

Init ==
  /\ live \in [Note -> {Absent} \cup [rev : {1}, val : Value]]
  /\ log = << >>
  /\ cursor = [n \in Note |-> 0]

\* A batch of changes: the log grows, and every note it names takes the value and the
\* cursor of its last change.  No other note moves.
Commit ==
  /\ Len(log') > Len(log)
  /\ SubSeq(log', 1, Len(log)) = log
  /\ \A n \in Note :
       LET last == LastOn(log', n) IN
       IF last > Len(log)
       THEN cursor'[n] = last /\ live'[n].val = log'[last].val
       ELSE cursor'[n] = cursor[n] /\ live'[n] = live[n]

\* A session without sync edits storage; capture comes later.
NativeEdit ==
  /\ \E n \in Note : \E s \in {live'[n]} : live' = [live EXCEPT ![n] = s]
  /\ UNCHANGED <<log, cursor>>

\* A change recorded in the log alone (the sync append command).
Record ==
  /\ Len(log') = Len(log) + 1
  /\ SubSeq(log', 1, Len(log)) = log
  /\ UNCHANGED <<live, cursor>>

Next == Commit \/ NativeEdit \/ Record

Spec == Init /\ [][Next]_<<live, log, cursor>>
============================================================================
