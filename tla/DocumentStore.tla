--------------------------- MODULE DocumentStore ---------------------------
(***************************************************************************)
(* The note store of a vault (src/documents.ts, src/index-log.ts; the Rust  *)
(* core keeps the same files).  A note is one encrypted object; the index   *)
(* is a snapshot and a log of records bound to it by a generation number; a *)
(* journal names the notes a write is about to change.  Sessions keep the   *)
(* index in memory and refresh it when they next load it.                   *)
(*                                                                          *)
(* Each file written is one step.  Writes hold the vault lock (VaultLock);  *)
(* reads, and the compaction in lock(), do not.  The generation, object and *)
(* record of a write carry its number, ed, so that every version is told    *)
(* apart; an absent note has revision 0.                                    *)
(***************************************************************************)
EXTENDS Naturals, Sequences, SequencesExt, FiniteSets

CONSTANTS
  Session, Note,
  None,          \* no journal, no log, no index in memory, no holder
  Overlap,       \* what overlaps with other sessions: a subset of {"close", "crash"}
  CompactAfter,  \* COMPACT_AFTER_RECORDS
  MaxWrites,     \* bound: object writes
  MaxCrashes     \* bound: processes that die in an operation

VARIABLES
  objects,  \* [Note -> Entry]: objects/<id>.note.enc
  archive,  \* [Note -> SUBSET Entry]: history/<id>/<revision>.note.enc
  snap,     \* index.enc
  logf,     \* index-log.enc
  journal,  \* journal.json: the notes it names (a bulk journal names them all)
  holder,   \* the session that holds the vault lock
  pc, op,   \* where each session is, and the operation it runs
  todo,     \* the notes its operation has still to write
  loading,  \* the snapshot a cold load has read and not yet completed
  cache,    \* indexCache
  stamp,    \* indexStamp: which snapshot the cache comes from
  gen,      \* logGeneration of the session
  lines,    \* logLines: how much of the log the cache holds, the header included
  writes, crashes,
  acked     \* history: the puts that have returned

disk == <<objects, archive, snap, logf, journal>>
work == <<holder, op, todo>>
memory == <<cache, stamp, gen, lines>>
vars == <<disk, work, pc, loading, memory, writes, crashes, acked>>

Entry == [rev : Nat, ed : Nat]
Index == [Note -> Entry]
Snapshot == [gen : Nat, map : Index, stamp : Nat]
Line == [note : Note, entry : Entry, sealed : BOOLEAN]
Log == [gen : Nat, recs : Seq(Line), torn : BOOLEAN]
Kinds == {"put", "putMany", "remove", "compact", "read", "close"}
Locations == {"idle", "load", "reload", "readLog", "await", "loaded", "begin", "archive",
              "object", "commit", "append", "snapshot", "dropLog", "end",
              "healSnapshot", "healDrop", "healEnd"}

ASSUME ConstantsOK ==
  /\ None \notin Session \cup Snapshot \cup Log \cup Index
  /\ Note # {} /\ \A N \in SUBSET Note : N # None
  /\ Overlap \subseteq {"close", "crash"}
  /\ {CompactAfter, MaxWrites, MaxCrashes} \subseteq Nat

Absent == [rev |-> 0, ed |-> 0]
Empty == [n \in Note |-> Absent]

\* A vault whose empty index has been written.
Init ==
  /\ objects = Empty /\ archive = [n \in Note |-> {}]
  /\ snap = [gen |-> 1, map |-> Empty, stamp |-> 1]
  /\ logf = None /\ journal = None /\ holder = None
  /\ pc = [s \in Session |-> "idle"] /\ op = [s \in Session |-> "read"]
  /\ todo = [s \in Session |-> {}]
  /\ loading = [s \in Session |-> None] /\ cache = [s \in Session |-> None]
  /\ stamp = [s \in Session |-> 0] /\ gen = [s \in Session |-> 0]
  /\ lines = [s \in Session |-> 0]
  /\ writes = 0 /\ crashes = 0 /\ acked = {}
----------------------------------------------------------------------------
(* Reading the index from disk. *)

\* readIndexLog: how many lines the log has for a generation; 0 for another one's log.
LinesFor(g) == IF logf # None /\ logf.gen = g THEN Len(logf.recs) + 1 ELSE 0

\* The records from line k on; line 0 is the header.
RecordsFrom(g, k) ==
  IF LinesFor(g) = 0 THEN << >> ELSE SubSeq(logf.recs, Max({k, 1}), Len(logf.recs))

\* A line that does not authenticate is a torn append at the end and damage elsewhere.
Damaged(recs) == \E i \in 1 .. Len(recs) - 1 : ~recs[i].sealed

\* applyIndexLogRecord over the records that can be read: the last one about a note counts.
LastOn(recs, n) == SelectLastInSeq(recs, LAMBDA r : r.note = n /\ r.sealed)
Replay(map, recs) ==
  [n \in Note |-> IF LastOn(recs, n) = 0 THEN map[n] ELSE recs[LastOn(recs, n)].entry]

DiskIndex == Replay(snap.map, RecordsFrom(snap.gen, 0))

Goto(s, l) == pc' = [pc EXCEPT ![s] = l]
Leave(s) == holder' = IF holder = s THEN None ELSE holder
Writing(s) == op[s] \in {"put", "putMany", "remove", "compact"}
\* The operation returns or throws; only the lock is given back.
Return(s) ==
  /\ Goto(s, "idle") /\ Leave(s)
  /\ op' = [op EXCEPT ![s] = "read"] /\ todo' = [todo EXCEPT ![s] = {}]

\* What a process had in memory goes with it.
Forget(s) ==
  /\ cache' = [cache EXCEPT ![s] = None]
  /\ stamp' = [stamp EXCEPT ![s] = 0] /\ gen' = [gen EXCEPT ![s] = 0]
  /\ lines' = [lines EXCEPT ![s] = 0]

\* The index cannot be loaded; lock() goes on to drop the session all the same.
Fail(s) == Return(s) /\ IF op[s] = "close" THEN Forget(s) ELSE UNCHANGED memory
----------------------------------------------------------------------------
(* Starting an operation. *)

Busy(s) == pc[s] # "idle"
\* Without "close" in Overlap no session is locked while another one is busy.
MayStart(s, kind) ==
  \A t \in Session \ {s} :
    "close" \in Overlap \/ (Busy(t) => op[t] # "close" /\ kind # "close")

Begin(s, kind, notes) ==
  /\ ~Busy(s) /\ MayStart(s, kind)
  /\ op' = [op EXCEPT ![s] = kind]
  /\ todo' = [todo EXCEPT ![s] = notes]
  /\ Goto(s, "load")
  /\ UNCHANGED <<disk, loading, memory, writes, crashes, acked>>

\* withVaultLock around put, putMany, remove and compactIndex.
BeginWrite(s) ==
  /\ holder = None /\ holder' = s
  /\ \/ /\ writes < MaxWrites
        /\ \E n \in Note, kind \in {"put", "remove"} : Begin(s, kind, {n})
     \/ /\ writes + Cardinality(Note) <= MaxWrites
        /\ Begin(s, "putMany", Note)
     \/ Begin(s, "compact", {})

BeginRead(s) == Begin(s, "read", {}) /\ UNCHANGED holder

\* lock(): compacts first when the session knows of a log.
BeginClose(s) == cache[s] # None /\ lines[s] > 0 /\ Begin(s, "close", {}) /\ UNCHANGED holder
----------------------------------------------------------------------------
(* loadIndex. *)

LoadCached(s) ==
  /\ pc[s] = "load"
  /\ IF cache[s] # None THEN Goto(s, "loaded") ELSE Goto(s, "reload")
  /\ UNCHANGED <<disk, work, loading, memory, writes, crashes, acked>>

\* refreshIndexCache: same snapshot, a log at least as long: its new records are applied.
Load(s) ==
  /\ pc[s] = "load"
  /\ IF cache[s] = None \/ stamp[s] # snap.stamp \/ LinesFor(gen[s]) < lines[s]
     THEN Goto(s, "reload") /\ UNCHANGED <<work, memory>>
     ELSE LET recs == RecordsFrom(gen[s], lines[s]) IN
          IF Damaged(recs) THEN Fail(s)
          ELSE /\ cache' = [cache EXCEPT ![s] = Replay(@, recs)]
               /\ lines' = [lines EXCEPT ![s] = LinesFor(gen[s])]
               /\ Goto(s, "loaded")
               /\ UNCHANGED <<work, stamp, gen>>
  /\ UNCHANGED <<disk, loading, writes, crashes, acked>>

Reload(s) ==
  /\ pc[s] = "reload"
  /\ loading' = [loading EXCEPT ![s] = snap]
  /\ Goto(s, "readLog")
  /\ UNCHANGED <<disk, work, memory, writes, crashes, acked>>

ReadLogOnly(s) ==
  /\ pc[s] = "readLog"
  /\ LET from == loading[s]  recs == RecordsFrom(from.gen, 0) IN
     IF Damaged(recs) THEN Fail(s)
     ELSE /\ cache' = [cache EXCEPT ![s] = Replay(from.map, recs)]
          /\ stamp' = [stamp EXCEPT ![s] = from.stamp]
          /\ gen' = [gen EXCEPT ![s] = from.gen]
          /\ lines' = [lines EXCEPT ![s] = LinesFor(from.gen)]
          /\ Goto(s, "loaded")
          /\ UNCHANGED work
  /\ loading' = [loading EXCEPT ![s] = None]
  /\ UNCHANGED <<disk, writes, crashes, acked>>

\* The log of the snapshot just read; then a journal means that a write was cut off.
ReadLog(s) ==
  /\ pc[s] = "readLog"
  /\ LET from == loading[s]  recs == RecordsFrom(from.gen, 0) IN
     IF Damaged(recs) THEN Fail(s)
     ELSE /\ cache' = [cache EXCEPT ![s] = Replay(from.map, recs)]
          /\ stamp' = [stamp EXCEPT ![s] = from.stamp]
          /\ gen' = [gen EXCEPT ![s] = from.gen]
          /\ lines' = [lines EXCEPT ![s] = LinesFor(from.gen)]
          /\ Goto(s, IF journal = None THEN "loaded" ELSE "await")
          /\ UNCHANGED work
  /\ loading' = [loading EXCEPT ![s] = None]
  /\ UNCHANGED <<disk, writes, crashes, acked>>

\* recoverFromJournal, under the lock: the journal is read again, and each note it names
\* is taken from its object into the index loaded before.
Await(s) ==
  /\ pc[s] = "await" /\ holder \in {None, s}
  /\ IF journal = None
     THEN Goto(s, "loaded") /\ UNCHANGED <<holder, cache>>
     ELSE /\ holder' = s
          /\ cache' = [cache EXCEPT ![s] =
               [n \in Note |-> IF n \in journal THEN objects[n] ELSE @[n]]]
          /\ Goto(s, "healSnapshot")
  /\ UNCHANGED <<disk, op, todo, loading, stamp, gen, lines, writes, crashes, acked>>

\* Back in the operation that loaded the index.
Dispatch(s) ==
  /\ pc[s] = "loaded"
  /\ CASE op[s] \in {"put", "putMany", "remove"} -> Goto(s, "begin") /\ UNCHANGED work
       [] op[s] = "close" \/ (op[s] = "compact" /\ lines[s] > 0) ->
            Goto(s, "snapshot") /\ UNCHANGED work
       [] OTHER -> Return(s)
  /\ UNCHANGED <<disk, loading, memory, writes, crashes, acked>>
----------------------------------------------------------------------------
(* Writing notes. *)

ArchivedBaseFromOne(n) == 0
\* A put of an absent note goes on from its highest archived revision.
ArchivedBase(n) == IF archive[n] = {} THEN 0
                   ELSE CHOOSE r \in {e.rev : e \in archive[n]} : \A e \in archive[n] : e.rev <= r
NextRevision(s, n) ==
  IF op[s] = "remove" THEN 0
  ELSE IF cache[s][n].rev > 0 THEN cache[s][n].rev + 1 ELSE ArchivedBase(n) + 1

\* A remove must find its note; a put loads the object the index names.
Rejects(s) ==
  \/ op[s] = "remove" /\ \E n \in todo[s] : cache[s][n].rev = 0
  \/ op[s] = "put" /\ \E n \in todo[s] : cache[s][n].rev > 0 /\ objects[n].rev = 0

BeginJournalListed(s) ==
  /\ pc[s] = "begin"
  /\ IF Rejects(s)
     THEN Return(s) /\ UNCHANGED journal
     ELSE journal' = (IF op[s] = "putMany" THEN {} ELSE todo[s]) /\ Goto(s, "archive") /\ UNCHANGED work
  /\ UNCHANGED <<objects, archive, snap, logf, loading, memory, writes, crashes, acked>>

BeginJournal(s) ==
  /\ pc[s] = "begin"
  /\ IF Rejects(s)
     THEN Return(s) /\ UNCHANGED journal
     ELSE journal' = todo[s] /\ Goto(s, "archive") /\ UNCHANGED work
  /\ UNCHANGED <<objects, archive, snap, logf, loading, memory, writes, crashes, acked>>

NextNote(s) == CHOOSE n \in todo[s] : TRUE

\* archiveRevision of the object about to be replaced; a revision already there stays.
\* A missing object throws here and leaves the journal.
Archive(s) ==
  /\ pc[s] = "archive"
  /\ LET n == NextNote(s)  old == objects[n] IN
     IF cache[s][n].rev > 0 /\ old.rev = 0
     THEN Return(s) /\ UNCHANGED archive
     ELSE /\ archive' = IF cache[s][n].rev = 0 \/ \E e \in archive[n] : e.rev = old.rev
                        THEN archive ELSE [archive EXCEPT ![n] = @ \cup {old}]
          /\ Goto(s, "object") /\ UNCHANGED work
  /\ UNCHANGED <<objects, snap, logf, journal, loading, memory, writes, crashes, acked>>

\* The object is replaced or unlinked, and the index in memory follows.
WriteObject(s) ==
  /\ pc[s] = "object"
  /\ LET n == NextNote(s)  new == [rev |-> NextRevision(s, n), ed |-> writes + 1] IN
     /\ objects' = [objects EXCEPT ![n] = new]
     /\ cache' = [cache EXCEPT ![s][n] = new]
     /\ todo' = [todo EXCEPT ![s] = IF op[s] = "putMany" THEN @ \ {n} ELSE @]
     /\ Goto(s, IF op[s] # "putMany" THEN "commit"
                ELSE IF todo[s] = {n} THEN "snapshot" ELSE "archive")
  /\ writes' = writes + 1
  /\ UNCHANGED <<archive, snap, logf, journal, holder, op, loading, stamp, gen, lines, crashes, acked>>
----------------------------------------------------------------------------
(* saveIndex. *)

CommitDropsFirst(s) ==
  /\ pc[s] = "commit"
  /\ IF lines[s] >= CompactAfter
     THEN Goto(s, "snapshot") /\ logf' = None /\ UNCHANGED lines
     ELSE /\ Goto(s, "append")
          /\ IF lines[s] = 0
             THEN /\ logf' = [gen |-> gen[s], recs |-> << >>, torn |-> FALSE]
                  /\ lines' = [lines EXCEPT ![s] = 1]
             ELSE UNCHANGED <<logf, lines>>
  /\ UNCHANGED <<objects, archive, snap, journal, work, loading, cache, stamp, gen,
                 writes, crashes, acked>>

\* A full log makes way for a snapshot; the first record of a generation starts its log.
Commit(s) ==
  /\ pc[s] = "commit"
  /\ IF lines[s] >= CompactAfter
     THEN Goto(s, "snapshot") /\ UNCHANGED <<logf, lines>>
     ELSE /\ Goto(s, "append")
          /\ IF lines[s] = 0
             THEN /\ logf' = [gen |-> gen[s], recs |-> << >>, torn |-> FALSE]
                  /\ lines' = [lines EXCEPT ![s] = 1]
             ELSE UNCHANGED <<logf, lines>>
  /\ UNCHANGED <<objects, archive, snap, journal, work, loading, cache, stamp, gen,
                 writes, crashes, acked>>

\* A record is sealed for its generation and line; behind a torn line, or elsewhere than
\* the session believes, it cannot be read.  A log that is gone comes back headless.
Appended(s, n) ==
  IF logf = None THEN [gen |-> 0, recs |-> << >>, torn |-> FALSE]
  ELSE [logf EXCEPT !.torn = FALSE, !.recs = Append(@,
         [note |-> n, entry |-> cache[s][n],
          sealed |-> ~logf.torn /\ logf.gen = gen[s] /\ Len(logf.recs) + 1 = lines[s]])]

AppendRecord(s) ==
  /\ pc[s] = "append"
  /\ logf' = Appended(s, NextNote(s))
  /\ lines' = [lines EXCEPT ![s] = @ + 1]
  /\ Goto(s, "end")
  /\ UNCHANGED <<objects, archive, snap, journal, work, loading, cache, stamp, gen,
                 writes, crashes, acked>>

\* writeIndexSnapshot: the snapshot of the next generation lands before the log goes.
WriteSnapshot(s) ==
  /\ pc[s] \in {"snapshot", "healSnapshot"}
  /\ snap' = [gen |-> gen[s] + 1, map |-> cache[s], stamp |-> snap.stamp + 1]
  /\ gen' = [gen EXCEPT ![s] = @ + 1]
  /\ Goto(s, IF pc[s] = "snapshot" THEN "dropLog" ELSE "healDrop")
  /\ UNCHANGED <<objects, archive, logf, journal, work, loading, cache, stamp, lines,
                 writes, crashes, acked>>

DropLog(s) ==
  /\ pc[s] \in {"dropLog", "healDrop"}
  /\ logf' = None
  /\ IF pc[s] = "dropLog" /\ op[s] = "close"
     THEN Return(s) /\ Forget(s)
     ELSE /\ lines' = [lines EXCEPT ![s] = 0]
          /\ stamp' = [stamp EXCEPT ![s] = snap.stamp]
          /\ UNCHANGED <<cache, gen>>
          /\ IF pc[s] = "healDrop" THEN Goto(s, "healEnd") /\ UNCHANGED work
             ELSE IF op[s] = "compact" THEN Return(s)
             ELSE Goto(s, "end") /\ UNCHANGED work
  /\ UNCHANGED <<objects, archive, snap, journal, loading, writes, crashes, acked>>

\* endJournal: of a write, which then returns, and of a recovery.
EndWrite(s) ==
  /\ pc[s] = "end"
  /\ journal' = None
  /\ acked' = IF op[s] = "remove" THEN acked
              ELSE acked \cup {objects[n].ed : n \in IF op[s] = "put" THEN todo[s] ELSE Note}
  /\ Return(s)
  /\ UNCHANGED <<objects, archive, snap, logf, loading, memory, writes, crashes>>

EndRecovery(s) ==
  /\ pc[s] = "healEnd"
  /\ journal' = None
  /\ Goto(s, "loaded")
  /\ IF Writing(s) THEN UNCHANGED holder ELSE Leave(s)
  /\ UNCHANGED <<objects, archive, snap, logf, op, todo, loading, memory, writes, crashes, acked>>
----------------------------------------------------------------------------
(* The environment. *)

\* A process ends without lock(), as the commands that run once do.
Quit(s) ==
  /\ ~Busy(s) /\ cache[s] # None
  /\ Forget(s)
  /\ UNCHANGED <<disk, work, pc, loading, writes, crashes, acked>>

\* A process dies; its lock is reclaimed.  Without "crash" in Overlap no other session is
\* open then.  A line may be cut short.
Crash(s) ==
  /\ Busy(s) /\ crashes < MaxCrashes
  /\ "crash" \in Overlap \/ \A t \in Session \ {s} : ~Busy(t) /\ cache[t] = None
  /\ crashes' = crashes + 1
  /\ logf' \in {logf} \cup
       (IF pc[s] = "append" /\ logf # None THEN {[logf EXCEPT !.torn = TRUE]} ELSE {}) \cup
       (IF pc[s] = "commit" /\ lines[s] = 0 /\ CompactAfter > 0
        THEN {[gen |-> 0, recs |-> << >>, torn |-> TRUE]} ELSE {})
  /\ Return(s)
  /\ loading' = [loading EXCEPT ![s] = None]
  /\ Forget(s)
  /\ UNCHANGED <<objects, archive, snap, journal, writes, acked>>

Step(s) ==
  \/ Load(s) \/ Reload(s) \/ ReadLog(s) \/ Await(s) \/ Dispatch(s)
  \/ BeginJournal(s) \/ Archive(s) \/ WriteObject(s)
  \/ Commit(s) \/ AppendRecord(s) \/ WriteSnapshot(s) \/ DropLog(s)
  \/ EndWrite(s) \/ EndRecovery(s)

Next ==
  \E s \in Session :
    Step(s) \/ BeginWrite(s) \/ BeginRead(s) \/ BeginClose(s) \/ Quit(s) \/ Crash(s)

Spec == Init /\ [][Next]_vars
----------------------------------------------------------------------------
(* Properties. *)

TypeOK ==
  /\ objects \in Index
  /\ \A n \in Note : archive[n] \subseteq Entry
  /\ snap \in Snapshot /\ logf \in Log \cup {None}
  /\ journal = None \/ journal \subseteq Note
  /\ holder \in Session \cup {None}
  /\ pc \in [Session -> Locations] /\ op \in [Session -> Kinds]
  /\ todo \in [Session -> SUBSET Note]
  /\ loading \in [Session -> Snapshot \cup {None}]
  /\ cache \in [Session -> Index \cup {None}]
  /\ {stamp, gen, lines} \subseteq [Session -> Nat]
  /\ {writes, crashes} \subseteq Nat /\ acked \subseteq 1 .. writes
  /\ \A s \in Session : pc[s] \in Locations \ {"idle", "load", "reload", "readLog"} => cache[s] # None

\* A note whose entry in the index on disk is not what its object says is named by the
\* journal, whatever was cut off where: the next unlock can always find and repair it
\* (documents.ts:222-231).
JournalCoversStale ==
  \A n \in Note : DiskIndex[n] # objects[n] => journal # None /\ n \in journal

\* A write starts from what the previous lock holder left, however long ago the session
\* read its index (docs/ROADMAP.md, The session cache).
WritesOnCurrent == \A s \in Session : pc[s] = "begin" => cache[s] = objects

\* A put that has returned is in the index as long as no later write replaces it
\* (docs/ROADMAP.md:492-495).
AcknowledgedIndexed ==
  \A n \in Note : objects[n].ed \in acked => DiskIndex[n] = objects[n]

\* Every version a put has acknowledged is still there, live or archived, over removals,
\* recreations and recoveries; and no note is live under a number that its history gives
\* to another version, which the next write would fail to archive (documents.ts:1262-1264).
NothingLost ==
  /\ \A e \in acked : \E n \in Note : \E v \in archive[n] \cup {objects[n]} : v.ed = e
  /\ \A n \in Note : \A v \in archive[n] : v.rev = objects[n].rev => v = objects[n]

\* The log never has an unreadable line before its last one: a cut-off append does not
\* become damage that every later load refuses (index-log.ts:128-137).
LogOpens == logf # None => ~Damaged(logf.recs)

\* A session that has shown a version of a note never shows an older one, whichever
\* files it reads while others replace them.
NeverRewinds ==
  [][\A s \in Session : cache[s] # None /\ cache'[s] # None
       => \A n \in Note : cache'[s][n].ed >= cache[s][n].ed]_vars
============================================================================
