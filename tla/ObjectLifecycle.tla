-------------------------- MODULE ObjectLifecycle --------------------------
(***************************************************************************)
(* How the objects of a vault age and go (src/documents.ts): revisions that *)
(* are archived and pruned, notes and canvases that are restored, renamed,  *)
(* removed or purged, and an attachment that is kept in chunks.             *)
(*                                                                          *)
(* A command holds the vault lock and changes one file per step; a death of *)
(* its process leaves the files as they are.  An object file and its index  *)
(* entry go together: DocumentStore has the journal that sees to it.  A     *)
(* body is <<the object, the write that made it>>.  An ID is never used     *)
(* twice, so a new note is one more element of NoteId.                      *)
(***************************************************************************)
EXTENDS Naturals, FiniteSetsExt, Functions

CONSTANTS
  Session,    \* open vaults, each in a process of its own
  NoteId,
  CanvasId,
  Policy,     \* the retention policies the owner sets: [keep, days]
  Parts,      \* the chunks of the attachment
  None,       \* no object, no command, no bound
  Unread,     \* a session that has not read the policy yet
  Overlap,    \* what overlaps although the code gives it no protection (README, 6)
  MaxWrites,  \* bound: puts
  MaxReading, \* bound: restores and renames under way
  MaxDeaths   \* bound: processes that die in a command

VARIABLES
  live,      \* objects/: per object None or [rev, body]
  history,   \* history/: per object, archived revision -> body
  aged,      \* per object, the highest revision older than the age bound
  policy,    \* the stored retention policy
  cache,     \* per session, the policy it has read
  reading,   \* per session, what a restore or a rename has read so far
  files,     \* the attachment's folder: its chunks, and 0 for the manifest
  op,        \* the command in the vault lock
  kept,      \* history: bodies written, and neither purged nor left to the policy
  purged,    \* history: objects whose purge has ended
  attached,  \* history: the attachment was added and is not being removed
  writes, deaths

objects == <<live, history, aged>>
retention == <<policy, cache>>
attachment == <<files, attached>>
vars == <<objects, retention, reading, attachment, op, kept, purged, writes, deaths>>

Object == NoteId \cup CanvasId
Manifest == 0
Whole == {Manifest} \cup 1..Parts
Unlimited == [keep |-> None, days |-> FALSE]

ASSUME ObjectLifecycleConstantsOK ==
  /\ NoteId \cap CanvasId = {}
  /\ None \notin Nat \cup Object \cup Session \cup [rev : Nat, body : Object \X Nat]
  /\ Unread \notin Policy
  /\ {Parts, MaxWrites, MaxReading, MaxDeaths} \subseteq Nat /\ Parts > 0
  /\ Unlimited \in Policy
  /\ \A p \in Policy : p.days \in BOOLEAN /\ p.keep \in {None} \cup (Nat \ {0})
  /\ Overlap \subseteq {"stale_policy", "restore", "rename", "removal"}

Init ==
  /\ live = [o \in Object |-> [rev |-> 1, body |-> <<o, 0>>]]
  /\ history = [o \in Object |-> << >>] /\ aged = [o \in Object |-> 0]
  /\ policy = Unlimited /\ cache = [s \in Session |-> Unread]
  /\ reading = [s \in Session |-> None]
  /\ files = {} /\ attached = FALSE /\ op = None
  /\ kept = {<<o, 0>> : o \in Object} /\ purged = {}
  /\ writes = 0 /\ deaths = 0

Unless(overlap, guard) == IF overlap \in Overlap THEN TRUE ELSE guard

Archived(o) == DOMAIN history[o]
LatestRevision(o) == IF live[o] # None THEN live[o].rev ELSE Max({0} \cup Archived(o))

\* The texts a revision number reads: the object's or an archived one.
Bodies(o) ==
  (IF live[o] = None THEN {} ELSE {live[o].body}) \cup {history[o][r] : r \in Archived(o)}

RetentionPolicy(s) == IF cache[s] = Unread THEN policy ELSE cache[s]

Holds(s, task, step) == op # None /\ op.by = s /\ op.task = task /\ op.step = step
Command(s, task, step, o) ==
  [by |-> s, task |-> task, step |-> step, o |-> o, body |-> None, doom |-> {}]
----------------------------------------------------------------------------
(* Retention. *)

\* A slip: one revision more than the policy drops.
DoomedOneMore(o, archive, p) ==
  LET numbers == DOMAIN archive
      count == Cardinality(numbers)
  IN {r \in numbers :
        \/ p.keep # None /\ Cardinality({q \in numbers : q < r}) < (count - p.keep) + 1
        \/ p.days /\ r <= aged[o]}

\* The archived revisions the policy does not keep: the oldest ones beyond the
\* number, and those past the age.
Doomed(o, archive, p) ==
  LET numbers == DOMAIN archive
      count == Cardinality(numbers)
  IN {r \in numbers :
        \/ p.keep # None /\ count > p.keep
           /\ Cardinality({q \in numbers : q < r}) < count - p.keep
        \/ p.days /\ r <= aged[o]}

AllDoomed(p) == UNION {{o} \X Doomed(o, history[o], p) : o \in Object}

TimePasses ==
  /\ \E o \in Object :
       /\ aged[o] < LatestRevision(o)
       /\ aged' = [aged EXCEPT ![o] = LatestRevision(o)]
  /\ UNCHANGED <<live, history, retention, reading, attachment, op, kept, purged, writes, deaths>>

SetRetentionPolicy(s) ==
  /\ op = None
  /\ \E p \in Policy \ {policy} :
       /\ \A t \in Session \ {s} :
            Unless("stale_policy", cache[t] \in {Unread, Unlimited, p})
       /\ policy' = p /\ cache' = [cache EXCEPT ![s] = p]
       /\ op' = [Command(s, "sweep", "prune", None) EXCEPT !.doom = AllDoomed(p)]
  /\ UNCHANGED <<objects, reading, attachment, kept, purged, writes, deaths>>

SweepRetention(s) ==
  /\ op = None /\ AllDoomed(RetentionPolicy(s)) # {}
  /\ cache' = [cache EXCEPT ![s] = RetentionPolicy(s)]
  /\ op' = [Command(s, "sweep", "prune", None) EXCEPT !.doom = AllDoomed(RetentionPolicy(s))]
  /\ UNCHANGED <<objects, policy, reading, attachment, kept, purged, writes, deaths>>

\* What the stored policy lets go: an age, or as many newer archived revisions
\* as it keeps.
MayDrop(o, r) ==
  \/ policy.days /\ r <= aged[o]
  \/ policy.keep # None /\ Cardinality({q \in Archived(o) : q > r}) >= policy.keep

ApplyRetention(s) ==
  /\ op # None /\ op.by = s /\ op.step = "prune"
  /\ \E d \in op.doom :
       LET o == d[1]
           r == d[2]
       IN /\ \A e \in op.doom : e[1] = o => r <= e[2]
          /\ history' = [history EXCEPT ![o] = Restrict(@, Archived(o) \ {r})]
          /\ op' = [op EXCEPT !.doom = @ \ {d}]
          /\ kept' = IF MayDrop(o, r) THEN kept \ {history[o][r]} ELSE kept
  /\ UNCHANGED <<live, aged, retention, reading, attachment, purged, writes, deaths>>

EndSweep(s) ==
  /\ Holds(s, "sweep", "prune") /\ op.doom = {}
  /\ op' = None
  /\ UNCHANGED <<objects, retention, reading, attachment, kept, purged, writes, deaths>>
----------------------------------------------------------------------------
(* Writing, restoring and renaming. *)

Put(s) ==
  /\ op = None /\ writes < MaxWrites
  /\ \E o \in Object :
       /\ live[o] # None
       /\ op' = [Command(s, "put", "archive", o) EXCEPT !.body = <<o, writes + 1>>]
  /\ UNCHANGED <<objects, retention, reading, attachment, kept, purged, writes, deaths>>

MayRead(s) ==
  reading[s] = None /\ Cardinality({t \in Session : reading[t] # None}) < MaxReading

\* A rename reads the object before the lock is taken.  Only a canvas hands
\* the revision it read to the put.
Rename(s) ==
  /\ MayRead(s)
  /\ \E o \in Object :
       /\ live[o] # None
       /\ reading' = [reading EXCEPT ![s] =
            [o |-> o, body |-> live[o].body, base |-> live[o].rev, checked |-> o \in CanvasId]]
  /\ UNCHANGED <<objects, retention, attachment, op, kept, purged, writes, deaths>>

\* A restore reads the revision, then the latest number, both without the lock.
Restore(s) ==
  /\ MayRead(s)
  /\ \E o \in Object : \E body \in Bodies(o) :
       reading' = [reading EXCEPT ![s] =
         [o |-> o, body |-> body, base |-> None, checked |-> TRUE]]
  /\ UNCHANGED <<objects, retention, attachment, op, kept, purged, writes, deaths>>

RestoreBase(s) ==
  /\ reading[s] # None /\ reading[s].base = None
  /\ Unless("restore", LatestRevision(reading[s].o) > 0)
  /\ reading' = [reading EXCEPT ![s].base = LatestRevision(reading[s].o)]
  /\ UNCHANGED <<objects, retention, attachment, op, kept, purged, writes, deaths>>

\* A slip: the revision the caller read is not compared.
NeverRefused(seen) == FALSE

\* "Note revision conflict": the object changed since the caller read it.
RevisionConflict(seen) == seen.checked /\ seen.base # LatestRevision(seen.o)

PutRead(s) ==
  /\ op = None /\ reading[s] # None /\ reading[s].base # None
  /\ LET seen == reading[s] IN
     IF RevisionConflict(seen)
       THEN reading' = [reading EXCEPT ![s] = None] /\ UNCHANGED op
       ELSE /\ Unless("rename", seen.checked \/ seen.base = LatestRevision(seen.o))
            /\ writes < MaxWrites
            /\ op' = [Command(s, "put", IF live[seen.o] = None THEN "prune" ELSE "archive", seen.o)
                        EXCEPT !.body = seen.body]
            /\ UNCHANGED reading
  /\ UNCHANGED <<objects, retention, attachment, kept, purged, writes, deaths>>

Filed(archive, object) ==
  [r \in DOMAIN archive \cup {object.rev} |-> IF r = object.rev THEN object.body ELSE archive[r]]

\* An archived revision is never overwritten; one that is new is followed by
\* the retention of its object.
ArchiveRevision(s) ==
  /\ op # None /\ op.by = s /\ op.step = "archive"
  /\ LET o == op.o
         outgoing == live[o]
         archive == Filed(history[o], outgoing)
     IN IF outgoing.rev \in Archived(o)
          THEN op' = [op EXCEPT !.step = "prune"] /\ UNCHANGED <<history, cache>>
          ELSE /\ history' = [history EXCEPT ![o] = archive]
               /\ cache' = [cache EXCEPT ![s] = RetentionPolicy(s)]
               /\ op' = [op EXCEPT !.step = "prune",
                                   !.doom = {o} \X Doomed(o, archive, RetentionPolicy(s))]
  /\ UNCHANGED <<live, aged, policy, reading, attachment, kept, purged, writes, deaths>>

WriteObject(s) ==
  /\ Holds(s, "put", "prune") /\ op.doom = {}
  /\ LET o == op.o IN
     /\ live' = [live EXCEPT ![o] = [rev |-> LatestRevision(o) + 1, body |-> op.body]]
     /\ aged' = [aged EXCEPT ![o] = Min({@, LatestRevision(o)})]
     /\ kept' = kept \cup {op.body}
     /\ reading' = IF op.body[2] = writes + 1 THEN reading ELSE [reading EXCEPT ![s] = None]
  /\ writes' = writes + 1 /\ op' = None
  /\ UNCHANGED <<history, retention, attachment, purged, deaths>>
----------------------------------------------------------------------------
(* Removing and purging. *)

Remove(s) ==
  /\ op = None
  /\ \E o \in Object : live[o] # None /\ op' = Command(s, "remove", "archive", o)
  /\ UNCHANGED <<objects, retention, reading, attachment, kept, purged, writes, deaths>>

RemoveObject(s) ==
  /\ Holds(s, "remove", "prune") /\ op.doom = {}
  /\ live' = [live EXCEPT ![op.o] = None] /\ op' = None
  /\ UNCHANGED <<history, aged, retention, reading, attachment, kept, purged, writes, deaths>>

\* A purge takes the object without archiving it, then every archived file.
Purge(s) ==
  /\ op = None
  /\ \E o \in Object :
       /\ LatestRevision(o) > 0
       /\ op' = Command(s, "purge", "clear", o)
       /\ live' = [live EXCEPT ![o] = None]
       /\ kept' = {b \in kept : b[1] # o}
  /\ UNCHANGED <<history, aged, retention, reading, attachment, purged, writes, deaths>>

RemoveHistory(s) ==
  /\ Holds(s, "purge", "clear")
  /\ \E r \in Archived(op.o) :
       history' = [history EXCEPT ![op.o] = Restrict(@, Archived(op.o) \ {r})]
  /\ UNCHANGED <<live, aged, retention, reading, attachment, op, kept, purged, writes, deaths>>

EndPurge(s) ==
  /\ Holds(s, "purge", "clear") /\ Archived(op.o) = {}
  /\ purged' = purged \cup {op.o} /\ op' = None
  /\ UNCHANGED <<objects, retention, reading, attachment, kept, writes, deaths>>
----------------------------------------------------------------------------
(* The attachment. *)

AlreadyStored == Manifest \in files

PutAttachment(s) ==
  /\ op = None /\ ~attached
  /\ IF AlreadyStored
       THEN attached' = TRUE /\ UNCHANGED op
       ELSE op' = [Command(s, "attach", "chunk", None) EXCEPT !.body = 1] /\ UNCHANGED attached
  /\ UNCHANGED <<objects, retention, reading, files, kept, purged, writes, deaths>>

WriteChunk(s) ==
  /\ Holds(s, "attach", "chunk") /\ op.body <= Parts
  /\ files' = files \cup {op.body} /\ op' = [op EXCEPT !.body = @ + 1]
  /\ UNCHANGED <<objects, retention, reading, attached, kept, purged, writes, deaths>>

WriteManifest(s) ==
  /\ Holds(s, "attach", "chunk") /\ op.body > Parts
  /\ files' = files \cup {Manifest} /\ attached' = TRUE /\ op' = None
  /\ UNCHANGED <<objects, retention, reading, kept, purged, writes, deaths>>

RemoveAttachment(s) ==
  /\ op = None /\ Manifest \in files
  /\ attached' = FALSE /\ op' = Command(s, "detach", "tree", None)
  /\ UNCHANGED <<objects, retention, reading, files, kept, purged, writes, deaths>>

\* The entries go in the order the folder lists them, which is any order.
RemoveTree(s) ==
  /\ Holds(s, "detach", "tree")
  /\ \E f \in files :
       /\ files' = files \ {f}
       /\ op' = IF files = {f} THEN None ELSE op
  /\ UNCHANGED <<objects, retention, reading, attached, kept, purged, writes, deaths>>
----------------------------------------------------------------------------
(* Sessions end, or die in a command. *)

Forget(s) ==
  /\ cache' = [cache EXCEPT ![s] = Unread]
  /\ reading' = [reading EXCEPT ![s] = None]

Close(s) ==
  /\ IF op = None THEN TRUE ELSE op.by # s
  /\ Forget(s)
  /\ UNCHANGED <<objects, policy, attachment, op, kept, purged, writes, deaths>>

Die(s) ==
  /\ op # None /\ op.by = s /\ deaths < MaxDeaths
  /\ Unless("removal", ~(op.task = "detach" /\ Manifest \in files /\ files # Whole))
  /\ Forget(s) /\ op' = None /\ deaths' = deaths + 1
  /\ UNCHANGED <<objects, policy, attachment, kept, purged, writes>>

----------------------------------------------------------------------------
(* The commands of the terminal, each with the steps it takes in the lock. *)

Editing(s) ==
  \/ Put(s) \/ Rename(s) \/ Restore(s) \/ RestoreBase(s) \/ PutRead(s)
  \/ ArchiveRevision(s) \/ WriteObject(s)
  \/ Remove(s) \/ RemoveObject(s)
Retaining(s) == SetRetentionPolicy(s) \/ SweepRetention(s) \/ ApplyRetention(s) \/ EndSweep(s)
Purging(s) == Purge(s) \/ RemoveHistory(s) \/ EndPurge(s)
Attaching(s) ==
  \/ PutAttachment(s) \/ WriteChunk(s) \/ WriteManifest(s)
  \/ RemoveAttachment(s) \/ RemoveTree(s)

Next ==
  \/ TimePasses
  \/ \E s \in Session :
       Editing(s) \/ Retaining(s) \/ Purging(s) \/ Attaching(s) \/ Close(s) \/ Die(s)

Spec == Init /\ [][Next]_vars
----------------------------------------------------------------------------
\* What was acknowledged can be read.  Every text stays, as the object or as a
\* revision of it, until the owner purges the object or the stored policy lets
\* the revision go: no put, restore, rename, removal or death in one of them
\* costs a text, and no session prunes more than the policy says.  An added
\* attachment has its manifest and every chunk until its removal, whatever
\* additions and removals of the same bytes died before (archiveRevision,
\* applyRetention, putIntoIndex, removeLocked, putAttachmentLocked).
EditsKept ==
  /\ \A b \in kept : b \in Bodies(b[1])
  /\ attached => files = Whole

\* An object whose purge has ended is gone for good: no restore or rename that
\* read it before brings it back (purgeNote, purgeCanvas, putIntoIndex).
PurgedStaysGone == \A o \in purged : live[o] = None /\ Archived(o) = {}
=============================================================================
