---------------------------- MODULE KeyringProofs ----------------------------
(***************************************************************************)
(* Keyring for every set of sessions and passphrases and every bound:       *)
(* however often re-keys, migrations and kits are cut off and keyrings lost, *)
(* a vault that has a keyring can be opened and re-keyed, holds what was     *)
(* acknowledged, and its notes find their attachments.                      *)
(*                                                                          *)
(* The four hypotheses each leave out a thing the code permits.  Readable    *)
(* fails without any one of them; the others say what else fails.           *)
(***************************************************************************)
EXTENDS Keyring, TLAPS

\* No command or session that looked for the journal before a re-key was cut off acts after it
\* (commitRekey).  Otherwise Rekeyable and AckedKept fail too.
JournalSeen == "window" \notin Overlap

\* A migration that was cut off is run again before the passphrase changes: the files not yet
\* migrated open with the first passphrase only (migrateToKeyring).
MigrationsEnd == "migration" \notin Overlap

\* No command runs between a restore's check of the kit and its lock (verifyRecoveryKeySet,
\* writeKeyring).  Otherwise Rekeyable fails too.
RestoresAlone == "restore" \notin Overlap

\* A vault without files does not take its first one from a session opened before a re-key, nor
\* a kit from before one: nothing there contradicts the old keys.  Otherwise Rekeyable fails too.
OldKeysShow == "unindexed" \notin Overlap

NothingOverlaps == JournalSeen /\ MigrationsEnd /\ RestoresAlone /\ OldKeysShow

Operations == {"idle", "rekey", "resume", "migrate", "kit"}
Preparing == {"stage", "kit", "journal", "commit"}
Locations == Preparing \cup {"idle", "install", "settle", "reseal", "slot"}
Plan == [old : Slot, keys : Nat, secret : Passphrase, id : Nat, ident : Nat]

\* One note and one key-value file stand for all.
Names(S) == S \subseteq Name /\ \A n \in S : (n.kind = "note" => n = Note) /\ (n.kind = "kv" => n = Kv)
FilesOK == Names(Present) /\ files \in [Present -> Sealed]

TypeInv ==
  /\ slots \subseteq Slot /\ tombstone \in BOOLEAN
  /\ FilesOK
  /\ journal \in Journal \cup {None}
  /\ kit \in Slot \cup {None} /\ verified \in Slot \cup {None}
  /\ held \in [Session -> Slot \cup {None}]
  /\ op \in Operations /\ pc \in Locations
  /\ acked \in [note : Nat, kv : Nat]
  /\ fresh \in Nat /\ writes \in Nat /\ losses \in Nat

\* Which commands are where, and which of them have a journal on disk.
CommandInv ==
  /\ op = "idle" <=> pc = "idle"
  /\ op = "rekey" => pc \in Preparing \cup {"install", "settle"} /\ plan \in Plan
  /\ op = "resume" => pc = "install"
  /\ op = "migrate" => pc = "reseal" /\ plan \in Passphrase
  /\ op = "kit" => pc = "slot"
  /\ pc \in {"commit", "install"} => journal # None
  /\ pc \in Locations \ {"idle", "commit", "install"} => journal = None
  /\ pc = "install" => Committed
  /\ pc = "commit" => ~Committed
  /\ verified # None => op = "idle" /\ journal = None

\* Keys are numbered as they are made, so that a later set has a larger number.
Numbered(s, top) == s.retiring < s.keys /\ s.keys <= top /\ s.id <= top
                      /\ (s.label = "primary" <=> s.secret \in Passphrase)

\* One primary slot and at most one of a kit, of the same keys.
SlotsInv ==
  /\ \A s \in slots : Numbered(s, fresh)
  /\ \A s, t \in slots : s.keys = t.keys /\ (s.label = t.label => s = t)
  /\ slots # {} => \E s \in slots : s.label = "primary"

IsKit(k, top) == Numbered(k, top) /\ k.label = "recovery" /\ k.retiring = 0

KitInv ==
  /\ kit # None => IsKit(kit, fresh)
  /\ op = "kit" => /\ kit # None /\ slots # {}
                   /\ \A s \in slots : s.label = "primary" /\ s.keys = kit.keys
  /\ verified # None => /\ IsKit(verified, fresh) /\ Present # {}
                        /\ \A n \in Present : files[n].key = verified.keys

\* Until a re-key commits every file is under the keys in force.
SettledInv == ~Committed => \A s \in slots, n \in Present : PreKeyring(n) \/ files[n].key = s.keys

\* A file that migration has not reached: nothing has been re-keyed or re-wrapped since.
PreInv ==
  \A n \in Present : PreKeyring(n) =>
    /\ n = Kv /\ files[n].key = First /\ ~Committed
    /\ \A m \in Present \ {Kv} : files[m].key = Legacy
    /\ \A s \in slots : s.keys = Legacy /\ (s.label = "primary" => s.secret = First)
    /\ \A s \in Session : held[s] # None => held[s].keys = Legacy
    /\ op = "rekey" => pc = "stage"

\* Only a vault that is still to be migrated has no tombstone.
TombstoneInv == ~tombstone => Kv \in Present \/ (Present = {} /\ slots = {})

KeysInv == 0 < fresh /\ \A n \in Present : ~PreKeyring(n) => 0 < files[n].key /\ files[n].key <= fresh

\* A session's keys are never newer than those in force, nor than those of any file.
HeldAt(s) ==
  held[s] # None =>
    /\ Numbered(held[s], fresh)
    /\ \A t \in slots : held[s].keys <= t.keys
    /\ \A n \in Present : ~PreKeyring(n) => held[s].keys <= files[n].key

\* What a running re-key has worked out, and what it has put into the staging tree.
PlanInv ==
  op = "rekey" =>
    /\ plan.keys <= fresh /\ plan.id <= fresh
    /\ pc \in Preparing => /\ plan.old \in slots
                           /\ \A s \in slots : s.id < plan.id /\ s.keys < plan.keys
    /\ pc \in {"kit", "journal", "commit"} =>
         /\ \A n \in Present : files[n].key = plan.old.keys
         /\ staged = StagedTree
    /\ pc = "commit" => journal = [slot |-> plan.id, files |-> DOMAIN staged,
                                   deletes |-> Present \ DOMAIN staged]
    /\ pc \in {"install", "settle"} => \A s \in slots : s.keys = plan.keys

\* What a committed re-key leaves to whoever finishes it.
InstallInv ==
  Committed =>
    /\ staged \in [DOMAIN staged -> Sealed] /\ DOMAIN staged \subseteq journal.files
    /\ Names(journal.files)
    /\ journal.files \cap journal.deletes = {}
    /\ Present \subseteq journal.files \cup journal.deletes
    /\ journal.files \subseteq Present \cup DOMAIN staged
    /\ \A s \in slots, n \in DOMAIN staged : staged[n].key = s.keys
    /\ \A s \in slots, n \in Present : \/ files[n].key = s.keys
                                       \/ /\ s.label = "primary" => files[n].key = s.retiring
                                          /\ n \in DOMAIN staged \cup journal.deletes
    /\ Note \in Present <=> Note \in journal.files
    /\ Kv \in Present <=> Kv \in journal.files
    /\ Note \in DOMAIN staged =>
         /\ staged[Note].ver = acked.note
         /\ staged[Note].ref # 0 => Attachment(staged[Note].ref) \in journal.files
    /\ Kv \in DOMAIN staged => staged[Kv].ver = acked.kv
    /\ Note \in Present /\ Note \notin DOMAIN staged /\ files[Note].ref # 0 =>
         /\ Attachment(files[Note].ref) \in journal.files
         /\ Attachment(files[Note].ref) \notin DOMAIN staged

IInv == /\ TypeInv /\ CommandInv /\ SlotsInv /\ KitInv /\ SettledInv /\ PreInv /\ TombstoneInv
        /\ KeysInv /\ (\A s \in Session : HeldAt(s)) /\ PlanInv /\ InstallInv
        /\ AckedKept /\ RefsResolve
----------------------------------------------------------------------------
(* Files and slots. *)

LEMMA Empties == DOMAIN << >> = {}
  OBVIOUS

LEMMA StoringOne ==
  ASSUME NEW f, NEW n, NEW x
  PROVE  /\ DOMAIN Stored(f, n, x) = (DOMAIN f) \cup {n} /\ Stored(f, n, x)[n] = x
         /\ \A m \in (DOMAIN f) \ {n} : Stored(f, n, x)[m] = f[m]
         /\ \A S : f \in [DOMAIN f -> S] /\ x \in S => Stored(f, n, x) \in [(DOMAIN f) \cup {n} -> S]
  BY DEF Stored

LEMMA TakingAway ==
  ASSUME NEW f, NEW S
  PROVE  /\ DOMAIN Without(f, S) = (DOMAIN f) \ S
         /\ \A m \in (DOMAIN f) \ S : Without(f, S)[m] = f[m]
         /\ \A T : f \in [DOMAIN f -> T] => Without(f, S) \in [(DOMAIN f) \ S -> T]
  BY DEF Without

LEMMA NamesOf ==
  /\ \A i \in Nat : /\ Attachment(i) \in Name /\ Attachment(i).kind = "attachment"
                    /\ Sync(i) \in Name /\ Sync(i).kind = "sync"
  /\ Note \in Name /\ Kv \in Name /\ Note # Kv
  /\ \A i \in Nat : Attachment(i) # Note /\ Attachment(i) # Kv /\ Sync(i) # Note /\ Sync(i) # Kv
                      /\ \A j \in Nat : Attachment(i) # Sync(j)
<1>1. Note.kind = "note" /\ Kv.kind = "kv"
  BY DEF Note, Kv
<1>2. \A i \in Nat : /\ Attachment(i) \in Name /\ Attachment(i).kind = "attachment"
                     /\ Sync(i) \in Name /\ Sync(i).kind = "sync"
  BY DEF Attachment, Sync, Name
<1>3. Note \in Name /\ Kv \in Name
  BY DEF Note, Kv, Name
<1>4. "note" # "kv" /\ "note" # "attachment" /\ "note" # "sync" /\ "kv" # "attachment" /\ "kv" # "sync"
        /\ "attachment" # "sync"
  OBVIOUS
<1> QED
  BY <1>1, <1>2, <1>3, <1>4

LEMMA Wrapping ==
  ASSUME NEW id, NEW label, NEW secret, NEW k
  PROVE  /\ Wrap(id, label, secret, k).id = id /\ Wrap(id, label, secret, k).label = label
         /\ Wrap(id, label, secret, k).secret = secret
         /\ Wrap(id, label, secret, k).keys = k.keys
         /\ Wrap(id, label, secret, k).retiring = k.retiring
         /\ Wrap(id, label, secret, k).ident = k.ident
         /\ /\ id \in Nat /\ label \in {"primary", "recovery"} /\ secret \in Passphrase \cup {Code}
            /\ k.keys \in Nat /\ k.retiring \in Nat /\ k.ident \in Nat
            => Wrap(id, label, secret, k) \in Slot
  BY DEF Wrap, Slot

LEMMA SlotFields ==
  ASSUME NEW s \in Slot
  PROVE  /\ s.id \in Nat /\ s.keys \in Nat /\ s.retiring \in Nat /\ s.ident \in Nat
         /\ s.label \in {"primary", "recovery"} /\ s.secret \in Passphrase \cup {Code}
         /\ s # None
  BY KeyringConstantsOK DEF Slot

\* What is seen of a state from which a command may start.
LEMMA AtRest ==
  ASSUME NothingOverlaps, IInv
  PROVE  /\ MayRun => op = "idle" /\ pc = "idle" /\ journal = None /\ verified = None
         /\ journal = None => ~Committed
         /\ op = "idle" => pc = "idle"
         /\ Idle /\ verified # None => journal = None
  BY DEF NothingOverlaps, JournalSeen, RestoresAlone, IInv, CommandInv, MayRun, Idle, Committed

LEMMA TreeStays ==
  ASSUME UNCHANGED <<plan, files>>
  PROVE  StagedTree' = StagedTree /\ Present' = Present
  BY DEF Present, StagedTree, Rotating, Renamed, Rewritten, Reseal

\* A conjunct is not touched by a step that leaves what it speaks of.
LEMMA Untouched ==
  ASSUME IInv
  PROVE  /\ UNCHANGED <<slots, journal>> => Committed' = Committed
         /\ UNCHANGED <<op, pc, plan, verified, slots, journal>> => CommandInv'
         /\ UNCHANGED <<slots, fresh>> => SlotsInv'
         /\ UNCHANGED <<kit, op, slots, verified, files, fresh>> => KitInv'
         /\ UNCHANGED <<slots, files, journal>> => SettledInv'
         /\ UNCHANGED <<slots, files, journal, held, op, pc>> => PreInv'
         /\ UNCHANGED <<tombstone, files, slots>> => TombstoneInv'
         /\ UNCHANGED <<files, fresh>> => KeysInv'
         /\ UNCHANGED <<held, slots, files, fresh>> => \A s \in Session : HeldAt(s)'
         /\ UNCHANGED <<op, pc, plan, slots, files, staged, journal, fresh>> => PlanInv'
         /\ UNCHANGED <<slots, files, journal, staged, acked>> => InstallInv'
         /\ UNCHANGED <<files, acked>> => AckedKept'
         /\ UNCHANGED files => RefsResolve'
<1> USE DEF IInv
<1>1. UNCHANGED <<slots, journal>> => Committed' = Committed
  BY DEF Committed
<1>2. UNCHANGED <<op, pc, plan, verified, slots, journal>> => CommandInv'
  BY <1>1 DEF CommandInv
<1>3. UNCHANGED <<slots, fresh>> => SlotsInv'
  BY DEF SlotsInv, Numbered
<1>4. UNCHANGED <<kit, op, slots, verified, files, fresh>> => KitInv'
  BY DEF KitInv, IsKit, Numbered, Present
<1>5. UNCHANGED <<slots, files, journal>> => SettledInv'
  BY <1>1 DEF SettledInv, Present, PreKeyring
<1>6. UNCHANGED <<slots, files, journal, held, op, pc>> => PreInv'
  BY <1>1 DEF PreInv, Present, PreKeyring
<1>7. UNCHANGED <<tombstone, files, slots>> => TombstoneInv'
  BY DEF TombstoneInv, Present
<1>8. UNCHANGED <<files, fresh>> => KeysInv'
  BY DEF KeysInv, Present, PreKeyring
<1>9. UNCHANGED <<held, slots, files, fresh>> => \A s \in Session : HeldAt(s)'
  BY DEF HeldAt, Numbered, Present, PreKeyring
<1>10. UNCHANGED <<op, pc, plan, slots, files, staged, journal, fresh>> => PlanInv'
  <2> SUFFICES ASSUME UNCHANGED <<op, pc, plan, slots, files, staged, journal, fresh>>
               PROVE  PlanInv'
    OBVIOUS
  <2>1. StagedTree' = StagedTree /\ Present' = Present
    BY TreeStays
  <2> QED
    BY <2>1 DEF PlanInv
<1>11. UNCHANGED <<slots, files, journal, staged, acked>> => InstallInv'
  BY <1>1 DEF InstallInv, Present
<1>12. UNCHANGED <<files, acked>> => AckedKept'
  BY DEF AckedKept, Present
<1>13. UNCHANGED files => RefsResolve'
  BY DEF RefsResolve, Present
<1> QED
  BY <1>1, <1>2, <1>3, <1>4, <1>5, <1>6, <1>7, <1>8, <1>9, <1>10, <1>11, <1>12, <1>13

\* Where a command stands says which one it is.
LEMMA Where ==
  ASSUME IInv
  PROVE  /\ pc \in Preparing \cup {"settle"} => op = "rekey" /\ plan \in Plan
         /\ pc = "install" => op \in {"rekey", "resume"} /\ journal # None /\ Committed
         /\ pc = "reseal" => op = "migrate" /\ plan \in Passphrase
         /\ pc = "slot" => op = "kit"
         /\ pc \in {"stage", "kit", "journal", "settle", "reseal", "slot"} => journal = None
         /\ op # "idle" => verified = None
<1>1. op = "idle" \/ op = "rekey" \/ op = "resume" \/ op = "migrate" \/ op = "kit"
  BY DEF IInv, TypeInv, Operations
<1> QED
  BY <1>1 DEF IInv, CommandInv, Preparing, Locations
----------------------------------------------------------------------------
(* The staging tree of a re-key. *)

LEMMA Renaming ==
  ASSUME plan \in Plan, Names(Present), NEW n \in Present
  PROVE  /\ Renamed(n) \in Name /\ Renamed(n).kind = n.kind
         /\ n.kind = "note" => n = Note /\ Renamed(n) = Note
         /\ n.kind = "kv" => n = Kv /\ Renamed(n) = Kv
         /\ n.kind = "attachment" => Renamed(n) = Attachment(plan.ident)
<1>1. n \in Name /\ plan.ident \in Nat
  BY DEF Names, Plan
<1>2. CASE n.kind \in {"attachment", "sync"}
  <2>1. Renamed(n) = [n EXCEPT !.id = plan.ident]
    BY <1>2 DEF Renamed
  <2>2. n = [kind |-> n.kind, id |-> n.id] /\ n.kind \in {"note", "kv", "attachment", "sync"}
    BY <1>1 DEF Name
  <2>3. Renamed(n) = [kind |-> n.kind, id |-> plan.ident]
    BY <2>1, <2>2
  <2> QED
    BY <1>1, <1>2, <2>3 DEF Name, Attachment
<1>3. CASE n.kind \notin {"attachment", "sync"}
  <2>1. Renamed(n) = n
    BY <1>3 DEF Renamed
  <2> QED
    BY <1>1, <1>3, <2>1 DEF Names
<1> QED
  BY <1>2, <1>3

LEMMA Resealing ==
  ASSUME FilesOK, plan \in Plan, NEW n \in Present
  PROVE  /\ Reseal(n) \in Sealed /\ Reseal(n).key = plan.keys /\ Reseal(n).ver = files[n].ver
         /\ Reseal(n).ref = files[n].ref
         /\ Rewritten(n) \in Sealed /\ Rewritten(n).key = plan.keys
         /\ Rewritten(n).ver = files[n].ver
         /\ n = Note => Rewritten(n).ref = IF files[n].ref = 0 THEN 0 ELSE plan.ident
<1>1. files[n] \in Sealed /\ plan.keys \in Keys /\ plan.ident \in Nat
  BY DEF FilesOK, Plan, Keys
<1>2. /\ Reseal(n) \in Sealed /\ Reseal(n).key = plan.keys /\ Reseal(n).ver = files[n].ver
      /\ Reseal(n).ref = files[n].ref
  BY <1>1 DEF Reseal, Sealed
<1> DEFINE r == Reseal(n)
<1>3. [r EXCEPT !.ref = plan.ident] \in Sealed /\ [r EXCEPT !.ref = plan.ident].key = r.key
        /\ [r EXCEPT !.ref = plan.ident].ver = r.ver /\ [r EXCEPT !.ref = plan.ident].ref = plan.ident
  <2> HIDE DEF r
  <2> QED
    BY <1>1, <1>2 DEF Sealed, r
<1>4. Rewritten(n) = IF n = Note /\ files[n].ref # 0 THEN [r EXCEPT !.ref = plan.ident] ELSE r
  BY DEF Rewritten
<1> HIDE DEF r
<1> QED
  BY <1>2, <1>3, <1>4 DEF r

\* The tree has a file for each one of the vault, under the new keys and with the old
\* contents, and its note refers into it.
LEMMA Staging ==
  ASSUME FilesOK, plan \in Plan, RefsResolve
  PROVE  /\ StagedTree \in [DOMAIN StagedTree -> Sealed] /\ Names(DOMAIN StagedTree)
         /\ \A m \in DOMAIN StagedTree : StagedTree[m].key = plan.keys
         /\ \A n \in {Note, Kv} : /\ n \in Present <=> n \in DOMAIN StagedTree
                                  /\ n \in Present => StagedTree[n].ver = files[n].ver
         /\ Note \in Present /\ StagedTree[Note].ref # 0 =>
              Attachment(StagedTree[Note].ref) \in DOMAIN StagedTree
<1>1. CASE ~Rotating
  <2>1. StagedTree = [n \in Present |-> Reseal(n)]
    BY <1>1 DEF StagedTree
  <2>2. \A n \in Present : /\ Reseal(n) \in Sealed /\ Reseal(n).key = plan.keys
                           /\ Reseal(n).ver = files[n].ver /\ Reseal(n).ref = files[n].ref
    BY Resealing
  <2> HIDE DEF StagedTree
  <2>3. Note \in Present /\ files[Note].ref # 0 => Attachment(files[Note].ref) \in Present
    BY DEF RefsResolve
  <2> QED
    BY <2>1, <2>2, <2>3 DEF FilesOK
<1>2. CASE Rotating
  <2> DEFINE Of(m) == CHOOSE n \in Present : Renamed(n) = m
             New == {Renamed(n) : n \in Present}
  <2>1. StagedTree = [m \in New |-> Rewritten(Of(m))]
    BY <1>2 DEF StagedTree
  <2>2. \A m \in New : Of(m) \in Present /\ Renamed(Of(m)) = m
    OBVIOUS
  <2>3. \A n \in Present : /\ Rewritten(n) \in Sealed /\ Rewritten(n).key = plan.keys
                           /\ Rewritten(n).ver = files[n].ver
                           /\ n = Note => Rewritten(n).ref = IF files[n].ref = 0 THEN 0 ELSE plan.ident
    BY Resealing
  <2>4. \A n \in Present : /\ Renamed(n) \in Name /\ Renamed(n).kind = n.kind
                           /\ n.kind = "note" => n = Note /\ Renamed(n) = Note
                           /\ n.kind = "kv" => n = Kv /\ Renamed(n) = Kv
                           /\ n.kind = "attachment" => Renamed(n) = Attachment(plan.ident)
    BY Renaming DEF FilesOK
  <2>5. Note.kind = "note" /\ Kv.kind = "kv"
    BY DEF Note, Kv
  <2>6. \A m \in New : (m.kind = "note" => m = Note) /\ (m.kind = "kv" => m = Kv) /\ m \in Name
    BY <2>4
  <2>7. \A n \in {Note, Kv} : /\ n \in Present <=> n \in New
                              /\ n \in New => Of(n) = n
    <3>1. \A n \in {Note, Kv} : n \in Present => Renamed(n) = n
      BY <2>4, <2>5
    <3>2. \A n \in {Note, Kv}, m \in Present : Renamed(m) = n => m = n
      BY <2>4, <2>5
    <3>3. \A n \in {Note, Kv} : n \in Present => n \in New
      BY <3>1
    <3>4. \A n \in {Note, Kv} : n \in New => n \in Present
      BY <3>2
    <3>5. \A n \in {Note, Kv} : n \in New => Of(n) = n
      BY <2>2, <3>2
    <3> QED
      BY <3>3, <3>4, <3>5
  <2>8. Note \in Present /\ files[Note].ref # 0 => Attachment(plan.ident) \in New
    <3> SUFFICES ASSUME Note \in Present, files[Note].ref # 0
                 PROVE  Attachment(plan.ident) \in New
      OBVIOUS
    <3> DEFINE a == Attachment(files[Note].ref)
    <3>1. a \in Present
      BY DEF RefsResolve
    <3>2. a.kind = "attachment"
      BY DEF Attachment
    <3>3. Renamed(a) = Attachment(plan.ident)
      BY <2>4, <3>1, <3>2
    <3> QED
      BY <3>1, <3>3
  <2> HIDE DEF Of, New
  <2>9. DOMAIN StagedTree = New /\ \A m \in New : StagedTree[m] = Rewritten(Of(m))
    BY <2>1
  <2>10. StagedTree \in [New -> Sealed] /\ \A m \in New : StagedTree[m].key = plan.keys
    BY <2>1, <2>2, <2>3
  <2>11. \A n \in {Note, Kv} : /\ n \in Present <=> n \in New
                               /\ n \in Present => StagedTree[n].ver = files[n].ver
    BY <2>3, <2>7, <2>9
  <2>12. Note \in Present /\ StagedTree[Note].ref # 0 => Attachment(StagedTree[Note].ref) \in New
    BY <2>3, <2>7, <2>8, <2>9
  <2>13. Names(New)
    BY <2>6 DEF Names
  <2> QED
    BY <2>9, <2>10, <2>11, <2>12, <2>13
<1> QED
  BY <1>1, <1>2
----------------------------------------------------------------------------
(* Types. *)

LEMMA OpenedIsSlot ==
  ASSUME TypeInv, NEW p, NEW k \in OpenedBy(p)
  PROVE  /\ k \in slots /\ k \in Slot /\ k.secret = p
         /\ k.id \in Nat /\ k.keys \in Nat /\ k.retiring \in Nat /\ k.ident \in Nat
  BY SlotFields DEF OpenedBy, TypeInv

\* A file that is written keeps the names and types of the others.
LEMMA FilesStay ==
  ASSUME FilesOK, NEW n \in {Note, Kv}, NEW x \in Sealed, files' = Stored(files, n, x)
  PROVE  FilesOK'
<1>1. files' \in [Present \cup {n} -> Sealed] /\ DOMAIN files' = Present \cup {n}
  BY StoringOne DEF FilesOK, Present
<1>2. n \in Name /\ (n.kind = "note" => n = Note) /\ (n.kind = "kv" => n = Kv)
  BY NamesOf DEF Note, Kv
<1> QED
  BY <1>1, <1>2 DEF FilesOK, Names, Present

LEMMA NewKeysTyped ==
  ASSUME plan \in Plan, NEW r \in Nat
  PROVE  /\ NewKeys(r).keys = plan.keys /\ NewKeys(r).retiring = r /\ NewKeys(r).ident = plan.ident
         /\ plan.keys \in Nat /\ plan.ident \in Nat /\ plan.id \in Nat
         /\ plan.secret \in Passphrase /\ plan.old \in Slot /\ plan.old.keys \in Nat
  BY DEF NewKeys, Plan, Slot

\* The slot of the kit is kept, with the new keys.
LEMMA RecoverySlots ==
  ASSUME TypeInv, plan \in Plan
  PROVE  /\ RecoverySlot \subseteq Slot
         /\ \A t \in RecoverySlot : /\ t.keys = plan.keys /\ t.retiring = 0 /\ t.label = "recovery"
                                    /\ t.secret = Code
                                    /\ \E s \in slots : s.label = "recovery" /\ t.id = s.id
         /\ SlotsInv => \A t, u \in RecoverySlot : t = u
<1> DEFINE T(s) == Wrap(s.id, "recovery", Code, NewKeys(0))
<1>1. RecoverySlot = {T(s) : s \in {t \in slots : t.label = "recovery"}}
  BY DEF RecoverySlot
<1>2. \A s \in slots : /\ T(s) \in Slot /\ T(s).keys = plan.keys /\ T(s).retiring = 0
                       /\ T(s).label = "recovery" /\ T(s).secret = Code /\ T(s).id = s.id
  <2> SUFFICES ASSUME NEW s \in slots
               PROVE  /\ T(s) \in Slot /\ T(s).keys = plan.keys /\ T(s).retiring = 0
                      /\ T(s).label = "recovery" /\ T(s).secret = Code /\ T(s).id = s.id
    OBVIOUS
  <2>1. s.id \in Nat /\ 0 \in Nat
    BY SlotFields DEF TypeInv
  <2> QED
    BY <2>1, NewKeysTyped, Wrapping
<1>3. SlotsInv => \A s, u \in slots : s.label = "recovery" /\ u.label = "recovery" => s = u
  BY DEF SlotsInv
<1> HIDE DEF T
<1> QED
  BY <1>1, <1>2, <1>3

LEMMA TypesOfUse ==
  ASSUME NothingOverlaps, IInv, Using
  PROVE  TypeInv'
<1> USE DEF TypeInv
<1>0. TypeInv /\ FilesOK
  BY DEF IInv
<1>1. ASSUME NEW s \in Session, Close(s) PROVE TypeInv'
  BY <1>0, <1>1 DEF Close, vault, staging, command, FilesOK, Present
<1>2. ASSUME NEW s \in Session, NEW p \in Passphrase, Open(s, p) PROVE TypeInv'
  <2> DEFINE w == Wrap(0, "primary", p, [keys |-> Legacy, retiring |-> 0, ident |-> Legacy])
  <2>1. w \in Slot
    BY Wrapping DEF Legacy
  <2> HIDE DEF w
  <2>2. \E k \in Slot : held' = [held EXCEPT ![s] = k]
    BY <1>0, <1>2, <2>1, OpenedIsSlot DEF Open, w
  <2>3. held' \in [Session -> Slot \cup {None}]
    BY <1>0, <2>2
  <2> QED
    BY <1>0, <1>2, <2>3 DEF Open, vault, staging, command, FilesOK, Present
<1>3. ASSUME NEW s \in Session, NEW attach \in BOOLEAN, WriteNote(s, attach) PROVE TypeInv'
  <2> DEFINE k == held[s]
             old == IF Note \in Present THEN files[Note].ref ELSE 0
             note == [key |-> k.keys, ver |-> writes + 1, ref |-> IF attach THEN k.ident ELSE old]
             blobs == {Sync(k.ident)} \cup (IF attach THEN {Attachment(k.ident)} ELSE {})
  <2>1. k \in Slot /\ k.keys \in Nat /\ k.ident \in Nat
    BY <1>0, <1>3, SlotFields DEF WriteNote
  <2>2. old \in Nat
    BY <1>0 DEF FilesOK, Sealed
  <2>3. note \in Sealed /\ Blob(k.keys) \in Sealed
    BY <1>0, <2>1, <2>2 DEF Sealed, Keys, Blob
  <2>4. blobs \subseteq Name /\ \A n \in blobs : n.kind \in {"attachment", "sync"}
    BY <2>1, NamesOf
  <2>5. files' = [n \in Present \cup {Note} \cup blobs |->
                    IF n = Note THEN note ELSE IF n \in blobs THEN Blob(k.keys) ELSE files[n]]
    BY <1>3 DEF WriteNote
  <2> HIDE DEF note, blobs
  <2>6. FilesOK'
    <3>1. DOMAIN files' = Present \cup {Note} \cup blobs
      BY <2>5
    <3>2. files' \in [DOMAIN files' -> Sealed]
      BY <1>0, <2>3, <2>5 DEF FilesOK
    <3>3. Names(Present \cup {Note} \cup blobs)
      BY <1>0, <2>4, NamesOf DEF FilesOK, Names, Note
    <3> QED
      BY <3>1, <3>2, <3>3 DEF FilesOK, Present
  <2>7. writes' \in Nat /\ acked' \in [note : Nat, kv : Nat]
    BY <1>0, <1>3 DEF WriteNote
  <2> QED
    BY <1>0, <1>3, <2>6, <2>7 DEF WriteNote, staging, command
<1>4. ASSUME NEW p \in Passphrase, WriteKv(p) PROVE TypeInv'
  <2> PICK k \in OpenedBy(p) :
        files' = Stored(files, Kv, [key |-> k.keys, ver |-> writes + 1, ref |-> 0])
    BY <1>4 DEF WriteKv
  <2>1. [key |-> k.keys, ver |-> writes + 1, ref |-> 0] \in Sealed
    BY <1>0, OpenedIsSlot DEF Sealed, Keys
  <2>2. FilesOK'
    BY <1>0, <2>1, FilesStay
  <2>3. writes' \in Nat /\ acked' \in [note : Nat, kv : Nat]
    BY <1>0, <1>4 DEF WriteKv
  <2> QED
    BY <1>0, <1>4, <2>2, <2>3 DEF WriteKv, staging, command
<1> QED
  BY <1>1, <1>2, <1>3, <1>4 DEF Using
LEMMA TypesOfRekey ==
  ASSUME NothingOverlaps, IInv, Rekeying
  PROVE  TypeInv'
<1> USE DEF TypeInv
<1>0. TypeInv /\ FilesOK /\ (op = "rekey" => plan \in Plan)
  BY DEF IInv, CommandInv
<1>1. UNCHANGED files => FilesOK'
  BY <1>0 DEF FilesOK, Present
<1>3. pc \in {"kit", "journal", "commit", "settle"} => op = "rekey" /\ plan \in Plan
  BY Where DEF Preparing
<1>4. ASSUME NEW p \in Passphrase, NEW new \in Passphrase, NEW rotate \in BOOLEAN,
             BeginRekey(p, new, rotate)
      PROVE  TypeInv'
  BY <1>0, <1>1, <1>4 DEF BeginRekey, Run, Taken, vault, staging, sessions, Operations, Locations,
     Preparing
<1>5. CASE Stage
  BY <1>0, <1>1, <1>5 DEF Stage, Done, Run, Step, vault, sessions, Operations, Locations, Preparing
<1>6. CASE AdvanceKit
  <2>1. plan \in Plan
    BY <1>3, <1>6 DEF AdvanceKit
  <2>2. RecoverySlot # {} => (CHOOSE s \in RecoverySlot : TRUE) \in RecoverySlot
    OBVIOUS
  <2>3. kit' \in Slot \cup {None}
    BY <1>0, <1>6, <2>1, <2>2, RecoverySlots DEF AdvanceKit
  <2> QED
    BY <1>0, <1>1, <1>6, <2>3 DEF AdvanceKit, Step, vault, staging, sessions, Locations, Preparing
<1>7. CASE GiveUp
  BY <1>0, <1>1, <1>7 DEF GiveUp, Done, Run, vault, sessions, Operations, Locations, Preparing
<1>8. CASE WriteJournal
  <2>1. plan \in Plan /\ staged = StagedTree
    BY <1>3, <1>8 DEF WriteJournal, IInv, PlanInv
  <2>2. DOMAIN staged \subseteq Name /\ Present \subseteq Name /\ plan.id \in Nat
    BY <1>0, <2>1, Staging, NewKeysTyped DEF IInv, Names, FilesOK
  <2>3. journal' \in Journal
    BY <1>8, <2>2 DEF WriteJournal, Journal
  <2> QED
    BY <1>0, <1>1, <1>8, <2>3 DEF WriteJournal, Step, vault, sessions, Locations, Preparing
<1>9. CASE Commit
  <2>1. plan \in Plan
    BY <1>3, <1>9 DEF Commit
  <2> DEFINE w == Wrap(plan.id, "primary", plan.secret, NewKeys(plan.old.keys))
  <2>2. w \in Slot
    BY <2>1, NewKeysTyped, Wrapping
  <2> HIDE DEF w
  <2>3. slots' = {w} \cup RecoverySlot
    BY <1>9 DEF Commit, w
  <2>4. slots' \subseteq Slot
    BY <1>0, <2>1, <2>2, <2>3, RecoverySlots
  <2> QED
    BY <1>0, <1>1, <1>9, <2>4 DEF Commit, Step, staging, sessions, Locations
<1>10. CASE InstallOne
  <2> PICK n \in Remaining : files' = Stored(files, n, staged[n])
    BY <1>10 DEF InstallOne
  <2>1. Committed /\ staged \in [DOMAIN staged -> Sealed] /\ Names(journal.files)
    BY <1>10 DEF InstallOne, IInv, CommandInv, InstallInv
  <2>2. n \in DOMAIN staged /\ n \in journal.files /\ staged[n] \in Sealed
    BY <2>1 DEF Remaining
  <2>3. files' \in [Present \cup {n} -> Sealed] /\ DOMAIN files' = Present \cup {n}
    BY <1>0, <2>2, StoringOne DEF FilesOK, Present
  <2>4. FilesOK'
    BY <1>0, <2>1, <2>2, <2>3 DEF FilesOK, Names, Present
  <2> QED
    BY <1>0, <1>10, <2>4 DEF InstallOne, command, sessions
<1>11. CASE DeleteOne
  <2> PICK n \in journal.deletes \cap Present : files' = Without(files, {n})
    BY <1>11 DEF DeleteOne
  <2>1. files' \in [Present \ {n} -> Sealed] /\ DOMAIN files' = Present \ {n}
    BY <1>0, TakingAway DEF FilesOK, Present
  <2>2. FilesOK'
    BY <1>0, <2>1 DEF FilesOK, Names, Present
  <2> QED
    BY <1>0, <1>11, <2>2 DEF DeleteOne, staging, command, sessions
<1>12. CASE Clear
  BY <1>0, <1>1, <1>12 DEF Clear, Done, Run, Step, vault, sessions, Operations, Locations
<1>13. CASE Settle
  <2>1. plan \in Plan
    BY <1>3, <1>13 DEF Settle
  <2> DEFINE T(s) == Wrap(s.id, s.label, s.secret, NewKeys(0))
  <2>2. ASSUME NEW s \in slots PROVE T(s) \in Slot
    BY <1>0, <2>1, NewKeysTyped, Wrapping, SlotFields
  <2> HIDE DEF T
  <2>3. slots' \in {slots, {T(s) : s \in slots}}
    BY <1>13 DEF Settle, T
  <2>4. slots' \subseteq Slot
    BY <1>0, <2>2, <2>3
  <2> QED
    BY <1>0, <1>1, <1>13, <2>4 DEF Settle, Done, Run, staging, sessions, Operations, Locations
<1>14. CASE Recover
  BY <1>0, <1>1, <1>14 DEF Recover, Run, vault, staging, command, sessions, Operations, Locations
<1> QED
  BY <1>4, <1>5, <1>6, <1>7, <1>8, <1>9, <1>10, <1>11, <1>12, <1>13, <1>14 DEF Rekeying

LEMMA TypesOfMigration ==
  ASSUME NothingOverlaps, IInv, Migrating
  PROVE  TypeInv'
<1> USE DEF TypeInv
<1>0. TypeInv /\ FilesOK
  BY DEF IInv
<1>1. UNCHANGED files => FilesOK'
  BY <1>0 DEF FilesOK, Present
<1>2. ASSUME NEW p \in Passphrase, BeginMigrate(p) PROVE TypeInv'
  <2> DEFINE w == Wrap(fresh', "primary", p, [keys |-> Legacy, retiring |-> 0, ident |-> Legacy])
  <2>1. fresh' \in Nat
    BY <1>0, <1>2 DEF BeginMigrate, Taken
  <2>2. w \in Slot
    BY <2>1, Wrapping DEF Legacy
  <2> HIDE DEF w
  <2>3. slots' = {w}
    BY <1>2 DEF BeginMigrate, w
  <2> QED
    BY <1>0, <1>1, <1>2, <2>1, <2>2, <2>3 DEF BeginMigrate, Run, staging, sessions, Operations, Locations
<1>3. ASSUME NEW p \in Passphrase, ResumeMigrate(p) PROVE TypeInv'
  BY <1>0, <1>1, <1>3 DEF ResumeMigrate, Run, vault, staging, sessions, Operations, Locations
<1>4. CASE MigrateOne
  <2> PICK n \in Present : \E k \in OpenedBy(plan) : files' = [files EXCEPT ![n].key = k.keys]
    BY <1>4 DEF MigrateOne
  <2> PICK k \in OpenedBy(plan) : files' = [files EXCEPT ![n].key = k.keys]
    OBVIOUS
  <2>1. files[n] \in Sealed /\ k.keys \in Keys
    BY <1>0, OpenedIsSlot DEF FilesOK, Keys
  <2>2. [files[n] EXCEPT !.key = k.keys] \in Sealed
    BY <2>1 DEF Sealed
  <2>3. files' = [files EXCEPT ![n] = [files[n] EXCEPT !.key = k.keys]]
    OBVIOUS
  <2> HIDE DEF TypeInv
  <2>4. files' \in [Present -> Sealed] /\ Present' = Present
    BY <1>0, <2>2, <2>3 DEF FilesOK, Present
  <2>5. FilesOK'
    BY <1>0, <2>4 DEF FilesOK
  <2> QED
    BY <1>0, <1>4, <2>5 DEF MigrateOne, staging, command, sessions, TypeInv
<1>5. CASE Tombstone
  BY <1>0, <1>1, <1>5 DEF Tombstone, Done, Run, staging, sessions, Operations, Locations
<1> QED
  BY <1>2, <1>3, <1>4, <1>5 DEF Migrating

LEMMA TypesOfSlots ==
  ASSUME NothingOverlaps, IInv, Slots \/ Die \/ LoseKeyring
  PROVE  TypeInv'
<1> USE DEF TypeInv
<1>0. TypeInv /\ FilesOK
  BY DEF IInv
<1>1. UNCHANGED files => FilesOK'
  BY <1>0 DEF FilesOK, Present
<1>2. ASSUME NEW p \in Passphrase, Create(p) PROVE TypeInv'
  <2> DEFINE w == Wrap(fresh', "primary", p, [keys |-> fresh', retiring |-> 0, ident |-> fresh'])
  <2>1. fresh' \in Nat
    BY <1>0, <1>2 DEF Create, Taken
  <2>2. w \in Slot
    BY <2>1, Wrapping
  <2> HIDE DEF w
  <2>3. slots' = {w}
    BY <1>2 DEF Create, w
  <2> QED
    BY <1>0, <1>1, <1>2, <2>1, <2>2, <2>3 DEF Create, staging, command, sessions
<1>3. ASSUME NEW p \in Passphrase, BeginKit(p) PROVE TypeInv'
  <2> PICK k \in OpenedBy(p) : kit' = Wrap(fresh', "recovery", Code, [k EXCEPT !.retiring = 0])
    BY <1>3 DEF BeginKit
  <2>1. fresh' \in Nat
    BY <1>0, <1>3 DEF BeginKit, Taken
  <2>2. k \in Slot
    BY <1>0, OpenedIsSlot
  <2>3. [k EXCEPT !.retiring = 0].keys \in Nat /\ [k EXCEPT !.retiring = 0].retiring \in Nat
          /\ [k EXCEPT !.retiring = 0].ident \in Nat
    BY <2>2 DEF Slot
  <2>4. kit' \in Slot
    BY <2>1, <2>3, Wrapping
  <2> QED
    BY <1>0, <1>1, <1>3, <2>1, <2>4 DEF BeginKit, Run, vault, staging, sessions, Operations, Locations
<1>4. ASSUME NEW p \in Passphrase, RemoveSlot(p) PROVE TypeInv'
  BY <1>0, <1>1, <1>4 DEF RemoveSlot, staging, command, sessions
<1>5. ASSUME NEW p \in Passphrase, Restore(p) PROVE TypeInv'
  <2> DEFINE w == Wrap(fresh', "primary", p, verified)
  <2>1. fresh' \in Nat /\ verified \in Slot
    BY <1>0, <1>5 DEF Restore, Taken
  <2>2. w \in Slot
    BY <2>1, Wrapping, SlotFields
  <2> HIDE DEF w
  <2>3. slots' = {w, verified}
    BY <1>5 DEF Restore, w
  <2> QED
    BY <1>0, <1>1, <1>5, <2>1, <2>2, <2>3 DEF Restore, staging, command, sessions
<1>6. ASSUME NEW p \in Passphrase, NEW new \in Passphrase, ChangePassphrase(p, new) PROVE TypeInv'
  <2> DEFINE T(s) == Wrap(fresh', "primary", new, s)
  <2>1. fresh' \in Nat
    BY <1>0, <1>6 DEF ChangePassphrase, Taken
  <2>2. \A s \in OpenedBy(p) : T(s) \in Slot
    BY <1>0, <2>1, Wrapping, OpenedIsSlot
  <2> HIDE DEF T
  <2>3. slots' = (slots \ OpenedBy(p)) \cup {T(s) : s \in OpenedBy(p)}
    BY <1>6 DEF ChangePassphrase, T
  <2> QED
    BY <1>0, <1>1, <1>6, <2>1, <2>2, <2>3 DEF ChangePassphrase, staging, command, sessions
<1>7. CASE AddSlot
  <2>1. kit \in Slot
    BY <1>0, <1>7 DEF AddSlot, IInv, KitInv
  <2> QED
    BY <1>0, <1>1, <1>7, <2>1 DEF AddSlot, Done, Run, staging, sessions, Operations, Locations
<1>8. CASE VerifyKit
  BY <1>0, <1>1, <1>8 DEF VerifyKit, vault, staging, command, sessions
<1>9. CASE Die
  BY <1>0, <1>1, <1>9 DEF Die, Done, Run, vault, staging, sessions, Operations, Locations
<1>10. CASE LoseKeyring
  BY <1>0, <1>1, <1>10 DEF LoseKeyring, staging, command, sessions
<1> QED
  BY <1>2, <1>3, <1>4, <1>5, <1>6, <1>7, <1>8, <1>9, <1>10 DEF Slots
----------------------------------------------------------------------------
(* Steps that leave the files. *)

LEMMA StillNumbered ==
  ASSUME fresh \in Nat, fresh' \in Nat, fresh <= fresh', NEW s \in Slot, Numbered(s, fresh)
  PROVE  /\ Numbered(s, fresh')
         /\ IsKit(s, fresh) => IsKit(s, fresh')
<1>1. s.keys \in Nat /\ s.id \in Nat
  BY SlotFields
<1> QED
  BY <1>1 DEF Numbered, IsKit

\* What a session holds and what the files are under stay in order.
LEMMA KeysStay ==
  ASSUME IInv, UNCHANGED <<files, held>>, fresh' \in Nat, fresh <= fresh',
         \A s \in Session, t \in slots' : held[s] # None => held[s].keys <= t.keys
  PROVE  KeysInv' /\ \A s \in Session : HeldAt(s)'
<1>1. TypeInv /\ fresh \in Nat
  BY DEF IInv, TypeInv
<1>2. KeysInv'
  <2> SUFFICES ASSUME NEW n \in Present, ~PreKeyring(n)
               PROVE  0 < files[n].key /\ files[n].key <= fresh'
    BY <1>1 DEF IInv, KeysInv, Present, PreKeyring
  <2>1. files[n].key \in Nat
    BY <1>1 DEF TypeInv, FilesOK, Sealed, Keys, PreKeyring
  <2>2. 0 < files[n].key /\ files[n].key <= fresh
    BY DEF IInv, KeysInv
  <2> QED
    BY <1>1, <2>1, <2>2
<1>3. ASSUME NEW s \in Session PROVE HeldAt(s)'
  <2> SUFFICES ASSUME held[s] # None
               PROVE  /\ Numbered(held[s], fresh')
                      /\ \A t \in slots' : held[s].keys <= t.keys
                      /\ \A n \in Present : ~PreKeyring(n) => held[s].keys <= files[n].key
    BY DEF HeldAt, Present, PreKeyring
  <2>1. HeldAt(s) /\ held[s] \in Slot
    BY <1>1 DEF IInv, TypeInv
  <2>2. Numbered(held[s], fresh')
    <3>1. Numbered(held[s], fresh)
      BY <2>1 DEF HeldAt
    <3> QED
      BY <1>1, <2>1, <3>1, StillNumbered
  <2> QED
    BY <2>1, <2>2 DEF HeldAt
<1> QED
  BY <1>2, <1>3

\* New slots for the same files, while no re-key is under way.
LEMMA NewSlots ==
  ASSUME IInv, TypeInv', journal = None, UNCHANGED <<files, journal, held, acked>>, fresh <= fresh',
         op' # "rekey",
         \A s \in slots' : Numbered(s, fresh'),
         \A s, t \in slots' : s.keys = t.keys /\ (s.label = t.label => s = t),
         slots' # {} => \E s \in slots' : s.label = "primary",
         \A s \in slots', n \in Present :
            IF PreKeyring(n) THEN s.keys = Legacy /\ (s.label = "primary" => s.secret = First)
            ELSE files[n].key = s.keys,
         \A s \in Session, t \in slots' : held[s] # None => held[s].keys <= t.keys,
         ~tombstone' => Kv \in Present \/ (Present = {} /\ slots' = {})
  PROVE  /\ SlotsInv' /\ SettledInv' /\ PreInv' /\ TombstoneInv' /\ KeysInv'
         /\ (\A s \in Session : HeldAt(s)') /\ PlanInv' /\ InstallInv' /\ AckedKept' /\ RefsResolve'
<1>1. KeysInv' /\ \A s \in Session : HeldAt(s)'
  BY KeysStay DEF TypeInv
<1>2. AckedKept' /\ RefsResolve'
  BY Untouched
<1>3. ~Committed' /\ Present' = Present /\ \A n : PreKeyring(n)' <=> PreKeyring(n)
  BY DEF Committed, Present, PreKeyring
<1>4. SlotsInv'
  BY DEF SlotsInv
<1>5. SettledInv'
  BY <1>3 DEF SettledInv
<1>6. PreInv'
  <2> SUFFICES ASSUME NEW n \in Present, PreKeyring(n)
               PROVE  /\ n = Kv /\ files[n].key = First
                      /\ \A m \in Present \ {Kv} : files[m].key = Legacy
                      /\ \A s \in slots' : s.keys = Legacy /\ (s.label = "primary" => s.secret = First)
                      /\ \A s \in Session : held[s] # None => held[s].keys = Legacy
    BY <1>3 DEF PreInv
  <2> QED
    BY DEF IInv, PreInv
<1>7. PlanInv' /\ InstallInv' /\ TombstoneInv'
  BY <1>3 DEF PlanInv, InstallInv, TombstoneInv
<1> QED
  BY <1>1, <1>2, <1>4, <1>5, <1>6, <1>7

\* A command goes on, and slots and files stay.
LEMMA SameVault ==
  ASSUME IInv, TypeInv', UNCHANGED <<slots, files, held, acked>>, fresh <= fresh',
         ~Committed' => ~Committed \/ \A s \in slots, n \in Present : files[n].key = s.keys,
         ~Committed' \/ (Committed /\ journal' = journal /\ staged' = staged),
         tombstone' = tombstone \/ tombstone',
         op' = "rekey" => pc' = "stage" \/ \A n \in Present : ~PreKeyring(n)
  PROVE  /\ SlotsInv' /\ SettledInv' /\ PreInv' /\ TombstoneInv' /\ KeysInv'
         /\ (\A s \in Session : HeldAt(s)') /\ InstallInv' /\ AckedKept' /\ RefsResolve'
<1>1. KeysInv' /\ \A s \in Session : HeldAt(s)'
  <2>1. \A s \in Session, t \in slots' : held[s] # None => held[s].keys <= t.keys
    BY DEF IInv, HeldAt
  <2> QED
    BY <2>1, KeysStay DEF TypeInv
<1>2. AckedKept' /\ RefsResolve'
  BY Untouched
<1>3. Present' = Present /\ \A n : PreKeyring(n)' <=> PreKeyring(n)
  BY DEF Present, PreKeyring
<1>4. SlotsInv'
  <2>1. ASSUME NEW s \in slots PROVE Numbered(s, fresh')
    <3>1. s \in Slot /\ Numbered(s, fresh) /\ fresh \in Nat /\ fresh' \in Nat
      BY DEF IInv, SlotsInv, TypeInv
    <3> QED
      BY <3>1, StillNumbered
  <2> QED
    BY <2>1 DEF IInv, SlotsInv
<1>5. SettledInv'
  BY <1>3 DEF IInv, SettledInv
<1>6. PreInv'
  <2>1. \A n \in Present : PreKeyring(n) => ~Committed'
    BY DEF IInv, PreInv
  <2> QED
    BY <1>3, <2>1 DEF IInv, PreInv
<1>7. TombstoneInv'
  BY <1>3 DEF IInv, TombstoneInv
<1>8. InstallInv'
  BY <1>3 DEF IInv, InstallInv
<1> QED
  BY <1>1, <1>2, <1>4, <1>5, <1>6, <1>7, <1>8

LEMMA KitStays ==
  ASSUME IInv, TypeInv', fresh <= fresh', kit' = kit, verified' \in {verified, None}, op' # "kit",
         verified' # None => UNCHANGED files
  PROVE  KitInv'
<1>1. fresh \in Nat /\ fresh' \in Nat
  BY DEF IInv, TypeInv
<1>2. kit # None => IsKit(kit, fresh') /\ IsKit(kit', fresh')
  <2> SUFFICES ASSUME kit # None PROVE IsKit(kit, fresh')
    BY DEF IsKit, Numbered
  <2>1. kit \in Slot /\ IsKit(kit, fresh) /\ Numbered(kit, fresh)
    BY DEF IInv, TypeInv, KitInv, IsKit
  <2> QED
    BY <1>1, <2>1, StillNumbered
<1>3. verified' # None => /\ verified' = verified /\ IsKit(verified, fresh') /\ Present' # {}
                          /\ \A n \in Present' : files'[n].key = verified'.keys
  <2> SUFFICES ASSUME verified' # None
               PROVE  /\ verified' = verified /\ IsKit(verified, fresh') /\ Present' # {}
                      /\ \A n \in Present' : files'[n].key = verified'.keys
    OBVIOUS
  <2>1. /\ verified \in Slot /\ IsKit(verified, fresh) /\ Numbered(verified, fresh)
        /\ verified' = verified
    BY DEF IInv, TypeInv, KitInv, IsKit
  <2>2. Present' # {} /\ \A n \in Present' : files'[n].key = verified'.keys
    BY DEF IInv, KitInv, Present
  <2> QED
    BY <1>1, <2>1, <2>2, StillNumbered
<1> QED
  BY <1>2, <1>3 DEF KitInv

\* Nothing that a command does leaves its place but for another that fits it.
LEMMA BackToRest ==
  ASSUME op' = "idle", pc' = "idle", verified' # None => journal' = None
  PROVE  CommandInv'
  BY DEF CommandInv, Preparing, Locations
----------------------------------------------------------------------------
(* New slots. *)

LEMMA CreateKeeps ==
  ASSUME NothingOverlaps, IInv, TypeInv', NEW p \in Passphrase, Create(p)
  PROVE  IInv'
<1> DEFINE w == Wrap(fresh', "primary", p, [keys |-> fresh', retiring |-> 0, ident |-> fresh'])
<1>1. /\ MayRun /\ Format = "empty" /\ fresh' = fresh + 1 /\ slots' = {w} /\ tombstone'
      /\ UNCHANGED <<files, staging, kit, command, verified, sessions, losses>>
  BY DEF Create, Taken
<1>2. /\ slots = {} /\ Present = {} /\ op = "idle" /\ pc = "idle" /\ journal = None
      /\ verified = None /\ fresh \in Nat
  BY <1>1, AtRest DEF Format, IInv, TypeInv
<1>3. /\ w.id = fresh' /\ w.keys = fresh' /\ w.retiring = 0 /\ w.label = "primary" /\ w.secret = p
  BY Wrapping
<1> HIDE DEF w
<1>4. fresh' \in Nat /\ 0 < fresh' /\ fresh <= fresh'
  BY <1>1, <1>2
<1>5. \A s \in slots' : Numbered(s, fresh')
  BY <1>1, <1>3, <1>4 DEF Numbered
<1>6. \A s \in Session, t \in slots' : held[s] # None => held[s].keys <= t.keys
  <2> SUFFICES ASSUME NEW s \in Session, held[s] # None PROVE held[s].keys <= fresh'
    BY <1>1, <1>3
  <2>1. held[s] \in Slot /\ held[s].keys <= fresh
    BY DEF IInv, HeldAt, Numbered, TypeInv
  <2> QED
    BY <1>2, <1>4, <2>1, SlotFields
<1>7. CommandInv'
  BY <1>1, <1>2, BackToRest DEF command
<1>8. KitInv'
  BY <1>1, <1>2, <1>4, KitStays DEF command
<1> QED
  BY <1>1, <1>2, <1>3, <1>4, <1>5, <1>6, <1>7, <1>8, NewSlots DEF IInv, staging, sessions, command

LEMMA BeginMigrateKeeps ==
  ASSUME NothingOverlaps, IInv, TypeInv', NEW p \in Passphrase, BeginMigrate(p)
  PROVE  IInv'
<1> DEFINE w == Wrap(fresh', "primary", p, [keys |-> Legacy, retiring |-> 0, ident |-> Legacy])
<1>1. /\ MayRun /\ Format = "legacy" /\ ~tombstone /\ p = First /\ fresh' = fresh + 1
      /\ Kv \in Present => files[Kv].key = p
      /\ slots' = {w} /\ op' = "migrate" /\ pc' = "reseal" /\ plan' = p
      /\ UNCHANGED <<files, tombstone, staging, kit, verified, sessions, losses>>
  BY DEF BeginMigrate, Taken, Run
<1>2. op = "idle" /\ pc = "idle" /\ journal = None /\ verified = None /\ fresh \in Nat
  BY <1>1, AtRest DEF IInv, TypeInv
<1>3. slots = {} /\ Kv \in Present /\ files[Kv].key = First /\ PreKeyring(Kv)
  BY <1>1, <1>2 DEF Format, IInv, TombstoneInv, PreKeyring
<1>4. /\ w.id = fresh' /\ w.keys = 1 /\ w.retiring = 0 /\ w.label = "primary" /\ w.secret = p
  BY Wrapping DEF Legacy
<1> HIDE DEF w
<1>5. fresh' \in Nat /\ fresh <= fresh' /\ 1 <= fresh'
  BY <1>1, <1>2
<1>6. \A s \in slots' : Numbered(s, fresh')
  BY <1>1, <1>4, <1>5 DEF Numbered
<1>7. \A s \in Session, t \in slots' : held[s] # None => held[s].keys <= t.keys
  BY <1>1, <1>3, <1>4 DEF IInv, PreInv, Legacy
<1>8. \A n \in Present : IF PreKeyring(n) THEN w.keys = Legacy /\ w.secret = First
                         ELSE files[n].key = w.keys
  BY <1>1, <1>3, <1>4 DEF IInv, PreInv, Legacy
<1>9. CommandInv'
  BY <1>1, <1>2 DEF CommandInv, Preparing, Locations, staging
<1>10. KitInv'
  BY <1>1, <1>2, <1>5, KitStays
<1> QED
  BY <1>1, <1>2, <1>3, <1>4, <1>5, <1>6, <1>7, <1>8, <1>9, <1>10, NewSlots DEF IInv, staging, sessions

LEMMA ChangePassphraseKeeps ==
  ASSUME NothingOverlaps, IInv, TypeInv', NEW p \in Passphrase, NEW new \in Passphrase,
         ChangePassphrase(p, new)
  PROVE  IInv'
<1> DEFINE T(s) == Wrap(fresh', "primary", new, s)
<1>1. /\ MayRun /\ OpenedBy(p) # {} /\ fresh' = fresh + 1 /\ Migrated
      /\ slots' = (slots \ OpenedBy(p)) \cup {T(s) : s \in OpenedBy(p)}
      /\ UNCHANGED <<files, tombstone, staging, kit, command, verified, sessions, losses>>
  BY DEF ChangePassphrase, Taken, NothingOverlaps, MigrationsEnd
<1>2. op = "idle" /\ pc = "idle" /\ journal = None /\ verified = None /\ fresh \in Nat /\ ~Committed
  BY <1>1, AtRest DEF IInv, TypeInv
<1>3. fresh' \in Nat /\ fresh <= fresh'
  BY <1>1, <1>2
<1>4. \A s \in OpenedBy(p) : /\ T(s).id = fresh' /\ T(s).keys = s.keys /\ T(s).retiring = s.retiring
                             /\ T(s).label = "primary" /\ T(s).secret = new
  BY Wrapping
<1> HIDE DEF T
<1>5. slots \subseteq Slot /\ SlotsInv
  BY DEF IInv, TypeInv
<1>6. \A s \in OpenedBy(p) : s \in slots /\ s.label = "primary"
  BY <1>5 DEF OpenedBy, SlotsInv, Numbered
<1>7. PICK o \in slots : o.label = "primary" /\ OpenedBy(p) = {o}
  BY <1>1, <1>5, <1>6 DEF SlotsInv
<1>8. slots' = (slots \ {o}) \cup {T(o)}
  BY <1>1, <1>7
<1>9. \A s \in slots' : Numbered(s, fresh')
  <2>1. ASSUME NEW s \in slots PROVE Numbered(s, fresh')
    <3>1. s \in Slot /\ Numbered(s, fresh)
      BY <1>5 DEF SlotsInv
    <3> QED
      BY <1>2, <1>3, <3>1, StillNumbered
  <2>2. T(o).retiring < T(o).keys /\ T(o).keys <= fresh' /\ T(o).id <= fresh'
    BY <1>2, <1>3, <1>4, <1>5, <1>7, <2>1, SlotFields DEF Numbered
  <2>3. Numbered(T(o), fresh')
    BY <1>4, <1>7, <2>2 DEF Numbered
  <2> QED
    BY <1>8, <2>1, <2>3
<1>10. \A s \in slots : s.keys = o.keys /\ (s # o => s.label # "primary")
  BY <1>5, <1>7 DEF SlotsInv
<1>11. \A s, t \in slots' : s.keys = t.keys /\ (s.label = t.label => s = t)
  BY <1>4, <1>5, <1>7, <1>8, <1>10 DEF SlotsInv
<1>12. \A s \in slots' : s.keys = o.keys
  BY <1>4, <1>7, <1>8, <1>10
<1>13. \A n \in Present : ~PreKeyring(n) /\ files[n].key = o.keys
  BY <1>1, <1>2, <1>7 DEF IInv, SettledInv, Migrated
<1>14. \A s \in Session, t \in slots' : held[s] # None => held[s].keys <= t.keys
  BY <1>7, <1>12 DEF IInv, HeldAt
<1>15. ~tombstone' => Kv \in Present \/ (Present = {} /\ slots' = {})
  BY <1>1, <1>7 DEF IInv, TombstoneInv
<1>16. CommandInv'
  BY <1>1, <1>2, BackToRest DEF command
<1>17. KitInv'
  BY <1>1, <1>2, <1>3, KitStays DEF command
<1>18. \E s \in slots' : s.label = "primary"
  BY <1>4, <1>7, <1>8
<1> QED
  BY <1>1, <1>2, <1>3, <1>9, <1>11, <1>12, <1>13, <1>14, <1>15, <1>16, <1>17, <1>18, NewSlots
  DEF IInv, staging, sessions, command

LEMMA RestoreKeeps ==
  ASSUME NothingOverlaps, IInv, TypeInv', NEW p \in Passphrase, Restore(p)
  PROVE  IInv'
<1> DEFINE w == Wrap(fresh', "primary", p, verified)
<1>1. /\ Idle /\ verified # None /\ fresh' = fresh + 1 /\ slots' = {w, verified}
      /\ verified' = None
      /\ UNCHANGED <<files, tombstone, staging, kit, command, sessions, losses>>
  BY DEF Restore, Taken
<1>2. op = "idle" /\ pc = "idle" /\ journal = None /\ fresh \in Nat /\ ~Committed
  BY <1>1, AtRest DEF IInv, TypeInv, Idle
<1>3. fresh' \in Nat /\ fresh <= fresh'
  BY <1>1, <1>2
<1>4. /\ w.id = fresh' /\ w.keys = verified.keys /\ w.retiring = verified.retiring
      /\ w.label = "primary" /\ w.secret = p
  BY Wrapping
<1> HIDE DEF w
<1>5. /\ verified \in Slot /\ Numbered(verified, fresh) /\ verified.label = "recovery"
      /\ Present # {} /\ \A n \in Present : files[n].key = verified.keys
  BY <1>1 DEF IInv, TypeInv, KitInv, IsKit
<1>6. Numbered(verified, fresh')
  BY <1>2, <1>3, <1>5, StillNumbered
<1>7. Numbered(w, fresh')
  BY <1>3, <1>4, <1>6 DEF Numbered
<1>8. \A n \in Present : ~PreKeyring(n)
  <2>1. verified.keys \in Nat
    BY <1>5, SlotFields
  <2> QED
    BY <1>5, <2>1, KeyringConstantsOK DEF PreKeyring
<1>9. \A s \in Session, t \in slots' : held[s] # None => held[s].keys <= t.keys
  <2> PICK n \in Present : TRUE
    BY <1>5
  <2>1. \A s \in Session : held[s] # None => held[s].keys <= files[n].key
    BY <1>8 DEF IInv, HeldAt
  <2> QED
    BY <1>1, <1>4, <1>5, <2>1
<1>10. ~tombstone' => Kv \in Present
  BY <1>1, <1>5 DEF IInv, TombstoneInv
<1>11. CommandInv'
  BY <1>1, <1>2, BackToRest DEF command
<1>12. KitInv'
  BY <1>1, <1>2, <1>3, KitStays DEF command
<1>13. \A s, t \in slots' : s.keys = t.keys /\ (s.label = t.label => s = t)
  BY <1>1, <1>4, <1>5
<1> QED
  BY <1>1, <1>2, <1>3, <1>4, <1>5, <1>6, <1>7, <1>8, <1>9, <1>10, <1>11, <1>12, <1>13, NewSlots
  DEF IInv, staging, sessions, command

\* What NewSlots asks of slots that were there before.
LEMMA FewerSlots ==
  ASSUME IInv, ~Committed, slots' \subseteq slots, UNCHANGED <<files, tombstone, held>>,
         fresh' = fresh
  PROVE  /\ \A s \in slots' : Numbered(s, fresh')
         /\ \A s, t \in slots' : s.keys = t.keys /\ (s.label = t.label => s = t)
         /\ \A s \in slots', n \in Present :
              IF PreKeyring(n) THEN s.keys = Legacy /\ (s.label = "primary" => s.secret = First)
              ELSE files[n].key = s.keys
         /\ \A s \in Session, t \in slots' : held[s] # None => held[s].keys <= t.keys
         /\ ~tombstone' => Kv \in Present \/ (Present = {} /\ slots' = {})
         /\ fresh <= fresh'
<1>1. SlotsInv /\ SettledInv /\ PreInv /\ TombstoneInv /\ fresh \in Nat
  BY DEF IInv, TypeInv
<1>2. \A s \in slots', n \in Present :
         IF PreKeyring(n) THEN s.keys = Legacy /\ (s.label = "primary" => s.secret = First)
         ELSE files[n].key = s.keys
  BY <1>1 DEF SettledInv, PreInv
<1>3. \A s \in Session, t \in slots' : held[s] # None => held[s].keys <= t.keys
  BY DEF IInv, HeldAt
<1>4. \A s \in slots' : Numbered(s, fresh')
  BY <1>1 DEF SlotsInv
<1>5. \A s, t \in slots' : s.keys = t.keys /\ (s.label = t.label => s = t)
  BY <1>1 DEF SlotsInv
<1>6. ~tombstone' => Kv \in Present \/ (Present = {} /\ slots' = {})
  BY <1>1 DEF TombstoneInv
<1> QED
  BY <1>1, <1>2, <1>3, <1>4, <1>5, <1>6

LEMMA RemoveSlotKeeps ==
  ASSUME NothingOverlaps, IInv, TypeInv', NEW p \in Passphrase, RemoveSlot(p)
  PROVE  IInv'
<1>1. /\ MayRun /\ slots' = {s \in slots : s.label # "recovery"} /\ \E s \in slots' : s.secret = p
      /\ UNCHANGED <<files, tombstone, staging, kit, command, verified, sessions, fresh, losses>>
  BY DEF RemoveSlot
<1>2. op = "idle" /\ pc = "idle" /\ journal = None /\ verified = None /\ ~Committed
  BY <1>1, AtRest
<1>3. \E s \in slots' : s.label = "primary"
  BY <1>1, SlotFields DEF IInv, TypeInv
<1>4. fresh \in Nat
  BY DEF IInv, TypeInv
<1>5. CommandInv'
  BY <1>1, <1>2, BackToRest DEF command
<1>6. KitInv'
  BY <1>1, <1>2, <1>4, KitStays DEF command
<1>7. slots' \subseteq slots /\ UNCHANGED <<files, journal, tombstone, held, acked>> /\ op' = "idle"
  BY <1>1, <1>2 DEF staging, command, sessions
<1> QED
  BY <1>1, <1>2, <1>3, <1>5, <1>6, <1>7, FewerSlots, NewSlots DEF IInv

LEMMA LoseKeyringKeeps ==
  ASSUME NothingOverlaps, IInv, TypeInv', LoseKeyring
  PROVE  IInv'
<1>1. /\ Idle /\ journal = None /\ slots # {} /\ slots' = {}
      /\ UNCHANGED <<files, tombstone, staging, kit, command, verified, sessions, fresh>>
  BY DEF LoseKeyring
<1>2. op = "idle" /\ pc = "idle" /\ ~Committed
  BY <1>1, AtRest DEF Idle
<1>3. fresh \in Nat
  BY DEF IInv, TypeInv
<1>4. slots' \subseteq slots /\ UNCHANGED <<files, journal, tombstone, held, acked>> /\ op' = "idle"
  BY <1>1, <1>2 DEF staging, command, sessions
<1>5. CommandInv'
  BY <1>1, <1>2, BackToRest DEF command, staging
<1>6. KitInv'
  BY <1>1, <1>3, <1>4, KitStays
<1> QED
  BY <1>1, <1>2, <1>4, <1>5, <1>6, FewerSlots, NewSlots DEF IInv

LEMMA AddSlotKeeps ==
  ASSUME NothingOverlaps, IInv, TypeInv', AddSlot
  PROVE  IInv'
<1>1. /\ op = "kit" /\ pc = "slot" /\ slots' = slots \cup {kit} /\ op' = "idle" /\ pc' = "idle"
      /\ UNCHANGED <<files, tombstone, staging, kit, verified, sessions, fresh, losses>>
  BY DEF AddSlot, Done, Run
<1>2. journal = None /\ verified = None /\ ~Committed
  BY <1>1, Where, AtRest
<1>3. /\ kit # None /\ slots # {} /\ IsKit(kit, fresh) /\ Numbered(kit, fresh)
      /\ \A s \in slots : s.label = "primary" /\ s.keys = kit.keys
  BY <1>1 DEF IInv, KitInv, IsKit
<1>4. fresh \in Nat /\ SlotsInv /\ SettledInv /\ PreInv /\ TombstoneInv
  BY DEF IInv, TypeInv
<1>5. PICK o \in slots : o.label = "primary" /\ o.keys = kit.keys
  BY <1>3
<1>6. \A s \in slots' : Numbered(s, fresh')
  BY <1>1, <1>3, <1>4 DEF SlotsInv
<1>7. \A s, t \in slots' : s.keys = t.keys /\ (s.label = t.label => s = t)
  BY <1>1, <1>3, <1>4 DEF SlotsInv, IsKit
<1>8. \A s \in slots', n \in Present :
         IF PreKeyring(n) THEN s.keys = Legacy /\ (s.label = "primary" => s.secret = First)
         ELSE files[n].key = s.keys
  BY <1>1, <1>2, <1>3, <1>4, <1>5 DEF SettledInv, PreInv, IsKit
<1>9. \A s \in Session, t \in slots' : held[s] # None => held[s].keys <= t.keys
  BY <1>1, <1>3, <1>5 DEF IInv, HeldAt
<1>10. ~tombstone' => Kv \in Present \/ (Present = {} /\ slots' = {})
  BY <1>1, <1>3, <1>4 DEF TombstoneInv
<1>11. CommandInv'
  BY <1>1, <1>2, BackToRest
<1>12. KitInv'
  BY <1>1, <1>2, <1>4, KitStays
<1> QED
  BY <1>1, <1>2, <1>4, <1>5, <1>6, <1>7, <1>8, <1>9, <1>10, <1>11, <1>12, NewSlots
  DEF IInv, staging, sessions

LEMMA SettleKeeps ==
  ASSUME NothingOverlaps, IInv, TypeInv', Settle
  PROVE  IInv'
<1> DEFINE T(s) == Wrap(s.id, s.label, s.secret, NewKeys(0))
<1>1. /\ pc = "settle" /\ slots' \in {slots, {T(s) : s \in slots}} /\ op' = "idle" /\ pc' = "idle"
      /\ UNCHANGED <<files, tombstone, staging, kit, verified, sessions, fresh, losses>>
  BY DEF Settle, Done, Run
<1>2. op = "rekey" /\ plan \in Plan /\ journal = None /\ verified = None /\ ~Committed
  BY <1>1, Where, AtRest
<1>3. fresh \in Nat /\ SlotsInv /\ SettledInv /\ PreInv /\ TombstoneInv /\ slots \subseteq Slot
  BY DEF IInv, TypeInv
<1>4. \A s \in slots : s.keys = plan.keys
  BY <1>1, <1>2 DEF IInv, PlanInv
<1>5. CommandInv'
  BY <1>1, <1>2, BackToRest
<1>6. KitInv'
  BY <1>1, <1>2, <1>3, KitStays
<1>7. UNCHANGED <<files, journal, tombstone, held, acked>> /\ fresh <= fresh' /\ op' # "rekey"
  BY <1>1, <1>3 DEF staging, sessions
<1>8. CASE slots' = slots
  BY <1>1, <1>2, <1>3, <1>5, <1>6, <1>7, <1>8, FewerSlots, NewSlots DEF IInv, SlotsInv
<1>9. CASE slots' = {T(s) : s \in slots}
  <2>1. \A s \in slots : /\ T(s).id = s.id /\ T(s).label = s.label /\ T(s).secret = s.secret
                         /\ T(s).keys = s.keys /\ T(s).retiring = 0
    BY <1>2, <1>4, NewKeysTyped, Wrapping
  <2> HIDE DEF T
  <2>2. ASSUME NEW s \in slots PROVE Numbered(T(s), fresh')
    <3>1. s.retiring \in Nat /\ s.keys \in Nat /\ Numbered(s, fresh)
      BY <1>3, SlotFields DEF SlotsInv
    <3> QED
      BY <1>1, <2>1, <3>1 DEF Numbered
  <2>3. \A s \in slots' : Numbered(s, fresh')
    BY <1>9, <2>2
  <2>4. \A s, t \in slots' : s.keys = t.keys /\ (s.label = t.label => s = t)
    BY <1>3, <1>9, <2>1 DEF SlotsInv
  <2>5. slots' # {} => \E s \in slots' : s.label = "primary"
    BY <1>3, <1>9, <2>1 DEF SlotsInv
  <2>6. \A s \in slots', n \in Present :
           IF PreKeyring(n) THEN s.keys = Legacy /\ (s.label = "primary" => s.secret = First)
           ELSE files[n].key = s.keys
    BY <1>2, <1>3, <1>9, <2>1 DEF SettledInv, PreInv
  <2>7. \A s \in Session, t \in slots' : held[s] # None => held[s].keys <= t.keys
    BY <1>9, <2>1 DEF IInv, HeldAt
  <2>8. ~tombstone' => Kv \in Present \/ (Present = {} /\ slots' = {})
    BY <1>3, <1>7, <1>9 DEF TombstoneInv
  <2> QED
    BY <1>2, <1>5, <1>6, <1>7, <2>3, <2>4, <2>5, <2>6, <2>7, <2>8, NewSlots DEF IInv
<1> QED
  BY <1>1, <1>8, <1>9
----------------------------------------------------------------------------
(* A command goes on. *)

LEMMA BeginRekeyKeeps ==
  ASSUME NothingOverlaps, IInv, TypeInv', NEW p \in Passphrase, NEW new \in Passphrase,
         NEW rotate \in BOOLEAN, BeginRekey(p, new, rotate)
  PROVE  IInv'
<1>1. /\ MayRun /\ fresh' = fresh + 2
      /\ UNCHANGED <<vault, staging, kit, verified, sessions, losses>>
  BY DEF BeginRekey, Taken
<1>2. PICK s \in OpenedBy(p) :
        /\ op' = "rekey" /\ pc' = "stage"
        /\ plan' = [old |-> s, keys |-> fresh + 1, secret |-> new, id |-> fresh + 2,
                    ident |-> IF rotate THEN fresh + 1 ELSE s.ident]
  BY DEF BeginRekey, Run
<1>3. op = "idle" /\ pc = "idle" /\ journal = None /\ verified = None /\ fresh \in Nat /\ ~Committed
  BY <1>1, AtRest DEF IInv, TypeInv
<1>4. s \in slots /\ s \in Slot /\ s.ident \in Nat
  BY OpenedIsSlot DEF IInv
<1>5. fresh' \in Nat /\ fresh <= fresh' /\ ~Committed'
  BY <1>1, <1>3 DEF Committed, vault, staging
<1>6. plan' \in Plan
  BY <1>2, <1>3, <1>4 DEF Plan
<1>7. CommandInv'
  BY <1>1, <1>2, <1>3, <1>6 DEF CommandInv, Preparing, Locations, staging
<1>8. KitInv'
  BY <1>1, <1>2, <1>3, <1>5, KitStays
<1>9. PlanInv'
  <2>1. plan'.keys = fresh + 1 /\ plan'.id = fresh + 2 /\ plan'.old = s
    BY <1>2
  <2>2. \A t \in slots : t.id < plan'.id /\ t.keys < plan'.keys
    <3> SUFFICES ASSUME NEW t \in slots PROVE t.id < fresh + 2 /\ t.keys < fresh + 1
      BY <2>1
    <3>1. t \in Slot /\ t.id <= fresh /\ t.keys <= fresh
      BY DEF IInv, TypeInv, SlotsInv, Numbered
    <3> QED
      BY <1>3, <3>1, SlotFields
  <2> QED
    BY <1>1, <1>2, <1>3, <1>4, <2>1, <2>2 DEF PlanInv, Preparing, vault
<1> QED
  BY <1>1, <1>2, <1>3, <1>5, <1>7, <1>8, <1>9, SameVault DEF IInv, vault, sessions

LEMMA StageKeeps ==
  ASSUME NothingOverlaps, IInv, TypeInv', Stage
  PROVE  IInv'
<1>1. op = "rekey" /\ pc = "stage" /\ UNCHANGED <<vault, journal, kit, verified, sessions, fresh, losses>>
  BY DEF Stage
<1>2. /\ journal = None /\ plan \in Plan /\ verified = None /\ ~Committed /\ ~Committed'
      /\ fresh \in Nat /\ FilesOK
  BY <1>1, Where, AtRest DEF Preparing, Committed, IInv, TypeInv
<1>3. CASE \A n \in Present : files[n].key = plan.old.keys
  <2>1. staged' = StagedTree /\ pc' = "kit" /\ UNCHANGED <<op, plan>>
    BY <1>3 DEF Stage, Step
  <2>2. \A n \in Present : ~PreKeyring(n)
    <3>1. plan.old.keys \in Nat
      BY <1>2, NewKeysTyped
    <3> QED
      BY <1>3, <3>1, KeyringConstantsOK DEF PreKeyring
  <2>3. CommandInv'
    BY <1>1, <1>2, <2>1 DEF CommandInv, Preparing, Locations
  <2>4. KitInv'
    BY <1>1, <1>2, <2>1, KitStays
  <2>5. StagedTree' = StagedTree /\ Present' = Present
    BY <1>1, <2>1, TreeStays DEF vault
  <2>6. PlanInv'
    BY <1>1, <1>3, <2>1, <2>5 DEF IInv, PlanInv, Preparing, vault
  <2> QED
    BY <1>1, <1>2, <2>1, <2>2, <2>3, <2>4, <2>6, SameVault DEF IInv, vault, sessions
<1>4. CASE ~\A n \in Present : files[n].key = plan.old.keys
  <2>1. op' = "idle" /\ pc' = "idle"
    BY <1>4 DEF Stage, Done, Run
  <2>2. CommandInv'
    BY <1>1, <1>2, <2>1, BackToRest
  <2>3. KitInv'
    BY <1>1, <1>2, <2>1, KitStays
  <2>4. PlanInv'
    BY <2>1 DEF PlanInv
  <2> QED
    BY <1>1, <1>2, <2>1, <2>2, <2>3, <2>4, SameVault DEF IInv, vault, sessions
<1> QED
  BY <1>3, <1>4

\* A re-key that has staged has met no file from before the keyring.
LEMMA StagedIsNew ==
  ASSUME IInv, pc \in {"kit", "journal", "commit"}
  PROVE  /\ \A n \in Present : ~PreKeyring(n)
         /\ op = "rekey" /\ plan \in Plan /\ ~Committed /\ staged = StagedTree
<1>1. op = "rekey" /\ plan \in Plan
  BY Where DEF Preparing
<1>2. ~Committed
  BY Where DEF IInv, CommandInv, Committed
<1> QED
  BY <1>1, <1>2 DEF IInv, PreInv, PlanInv

LEMMA AdvanceKitKeeps ==
  ASSUME NothingOverlaps, IInv, TypeInv', AdvanceKit
  PROVE  IInv'
<1>1. /\ pc = "kit" /\ pc' = "journal" /\ UNCHANGED <<op, plan>>
      /\ kit' = IF RecoverySlot = {} THEN kit ELSE CHOOSE s \in RecoverySlot : TRUE
      /\ UNCHANGED <<vault, staging, verified, sessions, fresh, losses>>
  BY DEF AdvanceKit, Step
<1>2. /\ op = "rekey" /\ plan \in Plan /\ ~Committed /\ staged = StagedTree
      /\ \A n \in Present : ~PreKeyring(n)
  BY <1>1, StagedIsNew
<1>3. journal = None /\ verified = None /\ fresh \in Nat /\ ~Committed'
  BY <1>1, <1>2, Where DEF IInv, TypeInv, Committed, vault, staging
<1>4. CommandInv'
  BY <1>1, <1>2, <1>3 DEF CommandInv, Preparing, Locations, staging
<1>5. KitInv'
  <2>1. RecoverySlot # {} => (CHOOSE s \in RecoverySlot : TRUE) \in RecoverySlot
    OBVIOUS
  <2>2. ASSUME NEW t \in RecoverySlot PROVE IsKit(t, fresh)
    <3>1. /\ t \in Slot /\ t.keys = plan.keys /\ t.retiring = 0 /\ t.label = "recovery" /\ t.secret = Code
          /\ \E s \in slots : t.id = s.id
      BY <1>2, RecoverySlots DEF IInv
    <3>2. \A s \in slots : s.id <= fresh /\ s \in Slot
      BY DEF IInv, SlotsInv, Numbered, TypeInv
    <3>3. plan.keys <= fresh /\ \A s \in slots : s.keys < plan.keys
      BY <1>1, <1>2 DEF IInv, PlanInv, Preparing
    <3>4. 0 < plan.keys
      <4> PICK s \in slots : s.keys < plan.keys
        BY <3>1, <3>3
      <4>1. s.keys \in Nat /\ plan.keys \in Nat
        BY <1>2, <3>2, SlotFields, NewKeysTyped
      <4> QED
        BY <4>1
    <3> QED
      BY <3>1, <3>2, <3>3, <3>4, KeyringConstantsOK DEF IsKit, Numbered
  <2>3. kit' # None => IsKit(kit', fresh')
    BY <1>1, <2>1, <2>2 DEF IInv, KitInv
  <2> QED
    BY <1>1, <1>2, <1>3, <2>3 DEF KitInv
<1>6. PlanInv'
  <2>1. StagedTree' = StagedTree /\ Present' = Present
    BY <1>1, TreeStays DEF vault
  <2> QED
    BY <1>1, <1>2, <2>1 DEF IInv, PlanInv, Preparing, vault, staging
<1> QED
  BY <1>1, <1>2, <1>3, <1>4, <1>5, <1>6, SameVault DEF IInv, vault, sessions

LEMMA GiveUpKeeps ==
  ASSUME NothingOverlaps, IInv, TypeInv', GiveUp
  PROVE  IInv'
<1>1. /\ pc \in {"kit", "journal"} /\ op = "rekey" /\ op' = "idle" /\ pc' = "idle"
      /\ UNCHANGED <<vault, journal, kit, verified, sessions, fresh, losses>>
  BY DEF GiveUp, Done, Run
<1>2. journal = None /\ verified = None /\ fresh \in Nat /\ ~Committed /\ ~Committed'
  BY <1>1, Where DEF IInv, TypeInv, Committed, vault
<1>3. CommandInv'
  BY <1>1, <1>2, BackToRest
<1>4. KitInv'
  BY <1>1, <1>2, KitStays
<1>5. PlanInv'
  BY <1>1 DEF PlanInv
<1> QED
  BY <1>1, <1>2, <1>3, <1>4, <1>5, SameVault DEF IInv, vault, sessions

LEMMA WriteJournalKeeps ==
  ASSUME NothingOverlaps, IInv, TypeInv', WriteJournal
  PROVE  IInv'
<1>1. /\ pc = "journal" /\ pc' = "commit" /\ UNCHANGED <<op, plan>>
      /\ journal' = [slot |-> plan.id, files |-> DOMAIN staged, deletes |-> Present \ DOMAIN staged]
      /\ UNCHANGED <<vault, staged, kit, verified, sessions, fresh, losses>>
  BY DEF WriteJournal, Step
<1>2. /\ op = "rekey" /\ plan \in Plan /\ ~Committed /\ staged = StagedTree
      /\ \A n \in Present : ~PreKeyring(n)
  BY <1>1, StagedIsNew
<1>3. journal = None /\ verified = None /\ fresh \in Nat
  BY <1>1, <1>2, Where DEF IInv, TypeInv
<1>4. journal' # None
  <2>1. journal' \in Journal
    <3>1. DOMAIN staged \subseteq Name /\ Present \subseteq Name /\ plan.id \in Nat
      BY <1>2, Staging, NewKeysTyped DEF IInv, TypeInv, Names, FilesOK
    <3> QED
      BY <1>1, <3>1 DEF Journal
  <2> QED
    BY <2>1, KeyringConstantsOK
<1>5. ~Committed'
  <2>1. \A s \in slots : s.id < plan.id /\ s.id \in Nat /\ plan.id \in Nat
    BY <1>1, <1>2, SlotFields, NewKeysTyped DEF IInv, PlanInv, Preparing, TypeInv
  <2>2. \A s \in slots : s.id # plan.id
    BY <2>1
  <2>3. journal'.slot = plan.id /\ slots' = slots
    BY <1>1 DEF vault
  <2> QED
    BY <2>2, <2>3 DEF Committed
<1>6. CommandInv'
  BY <1>1, <1>2, <1>3, <1>4, <1>5 DEF CommandInv, Preparing, Locations
<1>7. KitInv'
  BY <1>1, <1>2, <1>3, KitStays
<1>8. PlanInv'
  <2>1. StagedTree' = StagedTree /\ Present' = Present
    BY <1>1, TreeStays DEF vault
  <2> QED
    BY <1>1, <1>2, <2>1 DEF IInv, PlanInv, Preparing, vault
<1> QED
  BY <1>1, <1>2, <1>3, <1>5, <1>6, <1>7, <1>8, SameVault DEF IInv, vault, sessions

LEMMA ClearKeeps ==
  ASSUME NothingOverlaps, IInv, TypeInv', Clear
  PROVE  IInv'
<1>1. /\ pc = "install" /\ Remaining = {} /\ journal.deletes \cap Present = {}
      /\ staged' = None /\ journal' = None
      /\ UNCHANGED <<vault, kit, verified, sessions, fresh, losses>>
  BY DEF Clear
<1>2. /\ op \in {"rekey", "resume"} /\ Committed /\ verified = None /\ fresh \in Nat
      /\ ~Committed' /\ FilesOK
  BY <1>1, Where DEF Committed, IInv, TypeInv
<1>3. \A s \in slots, n \in Present : files[n].key = s.keys
  BY <1>1, <1>2 DEF IInv, InstallInv, Remaining
<1>4. \A n \in Present : ~PreKeyring(n)
  BY <1>2 DEF IInv, PreInv
<1>5. CASE op = "rekey"
  <2>1. pc' = "settle" /\ op' = "rekey" /\ plan' = plan
    BY <1>5 DEF Clear, Step
  <2>2. CommandInv'
    BY <1>1, <1>2, <1>5, <2>1 DEF IInv, CommandInv, Preparing, Locations
  <2>3. KitInv'
    BY <1>1, <1>2, <2>1, KitStays
  <2>4. PlanInv'
    BY <1>1, <1>5, <2>1 DEF IInv, PlanInv, Preparing, vault
  <2> QED
    BY <1>1, <1>2, <1>3, <1>4, <2>1, <2>2, <2>3, <2>4, SameVault DEF IInv, vault, sessions
<1>6. CASE op = "resume"
  <2>1. pc' = "idle" /\ op' = "idle"
    BY <1>6 DEF Clear, Done, Run
  <2>2. CommandInv'
    BY <1>1, <1>2, <2>1, BackToRest
  <2>3. KitInv'
    BY <1>1, <1>2, <2>1, KitStays
  <2>4. PlanInv'
    BY <2>1 DEF PlanInv
  <2> QED
    BY <1>1, <1>2, <1>3, <2>1, <2>2, <2>3, <2>4, SameVault DEF IInv, vault, sessions
<1> QED
  BY <1>2, <1>5, <1>6

LEMMA RecoverKeeps ==
  ASSUME NothingOverlaps, IInv, TypeInv', Recover
  PROVE  IInv'
<1>1. /\ op = "idle" /\ pc = "idle" /\ journal # None
      /\ UNCHANGED <<vault, kit, verified, sessions, fresh, losses>>
  BY AtRest DEF Recover, Idle
<1>2. verified = None /\ fresh \in Nat
  BY <1>1 DEF IInv, TypeInv, CommandInv
<1>3. CASE Committed
  <2>1. op' = "resume" /\ pc' = "install" /\ UNCHANGED staging
    BY <1>3 DEF Recover, Run
  <2>2. Committed' /\ journal' = journal /\ staged' = staged
    BY <1>1, <1>3, <2>1, Untouched DEF vault, staging
  <2>3. CommandInv'
    BY <1>1, <1>2, <2>1, <2>2 DEF CommandInv, Preparing, Locations
  <2>4. KitInv'
    BY <1>1, <1>2, <2>1, KitStays
  <2>5. PlanInv'
    BY <2>1 DEF PlanInv
  <2> QED
    BY <1>1, <1>2, <1>3, <2>1, <2>2, <2>3, <2>4, <2>5, SameVault DEF IInv, vault, sessions
<1>4. CASE ~Committed
  <2>1. op' = "idle" /\ pc' = "idle" /\ journal' = None /\ ~Committed'
    BY <1>1, <1>4 DEF Recover, command, Committed
  <2>2. CommandInv'
    BY <2>1, BackToRest
  <2>3. KitInv'
    BY <1>1, <1>2, <2>1, KitStays
  <2>4. PlanInv'
    BY <2>1 DEF PlanInv
  <2> QED
    BY <1>1, <1>2, <1>4, <2>1, <2>2, <2>3, <2>4, SameVault DEF IInv, vault, sessions
<1> QED
  BY <1>3, <1>4

LEMMA ResumeMigrateKeeps ==
  ASSUME NothingOverlaps, IInv, TypeInv', NEW p \in Passphrase, ResumeMigrate(p)
  PROVE  IInv'
<1>1. /\ MayRun /\ op' = "migrate" /\ pc' = "reseal" /\ plan' = p
      /\ UNCHANGED <<vault, staging, kit, verified, sessions, fresh, losses>>
  BY DEF ResumeMigrate, Run
<1>2. journal = None /\ verified = None /\ fresh \in Nat /\ ~Committed /\ ~Committed'
  BY <1>1, AtRest DEF IInv, TypeInv, Committed, staging
<1>3. CommandInv'
  BY <1>1, <1>2 DEF CommandInv, Preparing, Locations, staging
<1>4. KitInv'
  BY <1>1, <1>2, KitStays
<1>5. PlanInv'
  BY <1>1 DEF PlanInv
<1> QED
  BY <1>1, <1>2, <1>3, <1>4, <1>5, SameVault DEF IInv, vault, sessions

LEMMA TombstoneKeeps ==
  ASSUME NothingOverlaps, IInv, TypeInv', Tombstone
  PROVE  IInv'
<1>1. /\ pc = "reseal" /\ tombstone' /\ op' = "idle" /\ pc' = "idle"
      /\ UNCHANGED <<slots, files, staging, kit, verified, sessions, fresh, losses>>
  BY DEF Tombstone, Done, Run
<1>2. journal = None /\ verified = None /\ fresh \in Nat /\ ~Committed /\ ~Committed'
  BY <1>1, Where DEF IInv, TypeInv, Committed, staging, CommandInv
<1>3. CommandInv'
  BY <1>1, <1>2, BackToRest
<1>4. KitInv'
  BY <1>1, <1>2, KitStays
<1>5. PlanInv'
  BY <1>1 DEF PlanInv
<1> QED
  BY <1>1, <1>2, <1>3, <1>4, <1>5, SameVault DEF IInv, sessions

LEMMA DieKeeps ==
  ASSUME NothingOverlaps, IInv, TypeInv', Die
  PROVE  IInv'
<1>1. /\ op # "idle" /\ op' = "idle" /\ pc' = "idle"
      /\ UNCHANGED <<vault, staging, kit, verified, sessions, fresh>>
  BY DEF Die, Done, Run
<1>2. verified = None /\ fresh \in Nat /\ Committed' = Committed
  BY <1>1, Where, Untouched DEF IInv, TypeInv, vault, staging
<1>3. CommandInv'
  BY <1>1, <1>2, BackToRest
<1>4. KitInv'
  BY <1>1, <1>2, KitStays
<1>5. PlanInv'
  BY <1>1 DEF PlanInv
<1> QED
  BY <1>1, <1>2, <1>3, <1>4, <1>5, SameVault DEF IInv, vault, sessions, staging

LEMMA VerifyKitKeeps ==
  ASSUME NothingOverlaps, IInv, TypeInv', VerifyKit
  PROVE  IInv'
<1>1. /\ MayRun /\ verified' = kit /\ kit # None /\ Present # {}
      /\ \A n \in Present : files[n].key \in ReadKeys(kit)
      /\ UNCHANGED <<vault, staging, kit, command, sessions, fresh, losses>>
  BY DEF VerifyKit, KitOpensVault, NothingOverlaps, OldKeysShow
<1>2. op = "idle" /\ pc = "idle" /\ journal = None /\ fresh \in Nat /\ ~Committed /\ ~Committed'
  BY <1>1, AtRest DEF IInv, TypeInv, Committed, staging
<1>3. IsKit(kit, fresh) /\ kit.retiring = 0
  BY <1>1 DEF IInv, KitInv, IsKit
<1>4. \A n \in Present : files[n].key = kit.keys
  BY <1>1, <1>3 DEF ReadKeys
<1>5. CommandInv'
  BY <1>1, <1>2, BackToRest DEF command, staging
<1>6. KitInv'
  <2>1. kit' = kit /\ verified' = kit /\ fresh' = fresh /\ files' = files /\ op' = "idle"
    BY <1>1, <1>2 DEF command, vault
  <2> QED
    BY <1>1, <1>3, <1>4, <2>1 DEF KitInv, Present, IsKit, Numbered
<1>7. PlanInv'
  BY <1>1, <1>2 DEF PlanInv, command
<1> QED
  BY <1>1, <1>2, <1>5, <1>6, <1>7, SameVault DEF IInv, vault, sessions, command

LEMMA BeginKitKeeps ==
  ASSUME NothingOverlaps, IInv, TypeInv', NEW p \in Passphrase, BeginKit(p)
  PROVE  IInv'
<1>1. /\ MayRun /\ fresh' = fresh + 1 /\ op' = "kit" /\ pc' = "slot"
      /\ \A s \in slots : s.label # "recovery"
      /\ UNCHANGED <<vault, staging, verified, sessions, losses>>
  BY DEF BeginKit, Taken, Run
<1>2. PICK k \in OpenedBy(p) : kit' = Wrap(fresh', "recovery", Code, [k EXCEPT !.retiring = 0])
  BY DEF BeginKit
<1>3. /\ journal = None /\ verified = None /\ ~Committed /\ ~Committed' /\ fresh \in Nat
      /\ fresh <= fresh' /\ TypeInv
  BY <1>1, AtRest DEF IInv, TypeInv, Committed, staging
<1>4. /\ k \in slots /\ k \in Slot /\ Numbered(k, fresh) /\ k.keys \in Nat /\ k.retiring \in Nat
  BY <1>3, OpenedIsSlot DEF IInv, SlotsInv
<1> DEFINE l == [k EXCEPT !.retiring = 0]
<1>5. l.keys = k.keys /\ l.retiring = 0
  BY <1>4 DEF Slot
<1> HIDE DEF l
<1>0. kit' = Wrap(fresh', "recovery", Code, l)
  BY <1>2 DEF l
<1>6. /\ kit'.keys = k.keys /\ kit'.retiring = 0 /\ kit'.id = fresh' /\ kit'.label = "recovery"
      /\ kit'.secret = Code
  BY <1>0, <1>5, Wrapping
<1>7. 0 < k.keys /\ k.keys <= fresh' /\ fresh' <= fresh'
  BY <1>1, <1>3, <1>4 DEF Numbered
<1>8. IsKit(kit', fresh')
  BY <1>6, <1>7, KeyringConstantsOK DEF IsKit, Numbered
<1>9. kit' # None
  <2>1. fresh' \in Nat /\ l.ident \in Nat
    BY <1>1, <1>3, <1>4 DEF l, Slot
  <2>2. kit' \in Slot
    BY <1>0, <1>4, <1>5, <2>1, Wrapping
  <2> QED
    BY <2>2, SlotFields
<1>10. \A s \in slots : s.label = "primary" /\ s.keys = kit'.keys
  BY <1>1, <1>3, <1>4, <1>6, SlotFields DEF IInv, SlotsInv, TypeInv
<1>11. KitInv'
  BY <1>1, <1>3, <1>4, <1>8, <1>9, <1>10 DEF KitInv, vault
<1>12. CommandInv'
  BY <1>1, <1>3 DEF CommandInv, Preparing, Locations, staging
<1>13. PlanInv'
  BY <1>1 DEF PlanInv
<1> QED
  BY <1>1, <1>3, <1>11, <1>12, <1>13, SameVault DEF IInv, vault, sessions
----------------------------------------------------------------------------
(* Sessions open and write. *)

LEMMA OpenKeeps ==
  ASSUME NothingOverlaps, IInv, TypeInv', NEW s \in Session, NEW p \in Passphrase, Open(s, p)
  PROVE  IInv'
<1> DEFINE w == Wrap(0, "primary", p, [keys |-> Legacy, retiring |-> 0, ident |-> Legacy])
<1>1. /\ MayRun
      /\ UNCHANGED <<vault, staging, kit, command, verified, fresh, losses, writes, acked>>
  BY DEF Open
<1>2. /\ ~Committed /\ ~Committed' /\ fresh \in Nat /\ FilesOK /\ Present' = Present
      /\ \A n : PreKeyring(n)' <=> PreKeyring(n)
  BY <1>1, AtRest DEF IInv, TypeInv, Committed, staging, vault, Present, PreKeyring
<1>3. PICK k : /\ held' = [held EXCEPT ![s] = k]
               /\ k \in OpenedBy(p) \/ (Format = "legacy" /\ ~tombstone /\ k = w)
  BY DEF Open
<1>4. /\ w.id = 0 /\ w.keys = 1 /\ w.retiring = 0 /\ w.label = "primary" /\ w.secret = p
  BY Wrapping DEF Legacy
<1> HIDE DEF w
<1>5. /\ Numbered(k, fresh)
      /\ \A t \in slots : k.keys <= t.keys
      /\ \A n \in Present : /\ ~PreKeyring(n) => k.keys <= files[n].key
                            /\ PreKeyring(n) => k.keys = Legacy
  <2>1. CASE k \in OpenedBy(p)
    <3>1. k \in slots /\ k.keys \in Nat
      BY <2>1, OpenedIsSlot DEF IInv
    <3>2. \A t \in slots : t.keys = k.keys
      BY <3>1 DEF IInv, SlotsInv
    <3>3. \A n \in Present : ~PreKeyring(n) => files[n].key = k.keys
      BY <1>2, <3>1 DEF IInv, SettledInv
    <3>4. \A n \in Present : PreKeyring(n) => k.keys = Legacy
      BY <3>1 DEF IInv, PreInv
    <3> QED
      BY <3>1, <3>2, <3>3, <3>4 DEF IInv, SlotsInv
  <2>2. CASE Format = "legacy" /\ ~tombstone /\ k = w
    <3>1. slots = {}
      BY <2>2 DEF Format
    <3>2. Numbered(w, fresh)
      BY <1>2, <1>4 DEF Numbered, IInv, KeysInv
    <3>3. ASSUME NEW n \in Present, ~PreKeyring(n) PROVE 1 <= files[n].key
      <4>1. files[n].key \in Nat /\ 0 < files[n].key
        BY <1>2, <3>3 DEF IInv, KeysInv, FilesOK, Sealed, Keys, PreKeyring
      <4> QED
        BY <4>1
    <3> QED
      BY <1>4, <2>2, <3>1, <3>2, <3>3 DEF Legacy
  <2> QED
    BY <1>3, <2>1, <2>2
<1>6. \A t \in Session : held'[t] = IF t = s THEN k ELSE held[t]
  BY <1>3 DEF IInv, TypeInv
<1>7. ASSUME NEW t \in Session PROVE HeldAt(t)'
  <2> SUFFICES ASSUME held'[t] # None
               PROVE  /\ Numbered(held'[t], fresh)
                      /\ \A u \in slots : held'[t].keys <= u.keys
                      /\ \A n \in Present : ~PreKeyring(n) => held'[t].keys <= files[n].key
    BY <1>1, <1>2 DEF HeldAt, vault
  <2>1. CASE t = s
    BY <1>5, <1>6, <2>1
  <2>2. CASE t # s
    BY <1>6, <2>2 DEF IInv, HeldAt
  <2> QED
    BY <2>1, <2>2
<1>8. PreInv'
  <2>1. \A n \in Present : PreKeyring(n) => \A t \in Session : held'[t] # None => held'[t].keys = Legacy
    BY <1>5, <1>6 DEF IInv, PreInv
  <2> QED
    BY <1>1, <1>2, <2>1 DEF IInv, PreInv, vault, command
<1> QED
  BY <1>1, <1>7, <1>8, Untouched DEF IInv, vault, staging, command

LEMMA CloseKeeps ==
  ASSUME NothingOverlaps, IInv, TypeInv', NEW s \in Session, Close(s)
  PROVE  IInv'
<1>1. UNCHANGED <<vault, staging, kit, command, verified, fresh, losses, writes, acked>>
  BY DEF Close
<1>2. \A t \in Session : held'[t] # None => held'[t] = held[t]
  BY DEF Close, IInv, TypeInv
<1>3. ASSUME NEW t \in Session PROVE HeldAt(t)'
  BY <1>1, <1>2 DEF IInv, HeldAt, Numbered, vault, Present, PreKeyring
<1>4. PreInv'
  BY <1>1, <1>2, Untouched DEF IInv, PreInv, vault, staging, command, Present, PreKeyring
<1> QED
  BY <1>1, <1>3, <1>4, Untouched DEF IInv, vault, staging, command

\* The key-value file is written with the keys in force.
LEMMA KvSealed ==
  ASSUME IInv, TypeInv', ~Committed, NEW k \in slots, Present' = Present \cup {Kv},
         files'[Kv].key = k.keys, \A m \in Present \ {Kv} : files'[m] = files[m],
         UNCHANGED <<slots, tombstone, journal, held, fresh, op>>, op # "rekey"
  PROVE  /\ SettledInv' /\ PreInv' /\ TombstoneInv' /\ KeysInv'
         /\ (\A s \in Session : HeldAt(s)') /\ PlanInv' /\ InstallInv' /\ RefsResolve'
<1>1. k \in Slot /\ k.keys \in Nat /\ k.retiring \in Nat /\ Numbered(k, fresh) /\ fresh \in Nat
  BY SlotFields DEF IInv, TypeInv, SlotsInv
<1>2. ~Committed'
  BY DEF Committed
<1>3. \A n \in Present' : ~PreKeyring(n)'
  <2>1. \A n \in Present : PreKeyring(n) => n = Kv
    BY DEF IInv, PreInv
  <2> QED
    BY <1>1, <2>1, KeyringConstantsOK DEF PreKeyring
<1>4. \A n \in Present \ {Kv} : ~PreKeyring(n) /\ PreKeyring(n)' = PreKeyring(n)
  BY DEF IInv, PreInv, PreKeyring
<1>5. SettledInv'
  <2>1. \A s \in slots : s.keys = k.keys
    BY DEF IInv, SlotsInv
  <2> QED
    BY <1>4, <2>1 DEF IInv, SettledInv
<1>6. PreInv' /\ PlanInv' /\ InstallInv' /\ TombstoneInv'
  BY <1>2, <1>3 DEF PreInv, PlanInv, InstallInv, TombstoneInv
<1>7. KeysInv'
  BY <1>1, <1>4 DEF IInv, KeysInv, Numbered
<1>8. ASSUME NEW s \in Session PROVE HeldAt(s)'
  <2> SUFFICES ASSUME held[s] # None
               PROVE  \A n \in Present' : held[s].keys <= files'[n].key
    BY DEF IInv, HeldAt, Numbered
  <2> QED
    BY <1>4 DEF IInv, HeldAt
<1>9. RefsResolve'
  <2>1. Note # Kv /\ Note \in Name
    BY NamesOf
  <2> QED
    BY <2>1 DEF IInv, RefsResolve
<1> QED
  BY <1>5, <1>6, <1>7, <1>8, <1>9

LEMMA WriteKvKeeps ==
  ASSUME NothingOverlaps, IInv, TypeInv', NEW p \in Passphrase, WriteKv(p)
  PROVE  IInv'
<1>1. /\ MayRun /\ writes' = writes + 1 /\ acked' = [acked EXCEPT !.kv = writes']
      /\ UNCHANGED <<slots, tombstone, staging, kit, command, verified, held, fresh, losses>>
  BY DEF WriteKv
<1>2. PICK k \in OpenedBy(p) :
        files' = Stored(files, Kv, [key |-> k.keys, ver |-> writes + 1, ref |-> 0])
  BY DEF WriteKv
<1> DEFINE x == [key |-> k.keys, ver |-> writes + 1, ref |-> 0]
<1>3. /\ op = "idle" /\ verified = None /\ ~Committed /\ k \in slots /\ fresh \in Nat
  BY <1>1, AtRest, OpenedIsSlot DEF IInv, TypeInv
<1>4. x.key = k.keys /\ x.ver = writes'
  BY <1>1
<1>0. files' = Stored(files, Kv, x)
  BY <1>2
<1> HIDE DEF x
<1>5. Present' = Present \cup {Kv} /\ files'[Kv] = x /\ \A m \in Present \ {Kv} : files'[m] = files[m]
  <2>1. /\ DOMAIN Stored(files, Kv, x) = (DOMAIN files) \cup {Kv} /\ Stored(files, Kv, x)[Kv] = x
        /\ \A m \in (DOMAIN files) \ {Kv} : Stored(files, Kv, x)[m] = files[m]
    BY DEF Stored
  <2> QED
    BY <1>0, <2>1 DEF Present
<1>6. /\ SettledInv' /\ PreInv' /\ TombstoneInv' /\ KeysInv'
      /\ (\A s \in Session : HeldAt(s)') /\ PlanInv' /\ InstallInv' /\ RefsResolve'
  BY <1>1, <1>3, <1>4, <1>5, KvSealed DEF staging, command
<1>7. AckedKept'
  <2>1. acked'.kv = writes' /\ acked'.note = acked.note
    BY <1>1 DEF IInv, TypeInv
  <2>2. Note # Kv
    BY NamesOf
  <2> QED
    BY <1>4, <1>5, <2>1, <2>2 DEF IInv, AckedKept
<1>8. KitInv'
  BY <1>1, <1>3, KitStays DEF command
<1> QED
  BY <1>1, <1>6, <1>7, <1>8, Untouched DEF IInv, staging, command

LEMMA MigrateOneKeeps ==
  ASSUME NothingOverlaps, IInv, TypeInv', MigrateOne
  PROVE  IInv'
<1>1. /\ pc = "reseal"
      /\ UNCHANGED <<slots, tombstone, staging, kit, command, verified, sessions, fresh, losses>>
  BY DEF MigrateOne
<1>2. PICK n \in Present : PreKeyring(n) /\ \E k \in OpenedBy(plan) : files' = [files EXCEPT ![n].key = k.keys]
  BY DEF MigrateOne
<1>3. PICK k \in OpenedBy(plan) : files' = [files EXCEPT ![n].key = k.keys]
  BY <1>2
<1>4. n = Kv /\ k \in slots /\ op = "migrate" /\ verified = None /\ ~Committed /\ fresh \in Nat
  BY <1>1, <1>2, Where, OpenedIsSlot DEF IInv, TypeInv, PreInv
<1>5. files \in [Present -> Sealed] /\ files[Kv] \in Sealed
  BY <1>2, <1>4 DEF IInv, TypeInv, FilesOK
<1> DEFINE x == [files[Kv] EXCEPT !.key = k.keys]
<1>6. x.key = k.keys /\ x.ver = files[Kv].ver
  BY <1>5 DEF Sealed
<1>7. files' = [files EXCEPT ![Kv] = x]
  BY <1>3, <1>4
<1> HIDE DEF x
<1>8. Present' = Present /\ files'[Kv] = x /\ \A m \in Present \ {Kv} : files'[m] = files[m]
  BY <1>2, <1>4, <1>5, <1>7 DEF Present
<1>9. Present' = Present \cup {Kv}
  BY <1>2, <1>4, <1>8
<1>10. /\ SettledInv' /\ PreInv' /\ TombstoneInv' /\ KeysInv'
       /\ (\A s \in Session : HeldAt(s)') /\ PlanInv' /\ InstallInv' /\ RefsResolve'
  BY <1>1, <1>4, <1>6, <1>8, <1>9, KvSealed DEF staging, command, sessions
<1>11. AckedKept'
  <2>1. acked' = acked /\ Note # Kv
    BY <1>1, NamesOf DEF sessions
  <2> QED
    BY <1>6, <1>8, <2>1 DEF IInv, AckedKept
<1>12. KitInv'
  BY <1>1, <1>4, KitStays DEF command
<1> QED
  BY <1>1, <1>10, <1>11, <1>12, Untouched DEF IInv, staging, command

\* The session's index opens, so its keys are those in force and no file has older ones
\* that another session could still hold.
LEMMA WriteNoteKeeps ==
  ASSUME NothingOverlaps, IInv, TypeInv', NEW s \in Session, NEW attach \in BOOLEAN,
         WriteNote(s, attach)
  PROVE  IInv'
<1> DEFINE k == held[s]
           old == IF Note \in Present THEN files[Note].ref ELSE 0
           note == [key |-> k.keys, ver |-> writes + 1, ref |-> IF attach THEN k.ident ELSE old]
           blobs == {Sync(k.ident)} \cup (IF attach THEN {Attachment(k.ident)} ELSE {})
           new == {Note} \cup blobs
<1>1. /\ MayRun /\ k # None /\ IndexOpens(s) /\ writes' = writes + 1
      /\ acked' = [acked EXCEPT !.note = writes']
      /\ UNCHANGED <<slots, tombstone, staging, kit, command, verified, held, fresh, losses>>
  BY DEF WriteNote
<1>2. files' = [n \in Present \cup {Note} \cup blobs |->
                  IF n = Note THEN note ELSE IF n \in blobs THEN Blob(k.keys) ELSE files[n]]
  BY DEF WriteNote
<1>3. /\ op = "idle" /\ verified = None /\ ~Committed /\ ~Committed' /\ fresh \in Nat /\ FilesOK
      /\ slots \subseteq Slot
  BY <1>1, AtRest DEF IInv, TypeInv, Committed, staging
<1>4. /\ k \in Slot /\ k.keys \in Nat /\ k.retiring \in Nat /\ k.ident \in Nat /\ Numbered(k, fresh)
      /\ HeldAt(s)
  BY <1>1, SlotFields DEF IInv, TypeInv, HeldAt
<1>5. Note # Kv /\ Kv \notin blobs /\ Note \notin blobs
  BY <1>4, NamesOf
<1>6. note.key = k.keys /\ note.ver = writes' /\ note.ref = (IF attach THEN k.ident ELSE old)
  BY <1>1
<1>7. Blob(k.keys).key = k.keys
  BY DEF Blob
<1>8. attach => Attachment(k.ident) \in blobs
  OBVIOUS
<1> HIDE DEF k, note, blobs
<1>9. /\ Present' = Present \cup new /\ files'[Note] = note
      /\ \A n \in new : files'[n].key = k.keys
      /\ \A n \in Present \ new : files'[n] = files[n]
  BY <1>2, <1>6, <1>7 DEF Present
<1> HIDE DEF new
<1>10. Note \in new /\ Kv \notin new
  BY <1>5 DEF new
<1>11. ~PreKeyring(Note) \/ Note \notin Present
  BY <1>5 DEF IInv, PreInv
<1>12. Note \in Present => files[Note].key = k.keys
  <2> SUFFICES ASSUME Note \in Present PROVE files[Note].key = k.keys
    OBVIOUS
  <2>1. files[Note].key \in {k.keys, k.retiring}
    BY <1>1 DEF IndexOpens, ReadKeys, k
  <2>2. k.keys <= files[Note].key /\ k.retiring < k.keys
    BY <1>1, <1>4, <1>11 DEF HeldAt, Numbered, k
  <2> QED
    BY <1>4, <2>1, <2>2
<1>13. Note \notin Present => \E t \in slots : t.keys = k.keys
  BY <1>1 DEF IndexOpens, NothingOverlaps, OldKeysShow, k
<1>14. \A t \in slots : t.keys = k.keys
  <2>1. CASE Note \in Present
    BY <1>3, <1>11, <1>12, <2>1 DEF IInv, SettledInv
  <2>2. CASE Note \notin Present
    BY <1>13, <2>2 DEF IInv, SlotsInv
  <2> QED
    BY <2>1, <2>2
<1>15. ASSUME NEW t \in Session, held[t] # None PROVE held[t].keys <= k.keys
  <2>1. HeldAt(t)
    BY DEF IInv
  <2> QED
    BY <1>11, <1>12, <1>13, <1>15, <2>1 DEF HeldAt
<1>16. \A n \in Present' : /\ n \in new => ~PreKeyring(n)' /\ files'[n].key = k.keys
                           /\ n \notin new => n \in Present /\ files'[n] = files[n]
                                                /\ (PreKeyring(n)' <=> PreKeyring(n))
  BY <1>4, <1>9, KeyringConstantsOK DEF PreKeyring
<1>17. SettledInv'
  BY <1>1, <1>3, <1>14, <1>16 DEF IInv, SettledInv
<1>18. PreInv'
  <2> SUFFICES ASSUME NEW n \in Present', PreKeyring(n)'
               PROVE  /\ n = Kv /\ files'[n].key = First
                      /\ \A m \in Present' \ {Kv} : files'[m].key = Legacy
                      /\ \A t \in slots : t.keys = Legacy /\ (t.label = "primary" => t.secret = First)
                      /\ \A t \in Session : held[t] # None => held[t].keys = Legacy
    BY <1>1, <1>3 DEF PreInv, command
  <2>1. n \in Present /\ PreKeyring(n) /\ n \notin new /\ files'[n] = files[n]
    BY <1>16
  <2>2. /\ n = Kv /\ files[n].key = First
        /\ \A m \in Present \ {Kv} : files[m].key = Legacy
        /\ \A t \in slots : t.keys = Legacy /\ (t.label = "primary" => t.secret = First)
        /\ \A t \in Session : held[t] # None => held[t].keys = Legacy
    BY <2>1 DEF IInv, PreInv
  <2>3. k.keys = Legacy
    BY <1>1, <2>2 DEF k
  <2> QED
    BY <1>16, <2>1, <2>2, <2>3
<1>19. TombstoneInv'
  BY <1>1, <1>9, <1>13 DEF IInv, TombstoneInv
<1>20. KeysInv'
  <2>1. 0 < k.keys /\ k.keys <= fresh
    BY <1>4 DEF Numbered
  <2> QED
    BY <1>1, <1>16, <2>1 DEF IInv, KeysInv
<1>21. ASSUME NEW t \in Session PROVE HeldAt(t)'
  <2> SUFFICES ASSUME held[t] # None
               PROVE  /\ Numbered(held[t], fresh)
                      /\ \A u \in slots : held[t].keys <= u.keys
                      /\ \A n \in Present' : ~PreKeyring(n)' => held[t].keys <= files'[n].key
    BY <1>1 DEF HeldAt
  <2>1. HeldAt(t)
    BY DEF IInv
  <2> QED
    BY <1>15, <1>16, <2>1 DEF HeldAt
<1>22. PlanInv' /\ InstallInv'
  BY <1>1, <1>3 DEF PlanInv, InstallInv, command
<1>23. AckedKept'
  <2>1. acked'.note = writes' /\ acked'.kv = acked.kv
    BY <1>1 DEF IInv, TypeInv
  <2> QED
    BY <1>6, <1>9, <1>10, <2>1 DEF IInv, AckedKept
<1>24. RefsResolve'
  <2>1. CASE attach
    <3>1. Attachment(k.ident) \in Present'
      BY <1>8, <1>9, <2>1 DEF new
    <3> QED
      BY <1>6, <1>9, <2>1, <3>1 DEF RefsResolve
  <2>2. CASE ~attach
    <3>1. note.ref = old
      BY <1>6, <2>2
    <3> QED
      BY <1>9, <3>1 DEF IInv, RefsResolve
  <2> QED
    BY <2>1, <2>2
<1>25. KitInv'
  BY <1>1, <1>3, KitStays DEF command
<1> QED
  BY <1>1, <1>17, <1>18, <1>19, <1>20, <1>21, <1>22, <1>23, <1>24, <1>25, Untouched
  DEF IInv, staging, command
----------------------------------------------------------------------------
(* The new keyring, and the files it is for. *)

LEMMA CommitKeeps ==
  ASSUME NothingOverlaps, IInv, TypeInv', Commit
  PROVE  IInv'
<1> DEFINE w == Wrap(plan.id, "primary", plan.secret, NewKeys(plan.old.keys))
<1>1. /\ pc = "commit" /\ pc' = "install" /\ UNCHANGED <<op, plan>> /\ slots' = {w} \cup RecoverySlot
      /\ UNCHANGED <<files, tombstone, staging, kit, verified, sessions, fresh, losses>>
  BY DEF Commit, Step
<1>2. /\ op = "rekey" /\ plan \in Plan /\ ~Committed /\ staged = StagedTree
      /\ \A n \in Present : ~PreKeyring(n)
  BY <1>1, StagedIsNew
<1>3. /\ journal # None /\ verified = None /\ fresh \in Nat /\ FilesOK /\ slots \subseteq Slot
      /\ TypeInv /\ SlotsInv
  BY <1>1, <1>2, Where DEF IInv, TypeInv, CommandInv
<1>4. /\ plan.keys <= fresh /\ plan.id <= fresh /\ plan.old \in slots
      /\ \A s \in slots : s.id < plan.id /\ s.keys < plan.keys
      /\ \A n \in Present : files[n].key = plan.old.keys
      /\ journal = [slot |-> plan.id, files |-> DOMAIN staged, deletes |-> Present \ DOMAIN staged]
  BY <1>1, <1>2 DEF IInv, PlanInv, Preparing
<1>5. /\ w.id = plan.id /\ w.keys = plan.keys /\ w.retiring = plan.old.keys /\ w.label = "primary"
      /\ w.secret = plan.secret
      /\ plan.keys \in Nat /\ plan.id \in Nat /\ plan.secret \in Passphrase /\ plan.old.keys \in Nat
  BY <1>2, NewKeysTyped, Wrapping
<1> HIDE DEF w
<1>6. \A t \in RecoverySlot : /\ t.keys = plan.keys /\ t.retiring = 0 /\ t.label = "recovery"
                              /\ t.secret = Code
                              /\ \E s \in slots : s.label = "recovery" /\ t.id = s.id
  BY <1>2, <1>3, RecoverySlots
<1>7. \A t, u \in RecoverySlot : t = u
  BY <1>2, <1>3, RecoverySlots
<1>8. /\ journal'.slot = plan.id /\ journal'.files = DOMAIN staged
      /\ journal'.deletes = Present \ DOMAIN staged /\ journal' = journal /\ staged' = staged
      /\ Present' = Present /\ acked' = acked
  BY <1>1, <1>4 DEF staging, Present, sessions
<1>9. Committed'
  BY <1>1, <1>3, <1>5, <1>8 DEF Committed
<1>10. \A s \in slots' : s.keys = plan.keys /\ (s.label = "primary" => s = w)
  BY <1>1, <1>5, <1>6
<1>11. SlotsInv'
  <2>1. Numbered(w, fresh)
    BY <1>4, <1>5 DEF Numbered
  <2>2. ASSUME NEW t \in RecoverySlot PROVE Numbered(t, fresh)
    <3>1. 0 < plan.keys
      <4>1. plan.old.keys < plan.keys
        BY <1>4
      <4> QED
        BY <1>5, <4>1
    <3>2. t.id <= fresh
      BY <1>6 DEF IInv, SlotsInv, Numbered
    <3> QED
      BY <1>4, <1>6, <3>1, <3>2, KeyringConstantsOK DEF Numbered
  <2>3. \A s \in slots' : Numbered(s, fresh')
    BY <1>1, <2>1, <2>2
  <2>4. \A s, t \in slots' : s.keys = t.keys /\ (s.label = t.label => s = t)
    BY <1>1, <1>5, <1>6, <1>7
  <2> QED
    BY <1>1, <1>5, <2>3, <2>4 DEF SlotsInv
<1>12. KeysInv' /\ \A s \in Session : HeldAt(s)'
  <2>1. ASSUME NEW s \in Session, held[s] # None PROVE held[s].keys <= plan.keys
    <3>1. held[s].keys <= plan.old.keys /\ plan.old.keys < plan.keys /\ held[s].keys \in Nat
      BY <1>3, <1>4, <2>1, SlotFields DEF IInv, HeldAt, TypeInv
    <3> QED
      BY <1>5, <3>1
  <2> QED
    BY <1>1, <1>3, <1>10, <2>1, KeysStay DEF sessions
<1>13. CommandInv'
  BY <1>1, <1>2, <1>3, <1>8, <1>9 DEF CommandInv, Preparing, Locations
<1>14. KitInv'
  BY <1>1, <1>2, <1>3, KitStays
<1>15. SettledInv'
  BY <1>9 DEF SettledInv
<1>16. PreInv'
  BY <1>1, <1>2 DEF PreInv, Present, PreKeyring
<1>17. TombstoneInv'
  BY <1>1, <1>4, <1>8 DEF IInv, TombstoneInv
<1>18. PlanInv'
  BY <1>1, <1>2, <1>4, <1>10 DEF PlanInv, Preparing
<1>19. InstallInv'
  <2>1. /\ staged \in [DOMAIN staged -> Sealed] /\ Names(DOMAIN staged)
        /\ \A m \in DOMAIN staged : staged[m].key = plan.keys
        /\ \A n \in {Note, Kv} : /\ n \in Present <=> n \in DOMAIN staged
                                 /\ n \in Present => staged[n].ver = files[n].ver
        /\ Note \in Present /\ staged[Note].ref # 0 =>
             Attachment(staged[Note].ref) \in DOMAIN staged
    BY <1>2, <1>3, Staging DEF IInv
  <2>2. \A s \in slots', n \in Present :
          s.label = "primary" => files[n].key = s.retiring
    BY <1>4, <1>5, <1>10
  <2>3. /\ Note \in Present => staged[Note].ver = acked.note
        /\ Kv \in Present => staged[Kv].ver = acked.kv
    BY <2>1 DEF IInv, AckedKept
  <2>4. \A s \in slots', n \in DOMAIN staged : staged[n].key = s.keys
    BY <1>10, <2>1
  <2>5. files' = files
    BY <1>1
  <2>6. Names(journal.files)'
    BY <1>8, <2>1 DEF Names
  <2>7. /\ journal'.files \cap journal'.deletes = {}
        /\ Present \subseteq journal'.files \cup journal'.deletes
    BY <1>8
  <2> QED
    BY <1>8, <2>1, <2>2, <2>3, <2>4, <2>5, <2>6, <2>7 DEF InstallInv
<1>20. AckedKept' /\ RefsResolve'
  BY <1>1, Untouched DEF sessions
<1> QED
  BY <1>11, <1>12, <1>13, <1>14, <1>15, <1>16, <1>17, <1>18, <1>19, <1>20 DEF IInv

\* A staged file takes its place.  Attachments are installed before the notes that refer to
\* them under their new names.
LEMMA InstallOneKeeps ==
  ASSUME NothingOverlaps, IInv, TypeInv', InstallOne
  PROVE  IInv'
<1>1. /\ pc = "install"
      /\ UNCHANGED <<slots, tombstone, journal, kit, command, verified, sessions, fresh, losses>>
  BY DEF InstallOne
<1>2. PICK n \in Remaining : /\ n = Note => \A m \in Remaining : m.kind # "attachment"
                             /\ files' = Stored(files, n, staged[n])
                             /\ staged' = Without(staged, {n})
  BY DEF InstallOne
<1>3. /\ op \in {"rekey", "resume"} /\ Committed /\ Committed' /\ verified = None /\ fresh \in Nat
      /\ slots \subseteq Slot /\ slots # {} /\ FilesOK
  BY <1>1, Where, Untouched DEF IInv, TypeInv, Committed
<1>4. n \in journal.files /\ n \in DOMAIN staged
  BY DEF Remaining
<1>5. Present' = Present \cup {n} /\ files'[n] = staged[n] /\ \A m \in Present \ {n} : files'[m] = files[m]
  <2>1. /\ DOMAIN Stored(files, n, staged[n]) = (DOMAIN files) \cup {n}
        /\ Stored(files, n, staged[n])[n] = staged[n]
        /\ \A m \in (DOMAIN files) \ {n} : Stored(files, n, staged[n])[m] = files[m]
    BY DEF Stored
  <2> QED
    BY <1>2, <2>1 DEF Present
<1>6. DOMAIN staged' = DOMAIN staged \ {n} /\ \A m \in DOMAIN staged \ {n} : staged'[m] = staged[m]
  <2>1. /\ DOMAIN Without(staged, {n}) = (DOMAIN staged) \ {n}
        /\ \A m \in (DOMAIN staged) \ {n} : Without(staged, {n})[m] = staged[m]
    BY TakingAway
  <2> QED
    BY <1>2, <2>1
<1>7. /\ staged \in [DOMAIN staged -> Sealed] /\ DOMAIN staged \subseteq journal.files
      /\ Names(journal.files)
      /\ journal.files \cap journal.deletes = {}
      /\ Present \subseteq journal.files \cup journal.deletes
      /\ journal.files \subseteq Present \cup DOMAIN staged
      /\ \A s \in slots, m \in DOMAIN staged : staged[m].key = s.keys
      /\ Note \in Present <=> Note \in journal.files
      /\ Kv \in Present <=> Kv \in journal.files
  BY <1>3 DEF IInv, InstallInv
<1>8. PICK o \in slots : TRUE
  BY <1>3
<1>9. /\ files'[n].key = o.keys /\ o.keys \in Nat /\ 0 < o.keys /\ o.keys <= fresh
      /\ \A s \in slots : s.keys = o.keys
  <2>1. Numbered(o, fresh) /\ o.retiring \in Nat /\ o.keys \in Nat
    BY <1>3, SlotFields DEF IInv, SlotsInv
  <2>2. 0 < o.keys /\ o.keys <= fresh
    BY <2>1 DEF Numbered
  <2> QED
    BY <1>4, <1>5, <1>7, <2>1, <2>2 DEF IInv, SlotsInv
<1>10. \A m \in Present : ~PreKeyring(m)
  BY <1>3 DEF IInv, PreInv
<1>11. \A m \in Present' : m = n \/ (m \in Present /\ files'[m] = files[m])
  BY <1>5
<1>12. \A m \in Present' : ~PreKeyring(m)'
  BY <1>9, <1>10, <1>11, KeyringConstantsOK DEF PreKeyring
<1>13. SettledInv' /\ PreInv'
  BY <1>3, <1>12 DEF SettledInv, PreInv
<1>14. TombstoneInv'
  BY <1>1, <1>3, <1>5 DEF IInv, TombstoneInv
<1>15. KeysInv'
  BY <1>1, <1>9, <1>10, <1>11 DEF IInv, KeysInv
<1>16. ASSUME NEW s \in Session PROVE HeldAt(s)'
  BY <1>1, <1>8, <1>9, <1>10, <1>11 DEF IInv, HeldAt, Numbered, sessions
<1>17. PlanInv'
  BY <1>1 DEF IInv, PlanInv, Preparing, command
<1>18. Note = n => /\ files'[Note].ver = acked.note
                   /\ files'[Note].ref # 0 => /\ Attachment(files'[Note].ref) \in journal.files
                                              /\ Attachment(files'[Note].ref) \notin DOMAIN staged
  <2> SUFFICES ASSUME Note = n
               PROVE  /\ files'[Note].ver = acked.note
                      /\ files'[Note].ref # 0 => /\ Attachment(files'[Note].ref) \in journal.files
                                                 /\ Attachment(files'[Note].ref) \notin DOMAIN staged
    OBVIOUS
  <2>1. /\ staged[Note].ver = acked.note /\ staged[Note].ref \in Nat
        /\ staged[Note].ref # 0 => Attachment(staged[Note].ref) \in journal.files
    BY <1>3, <1>4, <1>7 DEF IInv, InstallInv, Sealed
  <2>2. Attachment(staged[Note].ref) \notin Remaining
    BY <1>2, <2>1, NamesOf
  <2> QED
    BY <1>5, <2>1, <2>2 DEF Remaining
<1>19. Note # n /\ Note \in Present' =>
         /\ Note \in Present /\ files'[Note] = files[Note]
         /\ Note \notin DOMAIN staged /\ files[Note].ref # 0 =>
              /\ Attachment(files[Note].ref) \in journal.files
              /\ Attachment(files[Note].ref) \notin DOMAIN staged
  BY <1>3, <1>11 DEF IInv, InstallInv
<1>20. InstallInv'
  <2>1. journal' = journal /\ slots' = slots /\ acked' = acked
    BY <1>1 DEF sessions
  <2>2. staged' \in [DOMAIN staged' -> Sealed]
    <3>1. Without(staged, {n}) \in [(DOMAIN staged) \ {n} -> Sealed]
      BY <1>7, TakingAway
    <3> QED
      BY <1>2, <1>6, <3>1
  <2>3. DOMAIN staged' \subseteq journal.files /\ Present' \subseteq journal.files \cup journal.deletes
          /\ journal.files \subseteq Present' \cup DOMAIN staged'
    BY <1>4, <1>5, <1>6, <1>7
  <2>4. \A s \in slots, m \in DOMAIN staged' : staged'[m].key = s.keys
    BY <1>6, <1>7
  <2>5. \A s \in slots, m \in Present' :
          \/ files'[m].key = s.keys
          \/ /\ s.label = "primary" => files'[m].key = s.retiring
             /\ m \in DOMAIN staged' \cup journal.deletes
    <3> SUFFICES ASSUME NEW s \in slots, NEW m \in Present, m # n, files'[m] = files[m]
                 PROVE  \/ files[m].key = s.keys
                        \/ /\ s.label = "primary" => files[m].key = s.retiring
                           /\ m \in DOMAIN staged' \cup journal.deletes
      BY <1>9, <1>11
    <3>1. \/ files[m].key = s.keys
          \/ /\ s.label = "primary" => files[m].key = s.retiring
             /\ m \in DOMAIN staged \cup journal.deletes
      BY <1>3 DEF IInv, InstallInv
    <3> QED
      BY <1>6, <3>1
  <2>6. \A m \in {Note, Kv} : m \in Present' <=> m \in journal.files
    BY <1>4, <1>5, <1>7
  <2>7. Note \in DOMAIN staged' =>
          /\ staged'[Note].ver = acked.note
          /\ staged'[Note].ref # 0 => Attachment(staged'[Note].ref) \in journal.files
    BY <1>3, <1>6 DEF IInv, InstallInv
  <2>8. Kv \in DOMAIN staged' => staged'[Kv].ver = acked.kv
    BY <1>3, <1>6 DEF IInv, InstallInv
  <2>9. Note \in Present' /\ Note \notin DOMAIN staged' /\ files'[Note].ref # 0 =>
          /\ Attachment(files'[Note].ref) \in journal.files
          /\ Attachment(files'[Note].ref) \notin DOMAIN staged'
    BY <1>6, <1>18, <1>19
  <2>10. Names(journal.files)'
    BY <1>7, <2>1 DEF Names
  <2> QED
    BY <1>7, <2>1, <2>2, <2>3, <2>4, <2>5, <2>6, <2>7, <2>8, <2>9, <2>10 DEF InstallInv
<1>21. AckedKept'
  <2>1. acked' = acked
    BY <1>1 DEF sessions
  <2>2. Kv = n => files'[Kv].ver = acked.kv
    BY <1>3, <1>4, <1>5 DEF IInv, InstallInv
  <2> QED
    BY <1>5, <1>18, <2>1, <2>2 DEF IInv, AckedKept
<1>22. RefsResolve'
  <2>1. Note = n /\ files'[Note].ref # 0 => Attachment(files'[Note].ref) \in Present'
    BY <1>5, <1>7, <1>18
  <2> QED
    BY <1>5, <1>19, <2>1 DEF IInv, RefsResolve
<1>23. KitInv'
  BY <1>1, <1>3, KitStays DEF command
<1> QED
  BY <1>1, <1>13, <1>14, <1>15, <1>16, <1>17, <1>20, <1>21, <1>22, <1>23, Untouched
  DEF IInv, command

\* An old identity goes once everything is installed: nothing refers to it any more.
LEMMA DeleteOneKeeps ==
  ASSUME NothingOverlaps, IInv, TypeInv', DeleteOne
  PROVE  IInv'
<1>1. /\ pc = "install" /\ Remaining = {}
      /\ UNCHANGED <<slots, tombstone, staging, kit, command, verified, sessions, fresh, losses>>
  BY DEF DeleteOne
<1>2. PICK n \in journal.deletes \cap Present : files' = Without(files, {n})
  BY DEF DeleteOne
<1>3. /\ op \in {"rekey", "resume"} /\ Committed /\ Committed' /\ verified = None /\ fresh \in Nat
      /\ slots # {}
  BY <1>1, Where, Untouched DEF IInv, TypeInv, Committed, staging
<1>4. Present' = Present \ {n} /\ \A m \in Present \ {n} : files'[m] = files[m]
  <2>1. /\ DOMAIN Without(files, {n}) = (DOMAIN files) \ {n}
        /\ \A m \in (DOMAIN files) \ {n} : Without(files, {n})[m] = files[m]
    BY TakingAway
  <2> QED
    BY <1>2, <2>1 DEF Present
<1>5. /\ DOMAIN staged \subseteq journal.files /\ Names(journal.files)
      /\ journal.files \cap journal.deletes = {}
      /\ Present \subseteq journal.files \cup journal.deletes
      /\ journal.files \subseteq Present \cup DOMAIN staged
      /\ Note \in Present <=> Note \in journal.files
      /\ Kv \in Present <=> Kv \in journal.files
  BY <1>3 DEF IInv, InstallInv
<1>6. DOMAIN staged = {} /\ n \notin journal.files
  BY <1>1, <1>5 DEF Remaining
<1>7. \A m \in {Note, Kv} : m \in Present <=> m \in Present'
  BY <1>4, <1>5, <1>6
<1>8. \A m \in Present' : m \in Present /\ files'[m] = files[m] /\ ~PreKeyring(m) /\ ~PreKeyring(m)'
  <2>1. \A m \in Present : ~PreKeyring(m)
    BY <1>3 DEF IInv, PreInv
  <2> QED
    BY <1>4, <2>1 DEF PreKeyring
<1>9. SettledInv' /\ PreInv'
  BY <1>3, <1>8 DEF SettledInv, PreInv
<1>10. TombstoneInv'
  BY <1>1, <1>3, <1>7 DEF IInv, TombstoneInv
<1>11. KeysInv'
  BY <1>1, <1>8 DEF IInv, KeysInv
<1>12. ASSUME NEW s \in Session PROVE HeldAt(s)'
  BY <1>1, <1>8 DEF IInv, HeldAt, Numbered, sessions
<1>13. PlanInv'
  BY <1>1 DEF IInv, PlanInv, Preparing, command
<1>14. Note \in Present' /\ files'[Note].ref # 0 => Attachment(files'[Note].ref) \in journal.files
  BY <1>3, <1>6, <1>8 DEF IInv, InstallInv
<1>15. InstallInv'
  <2>1. journal' = journal /\ slots' = slots /\ acked' = acked /\ staged' = staged
    BY <1>1 DEF sessions, staging
  <2>2. Present' \subseteq journal.files \cup journal.deletes /\ journal.files \subseteq Present'
    BY <1>4, <1>5, <1>6
  <2>3. \A s \in slots, m \in Present' :
          \/ files'[m].key = s.keys
          \/ /\ s.label = "primary" => files'[m].key = s.retiring
             /\ m \in DOMAIN staged \cup journal.deletes
    BY <1>3, <1>8 DEF IInv, InstallInv
  <2>4. Names(journal.files)' /\ staged \in [DOMAIN staged -> Sealed]
    BY <1>3, <1>5, <2>1 DEF IInv, InstallInv, Names
  <2> QED
    BY <1>5, <1>6, <1>7, <1>14, <2>1, <2>2, <2>3, <2>4 DEF InstallInv
<1>16. AckedKept'
  <2>1. acked' = acked
    BY <1>1 DEF sessions
  <2> QED
    BY <1>7, <1>8, <2>1 DEF IInv, AckedKept
<1>17. RefsResolve'
  BY <1>4, <1>5, <1>6, <1>14 DEF RefsResolve
<1>18. KitInv'
  BY <1>1, <1>3, KitStays DEF command
<1> QED
  BY <1>1, <1>9, <1>10, <1>11, <1>12, <1>13, <1>15, <1>16, <1>17, <1>18, Untouched
  DEF IInv, command, staging
----------------------------------------------------------------------------
(* The invariant, and what it says. *)

LEMMA InitKeeps ==
  ASSUME Init
  PROVE  IInv
<1>1. /\ slots = {} /\ tombstone = FALSE /\ journal = None /\ staged = None /\ kit = None
      /\ op = "idle" /\ pc = "idle" /\ verified = None /\ held = [s \in Session |-> None]
      /\ fresh = 1 /\ writes = 1 /\ losses = 0
  BY DEF Init, Legacy
<1>2. CASE files = << >> /\ acked = [note |-> 0, kv |-> 0]
  <2>1. Present = {}
    BY <1>2, Empties DEF Present
  <2>2. files \in [Present -> Sealed]
    BY <1>2, <2>1
  <2>3. Note \notin Present /\ Kv \notin Present /\ acked.note = 0 /\ acked.kv = 0
          /\ acked \in [note : Nat, kv : Nat]
    BY <1>2, <2>1
  <2>4. TypeInv
    BY <1>1, <2>1, <2>2, <2>3 DEF TypeInv, FilesOK, Names, Operations, Locations
  <2>5. CommandInv /\ SlotsInv /\ KitInv /\ SettledInv /\ PlanInv /\ InstallInv
    BY <1>1, <2>1 DEF CommandInv, SlotsInv, KitInv, SettledInv, PlanInv, InstallInv, Committed,
       Preparing, Locations
  <2>6. PreInv /\ TombstoneInv /\ KeysInv /\ AckedKept /\ RefsResolve
    BY <1>1, <2>1, <2>3 DEF PreInv, TombstoneInv, KeysInv, AckedKept, RefsResolve
  <2>7. \A s \in Session : HeldAt(s)
    BY <1>1 DEF HeldAt
  <2> QED
    BY <2>4, <2>5, <2>6, <2>7 DEF IInv
<1>3. CASE ~(files = << >> /\ acked = [note |-> 0, kv |-> 0])
  <2> DEFINE N == {Note, Kv, Attachment(1), Sync(1)}
             F(n) == IF n = Note THEN [key |-> 1, ver |-> 1, ref |-> 1]
                     ELSE IF n = Kv THEN [key |-> First, ver |-> 1, ref |-> 0] ELSE Blob(1)
  <2>1. files = [n \in N |-> F(n)] /\ acked = [note |-> 1, kv |-> 1]
    BY <1>3 DEF Init, Legacy
  <2>2. \A n \in N : F(n) \in Sealed
    BY KeyringConstantsOK DEF Sealed, Keys, Blob
  <2>3. N \subseteq Name /\ \A n \in N : (n.kind = "note" => n = Note) /\ (n.kind = "kv" => n = Kv)
    <3>1. Note.kind = "note" /\ Kv.kind = "kv"
      BY DEF Note, Kv
    <3>2. \A n \in {Attachment(1), Sync(1)} : n \in Name /\ n.kind \in {"attachment", "sync"}
      BY NamesOf
    <3> QED
      BY <3>1, <3>2, NamesOf
  <2>4. /\ F(Note).key = 1 /\ F(Note).ver = 1 /\ F(Note).ref = 1
        /\ F(Kv).key = First /\ F(Kv).ver = 1
        /\ \A n \in N \ {Kv} : F(n).key = 1
    BY NamesOf DEF Blob
  <2> HIDE DEF F
  <2>5. /\ Present = N /\ files \in [N -> Sealed] /\ Note \in N /\ Kv \in N /\ Attachment(1) \in N
        /\ files[Note].ver = 1 /\ files[Note].ref = 1 /\ files[Kv].key = First /\ files[Kv].ver = 1
        /\ \A n \in N \ {Kv} : files[n].key = 1
    BY <2>1, <2>2, <2>4 DEF Present
  <2> HIDE DEF N
  <2>6. TypeInv
    BY <1>1, <2>1, <2>3, <2>5 DEF TypeInv, FilesOK, Names, Operations, Locations
  <2>7. CommandInv /\ SlotsInv /\ KitInv /\ SettledInv /\ PlanInv /\ InstallInv
    BY <1>1 DEF CommandInv, SlotsInv, KitInv, SettledInv, PlanInv, InstallInv, Committed,
       Preparing, Locations
  <2>8. \A n \in Present : PreKeyring(n) => n = Kv
    BY <2>5, KeyringConstantsOK DEF PreKeyring
  <2>9. PreInv /\ TombstoneInv /\ KeysInv
    <3>1. \A s \in Session : held[s] = None
      BY <1>1
    <3>2. ~Committed
      BY <1>1 DEF Committed
    <3>3. PreInv
      BY <1>1, <2>5, <2>8, <3>1, <3>2 DEF PreInv, Legacy
    <3>4. PreKeyring(Kv)
      BY <2>5, KeyringConstantsOK DEF PreKeyring
    <3>5. \A n \in Present : ~PreKeyring(n) => files[n].key = 1
      BY <2>5, <3>4
    <3>6. KeysInv
      BY <1>1, <3>5 DEF KeysInv
    <3> QED
      BY <2>5, <3>3, <3>6 DEF TombstoneInv
  <2>10. AckedKept /\ RefsResolve
    BY <2>1, <2>5 DEF AckedKept, RefsResolve
  <2>11. \A s \in Session : HeldAt(s)
    BY <1>1 DEF HeldAt
  <2> QED
    BY <2>6, <2>7, <2>9, <2>10, <2>11 DEF IInv
<1> QED
  BY <1>2, <1>3

LEMMA Stutters ==
  ASSUME IInv, UNCHANGED vars
  PROVE  IInv'
<1>1. TypeInv'
  BY DEF IInv, TypeInv, FilesOK, Present, vars, vault, staging, command, sessions
<1> QED
  BY <1>1, Untouched DEF IInv, vars, vault, staging, command, sessions

LEMMA NextKeeps ==
  ASSUME NothingOverlaps, IInv, Next
  PROVE  IInv'
<1>1. TypeInv'
  BY TypesOfRekey, TypesOfMigration, TypesOfSlots, TypesOfUse DEF Next
<1>2. CASE Rekeying
  BY <1>1, <1>2, BeginRekeyKeeps, StageKeeps, AdvanceKitKeeps, GiveUpKeeps, WriteJournalKeeps,
     CommitKeeps, InstallOneKeeps, DeleteOneKeeps, ClearKeeps, SettleKeeps, RecoverKeeps
  DEF Rekeying
<1>3. CASE Migrating
  BY <1>1, <1>3, BeginMigrateKeeps, ResumeMigrateKeeps, MigrateOneKeeps, TombstoneKeeps DEF Migrating
<1>4. CASE Slots
  BY <1>1, <1>4, AddSlotKeeps, VerifyKitKeeps, CreateKeeps, BeginKitKeeps, RemoveSlotKeeps,
     RestoreKeeps, ChangePassphraseKeeps DEF Slots
<1>5. CASE Using
  BY <1>1, <1>5, CloseKeeps, OpenKeeps, WriteNoteKeeps, WriteKvKeeps DEF Using
<1>6. CASE Die \/ LoseKeyring
  BY <1>1, <1>6, DieKeeps, LoseKeyringKeeps
<1> QED
  BY <1>2, <1>3, <1>4, <1>5, <1>6 DEF Next

LEMMA Consequences ==
  ASSUME IInv
  PROVE  TypeOK /\ Readable /\ Rekeyable
<1>1. /\ slots \subseteq Slot /\ FilesOK /\ SlotsInv /\ SettledInv /\ PreInv /\ KeysInv /\ InstallInv
  BY DEF IInv, TypeInv
<1>2. TypeOK
  BY DEF IInv, TypeInv, TypeOK, FilesOK
<1>3. Readable
  <2> SUFFICES ASSUME slots # {}
               PROVE  \E s \in slots : /\ s.label = "primary"
                                       /\ \A n \in Present : files[n].key \in ReadKeys(s) \cup {s.secret}
    BY DEF Readable
  <2> PICK s \in slots : s.label = "primary"
    BY <1>1 DEF SlotsInv
  <2>1. s.keys # 0
    <3>1. s.keys \in Nat /\ s.retiring \in Nat /\ s.retiring < s.keys
      BY <1>1, SlotFields DEF SlotsInv, Numbered
    <3> QED
      BY <3>1
  <2>2. ASSUME NEW n \in Present PROVE files[n].key \in ReadKeys(s) \cup {s.secret}
    <3>1. CASE ~Committed
      BY <1>1, <2>1, <3>1 DEF SettledInv, PreInv, ReadKeys
    <3>2. CASE Committed
      <4>1. ~PreKeyring(n) /\ files[n].key # 0
        <5>1. ~PreKeyring(n)
          BY <1>1, <3>2 DEF PreInv
        <5>2. files[n].key \in Nat
          BY <1>1, <5>1 DEF FilesOK, Sealed, Keys, PreKeyring
        <5>3. 0 < files[n].key
          BY <1>1, <5>1 DEF KeysInv
        <5> QED
          BY <5>1, <5>2, <5>3
      <4>2. files[n].key = s.keys \/ files[n].key = s.retiring
        BY <1>1, <3>2 DEF InstallInv
      <4> QED
        BY <4>1, <4>2 DEF ReadKeys
    <3> QED
      BY <3>1, <3>2
  <2> QED
    BY <2>2
<1>4. Rekeyable
  BY <1>1 DEF Rekeyable, SettledInv, Committed
<1> QED
  BY <1>2, <1>3, <1>4

LEMMA Invariance ==
  ASSUME NothingOverlaps
  PROVE  Spec => []IInv
<1>1. Init => IInv
  BY InitKeeps
<1>2. IInv /\ [Next]_vars => IInv'
  BY NextKeeps, Stutters
<1> QED
  BY <1>1, <1>2, PTL DEF Spec

\* Slots, files, kit and sessions are well typed after any commands, cuts and losses
\* (keyring.ts, keyring-rekey.ts, keyring-migrate.ts, keyring-passphrase.ts, keyring-recovery.ts)
\* that the hypotheses leave.
THEOREM KeyringTypeSafety ==
  JournalSeen /\ MigrationsEnd /\ RestoresAlone /\ OldKeysShow /\ Spec => []TypeOK
<1> SUFFICES ASSUME JournalSeen, MigrationsEnd, RestoresAlone, OldKeysShow
             PROVE  Spec => []TypeOK
  OBVIOUS
<1>1. IInv => TypeOK
  BY Consequences
<1>2. Spec => []IInv
  BY Invariance DEF NothingOverlaps
<1> QED
  BY <1>1, <1>2, PTL

\* At every moment one passphrase opens every file: the commit of rekeyVault leaves the
\* outgoing keys in the new slot until everything staged is installed, and createRecoveryKit,
\* changeVaultPassphrase and migrateToKeyring never leave a keyring without them; provided
\* that what passed the journal check waits out a re-key, that a migration is finished before
\* the passphrase changes, that nobody comes between a restore's check and its lock, and that
\* old keys do not meet a vault without files.  Each of the four breaks it otherwise.
THEOREM KeyringReadable ==
  JournalSeen /\ MigrationsEnd /\ RestoresAlone /\ OldKeysShow /\ Spec => []Readable
<1> SUFFICES ASSUME JournalSeen, MigrationsEnd, RestoresAlone, OldKeysShow
             PROVE  Spec => []Readable
  OBVIOUS
<1>1. IInv => Readable
  BY Consequences
<1>2. Spec => []IInv
  BY Invariance DEF NothingOverlaps
<1> QED
  BY <1>1, <1>2, PTL

\* Between commands every file is under the keys in force, so that stageRekey, which opens
\* every file with them, can always start: no session writes with keys a re-key has replaced,
\* provided that what passed the journal check waits out a re-key (JournalSeen), that nobody
\* comes between a restore's check and its lock, and that old keys do not meet a vault without
\* files.  Each of the three breaks it otherwise.
THEOREM KeyringRekeyable ==
  JournalSeen /\ MigrationsEnd /\ RestoresAlone /\ OldKeysShow /\ Spec => []Rekeyable
<1> SUFFICES ASSUME JournalSeen, MigrationsEnd, RestoresAlone, OldKeysShow
             PROVE  Spec => []Rekeyable
  OBVIOUS
<1>1. IInv => Rekeyable
  BY Consequences
<1>2. Spec => []IInv
  BY Invariance DEF NothingOverlaps
<1> QED
  BY <1>1, <1>2, PTL

\* installStaged puts what stageRekey made from the files of the vault in their place, and
\* from the one to the other nobody writes, provided that what passed the journal check waits
\* out a re-key: nothing acknowledged is replaced by an older copy.
THEOREM KeyringAckedKept ==
  JournalSeen /\ MigrationsEnd /\ RestoresAlone /\ OldKeysShow /\ Spec => []AckedKept
<1> SUFFICES ASSUME JournalSeen, MigrationsEnd, RestoresAlone, OldKeysShow
             PROVE  Spec => []AckedKept
  OBVIOUS
<1>1. IInv => AckedKept
  BY DEF IInv
<1>2. Spec => []IInv
  BY Invariance DEF NothingOverlaps
<1> QED
  BY <1>1, <1>2, PTL

\* rewriteAttachmentIdentities gives attachments new names: installed before the notes that
\* use them, and the old ones deleted after, so that no note ever names a missing one, under
\* the hypotheses of the invariant.
THEOREM KeyringRefsResolve ==
  JournalSeen /\ MigrationsEnd /\ RestoresAlone /\ OldKeysShow /\ Spec => []RefsResolve
<1> SUFFICES ASSUME JournalSeen, MigrationsEnd, RestoresAlone, OldKeysShow
             PROVE  Spec => []RefsResolve
  OBVIOUS
<1>1. IInv => RefsResolve
  BY DEF IInv
<1>2. Spec => []IInv
  BY Invariance DEF NothingOverlaps
<1> QED
  BY <1>1, <1>2, PTL
=============================================================================
