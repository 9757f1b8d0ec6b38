------------------------------ MODULE Keyring ------------------------------
(***************************************************************************)
(* The keyring of a vault and the operations that change it (src/keyring.ts, *)
(* keyring-rekey.ts, keyring-migrate.ts, keyring-passphrase.ts,             *)
(* keyring-recovery.ts).  keyring.json is a list of slots; a slot seals one *)
(* set of keys under one secret.  Every other file is sealed under one of    *)
(* those keys: a re-key replaces them, and so has to replace every file.     *)
(*                                                                          *)
(* The commands hold the vault lock (VaultLock), so one runs at a time; each *)
(* file they replace for good is a step, and they may stop between two.      *)
(* Open sessions keep the keys they were opened with.                       *)
(***************************************************************************)
EXTENDS Naturals, FiniteSets

CONSTANTS
  Session, Passphrase,
  Code,      \* the recovery code: a secret that is no passphrase
  First,     \* the passphrase of a vault that has no keyring yet
  None,      \* no staging tree, journal, kit, session keys or pending restore
  Overlap,   \* what may overlap: a subset of Overlaps
  MaxFresh,  \* bound: slots and key sets made
  MaxWrites, \* bound: notes and values written
  MaxLosses  \* bound: commands cut off, and losses of keyring.json

VARIABLES
  slots,     \* keyring.json; {} when the file does not exist
  files,     \* [names present -> Sealed]
  tombstone, \* documents/manifest.json says that the vault has a keyring
  staged,    \* .rekey/new
  journal,   \* .rekey/journal.json
  kit,       \* the offline recovery kit: a slot
  op, pc, plan,  \* the command that runs, its next step, what it works with
  verified,  \* the slot a restore has verified, without the lock
  held,      \* the keys of each open session
  fresh, writes, losses,
  acked      \* history: the last value written to the note and to the key-value file

vault == <<slots, files, tombstone>>
staging == <<staged, journal>>
command == <<op, pc, plan>>
sessions == <<held, writes, acked>>
vars == <<vault, staging, kit, command, verified, sessions, fresh, losses>>

Legacy == 1    \* the keys derived from the first passphrase
Note == [kind |-> "note", id |-> 0]    \* a note and the index that lists it
Kv == [kind |-> "kv", id |-> 0]
Attachment(i) == [kind |-> "attachment", id |-> i]
Sync(i) == [kind |-> "sync", id |-> i]
Keys == Nat \cup Passphrase    \* a file from before the keyring: the passphrase itself
Sealed == [key : Keys, ver : Nat, ref : Nat]
Blob(k) == [key |-> k, ver |-> 0, ref |-> 0]
Name == [kind : {"note", "kv", "attachment", "sync"}, id : Nat]
Journal == [slot : Nat, files : SUBSET Name, deletes : SUBSET Name]

\* keys: the key set in force; retiring: the one a re-key is replacing; ident: the pinned
\* keys that name attachments and sync changes.
Slot == [id : Nat, label : {"primary", "recovery"}, secret : Passphrase \cup {Code},
         keys : Nat, retiring : Nat, ident : Nat]

\* "window": sessions and commands that passed the journal check act after a re-key was cut
\* off past its commit.  "migration": the passphrase changes before a migration that was cut
\* off is run again.  "restore": commands run between a restore's check and its lock.
\* "unindexed": a session opened before a re-key writes the first note of its vault, or a kit
\* from before one, with nothing sealed to contradict it, is restored into an empty vault.
Overlaps == {"window", "migration", "restore", "unindexed"}

ASSUME KeyringConstantsOK ==
  /\ First \in Passphrase /\ Code \notin Passphrase
  /\ Passphrase \cap Nat = {} /\ None \notin Slot /\ None \notin Journal
  /\ Overlap \subseteq Overlaps
  /\ {MaxFresh, MaxWrites, MaxLosses} \subseteq Nat

\* An empty directory, or a vault from before the keyring, with one file of each class.
Init ==
  /\ slots = {} /\ tombstone = FALSE
  /\ \/ files = << >> /\ acked = [note |-> 0, kv |-> 0]
     \/ /\ files = [n \in {Note, Kv, Attachment(Legacy), Sync(Legacy)} |->
                      IF n = Note THEN [key |-> Legacy, ver |-> 1, ref |-> Legacy]
                      ELSE IF n = Kv THEN [key |-> First, ver |-> 1, ref |-> 0]
                      ELSE Blob(Legacy)]
        /\ acked = [note |-> 1, kv |-> 1]
  /\ staged = None /\ journal = None /\ kit = None
  /\ op = "idle" /\ pc = "idle" /\ plan = None /\ verified = None
  /\ held = [s \in Session |-> None]
  /\ fresh = Legacy /\ writes = 1 /\ losses = 0
----------------------------------------------------------------------------
(* Keys and slots. *)

Present == DOMAIN files
Stored(f, n, x) == [m \in (DOMAIN f) \cup {n} |-> IF m = n THEN x ELSE f[m]]
Without(f, S) == [n \in (DOMAIN f) \ S |-> f[n]]
ReadKeys(s) == {s.keys, s.retiring} \ {0}
OpenedBy(secret) == {s \in slots : s.secret = secret}

\* wrapKeySetSlot: a new salt, nonce and id around the given keys.
Wrap(id, label, secret, k) ==
  [id |-> id, label |-> label, secret |-> secret,
   keys |-> k.keys, retiring |-> k.retiring, ident |-> k.ident]

\* detectVaultFormat.
Format == IF slots # {} THEN "keyring"
          ELSE IF Present # {} \/ tombstone THEN "legacy" ELSE "empty"

\* The journal names the slot of the new keyring: whether the re-key is past its commit.
Committed == journal # None /\ \E s \in slots : s.id = journal.slot

PreKeyring(n) == files[n].key \in Passphrase
Migrated == \A n \in Present : ~PreKeyring(n)

Idle == op = "idle"
\* The command line looks for the journal before it asks anything; the lock comes later.
MayRun == Idle /\ (journal = None \/ "window" \in Overlap)
                /\ (verified = None \/ "restore" \in Overlap)
Run(o, l, p) == op' = o /\ pc' = l /\ plan' = p
Done == Run("idle", "idle", None)
Step(l) == pc' = l /\ UNCHANGED <<op, plan>>
Taken(n) == fresh + n <= MaxFresh /\ fresh' = fresh + n
----------------------------------------------------------------------------
(* Sessions. *)

\* openOrCreateVaultKeySet on an empty directory.
Create(p) ==
  /\ MayRun /\ Format = "empty" /\ Taken(1)
  /\ slots' = {Wrap(fresh', "primary", p, [keys |-> fresh', retiring |-> 0, ident |-> fresh'])}
  /\ tombstone' = TRUE
  /\ UNCHANGED <<files, staging, kit, command, verified, sessions, losses>>

\* openVaultKeySet, or the keys derived from the passphrase in a vault without keyring.
Open(s, p) ==
  /\ MayRun /\ held[s] = None
  /\ \/ \E k \in OpenedBy(p) : held' = [held EXCEPT ![s] = k]
     \/ /\ Format = "legacy" /\ ~tombstone /\ p = First
        /\ held' = [held EXCEPT ![s] = Wrap(0, "primary", p,
                                  [keys |-> Legacy, retiring |-> 0, ident |-> Legacy])]
  /\ UNCHANGED <<vault, staging, kit, command, verified, fresh, losses, writes, acked>>

Close(s) ==
  /\ held[s] # None
  /\ held' = [held EXCEPT ![s] = None]
  /\ UNCHANGED <<vault, staging, kit, command, verified, fresh, losses, writes, acked>>

\* With the index cached from before, whatever sealed the one on disk.
IndexCached(s) == Note \in Present

\* loadIndex fails when none of the session's keys opens the index on disk; without an
\* index it starts a new one.
IndexOpens(s) ==
  IF Note \in Present THEN files[Note].key \in ReadKeys(held[s])
  ELSE "unindexed" \in Overlap \/ \E k \in slots : k.keys = held[s].keys

\* A note is written, with an attachment or without; the session's own key seals it.
WriteNote(s, attach) ==
  /\ MayRun /\ held[s] # None /\ IndexOpens(s) /\ writes < MaxWrites
  /\ LET k == held[s]
         old == IF Note \in Present THEN files[Note].ref ELSE 0
         note == [key |-> k.keys, ver |-> writes + 1, ref |-> IF attach THEN k.ident ELSE old]
         blobs == {Sync(k.ident)} \cup (IF attach THEN {Attachment(k.ident)} ELSE {})
     IN files' = [n \in Present \cup {Note} \cup blobs |->
                    IF n = Note THEN note ELSE IF n \in blobs THEN Blob(k.keys) ELSE files[n]]
  /\ writes' = writes + 1 /\ acked' = [acked EXCEPT !.note = writes']
  /\ UNCHANGED <<slots, tombstone, staging, kit, command, verified, held, fresh, losses>>

\* loadVaultFile and saveVaultFile: the keyring is opened for each call.
WriteKv(p) ==
  /\ MayRun /\ writes < MaxWrites
  /\ \E k \in OpenedBy(p) :
       /\ Kv \in Present => files[Kv].key \in ReadKeys(k) \cup {p}
       /\ files' = Stored(files, Kv, [key |-> k.keys, ver |-> writes + 1, ref |-> 0])
  /\ writes' = writes + 1 /\ acked' = [acked EXCEPT !.kv = writes']
  /\ UNCHANGED <<slots, tombstone, staging, kit, command, verified, held, fresh, losses>>
----------------------------------------------------------------------------
(* rekeyVault. *)

\* prepareRecoveryForRekey: a recovery slot needs its own kit.
KitMatches == LET recovery == {s \in slots : s.label = "recovery"} IN
  recovery # {} => kit # None /\ recovery = {kit}

\* Slots the passphrase does not open are dropped; nothing but the audit is written here.
BeginRekey(p, new, rotate) ==
  /\ MayRun /\ journal = None /\ KitMatches /\ Taken(2)
  /\ \E s \in OpenedBy(p) :
       Run("rekey", "stage",
           [old |-> s, keys |-> fresh + 1, secret |-> new, id |-> fresh + 2,
            ident |-> IF rotate THEN fresh + 1 ELSE s.ident])
  /\ UNCHANGED <<vault, staging, kit, verified, sessions, losses>>

\* decryptItem with the keys in force, encryptItem with the new ones.
Reseal(n) == [files[n] EXCEPT !.key = plan.keys]
Rotating == plan.ident # plan.old.ident

\* rewriteAttachmentIdentities: attachments move to new names, and notes refer to those.
\* stageIdentitySyncReset: the sync directory is made anew.
Renamed(n) == IF n.kind \in {"attachment", "sync"} THEN [n EXCEPT !.id = plan.ident] ELSE n
Rewritten(n) == IF n = Note /\ files[n].ref # 0
                THEN [Reseal(n) EXCEPT !.ref = plan.ident] ELSE Reseal(n)
StagedTree ==
  IF Rotating
  THEN [m \in {Renamed(n) : n \in Present} |->
          Rewritten(CHOOSE n \in Present : Renamed(n) = m)]
  ELSE [n \in Present |-> Reseal(n)]

\* With what an earlier run staged taken over.
StageReusing ==
  /\ op = "rekey" /\ pc = "stage"
  /\ IF \A n \in Present : files[n].key = plan.old.keys
     THEN staged' = (IF staged = None THEN StagedTree ELSE staged) /\ Step("kit")
     ELSE staged' = None /\ Done
  /\ UNCHANGED <<vault, journal, kit, verified, sessions, fresh, losses>>

\* stageRekey discards what an earlier run staged; every file must open.
Stage ==
  /\ op = "rekey" /\ pc = "stage"
  /\ IF \A n \in Present : files[n].key = plan.old.keys
     THEN staged' = StagedTree /\ Step("kit")
     ELSE staged' = None /\ Done
  /\ UNCHANGED <<vault, journal, kit, verified, sessions, fresh, losses>>

NewKeys(retiring) == [keys |-> plan.keys, retiring |-> retiring, ident |-> plan.ident]
RecoverySlot == {Wrap(s.id, "recovery", Code, NewKeys(0)) : s \in {t \in slots : t.label = "recovery"}}

\* rewriteRecoveryKitForRekey, before the commit.
AdvanceKit ==
  /\ pc = "kit"
  /\ kit' = IF RecoverySlot = {} THEN kit ELSE CHOOSE s \in RecoverySlot : TRUE
  /\ Step("journal")
  /\ UNCHANGED <<vault, staging, verified, sessions, fresh, losses>>

\* A failure before the commit gives the staging tree up.
GiveUp ==
  /\ op = "rekey" /\ pc \in {"kit", "journal"}
  /\ staged' = None /\ Done
  /\ UNCHANGED <<vault, journal, kit, verified, sessions, fresh, losses>>

WriteJournal ==
  /\ pc = "journal"
  /\ journal' = [slot |-> plan.id, files |-> DOMAIN staged,
                 deletes |-> Present \ DOMAIN staged]
  /\ Step("commit")
  /\ UNCHANGED <<vault, staged, kit, verified, sessions, fresh, losses>>

\* Without the outgoing keys in the new slot.
CommitSettled ==
  /\ pc = "commit"
  /\ slots' = {Wrap(plan.id, "primary", plan.secret, NewKeys(0))} \cup RecoverySlot
  /\ Step("install")
  /\ UNCHANGED <<files, tombstone, staging, kit, verified, sessions, fresh, losses>>

\* The point of no return; the outgoing keys stay in the new slot.
Commit ==
  /\ pc = "commit"
  /\ slots' = {Wrap(plan.id, "primary", plan.secret, NewKeys(plan.old.keys))} \cup RecoverySlot
  /\ Step("install")
  /\ UNCHANGED <<files, tombstone, staging, kit, verified, sessions, fresh, losses>>

Remaining == journal.files \cap DOMAIN staged

\* installStaged: in the order of the sorted paths, attachments before notes.
InstallOne ==
  /\ pc = "install"
  /\ \E n \in Remaining :
       /\ n = Note => \A m \in Remaining : m.kind # "attachment"
       /\ files' = Stored(files, n, staged[n])
       /\ staged' = Without(staged, {n})
  /\ UNCHANGED <<slots, tombstone, journal, kit, command, verified, sessions, fresh, losses>>

\* Old identities deleted as soon as the new keyring is written.
DeleteEarly ==
  /\ pc = "install"
  /\ \E n \in journal.deletes \cap Present : files' = Without(files, {n})
  /\ UNCHANGED <<slots, tombstone, staging, kit, command, verified, sessions, fresh, losses>>

\* Deletions come last.
DeleteOne ==
  /\ pc = "install" /\ Remaining = {}
  /\ \E n \in journal.deletes \cap Present : files' = Without(files, {n})
  /\ UNCHANGED <<slots, tombstone, staging, kit, command, verified, sessions, fresh, losses>>

\* removeTree of the staging directory, the journal in it.
Clear ==
  /\ pc = "install" /\ Remaining = {} /\ journal.deletes \cap Present = {}
  /\ staged' = None /\ journal' = None
  /\ IF op = "rekey" THEN Step("settle") ELSE Done
  /\ UNCHANGED <<vault, kit, verified, sessions, fresh, losses>>

\* The keyring once more, without the outgoing keys; a failure leaves them there.
Settle ==
  /\ pc = "settle"
  /\ slots' \in {slots, {Wrap(s.id, s.label, s.secret, NewKeys(0)) : s \in slots}}
  /\ Done
  /\ UNCHANGED <<files, tombstone, staging, kit, verified, sessions, fresh, losses>>

\* recoverRekey: resumeRekey, or a re-key that finds the work of an earlier one.
Recover ==
  /\ Idle /\ journal # None
  /\ IF Committed
     THEN Run("resume", "install", None) /\ UNCHANGED staging
     ELSE staged' = None /\ journal' = None /\ UNCHANGED command
  /\ UNCHANGED <<vault, kit, verified, sessions, fresh, losses>>
----------------------------------------------------------------------------
(* migrateToKeyring. *)

\* The keys derived from the passphrase are adopted; what is sealed under the passphrase
\* itself is opened first, and a file that has left it is refused.
BeginMigrate(p) ==
  /\ MayRun /\ Format = "legacy" /\ ~tombstone /\ p = First /\ Taken(1)
  /\ Kv \in Present => files[Kv].key = p
  /\ slots' = {Wrap(fresh', "primary", p, [keys |-> Legacy, retiring |-> 0, ident |-> Legacy])}
  /\ Run("migrate", "reseal", p)
  /\ UNCHANGED <<files, tombstone, staging, kit, verified, sessions, losses>>

\* The second run, after one that was cut off.
ResumeMigrate(p) ==
  /\ MayRun /\ OpenedBy(p) # {} /\ (~Migrated \/ ~tombstone)
  /\ \A n \in Present : PreKeyring(n) => files[n].key = p
  /\ Run("migrate", "reseal", p)
  /\ UNCHANGED <<vault, staging, kit, verified, sessions, fresh, losses>>

MigrateOne ==
  /\ pc = "reseal"
  /\ \E n \in Present, k \in OpenedBy(plan) :
       PreKeyring(n) /\ files' = [files EXCEPT ![n].key = k.keys]
  /\ UNCHANGED <<slots, tombstone, staging, kit, command, verified, sessions, fresh, losses>>

Tombstone ==
  /\ pc = "reseal" /\ Migrated
  /\ tombstone' = TRUE /\ Done
  /\ UNCHANGED <<slots, files, staging, kit, verified, sessions, fresh, losses>>
----------------------------------------------------------------------------
(* Passphrase and recovery kit. *)

\* changeVaultPassphrase: one replacement of the keyring, every slot it opens re-wrapped.
ChangePassphrase(p, new) ==
  /\ MayRun /\ OpenedBy(p) # {} /\ Taken(1)
  /\ "migration" \in Overlap \/ Migrated
  /\ slots' = (slots \ OpenedBy(p)) \cup {Wrap(fresh', "primary", new, s) : s \in OpenedBy(p)}
  /\ UNCHANGED <<files, tombstone, staging, kit, command, verified, sessions, losses>>

\* createRecoveryKit: the kit outside the vault first, then the keyring.
BeginKit(p) ==
  /\ MayRun /\ \A s \in slots : s.label # "recovery"
  /\ Taken(1)
  /\ \E k \in OpenedBy(p) :
       kit' = Wrap(fresh', "recovery", Code, [k EXCEPT !.retiring = 0])
  /\ Run("kit", "slot", None)
  /\ UNCHANGED <<vault, staging, verified, sessions, losses>>

AddSlot ==
  /\ op = "kit" /\ pc = "slot"
  /\ slots' = slots \cup {kit} /\ Done
  /\ UNCHANGED <<files, tombstone, staging, kit, verified, sessions, fresh, losses>>

\* removeRecoverySlot; the kit stays in the world.
RemoveSlot(p) ==
  /\ MayRun
  /\ LET rest == {s \in slots : s.label # "recovery"} IN
     rest # slots /\ (\E s \in rest : s.secret = p) /\ slots' = rest
  /\ UNCHANGED <<files, tombstone, staging, kit, command, verified, sessions, fresh, losses>>

\* verifyRecoveryKeySet, without the lock: the kit's keys open a file of each class.
KitOpensVault ==
  /\ kit # None /\ \A n \in Present : files[n].key \in ReadKeys(kit)
  /\ Present # {} \/ "unindexed" \in Overlap
VerifyKit ==
  /\ MayRun /\ verified = None /\ KitOpensVault
  /\ verified' = kit
  /\ UNCHANGED <<vault, staging, kit, command, sessions, fresh, losses>>

\* The slots of the new keyring are the restored one and the kit's.
Restore(new) ==
  /\ Idle /\ verified # None /\ Taken(1)
  /\ slots' = {Wrap(fresh', "primary", new, verified), verified}
  /\ verified' = None
  /\ UNCHANGED <<files, tombstone, staging, kit, command, sessions, losses>>
----------------------------------------------------------------------------
(* Faults. *)

Die ==
  /\ op # "idle" /\ losses < MaxLosses /\ losses' = losses + 1
  /\ Done
  /\ UNCHANGED <<vault, staging, kit, verified, sessions, fresh>>

\* keyring.json is lost or damaged while nothing runs, the kit at hand.
LoseKeyring ==
  /\ Idle /\ journal = None /\ slots # {} /\ KitOpensVault
  /\ losses < MaxLosses /\ losses' = losses + 1
  /\ slots' = {}
  /\ UNCHANGED <<files, tombstone, staging, kit, command, verified, sessions, fresh>>
----------------------------------------------------------------------------
Rekeying == \/ Stage \/ AdvanceKit \/ GiveUp \/ WriteJournal \/ Commit \/ InstallOne
            \/ DeleteOne \/ Clear \/ Settle \/ Recover
            \/ \E p, new \in Passphrase, rotate \in BOOLEAN : BeginRekey(p, new, rotate)
Migrating == MigrateOne \/ Tombstone \/ \E p \in Passphrase : BeginMigrate(p) \/ ResumeMigrate(p)
Slots == \/ AddSlot \/ VerifyKit
         \/ \E p \in Passphrase : \/ Create(p) \/ BeginKit(p) \/ RemoveSlot(p) \/ Restore(p)
                                  \/ \E new \in Passphrase : ChangePassphrase(p, new)
Using == \/ \E s \in Session : \/ Close(s)
                               \/ \E p \in Passphrase : Open(s, p)
                               \/ \E attach \in BOOLEAN : WriteNote(s, attach)
         \/ \E p \in Passphrase : WriteKv(p)
Next == Rekeying \/ Migrating \/ Slots \/ Using \/ Die \/ LoseKeyring

Spec == Init /\ [][Next]_vars
----------------------------------------------------------------------------
(* Properties. *)

TypeOK ==
  /\ slots \subseteq Slot /\ tombstone \in BOOLEAN
  /\ \A n \in Present : files[n] \in Sealed
  /\ kit \in Slot \cup {None} /\ verified \in Slot \cup {None}
  /\ held \in [Session -> Slot \cup {None}]

\* At every moment, also in the middle of a re-key and after one that was cut off, there is
\* a primary slot whose keys (in force or retiring, or the passphrase itself for a file the
\* migration has not reached) open every file of the vault.
Readable ==
  slots # {} => \E s \in slots : /\ s.label = "primary"
                                 /\ \A n \in Present : files[n].key \in ReadKeys(s) \cup {s.secret}

\* When no command runs and none was cut off past its commit, every file is under the keys
\* in force: otherwise the next re-key refuses, and with it every one after it.
Rekeyable ==
  Idle /\ journal = None =>
    \A s \in slots, n \in Present : ~PreKeyring(n) => files[n].key = s.keys

\* What a session wrote and reported is what the vault holds: no re-key, recovery or
\* migration installs an older copy over it.
AckedKept ==
  /\ Note \in Present => files[Note].ver = acked.note
  /\ Kv \in Present => files[Kv].ver = acked.kv
  /\ acked.note > 0 => Note \in Present
  /\ acked.kv > 0 => Kv \in Present

\* A note never names an attachment that is not there, whatever step an identity rotation
\* or its recovery has reached.
RefsResolve == Note \in Present /\ files[Note].ref # 0 => Attachment(files[Note].ref) \in Present
============================================================================
