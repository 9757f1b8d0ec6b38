# Vault Brain in TLA+

A TLA+ model of the concurrent and crash-sensitive core of Vault Brain (`vbrain`): an
encrypted, local-first note vault that several processes open at once (the CLI, the MCP
server, the memory broker, the desktop application and its sync helper) and that several
devices synchronize. TLC checks every module on small instances; TLAPS proves, for every
instance, the theorems of section 5: every safety and action property that the runs find to
hold, some of them under a hypothesis that section 5 names.

Run, inside this directory:

    tlasany M.tla                                   # parse
    tlc -workers 2 -config MCVaultLock.cfg MCVaultLock
    tlapm VaultLockProofs.tla                       # and each other *Proofs module

Paths below are relative to the repository; `sync.ts` without a directory is `src/sync.ts`.

## 1. Inventory

| Component | State | Operations | Interacts through | Hard behaviour |
|---|---|---|---|---|
| Vault lock (`vault-lock.ts`, `src-tauri/src/lib.rs`) | `.sbrain.lock`, `.sbrain.lock.transition`, per-process nesting count | acquire, nested acquire, release, recover | every writer | interleaved file-system calls, deaths, waiting |
| Document store (`documents.ts`, `index-log.ts`) | objects, history, attachments, index snapshot, index log, journal, session cache, retention policy | put, putMany, remove, restore, rename, purge, retention, attachments, reads, compaction, lock | vault lock; files read without it | several files per write, stale caches, torn appends, decisions read before the lock |
| Link index (`documents.ts`) | owners of labels, sources, resolved links, backlinks, boards | every write of a note or a canvas; rebuild | the index entry of the document store | a write changes what other notes' links resolve to |
| Local sync transaction (`sync/transaction.ts`, `sync.ts`) | pending intent, device change chain, applied cursor | put, putMany, remove, capture, recover | document store, change log | death between effect and marker |
| Replicas and remote apply (`sync.ts`, `sync/engine.ts`) | change log, cursor, apply receipt | import, resolve, apply, resolveConflict | other devices' logs, document store | any order of arrival, concurrent edits, interrupted plans |
| Devices and epochs (`sync.ts`, `sync-epoch.ts`) | registry, device and epoch keys, checkpoints | initialize, request, enroll, revoke, import, checkpoint | change log, relay | stale registries, cutoffs, death between key and registry |
| Desktop sync helper (`desktop-sync-helper.ts`, `desktop_sync.rs`) | none of its own | capture, push, pull, apply, resolve, revoke | all of sync | killed on cancel and after 120 s |
| Relay and blobs (`sync-relay.ts`, `sync-blobs.ts`) | put-if-absent store; staged chunks | put, head, get, list; push, pull, fetch, prune, bundles | devices | pages while others push, lost answers, a killed relay |
| Keyring (`keyring*.ts`), re-key (`keyring-rekey.ts`) | key slots, recovery kit, staged tree, journal; the key of every file | create, migrate, change passphrase, kit, restore, re-key, recover | every file of the vault, open sessions | a command cut off between any two files |
| Grants (`grants.ts`) | grants, requests, approvals | add, revoke, request, approve, deny, consume | MCP server | one approval spent twice |
| Audit (`audit.ts`, `audit.rs`) | hash chain, signed head | append, verify | every operation | two files per entry |
| Key-value files and catalog (`store.ts`, `schema.ts`) | categories, catalog | upsert, index | MCP server, CLI | a catalog scanned while others write |
| Plugins (`documents.ts`, `lib.rs`, `App.tsx`, `plugins/host.ts`) | packages, signer policy, the core's authorizations, the host's workers | install, enable, remove, restrict, revoke, restore, refresh, call | terminal, app, core and workers | every await of a refresh |
| Memory queue and worker (`memory/*`, `memory.rs`) | queue entries, ledger | enqueue, claim, complete, fail | document store | retries, expiry, limits |
| Backup, import/export, search, content, cryptography, rest of the interface, updater | see `PROJECT.json` | | | functions of data, or one file under the lock |

What makes each of the modelled components correct:

* **Lock**: two live processes never hold it; nobody takes it from a live holder; a dead
  holder's lock can be reclaimed; a waiter gives up neither too early nor never.
* **Document store**: whatever is cut off, the journal names what the index has wrong; an
  acknowledged version is never lost but by the owner's policy or purge; a purged object
  stays gone; the log never becomes unreadable; a session never goes back in time; the
  link maps are what a rebuild would make.
* **Local transaction**: storage, change log and cursor change as one, with crashes and
  replays, and an intent on disk is eventually completed.
* **Replicas**: ancestors are applied first and once; an interrupted application rolls
  forward; devices that exchange everything agree.
* **Devices**: an active device opens every epoch it has changes of; a revoked one gets no
  later key; pinned history only grows; a new device can be enrolled.
* **Relay**: what it lists it can serve; a prune never removes the last copy; a pull misses
  nothing that was there when it began.
* **Keyring**: at every moment one primary slot opens every file; a completed command leaves
  one generation of keys; no older copy is installed over a newer one.
* **Agent access**: one approval, one value; an honest trail verifies; the catalog names
  what is stored.
* **Plugins**: what is off stays off until the owner turns it on; a worker that the core
  serves runs the installed source; what the app calls stopped is stopped.

## 2. Modules

| Module | Models | Code |
|---|---|---|
| `VaultLock` | the two lock files, one action per file-system call | `vault-lock.ts` |
| `VaultLockProofs` | theorems about `VaultLock`, section 5 | |
| `AtomicCapture` | abstract: an edit enters storage, log and cursor in one step | |
| `LocalTransaction` | the intent, its markers, capture and recovery; implements `AtomicCapture` | `sync/transaction.ts`, local half of `sync.ts` |
| `LocalTransactionProofs` | theorems about `LocalTransaction`, section 5 | |
| `SyncReplicas` | one note on several devices: graph, heads, plan, receipts | remote half of `sync.ts`, `sync/engine.ts` |
| `SyncReplicasProofs` | theorems about `SyncReplicas`, section 5 | |
| `DocumentStore` | objects, snapshot, log, journal and session caches | `documents.ts`, `index-log.ts` |
| `DocumentStoreProofs` | theorems about `DocumentStore`, section 5 | |
| `ObjectLifecycle` | revisions, retention, restore, rename, purge, attachments | `documents.ts`, `fs-tree.ts` |
| `LinkIndex` | the derived maps and how each write maintains them | `documents.ts` |
| `ObjectsProofs` | theorems about `LinkIndex` and `ObjectLifecycle`, section 5 | |
| `SyncDevices` | registry, enrolment, revocation, epochs, checkpoints | `sync.ts`, `sync-epoch.ts`, `desktop-sync-helper.ts` |
| `SyncRelay` | relay objects and pages, clients' commands, staged blobs | `sync-relay.ts`, `sync-blobs.ts`, `cli.ts`, `desktop-sync-helper.ts` |
| `SyncProofs` | theorems about `SyncDevices` and `SyncRelay`, section 5 | |
| `Keyring` | which key opens which file, and the commands that change it | `keyring*.ts`, `document-crypto.ts` |
| `KeyringProofs` | theorems about `Keyring`, section 5 | |
| `AgentAccess` | grants, requests, tool calls, audit trail, catalog | `grants.ts`, `mcp-server.ts`, `audit.ts`, `store.ts`, `schema.ts`, `cli.ts` |
| `Plugins` | packages and policy in the vault, refreshes of the app, workers | `documents.ts`, `lib.rs`, `App.tsx`, `plugins/host.ts` |
| `AccessProofs` | theorems about `AgentAccess` and `Plugins`, section 5 | |
| `MC*` | instances for TLC | |

How they fit together. `VaultLock` justifies what the others assume: one operation under
the vault lock at a time. `DocumentStore` justifies that an object and its index entry
change in one step of `ObjectLifecycle`, `LinkIndex`, `Plugins` and `LocalTransaction`, and
`LocalTransaction` that a local edit of `SyncReplicas` is one step. `SyncDevices` says which
changes may be admitted and opened, `SyncRelay` how they arrive, `SyncReplicas` what an
admitted change does. `Keyring` stands under all of them: it says that the files they read
can be opened. Where a lower module shows that a step is *not* atomic (section 6), the upper
one says what it leaves out. They are composed by these abstractions and not by one product
state, which would be out of TLC's reach; `AtomicCapture` is the one stated as a refinement.

Three proof modules are about two components each and extend both, so that the names of the
two are disjoint: `SyncRelay` has `RelaySpec`, `Plugins` `PluginsSpec` and `LinkIndex`
`IndexSpec` where the others have `Spec`. The components of such a pair share no variable;
each theorem is about one of them.

A constant `Overlap` (in `VaultLock` the crash points, in `LocalTransaction` `Outside`, in
`SyncReplicas` `Recreation`) names the combinations of events which the code gives no
protection and which break a property (in `Plugins` it has one element, the restoration of a
signer whose revocation was cut off). The main runs leave them out and say so; section 6
says what each one shows.

### VaultLock

`lock` and `gate` are the two files; a file is absent or carries its creator's token, and
its record can be read once `written`. `pc` is the next file-system call of each process,
`op` what it opened the gate for. `GateOpen` ... `GateRemove` are `withTransition`;
`LockOpen` ... `LockUnlink` are the body `withVaultLock` runs in it; `Poll` and `GiveUp`
the waiting loop with `patience` (2 s per holder) and `ceiling` (120 s);
`Reenter`/`EndOperation` the nesting count; `ReleaseRead`/`ReleaseUnlink` the release;
`Inspect`/`RecoverUnlink` the recovery command. Time is counted in polls of 40 ms, so the
time spent outside the sleeps is not: a budget of 2 s is a number of polls. The gate has a
budget of its own (`gateWait`), which nothing but entering the gate anew restarts. `unmoved`
and `shut` are histories: the polls a waiter made since it could see the lock change hands,
and the polls in a row at which a process met the gate taken. An acquiring call that reports
a busy vault has spent one of the three budgets (`WaitsOutHolder`). `Age` makes
the lock older than the window it declares. A process that starts after a death is another
element of `Proc`; the reuse of process IDs is left out.

### LocalTransaction

`live`, `log`, `cursor` and `pending` are the four files; a change's place in `log` is its
sequence number. `Put`, `RemoveNote` and `CaptureNote` plan in memory (`draft`), `Save`
writes the intent, then the steps of `rollForward` follow, one action per effect and per
marker. `Interrupt` is a death or a thrown exception anywhere; `Recover` is the next
session's constructor. `NativeEdit` is a session without sync. `Outside` says what such
sessions do while an intent is on disk: nothing in the main run, an edit in
`MCLocalTransactionEdited.cfg`.

### SyncReplicas

One note, because objects share nothing in the change graph but the chain of their author,
which `LocalTransaction` has. A change's `past` is its author's whole log, because
`prepareLocalChanges` parents every head. `Import` takes one change whose ancestors are
there; a batch that is cut off leaves one of the states in between. `BeginApply`,
`BeginReceipt` ... `Clear` are `applyResolved` and `SyncApplyEngine`. IDs are naturals
that the run hands out in every order, because the real ones are keyed hashes.
`Recreation` allows a note to be put again after its removal; it is off in the main run
because of what `MCSyncReplicasRecreate.cfg` shows.

### DocumentStore

Each file write is a step. An entry of the index is a revision and the number of the write
that made it; link maps and the like are derived from it. `Load` is `refreshIndexCache`,
`Reload`/`ReadLog` the cold load with the log read after the snapshot (another session may
replace both in between), `Await` the recovery from a journal that a cold load finds.
`BeginJournal`, `Archive`, `WriteObject`, `Commit`, `AppendRecord`, `EndWrite` are a put or
a remove; `WriteSnapshot`, `DropLog` a compaction. A crash may leave a cut-off line. The
path, base revision and content checks of a put, which refuse before anything is written,
are left out: a refused put has no effect. `Overlap` says which events happen beside other
sessions: in the main run `lock()` and deaths do not, because of what
`MCDocumentStoreClose.cfg` and `MCDocumentStoreCrash.cfg` show.

### ObjectLifecycle

`live` and `history` are what `objects/` and `history/` hold, a body is named by the write
that made it. A command takes `op` (the vault lock) and goes on file by file:
`Put`/`PutRead`, `ArchiveRevision`, `WriteObject`; `Remove`, `RemoveObject`; `Purge`,
`RemoveHistory`, `EndPurge`; `SweepRetention`, `ApplyRetention`. `Rename` and `Restore` read
before they take the lock (`reading`), in one or in two steps, and `RevisionConflict` is the
check that a stale read has to fail. `cache` is each session's copy of the retention policy.
`PutAttachment`, `WriteChunk`, `WriteManifest` and `RemoveTree` are an attachment's folder.
`kept` is what the vault still owes the owner: written, not purged, not left to the policy.

### LinkIndex

`index` has the maps of the code's document index that link notes and boards to each
other. `IndexNote`, `DropNote` and `Attach` do what a write or a removal of a note or a
canvas does to them, affected sources and boards included; `RecoverNote` is the repair of
an interrupted write by the next load; `Derived` is the rebuild. The property compares the
index with it in every state. Labels are normalized; two notes may share a title but not a
path.

### SyncDevices

Each device has its `registry`, `epochKeys`, `log` and `checkpoint`; the owner also has the
authority key. A command decides in one step and then writes its files one by one (`todo`),
and a death loses what is left. Signed artifacts are put into `issued`, `requests` and
`checkpoints`, from which any device takes any of them at any time, twice or never: late,
lost, repeated and reordered deliveries are all there. Keys are numbers; a key is what was
minted, a wrap says for whom. `AskRevocation` computes the cutoff before the lock.

### SyncRelay

Objects are `<<change, 0>>` and `<<change, chunk>>`. A command is a record in `client[d]`
that remembers what it has read so far: a push its envelopes, then its changes, then object
after object; a pull its page, its batch and its wanted blobs. `CutOff` ends a command
anywhere; `RelayDies` leaves a torn object. `Chunks` says how many blobs each change has.

### Keyring

`files` maps each file of the vault (one of each class) to the key that seals it, its
version and the attachment it refers to; `slots` is `keyring.json`. `op`, `pc` and `plan`
are the running command; `journal` and `staged` what a re-key leaves for its successor;
`held` what keys each open session has. `Taken` counts fresh keys, slots and salts.
`StagedTree` is the re-encryption with or without rotated identities. `acked` are the
versions that writers were told are stored. `BeginMigrate` opens every key-value file with
the passphrase it is given before it changes anything, so a file that has left that
passphrase stops it. A kit is restored only after something sealed, the index if there is
one, opened under its keys; a vault with nothing sealed has nothing to contradict it, and
that case belongs to `Overlap`.

### AgentAccess

Each call is a small program: a resolve decides on the policy it has read (`rules`), asks
or consumes, reads the value, appends to the trail; a `store_note` or an `add` upserts,
appends and rebuilds the catalog. Locks are taken where the code takes them, and reads that
take none are steps of their own. The trail is a sequence of chain lengths: a line verifies
if it continues the line before it. `given` remembers what the owner approved.

### Plugins

`installed` and the policy are the vault's; a revocation turns plugins off one by one
(`DisableSigned`) and may be cut off. The core (`session`) drops all authorizations when it
locks. A refresh is what `refreshPlugins` awaits: `List`, `Fetch`, then the host's `sync`
(`StopUnwanted`, `Authorize`, `Start`). A source is the revision it came with, a worker the
entry in the host's table or, once nobody can reach it, a stray. `Serves` is the check of
`plugin_call` in the Rust core. `stopped` remembers what the app has told the owner; `off`
what the policy has turned off, for a revoked signer from the policy write on, and
`unfinished` the signers whose revocation died before it had reached all their plugins.

## 3. Runs

| Run | Bounds | Shows |
|---|---|---|
| `vault_lock` | 2 processes, 2 calls each, nested to 2, 1 death (neither at `lockWrite` nor at `gateWrite`), budgets of 1 and 2 polls | `TypeOK`, `MutualExclusion`, `DeadLockReclaimable`, `OnlyOwnerOrDeadRemoved`, `WaitsOutHolder`, `CallsReturn` |
| `local_transaction` | 2 notes, see the cfg for values, batches and interrupts | `CaptureIsAtomic` (refinement), `RecoverySucceeds`, `LoggedAgrees`, `ChainAdvances`, `IntentCleared` |
| `sync_replicas` | 2 devices, 3 changes, 1 native edit, 1 interrupt | `LiveMatchesCursor`, `AncestorsFirst`, `ReceiptsMaterialize`, `ReceiptWritesOnce`, `Converges` |
| `document_store` | 2 sessions, 2 notes, 3 writes, 1 death, compaction after 3 log lines | `JournalCoversStale`, `WritesOnCurrent`, `NothingLost`, `LogOpens`, `NeverRewinds` |
| `object_lifecycle` | 2 sessions, 1 canvas, 2 puts, 3 policies, an attachment of 2 chunks, 2 deaths | `EditsKept`, `PurgedStaysGone` |
| `link_index` | 3 notes, 1 board, 3 labels | `IndexMatchesRebuild` |
| `sync_devices` | an owner and 2 devices, 4 registry revisions, 1 change, 2 checkpoints, 1 death | `EpochsOpen`, `RevokedKeptOut`, `CheckpointGrows` |
| `sync_devices_enrol` | the same devices, no fault | `Enrollable` is violated |
| `sync_relay` | 2 devices, 3 changes, one of them with 2 chunks, pages of 1, 4 objects | `NothingDangling`, `BlobsKept`, `PullsComplete` |
| `keyring` | 1 session, 2 passphrases, 6 fresh keys, 3 writes, 1 command cut off or keyring lost | `Readable`, `Rekeyable`, `AckedKept`, `RefsResolve` |
| `agent_access` | 2 servers, a terminal, 2 keys, 1 grant of 2 kinds, 1 kept request, 2 audit lines, 1 death | `TrailVerifies`, `CatalogCurrent`, `OneValuePerYes` |
| `plugins` | 2 plugins, 1 signing key, 1 refresh, 2 revisions, 1 lock, 1 death | `StaysOff`, `OnlyInstalledCode`, `StopsWhatIsOff` |

Why the bounds are enough for what is claimed.

* `vault_lock`: two calls per process give a holder, a waiter, a hand-off and a second
  acquisition after it, and a death at every control point, in the gate too, but two: between
  creating the lock or the gate and writing its record (section 6). With a death at `gateWrite`
  the other five properties hold. The proofs have no bound.
* `local_transaction`: a batch can touch one note twice, and an interrupt can hit the
  transaction, or its recovery.
* `sync_replicas`: three changes are the least that give a conflict and its resolution, and
  IDs in every order give both outcomes of every tie.
* `document_store`: three writes fill a log of `CompactAfter` lines, or remove and recreate
  a note, and a bulk write is cut off between its notes.
* `object_lifecycle`: objects share nothing but the policy, so one is enough; two puts on
  top of the first text leave two archived revisions, one more than the policy keeps, and a
  restore beside a purge; two deaths cut off an addition and a removal of the same
  attachment. With a note in place of the canvas the same properties hold.
* `link_index`: three notes give a label two owners and a third note that links to it; with
  the board every map has more than one source.
* `sync_devices`: four revisions are the first registry, two enrolments and a revocation,
  which can die between its files and be made again; the owner's change may come before or
  after it, and two checkpoints are a chain. Devices other than the owner are
  interchangeable. With `MaxRevision = 5` (a second revocation), two writers and no death
  or checkpoint the same properties hold.
* `sync_relay`: the attachment in the middle gives a page before and after it; the quota of
  four is one short of everything, so a push can fail at every object.
* `keyring`: six fresh numbers are a vault, a kit and two key changes; with one death a
  re-key or migration is cut off at every file and everything else happens behind it.
* `agent_access`: two calls at a time, of two servers of one agent or of a server and the
  owner; one grant and one request make both limits bite.
* `plugins`: a second plugin of the same signer is what a revocation may miss; a second
  revision is what a terminal may install while a refresh waits. `Overlap` is empty: a signer
  whose revocation was cut off is restored only when its plugins are off.

Interchangeable sessions, notes, peers, servers and plugins are symmetry sets; the runs with
a liveness property use none. `CHECK_DEADLOCK FALSE` is set where the bounds let a system
run out of things to do.

### What the code does that its documents say it does not

`sync_devices_enrol` checks `Enrollable` alone, and TLC finds it violated: after a
revocation, `enroll` signs a registry body whose wrapped epoch keys are still those of the
remaining devices, and the validation in the same call refuses it. The quoted lines are in
`PROJECT.json`, `findings`. Section 6 lists what else was met.

## 4. Fairness

* `VaultLock`: weak fairness of each live process's steps inside a call, the end of its
  operation included: the code is synchronous and the operating system schedules it;
  operations under the lock are file writes that end. Nothing is assumed of dead
  processes, of `Age`, or of anybody starting a call.
* `LocalTransaction`: weak fairness of the running operation's steps and of recovery:
  someone opens the vault for sync again after a crash. Interrupts are bounded, as a vault
  whose every session dies at the same point makes no progress.
* `SyncReplicas`: weak fairness of import and apply as well: devices go on pulling and the
  user goes on applying what is free of conflict. Conflicts are left to a person, so
  convergence is claimed only where none is left.
* Every other module: safety only. Their operations are calls of a user or answers of a
  relay, and nothing in the code says when one is made again.

## 5. Proofs

Eight modules hold the theorems about the eleven components. Each theorem is about every value
of the constants: any sets of processes, sessions, devices, notes, keys, plugins, and any
bounds. `H` in the third column is a hypothesis on a constant, explained below the table; a
dash means none beyond the module's named assumptions on its constants.

| Theorem | States | `H` |
|---|---|---|
| **VaultLockProofs** | | |
| `TypeSafety` | `TypeOK` | - |
| `LockSafety` | `MutualExclusion` | `GateNeverAbandoned` |
| `LockNotStolen` | `OnlyOwnerOrDeadRemoved` (action) | `GateNeverAbandoned` |
| `CrashLeavesNoWedge` | `DeadLockReclaimable` | `RecordsWritten` |
| `WaitersArePatient` | `WaitsOutHolder` (action) | `GateNeverAbandoned` |
| **LocalTransactionProofs** | | |
| `TransactionTypeSafety` | `TypeOK` | `NobodyOutside` |
| `TransactionRecovers` | `RecoverySucceeds` | `NobodyOutside` |
| `TransactionLogged` | `LoggedAgrees` | `NobodyOutside` |
| `TransactionChains` | `ChainAdvances` | `NobodyOutside` |
| `TransactionIsAtomic` | `CaptureIsAtomic`: it implements `AtomicCapture` | `NobodyOutside` |
| **SyncReplicasProofs** | | |
| `ReplicasTypeSafety` | `TypeOK` | - |
| `ReplicasHaveAWinner` | `WinnerOnTop`: every log has a display winner, and it is a head | - |
| `ReplicasLiveMatchesCursor` | `LiveMatchesCursor` | - |
| `ReplicasAncestorsFirst` | `AncestorsFirst` | - |
| `ReplicasMaterialize` | `ReceiptsMaterialize` | `RemovedForGood` |
| `ReplicasWriteOnce` | `ReceiptWritesOnce` | `RemovedForGood` |
| **DocumentStoreProofs** | | |
| `StoreTypeSafety` | `TypeOK` | `LocksAlone`, `DiesAlone` |
| `StoreJournalCovers` | `JournalCoversStale` | `LocksAlone`, `DiesAlone` |
| `StoreWritesOnCurrent` | `WritesOnCurrent` | `LocksAlone`, `DiesAlone` |
| `StoreNothingLost` | `NothingLost` | `LocksAlone`, `DiesAlone` |
| `StoreLogOpens` | `LogOpens` | `LocksAlone`, `DiesAlone` |
| `StoreNeverRewinds` | `NeverRewinds` (action) | `LocksAlone`, `DiesAlone` |
| **ObjectsProofs**, `ObjectLifecycle` | | |
| `LifecycleTypeSafety` | `LifeTypes` | - |
| `LifecycleEditsKept` | `EditsKept` | no `"stale_policy"`, no `"removal"` |
| `LifecyclePurgedStaysGone` | `PurgedStaysGone` | no `"restore"`, no `"rename"` |
| **ObjectsProofs**, `LinkIndex` | | |
| `LinkIndexMatchesRebuild` | `IndexMatchesRebuild` | - |
| **SyncProofs**, `SyncDevices` | | |
| `DevicesTypeSafety` | `TypeOK` | - |
| `DevicesEpochsOpen` | `EpochsOpen` | - |
| `DevicesKeepRevokedOut` | `RevokedKeptOut` | - |
| `DevicesCheckpointsGrow` | `CheckpointGrows` (action) | - |
| **SyncProofs**, `SyncRelay` | | |
| `RelayTypeSafety` | `TypeInv` of that half | - |
| `RelayPullsComplete` | `PullsComplete` | - |
| `RelayNothingDangling` | `NothingDangling` | `NoTornBlobs` |
| `RelayBlobsKept` | `BlobsKept` | `NoTornBlobs` |
| **KeyringProofs** | | |
| `KeyringTypeSafety` | `TypeOK` | `JournalSeen`, `MigrationsEnd`, `RestoresAlone`, `OldKeysShow` |
| `KeyringReadable` | `Readable` | `JournalSeen`, `MigrationsEnd`, `RestoresAlone`, `OldKeysShow` |
| `KeyringRekeyable` | `Rekeyable` | `JournalSeen`, `MigrationsEnd`, `RestoresAlone`, `OldKeysShow` |
| `KeyringAckedKept` | `AckedKept` | `JournalSeen`, `MigrationsEnd`, `RestoresAlone`, `OldKeysShow` |
| `KeyringRefsResolve` | `RefsResolve` | `JournalSeen`, `MigrationsEnd`, `RestoresAlone`, `OldKeysShow` |
| **AccessProofs**, `AgentAccess` | | |
| `AccessTypeSafety` | `TypeInv` | - |
| `AccessTrailVerifies` | `TrailVerifies` | - |
| `AccessCatalogCurrent` | `CatalogCurrent` | - |
| `AccessOneValuePerYes` | `OneValuePerYes` (action) | - |
| **AccessProofs**, `Plugins` | | |
| `PluginsTypeSafety` | `PluginsTypeInv` | - |
| `PluginsStayOff` | `StaysOff` | `NoCutOffRestored` |
| `PluginsRunInstalledCode` | `OnlyInstalledCode` | - |
| `PluginsStop` | `StopsWhatIsOff` | `OneRefresh` |

The hypotheses. Each names the absence of events against which the code has no protection;
a line of section 6 allows the event and breaks a property of that module: what a theorem
with a hypothesis states is not true of the code without it. The theorems of a module that
rest on the same invariant share its hypotheses; where TLC finds that a property does not
need one of them, on the bounds of the main run, the list says so. Everything else is left
in: deaths, interruptions and other processes.

* `GateNeverAbandoned`: no process dies, and no file operation fails, while the process holds
  the gate. `MCVaultLockRelease.cfg` breaks `MutualExclusion` without it. Deaths while
  waiting, and while holding the lock, are covered.
* `RecordsWritten`: no process dies, and no write fails, between creating the lock or the gate
  and having written its record. `MCVaultLockTorn.cfg` and `MCVaultLockTornGate.cfg` break
  `DeadLockReclaimable` without it. Deaths and failing unlinks everywhere else are covered, in
  the gate too, whatever they do to the exclusion.
* `NobodyOutside` (`Outside = {}`): no session without sync writes while an intent is on
  disk. Deaths, errors and replays of any number are covered, and so are edits without sync
  at any other time.
* `RemovedForGood` (`Recreation = FALSE`, `Outside = {}`): a removed note is not put again,
  and sessions without sync wait for a receipt. The other four theorems of the module hold
  without it.
* `DocumentStore`. `LocksAlone`: no session is locked while another one is busy; otherwise
  `JournalCoversStale`, `WritesOnCurrent`, `NothingLost` and `NeverRewinds` fail, `LogOpens`
  does not. `DiesAlone`: none dies while another one is busy or has an index in memory;
  otherwise all five fail, `LogOpens` as in `MCDocumentStoreCrash.cfg`. The types need neither.
  Everything else may overlap, and a death may come at any point of an operation.
* `Keyring`. `JournalSeen` (no `"window"`): what passed the journal check before a re-key was
  cut off does not act after it; otherwise `Readable`, `Rekeyable` and `AckedKept` fail.
  `MigrationsEnd` (no `"migration"`): the passphrase stays until a migration that was cut off
  has been run again; otherwise `Readable` fails. `RestoresAlone` (no `"restore"`): no command
  runs between a restoration's check and its lock; otherwise `Readable` and `Rekeyable` fail.
  `OldKeysShow` (no `"unindexed"`): a vault without files does not meet the keys of a session
  or a kit from before a re-key; otherwise `Readable` and `Rekeyable` fail. `RefsResolve` and
  the types hold with any of the four.
* `NoTornBlobs`: a relay that dies leaves no half-written blob; a half-written change is
  allowed, as are deaths between any two objects.
* `Overlap` of `ObjectLifecycle`, by theorem. `EditsKept`: no session prunes by a policy that
  another one has replaced, and none dies in the removal of an attachment with some chunks
  gone and the manifest still there. `PurgedStaysGone`: no purge ends between the two reads of
  a restore, and a note is not written or purged between the read and the write of its rename.
  Each theorem allows the two combinations that the other one excludes, deaths at every other
  point, and any number of sessions.
* `OneRefresh`: the app makes one refresh after the other. Needed for `StopsWhatIsOff` alone.
* `NoCutOffRestored` (no `"cutoff"`): a signer whose revocation was cut off is restored only
  once its plugins are off, by a second revocation or by hand. Otherwise those the revocation
  had not reached run again with the restoration. Needed for `StaysOff` alone.

### The arguments

Every safety theorem has the same outline. The property is not inductive; an invariant
(`IInv` where its name is not given below) implies it, holds initially, and is kept by every
step, with one proof step per action of `Next`. TLC checked each of these invariants on an
instance of its module before it was proved. An action property is proved of one step from
the invariant.

* **VaultLock.** `MutualExclusion` says nothing of a process that is about to create or unlink
  the lock. `GateInv`: a process inside the gate is the one its file names, and that owner is
  inside and alive, so one process is inside at a time and no gate is ever reclaimable.
  `LockInv`: the lock file is of a process that holds it or died with it, and a process that
  decided to unlink it decided about the file that is still there. `TypeInv` ties `op` and
  `depth` to the control point. For `WaitsOutHolder`, `WaitInv`: what is left of a waiter's
  budget and what it has waited are the whole budget, unless the lock changed hands and the
  waiter is still to read its new holder; and a token of a waiting call is on no lock and in
  nobody's memory, so a new holder is never taken for the old one. `ShutInv` is the same for
  the gate: what is left of its budget and the polls that met it taken are the whole of it.
  `DeadLockReclaimable` has an invariant of its own, `WrittenInv`, which needs no exclusion: a
  file without a record is of a live process that is about to write it.
* **LocalTransaction.** `DraftInv`: a draft starts from what is stored, each of its operations
  where the one before it on the same note ended. `IntentInv`: the marker on disk says what is
  done for sure, and there are `m` operations written or `k` changes installed which may be
  ahead of it by any number, so that a replay finds every note at the state before or after its
  operation. `CursorInv` is the same for the cursor. For the refinement, the storage and log
  that `AtomicCapture` sees are the committed ones; saving the intent is its step, everything
  after it a stutter, and a crash maps to no step.
* **SyncReplicas.** `GraphInv`: every change is above its ancestors and has their ancestors.
  `DeviceInv` per device: the log is closed under ancestors; what is still in the plan is not
  below what was applied last; the receipt says where the application is; storage and cursor
  have reached what the receipt says. A finite set ordered by revision and ID has a top, which
  gives the winner. `WInv` adds, for the last two theorems, that a removal is above all else,
  that a note is gone only by the change applied last or by the receipt, and that one write
  reaches the receipt's state.
* **DocumentStore.** `DiskInv`: the snapshot is never newer than the objects, the journal
  covers the difference, and the log is of this snapshot or an earlier one, with whole records
  in order. `HistoryInv`: what is acknowledged is live or archived, under numbers no other
  version has. `JournalInv` and `JournalAt`: a journal is a running command's, or what a dead
  one left, and then nothing has changed since. `LockAt`, `ReadyAt`, `MemoryAt` and
  `LoadingAt` per session say what it holds, that a session about to write has exactly the
  disk in memory, that any other remembers this index or one it replaced, and that a snapshot
  whose log is still to be read is no newer than the disk.
* **ObjectLifecycle.** `LifeTypes` has in it how objects age: after `w` writes a revision is at
  most `w + 1`, an archive has no revision newer than the object's own, and the one of that
  number has the object's text. `PurgeInv`: of a purged object nothing is left, no command in
  the lock writes it, and no read holds base revision zero, which is the number an absent
  object has; so the base check of every later write fails. `KeptInv`: each session's policy is
  the stored one or drops nothing (`Cached`); what a command is to prune the stored policy lets
  go, counted in the newer revisions that stay, which pruning in any order never makes fewer
  (`Prunes`); a text about to leave the object is in the archive (`TextsKept`); a manifest
  without its chunks is there only inside a removal (`Files`).
* **LinkIndex.** `Right` says map by map what the index should be for the objects stored: who
  has a label (`Placed`), what links resolve to (`Resolved`), who links here (`Mirrored`), what
  a board shows (`Boarded`) and who shows a note (`Shown`). The middle of the proof is that a
  write of one note changes how a label resolves only if that note has the label, before or
  after it, so the sources that link to its labels are all that has to be refreshed, and the
  boards showing one of those all that has to be read again. From it, each of `IndexNote`,
  `DropNote`, `RecoverNote` and `Attach` keeps the index `Right`. `Derived` is `Right`, and only
  one index is.
* **SyncDevices.** `DevicesInv`. `Chained`: the registries issued are one chain, each keeping
  who was enrolled before it and leaving the revoked as they were, and an epoch above the first
  has one registry. `Pending`: what a command has still to write is one of five shapes, and a
  registry comes after the key it needs, so that a death between the two leaves a key too many
  and never one too few. `KeysFromWraps`: a key of an epoch on a device is the one the owner
  minted and wrapped for it in that epoch's registry, where a revoked device has no wrap.
  `LogsOpen`: what is stored opens. `Pinned`: checkpoints are one chain of what the owner had,
  pinned only where the log covers them.
* **SyncRelay.** What a command sends was recorded, with its blobs staged (`SentInv`); a pull
  has all it began with up to its cursor (`PullInv`). `NothingDangling` and `BlobsKept` are
  inductive together once no blob is torn (`ServeInv`).
* **Keyring.** Keys are numbered as they are minted, which makes "older" a comparison.
  `SlotsInv` and `KitInv`: one primary slot and at most one of a kit, of the same keys.
  `SettledInv`: until a re-key commits, every file that migration has reached is under the
  keys in force; `PreInv` and `TombstoneInv`: the others are untouched since before the
  keyring, and so is everything else. `HeldAt`: a session's keys are never newer than any
  slot's or any file's. `PlanInv`: the staged tree is the current one under the new keys.
  `InstallInv`: what a committed re-key leaves; every file is under the new or the retiring
  keys, each still under the retiring ones is staged or listed for deletion, and a note's
  attachment is there or comes before it.
* **AgentAccess.** `LockInv`: between reading and writing the trail or the catalog a process
  has the lock, so what it read is what is there. `RequestsInv`: one request per agent and
  key, and what is approved was given.
* **Plugins.** `PluginsInv`, of these parts. `RefreshInv`: what a refresh has learnt is never
  newer than the vault, and a source not older than the listing. `WorkersInv`: a worker was
  started with the source of the revision it was authorized for. `RevokingInv`: what a running
  revocation has left is installed and has every plugin of its signer that is on. `CutOffInv`:
  a plugin that is on though its signer is revoked is of a revocation that is running or
  `unfinished`. `OffInv`, which rests on both: what was turned off is marked off, or its signer
  is revoked. `StopInv`, for one refresh at a
  time: what was off when it listed the plugins is neither wanted nor, once it has stopped
  workers, running.

Some invariants were checked on more than their main runs: that of `DocumentStore` with two
sessions and two notes (1.29 million states), that of `Keyring` with two sessions, two
passphrases, six fresh keys, three writes and two losses (4.02 million states). `PurgeInv` and
`KeptInv` were checked together on `MCObjectLifecycle.cfg` (4.22 million states).

### Only model-checked

* Liveness: `CallsReturn`, `IntentCleared`, `Converges`. The prover has neither fairness nor
  `ENABLED`.
* `Enrollable` of `SyncDevices`, which is violated, and the settings of section 6: a
  counterexample is TLC's.
* Facts that need induction over data. Where a proof needs that a finite set has a greatest
  element, it takes it from the well-foundedness theorems of the library.

## 6. Not modelled, and left out of the main runs

### Behaviours the main runs leave out

Each line is something the code does and a setting that makes TLC show it in seconds: a cfg
of its own, or a value of `Overlap` put into the cfg of the main run. The main run shows
that the property holds without it.

| Setting | Broken property | What happens |
|---|---|---|
| `MCVaultLockRelease.cfg` | `MutualExclusion` | a death while the gate is held lets two contenders reclaim it at once and hold the lock together (`vault-lock.ts:225-230`) |
| `MCVaultLockTorn.cfg` | `DeadLockReclaimable` | a death between creating the lock file and writing its record leaves a lock that nothing reclaims (`vault-lock.ts:304`, `docs/ARCHITECTURE.md:444-446`) |
| `MCVaultLockTornGate.cfg` | `DeadLockReclaimable` | the same between creating the gate and writing its record; every contender then fails at the gate, and so does `recoverVaultLock`, which needs it (`vault-lock.ts:218-222`) |
| `MCVaultLockGate.cfg` | `QueueWaitedFor` | a waiter that met the gate taken at each poll of its 2 s reports a busy vault, whatever is left of its own budget and however the queue moves (`vault-lock.ts:236` against 17-27) |
| `MCVaultLockRelinquish.cfg` | `IdleHoldsNothing` | a release that meets the gate taken for 2 s throws and leaves the lock with a live process that runs nothing; nobody can reclaim it while that process lives (`vault-lock.ts:340`) |
| `MCVaultLockSpin.cfg` | `CallsReturn` | a dead gate that cannot be unlinked is retried for ever without sleeping (`vault-lock.ts:229-235`) |
| `MCLocalTransactionEdited.cfg` | `RecoverySucceeds` | an edit without sync while an intent is pending makes every later sync session throw (`sync.ts:2547`) |
| `MCSyncReplicasRecreate.cfg` | `ReceiptsMaterialize` | a remote put of a note removed here never materializes, and every later unlock throws (`sync.ts:2984`, 3053-3058) |
| `MCSyncReplicas.cfg`, `Outside = {"edit"}` | `ReceiptsMaterialize`, `ReceiptWritesOnce` | a note edited without sync while its receipt is on disk has one revision more than the receipt expects when recovery writes it: the edit is overwritten, the check fails, and every later recovery writes again (`sync.ts:2982-2989`) |
| `MCSyncReplicasReplay.cfg` | `AppliedOnce` | an application stopped between two changes writes an older state of the note again (`sync/engine.ts:48`, `README.md:914-917`) |
| `MCDocumentStoreClose.cfg` | `AcknowledgedIndexed` | a session that locks compacts without the vault lock and drops another session's record (`documents.ts:669`, `docs/ROADMAP.md:495`); with the same `Overlap` all properties of `document_store` but `LogOpens` fail |
| `MCDocumentStoreCrash.cfg` | `LogOpens` | a session with a warm cache appends behind a dead session's torn line (`documents.ts:834`); nor does it look for the journal, so with the same `Overlap` the other properties of `document_store` fail too |
| `MCSyncDevicesCutoff.cfg` | `SurvivorReads` | the owner's cutoff is behind what a survivor has already pulled; after the registry arrives its log never opens again (`desktop-sync-helper.ts:98-112`, `sync.ts:743`) |
| `MCSyncRelay.cfg`, `"torn"` | `NothingDangling`, `BlobsKept` | a blob cut off by the relay's death is reported as held; the change is listed, a prune drops the whole copy (`sync-relay.ts:115`, `docs/SYNC-RELAY.md`) |
| `MCKeyring.cfg`, `"migration"` | `Readable` | a passphrase changed between a migration that was cut off and its second run strands the files still under the old one (`keyring-migrate.ts:203`, `keyring-passphrase.ts:166-177`) |
| `MCKeyring.cfg`, `"window"` | `Readable`, `Rekeyable`, `AckedKept` | a session or a command that passed the journal check before a re-key was cut off past its commit writes under the outgoing keys |
| `MCKeyring.cfg`, `"restore"` | `Readable`, `Rekeyable` | a command that runs between a restoration's unlocked check and its lock changes the keys, and the restored slot has the old ones |
| `MCKeyring.cfg`, `"unindexed"` | `Readable`, `Rekeyable` | a session opened before a re-key writes the first note of the vault, with no index on disk that its keys would fail to open; a kit made before a re-key is restored into a vault without files, where `verifyRecoveryKeySet` opens nothing and lets it go on (`keyring-recovery.ts:281`) |
| `MCAgentAccessVerify.cfg` | `NoFalseAlarm` | a verification reads log and head without the lock and reports an honest trail as altered (`audit.ts:253-360`, `README.md:219`) |
| `MCObjectLifecycle.cfg`, `"stale_policy"` | `EditsKept` | a session goes on pruning by a policy the owner has replaced in another one (`documents.ts:1351`) |
| `MCObjectLifecycle.cfg`, `"restore"` | `PurgedStaysGone` | a restore that read its revision before a purge and its base after it writes the text back (`documents.ts:2761-2763`) |
| `MCObjectLifecycle.cfg`, `"rename"`, `NoteId = {n1}`, `CanvasId = {}` | `PurgedStaysGone` | a note's rename carries no base revision and brings a purged note back (`documents.ts:2465`) |
| `MCObjectLifecycle.cfg`, `"removal"` | `EditsKept` | a removal that died left the manifest; adding the same bytes writes nothing and returns an attachment without chunks (`documents.ts:2915`) |
| `MCPlugins.cfg`, `Plugin = {p1}`, `Refresh = {r1, r2}` | `StopsWhatIsOff` | of two overlapping refreshes the later one finds nothing to stop and the earlier one then starts the worker (`App.tsx:389`, `host.ts:101-122`) |
| `MCPlugins.cfg`, `Overlap = {"cutoff"}` | `StaysOff` | a revocation that dies after its policy write leaves plugins on; restoring the signer lets them run, where the app says that plugins remain off (`documents.ts:2221`, `App.tsx:848`) |

Met while reading and in no setting: a device that imports a registry two epochs ahead of its
own adopts only the newest key, and no change of the epoch it skipped can ever be imported
there (`sync.ts:1306-1326`); `initializeOwner` cut off between the authority key and
the registry is refused for good (`sync.ts:1031`); a push goes by ID and not by ancestry, so
one that is cut off can leave a change whose parent is missing, and every pull's import fails
until the pusher comes back; a torn last line of the trail makes every later append throw
(`audit.ts`, `readAudit`); `MAX_GRANTS` counts revoked grants and nothing removes them; of
200 kept requests an agent's newer ones evict an approved one; a failed worker is not retried
while its plugin keeps its revision. `docs/ARCHITECTURE.md:526-545` describes access without a
policy as open where `grants.ts` denies.

### Not modelled

`PROJECT.json` lists every component with the reason. The memory broker's queue and ledger,
backup, import and export, and the updater have no module: they are single processes over
files of their own, and come next in the plan. Functions of text (markdown, search, safety
filters, templates) and of one package (manifests, signatures) have no transitions. In the
modelled components: two objects that share a path on two devices, attachments in the change
graph, a failing write in a process that goes on, equal size-and-time stamps of two
snapshots, reuse of process IDs, the plugins' own settings, the system keychain, and the Rust
core's copies of the protocols. Where those were read beside the TypeScript ones and differ:
the Rust gate loop checks its deadline when an unlink fails, its refresh reads the journal,
and its `lock_host` takes the host name from the environment, so that records of the two
cores may name different hosts. The command line and the desktop interface are modelled where
they order the calls of a component (push, pull, prune, grants, audit, plugin refresh); the
rest of them is arguments, wording and views.

## 7. Plan

Done, each checked and proved about: `VaultLock`, `LocalTransaction` and its abstraction
`AtomicCapture`, `SyncReplicas`, `DocumentStore`, `ObjectLifecycle`, `LinkIndex`,
`SyncDevices`, `SyncRelay`, `Keyring`, `AgentAccess` and `Plugins`. Next, in this order:

1. Memory queue: attempts, expiry and limits, with the worker that dies.
2. Extensions named in section 6, first the failing write of a living session.
