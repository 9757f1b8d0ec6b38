---------------------------- MODULE SyncDevices ----------------------------
(***************************************************************************)
(* The devices of a synchronized vault (SyncDeviceManager and the change    *)
(* log of src/sync.ts, src/sync-epoch.ts, src/desktop-sync-helper.ts).  The *)
(* owner signs a registry of devices; a revocation starts a new epoch with  *)
(* a fresh content key, wrapped for the devices that remain.  Registries,    *)
(* changes and checkpoints travel as files or by a relay: late, twice, in   *)
(* any order.                                                               *)
(*                                                                          *)
(* A command decides under the vault lock (VaultLock) and then replaces one *)
(* file after the other: todo holds what it still has to write, and what it *)
(* loses when it dies.  Devices share no file, and nobody sees what a        *)
(* command has written before what it issues: one command at a time, of     *)
(* whatever device, leaves out no case.                                     *)
(***************************************************************************)
EXTENDS Naturals, Sequences, FiniteSets, FiniteSetsExt

CONSTANTS
  Device,         \* one vault directory each, with one device ID
  Owner,
  None,           \* no registry, checkpoint, cutoff or pending command
  Writer,         \* bound: the devices that record changes
  MaxRevision,    \* bound: registries
  MaxSequence,    \* bound: changes per device
  MaxCheckpoints, \* bound: checkpoints, each of other changes than those before
  MaxDeaths       \* bound: commands that die

VARIABLES
  authority,   \* the owner's sync/identity/authority.key.enc
  identity,    \* [Device -> SUBSET {"signing", "agreement"}]: its private keys
  registry,    \* [Device -> devices.enc]
  epochKeys,   \* [Device -> [epochs -> key]]: sync/identity/epochs
  log,         \* [Device -> changes]
  checkpoint,  \* [Device -> checkpoint.enc]
  todo,        \* [Device -> the writes the running command still has to make]
  revoking,    \* the device and cutoff of a revocation not yet under the lock
  requests, issued, checkpoints,  \* everything that may still be delivered
  minted, deaths

files == <<authority, identity, registry, epochKeys, log, checkpoint>>
world == <<requests, issued, checkpoints>>
vars == <<files, todo, revoking, world, minted, deaths>>

Certificate == [epoch : Nat \ {0}, cutoff : Nat \cup {None}]
Change == [dev : Device, seq : Nat \ {0}, epoch : Nat \ {0}, key : Nat]
Registry == [rev : Nat, epoch : Nat \ {0}, cert : UNION {[E -> Certificate] : E \in SUBSET Device},
             wraps : UNION {[E -> Nat] : E \in SUBSET Device}]
Checkpoint == [seq : Nat, rev : Nat, covers : SUBSET Change]

ASSUME SyncDevicesConstantsOK ==
  /\ Owner \in Device /\ Writer \subseteq Device /\ None \notin Nat \cup Registry \cup Checkpoint
  /\ {MaxRevision, MaxSequence, MaxCheckpoints, MaxDeaths} \subseteq Nat

Init ==
  /\ authority = FALSE
  /\ identity = [d \in Device |-> {}]
  /\ registry = [d \in Device |-> None]
  /\ epochKeys = [d \in Device |-> << >>]
  /\ log = [d \in Device |-> {}]
  /\ checkpoint = [d \in Device |-> None]
  /\ todo = [d \in Device |-> << >>]
  /\ revoking = None
  /\ requests = {} /\ issued = {} /\ checkpoints = {}
  /\ minted = 1 /\ deaths = 0
----------------------------------------------------------------------------
(* Registries. *)

Enrolled(r) == DOMAIN r.cert
Active(r) == {d \in Enrolled(r) : r.cert[d].cutoff = None}

\* validateSignedDeviceRegistry: at epoch 1 the vault key seals and nothing is wrapped; above,
\* the epoch's key is wrapped for exactly the active devices, whose certificates are of it.
ValidRegistry(r) ==
  /\ \A d \in Enrolled(r) : r.cert[d].epoch <= r.epoch
  /\ IF r.epoch = 1 THEN r.wraps = << >>
     ELSE /\ DOMAIN r.wraps = Active(r)
          /\ \A d \in Enrolled(r) : d \in Active(r) <=> r.cert[d].epoch = r.epoch

\* enroll: the new certificate is appended, the rest of the body is kept.
WithDevice(r, d) ==
  [r EXCEPT !.rev = @ + 1,
            !.cert = [e \in Enrolled(r) \cup {d} |->
                        IF e = d THEN [epoch |-> r.epoch, cutoff |-> None] ELSE r.cert[e]]]

\* With the new key wrapped for every enrolled device.
WrapsForAll(remaining, key) == [d \in Device |-> key]

\* wrapEpochKey: for the devices that remain, each with its agreement key.
Wraps(remaining, key) == [d \in remaining |-> key]

\* revoke: the remaining devices are reissued at the new epoch.
WithoutDevice(r, gone, cutoff, key) ==
  LET remaining == Active(r) \ {gone} IN
  [rev |-> r.rev + 1, epoch |-> r.epoch + 1,
   cert |-> [d \in Enrolled(r) |->
               IF d = gone THEN [r.cert[d] EXCEPT !.cutoff = cutoff]
               ELSE IF d \in remaining THEN [r.cert[d] EXCEPT !.epoch = r.epoch + 1]
               ELSE r.cert[d]],
   wraps |-> Wraps(remaining, key)]
----------------------------------------------------------------------------
(* The change log under a registry. *)

Sequence(d, S) == Max({0} \cup {c.seq : c \in {x \in S : x.dev = d}})

\* validateChangeSet: no fork and no gap in a device's chain.
ValidChanges(S) ==
  \A c \in S : /\ \A x \in S : x.dev = c.dev /\ x.seq = c.seq => x = c
               /\ c.seq > 1 => \E x \in S : x.dev = c.dev /\ x.seq = c.seq - 1

\* validateAuthorizedChanges: every change in the store, whenever it was stored.
Authorized(S, r) ==
  IF r = None THEN TRUE
  ELSE \A c \in S : /\ c.dev \in Enrolled(r)
                    /\ IF c.dev \in Active(r) THEN TRUE ELSE c.seq <= r.cert[c.dev].cutoff

\* epochResolver and openSyncChange: epoch 1 is sealed with the vault key.
HasKey(d, epoch) == epoch = 1 \/ epoch \in DOMAIN epochKeys[d]
Opens(d, c) == IF c.epoch = 1 THEN TRUE
               ELSE HasKey(d, c.epoch) /\ epochKeys[d][c.epoch] = c.key

\* changes(): one change that does not open or is not authorized fails the whole read.
Readable(d) == (\A c \in log[d] : Opens(d, c)) /\ Authorized(log[d], registry[d])

Idle(d) == todo[d] = << >>
Quiet == \A d \in Device : Idle(d)
Write(file, value) == [file |-> file, value |-> value]
Run(d, writes) == todo' = [todo EXCEPT ![d] = writes]
----------------------------------------------------------------------------
(* Enrolment, at the owner and at a device. *)

\* initializeOwner: refused for good once the authority key exists.
InitializeOwner ==
  /\ Quiet /\ registry[Owner] = None /\ ~authority
  /\ Run(Owner, <<Write("authority", None), Write("signing", None), Write("agreement", None),
                  Write("registry", [rev |-> 1, epoch |-> 1, wraps |-> << >>,
                                     cert |-> [d \in {Owner} |-> [epoch |-> 1, cutoff |-> None]]])>>)
  /\ UNCHANGED <<files, revoking, world, minted, deaths>>

\* createEnrollmentRequest: a pending private key refuses another one.
CreateRequest(d) ==
  /\ Quiet /\ registry[d] # None
  /\ d \notin Enrolled(registry[d]) /\ "signing" \notin identity[d]
  /\ Run(d, <<Write("signing", None), Write("agreement", None), Write("request", None)>>)
  /\ UNCHANGED <<files, revoking, world, minted, deaths>>

\* The agreement key cannot be saved: the signing key is removed, so that asking again works.
RequestFails(d) ==
  /\ ~Idle(d) /\ Head(todo[d]).file = "agreement" /\ Len(todo[d]) = 2 /\ d # Owner
  /\ deaths < MaxDeaths /\ deaths' = deaths + 1
  /\ identity' = [identity EXCEPT ![d] = @ \ {"signing"}]
  /\ Run(d, << >>)
  /\ UNCHANGED <<authority, registry, epochKeys, log, checkpoint, revoking, world, minted>>

\* enroll: signRegistryBody validates what it has signed.
Enroll(d) ==
  /\ Quiet /\ registry[Owner] # None /\ authority /\ d \in requests
  /\ d \notin Enrolled(registry[Owner]) /\ registry[Owner].rev < MaxRevision
  /\ LET next == WithDevice(registry[Owner], d) IN
     ValidRegistry(next) /\ Run(Owner, <<Write("registry", next)>>)
  /\ UNCHANGED <<files, revoking, world, minted, deaths>>
----------------------------------------------------------------------------
(* Revocation. *)

\* The helper takes the cutoff from the log before the manager takes the lock.
AskRevocation(d) ==
  /\ Quiet /\ revoking = None /\ registry[Owner] # None /\ d \in Enrolled(registry[Owner])
  /\ Readable(Owner)
  /\ revoking' = [dev |-> d, cutoff |-> Sequence(d, log[Owner])]
  /\ UNCHANGED <<files, todo, world, minted, deaths>>

\* Never the last active device.
Revocable(d) == registry[Owner] # None /\ authority /\ d \in Active(registry[Owner])
                  /\ Active(registry[Owner]) # {d}

Revoke ==
  /\ revoking # None /\ Quiet
  /\ Revocable(revoking.dev) /\ registry[Owner].rev < MaxRevision
  /\ LET next == WithoutDevice(registry[Owner], revoking.dev, revoking.cutoff, minted + 1) IN
     Run(Owner, <<Write("key", [epoch |-> next.epoch, key |-> minted + 1]), Write("registry", next)>>)
  /\ minted' = minted + 1 /\ revoking' = None
  /\ UNCHANGED <<files, world, deaths>>

RevocationRefused ==
  /\ Quiet /\ revoking # None /\ ~Revocable(revoking.dev)
  /\ revoking' = None
  /\ UNCHANGED <<files, todo, world, minted, deaths>>
----------------------------------------------------------------------------
(* Registries that arrive. *)

\* The key wrapped for this device, unless it holds one for that epoch.
Adopted(d, r) ==
  IF ~HasKey(d, r.epoch) /\ d \in DOMAIN r.wraps /\ "agreement" \in identity[d]
  THEN <<Write("key", [epoch |-> r.epoch, key |-> r.wraps[d]])>> ELSE << >>

Revision(d) == IF registry[d] = None THEN 0 ELSE registry[d].rev

\* importRegistry: older revisions and forks are refused.
ImportRegistry(d, r) ==
  /\ Quiet
  /\ Revision(d) < r.rev \/ registry[d] = r
  /\ Run(d, Adopted(d, r) \o <<Write("registry", r)>>)
  /\ UNCHANGED <<files, revoking, world, minted, deaths>>
----------------------------------------------------------------------------
(* One file replaced. *)

SaveIdentity(d) ==
  /\ ~Idle(d) /\ Head(todo[d]).file \in {"signing", "agreement"}
  /\ identity' = [identity EXCEPT ![d] = @ \cup {Head(todo[d]).file}]
  /\ Run(d, Tail(todo[d]))
  /\ UNCHANGED <<authority, registry, epochKeys, log, checkpoint, revoking, world, minted, deaths>>

SaveAuthority(d) ==
  /\ ~Idle(d) /\ Head(todo[d]).file = "authority"
  /\ authority' = TRUE /\ Run(d, Tail(todo[d]))
  /\ UNCHANGED <<identity, registry, epochKeys, log, checkpoint, revoking, world, minted, deaths>>

\* A key already there for the epoch is kept.
SaveEpochKeyOnce(d) ==
  /\ ~Idle(d) /\ Head(todo[d]).file = "key"
  /\ LET w == Head(todo[d]).value IN
     epochKeys' = [epochKeys EXCEPT ![d] = [e \in DOMAIN @ \cup {w.epoch} |->
                                              IF HasKey(d, e) THEN @[e] ELSE w.key]]
  /\ Run(d, Tail(todo[d]))
  /\ UNCHANGED <<authority, identity, registry, log, checkpoint, revoking, world, minted, deaths>>

\* saveEpochKey replaces the file.
SaveEpochKey(d) ==
  /\ ~Idle(d) /\ Head(todo[d]).file = "key"
  /\ LET w == Head(todo[d]).value IN
     epochKeys' = [epochKeys EXCEPT ![d] = [e \in DOMAIN @ \cup {w.epoch} |->
                                              IF e = w.epoch THEN w.key ELSE @[e]]]
  /\ Run(d, Tail(todo[d]))
  /\ UNCHANGED <<authority, identity, registry, log, checkpoint, revoking, world, minted, deaths>>

SaveRegistry(d) ==
  /\ ~Idle(d) /\ Head(todo[d]).file = "registry"
  /\ registry' = [registry EXCEPT ![d] = Head(todo[d]).value]
  /\ issued' = issued \cup {Head(todo[d]).value}
  /\ Run(d, Tail(todo[d]))
  /\ UNCHANGED <<authority, identity, epochKeys, log, checkpoint, revoking, requests, checkpoints,
                 minted, deaths>>

ReturnRequest(d) ==
  /\ ~Idle(d) /\ Head(todo[d]).file = "request"
  /\ requests' = requests \cup {d} /\ Run(d, Tail(todo[d]))
  /\ UNCHANGED <<files, revoking, issued, checkpoints, minted, deaths>>
----------------------------------------------------------------------------
(* Changes. *)

\* signAuthorizedChange.
MaySign(d) ==
  LET r == registry[d] IN
  r # None /\ d \in Active(r) /\ r.cert[d].epoch = r.epoch /\ "signing" \in identity[d]

\* append: sealed with the key of the registry's epoch.
RecordChange(d) ==
  /\ Quiet /\ Readable(d) /\ MaySign(d) /\ HasKey(d, registry[d].epoch)
  /\ d \in Writer /\ Sequence(d, log[d]) < MaxSequence
  /\ LET epoch == registry[d].epoch
         change == [dev |-> d, seq |-> Sequence(d, log[d]) + 1, epoch |-> epoch,
                    key |-> IF epoch = 1 THEN 1 ELSE epochKeys[d][epoch]]
     IN log' = [log EXCEPT ![d] = @ \cup {change}]
  /\ UNCHANGED <<authority, identity, registry, epochKeys, checkpoint, todo, revoking, world, minted,
                 deaths>>

\* import: everything, stored and arriving, opens and is authorized.
ImportChange(d, c) ==
  /\ Quiet /\ Readable(d) /\ c \notin log[d]
  /\ Opens(d, c) /\ ValidChanges(log[d] \cup {c}) /\ Authorized({c}, registry[d])
  /\ log' = [log EXCEPT ![d] = @ \cup {c}]
  /\ UNCHANGED <<authority, identity, registry, epochKeys, checkpoint, todo, revoking, world, minted,
                 deaths>>
----------------------------------------------------------------------------
(* Freshness checkpoints. *)

\* assertCheckpointHistory: every committed change is in the given history.
Covered(k, S) == k.covers \subseteq S

\* createCheckpoint.
Last(d) == IF checkpoint[d] = None THEN 0 ELSE checkpoint[d].seq
CreateCheckpoint ==
  /\ Quiet /\ registry[Owner] # None /\ authority /\ Readable(Owner)
  /\ Cardinality(checkpoints) < MaxCheckpoints /\ \A k \in checkpoints : k.covers # log[Owner]
  /\ LET k == [seq |-> Last(Owner) + 1, rev |-> registry[Owner].rev, covers |-> log[Owner]] IN
     checkpoint' = [checkpoint EXCEPT ![Owner] = k] /\ checkpoints' = checkpoints \cup {k}
  /\ UNCHANGED <<authority, identity, registry, epochKeys, log, todo, revoking, requests, issued,
                 minted, deaths>>

\* Any later checkpoint, or an older one.
ImportCheckpointAny(d, k) ==
  /\ Quiet /\ registry[d] # None /\ k.rev <= registry[d].rev
  /\ Readable(d) /\ Covered(k, log[d])
  /\ checkpoint' = [checkpoint EXCEPT ![d] = k]
  /\ UNCHANGED <<authority, identity, registry, epochKeys, log, todo, revoking, world, minted, deaths>>

\* importCheckpoint: the first by its known ID, then one link of the chain at a time.
ImportCheckpoint(d, k) ==
  /\ Quiet /\ registry[d] # None /\ k.rev <= registry[d].rev
  /\ Readable(d) /\ Covered(k, log[d])
  /\ checkpoint[d] = None \/ k.seq = Last(d) + 1
  /\ checkpoint' = [checkpoint EXCEPT ![d] = k]
  /\ UNCHANGED <<authority, identity, registry, epochKeys, log, todo, revoking, world, minted, deaths>>
----------------------------------------------------------------------------
Die(d) ==
  /\ ~Idle(d) /\ deaths < MaxDeaths /\ deaths' = deaths + 1
  /\ Run(d, << >>)
  /\ UNCHANGED <<files, revoking, world, minted>>

Enrolment(d) == CreateRequest(d) \/ RequestFails(d) \/ Enroll(d)
Revocation == Revoke \/ RevocationRefused \/ \E d \in Device : AskRevocation(d)
Checkpoints == CreateCheckpoint \/ \E d \in Device, k \in checkpoints : ImportCheckpoint(d, k)
Saving(d) == SaveIdentity(d) \/ SaveAuthority(d) \/ SaveEpochKey(d) \/ SaveRegistry(d) \/ ReturnRequest(d)
Delivery(d) == \/ \E r \in issued : ImportRegistry(d, r)
               \/ \E e \in Device : \E c \in log[e] : ImportChange(d, c)
Next == \/ InitializeOwner \/ Revocation \/ Checkpoints
        \/ \E d \in Device : Enrolment(d) \/ Saving(d) \/ RecordChange(d) \/ Delivery(d) \/ Die(d)

Spec == Init /\ [][Next]_vars
----------------------------------------------------------------------------
(* Properties. *)

TypeOK ==
  /\ authority \in BOOLEAN
  /\ identity \in [Device -> SUBSET {"signing", "agreement"}]
  /\ \A d \in Device : /\ log[d] \subseteq Change
                       /\ registry[d] # None =>
                            /\ ValidRegistry(registry[d])
                            /\ \A e \in Enrolled(registry[d]) : registry[d].cert[e] \in Certificate
                       /\ checkpoint[d] \in Checkpoint \cup {None}

\* A device its registry calls active holds that epoch's key, the very key the owner wrapped
\* for the others, and opens every change it has stored: deaths between the key and the
\* registry, at the owner or at the device, leave no epoch under two keys or under none.
EpochsOpen ==
  \A d \in Device :
    /\ Idle(d) /\ registry[d] # None /\ d \in Active(registry[d]) /\ registry[d].epoch > 1
         => HasKey(d, registry[d].epoch) /\ epochKeys[d][registry[d].epoch] = registry[d].wraps[d]
    /\ \A c \in log[d] : Opens(d, c)

\* No key of an epoch minted when or after a device was revoked ever reaches it (the owner
\* mints them and keeps them, also when it revokes its own device).
RevokedKeptOut ==
  \A r \in issued, d \in Device \ {Owner} :
    d \in Enrolled(r) \ Active(r) => \A e \in DOMAIN epochKeys[d] : e <= r.cert[d].epoch

\* The history a device has pinned only grows, and no pinned change ever leaves its log.
CheckpointGrows ==
  [][\A d \in Device : checkpoint[d] # None =>
        /\ checkpoint'[d].seq >= checkpoint[d].seq
        /\ checkpoint[d].covers \subseteq checkpoint'[d].covers
        /\ checkpoint'[d].covers \subseteq log'[d]]_vars

\* A device that asks to be enrolled can be approved, whatever has been revoked before.
Enrollable ==
  registry[Owner] # None => \A d \in requests \ Enrolled(registry[Owner]) :
                              ValidRegistry(WithDevice(registry[Owner], d))

\* A device that was not revoked can read its own log after it has learned of a revocation.
SurvivorReads ==
  \A d \in Device : registry[d] # None /\ d \in Active(registry[d]) => Authorized(log[d], registry[d])
============================================================================
