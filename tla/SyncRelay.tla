----------------------------- MODULE SyncRelay -----------------------------
(***************************************************************************)
(* Changes and attachment blobs on their way between devices: the relay and *)
(* its client (src/sync-relay.ts), the staged blobs of a vault              *)
(* (src/sync-blobs.ts) and the commands that push, pull, fetch, prune and   *)
(* bundle (src/cli.ts, src/desktop-sync-helper.ts).                         *)
(*                                                                          *)
(* The relay is an immutable store of opaque objects.  A client sends one   *)
(* request at a time; a command fails where a request does and is run again *)
(* by its user.  Whether a change may be admitted is SyncDevices'; here it  *)
(* needs its ancestors.  Several commands run on one vault: only the import *)
(* takes the vault lock.                                                     *)
(***************************************************************************)
EXTENDS Naturals, FiniteSets, FiniteSetsExt

CONSTANTS
  Vault,       \* a device and its copy of the vault
  Nothing,     \* no command, no bundle
  Overlap,     \* what may overlap: a subset of Overlaps
  MaxChanges,  \* bound: changes; their IDs are keyed hashes, so in no causal order
  Chunks,      \* [ChangeId -> the number of its blobs]: 0 for what is no attachment
  PageSize,    \* changes the relay lists at once
  MaxObjects   \* the relay's quota of changes and blobs

VARIABLES
  past,       \* [changes recorded so far -> their ancestors]
  changes,    \* [Vault -> SUBSET ChangeId]: sync/changes
  staged,     \* [Vault -> SUBSET Blob]: sync/blobs
  relay,      \* the objects the relay has a file for
  torn,       \* those of them whose file is incomplete
  client,     \* [Vault -> the command that talks to the relay]
  bundle      \* a directory written by sync export --bundle

server == <<relay, torn>>
relayVars == <<past, changes, staged, server, client, bundle>>

ChangeId == 1..MaxChanges
ChangeObject(i) == <<i, 0>>
BlobsOf(i) == {<<i, n>> : n \in 1..Chunks[i]}  \* attachmentBlobIds
Blobs(S) == UNION {BlobsOf(i) : i \in S}

Push == [step : {"read", "push"}, send : SUBSET ChangeId, known : SUBSET ChangeId]
Download == [step : {"page", "import"}, cursor : Nat, got : SUBSET ChangeId, start : SUBSET ChangeId]
Fetch == [step : {"blobs"}, wanted : SUBSET Blobs(ChangeId), start : SUBSET ChangeId]
Bundle == [changes : SUBSET ChangeId, blobs : SUBSET Blobs(ChangeId)]

\* "torn": the relay dies while it writes a blob, and not only a change.
Overlaps == {"torn"}

ASSUME SyncRelayConstantsOK ==
  /\ {MaxChanges, PageSize, MaxObjects} \subseteq Nat
  /\ Chunks \in [1..MaxChanges -> Nat] /\ PageSize > 0
  /\ Overlap \subseteq Overlaps
  /\ Nothing \notin Push \cup Download \cup Fetch \cup Bundle

RelayInit ==
  /\ past = << >>
  /\ changes = [d \in Vault |-> {}]
  /\ staged = [d \in Vault |-> {}]
  /\ relay = {} /\ torn = {}
  /\ client = [d \in Vault |-> Nothing]
  /\ bundle = Nothing
----------------------------------------------------------------------------
(* The relay. *)

Listed == {i \in ChangeId : ChangeObject(i) \in relay}
Held(o) == o \in relay

\* directoryUsage: changes and blobs count alike, unless the object is there already.
WithinQuota(o) == Held(o) \/ Cardinality(relay) < MaxObjects

\* immutableWrite: what is there is never replaced; other bytes under its name are refused.
Accepts(o) == WithinQuota(o) /\ o \notin torn
Put(o) == Accepts(o) /\ relay' = relay \cup {o} /\ UNCHANGED torn

\* One page: the IDs above the cursor, in order.
Above(cursor) == {i \in Listed : i > cursor}
Page(cursor) == {i \in Above(cursor) : Cardinality({j \in Above(cursor) : j < i}) < PageSize}
LastPage(cursor) == Page(cursor) = Above(cursor)
----------------------------------------------------------------------------
(* Local changes. *)

\* A put of an attachment stages its sealed chunks and then appends the change.
Record(d, i) ==
  /\ i \in ChangeId \ DOMAIN past
  /\ past' = [j \in (DOMAIN past) \cup {i} |-> IF j = i THEN changes[d] ELSE past[j]]
  /\ staged' = [staged EXCEPT ![d] = @ \cup BlobsOf(i)]
  /\ changes' = [changes EXCEPT ![d] = @ \cup {i}]
  /\ UNCHANGED <<server, client, bundle>>

Start(d, command) == client' = [client EXCEPT ![d] = command]
Running(d, step) == client[d] # Nothing /\ client[d].step = step
Stop(d) == Start(d, Nothing) /\ UNCHANGED <<past, changes, staged, server, bundle>>
----------------------------------------------------------------------------
(* sync relay push. *)

\* log.envelopes() comes before log.changes().
BeginPush(d) ==
  /\ client[d] = Nothing /\ changes[d] # {}
  /\ Start(d, [step |-> "read", send |-> changes[d], known |-> {}])
  /\ UNCHANGED <<past, changes, staged, server, bundle>>

\* The envelopes are read again after the changes whose blobs are known.
ReadChangesFirst(d) ==
  /\ Running(d, "read")
  /\ Start(d, [client[d] EXCEPT !.step = "push", !.send = changes[d], !.known = client[d].send])
  /\ UNCHANGED <<past, changes, staged, server, bundle>>

ReadChanges(d) ==
  /\ Running(d, "read")
  /\ Start(d, [client[d] EXCEPT !.step = "push", !.known = changes[d]])
  /\ UNCHANGED <<past, changes, staged, server, bundle>>

Sending(d) == Min(client[d].send)
Unsent(d) == IF Sending(d) \in client[d].known
             THEN {b \in BlobsOf(Sending(d)) : ~Held(b)} ELSE {}

\* pushBlobs: HEAD, then PUT of what the relay does not hold.
SendBlob(d) ==
  /\ Running(d, "push") /\ client[d].send # {}
  /\ \E b \in Unsent(d) : b \in staged[d] /\ Put(b)
  /\ UNCHANGED <<past, changes, staged, client, bundle>>

\* The envelope of a change goes after its blobs.
SendChange(d) ==
  /\ Running(d, "push") /\ client[d].send # {} /\ Unsent(d) = {}
  /\ Put(ChangeObject(Sending(d)))
  /\ Start(d, [client[d] EXCEPT !.send = @ \ {Sending(d)}])
  /\ UNCHANGED <<past, changes, staged, bundle>>

EndPush(d) == Running(d, "push") /\ client[d].send = {} /\ Stop(d)

\* A blob that is pruned here and not held there, a full relay, a torn object.
PushFails(d) ==
  /\ Running(d, "push") /\ client[d].send # {}
  /\ IF Unsent(d) = {} THEN ~Accepts(ChangeObject(Sending(d)))
     ELSE \E b \in Unsent(d) : b \notin staged[d] \/ ~Accepts(b)
  /\ Stop(d)
----------------------------------------------------------------------------
(* sync relay pull, sync blobs fetch. *)

BeginPull(d) ==
  /\ client[d] = Nothing
  /\ Start(d, [step |-> "page", cursor |-> 0, got |-> {}, start |-> Listed])
  /\ UNCHANGED <<past, changes, staged, server, bundle>>

\* downloadChanges with the ID after the page as the cursor.
NextPageFrom(d) ==
  /\ Running(d, "page") /\ \A i \in Page(client[d].cursor) : ChangeObject(i) \notin torn
  /\ LET c == client[d]  page == Page(c.cursor) IN
     Start(d, [c EXCEPT !.got = @ \cup page,
                        !.cursor = IF LastPage(c.cursor) THEN @ ELSE Min(Above(Max(page))),
                        !.step = IF LastPage(c.cursor) THEN "import" ELSE "page"])
  /\ UNCHANGED <<past, changes, staged, server, bundle>>

\* downloadChanges: the next page begins after the last ID of this one.
NextPage(d) ==
  /\ Running(d, "page") /\ \A i \in Page(client[d].cursor) : ChangeObject(i) \notin torn
  /\ LET c == client[d]  page == Page(c.cursor) IN
     Start(d, [c EXCEPT !.got = @ \cup page,
                        !.cursor = IF LastPage(c.cursor) THEN @ ELSE Max(page),
                        !.step = IF LastPage(c.cursor) THEN "import" ELSE "page"])
  /\ UNCHANGED <<past, changes, staged, server, bundle>>

\* log.import: all of the batch or nothing; every parent is there.
Admissible(d, S) == \A i \in S : past[i] \subseteq changes[d] \cup S
Import(d) ==
  /\ Running(d, "import") /\ Admissible(d, client[d].got)
  /\ changes' = [changes EXCEPT ![d] = @ \cup client[d].got]
  /\ Start(d, [step |-> "blobs", wanted |-> Blobs(changes'[d]), start |-> client[d].start])
  /\ UNCHANGED <<past, staged, server, bundle>>

BeginFetch(d) ==
  /\ client[d] = Nothing /\ Blobs(changes[d]) \ staged[d] # {}
  /\ Start(d, [step |-> "blobs", wanted |-> Blobs(changes[d]), start |-> {}])
  /\ UNCHANGED <<past, changes, staged, server, bundle>>

\* pullBlobs: SyncBlobStore.put checks the hash.
Missing(d) == client[d].wanted \ staged[d]
FetchBlob(d) ==
  /\ Running(d, "blobs")
  /\ \E b \in Missing(d) : Held(b) /\ b \notin torn /\ staged' = [staged EXCEPT ![d] = @ \cup {b}]
  /\ UNCHANGED <<past, changes, server, client, bundle>>

EndPull(d) ==
  /\ Running(d, "blobs") /\ Missing(d) = {}
  /\ Stop(d)

\* A torn change fails its page, a missing parent the import, an absent blob the fetch.
PullFails(d) ==
  /\ \/ Running(d, "page") /\ \E i \in Page(client[d].cursor) : ChangeObject(i) \in torn
     \/ Running(d, "import") /\ ~Admissible(d, client[d].got)
     \/ Running(d, "blobs") /\ \E b \in Missing(d) : ~Held(b) \/ b \in torn
  /\ Stop(d)
----------------------------------------------------------------------------
(* sync blobs prune, sync export --bundle, sync import. *)

\* Every staged blob of the log.
PruneAll(d) ==
  /\ \E b \in staged[d] \cap Blobs(changes[d]) : staged' = [staged EXCEPT ![d] = @ \ {b}]
  /\ UNCHANGED <<past, changes, server, client, bundle>>

\* Only what the relay confirms it holds.
Prune(d) ==
  /\ \E b \in staged[d] \cap Blobs(changes[d]) : Held(b) /\ staged' = [staged EXCEPT ![d] = @ \ {b}]
  /\ UNCHANGED <<past, changes, server, client, bundle>>

ExportBundle(d) ==
  /\ bundle = Nothing /\ changes[d] # {} /\ Blobs(changes[d]) \subseteq staged[d]
  /\ bundle' = [changes |-> changes[d], blobs |-> Blobs(changes[d])]
  /\ UNCHANGED <<past, changes, staged, server, client>>

\* Blobs first, then the envelopes.
ImportBundle(d) ==
  /\ bundle # Nothing /\ Admissible(d, bundle.changes)
  /\ staged' = [staged EXCEPT ![d] = @ \cup bundle.blobs]
  /\ changes' = [changes EXCEPT ![d] = @ \cup bundle.changes]
  /\ UNCHANGED <<past, server, client, bundle>>
----------------------------------------------------------------------------
(* Faults. *)

\* A time-out, a cancelled helper, a lost answer: whatever was stored stays.
CutOff(d) ==
  /\ client[d] # Nothing
  /\ Start(d, Nothing)
  /\ UNCHANGED <<past, changes, staged, server, bundle>>

\* The relay dies after it has created an object's file and before the last byte.
RelayDies(d) ==
  /\ Running(d, "push") /\ client[d].send # {}
  /\ \E o \in IF Unsent(d) = {} THEN {ChangeObject(Sending(d))}
            ELSE IF "torn" \in Overlap THEN Unsent(d) \cap staged[d] ELSE {} :
       ~Held(o) /\ WithinQuota(o) /\ relay' = relay \cup {o} /\ torn' = torn \cup {o}
  /\ Start(d, Nothing)
  /\ UNCHANGED <<past, changes, staged, bundle>>
----------------------------------------------------------------------------
Pushing(d) == BeginPush(d) \/ ReadChanges(d) \/ SendBlob(d) \/ SendChange(d) \/ EndPush(d) \/ PushFails(d)
Pulling(d) == \/ BeginPull(d) \/ NextPage(d) \/ Import(d) \/ BeginFetch(d) \/ FetchBlob(d)
              \/ EndPull(d) \/ PullFails(d)
Local(d) == \/ Prune(d) \/ ExportBundle(d) \/ ImportBundle(d)
            \/ \E i \in ChangeId : Record(d, i)
RelayNext == \E d \in Vault : Pushing(d) \/ Pulling(d) \/ Local(d) \/ CutOff(d) \/ RelayDies(d)

RelaySpec == RelayInit /\ [][RelayNext]_relayVars
----------------------------------------------------------------------------
(* Properties. *)

RelayTypeOK ==
  /\ DOMAIN past \subseteq ChangeId /\ bundle \in Bundle \cup {Nothing}
  /\ changes \in [Vault -> SUBSET DOMAIN past] /\ staged \in [Vault -> SUBSET Blobs(DOMAIN past)]
  /\ torn \subseteq relay /\ Cardinality(relay) <= MaxObjects

\* The relay never lists a change whose blobs it cannot serve, although other commands record
\* changes while one pushes and pushes stop anywhere.
NothingDangling == Blobs(Listed) \subseteq relay \ torn

\* Every chunk of every recorded attachment is complete somewhere, on a device or the relay:
\* no prune removes the last copy.
BlobsKept == Blobs(DOMAIN past) \subseteq (relay \ torn) \cup UNION {staged[d] : d \in Vault}

\* A pull that gets as far as its blobs has admitted every change the relay held when it
\* began, whatever was pushed between its pages; a log never holds a change without its
\* ancestors.
PullsComplete ==
  \A d \in Vault : /\ Running(d, "blobs") => client[d].start \subseteq changes[d]
                   /\ \A i \in changes[d] : past[i] \subseteq changes[d]
============================================================================
