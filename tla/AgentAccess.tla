---------------------------- MODULE AgentAccess ----------------------------
(***************************************************************************)
(* What an agent gets of a vault and what is recorded of it: the grants and *)
(* the approvals they ask for (src/grants.ts), the MCP server's tools       *)
(* (src/mcp-server.ts), the key-value files and their catalog (src/store.ts,*)
(* src/schema.ts) and the audit trail (src/audit.ts), beside the owner's    *)
(* commands (src/cli.ts).                                                    *)
(*                                                                          *)
(* The grant file, a category and the catalog are each replaced as a whole; *)
(* reads take no lock.  An audit line and the head that counts the lines    *)
(* are two files.  A value, its mask, the text of an answer and that of a   *)
(* line are left out, and a key stands for a category and a key of it.      *)
(***************************************************************************)
EXTENDS Naturals, Sequences, FiniteSets, SequencesExt

CONSTANTS
  Server,        \* MCP server processes
  Terminal,      \* processes of the owner's commands
  AgentOf,       \* [Server -> the agent its command line names]
  Key,
  Offer,         \* the grants the owner may write: [agent, keys, actions, confirm]
  None,          \* no call, no lock holder, nothing read yet
  MaxGrants,     \* a vault holds at most so many, revoked ones included
  KeepRequests,  \* a grant file keeps the newest so many requests
  MaxAtOnce,     \* bound: calls and commands under way
  MaxLines,      \* bound: audit lines
  MaxDeaths      \* bound: deaths of processes

VARIABLES
  grants,       \* in grants.enc: the grants in the order they were made
  expired,      \* those of them whose time is over
  requests,     \* in grants.enc: the unexpired requests, oldest first
  given,        \* history: <<agent, key>> the owner approved and did not take back
  store,        \* the keys with a value
  catalog,      \* schema.enc: the keys it names
  unindexed,    \* history: keys whose writer stopped before its index
  log,          \* audit.log: per line the number of lines its hash chain ends at
  head,         \* audit.head.json: the lines it counts
  torn,         \* audit.log ends in half a line
  interrupted,  \* history: a writer died between the last line and its head
  lock,         \* the process in the vault lock
  call,         \* [Process -> what it is doing]
  deaths

policy == <<grants, expired, requests, given>>
files == <<store, catalog, unindexed>>
trail == <<log, head, torn, interrupted>>
vars == <<policy, files, trail, lock, call, deaths>>

Process == Server \cup Terminal
Agent == {AgentOf[s] : s \in Server}
Action == {"resolve", "store"}

Grant == [agent : Agent, keys : SUBSET Key, actions : SUBSET Action, confirm : BOOLEAN]
Call == [task : {"none", "resolve", "store", "add", "get", "index", "verify"},
         step : {"none", "decide", "approval", "ask", "read", "upsert", "scan", "index",
                 "audit", "line", "head", "verify"},
         keys : SUBSET Key, key : Key \cup {None},
         rules : Seq([offer : Grant, revoked : BOOLEAN]),
         scan : SUBSET Key, tail : Nat, wrote : SUBSET Key]

ASSUME AgentAccessConstantsOK ==
  /\ Server \cap Terminal = {} /\ None \notin Process \cup Call
  /\ {MaxGrants, KeepRequests, MaxAtOnce, MaxLines, MaxDeaths} \subseteq Nat
  /\ Offer \subseteq Grant

Init ==
  /\ grants = << >> /\ expired = {} /\ requests = << >> /\ given = {}
  /\ store = {} /\ catalog = {} /\ unindexed = {}
  /\ log = << >> /\ head = 0 /\ torn = FALSE /\ interrupted = FALSE
  /\ lock = None /\ call = [p \in Process |-> None] /\ deaths = 0

At(p, step) == call[p] # None /\ call[p].step = step
Doing(p, task) == call[p] # None /\ call[p].task = task
Goto(p, c) == call' = [call EXCEPT ![p] = c]
Idle == [task |-> "none", step |-> "none", keys |-> {}, key |-> None,
         rules |-> << >>, scan |-> {}, tail |-> 0, wrote |-> {}]
Busy == {p \in Process : call[p] # None}
Begin(p, c) == call[p] = None /\ Cardinality(Busy) < MaxAtOnce /\ Goto(p, c)

Unlocked == lock = None
MayLock(p) == lock \in {None, p}
----------------------------------------------------------------------------
(* The owner's grants (one transaction of the grant file each). *)

AddGrant ==
  /\ Unlocked /\ Len(grants) < MaxGrants
  /\ \E offer \in Offer : grants' = Append(grants, [offer |-> offer, revoked |-> FALSE])
  /\ UNCHANGED <<expired, requests, given, files, trail, lock, call, deaths>>

GrantExpires ==
  /\ \E i \in (DOMAIN grants) \ expired : expired' = expired \cup {i}
  /\ UNCHANGED <<grants, requests, given, files, trail, lock, call, deaths>>

\* A slip: the grant is marked and the agent's requests stay.
RevokeKeepingRequests ==
  /\ Unlocked
  /\ \E i \in DOMAIN grants :
       /\ ~grants[i].revoked
       /\ grants' = [grants EXCEPT ![i].revoked = TRUE]
       /\ given' = {y \in given : y[1] # grants[i].offer.agent}
  /\ UNCHANGED <<expired, requests, files, trail, lock, call, deaths>>

\* Array.filter: the positions of S in their order, one sequence.
InOrder(S) ==
  {f \in [1..Cardinality(S) -> S] : \A i, j \in 1..Cardinality(S) : i < j => f[i] < f[j]}

\* "A revoked grant must not leave a usable approval behind."
RevokeGrant ==
  /\ Unlocked
  /\ \E i \in DOMAIN grants :
       LET agent == grants[i].offer.agent IN
       /\ ~grants[i].revoked
       /\ grants' = [grants EXCEPT ![i].revoked = TRUE]
       /\ \E f \in InOrder({j \in DOMAIN requests : requests[j].agent # agent}) :
            requests' = [j \in DOMAIN f |-> requests[f[j]]]
       /\ given' = {y \in given : y[1] # agent}
  /\ UNCHANGED <<expired, files, trail, lock, call, deaths>>

\* Approving again only gives the approval more time.
ApproveRequest ==
  /\ Unlocked
  /\ \E i \in DOMAIN requests :
       /\ requests' = [requests EXCEPT ![i].approved = TRUE]
       /\ given' = given \cup {<<requests[i].agent, requests[i].key>>}
  /\ UNCHANGED <<grants, expired, files, trail, lock, call, deaths>>

Dropped(i) ==
  /\ requests' = RemoveAt(requests, i)
  /\ given' = given \ {<<requests[i].agent, requests[i].key>>}
DenyRequest ==
  /\ Unlocked
  /\ \E i \in DOMAIN requests : Dropped(i)
  /\ UNCHANGED <<grants, expired, files, trail, lock, call, deaths>>

\* Five minutes after it was made or approved a request counts no more: every reader prunes it.
RequestExpires ==
  /\ \E i \in DOMAIN requests : Dropped(i)
  /\ UNCHANGED <<grants, expired, files, trail, lock, call, deaths>>
----------------------------------------------------------------------------
(* decide *)

\* The clock is read at every decision, the grants are those the call read.
Covering(rules, agent, action, key) ==
  {i \in DOMAIN rules : /\ ~rules[i].revoked /\ i \notin expired
                        /\ rules[i].offer.agent = agent
                        /\ action \in rules[i].offer.actions /\ key \in rules[i].offer.keys}

Allowed(rules, agent, action, key) == Covering(rules, agent, action, key) # {}
RequiresConfirmation(rules, agent, key) ==
  \A i \in Covering(rules, agent, "resolve", key) : rules[i].offer.confirm
----------------------------------------------------------------------------
(* resolve_key and resolve_keys: one policy read for all the keys of a call. *)

BeginResolve(s) ==
  /\ grants # << >>
  /\ \E K \in (SUBSET Key) \ {{}} :
       Begin(s, [Idle EXCEPT !.task = "resolve", !.step = "decide", !.keys = K, !.rules = grants])
  /\ UNCHANGED <<policy, files, trail, lock, deaths>>

Decide(s) ==
  /\ At(s, "decide")
  /\ \E k \in call[s].keys :
       LET c == [call[s] EXCEPT !.key = k, !.keys = @ \ {k}] IN
       Goto(s, IF ~Allowed(c.rules, AgentOf[s], "resolve", k)
               THEN [c EXCEPT !.step = "audit"]
               ELSE [c EXCEPT !.step = IF RequiresConfirmation(c.rules, AgentOf[s], k)
                                       THEN "approval" ELSE "read"])
  /\ UNCHANGED <<policy, files, trail, lock, deaths>>

Matching(s) == {i \in DOMAIN requests : requests[i].agent = AgentOf[s] /\ requests[i].key = call[s].key}
Approved(s) == {i \in Matching(s) : requests[i].approved}

\* consumeApproval: the approval goes as it is spent.
Spend(s) ==
  /\ At(s, "approval") /\ Unlocked
  /\ IF Approved(s) = {} THEN Goto(s, [call[s] EXCEPT !.step = "ask"]) /\ UNCHANGED <<requests, given>>
     ELSE /\ \E i \in Approved(s) : Dropped(i)
          /\ Goto(s, [call[s] EXCEPT !.step = "read"])
  /\ UNCHANGED <<grants, expired, files, trail, lock, deaths>>

\* requestConfirmation: an open request, approved by now or not, is the answer.
Newest(r) == IF Len(r) > KeepRequests THEN Tail(r) ELSE r
Ask(s) ==
  /\ At(s, "ask") /\ Unlocked
  /\ requests' = IF Matching(s) # {} THEN requests
                 ELSE Newest(Append(requests, [agent |-> AgentOf[s], key |-> call[s].key, approved |-> FALSE]))
  /\ Goto(s, [call[s] EXCEPT !.step = "audit"])
  /\ UNCHANGED <<grants, expired, given, files, trail, lock, deaths>>

\* Whether the key is there, missing, or its file does not open: a line is due, and a spent
\* approval stays spent.
Read(p) ==
  /\ At(p, "read")
  /\ Goto(p, [call[p] EXCEPT !.step = "audit"])
  /\ UNCHANGED <<policy, files, trail, lock, deaths>>
----------------------------------------------------------------------------
(* store_note, and the owner's add, note and get. *)

\* Permission is asked for the key that will be written, before the lock.
BeginStore(s) ==
  /\ grants # << >>
  /\ \E k \in Key :
       LET c == [Idle EXCEPT !.task = "store", !.key = k] IN
       Begin(s, IF Allowed(grants, AgentOf[s], "store", k) THEN [c EXCEPT !.step = "upsert"]
                ELSE [c EXCEPT !.step = "audit"])
  /\ UNCHANGED <<policy, files, trail, lock, deaths>>

\* One key, or all those of a file.
BeginAdd(t) ==
  /\ \E k \in Key, K \in SUBSET Key :
       Begin(t, [Idle EXCEPT !.task = "add", !.step = "upsert", !.key = k, !.keys = K \ {k}])
  /\ UNCHANGED <<policy, files, trail, lock, deaths>>

BeginGet(t) ==
  /\ \E k \in store : Begin(t, [Idle EXCEPT !.task = "get", !.step = "read", !.key = k])
  /\ UNCHANGED <<policy, files, trail, lock, deaths>>

\* add: write, line by line on record, index, in transactions of their own;
\* store_note: write, index, one line, in one.
Upsert(p) ==
  /\ At(p, "upsert") /\ Unlocked
  /\ LET written == {call[p].key} \cup call[p].keys IN
     /\ store' = store \cup written
     /\ Goto(p, [call[p] EXCEPT !.wrote = written,
                                !.step = IF Doing(p, "store") THEN "scan" ELSE "audit"])
  /\ lock' = IF Doing(p, "store") THEN p ELSE None
  /\ UNCHANGED <<policy, catalog, unindexed, trail, deaths>>

BeginIndex(t) ==
  /\ Begin(t, [Idle EXCEPT !.task = "index", !.step = "scan"])
  /\ UNCHANGED <<policy, files, trail, lock, deaths>>

\* A slip: the files are read before the lock is taken.
ScanUnlocked(p) ==
  /\ At(p, "scan")
  /\ Goto(p, [call[p] EXCEPT !.scan = store, !.step = "index"])
  /\ UNCHANGED <<policy, files, trail, lock, deaths>>

\* buildSchema: the lock for the whole scan, not just the write.
Scan(p) ==
  /\ At(p, "scan") /\ MayLock(p)
  /\ lock' = p
  /\ Goto(p, [call[p] EXCEPT !.scan = store, !.step = "index"])
  /\ UNCHANGED <<policy, files, trail, deaths>>

WriteCatalog(p) ==
  /\ At(p, "index") /\ MayLock(p)
  /\ catalog' = call[p].scan /\ unindexed' = {}
  /\ IF Doing(p, "store") THEN Goto(p, [call[p] EXCEPT !.step = "audit", !.wrote = {}, !.scan = {}]) /\ lock' = p
     ELSE Goto(p, None) /\ lock' = None
  /\ UNCHANGED <<policy, store, trail, deaths>>
----------------------------------------------------------------------------
(* The audit trail. *)

\* appendAudit: the lines are read and counted in the lock.
TakeTail(p) ==
  /\ At(p, "audit") /\ MayLock(p) /\ ~torn /\ Len(log) < MaxLines
  /\ lock' = p
  /\ Goto(p, [call[p] EXCEPT !.tail = Len(log), !.step = "line"])
  /\ UNCHANGED <<policy, files, trail, deaths>>

WriteLine(p) ==
  /\ At(p, "line")
  /\ log' = Append(log, call[p].tail)
  /\ Goto(p, [call[p] EXCEPT !.step = "head"])
  /\ UNCHANGED <<policy, files, head, torn, interrupted, lock, deaths>>

\* What follows the line: the next key of resolve_keys, the next line or the index of add,
\* the answer.
Recorded(c) ==
  IF c.task = "resolve" /\ c.keys # {} THEN [c EXCEPT !.step = "decide", !.tail = 0]
  ELSE IF c.task = "add" /\ c.keys # {} THEN [c EXCEPT !.keys = @ \ {CHOOSE k \in @ : TRUE}, !.step = "audit"]
  ELSE IF c.task = "add" THEN [c EXCEPT !.step = "scan", !.tail = 0]
  ELSE None

\* A slip: the count of the head goes on from the head.
CountOn(p) ==
  /\ At(p, "head")
  /\ head' = head + 1 /\ interrupted' = FALSE
  /\ lock' = None
  /\ Goto(p, Recorded(call[p]))
  /\ UNCHANGED <<policy, files, log, torn, deaths>>

\* saveHead: the count is that of the lines read, so it takes in a line without a head.
SaveHead(p) ==
  /\ At(p, "head")
  /\ head' = call[p].tail + 1 /\ interrupted' = FALSE
  /\ lock' = None
  /\ Goto(p, Recorded(call[p]))
  /\ UNCHANGED <<policy, files, log, torn, deaths>>

\* Half a line does not parse: every append throws.  resolve_keys goes on with its next key.
AppendFails(p) ==
  /\ At(p, "audit") /\ MayLock(p) /\ torn
  /\ Goto(p, IF Doing(p, "resolve") /\ call[p].keys # {} THEN [call[p] EXCEPT !.step = "decide"] ELSE None)
  /\ unindexed' = unindexed \cup call[p].wrote
  /\ lock' = None
  /\ UNCHANGED <<policy, store, catalog, trail, deaths>>

\* audit verify, and the dates of list_keys: the log, then the head, without the lock.
BeginVerify(p) ==
  /\ log # << >>
  /\ Begin(p, [Idle EXCEPT !.task = "verify", !.step = "verify", !.tail = Len(log)])
  /\ UNCHANGED <<policy, files, trail, lock, deaths>>
Report(p) ==
  /\ At(p, "verify") /\ Goto(p, None)
  /\ UNCHANGED <<policy, files, trail, lock, deaths>>
----------------------------------------------------------------------------
(* A process dies; its lock is reclaimed (VaultLock).  A line may be half written. *)
Die(p) ==
  /\ call[p] # None /\ deaths < MaxDeaths
  /\ deaths' = deaths + 1
  /\ Goto(p, None)
  /\ lock' = IF lock = p THEN None ELSE lock
  /\ torn' \in IF At(p, "line") THEN BOOLEAN ELSE {torn}
  /\ interrupted' = (interrupted \/ At(p, "head"))
  /\ unindexed' = unindexed \cup call[p].wrote
  /\ UNCHANGED <<policy, store, catalog, log, head>>
----------------------------------------------------------------------------
Owner == \/ AddGrant \/ RevokeGrant \/ ApproveRequest \/ DenyRequest
Resolving(s) == BeginResolve(s) \/ Decide(s) \/ Spend(s) \/ Ask(s)
Commands(t) == BeginAdd(t) \/ BeginGet(t) \/ BeginIndex(t)
Recording(p) == TakeTail(p) \/ WriteLine(p) \/ SaveHead(p) \/ AppendFails(p)
Auditing(p) == BeginVerify(p) \/ Report(p)
Next ==
  \/ Owner \/ GrantExpires \/ RequestExpires
  \/ \E s \in Server : Resolving(s) \/ BeginStore(s)
  \/ \E t \in Terminal : Commands(t)
  \/ \E p \in Process : Read(p) \/ Upsert(p) \/ Scan(p) \/ WriteCatalog(p) \/ Recording(p)
                          \/ Auditing(p) \/ Die(p)

Spec == Init /\ [][Next]_vars
----------------------------------------------------------------------------
(* Properties. *)

TypeOK ==
  /\ Len(grants) <= MaxGrants /\ expired \subseteq DOMAIN grants
  /\ Len(requests) <= KeepRequests /\ given \subseteq Agent \X Key
  /\ catalog \subseteq store /\ unindexed \subseteq store
  /\ head \in 0..Len(log) /\ lock \in Process \cup {None}

\* One value per yes: whatever servers resolve at once and whatever policy a call still
\* holds, an approval that opens a value was given by the owner for this agent and key, and
\* has since been neither spent nor denied, nor has it expired or its agent lost a grant.
OneValuePerYes ==
  [][\A s \in Server : At(s, "approval") /\ call'[s] # None /\ call'[s].step = "read"
       => <<AgentOf[s], call[s].key>> \in given]_vars

\* The trail verifies with every whole line in its chain, except between a line and its
\* head; what a death leaves there the next append puts right.
TrailVerifies ==
  /\ \A i \in DOMAIN log : log[i] = i - 1
  /\ head = Len(log) \/ interrupted \/ \E p \in Process : At(p, "head")

\* The catalog names every stored key whose writer is through with its work, however the
\* writers and the indexes of several processes overlap.
CatalogCurrent ==
  store \subseteq catalog \cup unindexed \cup UNION {call[p].wrote : p \in {q \in Process : call[q] # None}}

\* README.md:219, src/cli.ts audit: a verification reports what was altered.  It may be
\* told a count that is one line ahead of what it read.
NoFalseAlarm == \A p \in Process : At(p, "verify") => head = call[p].tail \/ interrupted \/ torn
============================================================================
