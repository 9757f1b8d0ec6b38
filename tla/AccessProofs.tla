---------------------------- MODULE AccessProofs ----------------------------
(***************************************************************************)
(* Proofs about AgentAccess and Plugins, what an agent and what a plugin    *)
(* gets of a vault.                                                         *)
(*                                                                          *)
(* The first half is about AgentAccess, for every set of servers,           *)
(* terminals, keys and offers and every bound: one value per approval, a    *)
(* trail that verifies, and a catalog that names what is stored.            *)
(*                                                                          *)
(* The second half is about Plugins, for every set of plugins, signers and  *)
(* refreshes.  That a worker which reaches the vault runs the installed     *)
(* code holds whatever overlaps.  That a plugin stays off rests on          *)
(* NoCutOffRestored: no signer is restored whose revocation was cut off.    *)
(* That what was turned off is stopped rests on OneRefresh: the app makes   *)
(* one refresh after the other.                                             *)
(***************************************************************************)
EXTENDS AgentAccess, Plugins, SequenceTheorems, FiniteSetTheorems, TLAPS

Request == [agent : Agent, key : Key, approved : BOOLEAN]

TypeInv ==
  /\ grants \in Seq([offer : Grant, revoked : BOOLEAN])
  /\ requests \in Seq(Request) /\ given \subseteq Agent \X Key
  /\ store \subseteq Key /\ catalog \subseteq Key /\ unindexed \subseteq Key
  /\ log \in Seq(Nat) /\ head \in Nat /\ torn \in BOOLEAN /\ interrupted \in BOOLEAN
  /\ lock \in Process \cup {None}
  /\ call \in [Process -> Call \cup {None}]

\* An agent has one request of a key at a time, and what is approved was given.
RequestsInv ==
  /\ \A i, j \in DOMAIN requests :
       requests[i].agent = requests[j].agent /\ requests[i].key = requests[j].key => i = j
  /\ \A i \in DOMAIN requests :
       requests[i].approved => <<requests[i].agent, requests[i].key>> \in given

\* Whoever is between reading and writing the catalog or the trail has the lock,
\* so what it read is what is there.
LockInv ==
  \A p \in Process :
    /\ At(p, "index") \/ At(p, "line") \/ At(p, "head") => lock = p
    /\ At(p, "index") => call[p].scan = store
    /\ At(p, "scan") /\ Doing(p, "store") => lock = p
    /\ At(p, "line") => call[p].tail = Len(log)
    /\ At(p, "head") => call[p].tail + 1 = Len(log)

\* A call has its key before it asks or writes, and what it wrote is what it still
\* has to index.
CallInv ==
  \A p \in Process : call[p] # None =>
    /\ call[p].step \in {"approval", "ask", "upsert"} => call[p].key \in Key
    /\ call[p].step = "upsert" => call[p].task \in {"store", "add"}
    /\ call[p].wrote # {} => \/ call[p].task = "add"
                             \/ call[p].task = "store" /\ call[p].step \in {"scan", "index"}
    /\ call[p].step \in {"upsert", "verify"} => call[p].wrote = {}

IInv == TypeInv /\ RequestsInv /\ LockInv /\ CallInv /\ TrailVerifies /\ CatalogCurrent
-----------------------------------------------------------------------------
\* A sequence without its i-th element.
LEMMA RemoveAtFacts ==
  ASSUME NEW S, NEW q \in Seq(S), NEW i \in DOMAIN q
  PROVE  /\ RemoveAt(q, i) \in Seq(S) /\ Len(RemoveAt(q, i)) = Len(q) - 1
         /\ \A j \in 1..(Len(q) - 1) : RemoveAt(q, i)[j] = q[IF j < i THEN j ELSE j + 1]
<1>1. i \in 1..Len(q) /\ Len(q) \in Nat
  OBVIOUS
<1>2. /\ SubSeq(q, 1, i - 1) \in Seq(S) /\ Len(SubSeq(q, 1, i - 1)) = i - 1
      /\ \A j \in 1..(i - 1) : SubSeq(q, 1, i - 1)[j] = q[j]
  BY <1>1, SubSeqProperties
<1>3. /\ SubSeq(q, i + 1, Len(q)) \in Seq(S) /\ Len(SubSeq(q, i + 1, Len(q))) = Len(q) - i
      /\ \A j \in 1..(Len(q) - i) : SubSeq(q, i + 1, Len(q))[j] = q[i + j]
  BY <1>1, SubSeqProperties
<1> DEFINE l == SubSeq(q, 1, i - 1)
           r == SubSeq(q, i + 1, Len(q))
<1>4. /\ l \o r \in Seq(S) /\ Len(l \o r) = Len(q) - 1
      /\ \A j \in 1..(Len(q) - 1) : (l \o r)[j] = IF j <= i - 1 THEN l[j] ELSE r[j - (i - 1)]
  <2>1. l \in Seq(S) /\ r \in Seq(S) /\ Len(l) = i - 1 /\ Len(r) = Len(q) - i
    BY <1>2, <1>3
  <2> HIDE DEF l, r
  <2>2. /\ l \o r \in Seq(S) /\ Len(l \o r) = Len(l) + Len(r)
        /\ \A j \in 1..(Len(l) + Len(r)) :
             (l \o r)[j] = IF j <= Len(l) THEN l[j] ELSE r[j - Len(l)]
    BY <2>1, ConcatProperties
  <2>3. Len(l) + Len(r) = Len(q) - 1
    BY <1>1, <2>1
  <2> QED
    BY <2>1, <2>2, <2>3
<1>5. ASSUME NEW j \in 1..(Len(q) - 1)
      PROVE  (l \o r)[j] = q[IF j < i THEN j ELSE j + 1]
  <2>1. CASE j < i
    <3>1. j \in 1..(i - 1) /\ l[j] = q[j]
      BY <1>1, <1>2, <2>1
    <3> QED
      BY <1>1, <1>4, <2>1, <3>1
  <2>2. CASE ~(j < i)
    <3>1. j - (i - 1) \in 1..(Len(q) - i) /\ i + (j - (i - 1)) = j + 1
      BY <1>1, <2>2
    <3>2. r[j - (i - 1)] = q[j + 1]
      BY <1>3, <3>1
    <3>3. (l \o r)[j] = r[j - (i - 1)]
      <4>1. ~(j <= i - 1)
        BY <1>1, <2>2
      <4> HIDE DEF l, r
      <4> QED
        BY <1>4, <4>1
    <3>4. q[IF j < i THEN j ELSE j + 1] = q[j + 1]
      BY <2>2
    <3> HIDE DEF l, r
    <3> QED
      BY <3>2, <3>3, <3>4
  <2> QED
    BY <2>1, <2>2
<1> QED
  BY <1>4, <1>5 DEF RemoveAt

\* A function on 1..n is a sequence.
LEMMA FunctionIsSeq ==
  ASSUME NEW S, NEW n \in Nat, NEW f \in [1..n -> S]
  PROVE  f \in Seq(S) /\ Len(f) = n /\ DOMAIN f = 1..n
BY SeqDef

\* What keeps some positions of a sequence is a sequence, each position in it once.
LEMMA InOrderFacts ==
  ASSUME NEW S, NEW q \in Seq(S), NEW K \in SUBSET DOMAIN q, NEW f \in InOrder(K)
  PROVE  /\ Cardinality(K) \in Nat /\ f \in [1..Cardinality(K) -> K]
         /\ [j \in DOMAIN f |-> q[f[j]]] \in Seq(S)
         /\ DOMAIN [j \in DOMAIN f |-> q[f[j]]] = DOMAIN f
         /\ \A i, j \in DOMAIN f : f[i] = f[j] => i = j
<1>1. Cardinality(K) \in Nat
  <2>1. IsFiniteSet(DOMAIN q)
    BY FS_Interval
  <2> QED
    BY <2>1, FS_Subset, FS_CardinalityType
<1>2. f \in [1..Cardinality(K) -> K] /\ \A i, j \in 1..Cardinality(K) : i < j => f[i] < f[j]
  BY DEF InOrder
<1>3. [j \in DOMAIN f |-> q[f[j]]] \in [1..Cardinality(K) -> S]
  BY <1>2
<1>4. \A i, j \in 1..Cardinality(K) : f[i] = f[j] => i = j
  BY <1>1, <1>2
<1> QED
  BY <1>1, <1>2, <1>3, <1>4, FunctionIsSeq

\* A call that is under way is no empty place, and an idle one is a call.
LEMMA CallFacts == None \notin Process /\ None \notin Call /\ Idle \in Call
BY AgentAccessConstantsOK DEF Idle, Call

\* The elements of the sequences the types speak of.
LEMMA ElementFacts ==
  ASSUME TypeInv
  PROVE  /\ requests \in Seq(Request) /\ \A i \in DOMAIN requests : requests[i] \in Request
         /\ DOMAIN requests = 1..Len(requests) /\ Len(requests) \in Nat
         /\ DOMAIN grants = 1..Len(grants) /\ Len(grants) \in Nat
         /\ \A i \in DOMAIN grants : grants[i] \in [offer : Grant, revoked : BOOLEAN]
<1>1. requests \in Seq(Request) /\ grants \in Seq([offer : Grant, revoked : BOOLEAN])
  BY DEF TypeInv
<1>2. DOMAIN requests = 1..Len(requests) /\ Len(requests) \in Nat
  BY <1>1, LenProperties
<1>3. DOMAIN grants = 1..Len(grants) /\ Len(grants) \in Nat
  BY <1>1, LenProperties
<1>4. \A i \in DOMAIN requests : requests[i] \in Request
  BY <1>1, <1>2, ElementOfSeq
<1>5. \A i \in DOMAIN grants : grants[i] \in [offer : Grant, revoked : BOOLEAN]
  BY <1>1, <1>3, ElementOfSeq
<1> QED
  BY <1>1, <1>2, <1>3, <1>4, <1>5

\* What a call is made of.
LEMMA CallFields ==
  ASSUME NEW c \in Call
  PROVE  /\ c.keys \subseteq Key /\ c.wrote \subseteq Key /\ c.scan \subseteq Key
         /\ c.tail \in Nat
BY DEF Call

\* What a recorded call goes on as.
LEMMA RecordedFacts == ASSUME NEW c \in Call PROVE Recorded(c) \in Call \cup {None}
<1>1. CASE c.task = "resolve" /\ c.keys # {}
  <2>1. [c EXCEPT !.step = "decide", !.tail = 0] \in Call
    BY DEF Call
  <2> QED
    BY <1>1, <2>1 DEF Recorded
<1>2. CASE c.task = "add" /\ c.keys # {}
  <2> DEFINE K == c.keys \ {CHOOSE k \in c.keys : TRUE}
  <2>1. K \in SUBSET Key
    BY CallFields
  <2>2. [c EXCEPT !.keys = K, !.step = "audit"] \in Call
    BY <2>1 DEF Call
  <2>3. Recorded(c) = [c EXCEPT !.keys = K, !.step = "audit"]
    BY <1>2 DEF Recorded
  <2> QED
    BY <2>2, <2>3
<1>3. CASE c.task = "add" /\ c.keys = {}
  <2>1. [c EXCEPT !.step = "scan", !.tail = 0] \in Call
    BY DEF Call
  <2> QED
    BY <1>3, <2>1 DEF Recorded
<1> QED
  BY <1>1, <1>2, <1>3 DEF Recorded

\* Every step keeps the types.
LEMMA NextTypeInv == TypeInv /\ CallInv /\ [Next]_vars => TypeInv'
<1> SUFFICES ASSUME TypeInv, CallInv, [Next]_vars PROVE TypeInv'
  OBVIOUS
<1>q. /\ requests \in Seq(Request) /\ \A i \in DOMAIN requests : requests[i] \in Request
      /\ DOMAIN requests = 1..Len(requests) /\ DOMAIN grants = 1..Len(grants)
      /\ \A i \in DOMAIN grants : grants[i] \in [offer : Grant, revoked : BOOLEAN]
  BY ElementFacts
<1>l. Len(log) \in Nat
  BY LenProperties DEF TypeInv
<1> USE CallFacts DEF TypeInv, policy, files, trail, Goto
<1>1. CASE AddGrant
  <2> PICK offer \in Offer : grants' = Append(grants, [offer |-> offer, revoked |-> FALSE])
    BY <1>1 DEF AddGrant
  <2>1. [offer |-> offer, revoked |-> FALSE] \in [offer : Grant, revoked : BOOLEAN]
    BY AgentAccessConstantsOK
  <2>2. grants' \in Seq([offer : Grant, revoked : BOOLEAN])
    BY <2>1, AppendProperties
  <2> QED
    BY <1>1, <2>2 DEF AddGrant
<1>2. CASE GrantExpires
  BY <1>2 DEF GrantExpires
<1>3. CASE RevokeGrant
  <2> PICK i \in DOMAIN grants :
        /\ grants' = [grants EXCEPT ![i].revoked = TRUE]
        /\ \E f \in InOrder({j \in DOMAIN requests : requests[j].agent # grants[i].offer.agent}) :
             requests' = [j \in DOMAIN f |-> requests[f[j]]]
        /\ given' = {y \in given : y[1] # grants[i].offer.agent}
    BY <1>3 DEF RevokeGrant
  <2> DEFINE S == {j \in DOMAIN requests : requests[j].agent # grants[i].offer.agent}
  <2> PICK f \in InOrder(S) : requests' = [j \in DOMAIN f |-> requests[f[j]]]
    OBVIOUS
  <2>1. grants' \in Seq([offer : Grant, revoked : BOOLEAN])
    <3>1. [grants[i] EXCEPT !.revoked = TRUE] \in [offer : Grant, revoked : BOOLEAN]
      BY <1>q
    <3> QED
      BY <3>1, <1>q, ExceptSeq
  <2>2. S \in SUBSET DOMAIN requests
    OBVIOUS
  <2> HIDE DEF S
  <2>3. f \in InOrder(S) /\ requests \in Seq(Request) /\ requests' = [j \in DOMAIN f |-> requests[f[j]]]
    OBVIOUS
  <2>4. requests' \in Seq(Request)
    <3> HIDE DEF TypeInv
    <3>1. [j \in DOMAIN f |-> requests[f[j]]] \in Seq(Request)
      BY <2>2, <2>3, InOrderFacts
    <3> QED
      BY <2>3, <3>1
  <2> QED
    BY <1>3, <2>1, <2>4 DEF RevokeGrant
<1>4. CASE ApproveRequest
  <2> PICK i \in DOMAIN requests :
        /\ requests' = [requests EXCEPT ![i].approved = TRUE]
        /\ given' = given \cup {<<requests[i].agent, requests[i].key>>}
    BY <1>4 DEF ApproveRequest
  <2>1. requests[i] \in Request /\ [requests[i] EXCEPT !.approved = TRUE] \in Request
    BY <1>q DEF Request
  <2>2. requests' \in Seq(Request) /\ given' \subseteq Agent \X Key
    BY <1>q, <2>1, ExceptSeq DEF Request
  <2> QED
    BY <1>4, <2>2 DEF ApproveRequest
<1>d. ASSUME NEW i \in DOMAIN requests, Dropped(i)
      PROVE  requests' \in Seq(Request) /\ given' \subseteq Agent \X Key
  BY <1>d, RemoveAtFacts DEF Dropped
<1>5. CASE DenyRequest
  BY <1>5, <1>d DEF DenyRequest
<1>6. CASE RequestExpires
  BY <1>6, <1>d DEF RequestExpires
<1>g. ASSUME NEW p \in Process, NEW c \in Call \cup {None}, Goto(p, c) \/ Begin(p, c)
      PROVE  call' \in [Process -> Call \cup {None}]
  BY <1>g DEF Begin
<1>s. Server \subseteq Process /\ Terminal \subseteq Process
  BY DEF Process
<1>7. ASSUME NEW s \in Server, BeginResolve(s) PROVE TypeInv'
  <2> PICK K \in SUBSET Key :
        Begin(s, [Idle EXCEPT !.task = "resolve", !.step = "decide", !.keys = K, !.rules = grants])
    BY <1>7 DEF BeginResolve
  <2>1. [Idle EXCEPT !.task = "resolve", !.step = "decide", !.keys = K, !.rules = grants] \in Call
    BY DEF Idle, Call
  <2> QED
    BY <1>7, <1>s, <1>g, <2>1 DEF BeginResolve
<1>8. ASSUME NEW s \in Server, Decide(s) PROVE TypeInv'
  <2> PICK k \in call[s].keys :
        LET c == [call[s] EXCEPT !.key = k, !.keys = @ \ {k}] IN
        Goto(s, IF ~Allowed(c.rules, AgentOf[s], "resolve", k)
                THEN [c EXCEPT !.step = "audit"]
                ELSE [c EXCEPT !.step = IF RequiresConfirmation(c.rules, AgentOf[s], k)
                                        THEN "approval" ELSE "read"])
    BY <1>8 DEF Decide
  <2> DEFINE c == [call[s] EXCEPT !.key = k, !.keys = @ \ {k}]
  <2>1. call[s] \in Call
    BY <1>8, <1>s DEF Decide, At
  <2>2. c \in Call
    BY <2>1 DEF Call
  <2>3. \A step \in {"audit", "approval", "read"} : [c EXCEPT !.step = step] \in Call
    BY <2>2 DEF Call
  <2> HIDE DEF c
  <2>4. call' \in [Process -> Call \cup {None}]
    BY <1>s, <2>3 DEF c
  <2> QED
    BY <1>8, <2>4 DEF Decide
<1>9. ASSUME NEW s \in Server, Spend(s) PROVE TypeInv'
  <2>1. call[s] \in Call
    BY <1>9, <1>s DEF Spend, At
  <2>2. \A step \in {"ask", "read"} : [call[s] EXCEPT !.step = step] \in Call
    BY <2>1 DEF Call
  <2>3. call' \in [Process -> Call \cup {None}]
    BY <1>9, <1>s, <2>2 DEF Spend
  <2>4. requests' \in Seq(Request) /\ given' \subseteq Agent \X Key
    BY <1>9, <1>d DEF Spend, Approved, Matching
  <2> QED
    BY <1>9, <2>3, <2>4 DEF Spend
<1>10. ASSUME NEW s \in Server, Ask(s) PROVE TypeInv'
  <2>1. call[s] \in Call
    BY <1>10, <1>s DEF Ask, At
  <2>2. [call[s] EXCEPT !.step = "audit"] \in Call
    BY <2>1 DEF Call
  <2>3. requests' \in Seq(Request)
    <3> DEFINE new == [agent |-> AgentOf[s], key |-> call[s].key, approved |-> FALSE]
               all == Append(requests, new)
    <3>1. new \in Request
      BY <1>10, <1>s DEF Request, Agent, Ask, At, CallInv
    <3>2. all \in Seq(Request) /\ all # << >>
      BY <3>1, <1>q, AppendProperties
    <3> HIDE DEF all
    <3>3. Tail(all) \in Seq(Request)
      BY <3>2, HeadTailProperties
    <3> QED
      BY <1>10, <3>2, <3>3 DEF Ask, Newest, all
  <2> QED
    BY <1>10, <1>s, <1>g, <2>2, <2>3 DEF Ask
<1>11. ASSUME NEW p \in Process, Read(p) PROVE TypeInv'
  <2>1. call[p] \in Call
    BY <1>11 DEF Read, At
  <2>2. [call[p] EXCEPT !.step = "audit"] \in Call
    BY <2>1 DEF Call
  <2>3. call' \in [Process -> Call \cup {None}]
    BY <1>11, <2>2 DEF Read
  <2> QED
    BY <1>11, <2>3 DEF Read
<1>12. ASSUME NEW s \in Server, BeginStore(s) PROVE TypeInv'
  <2> PICK k \in Key :
        LET c == [Idle EXCEPT !.task = "store", !.key = k] IN
        Begin(s, IF Allowed(grants, AgentOf[s], "store", k) THEN [c EXCEPT !.step = "upsert"]
                 ELSE [c EXCEPT !.step = "audit"])
    BY <1>12 DEF BeginStore
  <2>1. \A step \in {"upsert", "audit"} :
          [[Idle EXCEPT !.task = "store", !.key = k] EXCEPT !.step = step] \in Call
    BY DEF Idle, Call
  <2>2. call' \in [Process -> Call \cup {None}]
    BY <1>s, <2>1 DEF Begin
  <2> QED
    BY <1>12, <2>2 DEF BeginStore
<1>13. ASSUME NEW t \in Terminal, Commands(t) PROVE TypeInv'
  <2>2. CASE BeginAdd(t)
    <3> PICK k \in Key, K \in SUBSET Key :
          Begin(t, [Idle EXCEPT !.task = "add", !.step = "upsert", !.key = k, !.keys = K \ {k}])
      BY <2>2 DEF BeginAdd
    <3>1. [Idle EXCEPT !.task = "add", !.step = "upsert", !.key = k, !.keys = K \ {k}] \in Call
      BY DEF Idle, Call
    <3>2. call' \in [Process -> Call \cup {None}]
      BY <3>1, <1>s, <1>g
    <3> QED
      BY <2>2, <3>2 DEF BeginAdd
  <2>3. CASE BeginGet(t)
    <3> PICK k \in Key : Begin(t, [Idle EXCEPT !.task = "get", !.step = "read", !.key = k])
      BY <2>3 DEF BeginGet
    <3>1. [Idle EXCEPT !.task = "get", !.step = "read", !.key = k] \in Call
      BY DEF Idle, Call
    <3>2. call' \in [Process -> Call \cup {None}]
      BY <3>1, <1>s, <1>g
    <3> QED
      BY <2>3, <3>2 DEF BeginGet
  <2>4. CASE BeginIndex(t)
    <3>1. [Idle EXCEPT !.task = "index", !.step = "scan"] \in Call
      BY DEF Idle, Call
    <3> QED
      BY <3>1, <2>4, <1>s, <1>g DEF BeginIndex
  <2> QED
    BY <1>13, <2>2, <2>3, <2>4 DEF Commands
<1>14. ASSUME NEW p \in Process, Upsert(p) PROVE TypeInv'
  <2> DEFINE written == {call[p].key} \cup call[p].keys
  <2>1. call[p] \in Call /\ call[p].key \in Key
    BY <1>14 DEF Upsert, At, CallInv
  <2>2. written \in SUBSET Key
    BY <2>1, CallFields
  <2>3. \A step \in {"scan", "audit"} : [call[p] EXCEPT !.wrote = written, !.step = step] \in Call
    BY <2>1, <2>2 DEF Call
  <2>4. /\ store' = store \cup written
        /\ \E step \in {"scan", "audit"} :
             call' = [call EXCEPT ![p] = [call[p] EXCEPT !.wrote = written, !.step = step]]
    BY <1>14 DEF Upsert
  <2> HIDE DEF written
  <2>5. call' \in [Process -> Call \cup {None}]
    BY <2>3, <2>4
  <2>6. store' \subseteq Key
    BY <2>2, <2>4
  <2> QED
    BY <1>14, <2>5, <2>6 DEF Upsert
<1>15. ASSUME NEW p \in Process, Scan(p) PROVE TypeInv'
  <2>1. call[p] \in Call
    BY <1>15 DEF Scan, At
  <2>2. [call[p] EXCEPT !.scan = store, !.step = "index"] \in Call
    BY <2>1 DEF Call
  <2>3. call' \in [Process -> Call \cup {None}]
    BY <1>15, <2>2 DEF Scan
  <2> QED
    BY <1>15, <2>3 DEF Scan
<1>16. ASSUME NEW p \in Process, WriteCatalog(p) PROVE TypeInv'
  <2>1. call[p] \in Call
    BY <1>16 DEF WriteCatalog, At
  <2>2. [call[p] EXCEPT !.step = "audit", !.wrote = {}, !.scan = {}] \in Call
    BY <2>1 DEF Call
  <2>3. call' \in [Process -> Call \cup {None}]
    BY <1>16, <2>2 DEF WriteCatalog
  <2>4. catalog' \subseteq Key /\ unindexed' \subseteq Key
    BY <1>16, <2>1, CallFields DEF WriteCatalog
  <2>5. lock' \in Process \cup {None}
    BY <1>16 DEF WriteCatalog
  <2> QED
    BY <1>16, <2>3, <2>4, <2>5 DEF WriteCatalog
<1>17. ASSUME NEW p \in Process, TakeTail(p) PROVE TypeInv'
  <2>1. call[p] \in Call
    BY <1>17 DEF TakeTail, At
  <2>2. [call[p] EXCEPT !.tail = Len(log), !.step = "line"] \in Call
    BY <2>1, <1>l DEF Call
  <2>3. call' \in [Process -> Call \cup {None}]
    BY <1>17, <2>2 DEF TakeTail
  <2> QED
    BY <1>17, <2>3 DEF TakeTail
<1>18. ASSUME NEW p \in Process, WriteLine(p) PROVE TypeInv'
  <2>1. call[p] \in Call /\ call[p].tail \in Nat
    BY <1>18, CallFields DEF WriteLine, At
  <2>2. [call[p] EXCEPT !.step = "head"] \in Call
    BY <2>1 DEF Call
  <2>3. call' \in [Process -> Call \cup {None}]
    BY <1>18, <2>2 DEF WriteLine
  <2>4. log' \in Seq(Nat)
    <3>1. Append(log, call[p].tail) \in Seq(Nat)
      BY <2>1, AppendProperties
    <3> QED
      BY <1>18, <3>1 DEF WriteLine
  <2> QED
    BY <1>18, <2>3, <2>4 DEF WriteLine
<1>19. ASSUME NEW p \in Process, SaveHead(p) PROVE TypeInv'
  <2>1. call[p] \in Call /\ call[p].tail \in Nat
    BY <1>19, CallFields DEF SaveHead, At
  <2>2. Recorded(call[p]) \in Call \cup {None}
    BY <2>1, RecordedFacts
  <2>3. call' \in [Process -> Call \cup {None}]
    BY <1>19, <2>2 DEF SaveHead
  <2>4. call[p].tail + 1 \in Nat
    BY <2>1
  <2>5. head' \in Nat /\ lock' = None /\ interrupted' = FALSE
    BY <1>19, <2>4 DEF SaveHead
  <2> QED
    BY <1>19, <2>3, <2>5 DEF SaveHead
<1>20. ASSUME NEW p \in Process, AppendFails(p) PROVE TypeInv'
  <2>1. call[p] \in Call
    BY <1>20 DEF AppendFails, At
  <2>2. [call[p] EXCEPT !.step = "decide"] \in Call
    BY <2>1 DEF Call
  <2>3. call' \in [Process -> Call \cup {None}]
    BY <1>20, <2>2 DEF AppendFails
  <2>4. unindexed' \subseteq Key /\ lock' = None
    BY <1>20, <2>1, CallFields DEF AppendFails
  <2> QED
    BY <1>20, <2>3, <2>4 DEF AppendFails
<1>21. ASSUME NEW p \in Process, Auditing(p) PROVE TypeInv'
  <2>1. [Idle EXCEPT !.task = "verify", !.step = "verify", !.tail = Len(log)] \in Call
    BY <1>l DEF Idle, Call
  <2>2. call' \in [Process -> Call \cup {None}]
    BY <1>21, <2>1 DEF Auditing, BeginVerify, Report, Begin
  <2> QED
    BY <1>21, <2>2 DEF Auditing, BeginVerify, Report
<1>22. ASSUME NEW p \in Process, Die(p) PROVE TypeInv'
  <2>1. call[p] \in Call
    BY <1>22 DEF Die
  <2>2. call' \in [Process -> Call \cup {None}]
    BY <1>22 DEF Die
  <2>3. unindexed' \subseteq Key /\ lock' \in Process \cup {None}
    BY <1>22, <2>1, CallFields DEF Die
  <2>4. torn' \in BOOLEAN /\ interrupted' \in BOOLEAN
    BY <1>22 DEF Die
  <2> QED
    BY <1>22, <2>2, <2>3, <2>4 DEF Die
<1>23. CASE UNCHANGED vars
  BY <1>23 DEF vars
<1> QED
  BY <1>1, <1>2, <1>3, <1>4, <1>5, <1>6, <1>7, <1>8, <1>9, <1>10, <1>11, <1>12, <1>13,
     <1>14, <1>15, <1>16, <1>17, <1>18, <1>19, <1>20, <1>21, <1>22, <1>23
  DEF Next, Owner, Resolving, Recording
-----------------------------------------------------------------------------
\* A call moves on by steps of its own process only.
LEMMA NextCallInv ==
  ASSUME TypeInv, CallInv, [Next]_vars
  PROVE  CallInv'
<1> USE CallFacts DEF Goto
<1>s. Server \subseteq Process /\ Terminal \subseteq Process
  BY DEF Process
<1>c. \A p \in Process : call[p] # None => call[p] \in Call
  BY DEF TypeInv
<1> DEFINE Good(c) ==
  /\ c.step \in {"approval", "ask", "upsert"} => c.key \in Key
  /\ c.step = "upsert" => c.task \in {"store", "add"}
  /\ c.wrote # {} => \/ c.task = "add"
                     \/ c.task = "store" /\ c.step \in {"scan", "index"}
  /\ c.step \in {"upsert", "verify"} => c.wrote = {}
<1>g. ASSUME NEW p \in Process, NEW c, c = None \/ Good(c), Goto(p, c) PROVE CallInv'
  BY <1>g DEF CallInv, TypeInv
<1>i. ASSUME NEW p \in Process, call[p] # None PROVE Good(call[p])
  BY <1>i DEF CallInv
<1>1. CASE UNCHANGED call
  BY <1>1 DEF CallInv
<1>2. ASSUME NEW s \in Server, BeginResolve(s) PROVE CallInv'
  <2>1. \A K : Good([Idle EXCEPT !.task = "resolve", !.step = "decide", !.keys = K, !.rules = grants])
    BY DEF Idle
  <2> QED
    BY <1>2, <1>s, <1>g, <2>1 DEF BeginResolve, Begin
<1>3. ASSUME NEW s \in Server, Decide(s) PROVE CallInv'
  <2> PICK k \in call[s].keys :
        LET c == [call[s] EXCEPT !.key = k, !.keys = @ \ {k}] IN
        Goto(s, IF ~Allowed(c.rules, AgentOf[s], "resolve", k)
                THEN [c EXCEPT !.step = "audit"]
                ELSE [c EXCEPT !.step = IF RequiresConfirmation(c.rules, AgentOf[s], k)
                                        THEN "approval" ELSE "read"])
    BY <1>3 DEF Decide
  <2> DEFINE c == [call[s] EXCEPT !.key = k, !.keys = @ \ {k}]
  <2>1. call[s] \in Call /\ Good(call[s]) /\ k \in Key /\ call[s].step = "decide"
    BY <1>3, <1>s, <1>c, <1>i DEF Decide, At, Call
  <2>2. \A step \in {"audit", "approval", "read"} : Good([c EXCEPT !.step = step])
    BY <2>1 DEF Call
  <2>3. \E step \in {"audit", "approval", "read"} : Goto(s, [c EXCEPT !.step = step])
    OBVIOUS
  <2> HIDE DEF c, Good
  <2> QED
    BY <1>s, <1>g, <2>2, <2>3
<1>4. ASSUME NEW s \in Server, Spend(s) \/ Ask(s) PROVE CallInv'
  <2>1. call[s] \in Call /\ Good(call[s]) /\ call[s].step \in {"approval", "ask"}
    BY <1>4, <1>s, <1>c, <1>i DEF Spend, Ask, At
  <2>2. \A step \in {"ask", "read", "audit"} : Good([call[s] EXCEPT !.step = step])
    BY <2>1 DEF Call
  <2>3. \E step \in {"ask", "read", "audit"} : Goto(s, [call[s] EXCEPT !.step = step])
    BY <1>4 DEF Spend, Ask
  <2> QED
    BY <1>s, <1>g, <2>2, <2>3
<1>5. ASSUME NEW s \in Server, BeginStore(s) PROVE CallInv'
  <2> PICK k \in Key :
        LET c == [Idle EXCEPT !.task = "store", !.key = k] IN
        Begin(s, IF Allowed(grants, AgentOf[s], "store", k) THEN [c EXCEPT !.step = "upsert"]
                 ELSE [c EXCEPT !.step = "audit"])
    BY <1>5 DEF BeginStore
  <2>1. \A step \in {"upsert", "audit"} :
          Good([[Idle EXCEPT !.task = "store", !.key = k] EXCEPT !.step = step])
    BY DEF Idle
  <2>2. \E step \in {"upsert", "audit"} :
          Goto(s, [[Idle EXCEPT !.task = "store", !.key = k] EXCEPT !.step = step])
    BY DEF Begin
  <2> QED
    BY <1>s, <1>g, <2>1, <2>2
<1>6. ASSUME NEW t \in Terminal, Commands(t) PROVE CallInv'
  <2>1. \A k \in Key, K \in SUBSET Key :
          /\ Good([Idle EXCEPT !.task = "add", !.step = "upsert", !.key = k, !.keys = K \ {k}])
          /\ Good([Idle EXCEPT !.task = "get", !.step = "read", !.key = k])
          /\ Good([Idle EXCEPT !.task = "index", !.step = "scan"])
    BY DEF Idle
  <2>2. Good([Idle EXCEPT !.task = "index", !.step = "scan"])
    BY DEF Idle
  <2>3. CASE BeginAdd(t)
    BY <2>1, <2>3, <1>s, <1>g DEF BeginAdd, Begin
  <2>4. CASE BeginGet(t)
    BY <2>1, <2>4, <1>s, <1>g DEF BeginGet, Begin, TypeInv
  <2>5. CASE BeginIndex(t)
    BY <2>2, <2>5, <1>s, <1>g DEF BeginIndex, Begin
  <2> QED
    BY <1>6, <2>3, <2>4, <2>5 DEF Commands
<1>7. ASSUME NEW p \in Process, Read(p) \/ TakeTail(p) \/ WriteLine(p) PROVE CallInv'
  <2>1. call[p] \in Call /\ Good(call[p]) /\ call[p].step \in {"read", "audit", "line"}
    BY <1>7, <1>c, <1>i DEF Read, TakeTail, WriteLine, At
  <2>2. /\ \A step \in {"audit", "head"} : Good([call[p] EXCEPT !.step = step])
        /\ Good([call[p] EXCEPT !.tail = Len(log), !.step = "line"])
    BY <2>1 DEF Call
  <2>3. \/ \E step \in {"audit", "head"} : Goto(p, [call[p] EXCEPT !.step = step])
        \/ Goto(p, [call[p] EXCEPT !.tail = Len(log), !.step = "line"])
    BY <1>7 DEF Read, TakeTail, WriteLine
  <2> QED
    BY <1>g, <2>2, <2>3
<1>8. ASSUME NEW p \in Process, Upsert(p) PROVE CallInv'
  <2> DEFINE written == {call[p].key} \cup call[p].keys
             c == [call[p] EXCEPT !.wrote = written,
                                  !.step = IF Doing(p, "store") THEN "scan" ELSE "audit"]
  <2>1. call[p] \in Call /\ call[p].step = "upsert" /\ call[p].task \in {"store", "add"}
    BY <1>8, <1>c, <1>i DEF Upsert, At
  <2>2. Good(c)
    BY <2>1 DEF Call, Doing
  <2> HIDE DEF c
  <2> QED
    BY <1>8, <1>g, <2>2 DEF Upsert, c
<1>9. ASSUME NEW p \in Process, Scan(p) PROVE CallInv'
  <2>1. call[p] \in Call /\ Good(call[p]) /\ call[p].step = "scan"
    BY <1>9, <1>c, <1>i DEF Scan, At
  <2>2. Good([call[p] EXCEPT !.scan = store, !.step = "index"])
    BY <2>1 DEF Call
  <2> QED
    BY <1>9, <1>g, <2>2 DEF Scan
<1>10. ASSUME NEW p \in Process, WriteCatalog(p) PROVE CallInv'
  <2>1. call[p] \in Call
    BY <1>10, <1>c DEF WriteCatalog, At
  <2>2. Good([call[p] EXCEPT !.step = "audit", !.wrote = {}, !.scan = {}])
    BY <2>1 DEF Call
  <2> QED
    BY <1>10, <1>g, <2>2 DEF WriteCatalog
<1>11. ASSUME NEW p \in Process, SaveHead(p) PROVE CallInv'
  <2>1. call[p] \in Call /\ Good(call[p]) /\ call[p].step = "head"
    BY <1>11, <1>c, <1>i DEF SaveHead, At
  <2>2. Recorded(call[p]) = None \/ Good(Recorded(call[p]))
    BY <2>1 DEF Recorded, Call
  <2> QED
    BY <1>11, <1>g, <2>2 DEF SaveHead
<1>12. ASSUME NEW p \in Process, AppendFails(p) PROVE CallInv'
  <2>1. call[p] \in Call /\ Good(call[p]) /\ call[p].step = "audit"
    BY <1>12, <1>c, <1>i DEF AppendFails, At
  <2>2. Good([call[p] EXCEPT !.step = "decide"])
    BY <2>1 DEF Call
  <2> QED
    BY <1>12, <1>g, <2>2 DEF AppendFails
<1>13. ASSUME NEW p \in Process, Auditing(p) PROVE CallInv'
  <2>1. Good([Idle EXCEPT !.task = "verify", !.step = "verify", !.tail = Len(log)])
    BY DEF Idle
  <2> QED
    BY <1>13, <1>g, <2>1 DEF Auditing, BeginVerify, Report, Begin
<1>14. ASSUME NEW p \in Process, Die(p) PROVE CallInv'
  BY <1>14, <1>g DEF Die
<1> HIDE DEF Good
<1>15. Owner \/ GrantExpires \/ RequestExpires \/ UNCHANGED vars => UNCHANGED call
  BY DEF Owner, AddGrant, RevokeGrant, ApproveRequest, DenyRequest, GrantExpires, RequestExpires, vars
<1> QED
  BY <1>1, <1>2, <1>3, <1>4, <1>5, <1>6, <1>7, <1>8, <1>9, <1>10, <1>11, <1>12, <1>13, <1>14, <1>15
  DEF Next, Resolving, Recording
-----------------------------------------------------------------------------
\* A request that goes takes its approval with it and no other's.
LEMMA DroppedFacts ==
  ASSUME TypeInv, RequestsInv, NEW i \in DOMAIN requests, Dropped(i)
  PROVE  RequestsInv'
<1>1. /\ requests \in Seq(Request) /\ DOMAIN requests = 1..Len(requests) /\ Len(requests) \in Nat
  BY ElementFacts
<1>2. requests' = RemoveAt(requests, i)
  BY DEF Dropped
<1>3. /\ requests' \in Seq(Request) /\ Len(requests') = Len(requests) - 1
      /\ \A j \in 1..(Len(requests) - 1) : requests'[j] = requests[IF j < i THEN j ELSE j + 1]
  BY <1>1, <1>2, RemoveAtFacts
<1>4. DOMAIN requests' = 1..(Len(requests) - 1)
  BY <1>3, LenProperties
<1> DEFINE from(j) == IF j < i THEN j ELSE j + 1
<1>5. \A j \in DOMAIN requests' : /\ from(j) \in DOMAIN requests /\ from(j) # i
                                  /\ requests'[j] = requests[from(j)]
  BY <1>1, <1>3, <1>4
<1>6. \A j, k \in DOMAIN requests' : from(j) = from(k) => j = k
  BY <1>1, <1>4
<1> HIDE DEF from
<1>7. given' = given \ {<<requests[i].agent, requests[i].key>>}
  BY DEF Dropped
<1> QED
  BY <1>5, <1>6, <1>7 DEF RequestsInv

\* Whoever changes the requests keeps each one of an agent and a key, and what is approved given.
LEMMA NextRequestsInv ==
  ASSUME TypeInv, CallInv, RequestsInv, [Next]_vars
  PROVE  RequestsInv'
<1>q. /\ requests \in Seq(Request) /\ DOMAIN requests = 1..Len(requests) /\ Len(requests) \in Nat
      /\ \A i \in DOMAIN requests : requests[i] \in Request
  BY ElementFacts
<1>1. CASE UNCHANGED <<requests, given>>
  BY <1>1 DEF RequestsInv
<1>2. CASE RevokeGrant
  <2> PICK i \in DOMAIN grants :
        /\ \E f \in InOrder({j \in DOMAIN requests : requests[j].agent # grants[i].offer.agent}) :
             requests' = [j \in DOMAIN f |-> requests[f[j]]]
        /\ given' = {y \in given : y[1] # grants[i].offer.agent}
    BY <1>2 DEF RevokeGrant
  <2> DEFINE S == {j \in DOMAIN requests : requests[j].agent # grants[i].offer.agent}
  <2> PICK f \in InOrder(S) : requests' = [j \in DOMAIN f |-> requests[f[j]]]
    OBVIOUS
  <2>1. S \in SUBSET DOMAIN requests /\ \A j \in S : requests[j].agent # grants[i].offer.agent
    OBVIOUS
  <2> HIDE DEF S
  <2>2. f \in InOrder(S)
    OBVIOUS
  <2>3. /\ f \in [1..Cardinality(S) -> S] /\ DOMAIN requests' = DOMAIN f
        /\ \A j, k \in DOMAIN f : f[j] = f[k] => j = k
    BY <1>q, <2>1, <2>2, InOrderFacts
  <2>4. \A j \in DOMAIN requests' : f[j] \in S /\ requests'[j] = requests[f[j]]
    BY <2>3
  <2> QED
    BY <2>1, <2>3, <2>4 DEF RequestsInv
<1>3. CASE ApproveRequest
  <2> PICK i \in DOMAIN requests :
        /\ requests' = [requests EXCEPT ![i].approved = TRUE]
        /\ given' = given \cup {<<requests[i].agent, requests[i].key>>}
    BY <1>3 DEF ApproveRequest
  <2>1. DOMAIN requests' = DOMAIN requests
    BY <1>q
  <2>2. \A j \in DOMAIN requests : /\ requests'[j].agent = requests[j].agent
                                   /\ requests'[j].key = requests[j].key
                                   /\ j # i => requests'[j] = requests[j]
    BY <1>q DEF Request
  <2> QED
    BY <2>1, <2>2 DEF RequestsInv
<1>4. ASSUME NEW i \in DOMAIN requests, Dropped(i) PROVE RequestsInv'
  BY <1>4, DroppedFacts
<1>5. CASE DenyRequest \/ RequestExpires
  BY <1>4, <1>5 DEF DenyRequest, RequestExpires
<1>6. ASSUME NEW s \in Server, Spend(s) PROVE RequestsInv'
  BY <1>1, <1>4, <1>6 DEF Spend, Approved, Matching
<1>7. ASSUME NEW s \in Server, Ask(s) PROVE RequestsInv'
  <2>1. CASE Matching(s) # {}
    BY <1>1, <1>7, <2>1 DEF Ask
  <2>2. CASE Matching(s) = {}
    <3> DEFINE new == [agent |-> AgentOf[s], key |-> call[s].key, approved |-> FALSE]
               all == Append(requests, new)
    <3>1. new \in Request
      BY <1>7 DEF Request, Agent, Ask, At, CallInv, Process
    <3>2. /\ all \in Seq(Request) /\ all # << >> /\ Len(all) = Len(requests) + 1
          /\ \A j \in 1..Len(requests) : all[j] = requests[j]
          /\ all[Len(requests) + 1] = new
      BY <3>1, <1>q, AppendProperties
    <3>3. DOMAIN all = 1..(Len(requests) + 1)
      BY <3>2, LenProperties
    <3>4. \A j \in DOMAIN requests : ~(requests[j].agent = AgentOf[s] /\ requests[j].key = call[s].key)
      BY <2>2 DEF Matching
    <3>5. new.agent = AgentOf[s] /\ new.key = call[s].key /\ new.approved = FALSE
      OBVIOUS
    <3> HIDE DEF new
    <3>6. /\ \A j, k \in DOMAIN all :
               all[j].agent = all[k].agent /\ all[j].key = all[k].key => j = k
          /\ \A j \in DOMAIN all :
               all[j].approved => <<all[j].agent, all[j].key>> \in given
      <4>1. \A j \in DOMAIN all : j \in DOMAIN requests \/ j = Len(requests) + 1
        BY <1>q, <3>3
      <4> HIDE DEF all
      <4>2. ASSUME NEW j \in DOMAIN all, NEW k \in DOMAIN all,
                   all[j].agent = all[k].agent, all[j].key = all[k].key
            PROVE  j = k
        BY <1>q, <3>2, <3>4, <3>5, <4>1, <4>2 DEF RequestsInv
      <4>3. ASSUME NEW j \in DOMAIN all, all[j].approved
            PROVE  <<all[j].agent, all[j].key>> \in given
        BY <1>q, <3>2, <3>5, <4>1, <4>3 DEF RequestsInv
      <4> QED
        BY <4>2, <4>3
    <3>7. requests' = Newest(all) /\ given' = given
      BY <1>7, <2>2 DEF Ask, new
    <3> HIDE DEF all
    <3>8. CASE requests' = all
      BY <3>6, <3>7, <3>8 DEF RequestsInv
    <3>9. CASE requests' = Tail(all)
      <4>1. /\ Tail(all) \in Seq(Request) /\ Len(Tail(all)) = Len(all) - 1
            /\ \A j \in 1..(Len(all) - 1) : Tail(all)[j] = all[j + 1]
        BY <3>2, HeadTailProperties
      <4>2. DOMAIN requests' = 1..Len(requests)
        BY <1>q, <3>2, <3>9, <4>1, LenProperties
      <4>3. \A j \in DOMAIN requests' : j + 1 \in DOMAIN all /\ requests'[j] = all[j + 1]
        BY <1>q, <3>2, <3>3, <3>9, <4>1, <4>2
      <4>4. \A j, k \in DOMAIN requests' : j + 1 = k + 1 => j = k
        BY <1>q, <4>2
      <4> QED
        BY <3>6, <3>7, <4>3, <4>4 DEF RequestsInv
    <3> QED
      BY <3>7, <3>8, <3>9 DEF Newest
  <2> QED
    BY <2>1, <2>2
<1> QED
  BY <1>1, <1>2, <1>3, <1>5, <1>6, <1>7
  DEF Next, Owner, Resolving, Recording, Commands, Auditing, AddGrant, GrantExpires, BeginResolve,
      Decide, Read, BeginStore, BeginAdd, BeginGet, BeginIndex, Upsert, Scan, WriteCatalog,
      TakeTail, WriteLine, SaveHead, AppendFails, BeginVerify, Report, Die, vars, policy
-----------------------------------------------------------------------------
\* Whoever writes the catalog or the trail, or reads for it, has the lock and leaves it last.
LEMMA NextLockInv ==
  ASSUME TypeInv, CallInv, LockInv, [Next]_vars
  PROVE  LockInv'
<1> USE CallFacts DEF Goto
<1>s. Server \subseteq Process /\ Terminal \subseteq Process
  BY DEF Process
<1>c. \A p \in Process : call[p] # None => call[p] \in Call
  BY DEF TypeInv
<1>n. Len(log) \in Nat /\ log \in Seq(Nat)
  BY LenProperties DEF TypeInv
<1> DEFINE Mine(p, c) ==
  /\ c.step \in {"index", "line", "head"} => lock' = p
  /\ c.step = "index" => c.scan = store'
  /\ c.step = "scan" /\ c.task = "store" => lock' = p
  /\ c.step = "line" => c.tail = Len(log')
  /\ c.step = "head" => c.tail + 1 = Len(log')
<1>g. ASSUME NEW p \in Process, NEW c, call' = [call EXCEPT ![p] = c], c = None \/ Mine(p, c),
             lock \in {None, p} \/ UNCHANGED <<lock, store, log>>
      PROVE  LockInv'
  <2>1. call'[p] = c /\ \A q \in Process : q # p => call'[q] = call[q]
    BY <1>g DEF TypeInv
  <2> SUFFICES ASSUME NEW q \in Process, call'[q] # None PROVE Mine(q, call'[q])
    BY DEF LockInv, At, Doing
  <2>2. CASE q = p
    BY <1>g, <2>1, <2>2
  <2>3. CASE q # p
    <3>1. call'[q] = call[q]
      BY <2>1, <2>3
    <3>2. CASE lock \in {None, p}
      BY <2>3, <3>1, <3>2 DEF LockInv, At, Doing
    <3>3. CASE UNCHANGED <<lock, store, log>>
      BY <3>1, <3>3 DEF LockInv, At, Doing
    <3> QED
      BY <1>g, <3>2, <3>3
  <2> QED
    BY <2>2, <2>3
<1>r. ASSUME NEW p \in Process, NEW c, call' = [call EXCEPT ![p] = c],
             UNCHANGED <<lock, store, log>>,
             c = None \/ c.step \notin {"index", "line", "head"},
             c = None \/ (c.step = "scan" => c.task # "store")
      PROVE  LockInv'
  BY <1>g, <1>r
<1>1. CASE UNCHANGED <<call, lock, store, log>>
  BY <1>1 DEF LockInv, At, Doing
<1>2. ASSUME NEW s \in Server, BeginResolve(s) PROVE LockInv'
  <2> PICK K \in SUBSET Key :
        Begin(s, [Idle EXCEPT !.task = "resolve", !.step = "decide", !.keys = K, !.rules = grants])
    BY <1>2 DEF BeginResolve
  <2>1. [Idle EXCEPT !.task = "resolve", !.step = "decide", !.keys = K, !.rules = grants].step = "decide"
    BY DEF Idle
  <2> QED
    BY <1>2, <1>s, <1>r, <2>1 DEF BeginResolve, Begin, files, trail
<1>3. ASSUME NEW s \in Server, Decide(s) PROVE LockInv'
  <2> PICK k \in call[s].keys :
        LET c == [call[s] EXCEPT !.key = k, !.keys = @ \ {k}] IN
        Goto(s, IF ~Allowed(c.rules, AgentOf[s], "resolve", k)
                THEN [c EXCEPT !.step = "audit"]
                ELSE [c EXCEPT !.step = IF RequiresConfirmation(c.rules, AgentOf[s], k)
                                        THEN "approval" ELSE "read"])
    BY <1>3 DEF Decide
  <2> DEFINE c == [call[s] EXCEPT !.key = k, !.keys = @ \ {k}]
  <2>1. call[s] \in Call
    BY <1>3, <1>s, <1>c DEF Decide, At
  <2>2. \A step \in {"audit", "approval", "read"} : [c EXCEPT !.step = step].step = step
    BY <2>1 DEF Call
  <2>3. \E step \in {"audit", "approval", "read"} : Goto(s, [c EXCEPT !.step = step])
    OBVIOUS
  <2> HIDE DEF c
  <2> QED
    BY <1>3, <1>s, <1>r, <2>2, <2>3 DEF Decide, files, trail
<1>4. ASSUME NEW s \in Server, Spend(s) \/ Ask(s) PROVE LockInv'
  <2>1. call[s] \in Call
    BY <1>4, <1>s, <1>c DEF Spend, Ask, At
  <2>2. \A step \in {"ask", "read", "audit"} : [call[s] EXCEPT !.step = step].step = step
    BY <2>1 DEF Call
  <2>3. \E step \in {"ask", "read", "audit"} : Goto(s, [call[s] EXCEPT !.step = step])
    BY <1>4 DEF Spend, Ask
  <2> QED
    BY <1>4, <1>s, <1>r, <2>2, <2>3 DEF Spend, Ask, files, trail
<1>5. ASSUME NEW s \in Server, BeginStore(s) PROVE LockInv'
  <2> PICK k \in Key :
        LET c == [Idle EXCEPT !.task = "store", !.key = k] IN
        Begin(s, IF Allowed(grants, AgentOf[s], "store", k) THEN [c EXCEPT !.step = "upsert"]
                 ELSE [c EXCEPT !.step = "audit"])
    BY <1>5 DEF BeginStore
  <2>1. \A step \in {"upsert", "audit"} :
          [[Idle EXCEPT !.task = "store", !.key = k] EXCEPT !.step = step].step = step
    BY DEF Idle
  <2>2. \E step \in {"upsert", "audit"} :
          Goto(s, [[Idle EXCEPT !.task = "store", !.key = k] EXCEPT !.step = step])
    BY DEF Begin
  <2> QED
    BY <1>5, <1>s, <1>r, <2>1, <2>2 DEF BeginStore, files, trail
<1>6. ASSUME NEW t \in Terminal, Commands(t) PROVE LockInv'
  <2>1. \A k, K : /\ [Idle EXCEPT !.task = "add", !.step = "upsert", !.key = k, !.keys = K].step = "upsert"
                  /\ [Idle EXCEPT !.task = "get", !.step = "read", !.key = k].step = "read"
    BY DEF Idle
  <2>2. /\ [Idle EXCEPT !.task = "index", !.step = "scan"].step = "scan"
        /\ [Idle EXCEPT !.task = "index", !.step = "scan"].task = "index"
    BY DEF Idle
  <2>3. CASE BeginAdd(t)
    <3> PICK k \in Key, K \in SUBSET Key :
          Begin(t, [Idle EXCEPT !.task = "add", !.step = "upsert", !.key = k, !.keys = K \ {k}])
      BY <2>3 DEF BeginAdd
    <3> DEFINE c == [Idle EXCEPT !.task = "add", !.step = "upsert", !.key = k, !.keys = K \ {k}]
    <3>1. c.step = "upsert" /\ call' = [call EXCEPT ![t] = c]
      BY <2>1 DEF Begin
    <3> HIDE DEF c
    <3> QED
      BY <2>3, <3>1, <1>s, <1>r DEF BeginAdd, files, trail
  <2>4. CASE BeginGet(t)
    <3> PICK k \in store : Begin(t, [Idle EXCEPT !.task = "get", !.step = "read", !.key = k])
      BY <2>4 DEF BeginGet
    <3> DEFINE c == [Idle EXCEPT !.task = "get", !.step = "read", !.key = k]
    <3>1. c.step = "read" /\ call' = [call EXCEPT ![t] = c]
      BY <2>1 DEF Begin
    <3> HIDE DEF c
    <3> QED
      BY <2>4, <3>1, <1>s, <1>r DEF BeginGet, files, trail
  <2>5. CASE BeginIndex(t)
    BY <2>2, <2>5, <1>s, <1>r DEF BeginIndex, Begin, files, trail
  <2> QED
    BY <1>6, <2>3, <2>4, <2>5 DEF Commands
<1>7. ASSUME NEW p \in Process, Read(p) PROVE LockInv'
  <2>1. [call[p] EXCEPT !.step = "audit"].step = "audit"
    BY <1>7, <1>c DEF Read, At, Call
  <2> QED
    BY <1>7, <1>r, <2>1 DEF Read, files, trail
<1>8. ASSUME NEW p \in Process, Upsert(p) PROVE LockInv'
  <2> DEFINE written == {call[p].key} \cup call[p].keys
             c == [call[p] EXCEPT !.wrote = written,
                                  !.step = IF Doing(p, "store") THEN "scan" ELSE "audit"]
  <2>1. call[p] \in Call
    BY <1>8, <1>c DEF Upsert, At
  <2>2. Mine(p, c)
    BY <1>8, <2>1 DEF Call, Upsert, Doing
  <2> HIDE DEF c
  <2> QED
    BY <1>8, <1>g, <2>2 DEF Upsert, Unlocked, c
<1>9. ASSUME NEW p \in Process, Scan(p) PROVE LockInv'
  <2>1. call[p] \in Call
    BY <1>9, <1>c DEF Scan, At
  <2>2. Mine(p, [call[p] EXCEPT !.scan = store, !.step = "index"])
    BY <1>9, <2>1 DEF Call, Scan, files
  <2> QED
    BY <1>9, <1>g, <2>2 DEF Scan, MayLock
<1>10. ASSUME NEW p \in Process, WriteCatalog(p) PROVE LockInv'
  <2>1. [call[p] EXCEPT !.step = "audit", !.wrote = {}, !.scan = {}].step = "audit"
    BY <1>10, <1>c DEF WriteCatalog, At, Call
  <2>2. Mine(p, [call[p] EXCEPT !.step = "audit", !.wrote = {}, !.scan = {}])
    BY <2>1
  <2> QED
    BY <1>10, <1>g, <2>2 DEF WriteCatalog, MayLock
<1>11. ASSUME NEW p \in Process, TakeTail(p) PROVE LockInv'
  <2>1. call[p] \in Call
    BY <1>11, <1>c DEF TakeTail, At
  <2>2. Mine(p, [call[p] EXCEPT !.tail = Len(log), !.step = "line"])
    BY <1>11, <2>1 DEF Call, TakeTail, trail
  <2> QED
    BY <1>11, <1>g, <2>2 DEF TakeTail, MayLock
<1>12. ASSUME NEW p \in Process, WriteLine(p) PROVE LockInv'
  <2>1. call[p] \in Call /\ lock = p /\ call[p].tail = Len(log)
    BY <1>12, <1>c DEF WriteLine, At, LockInv
  <2>2. Len(log') = Len(log) + 1
    BY <1>12, <1>n, <2>1, AppendProperties DEF WriteLine, Call
  <2>3. Mine(p, [call[p] EXCEPT !.step = "head"])
    BY <1>12, <2>1, <2>2 DEF Call, WriteLine
  <2> QED
    BY <1>12, <1>g, <2>1, <2>3 DEF WriteLine
<1>13. ASSUME NEW p \in Process, SaveHead(p) PROVE LockInv'
  <2>1. call[p] \in Call /\ lock = p
    BY <1>13, <1>c DEF SaveHead, At, LockInv
  <2>2. Recorded(call[p]) = None \/ Mine(p, Recorded(call[p]))
    BY <2>1 DEF Recorded, Call
  <2> QED
    BY <1>13, <1>g, <2>1, <2>2 DEF SaveHead
<1>14. ASSUME NEW p \in Process, AppendFails(p) PROVE LockInv'
  <2>1. [call[p] EXCEPT !.step = "decide"].step = "decide"
    BY <1>14, <1>c DEF AppendFails, At, Call
  <2> QED
    BY <1>14, <1>g, <2>1 DEF AppendFails, MayLock
<1>15. ASSUME NEW p \in Process, Auditing(p) PROVE LockInv'
  <2>1. [Idle EXCEPT !.task = "verify", !.step = "verify", !.tail = Len(log)].step = "verify"
    BY DEF Idle
  <2> QED
    BY <1>15, <1>r, <2>1 DEF Auditing, BeginVerify, Report, Begin, files, trail
<1>16. ASSUME NEW p \in Process, Die(p) PROVE LockInv'
  BY <1>16, <1>g DEF Die
<1> QED
  BY <1>1, <1>2, <1>3, <1>4, <1>5, <1>6, <1>7, <1>8, <1>9, <1>10, <1>11, <1>12, <1>13, <1>14,
     <1>15, <1>16
  DEF Next, Owner, Resolving, Recording, AddGrant, RevokeGrant, ApproveRequest, DenyRequest,
      GrantExpires, RequestExpires, vars, files, trail
-----------------------------------------------------------------------------
\* A line is written at the end it was counted for, and its head counts it.
LEMMA NextTrailVerifies ==
  ASSUME TypeInv, CallInv, LockInv, TrailVerifies, [Next]_vars
  PROVE  TrailVerifies'
<1> USE CallFacts DEF Goto
<1>s. Server \subseteq Process /\ Terminal \subseteq Process
  BY DEF Process
<1>c. \A p \in Process : call[p] # None => call[p] \in Call
  BY DEF TypeInv
<1>n. Len(log) \in Nat /\ log \in Seq(Nat) /\ DOMAIN log = 1..Len(log)
  BY LenProperties DEF TypeInv
<1>1. CASE UNCHANGED <<log, head, interrupted, call>>
  BY <1>1 DEF TrailVerifies, At
<1>g. ASSUME NEW p \in Process, NEW c, ~At(p, "head"), Goto(p, c),
             UNCHANGED <<log, head, interrupted>>
      PROVE  TrailVerifies'
  BY <1>g DEF TrailVerifies, At, TypeInv
<1>b. ASSUME NEW p \in Process, NEW c, Begin(p, c), UNCHANGED trail PROVE TrailVerifies'
  <2>1. ~At(p, "head") /\ Goto(p, c)
    BY <1>b DEF Begin, At
  <2>2. UNCHANGED <<log, head, interrupted>>
    BY <1>b DEF trail
  <2> QED
    BY <1>g, <2>1, <2>2
<1>2. ASSUME NEW s \in Server, Resolving(s) \/ BeginStore(s) PROVE TrailVerifies'
  BY <1>2, <1>s, <1>g, <1>b
  DEF Resolving, BeginResolve, Decide, Spend, Ask, BeginStore, At, trail
<1>3. ASSUME NEW t \in Terminal, Commands(t) PROVE TrailVerifies'
  BY <1>3, <1>s, <1>b DEF Commands, BeginAdd, BeginGet, BeginIndex
<1>4. ASSUME NEW p \in Process, Read(p) \/ Upsert(p) \/ Scan(p) \/ WriteCatalog(p) \/ TakeTail(p)
                                  \/ AppendFails(p) \/ Auditing(p)
      PROVE  TrailVerifies'
  BY <1>4, <1>g, <1>b
  DEF Read, Upsert, Scan, WriteCatalog, TakeTail, AppendFails, Auditing, BeginVerify, Report, At, trail
<1>5. ASSUME NEW p \in Process, WriteLine(p) PROVE TrailVerifies'
  <2>1. call[p] \in Call /\ call[p].tail = Len(log)
    BY <1>5, <1>c DEF WriteLine, At, LockInv
  <2>2. /\ Len(log') = Len(log) + 1 /\ DOMAIN log' = 1..(Len(log) + 1)
        /\ \A i \in 1..Len(log) : log'[i] = log[i]
        /\ log'[Len(log) + 1] = Len(log)
    <3>1. log' = Append(log, Len(log)) /\ log' \in Seq(Nat)
      BY <1>5, <1>n, <2>1, AppendProperties DEF WriteLine
    <3> QED
      BY <1>n, <3>1, AppendProperties, LenProperties
  <2>3. At(p, "head")'
    <3>1. call' = [call EXCEPT ![p] = [call[p] EXCEPT !.step = "head"]]
      BY <1>5 DEF WriteLine, Goto
    <3>2. call'[p] = [call[p] EXCEPT !.step = "head"]
      BY <3>1 DEF TypeInv
    <3>3. [call[p] EXCEPT !.step = "head"] \in Call /\ [call[p] EXCEPT !.step = "head"].step = "head"
      BY <2>1 DEF Call
    <3> QED
      BY <3>2, <3>3, CallFacts DEF At
  <2>4. \A i \in DOMAIN log' : log'[i] = i - 1
    BY <1>n, <2>2 DEF TrailVerifies
  <2> QED
    BY <2>3, <2>4 DEF TrailVerifies
<1>6. ASSUME NEW p \in Process, SaveHead(p) PROVE TrailVerifies'
  <2>1. head' = Len(log') /\ log' = log
    BY <1>6 DEF SaveHead, LockInv
  <2> QED
    BY <2>1 DEF TrailVerifies
<1>7. ASSUME NEW p \in Process, Die(p) PROVE TrailVerifies'
  BY <1>7 DEF Die, TrailVerifies, At, TypeInv
<1> QED
  BY <1>1, <1>2, <1>3, <1>4, <1>5, <1>6, <1>7
  DEF Next, Owner, Recording, AddGrant, RevokeGrant, ApproveRequest, DenyRequest,
      GrantExpires, RequestExpires, vars, trail

\* What a writer stored stays named, by itself until the catalog does.
LEMMA NextCatalogCurrent ==
  ASSUME TypeInv, CallInv, LockInv, CatalogCurrent, [Next]_vars
  PROVE  CatalogCurrent'
<1> USE CallFacts DEF Goto
<1>s. Server \subseteq Process /\ Terminal \subseteq Process
  BY DEF Process
<1>c. \A p \in Process : call[p] # None => call[p] \in Call
  BY DEF TypeInv
<1> DEFINE Named(k) == \/ k \in catalog \cup unindexed
                       \/ \E p \in Process : call[p] # None /\ k \in call[p].wrote
<1>u. (CatalogCurrent <=> \A k \in store : Named(k)) /\ (CatalogCurrent' <=> \A k \in store' : Named(k)')
  <2>1. \A k : k \in UNION {call[p].wrote : p \in {q \in Process : call[q] # None}}
               <=> \E p \in Process : call[p] # None /\ k \in call[p].wrote
    OBVIOUS
  <2>2. \A k : k \in UNION {call'[p].wrote : p \in {q \in Process : call'[q] # None}}
               <=> \E p \in Process : call'[p] # None /\ k \in call'[p].wrote
    OBVIOUS
  <2> QED
    BY <2>1, <2>2 DEF CatalogCurrent
<1>1. CASE UNCHANGED <<store, catalog, unindexed, call>>
  BY <1>1 DEF CatalogCurrent
<1>g. ASSUME NEW p \in Process, NEW c, Goto(p, c), UNCHANGED <<store, catalog>>,
             unindexed \subseteq unindexed',
             call[p] # None => call[p].wrote \subseteq unindexed'
                                 \cup (IF c = None THEN {} ELSE c.wrote)
      PROVE  CatalogCurrent'
  <2> SUFFICES ASSUME NEW k \in store' PROVE Named(k)'
    BY <1>u
  <2>1. Named(k)
    BY <1>g, <1>u
  <2>2. CASE k \in catalog \cup unindexed
    BY <1>g, <2>2
  <2>3. ASSUME NEW q \in Process, call[q] # None, k \in call[q].wrote PROVE Named(k)'
    <3>1. CASE q # p
      BY <1>g, <2>3, <3>1 DEF TypeInv
    <3>2. CASE q = p
      BY <1>g, <2>3, <3>2 DEF TypeInv
    <3> QED
      BY <3>1, <3>2
  <2> QED
    BY <2>1, <2>2, <2>3
<1>b. ASSUME NEW p \in Process, NEW c, Begin(p, c), UNCHANGED files PROVE CatalogCurrent'
  BY <1>b, <1>g DEF Begin, files
<1>2. ASSUME NEW s \in Server, BeginResolve(s) \/ BeginStore(s) PROVE CatalogCurrent'
  BY <1>2, <1>s, <1>b DEF BeginResolve, BeginStore
<1>3. ASSUME NEW t \in Terminal, Commands(t) PROVE CatalogCurrent'
  BY <1>3, <1>s, <1>b DEF Commands, BeginAdd, BeginGet, BeginIndex
<1>w. ASSUME NEW p \in Process, call[p] # None, NEW step \in {"ask", "read", "audit", "head"}
      PROVE  [call[p] EXCEPT !.step = step] # None /\ [call[p] EXCEPT !.step = step].wrote = call[p].wrote
  <2>1. call[p] \in Call
    BY <1>c, <1>w
  <2>2. [call[p] EXCEPT !.step = step] \in Call /\ [call[p] EXCEPT !.step = step].wrote = call[p].wrote
    BY <2>1, <1>w DEF Call
  <2> QED
    BY <2>2
<1>4. ASSUME NEW s \in Server, Decide(s) PROVE CatalogCurrent'
  <2> PICK k \in call[s].keys :
        LET c == [call[s] EXCEPT !.key = k, !.keys = @ \ {k}] IN
        Goto(s, IF ~Allowed(c.rules, AgentOf[s], "resolve", k)
                THEN [c EXCEPT !.step = "audit"]
                ELSE [c EXCEPT !.step = IF RequiresConfirmation(c.rules, AgentOf[s], k)
                                        THEN "approval" ELSE "read"])
    BY <1>4 DEF Decide
  <2> DEFINE c == [call[s] EXCEPT !.key = k, !.keys = @ \ {k}]
  <2>1. call[s] \in Call
    BY <1>4, <1>s, <1>c DEF Decide, At
  <2>2. \A step \in {"audit", "approval", "read"} :
          [c EXCEPT !.step = step] \in Call /\ [c EXCEPT !.step = step].wrote = call[s].wrote
    BY <2>1 DEF Call
  <2>3. \E step \in {"audit", "approval", "read"} : Goto(s, [c EXCEPT !.step = step])
    OBVIOUS
  <2>4. PICK step \in {"audit", "approval", "read"} : Goto(s, [c EXCEPT !.step = step])
    BY <2>3
  <2>5. [c EXCEPT !.step = step] # None /\ [c EXCEPT !.step = step].wrote = call[s].wrote
    BY <2>2
  <2> HIDE DEF c
  <2> QED
    BY <1>4, <1>s, <1>g, <2>4, <2>5 DEF Decide, files
<1>5. ASSUME NEW s \in Server, Spend(s) \/ Ask(s) PROVE CatalogCurrent'
  <2>1. PICK step \in {"ask", "read", "audit"} : Goto(s, [call[s] EXCEPT !.step = step])
    BY <1>5 DEF Spend, Ask
  <2>2. [call[s] EXCEPT !.step = step] # None /\ [call[s] EXCEPT !.step = step].wrote = call[s].wrote
    <3>1. call[s] # None
      BY <1>5 DEF Spend, Ask, At
    <3>2. s \in Process /\ step \in {"ask", "read", "audit", "head"}
      BY <1>s
    <3> QED
      BY <1>w, <3>1, <3>2
  <2> QED
    BY <1>5, <1>s, <1>g, <2>1, <2>2 DEF Spend, Ask, files
<1>6. ASSUME NEW p \in Process, Read(p) \/ WriteLine(p) PROVE CatalogCurrent'
  <2>1. PICK step \in {"audit", "head"} : Goto(p, [call[p] EXCEPT !.step = step])
    BY <1>6 DEF Read, WriteLine
  <2>2. [call[p] EXCEPT !.step = step] # None /\ [call[p] EXCEPT !.step = step].wrote = call[p].wrote
    <3>1. call[p] # None
      BY <1>6 DEF Read, WriteLine, At
    <3> QED
      BY <1>w, <3>1
  <2> QED
    BY <1>6, <1>g, <2>1, <2>2 DEF Read, WriteLine, files
<1>7. ASSUME NEW p \in Process, Scan(p) \/ TakeTail(p) PROVE CatalogCurrent'
  <2>0. Len(log) \in Nat /\ store \in SUBSET Key
    BY LenProperties DEF TypeInv
  <2>1. CASE Scan(p)
    <3>1. call[p] \in Call
      BY <2>1, <1>c DEF Scan, At
    <3> DEFINE c == [call[p] EXCEPT !.scan = store, !.step = "index"]
    <3>2. c \in Call /\ c.wrote = call[p].wrote
      BY <2>0, <3>1 DEF Call
    <3>3. Goto(p, c) /\ UNCHANGED files
      BY <2>1 DEF Scan
    <3> HIDE DEF c
    <3> QED
      BY <3>2, <3>3, <1>g DEF files
  <2>2. CASE TakeTail(p)
    <3>1. call[p] \in Call
      BY <2>2, <1>c DEF TakeTail, At
    <3> DEFINE c == [call[p] EXCEPT !.tail = Len(log), !.step = "line"]
    <3>2. c \in Call /\ c.wrote = call[p].wrote
      BY <2>0, <3>1 DEF Call
    <3>3. Goto(p, c) /\ UNCHANGED files
      BY <2>2 DEF TakeTail
    <3> HIDE DEF c
    <3> QED
      BY <3>2, <3>3, <1>g DEF files
  <2> QED
    BY <1>7, <2>1, <2>2
<1>8. ASSUME NEW p \in Process, Upsert(p) PROVE CatalogCurrent'
  <2> DEFINE written == {call[p].key} \cup call[p].keys
             c == [call[p] EXCEPT !.wrote = written,
                                  !.step = IF Doing(p, "store") THEN "scan" ELSE "audit"]
  <2>1. call[p] \in Call /\ call[p].wrote = {} /\ written \subseteq Key
    BY <1>8, <1>c DEF Upsert, At, CallInv, Call
  <2>2. c \in Call /\ c.wrote = written
    BY <2>1 DEF Call
  <2>3. call'[p] = c /\ \A q \in Process : q # p => call'[q] = call[q]
    BY <1>8 DEF Upsert, TypeInv
  <2>4. store' = store \cup written /\ catalog' = catalog /\ unindexed' = unindexed
    BY <1>8 DEF Upsert
  <2> HIDE DEF c, written
  <2> SUFFICES ASSUME NEW k \in store' PROVE Named(k)'
    BY <1>u
  <2>5. CASE k \in written
    BY <2>2, <2>3, <2>5
  <2>6. CASE k \in store
    <3>1. Named(k)
      BY <1>u, <2>6
    <3>2. ASSUME NEW q \in Process, call[q] # None, k \in call[q].wrote PROVE Named(k)'
      <4>1. q # p
        BY <2>1, <3>2
      <4>2. call'[q] = call[q]
        BY <2>3, <4>1
      <4> QED
        BY <3>2, <4>2
    <3> QED
      BY <2>4, <3>1, <3>2
  <2> QED
    BY <2>4, <2>5, <2>6
<1>9. ASSUME NEW p \in Process, WriteCatalog(p) PROVE CatalogCurrent'
  <2>1. catalog' = store /\ store' = store
    BY <1>9 DEF WriteCatalog, LockInv
  <2> QED
    BY <2>1 DEF CatalogCurrent
<1>10. ASSUME NEW p \in Process, SaveHead(p) PROVE CatalogCurrent'
  <2>1. call[p] \in Call /\ call[p].step = "head"
    BY <1>10, <1>c DEF SaveHead, At
  <2>2. \/ Recorded(call[p]) \in Call /\ Recorded(call[p]).wrote = call[p].wrote
        \/ call[p].wrote = {}
    BY <2>1, <1>10 DEF Recorded, Call, CallInv, SaveHead, At
  <2> QED
    BY <1>10, <1>g, <2>2 DEF SaveHead, files
<1>11. ASSUME NEW p \in Process, AppendFails(p) \/ Die(p) PROVE CatalogCurrent'
  <2>1. /\ call[p].wrote \subseteq unindexed' /\ unindexed \subseteq unindexed'
        /\ \E c : Goto(p, c)
    BY <1>11 DEF AppendFails, Die
  <2> QED
    BY <1>11, <1>g, <2>1 DEF AppendFails, Die
<1>12. ASSUME NEW p \in Process, Report(p) PROVE CatalogCurrent'
  BY <1>12, <1>g DEF Report, At, CallInv, files
<1>13. ASSUME NEW p \in Process, BeginVerify(p) PROVE CatalogCurrent'
  BY <1>13, <1>b DEF BeginVerify
<1> QED
  BY <1>1, <1>2, <1>3, <1>4, <1>5, <1>6, <1>7, <1>8, <1>9, <1>10, <1>11, <1>12, <1>13
  DEF Next, Owner, Resolving, Recording, Auditing, AddGrant, RevokeGrant, ApproveRequest,
      DenyRequest, GrantExpires, RequestExpires, vars, files
-----------------------------------------------------------------------------
LEMMA InitIInv == Init => IInv
<1> SUFFICES ASSUME Init PROVE IInv
  OBVIOUS
<1> USE DEF Init
<1>1. TypeInv
  BY EmptySeq DEF TypeInv
<1>4. CallInv
  BY DEF CallInv
<1>2. RequestsInv /\ LockInv /\ CatalogCurrent
  BY DEF RequestsInv, LockInv, CatalogCurrent, At, Doing
<1>3. TrailVerifies
  BY DEF TrailVerifies
<1> QED
  BY <1>1, <1>2, <1>3, <1>4 DEF IInv

LEMMA NextIInv == IInv /\ [Next]_vars => IInv'
BY NextTypeInv, NextCallInv, NextRequestsInv, NextLockInv, NextTrailVerifies, NextCatalogCurrent
DEF IInv

\* Every file and call keeps its type.
THEOREM AccessTypeSafety == Spec => []TypeInv
<1>1. IInv => TypeInv
  BY DEF IInv
<1> QED
  BY InitIInv, NextIInv, <1>1, PTL DEF Spec

\* The trail verifies with every whole line in its chain, whatever processes write it and
\* wherever they die (appendAudit, saveHead).
THEOREM AccessTrailVerifies == Spec => []TrailVerifies
<1>1. IInv => TrailVerifies
  BY DEF IInv
<1> QED
  BY InitIInv, NextIInv, <1>1, PTL DEF Spec

\* The catalog names every stored key whose writer is through (buildSchema in the lock).
THEOREM AccessCatalogCurrent == Spec => []CatalogCurrent
<1>1. IInv => CatalogCurrent
  BY DEF IInv
<1> QED
  BY InitIInv, NextIInv, <1>1, PTL DEF Spec

\* An approval opens a value once, for the agent and the key it was given for
\* (consumeApproval), whatever a call read before and whoever else resolves meanwhile.
THEOREM AccessOneValuePerYes == Spec => OneValuePerYes
<1> DEFINE Step ==
  \A s \in Server : At(s, "approval") /\ call'[s] # None /\ call'[s].step = "read"
    => <<AgentOf[s], call[s].key>> \in given
<1>1. ASSUME IInv, [Next]_vars PROVE Step
  <2> SUFFICES ASSUME NEW s \in Server, At(s, "approval"), call'[s] # None, call'[s].step = "read"
               PROVE  <<AgentOf[s], call[s].key>> \in given
    OBVIOUS
  <2>1. TypeInv /\ RequestsInv /\ call[s] # None /\ call[s].step = "approval" /\ s \in Process
    BY <1>1 DEF IInv, At, Process
  <2>2. call'[s] # call[s]
    BY <2>1
  <2>3. \A p \in Process : \A c : Goto(p, c) \/ Begin(p, c) => p = s /\ Goto(p, c)
    BY <2>1, <2>2 DEF Goto, Begin, TypeInv
  <2>a. \A t \in Server : t \in Process
    BY DEF Process
  <2>b. \A t \in Terminal : t \in Process
    BY DEF Process
  <2>c. ASSUME NEW t \in Server, Resolving(t) \/ BeginStore(t) PROVE Spend(s)
    <3>1. t \in Process
      BY <2>a
    <3>2. ~BeginResolve(t)
      BY <2>1, <2>3, <3>1 DEF BeginResolve, Begin
    <3>3. ~BeginStore(t)
      BY <2>1, <2>3, <3>1 DEF BeginStore, Begin
    <3>4. ~Decide(t)
      BY <2>1, <2>3, <3>1 DEF Decide, At
    <3>5. ~Ask(t)
      BY <2>1, <2>3, <3>1 DEF Ask, At
    <3>6. Spend(t) => t = s
      BY <2>1, <2>3, <3>1 DEF Spend
    <3> QED
      BY <2>c, <3>2, <3>3, <3>4, <3>5, <3>6 DEF Resolving
  <2>d. ASSUME NEW t \in Terminal PROVE ~Commands(t)
    BY <2>1, <2>3, <2>b DEF Commands, BeginAdd, BeginGet, BeginIndex, Begin
  <2>e. ASSUME NEW p \in Process
        PROVE  ~(Read(p) \/ Upsert(p) \/ Scan(p) \/ WriteCatalog(p) \/ Recording(p) \/ Auditing(p))
    <3>1. ~Read(p)
      BY <2>1, <2>3 DEF Read, At
    <3>2. ~Upsert(p)
      BY <2>1, <2>3 DEF Upsert, At
    <3>3. ~(Scan(p) \/ WriteCatalog(p))
      BY <2>1, <2>3 DEF Scan, WriteCatalog, At
    <3>4. ~Recording(p)
      BY <2>1, <2>3 DEF Recording, TakeTail, WriteLine, SaveHead, AppendFails, At
    <3>5. ~Auditing(p)
      BY <2>1, <2>3 DEF Auditing, BeginVerify, Report, Begin, At
    <3> QED
      BY <3>1, <3>2, <3>3, <3>4, <3>5
  <2>f. ~(Owner \/ GrantExpires \/ RequestExpires \/ UNCHANGED vars)
    BY <2>2 DEF Owner, AddGrant, RevokeGrant, ApproveRequest, DenyRequest, GrantExpires,
                RequestExpires, vars
  <2>4. Spend(s) \/ \E p \in Process : Die(p)
    BY <1>1, <2>c, <2>d, <2>e, <2>f DEF Next
  <2>5. ~\E p \in Process : Die(p)
    BY <2>1, <2>3 DEF Die, Goto, TypeInv
  <2>6. Spend(s)
    BY <2>4, <2>5
  <2>7. Approved(s) # {}
    <3>1. CASE Approved(s) = {}
      <4>1. call[s] \in Call /\ call'[s] = [call[s] EXCEPT !.step = "ask"]
        BY <2>1, <2>6, <3>1 DEF Spend, Goto, TypeInv
      <4> QED
        BY <4>1 DEF Call
    <3> QED
      BY <3>1
  <2>8. PICK i \in DOMAIN requests : /\ requests[i].agent = AgentOf[s] /\ requests[i].key = call[s].key
                                     /\ requests[i].approved
    BY <2>7 DEF Approved, Matching
  <2> QED
    BY <2>1, <2>8 DEF RequestsInv
<1>2. IInv /\ [Next]_vars => [Step]_vars
  BY <1>1
<1>3. OneValuePerYes <=> [][Step]_vars
  BY DEF OneValuePerYes
<1> HIDE DEF Step
<1> QED
  BY InitIInv, NextIInv, <1>2, <1>3, PTL DEF Spec
-----------------------------------------------------------------------------
(* Plugins: what the invariants are made of. *)

Entry == [worker : BOOLEAN, revision : Nat, source : Nat, session : Nat]
Learnt == [step : {"list", "fetch", "start"}, want : [Plugin -> Nat],
           source : [Plugin -> Nat], asked : Plugin \cup {Nothing}, answer : Nat,
           off : SUBSET Plugin]

PluginsTypeInv ==
  /\ installed \in [Plugin -> Package \cup {Nothing, Gone}]
  /\ restricted \in BOOLEAN /\ revoked \subseteq Signer
  /\ revoking \in Revocation \cup {Nothing}
  /\ off \subseteq Plugin /\ stopped \subseteq Plugin /\ unfinished \subseteq Signer
  /\ session \in Nat /\ kills \in Nat
  /\ running \in [Plugin -> Entry \cup {Nothing}] /\ strays \subseteq Plugin \X Entry
  /\ refresh \in [Refresh -> Learnt \cup {Nothing}]

\* A revocation under way has the plugins of its signer that are on still before it.
RevokingInv ==
  revoking # Nothing =>
    /\ \A p \in revoking.left : Installed(p)
    /\ \A p \in SignedBy(revoking.signer) : installed[p].on => p \in revoking.left

\* The plugins of a revoked signer are off, unless its revocation is under way or was cut off.
CutOffInv ==
  \A p \in Plugin : Installed(p) /\ installed[p].on /\ installed[p].signer \in revoked =>
    \/ installed[p].signer \in unfinished
    \/ revoking # Nothing /\ revoking.signer = installed[p].signer

\* What was turned off is marked off in the vault, or a revocation that was cut off, or is
\* under way, has still to mark it and the policy names its signer.
OffInv == \A p \in off : Installed(p) /\ installed[p].on => installed[p].signer \in revoked

\* What a refresh has learnt is never newer than the vault, and the source of a
\* plugin not older than the listing.
Sound(c) ==
  /\ c.step # "start" => c.asked = Nothing
  /\ c.step = "list" => \A p \in Plugin : c.want[p] = 0 /\ c.source[p] = 0
  /\ c.step = "start" => \A p \in Plugin : c.want[p] > 0 => c.source[p] > 0
  /\ \A p \in Plugin : c.want[p] > 0 =>
       /\ installed[p] # Nothing
       /\ Installed(p) => /\ c.want[p] <= installed[p].revision
                          /\ c.source[p] <= installed[p].revision
       /\ c.source[p] > 0 => c.want[p] <= c.source[p]
  /\ c.asked # Nothing => /\ c.want[c.asked] > 0
                          /\ c.answer > 0 => c.want[c.asked] = c.source[c.asked]

RefreshInv == \A r \in Refresh : refresh[r] # Nothing => Sound(refresh[r])

\* A worker was started with the source of the revision it was authorized for.
Runs(p) == running[p] # Nothing /\ running[p].worker
WorkersInv ==
  /\ \A p \in Plugin : Runs(p) => running[p].revision = running[p].source
  /\ \A w \in strays : w[2].revision = w[2].source

RevisionInv == \A p \in Plugin : Installed(p) => installed[p].revision > 0

PluginsInv == PluginsTypeInv /\ RevisionInv /\ RevokingInv /\ RefreshInv /\ WorkersInv

\* Nobody restores a signer whose revocation was cut off before it turned the plugins off.
NoCutOffRestored == "cutoff" \notin Overlap

\* The app starts no refresh before the one under way is over.
OneRefresh == \A r, s \in Refresh : r = s

\* A plugin that was turned off is one a refresh no longer wants once it has
\* listed the plugins, and no longer runs once the refresh has stopped what it
\* does not want; what the app has reported as stopped stays that way.
StopInv ==
  /\ strays = {} /\ \A p \in Plugin : running[p] # Nothing => running[p].revision > 0
  /\ \A p \in stopped : ~Effective(p) /\ ~Runs(p)
  /\ \A r \in Refresh : refresh[r] # Nothing =>
       /\ \A p \in refresh[r].off : ~Effective(p)
       /\ \A p \in refresh[r].off \cup stopped : refresh[r].want[p] = 0
       /\ refresh[r].step = "start" => \A p \in refresh[r].off : ~Runs(p)
       /\ refresh[r].asked # Nothing => running[refresh[r].asked] = Nothing
----------------------------------------------------------------------------
\* What a command does to the refreshes under way: it may start one, and take
\* plugins from what the others will report.
Commanded ==
  \A r \in Refresh :
    \/ UNCHANGED refresh[r]
    \/ /\ refresh[r] = Nothing
       /\ \E P \in SUBSET Plugin : refresh'[r] = [NoRefresh EXCEPT !.off = P]
    \/ /\ refresh[r] # Nothing
       /\ \E P \in SUBSET Plugin : refresh'[r] = [refresh[r] EXCEPT !.off = @ \ P]

\* Every way of commanding keeps the types of what the app knows.
LEMMA ByCommanded ==
  ASSUME PluginsTypeInv, NEW who \in Who, NEW P \in SUBSET Plugin, NEW stops \in BOOLEAN,
         By(who, P, stops) \/ Refreshing(P, stops) \/ ByTerminal(P, stops) \/ AppUntouched
  PROVE  /\ Commanded /\ refresh' \in [Refresh -> Learnt \cup {Nothing}]
         /\ stopped' \subseteq stopped
<1> USE DEF PluginsTypeInv
<1>1. NoRefresh \in Learnt /\ \A O \in SUBSET Plugin : [NoRefresh EXCEPT !.off = O] \in Learnt
  BY DEF NoRefresh, Learnt
<1>2. \A c \in Learnt, O \in SUBSET Plugin : [c EXCEPT !.off = @ \ O] \in Learnt
  BY DEF Learnt
<1>3. CASE AppUntouched
  BY <1>3 DEF AppUntouched, Commanded
<1>4. CASE TurnedOn(P)
  BY <1>4, <1>2 DEF TurnedOn, Commanded
<1>5. CASE Refreshing(P, stops)
  <2> PICK r \in Refresh :
        /\ refresh[r] = Nothing
        /\ refresh' = [x \in Refresh |->
             IF x = r THEN [NoRefresh EXCEPT !.off = IF stops THEN P ELSE {}]
             ELSE IF refresh[x] = Nothing THEN Nothing
             ELSE IF stops THEN refresh[x]
             ELSE [refresh[x] EXCEPT !.off = @ \ P]]
    BY <1>5 DEF Refreshing
  <2>1. refresh' \in [Refresh -> Learnt \cup {Nothing}]
    BY <1>1, <1>2
  <2>2. refresh'[r] = [NoRefresh EXCEPT !.off = IF stops THEN P ELSE {}]
    OBVIOUS
  <2>3. \A x \in Refresh \ {r} : \/ UNCHANGED refresh[x]
                                 \/ refresh[x] # Nothing /\ refresh'[x] = [refresh[x] EXCEPT !.off = @ \ P]
    OBVIOUS
  <2>4. Commanded
    BY <2>2, <2>3 DEF Commanded
  <2> QED
    BY <1>5, <2>1, <2>4 DEF Refreshing
<1> QED
  BY <1>3, <1>4, <1>5 DEF By, ByTerminal

\* Every command, refresh step and death keeps the types.
LEMMA NextPluginsTypeInv == PluginsTypeInv /\ RevokingInv /\ [PluginsNext]_pluginsVars => PluginsTypeInv'
<1> SUFFICES ASSUME PluginsTypeInv, RevokingInv, [PluginsNext]_pluginsVars PROVE PluginsTypeInv'
  OBVIOUS
<1> USE PluginsConstantsOK DEF PluginsTypeInv, vault, host
<1>1. ASSUME NEW who \in Who, InstallPlugin(who) PROVE PluginsTypeInv'
  <2> PICK p \in Plugin, k \in Signer \cup {Unsigned}, enable \in BOOLEAN :
        /\ installed' = [installed EXCEPT ![p] =
             [signer |-> k, on |-> enable,
              revision |-> IF Installed(p) THEN installed[p].revision + 1 ELSE 1]]
        /\ off' = IF enable THEN off \ {p} ELSE off \cup {p}
        /\ By(who, {p}, ~enable)
    BY <1>1 DEF InstallPlugin
  <2>1. installed' \in [Plugin -> Package \cup {Nothing, Gone}]
    BY DEF Package, Installed
  <2> QED
    <3>1. (~enable) \in BOOLEAN /\ {p} \in SUBSET Plugin
      OBVIOUS
    <3>2. /\ refresh' \in [Refresh -> Learnt \cup {Nothing}] /\ stopped' \subseteq stopped
      BY <3>1, ByCommanded
    <3> QED
      BY <1>1, <2>1, <3>2 DEF InstallPlugin
<1>2. ASSUME NEW who \in Who, SetPluginEnabled(who) PROVE PluginsTypeInv'
  <2> PICK p \in Plugin, on \in BOOLEAN :
        /\ Installed(p) /\ installed' = [installed EXCEPT ![p].on = on]
        /\ off' = IF on THEN off \ {p} ELSE off \cup {p}
        /\ By(who, {p}, ~on)
    BY <1>2 DEF SetPluginEnabled
  <2>1. installed' \in [Plugin -> Package \cup {Nothing, Gone}]
    BY DEF Package, Installed
  <2> QED
    BY <1>2, <2>1, ByCommanded DEF SetPluginEnabled
<1>3. ASSUME NEW who \in Who, RemovePlugin(who) PROVE PluginsTypeInv'
  BY <1>3, ByCommanded DEF RemovePlugin
<1>4. ASSUME NEW who \in Who, SetPluginRestrictedMode(who) PROVE PluginsTypeInv'
  BY <1>4, ByCommanded DEF SetPluginRestrictedMode, SignedBy
<1>5. ASSUME NEW who \in Who, RevokePluginSigner(who) PROVE PluginsTypeInv'
  BY <1>5 DEF RevokePluginSigner, ToDisable, SignedBy, Revocation, Installed, Package
<1>6. ASSUME NEW who \in Who, RestorePluginSigner(who) PROVE PluginsTypeInv'
  BY <1>6, ByCommanded DEF RestorePluginSigner, SignedBy
<1>7. CASE DisableSigned
  <2> PICK p \in revoking.left :
        /\ installed' = [installed EXCEPT ![p].on = FALSE]
        /\ revoking' = [revoking EXCEPT !.left = @ \ {p}]
    BY <1>7 DEF DisableSigned
  <2>1. revoking \in Revocation /\ p \in Plugin /\ Installed(p)
    BY <1>7 DEF DisableSigned, Revocation, RevokingInv
  <2>2. installed' \in [Plugin -> Package \cup {Nothing, Gone}]
    BY <2>1 DEF Installed, Package
  <2>3. revoking' \in Revocation
    BY <2>1 DEF Revocation
  <2> QED
    BY <1>7, <2>2, <2>3 DEF DisableSigned
<1>8. CASE EndRevocation
  <2>1. unfinished' \subseteq Signer
    BY <1>8 DEF EndRevocation
  <2> QED
    BY <1>8, <2>1, ByCommanded DEF EndRevocation, SignedBy, Revocation, Who
<1>9. CASE TerminalDies
  BY <1>9 DEF TerminalDies, Revocation
<1>10. CASE OpenPlugins
  BY <1>10 DEF OpenPlugins, NoRefresh, Learnt
<1>11. ASSUME NEW r \in Refresh, List(r) PROVE PluginsTypeInv'
  <2> DEFINE want == [p \in Plugin |-> IF Effective(p) THEN installed[p].revision ELSE 0]
  <2>1. refresh[r] \in Learnt
    BY <1>11 DEF List, Reached
  <2>2. want \in [Plugin -> Nat]
    <3>1. ASSUME NEW p \in Plugin, Installed(p) PROVE installed[p].revision \in Nat
      BY <3>1 DEF Installed, Package
    <3> QED
      BY <3>1 DEF Effective
  <2> HIDE DEF want
  <2>3. [refresh[r] EXCEPT !.step = "fetch", !.want = want] \in Learnt
    BY <2>1, <2>2 DEF Learnt
  <2>4. refresh' = [refresh EXCEPT ![r] = [refresh[r] EXCEPT !.step = "fetch", !.want = want]]
    BY <1>11 DEF List, Proceed, want
  <2>5. refresh' \in [Refresh -> Learnt \cup {Nothing}]
    BY <2>3, <2>4
  <2> QED
    BY <1>11, <2>5 DEF List
<1>12. ASSUME NEW r \in Refresh, Fetch(r) PROVE PluginsTypeInv'
  BY <1>12 DEF Fetch, Proceed, Reached, Learnt, Wanted, Installed, Package
<1>13. ASSUME NEW r \in Refresh, RefreshFails(r) PROVE PluginsTypeInv'
  BY <1>13 DEF RefreshFails, Proceed
<1>14. ASSUME NEW r \in Refresh, StopUnwanted(r) PROVE PluginsTypeInv'
  <2>1. refresh[r] \in Learnt
    BY <1>14 DEF StopUnwanted, Reached
  <2>2. [refresh[r] EXCEPT !.step = "start"] \in Learnt
    BY <2>1 DEF Learnt
  <2>3. refresh' \in [Refresh -> Learnt \cup {Nothing}]
    BY <1>14, <2>2 DEF StopUnwanted, Proceed
  <2>4. running' \in [Plugin -> Entry \cup {Nothing}]
    BY <1>14 DEF StopUnwanted
  <2> QED
    BY <1>14, <2>3, <2>4 DEF StopUnwanted
<1>15. ASSUME NEW r \in Refresh, Authorize(r) PROVE PluginsTypeInv'
  <2> PICK p \in Wanted(r) :
        refresh' = [refresh EXCEPT ![r] =
          IF running[p] # Nothing
            THEN [refresh[r] EXCEPT !.want[p] = 0]
            ELSE [refresh[r] EXCEPT !.asked = p,
                    !.answer = IF LetsRun(p, refresh[r].want[p]) THEN session ELSE 0]]
    BY <1>15 DEF Authorize, Proceed
  <2>1. refresh[r] \in Learnt /\ p \in Plugin
    BY <1>15 DEF Authorize, Reached, Wanted
  <2>2. refresh'[r] \in Learnt
    BY <2>1 DEF Learnt
  <2> QED
    BY <1>15, <2>2 DEF Authorize
<1>16. ASSUME NEW r \in Refresh, Start(r) PROVE PluginsTypeInv'
  <2> DEFINE p == refresh[r].asked
             entry == [worker |-> refresh[r].answer > 0, revision |-> refresh[r].want[p],
                       source |-> refresh[r].source[p], session |-> refresh[r].answer]
  <2>1. refresh[r] \in Learnt /\ p \in Plugin
    BY <1>16 DEF Start, Reached, Learnt
  <2>2. entry \in Entry
    BY <2>1 DEF Learnt, Entry
  <2>3. [refresh[r] EXCEPT !.asked = Nothing, !.want[p] = 0] \in Learnt
    BY <2>1 DEF Learnt
  <2>4. running' \in [Plugin -> Entry \cup {Nothing}] /\ strays' \subseteq Plugin \X Entry
    BY <1>16, <2>1, <2>2 DEF Start
  <2> QED
    BY <1>16, <2>3, <2>4 DEF Start, Proceed
<1>17. ASSUME NEW r \in Refresh, EndRefresh(r) PROVE PluginsTypeInv'
  BY <1>17 DEF EndRefresh, Proceed, Reached, Learnt
<1>18. CASE PluginFails
  <2> PICK p \in Plugin : running[p] # Nothing /\ running' = [running EXCEPT ![p].worker = FALSE]
    BY <1>18 DEF PluginFails
  <2>1. running[p] \in Entry
    OBVIOUS
  <2>2. [running[p] EXCEPT !.worker = FALSE] \in Entry
    BY <2>1 DEF Entry
  <2>3. running' \in [Plugin -> Entry \cup {Nothing}]
    BY <2>2
  <2> QED
    BY <1>18, <2>3 DEF PluginFails
<1>19. CASE LockVault
  BY <1>19 DEF LockVault
<1>20. CASE UnlockVault
  BY <1>20 DEF UnlockVault
<1>21. CASE UNCHANGED pluginsVars
  BY <1>21 DEF pluginsVars
<1> QED
  BY <1>1, <1>2, <1>3, <1>4, <1>5, <1>6, <1>7, <1>8, <1>9, <1>10, <1>11, <1>12,
     <1>13, <1>14, <1>15, <1>16, <1>17, <1>18, <1>19, <1>20, <1>21 DEF PluginsNext
----------------------------------------------------------------------------
\* Only the commands and the steps of a revocation change what a revocation has before it.
LEMMA NextRevokingInv == PluginsTypeInv /\ RevokingInv /\ [PluginsNext]_pluginsVars => RevokingInv'
<1> SUFFICES ASSUME PluginsTypeInv, RevokingInv, [PluginsNext]_pluginsVars PROVE RevokingInv'
  OBVIOUS
<1> USE PluginsConstantsOK DEF PluginsTypeInv, RevokingInv, vault, host, Free
<1>1. ASSUME NEW who \in Who, InstallPlugin(who) PROVE RevokingInv'
  BY <1>1 DEF InstallPlugin, Installed, Package
<1>2. ASSUME NEW who \in Who, SetPluginEnabled(who) PROVE RevokingInv'
  BY <1>2 DEF SetPluginEnabled, Installed, Package
<1>3. ASSUME NEW who \in Who, RemovePlugin(who) PROVE RevokingInv'
  BY <1>3 DEF RemovePlugin, Installed
<1>4. ASSUME NEW who \in Who, SetPluginRestrictedMode(who) PROVE RevokingInv'
  BY <1>4 DEF SetPluginRestrictedMode, Installed
<1>5. ASSUME NEW who \in Who, RevokePluginSigner(who) PROVE RevokingInv'
  <2> PICK p \in Plugin :
        revoking' = [by |-> who, signer |-> installed[p].signer, left |-> ToDisable(p)]
    BY <1>5 DEF RevokePluginSigner
  <2>1. /\ revoking'.signer = installed[p].signer
        /\ revoking'.left = {q \in SignedBy(installed[p].signer) : installed[q].on}
    BY DEF ToDisable
  <2>2. UNCHANGED installed
    BY <1>5 DEF RevokePluginSigner
  <2> QED
    BY <2>1, <2>2 DEF SignedBy, Installed
<1>6. ASSUME NEW who \in Who, RestorePluginSigner(who) PROVE RevokingInv'
  BY <1>6 DEF RestorePluginSigner, Installed
<1>7. CASE DisableSigned
  <2> PICK p \in revoking.left :
        /\ installed' = [installed EXCEPT ![p].on = FALSE]
        /\ revoking' = [revoking EXCEPT !.left = @ \ {p}]
    BY <1>7 DEF DisableSigned
  <2>1. revoking \in Revocation /\ p \in Plugin /\ Installed(p) /\ UNCHANGED off
    BY <1>7 DEF DisableSigned, Revocation
  <2>2. revoking'.signer = revoking.signer /\ revoking'.left = revoking.left \ {p}
    BY <2>1 DEF Revocation
  <2>3. /\ \A q \in Plugin \ {p} : installed'[q] = installed[q]
        /\ installed'[p].on = FALSE /\ installed'[p] \in Package
        /\ installed'[p].signer = installed[p].signer
    BY <2>1 DEF Installed, Package
  <2> QED
    BY <1>7, <2>1, <2>2, <2>3 DEF DisableSigned, SignedBy, Installed, Revocation
<1>8. CASE EndRevocation
  BY <1>8 DEF EndRevocation, SignedBy, Installed
<1>9. CASE TerminalDies
  BY <1>9 DEF TerminalDies, Installed
<1>10. CASE UNCHANGED vault
  BY <1>10 DEF Installed, SignedBy
<1> HIDE DEF PluginsTypeInv, RevokingInv, vault, Free
<1>11. ASSUME NEW r \in Refresh,
              \/ List(r) \/ Fetch(r) \/ RefreshFails(r) \/ StopUnwanted(r)
              \/ Authorize(r) \/ Start(r) \/ EndRefresh(r)
       PROVE  UNCHANGED vault
  BY <1>11 DEF List, Fetch, RefreshFails, StopUnwanted, Authorize, Start, EndRefresh
<1>12. OpenPlugins \/ PluginFails \/ LockVault \/ UnlockVault \/ UNCHANGED pluginsVars => UNCHANGED vault
  BY DEF OpenPlugins, PluginFails, LockVault, UnlockVault, pluginsVars
<1> QED
  BY <1>1, <1>2, <1>3, <1>4, <1>5, <1>6, <1>7, <1>8, <1>9, <1>10, <1>11, <1>12 DEF PluginsNext

\* What is installed is only replaced by what is newer, or removed for good.
Evolves ==
  \A p \in Plugin :
    /\ installed[p] # Nothing => installed'[p] # Nothing
    /\ Installed(p)' /\ Installed(p) => installed[p].revision <= installed'[p].revision
    /\ Installed(p)' => installed[p] # Gone /\ installed'[p].revision > 0

\* Installing is guarded by the revision, and an ID that was removed is not reused.
LEMMA NextEvolves ==
  ASSUME PluginsTypeInv, RevokingInv, RevisionInv, [PluginsNext]_pluginsVars
  PROVE  Evolves
<1> USE PluginsConstantsOK DEF PluginsTypeInv, RevisionInv, Evolves, vault, Installed, Package
<1>1. ASSUME NEW who \in Who, InstallPlugin(who) PROVE Evolves
  <2> PICK p \in Plugin, k \in Signer \cup {Unsigned}, enable \in BOOLEAN :
        /\ MayReplace(p, k)
        /\ installed' = [installed EXCEPT ![p] =
             [signer |-> k, on |-> enable,
              revision |-> IF Installed(p) THEN installed[p].revision + 1 ELSE 1]]
    BY <1>1 DEF InstallPlugin
  <2>1. installed'[p] \in Package
    OBVIOUS
  <2> QED
    BY <2>1 DEF MayReplace
<1>2. ASSUME NEW who \in Who, SetPluginEnabled(who) PROVE Evolves
  BY <1>2 DEF SetPluginEnabled
<1>3. ASSUME NEW who \in Who, RemovePlugin(who) PROVE Evolves
  BY <1>3 DEF RemovePlugin
<1>4. CASE DisableSigned
  <2> PICK p \in revoking.left : installed' = [installed EXCEPT ![p].on = FALSE]
    BY <1>4 DEF DisableSigned
  <2>1. p \in Plugin /\ Installed(p)
    BY <1>4 DEF DisableSigned, RevokingInv, Revocation
  <2>2. /\ installed'[p] \notin {Nothing, Gone} /\ installed[p] \notin {Nothing, Gone}
        /\ installed'[p].revision = installed[p].revision
        /\ installed[p].revision \in Nat /\ installed[p].revision > 0
    <3>1. installed[p] \in Package /\ installed'[p] = [installed[p] EXCEPT !.on = FALSE]
      BY <2>1
    <3>2. /\ [installed[p] EXCEPT !.on = FALSE] \in Package
          /\ [installed[p] EXCEPT !.on = FALSE].revision = installed[p].revision
      BY <3>1 DEF Package
    <3>3. installed'[p] \in Package /\ installed'[p].revision = installed[p].revision
      BY <3>1, <3>2
    <3> QED
      BY <2>1, <3>1, <3>3
  <2>3. \A q \in Plugin \ {p} : installed'[q] = installed[q]
    BY <2>1
  <2> HIDE DEF Evolves
  <2>4. ASSUME NEW q \in Plugin
        PROVE  /\ installed[q] # Nothing => installed'[q] # Nothing
               /\ Installed(q)' /\ Installed(q) => installed[q].revision <= installed'[q].revision
               /\ Installed(q)' => installed[q] # Gone /\ installed'[q].revision > 0
    <3>1. CASE q = p
      BY <3>1, <2>2
    <3>2. CASE q # p
      BY <3>2, <2>3
    <3> QED
      BY <3>1, <3>2
  <2> QED
    BY <2>4 DEF Evolves
<1>5. CASE UNCHANGED installed
  BY <1>5
<1> HIDE DEF PluginsTypeInv, RevisionInv, Evolves
<1>6. ASSUME NEW who \in Who,
             SetPluginRestrictedMode(who) \/ RevokePluginSigner(who) \/ RestorePluginSigner(who)
      PROVE  UNCHANGED installed
  BY <1>6 DEF SetPluginRestrictedMode, RevokePluginSigner, RestorePluginSigner
<1>7. ASSUME NEW r \in Refresh,
             \/ List(r) \/ Fetch(r) \/ RefreshFails(r) \/ StopUnwanted(r)
             \/ Authorize(r) \/ Start(r) \/ EndRefresh(r)
      PROVE  UNCHANGED installed
  BY <1>7 DEF List, Fetch, RefreshFails, StopUnwanted, Authorize, Start, EndRefresh
<1>8. EndRevocation \/ TerminalDies => UNCHANGED installed
  BY DEF EndRevocation, TerminalDies
<1>9. OpenPlugins \/ PluginFails \/ LockVault \/ UnlockVault \/ UNCHANGED pluginsVars => UNCHANGED installed
  BY DEF OpenPlugins, PluginFails, LockVault, UnlockVault, pluginsVars
<1> HIDE DEF vault
<1> QED
  BY <1>1, <1>2, <1>3, <1>4, <1>5, <1>6, <1>7, <1>8, <1>9 DEF PluginsNext
----------------------------------------------------------------------------
\* What a refresh has learnt stays sound while the plugins change.
LEMMA SoundKept ==
  ASSUME PluginsTypeInv, PluginsTypeInv', Evolves, NEW c \in Learnt, Sound(c)
  PROVE  Sound(c)'
BY DEF PluginsTypeInv, Evolves, Sound, Installed, Learnt, Package

\* A command leaves every refresh sound.
LEMMA CommandedSound ==
  ASSUME PluginsTypeInv, PluginsTypeInv', RefreshInv, Evolves, Commanded
  PROVE  RefreshInv'
<1> SUFFICES ASSUME NEW r \in Refresh, refresh'[r] # Nothing
             PROVE  Sound(refresh[r])'
  BY DEF RefreshInv
<1> USE DEF PluginsTypeInv
<1>1. CASE UNCHANGED refresh[r]
  <2>1. refresh[r] \in Learnt /\ Sound(refresh[r])
    BY <1>1 DEF RefreshInv
  <2> QED
    BY <1>1, <2>1, SoundKept DEF Sound, Installed
<1>2. ASSUME NEW P \in SUBSET Plugin, refresh'[r] = [NoRefresh EXCEPT !.off = P]
      PROVE  Sound(refresh[r])'
  BY <1>2 DEF NoRefresh, Sound
<1>3. ASSUME refresh[r] # Nothing,
             NEW P \in SUBSET Plugin, refresh'[r] = [refresh[r] EXCEPT !.off = @ \ P]
      PROVE  Sound(refresh[r])'
  <2>1. refresh[r] \in Learnt /\ Sound(refresh[r])
    BY <1>3 DEF RefreshInv
  <2>2. Sound([refresh[r] EXCEPT !.off = @ \ P])
    BY <2>1 DEF Sound, Learnt
  <2>3. [refresh[r] EXCEPT !.off = @ \ P] \in Learnt
    BY <2>1 DEF Learnt
  <2> QED
    BY <1>3, <2>2, <2>3, SoundKept DEF Sound, Installed
<1> QED
  BY <1>1, <1>2, <1>3 DEF Commanded

\* A step of a refresh that leaves the vault alone concerns that refresh only.
LEMMA ProceedSound ==
  ASSUME PluginsTypeInv, PluginsTypeInv', RefreshInv, UNCHANGED installed,
         NEW r \in Refresh, NEW c, c = Nothing \/ Sound(c), Proceed(r, c)
  PROVE  RefreshInv'
<1>1. refresh' = [refresh EXCEPT ![r] = c]
  BY DEF Proceed
<1>2. ASSUME NEW q \in Refresh, refresh'[q] # Nothing PROVE Sound(refresh'[q])
  <2>1. CASE q = r
    <3>1. refresh'[q] = c
      BY <1>1, <2>1 DEF PluginsTypeInv
    <3> QED
      BY <1>2, <3>1
  <2>2. CASE q # r
    <3>1. refresh'[q] = refresh[q]
      BY <1>1, <2>2 DEF PluginsTypeInv
    <3> QED
      BY <1>2, <3>1 DEF RefreshInv
  <2> QED
    BY <2>1, <2>2
<1> QED
  <2> SUFFICES ASSUME NEW q \in Refresh, refresh'[q] # Nothing PROVE Sound(refresh[q])'
    BY DEF RefreshInv
  <2>1. Sound(refresh'[q])
    BY <1>2
  <2> QED
    BY <2>1 DEF Sound, Installed

\* Every refresh stays sound, whatever the terminal does between its steps.
LEMMA NextRefreshInv ==
  ASSUME PluginsTypeInv, PluginsTypeInv', RevokingInv, RevisionInv, RefreshInv, [PluginsNext]_pluginsVars
  PROVE  RefreshInv'
<1>e. Evolves
  BY NextEvolves
<1> USE <1>e DEF vault, host
<1>1. ASSUME NEW who \in Who, InstallPlugin(who) PROVE RefreshInv'
  BY <1>1, ByCommanded, CommandedSound DEF InstallPlugin
<1>2. ASSUME NEW who \in Who, SetPluginEnabled(who) PROVE RefreshInv'
  BY <1>2, ByCommanded, CommandedSound DEF SetPluginEnabled
<1>3. ASSUME NEW who \in Who, RemovePlugin(who) PROVE RefreshInv'
  BY <1>3, ByCommanded, CommandedSound DEF RemovePlugin
<1>4. ASSUME NEW who \in Who, SetPluginRestrictedMode(who) PROVE RefreshInv'
  BY <1>4, ByCommanded, CommandedSound DEF SetPluginRestrictedMode, SignedBy, PluginsTypeInv
<1>5. ASSUME NEW who \in Who, RestorePluginSigner(who) PROVE RefreshInv'
  BY <1>5, ByCommanded, CommandedSound DEF RestorePluginSigner, SignedBy
<1>6. CASE EndRevocation
  BY <1>6, ByCommanded, CommandedSound DEF EndRevocation, SignedBy, Who
<1>7. CASE OpenPlugins
  <2> PICK r \in Refresh : refresh' = [refresh EXCEPT ![r] = NoRefresh]
    BY <1>7 DEF OpenPlugins
  <2>1. Sound(NoRefresh)
    BY DEF Sound, NoRefresh
  <2> QED
    BY <1>7, <2>1, ProceedSound DEF OpenPlugins, Proceed
<1>8. CASE UNCHANGED refresh
  BY <1>8, CommandedSound DEF Commanded
<1>9. ASSUME NEW r \in Refresh, List(r) PROVE RefreshInv'
  <2> DEFINE c == [refresh[r] EXCEPT !.step = "fetch",
        !.want = [p \in Plugin |-> IF Effective(p) THEN installed[p].revision ELSE 0]]
  <2>1. refresh[r] \in Learnt /\ Sound(refresh[r]) /\ refresh[r].step = "list"
    BY <1>9 DEF List, Reached, PluginsTypeInv, RefreshInv
  <2>2. Sound(c)
    BY <2>1 DEF Sound, Learnt, PluginsTypeInv, Effective, Installed, Package
  <2> HIDE DEF c
  <2> QED
    BY <1>9, <2>2, ProceedSound DEF List, c
<1>10. ASSUME NEW r \in Refresh, Fetch(r) PROVE RefreshInv'
  <2> PICK p \in Wanted(r) :
        /\ Installed(p)
        /\ Proceed(r, [refresh[r] EXCEPT !.source[p] = installed[p].revision])
    BY <1>10 DEF Fetch
  <2>1. refresh[r] \in Learnt /\ Sound(refresh[r]) /\ refresh[r].step = "fetch" /\ p \in Plugin
    BY <1>10 DEF Fetch, Reached, PluginsTypeInv, RefreshInv, Wanted
  <2>2. Sound([refresh[r] EXCEPT !.source[p] = installed[p].revision])
    BY <2>1 DEF Sound, Learnt, PluginsTypeInv, Installed, Package, Wanted
  <2> QED
    BY <1>10, <2>2, ProceedSound DEF Fetch
<1>11. ASSUME NEW r \in Refresh, RefreshFails(r) \/ EndRefresh(r) PROVE RefreshInv'
  BY <1>11, ProceedSound DEF RefreshFails, EndRefresh
<1>12. ASSUME NEW r \in Refresh, StopUnwanted(r) PROVE RefreshInv'
  <2>1. refresh[r] \in Learnt /\ Sound(refresh[r]) /\ refresh[r].step = "fetch"
    BY <1>12 DEF StopUnwanted, Reached, PluginsTypeInv, RefreshInv
  <2>2. Sound([refresh[r] EXCEPT !.step = "start"])
    BY <1>12, <2>1 DEF Sound, Learnt, StopUnwanted, Wanted
  <2> QED
    BY <1>12, <2>2, ProceedSound DEF StopUnwanted
<1>13. ASSUME NEW r \in Refresh, Authorize(r) PROVE RefreshInv'
  <2> DEFINE passed(p) == [refresh[r] EXCEPT !.want[p] = 0]
             asking(p) == [refresh[r] EXCEPT !.asked = p,
                 !.answer = IF LetsRun(p, refresh[r].want[p]) THEN session ELSE 0]
  <2> PICK p \in Wanted(r) : Proceed(r, IF running[p] # Nothing THEN passed(p) ELSE asking(p))
    BY <1>13 DEF Authorize
  <2>1. /\ refresh[r] \in Learnt /\ Sound(refresh[r]) /\ refresh[r].step = "start"
        /\ refresh[r].asked = Nothing /\ p \in Plugin /\ refresh[r].want[p] > 0
    BY <1>13 DEF Authorize, Reached, PluginsTypeInv, RefreshInv, Wanted
  <2>2. Sound(passed(p))
    BY <2>1 DEF Sound, Learnt
  <2>3. LetsRun(p, refresh[r].want[p]) => refresh[r].want[p] = refresh[r].source[p]
    <3> SUFFICES ASSUME LetsRun(p, refresh[r].want[p])
                 PROVE  refresh[r].want[p] = refresh[r].source[p]
      OBVIOUS
    <3>1. Installed(p) /\ installed[p].revision = refresh[r].want[p]
      BY DEF LetsRun, Effective
    <3>2. refresh[r].source[p] > 0 /\ refresh[r].want[p] \in Nat /\ refresh[r].source[p] \in Nat
      BY <2>1 DEF Sound, Learnt
    <3> QED
      BY <2>1, <3>1, <3>2 DEF Sound
  <2>4. Sound(asking(p))
    BY <2>1, <2>3 DEF Sound, Learnt, PluginsTypeInv
  <2> HIDE DEF passed, asking
  <2> QED
    BY <1>13, <2>2, <2>4, ProceedSound DEF Authorize
<1>14. ASSUME NEW r \in Refresh, Start(r) PROVE RefreshInv'
  <2>1. /\ refresh[r] \in Learnt /\ Sound(refresh[r]) /\ refresh[r].step = "start"
        /\ refresh[r].asked \in Plugin
    BY <1>14 DEF Start, Reached, PluginsTypeInv, RefreshInv, Learnt
  <2> DEFINE c == [refresh[r] EXCEPT !.asked = Nothing, !.want[refresh[r].asked] = 0]
  <2>a. /\ c.step = "start" /\ c.asked = Nothing /\ c.source = refresh[r].source
        /\ c.want = [refresh[r].want EXCEPT ![refresh[r].asked] = 0]
    BY <2>1 DEF Learnt
  <2>b. /\ refresh[r].want \in [Plugin -> Nat]
        /\ \A p \in Plugin : c.want[p] > 0 => c.want[p] = refresh[r].want[p]
    BY <2>1, <2>a DEF Learnt
  <2> HIDE DEF c
  <2>2. Sound(c)
    <3>1. ASSUME NEW p \in Plugin, c.want[p] > 0
          PROVE  /\ c.source[p] > 0 /\ installed[p] # Nothing
                 /\ Installed(p) => /\ c.want[p] <= installed[p].revision
                                    /\ c.source[p] <= installed[p].revision
                 /\ c.source[p] > 0 => c.want[p] <= c.source[p]
      <4>1. /\ c.want[p] = refresh[r].want[p] /\ c.source[p] = refresh[r].source[p]
            /\ refresh[r].want[p] > 0
        BY <2>a, <2>b, <3>1
      <4>2. /\ refresh[r].source[p] > 0 /\ installed[p] # Nothing
            /\ Installed(p) => /\ refresh[r].want[p] <= installed[p].revision
                               /\ refresh[r].source[p] <= installed[p].revision
            /\ refresh[r].source[p] > 0 => refresh[r].want[p] <= refresh[r].source[p]
        BY <2>1, <4>1 DEF Sound
      <4> QED
        BY <4>1, <4>2
    <3> QED
      BY <2>a, <3>1 DEF Sound
  <2> USE DEF c
  <2> QED
    BY <1>14, <2>2, ProceedSound DEF Start
<1> QED
  BY <1>1, <1>2, <1>3, <1>4, <1>5, <1>6, <1>7, <1>8, <1>9, <1>10, <1>11, <1>12, <1>13, <1>14
  DEF PluginsNext, RevokePluginSigner, DisableSigned, TerminalDies, PluginFails, LockVault,
      UnlockVault, pluginsVars
----------------------------------------------------------------------------
\* Only a start puts a worker in the table, with what its refresh has learnt.
LEMMA NextWorkersInv ==
  ASSUME PluginsTypeInv, RefreshInv, WorkersInv, [PluginsNext]_pluginsVars
  PROVE  WorkersInv'
<1> USE DEF PluginsTypeInv, WorkersInv, Runs, vault, host
<1>1. ASSUME NEW r \in Refresh, StopUnwanted(r) PROVE WorkersInv'
  BY <1>1 DEF StopUnwanted
<1>2. ASSUME NEW r \in Refresh, Start(r) PROVE WorkersInv'
  <2> DEFINE p == refresh[r].asked
             entry == [worker |-> refresh[r].answer > 0, revision |-> refresh[r].want[p],
                       source |-> refresh[r].source[p], session |-> refresh[r].answer]
  <2>1. refresh[r] \in Learnt /\ Sound(refresh[r]) /\ p # Nothing /\ p \in Plugin
    BY <1>2 DEF Start, Reached, RefreshInv, Learnt
  <2>2. entry.worker => entry.revision = entry.source
    BY <2>1 DEF Sound
  <2>3. /\ running' = [running EXCEPT ![p] = entry]
        /\ strays' = IF Runs(p) THEN strays \cup {<<p, running[p]>>} ELSE strays
    BY <1>2 DEF Start
  <2> HIDE DEF p, entry
  <2> QED
    BY <2>1, <2>2, <2>3
<1>3. CASE PluginFails
  <2> PICK p \in Plugin : running[p] # Nothing /\ running' = [running EXCEPT ![p].worker = FALSE]
    BY <1>3 DEF PluginFails
  <2>1. ~running'[p].worker /\ \A q \in Plugin \ {p} : running'[q] = running[q]
    BY DEF Entry
  <2>2. UNCHANGED strays
    BY <1>3 DEF PluginFails
  <2> QED
    BY <2>1, <2>2
<1>4. CASE LockVault
  BY <1>4 DEF LockVault
<1>5. CASE UNCHANGED host
  <2>1. UNCHANGED <<running, strays>>
    BY <1>5
  <2> QED
    BY <2>1
<1> HIDE DEF PluginsTypeInv, WorkersInv, Runs, vault, host
<1>6. ASSUME NEW who \in Who,
             \/ InstallPlugin(who) \/ SetPluginEnabled(who) \/ RemovePlugin(who)
             \/ SetPluginRestrictedMode(who) \/ RevokePluginSigner(who) \/ RestorePluginSigner(who)
      PROVE  UNCHANGED host
  BY <1>6 DEF InstallPlugin, SetPluginEnabled, RemovePlugin, SetPluginRestrictedMode,
              RevokePluginSigner, RestorePluginSigner
<1>7. DisableSigned \/ EndRevocation \/ TerminalDies \/ OpenPlugins => UNCHANGED host
  BY DEF DisableSigned, EndRevocation, TerminalDies, OpenPlugins
<1>8. ASSUME NEW r \in Refresh, List(r) \/ Fetch(r) \/ RefreshFails(r) \/ Authorize(r) \/ EndRefresh(r)
      PROVE  UNCHANGED host
  BY <1>8 DEF List, Fetch, RefreshFails, Authorize, EndRefresh
<1>9. UnlockVault \/ UNCHANGED pluginsVars => UNCHANGED host
  BY DEF UnlockVault, pluginsVars
<1> QED
  BY <1>1, <1>2, <1>3, <1>4, <1>5, <1>6, <1>7, <1>8, <1>9 DEF PluginsNext

\* A vault without plugins.
LEMMA InitPluginsInv == PluginsInit => PluginsInv
<1> SUFFICES ASSUME PluginsInit PROVE PluginsInv
  OBVIOUS
<1>1. PluginsTypeInv
  BY DEF PluginsInit, PluginsTypeInv
<1>2. RevisionInv /\ RevokingInv /\ RefreshInv /\ WorkersInv
  BY DEF PluginsInit, RevisionInv, RevokingInv, RefreshInv, WorkersInv, Runs, Installed
<1> QED
  BY <1>1, <1>2 DEF PluginsInv

\* The invariant is inductive, for any number of refreshes.
LEMMA NextPluginsInv == PluginsInv /\ [PluginsNext]_pluginsVars => PluginsInv'
<1> SUFFICES ASSUME PluginsInv, [PluginsNext]_pluginsVars PROVE PluginsInv'
  OBVIOUS
<1>1. PluginsTypeInv'
  BY NextPluginsTypeInv DEF PluginsInv
<1>2. RevisionInv'
  BY NextEvolves DEF PluginsInv, Evolves, RevisionInv
<1>3. RevokingInv' /\ WorkersInv'
  BY NextRevokingInv, NextWorkersInv DEF PluginsInv
<1>4. RefreshInv'
  BY <1>1, NextRefreshInv DEF PluginsInv
<1> QED
  BY <1>1, <1>2, <1>3, <1>4 DEF PluginsInv

\* The types of the plugins, the host and the refreshes, for any number of each.
THEOREM PluginsTypeSafety == PluginsSpec => []PluginsTypeInv
<1>1. PluginsInv => PluginsTypeInv
  BY DEF PluginsInv
<1> QED
  BY <1>1, InitPluginsInv, NextPluginsInv, PTL DEF PluginsSpec

\* A revocation that ends has turned off every plugin of its signer.
LEMMA NextCutOffInv ==
  ASSUME PluginsInv, CutOffInv, [PluginsNext]_pluginsVars PROVE CutOffInv'
<1> USE PluginsConstantsOK DEF PluginsInv, PluginsTypeInv, CutOffInv, Installed, Package, Free
<1>1. ASSUME NEW who \in Who, InstallPlugin(who) PROVE CutOffInv'
  <2> PICK p \in Plugin, k \in Signer \cup {Unsigned}, enable \in BOOLEAN :
        /\ PluginAllowed(k)
        /\ installed' = [installed EXCEPT ![p] =
             [signer |-> k, on |-> enable,
              revision |-> IF Installed(p) THEN installed[p].revision + 1 ELSE 1]]
    BY <1>1 DEF InstallPlugin
  <2>1. installed'[p].signer = k /\ \A q \in Plugin \ {p} : installed'[q] = installed[q]
    OBVIOUS
  <2>2. UNCHANGED <<revoked, unfinished, revoking>>
    BY <1>1 DEF InstallPlugin
  <2> QED
    BY <2>1, <2>2 DEF PluginAllowed
<1>2. ASSUME NEW who \in Who, SetPluginEnabled(who) PROVE CutOffInv'
  <2> PICK p \in Plugin, on \in BOOLEAN :
        /\ Installed(p) /\ (on => PluginAllowed(installed[p].signer))
        /\ installed' = [installed EXCEPT ![p].on = on]
    BY <1>2 DEF SetPluginEnabled
  <2>1. /\ installed'[p].on = on /\ installed'[p].signer = installed[p].signer
        /\ \A q \in Plugin \ {p} : installed'[q] = installed[q]
    OBVIOUS
  <2>2. UNCHANGED <<revoked, unfinished, revoking>>
    BY <1>2 DEF SetPluginEnabled
  <2> QED
    BY <2>1, <2>2 DEF PluginAllowed
<1>3. ASSUME NEW who \in Who, RemovePlugin(who) PROVE CutOffInv'
  BY <1>3 DEF RemovePlugin
<1>4. ASSUME NEW who \in Who, SetPluginRestrictedMode(who) PROVE CutOffInv'
  BY <1>4 DEF SetPluginRestrictedMode
<1>5. ASSUME NEW who \in Who, RevokePluginSigner(who) PROVE CutOffInv'
  <2> PICK p \in Plugin :
        /\ Installed(p) /\ installed[p].signer # Unsigned
        /\ revoked' = revoked \cup {installed[p].signer}
        /\ revoking' = [by |-> who, signer |-> installed[p].signer, left |-> ToDisable(p)]
    BY <1>5 DEF RevokePluginSigner
  <2>1. /\ UNCHANGED <<installed, unfinished>> /\ revoking = Nothing
        /\ revoking'.signer = installed[p].signer /\ revoking' # Nothing
    <3>1. UNCHANGED <<installed, unfinished>> /\ revoking = Nothing
      BY <1>5 DEF RevokePluginSigner
    <3>2. installed[p].signer \in Signer /\ ToDisable(p) \in SUBSET Plugin
      BY DEF ToDisable, SignedBy
    <3>3. revoking' \in Revocation
      BY <3>2 DEF Revocation
    <3> QED
      BY <3>1, <3>3
  <2> QED
    BY <2>1
<1>6. ASSUME NEW who \in Who, RestorePluginSigner(who) PROVE CutOffInv'
  <2> PICK k \in revoked : revoked' = revoked \ {k} /\ unfinished' = unfinished \ {k}
    BY <1>6 DEF RestorePluginSigner
  <2>1. UNCHANGED <<installed, revoking>>
    BY <1>6 DEF RestorePluginSigner
  <2> QED
    BY <2>1
<1>7. CASE DisableSigned
  <2> PICK p \in revoking.left :
        /\ installed' = [installed EXCEPT ![p].on = FALSE]
        /\ revoking' = [revoking EXCEPT !.left = @ \ {p}]
    BY <1>7 DEF DisableSigned
  <2>1. revoking \in Revocation /\ p \in Plugin /\ Installed(p)
    BY <1>7 DEF DisableSigned, RevokingInv, Revocation
  <2>2. revoking'.signer = revoking.signer /\ revoking' # Nothing
    <3>1. revoking' \in Revocation /\ revoking'.signer = revoking.signer
      BY <2>1 DEF Revocation
    <3> QED
      BY <3>1
  <2>3. installed'[p].on = FALSE /\ \A q \in Plugin \ {p} : installed'[q] = installed[q]
    BY <2>1
  <2>4. UNCHANGED <<unfinished, revoked>>
    BY <1>7 DEF DisableSigned
  <2> QED
    BY <2>2, <2>3, <2>4
<1>8. CASE EndRevocation
  <2>1. \A p \in Plugin : Installed(p) /\ installed[p].on => installed[p].signer # revoking.signer
    BY <1>8 DEF EndRevocation, RevokingInv, SignedBy
  <2> QED
    BY <1>8, <2>1 DEF EndRevocation
<1>9. CASE TerminalDies
  BY <1>9 DEF TerminalDies
<1>10. CASE UNCHANGED vault
  BY <1>10 DEF vault
<1> HIDE DEF PluginsInv, PluginsTypeInv, CutOffInv
<1>11. ASSUME NEW r \in Refresh,
              \/ List(r) \/ Fetch(r) \/ RefreshFails(r) \/ StopUnwanted(r)
              \/ Authorize(r) \/ Start(r) \/ EndRefresh(r)
       PROVE  UNCHANGED vault
  BY <1>11 DEF List, Fetch, RefreshFails, StopUnwanted, Authorize, Start, EndRefresh
<1>12. OpenPlugins \/ PluginFails \/ LockVault \/ UnlockVault \/ UNCHANGED pluginsVars => UNCHANGED vault
  BY DEF OpenPlugins, PluginFails, LockVault, UnlockVault, pluginsVars
<1> QED
  BY <1>1, <1>2, <1>3, <1>4, <1>5, <1>6, <1>7, <1>8, <1>9, <1>10, <1>11, <1>12 DEF PluginsNext

\* A plugin that was turned off and is still marked on is one whose signer the policy names.
LEMMA NextOffInv ==
  ASSUME NoCutOffRestored, PluginsInv, CutOffInv, OffInv, [PluginsNext]_pluginsVars PROVE OffInv'
<1> USE PluginsConstantsOK DEF PluginsInv, PluginsTypeInv, OffInv, Installed, Package
<1>1. ASSUME NEW who \in Who, InstallPlugin(who) PROVE OffInv'
  <2> PICK p \in Plugin, k \in Signer \cup {Unsigned}, enable \in BOOLEAN :
        /\ installed' = [installed EXCEPT ![p] =
             [signer |-> k, on |-> enable,
              revision |-> IF Installed(p) THEN installed[p].revision + 1 ELSE 1]]
        /\ off' = IF enable THEN off \ {p} ELSE off \cup {p}
    BY <1>1 DEF InstallPlugin
  <2>1. installed'[p].on = enable /\ \A q \in Plugin \ {p} : installed'[q] = installed[q]
    OBVIOUS
  <2>2. UNCHANGED revoked
    BY <1>1 DEF InstallPlugin
  <2> QED
    BY <2>1, <2>2
<1>2. ASSUME NEW who \in Who, SetPluginEnabled(who) PROVE OffInv'
  <2> PICK p \in Plugin, on \in BOOLEAN :
        /\ Installed(p) /\ installed' = [installed EXCEPT ![p].on = on]
        /\ off' = IF on THEN off \ {p} ELSE off \cup {p}
    BY <1>2 DEF SetPluginEnabled
  <2>1. installed'[p].on = on /\ \A q \in Plugin \ {p} : installed'[q] = installed[q]
    OBVIOUS
  <2>2. UNCHANGED revoked
    BY <1>2 DEF SetPluginEnabled
  <2> QED
    BY <2>1, <2>2
<1>3. ASSUME NEW who \in Who, RemovePlugin(who) PROVE OffInv'
  BY <1>3 DEF RemovePlugin
<1>4. ASSUME NEW who \in Who, SetPluginRestrictedMode(who) PROVE OffInv'
  BY <1>4 DEF SetPluginRestrictedMode
<1>5. ASSUME NEW who \in Who, RevokePluginSigner(who) PROVE OffInv'
  <2> PICK p \in Plugin : /\ revoked' = revoked \cup {installed[p].signer}
                          /\ off' = off \cup SignedBy(installed[p].signer)
    BY <1>5 DEF RevokePluginSigner
  <2>1. UNCHANGED installed
    BY <1>5 DEF RevokePluginSigner
  <2> QED
    BY <2>1 DEF SignedBy
<1>6. ASSUME NEW who \in Who, RestorePluginSigner(who) PROVE OffInv'
  <2> PICK k \in revoked :
        /\ revoked' = revoked \ {k}
        /\ k \in unfinished => \A p \in SignedBy(k) : ~installed[p].on
    BY <1>6 DEF RestorePluginSigner, NoCutOffRestored
  <2>1. UNCHANGED <<installed, off>> /\ revoking = Nothing
    BY <1>6 DEF RestorePluginSigner, Free
  <2>2. \A p \in SignedBy(k) : ~installed[p].on
    BY <2>1 DEF SignedBy, CutOffInv
  <2> QED
    BY <2>1, <2>2 DEF SignedBy
<1>7. CASE DisableSigned
  <2> PICK p \in revoking.left : installed' = [installed EXCEPT ![p].on = FALSE]
    BY <1>7 DEF DisableSigned
  <2>1. p \in Plugin /\ Installed(p)
    BY <1>7 DEF DisableSigned, RevokingInv, Revocation
  <2>2. installed'[p].on = FALSE /\ \A q \in Plugin \ {p} : installed'[q] = installed[q]
    BY <2>1
  <2>3. UNCHANGED <<off, revoked>>
    BY <1>7 DEF DisableSigned
  <2> QED
    BY <2>2, <2>3
<1>8. CASE EndRevocation \/ TerminalDies
  BY <1>8 DEF EndRevocation, TerminalDies
<1>9. CASE UNCHANGED vault
  BY <1>9 DEF vault
<1> HIDE DEF PluginsInv, PluginsTypeInv, OffInv
<1>10. ASSUME NEW r \in Refresh,
              \/ List(r) \/ Fetch(r) \/ RefreshFails(r) \/ StopUnwanted(r)
              \/ Authorize(r) \/ Start(r) \/ EndRefresh(r)
       PROVE  UNCHANGED vault
  BY <1>10 DEF List, Fetch, RefreshFails, StopUnwanted, Authorize, Start, EndRefresh
<1>11. OpenPlugins \/ PluginFails \/ LockVault \/ UnlockVault \/ UNCHANGED pluginsVars => UNCHANGED vault
  BY DEF OpenPlugins, PluginFails, LockVault, UnlockVault, pluginsVars
<1> QED
  BY <1>1, <1>2, <1>3, <1>4, <1>5, <1>6, <1>7, <1>8, <1>9, <1>10, <1>11 DEF PluginsNext

\* A plugin that was turned off, or whose signer was revoked, stays off until the owner
\* turns it on, whoever commands and wherever a terminal is killed, provided nobody restores
\* a signer whose revocation was cut off.
THEOREM PluginsStayOff == NoCutOffRestored /\ PluginsSpec => []StaysOff
<1>1. NoCutOffRestored /\ PluginsInit => PluginsInv /\ CutOffInv /\ OffInv
  BY InitPluginsInv DEF PluginsInit, OffInv, CutOffInv, Installed
<1>2. NoCutOffRestored /\ PluginsInv /\ CutOffInv /\ OffInv /\ [PluginsNext]_pluginsVars
        => (PluginsInv /\ CutOffInv /\ OffInv)'
  BY NextPluginsInv, NextCutOffInv, NextOffInv
<1>3. PluginsInv /\ CutOffInv /\ OffInv => StaysOff
  BY DEF OffInv, StaysOff, Effective, PluginAllowed
<1>4. NoCutOffRestored => []NoCutOffRestored
  <2>1. NoCutOffRestored => NoCutOffRestored'
    BY DEF NoCutOffRestored
  <2> QED
    BY <2>1, PTL
<1> QED
  BY <1>1, <1>2, <1>3, <1>4, PTL DEF PluginsSpec

\* A worker that can reach the vault runs the source of the installed revision,
\* however many refreshes overlap with the commands of a terminal.
THEOREM PluginsRunInstalledCode == PluginsSpec => []OnlyInstalledCode
<1>1. PluginsInv => OnlyInstalledCode
  <2> SUFFICES ASSUME PluginsInv, NEW w \in Workers, Serves(w[1], w[2])
               PROVE  installed[w[1]].revision = w[2].source
    BY DEF OnlyInstalledCode
  <2>1. w[2].revision = w[2].source
    <3>1. CASE w \in strays
      BY <3>1 DEF PluginsInv, WorkersInv
    <3>2. ASSUME NEW p \in Plugin, Runs(p), w = <<p, running[p]>> PROVE w[2].revision = w[2].source
      BY <3>2 DEF PluginsInv, WorkersInv
    <3> QED
      BY <3>1, <3>2 DEF Workers, Runs
  <2> QED
    BY <2>1 DEF Serves, LetsRun
<1> QED
  BY <1>1, InitPluginsInv, NextPluginsInv, PTL DEF PluginsSpec
----------------------------------------------------------------------------
\* What the app knows stays right while no plugin is turned on.
LEMMA NothingStarts ==
  ASSUME PluginsTypeInv, StopInv, UNCHANGED <<host, refresh, stopped>>,
         \A p \in Plugin : Effective(p)' => Effective(p)
  PROVE  StopInv'
BY DEF PluginsTypeInv, StopInv, Learnt, Runs, host

\* A command that stops P leaves no plugin of P a way to run; one that starts P
\* gives none but P a way to.
LEMMA CommandStops ==
  ASSUME PluginsTypeInv, OneRefresh, StopInv, UNCHANGED host,
         NEW who \in Who, NEW P \in SUBSET Plugin, NEW stops \in BOOLEAN,
         By(who, P, stops) \/ Refreshing(P, stops),
         stops => \A p \in P : ~Effective(p)',
         \A p \in Plugin : Effective(p)' => Effective(p) \/ (~stops /\ p \in P)
  PROVE  StopInv'
<1> USE DEF PluginsTypeInv, Runs, host
<1>1. CASE AppUntouched /\ stops
  BY <1>1, NothingStarts DEF AppUntouched
<1>2. CASE TurnedOn(P) /\ ~stops
  <2>1. stopped' = stopped \ P
    BY <1>2 DEF TurnedOn
  <2>2. ASSUME NEW r \in Refresh, refresh'[r] # Nothing
        PROVE  /\ refresh[r] # Nothing /\ refresh[r] \in Learnt
               /\ refresh'[r] = [refresh[r] EXCEPT !.off = @ \ P]
    BY <1>2, <2>2 DEF TurnedOn
  <2>3. \A p \in stopped' : ~Effective(p)' /\ ~Runs(p)
    BY <1>2, <2>1 DEF StopInv
  <2>4. ASSUME NEW r \in Refresh, refresh'[r] # Nothing
        PROVE  /\ \A p \in refresh'[r].off : ~Effective(p)'
               /\ \A p \in refresh'[r].off \cup stopped' : refresh'[r].want[p] = 0
               /\ refresh'[r].step = "start" => \A p \in refresh'[r].off : ~Runs(p)
               /\ refresh'[r].asked # Nothing => running[refresh'[r].asked] = Nothing
    <3>1. /\ refresh'[r].off = refresh[r].off \ P /\ refresh[r].off \subseteq Plugin
          /\ refresh'[r].want = refresh[r].want /\ refresh'[r].step = refresh[r].step
          /\ refresh'[r].asked = refresh[r].asked /\ refresh[r] # Nothing
      BY <2>2, <2>4 DEF Learnt
    <3> QED
      BY <1>2, <2>1, <3>1 DEF StopInv
  <2> QED
    BY <2>3, <2>4 DEF StopInv
<1>3. CASE Refreshing(P, stops)
  <2> PICK r \in Refresh :
        /\ refresh[r] = Nothing
        /\ refresh' = [x \in Refresh |->
             IF x = r THEN [NoRefresh EXCEPT !.off = IF stops THEN P ELSE {}]
             ELSE IF refresh[x] = Nothing THEN Nothing
             ELSE IF stops THEN refresh[x]
             ELSE [refresh[x] EXCEPT !.off = @ \ P]]
        /\ stopped' = IF stops THEN stopped ELSE stopped \ P
    BY <1>3 DEF Refreshing
  <2>1. \A s \in Refresh : s = r
    BY DEF OneRefresh
  <2>2. refresh'[r] = [NoRefresh EXCEPT !.off = IF stops THEN P ELSE {}]
    OBVIOUS
  <2> QED
    BY <2>1, <2>2 DEF StopInv, NoRefresh
<1> QED
  BY <1>1, <1>2, <1>3 DEF By, ByTerminal, AppUntouched

\* Each step of the one refresh keeps its promise about what was turned off.
LEMMA NextStopInv ==
  ASSUME OneRefresh, PluginsInv, PluginsInv', StopInv, [PluginsNext]_pluginsVars
  PROVE  StopInv'
<1> USE PluginsConstantsOK DEF PluginsTypeInv, PluginsInv, vault, host
<1>1. ASSUME NEW who \in Who, InstallPlugin(who) PROVE StopInv'
  <2> PICK p \in Plugin, k \in Signer \cup {Unsigned}, enable \in BOOLEAN :
        /\ installed' = [installed EXCEPT ![p] =
             [signer |-> k, on |-> enable,
              revision |-> IF Installed(p) THEN installed[p].revision + 1 ELSE 1]]
        /\ By(who, {p}, ~enable)
    BY <1>1 DEF InstallPlugin
  <2>1. installed'[p].on = enable /\ \A q \in Plugin \ {p} : installed'[q] = installed[q]
    OBVIOUS
  <2>2. UNCHANGED <<restricted, revoked, host>>
    BY <1>1 DEF InstallPlugin
  <2>3. \A q \in Plugin \ {p} : Effective(q)' => Effective(q)
    BY <2>1, <2>2 DEF Effective, Installed, PluginAllowed
  <2>4. ~enable => ~Effective(p)'
    BY <2>1 DEF Effective
  <2> DEFINE stops == ~enable
  <2>5. stops \in BOOLEAN /\ By(who, {p}, stops) /\ (enable <=> ~stops)
    OBVIOUS
  <2> HIDE DEF stops
  <2> QED
    BY <2>2, <2>3, <2>4, <2>5, CommandStops
<1>2. ASSUME NEW who \in Who, SetPluginEnabled(who) PROVE StopInv'
  <2> PICK p \in Plugin, on \in BOOLEAN :
        installed' = [installed EXCEPT ![p].on = on] /\ Installed(p) /\ By(who, {p}, ~on)
    BY <1>2 DEF SetPluginEnabled
  <2>1. installed'[p].on = on /\ \A q \in Plugin \ {p} : installed'[q] = installed[q]
    BY DEF Installed, Package
  <2>2. UNCHANGED <<restricted, revoked, host>>
    BY <1>2 DEF SetPluginEnabled
  <2>3. \A q \in Plugin \ {p} : Effective(q)' => Effective(q)
    BY <2>1, <2>2 DEF Effective, Installed, PluginAllowed
  <2>4. ~on => ~Effective(p)'
    BY <2>1 DEF Effective
  <2> DEFINE stops == ~on
  <2>5. stops \in BOOLEAN /\ By(who, {p}, stops) /\ (on <=> ~stops)
    OBVIOUS
  <2> HIDE DEF stops
  <2> QED
    BY <2>2, <2>3, <2>4, <2>5, CommandStops
<1>3. ASSUME NEW who \in Who, RemovePlugin(who) PROVE StopInv'
  <2> PICK p \in Plugin : installed' = [installed EXCEPT ![p] = Gone] /\ By(who, {p}, TRUE)
    BY <1>3 DEF RemovePlugin
  <2>1. /\ UNCHANGED <<restricted, revoked, host>>
        /\ installed'[p] = Gone /\ \A q \in Plugin \ {p} : installed'[q] = installed[q]
    BY <1>3 DEF RemovePlugin
  <2>2. /\ {p} \in SUBSET Plugin /\ \A q \in {p} : ~Effective(q)'
        /\ \A q \in Plugin : Effective(q)' => Effective(q)
    BY <2>1 DEF Effective, Installed, PluginAllowed
  <2>3. By(who, {p}, TRUE) /\ TRUE \in BOOLEAN
    OBVIOUS
  <2> QED
    BY <2>1, <2>2, <2>3, CommandStops
<1>4. ASSUME NEW who \in Who, SetPluginRestrictedMode(who) PROVE StopInv'
  <2>1. /\ UNCHANGED <<installed, revoked, host>> /\ restricted' \in BOOLEAN
        /\ By(who, SignedBy(Unsigned), restricted') /\ (restricted' <=> ~restricted)
    BY <1>4 DEF SetPluginRestrictedMode
  <2>2. \A p \in SignedBy(Unsigned) : restricted' => ~Effective(p)'
    BY <2>1 DEF SignedBy, Effective, PluginAllowed
  <2>3. \A p \in Plugin : Effective(p)' => Effective(p) \/ (~restricted' /\ p \in SignedBy(Unsigned))
    BY <2>1 DEF SignedBy, Effective, Installed, PluginAllowed
  <2>4. SignedBy(Unsigned) \in SUBSET Plugin
    BY DEF SignedBy
  <2> QED
    BY <2>1, <2>2, <2>3, <2>4, CommandStops
<1>5. ASSUME NEW who \in Who, RestorePluginSigner(who) PROVE StopInv'
  <2> PICK k \in revoked :
        revoked' = revoked \ {k} /\ By(who, {p \in SignedBy(k) : installed[p].on}, FALSE)
    BY <1>5 DEF RestorePluginSigner
  <2>1. UNCHANGED <<installed, restricted, host>>
    BY <1>5 DEF RestorePluginSigner
  <2>2. \A p \in Plugin : Effective(p)' => Effective(p) \/ p \in {q \in SignedBy(k) : installed[q].on}
    BY <2>1 DEF SignedBy, Effective, Installed, PluginAllowed
  <2>3. {p \in SignedBy(k) : installed[p].on} \in SUBSET Plugin
    BY DEF SignedBy
  <2> QED
    BY <2>1, <2>2, <2>3, CommandStops
<1>6. CASE EndRevocation
  <2>1. UNCHANGED <<installed, restricted, revoked, host>> /\ revoking # Nothing
    BY <1>6 DEF EndRevocation
  <2>2. \A p \in Plugin : Effective(p)' => Effective(p)
    BY <2>1 DEF Effective, Installed, PluginAllowed
  <2>3. \A p \in SignedBy(revoking.signer) : ~Effective(p)'
    BY <1>6, <2>1 DEF EndRevocation, RevokingInv, SignedBy, Effective
  <2>4. SignedBy(revoking.signer) \in SUBSET Plugin /\ "app" \in Who
    BY DEF SignedBy, Who
  <2>5. Refreshing(SignedBy(revoking.signer), TRUE) \/ UNCHANGED <<refresh, stopped>>
    BY <1>6 DEF EndRevocation, AppUntouched
  <2> QED
    BY <2>1, <2>2, <2>3, <2>4, <2>5, CommandStops, NothingStarts
<1>7. ASSUME NEW who \in Who, RevokePluginSigner(who) PROVE StopInv'
  BY <1>7, NothingStarts DEF RevokePluginSigner, Effective, Installed, PluginAllowed
<1>8. CASE DisableSigned
  <2> PICK p \in revoking.left : installed' = [installed EXCEPT ![p].on = FALSE]
    BY <1>8 DEF DisableSigned
  <2>1. p \in Plugin /\ Installed(p)
    BY <1>8 DEF DisableSigned, RevokingInv, Revocation
  <2>2. installed'[p].on = FALSE /\ \A q \in Plugin \ {p} : installed'[q] = installed[q]
    BY <2>1 DEF Installed, Package
  <2>3. \A q \in Plugin : Effective(q)' => Effective(q)
    BY <1>8, <2>1, <2>2 DEF DisableSigned, Effective, Installed, PluginAllowed
  <2> QED
    BY <1>8, <2>3, NothingStarts DEF DisableSigned
<1>9. CASE TerminalDies \/ UnlockVault \/ UNCHANGED pluginsVars
  BY <1>9, NothingStarts DEF TerminalDies, UnlockVault, pluginsVars, Effective, Installed, PluginAllowed
<1>e. UNCHANGED vault => \A p : UNCHANGED Effective(p)
  BY DEF Effective, Installed, PluginAllowed
<1>one. \A r, s \in Refresh : r = s
  BY DEF OneRefresh
<1>10. CASE OpenPlugins
  <2> PICK r \in Refresh : refresh' = [refresh EXCEPT ![r] = NoRefresh]
    BY <1>10 DEF OpenPlugins
  <2>1. refresh'[r] = NoRefresh
    OBVIOUS
  <2> QED
    BY <1>10, <1>e, <1>one, <2>1 DEF OpenPlugins, NoRefresh, StopInv, Runs
<1> DEFINE Follows(r, c) ==
  /\ \A p \in c.off : ~Effective(p)
  /\ \A p \in c.off \cup stopped : c.want[p] = 0
  /\ c.step = "start" => \A p \in c.off : ~Runs(p)
  /\ c.asked # Nothing => running[c.asked] = Nothing
<1>g. ASSUME NEW r \in Refresh, NEW c, Proceed(r, c), UNCHANGED <<vault, host, stopped>>,
             c = Nothing \/ Follows(r, c)
      PROVE  StopInv'
  <2>1. refresh'[r] = c
    BY <1>g DEF Proceed
  <2> QED
    BY <1>g, <1>e, <1>one, <2>1 DEF StopInv, Runs
<1>11. ASSUME NEW r \in Refresh, List(r) PROVE StopInv'
  <2> DEFINE c == [refresh[r] EXCEPT !.step = "fetch",
        !.want = [p \in Plugin |-> IF Effective(p) THEN installed[p].revision ELSE 0]]
  <2>1. /\ refresh[r] \in Learnt /\ refresh[r] # Nothing /\ refresh[r].asked = Nothing
    BY <1>11 DEF List, Reached, RefreshInv, Sound
  <2>2. c.off = refresh[r].off /\ c.step = "fetch" /\ c.asked = Nothing
        /\ \A p \in Plugin : ~Effective(p) => c.want[p] = 0
    BY <2>1 DEF Learnt
  <2>3. refresh[r].off \subseteq Plugin
    BY <2>1 DEF Learnt
  <2>4. Follows(r, c)
    BY <2>1, <2>2, <2>3 DEF StopInv
  <2> HIDE DEF c
  <2> QED
    BY <1>11, <1>g, <2>4 DEF List, c
<1>12. ASSUME NEW r \in Refresh, Fetch(r) PROVE StopInv'
  <2> PICK p \in Wanted(r) :
        Proceed(r, [refresh[r] EXCEPT !.source[p] = installed[p].revision])
    BY <1>12 DEF Fetch
  <2> DEFINE c == [refresh[r] EXCEPT !.source[p] = installed[p].revision]
  <2>1. refresh[r] \in Learnt /\ refresh[r] # Nothing
    BY <1>12 DEF Fetch, Reached
  <2>2. c.off = refresh[r].off /\ c.step = refresh[r].step /\ c.asked = refresh[r].asked
        /\ c.want = refresh[r].want
    BY <2>1 DEF Learnt
  <2>3. Follows(r, c)
    BY <2>1, <2>2 DEF StopInv
  <2> QED
    BY <1>12, <1>g, <2>3 DEF Fetch
<1>13. ASSUME NEW r \in Refresh, RefreshFails(r) PROVE StopInv'
  BY <1>13, <1>g DEF RefreshFails
<1>14. ASSUME NEW r \in Refresh, StopUnwanted(r) PROVE StopInv'
  <2>1. /\ refresh[r] \in Learnt /\ refresh[r] # Nothing /\ refresh[r].asked = Nothing
    BY <1>14 DEF StopUnwanted, Reached, RefreshInv, Sound
  <2>2. /\ running' = [p \in Plugin |-> IF Unwanted(r, p) THEN Nothing ELSE running[p]]
        /\ UNCHANGED <<vault, strays, stopped>>
    BY <1>14 DEF StopUnwanted
  <2>3. /\ refresh'[r] # Nothing => refresh'[r] = [refresh[r] EXCEPT !.step = "start"]
        /\ refresh[r].off \subseteq Plugin
    BY <1>14, <2>1 DEF StopUnwanted, Proceed, Learnt
  <2>4. \A p \in refresh[r].off : running'[p] = Nothing
    BY <2>1, <2>2, <2>3 DEF StopInv, Unwanted
  <2>5. \A p \in Plugin : running'[p] \in {Nothing, running[p]}
    BY <2>2
  <2>6. refresh'[r] # Nothing =>
          /\ refresh'[r].off = refresh[r].off /\ refresh'[r].want = refresh[r].want
          /\ refresh'[r].asked = Nothing
    BY <2>1, <2>3 DEF Learnt
  <2> QED
    BY <1>e, <1>one, <2>1, <2>2, <2>4, <2>5, <2>6 DEF StopInv, Runs
<1>15. ASSUME NEW r \in Refresh, Authorize(r) PROVE StopInv'
  <2> DEFINE passed(p) == [refresh[r] EXCEPT !.want[p] = 0]
             asking(p) == [refresh[r] EXCEPT !.asked = p,
                 !.answer = IF LetsRun(p, refresh[r].want[p]) THEN session ELSE 0]
  <2> PICK p \in Wanted(r) : Proceed(r, IF running[p] # Nothing THEN passed(p) ELSE asking(p))
    BY <1>15 DEF Authorize
  <2>1. /\ refresh[r] \in Learnt /\ refresh[r] # Nothing
        /\ refresh[r].asked = Nothing /\ p \in Plugin
    BY <1>15 DEF Authorize, Reached, Wanted
  <2>2. Follows(r, passed(p))
    BY <2>1 DEF StopInv, Learnt
  <2>3. running[p] = Nothing => Follows(r, asking(p))
    BY <2>1 DEF StopInv, Learnt
  <2> HIDE DEF passed, asking, Follows
  <2> QED
    BY <1>15, <2>2, <2>3, <1>g DEF Authorize
<1>16. ASSUME NEW r \in Refresh, Start(r) PROVE StopInv'
  <2> DEFINE p == refresh[r].asked
             entry == [worker |-> refresh[r].answer > 0, revision |-> refresh[r].want[p],
                       source |-> refresh[r].source[p], session |-> refresh[r].answer]
             c == [refresh[r] EXCEPT !.asked = Nothing, !.want[p] = 0]
  <2>1. /\ refresh[r] \in Learnt /\ refresh[r] # Nothing /\ Sound(refresh[r])
        /\ p # Nothing /\ p \in Plugin /\ refresh[r].want[p] > 0
    BY <1>16 DEF Start, Reached, RefreshInv, Learnt, Sound
  <2>2. running[p] = Nothing /\ p \notin refresh[r].off \cup stopped
    BY <2>1 DEF StopInv
  <2>3. /\ running' = [running EXCEPT ![p] = entry] /\ refresh' = [refresh EXCEPT ![r] = c]
        /\ UNCHANGED <<vault, strays, stopped>>
    BY <1>16, <2>2 DEF Start, Proceed
  <2>4. entry.revision > 0 /\ \A q \in Plugin \ {p} : running'[q] = running[q]
    BY <2>1, <2>3
  <2>5. /\ c.off = refresh[r].off /\ c.step = refresh[r].step /\ c.asked = Nothing
        /\ \A q \in Plugin : c.want[q] \in {0, refresh[r].want[q]}
    BY <2>1 DEF Learnt
  <2>6. running'[p] = entry /\ refresh'[r] = c /\ refresh[r].off \subseteq Plugin
    BY <2>1, <2>3 DEF Learnt
  <2> HIDE DEF p, entry, c
  <2> QED
    BY <1>e, <1>one, <2>1, <2>2, <2>3, <2>4, <2>5, <2>6 DEF StopInv, Runs
<1>17. ASSUME NEW r \in Refresh, EndRefresh(r) PROVE StopInv'
  <2>1. /\ refresh[r] # Nothing /\ refresh[r].step = "start"
        /\ stopped' = stopped \cup refresh[r].off /\ UNCHANGED <<vault, host>>
        /\ refresh'[r] = Nothing
    BY <1>17 DEF EndRefresh, Reached, Proceed
  <2> QED
    BY <1>e, <1>one, <2>1 DEF StopInv, Runs, Learnt
<1>18. CASE PluginFails
  <2> PICK p \in Plugin :
        running[p] # Nothing /\ running' = [running EXCEPT ![p].worker = FALSE]
    BY <1>18 DEF PluginFails
  <2>1. /\ UNCHANGED <<vault, strays, stopped, refresh>>
        /\ running[p] \in Entry /\ running'[p] = [running[p] EXCEPT !.worker = FALSE]
        /\ \A q \in Plugin \ {p} : running'[q] = running[q]
    BY <1>18 DEF PluginFails
  <2>2. /\ running'[p].revision = running[p].revision /\ running'[p].worker = FALSE
    BY <2>1 DEF Entry
  <2>3. \A r \in Refresh : refresh[r] # Nothing => refresh[r].off \subseteq Plugin
                                               /\ refresh[r].asked \in Plugin \cup {Nothing}
    BY DEF Learnt
  <2> QED
    BY <1>e, <2>1, <2>2, <2>3 DEF StopInv, Runs
<1>19. CASE LockVault
  <2>1. /\ UNCHANGED <<vault, strays, stopped, refresh>>
        /\ \A p \in Plugin : running'[p] = Nothing
    BY <1>19 DEF LockVault
  <2>2. \A r \in Refresh : refresh[r] # Nothing => refresh[r].off \subseteq Plugin
                                               /\ refresh[r].asked \in Plugin \cup {Nothing}
    BY DEF Learnt
  <2> QED
    BY <1>e, <2>1, <2>2 DEF StopInv, Runs
<1> QED
  BY <1>1, <1>2, <1>3, <1>4, <1>5, <1>6, <1>7, <1>8, <1>9, <1>10, <1>11, <1>12, <1>13,
     <1>14, <1>15, <1>16, <1>17, <1>18, <1>19 DEF PluginsNext

\* What the app has reported as stopped no longer runs, until it is turned on
\* again, while the app makes one refresh after the other.
THEOREM PluginsStop == OneRefresh /\ PluginsSpec => []StopsWhatIsOff
<1>1. OneRefresh /\ PluginsInit => PluginsInv /\ StopInv
  BY InitPluginsInv DEF PluginsInit, StopInv
<1>2. OneRefresh /\ PluginsInv /\ StopInv /\ [PluginsNext]_pluginsVars => (PluginsInv /\ StopInv)'
  BY NextPluginsInv, NextStopInv
<1>3. StopInv => StopsWhatIsOff
  BY DEF StopInv, StopsWhatIsOff, Workers, Runs
<1>4. OneRefresh => []OneRefresh
  <2>1. OneRefresh => OneRefresh'
    BY DEF OneRefresh
  <2> QED
    BY <2>1, PTL
<1> QED
  BY <1>1, <1>2, <1>3, <1>4, PTL DEF PluginsSpec
=============================================================================
