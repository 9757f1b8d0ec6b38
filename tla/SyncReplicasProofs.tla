------------------------- MODULE SyncReplicasProofs -------------------------
(***************************************************************************)
(* Proofs about SyncReplicas for every set of devices, values and change IDs *)
(* and every bound.  The change graph only grows upwards, so the winner of a *)
(* log is above everything in it and no plan runs ahead of an ancestor;      *)
(* storage and cursor agree once no receipt is on disk; and, when nothing    *)
(* but the receipt writes the note while it is on disk and a removal is the  *)
(* last change, a receipt writes once and is always found written.           *)
(***************************************************************************)
EXTENDS SyncReplicas, FiniteSetTheorems, WellFoundedInduction, TLAPS

\* A removal is the last change, and sessions without sync wait for the receipt.
RemovedForGood == Recreation = FALSE /\ Outside = {}

TypeInv ==
  /\ made \in [Id -> Change \cup {None}]
  /\ log \in [Device -> SUBSET Id]
  /\ live \in [Device -> Stored]
  /\ cursor \in [Device -> Id \cup {None}]
  /\ receipt \in [Device -> Receipt \cup {None}]
  /\ pc \in [Device -> Locations] /\ plan \in [Device -> SUBSET Id]
  /\ natives \in Nat /\ interrupts \in Nat /\ edited \subseteq Device
  /\ writes \in [Device -> Nat] /\ taken \in [Device -> SUBSET Id]

\* A change is above its ancestors, and their ancestors are its own.
GraphInv ==
  \A i \in Used :
    /\ made[i].past \subseteq Used
    /\ \A j \in made[i].past : made[j].rev < made[i].rev /\ made[j].past \subseteq made[i].past

\* A log has the ancestors of what it has; cursor, receipt and plan name changes in it.
LogAt(d) ==
  /\ log[d] \subseteq Used /\ \A i \in log[d] : made[i].past \subseteq log[d]
  /\ cursor[d] # None => cursor[d] \in log[d]
  /\ receipt[d] # None => receipt[d].id \in log[d]
  /\ plan[d] \subseteq log[d]

\* What is still to apply is not below what was applied last.
PlanAt(d) ==
  /\ pc[d] = "idle" => plan[d] = {}
  /\ receipt[d] # None => plan[d] \cap Ancestry(receipt[d].id) = {}
  /\ cursor[d] # None => plan[d] \cap Ancestry(cursor[d]) = {}

\* Where the application is says what the receipt on disk says.
ReceiptAt(d) ==
  /\ pc[d] = "apply" => receipt[d] = None
  /\ pc[d] \in {"store", "verify", "cursor", "mark", "clear"} => receipt[d] # None
  /\ pc[d] \in {"store", "verify"} => receipt[d].phase = "prepared"
  /\ pc[d] \in {"cursor", "mark"} => receipt[d].phase = "storage-written"
  /\ pc[d] = "clear" => receipt[d].phase = "cursor-written"

\* Storage and cursor reach the receipt's change, unless the note was edited since.
Written(d) == pc[d] = "verify" \/ receipt[d].phase # "prepared"
LiveAt(d) ==
  /\ receipt[d] = None /\ d \notin edited => live[d].val = Applied(d)
  /\ receipt[d] # None /\ Written(d) /\ d \notin edited => live[d].val = made[receipt[d].id].val
  /\ receipt[d] # None /\ (pc[d] = "mark" \/ receipt[d].phase = "cursor-written")
       => cursor[d] = receipt[d].id

DeviceInv(d) == LogAt(d) /\ PlanAt(d) /\ ReceiptAt(d) /\ LiveAt(d)

IInv == TypeInv /\ GraphInv /\ \A d \in Device : DeviceInv(d)

\* A removal has every other change below it.
RemovalInv == \A i \in Used : made[i].val = None => Used \subseteq Ancestry(i)

\* A note that is gone and once was there is gone by the change applied last, or by the
\* receipt.
GoneAt(d) ==
  live[d].val = None /\ live[d].rev # 0 =>
    \/ cursor[d] # None /\ made[cursor[d]].val = None
    \/ receipt[d] # None /\ made[receipt[d].id].val = None

\* The receipt's state is there, or nothing was written and one write reaches it.
OneWrite(d) ==
  \/ writes[d] <= 1 /\ Materialized(d)
  \/ writes[d] = 0 /\ (made[receipt[d].id].val # None => live[d].rev + 1 = receipt[d].expected)
WriteAt(d) ==
  /\ receipt[d] = None => writes[d] = 0
  /\ receipt[d] # None => OneWrite(d) /\ (Written(d) => Materialized(d))

WInv == IInv /\ RemovalInv /\ \A d \in Device : GoneAt(d) /\ WriteAt(d)
-----------------------------------------------------------------------------
(* The change graph. *)

\* A finite set has an element nothing is above, in any strict order.
LEMMA FiniteTop ==
  ASSUME NEW L, IsFiniteSet(L), L # {}, NEW R,
         \A x \in L : <<x, x>> \notin R,
         \A x, y, z \in L : <<x, y>> \in R /\ <<y, z>> \in R => <<x, z>> \in R
  PROVE  \E x \in L : \A y \in L : <<y, x>> \notin R
<1> DEFINE Above == [x \in L |-> {y \in L : <<y, x>> \in R}]
           T == {Above[x] : x \in L}
<1>1. \A x \in L : Above[x] = {y \in L : <<y, x>> \in R}
  OBVIOUS
<1> HIDE DEF Above
<1>2. \A x \in L : Above[x] \in FiniteSubsetsOf(L)
  <2> SUFFICES ASSUME NEW x \in L PROVE Above[x] \in FiniteSubsetsOf(L)
    OBVIOUS
  <2>1. Above[x] \in SUBSET L
    BY <1>1
  <2>2. IsFiniteSet(Above[x])
    BY <2>1, FS_Subset
  <2> QED
    BY <2>1, <2>2 DEF FiniteSubsetsOf
<1>3. T \subseteq FiniteSubsetsOf(L) /\ T # {}
  BY <1>2
<1>4. \E a \in T : \A b \in T : ~ (<<b, a>> \in StrictSubsetOrdering(L))
  <2>1. IsWellFoundedOn(StrictSubsetOrdering(L), FiniteSubsetsOf(L))
    BY FS_StrictSubsetOrderingWellFounded
  <2> HIDE DEF T
  <2> QED
    BY <1>3, <2>1, WFMin
<1>5. PICK x \in L : \A b \in T : ~ (<<b, Above[x]>> \in StrictSubsetOrdering(L))
  BY <1>4
<1>6. ASSUME NEW y \in L, <<y, x>> \in R PROVE FALSE
  <2>1. Above[y] \in T
    OBVIOUS
  <2>2. Above[y] \subseteq Above[x] /\ y \in Above[x] /\ y \notin Above[y] /\ Above[x] \subseteq L
    <3>1. Above[x] = {z \in L : <<z, x>> \in R} /\ Above[y] = {z \in L : <<z, y>> \in R}
      BY <1>1, <1>6
    <3>2. y \in Above[x] /\ y \notin Above[y] /\ Above[x] \subseteq L
      BY <1>6, <3>1
    <3>3. ASSUME NEW z \in Above[y] PROVE z \in Above[x]
      <4>1. z \in L /\ <<z, y>> \in R
        BY <3>1
      <4>2. <<z, x>> \in R
        BY <1>6, <4>1
      <4> QED
        BY <3>1, <4>1, <4>2
    <3> QED
      BY <3>2, <3>3
  <2>3. <<Above[y], Above[x]>> \in StrictSubsetOrdering(L)
    BY <2>2 DEF StrictSubsetOrdering
  <2> QED
    BY <1>5, <2>1, <2>3
<1> QED
  BY <1>6

\* Two changes are never even: Beats is a strict total order.
LEMMA BeatsFacts ==
  ASSUME TypeInv, NEW i \in Used, NEW j \in Used, NEW k \in Used
  PROVE  /\ ~Beats(i, i)
         /\ i # j => Beats(i, j) \/ Beats(j, i)
         /\ ~(Beats(i, j) /\ Beats(j, i))
         /\ Beats(i, j) /\ Beats(j, k) => Beats(i, k)
         /\ made[i].rev > made[j].rev => Beats(i, j)
         /\ Beats(i, j) => made[j].rev <= made[i].rev
<1>1. i \in Nat /\ j \in Nat /\ k \in Nat
  BY ConstantsOK DEF Used
<1>2. made[i].rev \in Nat /\ made[j].rev \in Nat /\ made[k].rev \in Nat
  BY DEF TypeInv, Used, Change
<1> DEFINE a == made[i].rev
           b == made[j].rev
           c == made[k].rev
<1>3. a \in Nat /\ b \in Nat /\ c \in Nat
  BY <1>2
<1> HIDE DEF a, b, c
<1>4. Beats(i, j) <=> \/ a > b
                      \/ a = b /\ made[i].val = None /\ made[j].val # None
                      \/ a = b /\ (made[i].val = None <=> made[j].val = None) /\ i > j
  BY DEF Beats, a, b
<1>5. Beats(j, i) <=> \/ b > a
                      \/ b = a /\ made[j].val = None /\ made[i].val # None
                      \/ b = a /\ (made[j].val = None <=> made[i].val = None) /\ j > i
  BY DEF Beats, a, b
<1>6. Beats(j, k) <=> \/ b > c
                      \/ b = c /\ made[j].val = None /\ made[k].val # None
                      \/ b = c /\ (made[j].val = None <=> made[k].val = None) /\ j > k
  BY DEF Beats, b, c
<1>7. Beats(i, k) <=> \/ a > c
                      \/ a = c /\ made[i].val = None /\ made[k].val # None
                      \/ a = c /\ (made[i].val = None <=> made[k].val = None) /\ i > k
  BY DEF Beats, a, c
<1>8. Beats(i, i) <=> a > a \/ (a = a /\ i > i)
  BY DEF Beats, a
<1>9. ~Beats(i, i)
  BY <1>1, <1>3, <1>8
<1>10. i # j => Beats(i, j) \/ Beats(j, i)
  BY <1>1, <1>3, <1>4, <1>5
<1>11. ~(Beats(i, j) /\ Beats(j, i))
  BY <1>1, <1>3, <1>4, <1>5
<1>12. Beats(i, j) /\ Beats(j, k) => Beats(i, k)
  BY <1>1, <1>3, <1>4, <1>6, <1>7
<1>13. (a > b => Beats(i, j)) /\ (Beats(i, j) => b <= a)
  BY <1>3, <1>4
<1> QED
  BY <1>9, <1>10, <1>11, <1>12, <1>13 DEF a, b

\* The winner of some changes is one of their heads, and none of them is above it.
LEMMA WinnerExists ==
  ASSUME TypeInv, GraphInv, NEW L \in SUBSET Used, L # {}
  PROVE  Winner(L) \in Heads(L) /\ \A j \in L : made[j].rev <= made[Winner(L)].rev
<1> DEFINE R == {p \in L \X L : Beats(p[1], p[2])}
<1>1. \A x, y \in L : <<x, y>> \in R <=> Beats(x, y)
  OBVIOUS
<1>2. PICK x \in L : \A y \in L : ~Beats(y, x)
  <2>1. IsFiniteSet(L)
    BY ConstantsOK, FS_Subset DEF Used
  <2>2. \A i \in L : <<i, i>> \notin R
    BY <1>1, BeatsFacts
  <2>3. \A i, j, k \in L : <<i, j>> \in R /\ <<j, k>> \in R => <<i, k>> \in R
    <3> SUFFICES ASSUME NEW i \in L, NEW j \in L, NEW k \in L, <<i, j>> \in R, <<j, k>> \in R
                 PROVE  <<i, k>> \in R
      OBVIOUS
    <3>1. Beats(i, j) /\ Beats(j, k)
      BY <1>1
    <3>2. Beats(i, k)
      BY <3>1, BeatsFacts
    <3> QED
      BY <1>1, <3>2
  <2> HIDE DEF R
  <2>4. \E i \in L : \A j \in L : <<j, i>> \notin R
    BY <2>1, <2>2, <2>3, FiniteTop
  <2> QED
    BY <1>1, <2>4
<1>3. x \in Heads(L)
  <2>1. ASSUME NEW j \in L, x \in made[j].past PROVE FALSE
    <3>1. made[x].rev < made[j].rev /\ made[x].rev \in Nat /\ made[j].rev \in Nat
      BY <2>1 DEF GraphInv, TypeInv, Used, Change
    <3>2. Beats(j, x)
      BY <3>1, BeatsFacts
    <3> QED
      BY <1>2, <3>2
  <2> QED
    BY <2>1 DEF Heads
<1>4. \A y \in L \ {x} : Beats(x, y)
  <2>1. \A y \in L \ {x} : Beats(x, y) \/ Beats(y, x)
    BY BeatsFacts
  <2> QED
    BY <1>2, <2>1
<1>5. Heads(L) \subseteq L
  BY DEF Heads
<1>6. Winner(L) \in Heads(L) /\ \A j \in Heads(L) \ {Winner(L)} : Beats(Winner(L), j)
  BY <1>3, <1>4, <1>5 DEF Winner
<1>7. Winner(L) = x
  BY <1>2, <1>3, <1>5, <1>6
<1>8. \A j \in L : made[j].rev <= made[x].rev
  <2>1. \A j \in L \ {x} : made[j].rev <= made[x].rev
    BY <1>4, BeatsFacts
  <2>2. made[x].rev \in Nat
    BY DEF TypeInv, Used, Change
  <2> QED
    BY <2>1, <2>2
<1> QED
  BY <1>3, <1>7, <1>8

\* A new change is above what its author's log has; nothing else changes in the graph.
LEMMA AuthorFacts ==
  ASSUME TypeInv, GraphInv, \A e \in Device : LogAt(e),
         NEW d \in Device, NEW i \in Id, NEW v \in Value \cup {None}, Author(d, i, v)
  PROVE  /\ i \notin Used /\ Used' = Used \cup {i} /\ \A j \in Used : made'[j] = made[j]
         /\ made'[i].past = log[d] /\ made'[i].val = v
         /\ made' \in [Id -> Change \cup {None}] /\ log' \in [Device -> SUBSET Id]
         /\ log'[d] = log[d] \cup {i} /\ \A e \in Device \ {d} : log'[e] = log[e]
         /\ GraphInv'
<1> DEFINE L == log[d]
           c == [author |-> d, past |-> L, val |-> v, rev |-> NextRevision(L)]
<1>1. L \in SUBSET Used /\ \A j \in L : made[j].past \subseteq L
  BY DEF LogAt
<1>2. \A j \in Used : made[j].rev \in Nat /\ made[j] \in Change /\ j \in Id
  BY DEF TypeInv, Used, Change
<1>3. NextRevision(L) \in Nat /\ \A j \in L : made[j].rev < NextRevision(L)
  <2>1. CASE L = {}
    BY <2>1 DEF NextRevision
  <2>2. CASE L # {}
    <3> DEFINE w == Winner(L)
    <3>1. w \in Heads(L) /\ \A j \in L : made[j].rev <= made[w].rev
      BY <1>1, <2>2, WinnerExists
    <3>2. w \in Used
      BY <1>1, <3>1 DEF Heads
    <3>3. NextRevision(L) = made[w].rev + 1
      BY <2>2 DEF NextRevision
    <3> HIDE DEF w, L
    <3> QED
      BY <1>1, <1>2, <3>1, <3>2, <3>3
  <2> QED
    BY <2>1, <2>2
<1> HIDE DEF L
<1>4. c \in Change
  BY <1>1, <1>3 DEF Change, Used
<1>5. i \notin Used /\ made' = [made EXCEPT ![i] = c] /\ log' = [log EXCEPT ![d] = @ \cup {i}]
  BY DEF Author, L
<1> HIDE DEF c
<1>6. made' \in [Id -> Change \cup {None}] /\ made'[i] = c /\ \A j \in Id \ {i} : made'[j] = made[j]
  BY <1>4, <1>5 DEF TypeInv
<1>7. Used' = Used \cup {i} /\ \A j \in Used : made'[j] = made[j]
  BY <1>4, <1>5, <1>6, ConstantsOK DEF Used
<1>8. /\ log' \in [Device -> SUBSET Id]
      /\ log'[d] = L \cup {i} /\ \A e \in Device \ {d} : log'[e] = log[e]
  BY <1>5 DEF TypeInv, L
<1>9. c.past = L /\ c.val = v /\ c.rev = NextRevision(L)
  BY DEF c
<1>10. GraphInv'
  <2>1. ASSUME NEW k \in Used
        PROVE  /\ made'[k].past \subseteq Used'
               /\ \A j \in made'[k].past :
                    made'[j].rev < made'[k].rev /\ made'[j].past \subseteq made'[k].past
    BY <1>7 DEF GraphInv
  <2>2. L \subseteq Used' /\ \A j \in L : made'[j].rev < c.rev /\ made'[j].past \subseteq c.past
    BY <1>1, <1>3, <1>7, <1>9
  <2> QED
    BY <1>6, <1>7, <1>9, <2>1, <2>2 DEF GraphInv
<1> QED
  BY <1>5, <1>6, <1>7, <1>8, <1>9, <1>10 DEF L

\* A removal recorded with everything else below it leaves no room for a later change.
LEMMA RemovalStays ==
  ASSUME TypeInv, RemovalInv, Recreation = FALSE,
         NEW d \in Device, NEW i \in Id, NEW v \in Value \cup {None}, MayAuthor(d, v),
         Used' = Used \cup {i}, \A j \in Used : made'[j] = made[j],
         made'[i].past = log[d], made'[i].val = v
  PROVE  RemovalInv'
<1>1. (\A j \in Used : made[j].val # None) /\ (v = None => log[d] = Used)
  BY DEF MayAuthor
<1> QED
  BY <1>1 DEF RemovalInv, Ancestry

-----------------------------------------------------------------------------
(* The inductive invariant. *)

\* What a step at one device leaves alone at the others.
LEMMA Elsewhere ==
  ASSUME NEW e \in Device, TypeInv, DeviceInv(e),
         Used \subseteq Used', \A j \in Used : made'[j] = made[j],
         log'[e] = log[e], live'[e] = live[e], cursor'[e] = cursor[e], receipt'[e] = receipt[e],
         pc'[e] = pc[e], plan'[e] = plan[e], writes'[e] = writes[e],
         e \in edited' <=> e \in edited
  PROVE  DeviceInv(e)' /\ (GoneAt(e) => GoneAt(e)') /\ (WriteAt(e) => WriteAt(e)')
<1>1. /\ log[e] \subseteq Used
      /\ cursor[e] # None => cursor[e] \in Used /\ made'[cursor[e]] = made[cursor[e]]
      /\ receipt[e] # None => receipt[e].id \in Used /\ made'[receipt[e].id] = made[receipt[e].id]
  BY DEF DeviceInv, LogAt
<1>2. LogAt(e)'
  BY <1>1 DEF DeviceInv, LogAt
<1>3. PlanAt(e)'
  BY <1>1 DEF DeviceInv, PlanAt, Ancestry
<1>4. ReceiptAt(e)'
  BY <1>1 DEF DeviceInv, ReceiptAt
<1>5. LiveAt(e)'
  BY <1>1 DEF DeviceInv, LiveAt, Applied, Written
<1>6. GoneAt(e) => GoneAt(e)'
  BY <1>1 DEF GoneAt
<1>7. WriteAt(e) => WriteAt(e)'
  BY <1>1 DEF WriteAt, OneWrite, Written, Materialized
<1> QED
  BY <1>2, <1>3, <1>4, <1>5, <1>6, <1>7 DEF DeviceInv

\* Nothing is recorded yet.
LEMMA InitIInv == Init => IInv /\ WInv
<1> SUFFICES ASSUME Init PROVE IInv /\ WInv
  OBVIOUS
<1>1. TypeInv
  BY DEF Init, TypeInv, Locations, Stored
<1>2. Used = {}
  BY DEF Init, Used
<1>3. GraphInv /\ RemovalInv
  BY <1>2 DEF GraphInv, RemovalInv
<1>4. ASSUME NEW d \in Device PROVE DeviceInv(d) /\ GoneAt(d) /\ WriteAt(d)
  <2>1. /\ log[d] = {} /\ live[d] = [rev |-> 0, val |-> None] /\ cursor[d] = None
        /\ receipt[d] = None /\ pc[d] = "idle" /\ plan[d] = {} /\ writes[d] = 0
    BY DEF Init
  <2> QED
    BY <2>1 DEF DeviceInv, LogAt, PlanAt, ReceiptAt, LiveAt, Applied, GoneAt, WriteAt
<1> QED
  BY <1>1, <1>3, <1>4 DEF IInv, WInv

\* A step at one device keeps the invariants if it keeps them there.
LEMMA AtOne ==
  ASSUME IInv, NEW d \in Device, TypeInv', GraphInv', DeviceInv(d)',
         Used \subseteq Used', \A j \in Used : made'[j] = made[j],
         \A e \in Device \ {d} :
           /\ log'[e] = log[e] /\ live'[e] = live[e] /\ cursor'[e] = cursor[e]
           /\ receipt'[e] = receipt[e] /\ pc'[e] = pc[e] /\ plan'[e] = plan[e]
           /\ writes'[e] = writes[e] /\ (e \in edited' <=> e \in edited)
  PROVE  IInv' /\ (WInv /\ RemovalInv' /\ GoneAt(d)' /\ WriteAt(d)' => WInv')
<1>1. ASSUME NEW e \in Device \ {d}
      PROVE  DeviceInv(e)' /\ (GoneAt(e) => GoneAt(e)') /\ (WriteAt(e) => WriteAt(e)')
  BY Elsewhere DEF IInv
<1>2. IInv'
  BY <1>1 DEF IInv
<1> QED
  BY <1>1, <1>2 DEF WInv

\* Where the graph stays as it is.
LEMMA SameGraph ==
  ASSUME IInv, UNCHANGED made
  PROVE  /\ Used' = Used /\ GraphInv' /\ (RemovalInv => RemovalInv')
         /\ \A j \in Used : made'[j] = made[j]
<1>1. Used' = Used
  BY DEF Used
<1> QED
  BY <1>1 DEF IInv, GraphInv, RemovalInv, Ancestry

LEMMA EditKeeps ==
  ASSUME IInv, NEW d \in Device, NEW i \in Id, NEW v \in Value \cup {None}, Edit(d, i, v)
  PROVE  IInv' /\ (RemovedForGood /\ WInv => WInv')
<1>1. /\ TypeInv /\ GraphInv /\ DeviceInv(d) /\ \A e \in Device : LogAt(e)
      /\ Author(d, i, v) /\ MayAuthor(d, v)
  BY DEF IInv, DeviceInv, Edit
<1>2. /\ i \notin Used /\ Used' = Used \cup {i} /\ \A j \in Used : made'[j] = made[j]
      /\ made'[i].past = log[d] /\ made'[i].val = v
      /\ made' \in [Id -> Change \cup {None}] /\ log' \in [Device -> SUBSET Id]
      /\ log'[d] = log[d] \cup {i} /\ \A e \in Device \ {d} : log'[e] = log[e]
      /\ GraphInv'
  BY <1>1, AuthorFacts
<1>3. Stores(live[d], v) \in Stored /\ Stores(live[d], v).val = v
  BY <1>1 DEF TypeInv, Stored, Stores
<1>4. /\ live' = [live EXCEPT ![d] = Stores(@, v)] /\ cursor' = [cursor EXCEPT ![d] = i]
      /\ edited' = edited \ {d} /\ taken' = [taken EXCEPT ![d] = @ \cup {i}]
      /\ UNCHANGED <<receipt, pc, plan, writes, interrupts, natives>>
      /\ pc[d] = "idle" /\ receipt[d] = None
  BY DEF Edit, KeepRun, Idle
<1>5. TypeInv'
  BY <1>1, <1>2, <1>3, <1>4 DEF TypeInv
<1>6. live'[d].val = v /\ cursor'[d] = i /\ i # None /\ plan[d] = {} /\ d \notin edited'
  BY <1>1, <1>3, <1>4, ConstantsOK DEF TypeInv, DeviceInv, PlanAt
<1>7. LogAt(d)'
  BY <1>1, <1>2, <1>4, <1>6 DEF LogAt
<1>8. DeviceInv(d)'
  BY <1>1, <1>2, <1>4, <1>6, <1>7 DEF DeviceInv, PlanAt, ReceiptAt, LiveAt, Applied
<1>9. \A e \in Device \ {d} :
        /\ live'[e] = live[e] /\ cursor'[e] = cursor[e]
        /\ receipt'[e] = receipt[e] /\ pc'[e] = pc[e] /\ plan'[e] = plan[e]
        /\ writes'[e] = writes[e] /\ (e \in edited' <=> e \in edited)
  BY <1>1, <1>4 DEF TypeInv
<1>10. IInv' /\ (WInv /\ RemovalInv' /\ GoneAt(d)' /\ WriteAt(d)' => WInv')
  BY <1>2, <1>5, <1>8, <1>9, AtOne
<1>11. ASSUME RemovedForGood, WInv PROVE RemovalInv' /\ GoneAt(d)' /\ WriteAt(d)'
  <2>1. RemovalInv'
    BY <1>1, <1>2, <1>11, RemovalStays DEF RemovedForGood, WInv
  <2>2. GoneAt(d)'
    BY <1>2, <1>6 DEF GoneAt
  <2>3. WriteAt(d)'
    BY <1>4, <1>11 DEF WriteAt, WInv
  <2> QED
    BY <2>1, <2>2, <2>3
<1> QED
  BY <1>10, <1>11

LEMMA CaptureKeeps ==
  ASSUME IInv, NEW d \in Device, NEW i \in Id, Capture(d, i)
  PROVE  IInv' /\ (RemovedForGood /\ WInv => WInv')
<1> DEFINE v == live[d].val
<1>1. /\ TypeInv /\ GraphInv /\ DeviceInv(d) /\ \A e \in Device : LogAt(e)
      /\ Author(d, i, v) /\ MayAuthor(d, v) /\ v \in Value \cup {None}
  BY DEF IInv, DeviceInv, Capture, TypeInv, Stored
<1>2. /\ i \notin Used /\ Used' = Used \cup {i} /\ \A j \in Used : made'[j] = made[j]
      /\ made'[i].past = log[d] /\ made'[i].val = v
      /\ made' \in [Id -> Change \cup {None}] /\ log' \in [Device -> SUBSET Id]
      /\ log'[d] = log[d] \cup {i} /\ \A e \in Device \ {d} : log'[e] = log[e]
      /\ GraphInv'
  <2> HIDE DEF v
  <2> QED
    BY <1>1, AuthorFacts
<1>4. /\ cursor' = [cursor EXCEPT ![d] = i]
      /\ edited' = edited \ {d} /\ taken' = [taken EXCEPT ![d] = @ \cup {i}]
      /\ UNCHANGED <<live, receipt, pc, plan, writes, interrupts, natives>>
      /\ pc[d] = "idle" /\ receipt[d] = None
  BY DEF Capture, KeepRun, Idle
<1>5. TypeInv'
  BY <1>1, <1>2, <1>4 DEF TypeInv
<1>6. live'[d].val = v /\ cursor'[d] = i /\ i # None /\ plan[d] = {} /\ d \notin edited'
  BY <1>1, <1>4, ConstantsOK DEF TypeInv, DeviceInv, PlanAt
<1> HIDE DEF v
<1>7. LogAt(d)'
  BY <1>1, <1>2, <1>4, <1>6 DEF LogAt
<1>8. DeviceInv(d)'
  BY <1>1, <1>2, <1>4, <1>6, <1>7 DEF DeviceInv, PlanAt, ReceiptAt, LiveAt, Applied
<1>9. \A e \in Device \ {d} :
        /\ live'[e] = live[e] /\ cursor'[e] = cursor[e]
        /\ receipt'[e] = receipt[e] /\ pc'[e] = pc[e] /\ plan'[e] = plan[e]
        /\ writes'[e] = writes[e] /\ (e \in edited' <=> e \in edited)
  BY <1>1, <1>4 DEF TypeInv
<1>10. IInv' /\ (WInv /\ RemovalInv' /\ GoneAt(d)' /\ WriteAt(d)' => WInv')
  BY <1>2, <1>5, <1>8, <1>9, AtOne
<1>11. ASSUME RemovedForGood, WInv PROVE RemovalInv' /\ GoneAt(d)' /\ WriteAt(d)'
  <2>1. RemovalInv'
    BY <1>1, <1>2, <1>11, RemovalStays DEF RemovedForGood, WInv
  <2>2. GoneAt(d)'
    BY <1>2, <1>6 DEF GoneAt
  <2>3. WriteAt(d)'
    BY <1>4, <1>11 DEF WriteAt, WInv
  <2> QED
    BY <2>1, <2>2, <2>3
<1> QED
  BY <1>10, <1>11

LEMMA ResolveKeeps ==
  ASSUME IInv, NEW d \in Device, NEW i \in Id, NEW h \in Id, Resolve(d, i, h)
  PROVE  IInv' /\ (RemovedForGood /\ WInv => WInv')
<1> DEFINE v == made[h].val
<1>1. /\ TypeInv /\ GraphInv /\ DeviceInv(d) /\ \A e \in Device : LogAt(e)
      /\ Author(d, i, v) /\ MayAuthor(d, v) /\ v \in Value \cup {None}
  <2>1. h \in Used
    BY DEF Resolve, Heads, IInv, DeviceInv, LogAt
  <2>2. v \in Value \cup {None}
    BY <2>1 DEF IInv, TypeInv, Used, Change
  <2> QED
    BY <2>2 DEF IInv, DeviceInv, Resolve
<1>2. /\ i \notin Used /\ Used' = Used \cup {i} /\ \A j \in Used : made'[j] = made[j]
      /\ made'[i].past = log[d] /\ made'[i].val = v
      /\ made' \in [Id -> Change \cup {None}] /\ log' \in [Device -> SUBSET Id]
      /\ log'[d] = log[d] \cup {i} /\ \A e \in Device \ {d} : log'[e] = log[e]
      /\ GraphInv'
  <2> HIDE DEF v
  <2> QED
    BY <1>1, AuthorFacts
<1> HIDE DEF v
<1> DEFINE P == (log[d] \cup {i}) \ (IF cursor[d] = None THEN {} ELSE Ancestry(cursor[d]))
<1>4. /\ plan' = [plan EXCEPT ![d] = P] /\ pc' = [pc EXCEPT ![d] = "apply"]
      /\ UNCHANGED <<live, cursor, receipt, natives, interrupts, edited, writes, taken>>
      /\ receipt[d] = None
  BY DEF Resolve, Goto
<1>5. P \subseteq log'[d] /\ (cursor[d] # None => P \cap Ancestry(cursor[d]) = {})
  BY <1>2
<1> HIDE DEF P
<1>6. TypeInv'
  BY <1>1, <1>2, <1>4, <1>5 DEF TypeInv, Locations
<1>7. /\ plan'[d] = P /\ pc'[d] = "apply" /\ cursor'[d] = cursor[d] /\ receipt'[d] = None
      /\ live'[d] = live[d]
      /\ cursor[d] # None => cursor[d] \in Used /\ made'[cursor[d]] = made[cursor[d]]
  BY <1>1, <1>2, <1>4 DEF TypeInv, LogAt
<1>8. LogAt(d)'
  BY <1>1, <1>2, <1>4, <1>5, <1>7 DEF LogAt
<1>9. DeviceInv(d)'
  BY <1>1, <1>2, <1>4, <1>5, <1>7, <1>8
     DEF DeviceInv, PlanAt, ReceiptAt, LiveAt, Applied, Ancestry
<1>10. \A e \in Device \ {d} :
        /\ live'[e] = live[e] /\ cursor'[e] = cursor[e]
        /\ receipt'[e] = receipt[e] /\ pc'[e] = pc[e] /\ plan'[e] = plan[e]
        /\ writes'[e] = writes[e] /\ (e \in edited' <=> e \in edited)
  BY <1>1, <1>4 DEF TypeInv
<1>11. IInv' /\ (WInv /\ RemovalInv' /\ GoneAt(d)' /\ WriteAt(d)' => WInv')
  BY <1>2, <1>6, <1>9, <1>10, AtOne
<1>12. ASSUME RemovedForGood, WInv PROVE RemovalInv' /\ GoneAt(d)' /\ WriteAt(d)'
  <2>1. RemovalInv'
    BY <1>1, <1>2, <1>12, RemovalStays DEF RemovedForGood, WInv
  <2>2. GoneAt(d)'
    BY <1>4, <1>7, <1>12 DEF GoneAt, WInv
  <2>3. WriteAt(d)'
    BY <1>4, <1>12 DEF WriteAt, WInv
  <2> QED
    BY <2>1, <2>2, <2>3
<1> QED
  BY <1>11, <1>12

LEMMA NativeEditKeeps ==
  ASSUME IInv, NEW d \in Device, NEW v \in Value \cup {None}, NativeEdit(d, v)
  PROVE  IInv' /\ (RemovedForGood /\ WInv => WInv')
<1>1. TypeInv /\ DeviceInv(d)
  BY DEF IInv
<1>2. Stores(live[d], v) \in Stored /\ Stores(live[d], v).val = v
  BY <1>1 DEF TypeInv, Stored, Stores
<1>3. /\ live' = [live EXCEPT ![d] = Stores(@, v)] /\ edited' = edited \cup {d}
      /\ natives' = natives + 1
      /\ UNCHANGED <<made, log, cursor, taken, receipt, pc, plan, writes, interrupts>>
      /\ pc[d] = "idle" /\ (receipt[d] = None \/ "edit" \in Outside)
      /\ Recreation \/ v # None
  BY DEF NativeEdit, KeepRun, Idle
<1>4. Used' = Used /\ GraphInv' /\ (RemovalInv => RemovalInv') /\ \A j \in Used : made'[j] = made[j]
  BY <1>3, SameGraph
<1>5. TypeInv'
  BY <1>1, <1>2, <1>3 DEF TypeInv
<1>6. live'[d].val = v /\ d \in edited'
  BY <1>1, <1>2, <1>3 DEF TypeInv
<1>7. DeviceInv(d)'
  BY <1>1, <1>3, <1>4, <1>6 DEF DeviceInv, LogAt, PlanAt, ReceiptAt, LiveAt, Ancestry
<1>8. \A e \in Device \ {d} :
        /\ log'[e] = log[e] /\ live'[e] = live[e] /\ cursor'[e] = cursor[e]
        /\ receipt'[e] = receipt[e] /\ pc'[e] = pc[e] /\ plan'[e] = plan[e]
        /\ writes'[e] = writes[e] /\ (e \in edited' <=> e \in edited)
  BY <1>1, <1>3 DEF TypeInv
<1>9. IInv' /\ (WInv /\ RemovalInv' /\ GoneAt(d)' /\ WriteAt(d)' => WInv')
  BY <1>4, <1>5, <1>7, <1>8, AtOne
<1>10. ASSUME RemovedForGood, WInv PROVE RemovalInv' /\ GoneAt(d)' /\ WriteAt(d)'
  <2>1. v # None /\ receipt[d] = None
    BY <1>3, <1>10 DEF RemovedForGood
  <2>2. GoneAt(d)'
    BY <1>6, <2>1 DEF GoneAt
  <2>3. WriteAt(d)'
    BY <1>3, <1>10, <2>1 DEF WriteAt, WInv
  <2> QED
    BY <1>4, <1>10, <2>2, <2>3 DEF WInv
<1> QED
  BY <1>9, <1>10

LEMMA ImportKeeps ==
  ASSUME IInv, NEW d \in Device, NEW i \in Id, Import(d, i)
  PROVE  IInv' /\ (RemovedForGood /\ WInv => WInv')
<1>1. TypeInv /\ DeviceInv(d)
  BY DEF IInv
<1>2. /\ log' = [log EXCEPT ![d] = @ \cup {i}]
      /\ UNCHANGED <<made, live, cursor, natives, edited, taken, receipt, pc, plan, writes, interrupts>>
      /\ i \in Used /\ made[i].past \subseteq log[d]
  BY DEF Import, KeepRun
<1>3. Used' = Used /\ GraphInv' /\ (RemovalInv => RemovalInv') /\ \A j \in Used : made'[j] = made[j]
  BY <1>2, SameGraph
<1>4. TypeInv'
  BY <1>1, <1>2 DEF TypeInv
<1>5. log'[d] = log[d] \cup {i}
  BY <1>1, <1>2 DEF TypeInv
<1>6. LogAt(d)'
  BY <1>1, <1>2, <1>3, <1>5 DEF DeviceInv, LogAt
<1>7. DeviceInv(d)'
  BY <1>1, <1>2, <1>6 DEF DeviceInv, PlanAt, ReceiptAt, LiveAt, Ancestry, Applied, Written
<1>8. \A e \in Device \ {d} :
        /\ log'[e] = log[e] /\ live'[e] = live[e] /\ cursor'[e] = cursor[e]
        /\ receipt'[e] = receipt[e] /\ pc'[e] = pc[e] /\ plan'[e] = plan[e]
        /\ writes'[e] = writes[e] /\ (e \in edited' <=> e \in edited)
  BY <1>1, <1>2 DEF TypeInv
<1>9. IInv' /\ (WInv /\ RemovalInv' /\ GoneAt(d)' /\ WriteAt(d)' => WInv')
  BY <1>3, <1>4, <1>7, <1>8, AtOne
<1>10. ASSUME WInv PROVE RemovalInv' /\ GoneAt(d)' /\ WriteAt(d)'
  BY <1>2, <1>3, <1>10 DEF WInv, GoneAt, WriteAt, OneWrite, Written, Materialized
<1> QED
  BY <1>9, <1>10

LEMMA BeginApplyKeeps ==
  ASSUME IInv, NEW d \in Device, BeginApply(d)
  PROVE  IInv' /\ (RemovedForGood /\ WInv => WInv')
<1>1. TypeInv /\ GraphInv /\ DeviceInv(d)
  BY DEF IInv
<1> DEFINE P == PlanOf(log[d], cursor[d])
<1>2. /\ plan' = [plan EXCEPT ![d] = P] /\ pc' = [pc EXCEPT ![d] = "apply"]
      /\ UNCHANGED <<made, log, live, cursor, receipt, natives, interrupts, edited, writes, taken>>
      /\ log[d] # {} /\ receipt[d] = None
  BY DEF BeginApply, Goto
<1>3. Used' = Used /\ GraphInv' /\ (RemovalInv => RemovalInv') /\ \A j \in Used : made'[j] = made[j]
  BY <1>2, SameGraph
<1>4. P \subseteq log[d] /\ (cursor[d] # None => P \cap Ancestry(cursor[d]) = {})
  <2>1. log[d] \in SUBSET Used
    BY <1>1 DEF DeviceInv, LogAt
  <2>2. Winner(log[d]) \in log[d]
    BY <1>1, <1>2, <2>1, WinnerExists DEF Heads
  <2> QED
    BY <1>1, <2>2 DEF PlanOf, DeviceInv, LogAt, Ancestry
<1> HIDE DEF P
<1>5. TypeInv'
  BY <1>1, <1>2, <1>4 DEF TypeInv, Locations
<1>6. plan'[d] = P /\ pc'[d] = "apply"
  BY <1>1, <1>2 DEF TypeInv
<1>7. DeviceInv(d)'
  BY <1>1, <1>2, <1>3, <1>4, <1>6
     DEF DeviceInv, LogAt, PlanAt, ReceiptAt, LiveAt, Ancestry, Applied
<1>8. \A e \in Device \ {d} :
        /\ log'[e] = log[e] /\ live'[e] = live[e] /\ cursor'[e] = cursor[e]
        /\ receipt'[e] = receipt[e] /\ pc'[e] = pc[e] /\ plan'[e] = plan[e]
        /\ writes'[e] = writes[e] /\ (e \in edited' <=> e \in edited)
  BY <1>1, <1>2 DEF TypeInv
<1>9. IInv' /\ (WInv /\ RemovalInv' /\ GoneAt(d)' /\ WriteAt(d)' => WInv')
  BY <1>3, <1>5, <1>7, <1>8, AtOne
<1>10. ASSUME WInv PROVE RemovalInv' /\ GoneAt(d)' /\ WriteAt(d)'
  BY <1>2, <1>3, <1>10 DEF WInv, GoneAt, WriteAt
<1> QED
  BY <1>9, <1>10

\* A change is taken up after its ancestors; when it is a put of a note that is not there,
\* the note never was.
LEMMA BeginReceiptKeeps ==
  ASSUME IInv, NEW d \in Device, NEW i \in Id, BeginReceipt(d, i)
  PROVE  IInv' /\ (RemovedForGood /\ WInv => WInv')
<1>1. TypeInv /\ GraphInv /\ DeviceInv(d)
  BY DEF IInv
<1> DEFINE E == IF made[i].val = None THEN 0 ELSE IF live[d].val = None THEN 1 ELSE live[d].rev + 1
           r == [id |-> i, phase |-> "prepared", expected |-> E]
<1>2. /\ receipt' = [receipt EXCEPT ![d] = r]
      /\ plan' = [plan EXCEPT ![d] = @ \ {i}] /\ pc' = [pc EXCEPT ![d] = "store"]
      /\ UNCHANGED <<made, log, live, cursor, natives, interrupts, edited, writes, taken>>
      /\ i \in plan[d] /\ \A j \in plan[d] \ {i} : Earlier(i, j)
      /\ pc[d] = "apply"
  BY DEF BeginReceipt, Goto
<1>3. Used' = Used /\ GraphInv' /\ (RemovalInv => RemovalInv') /\ \A j \in Used : made'[j] = made[j]
  BY <1>2, SameGraph
<1>4. E \in Nat
  BY <1>1 DEF TypeInv, Stored
<1> HIDE DEF E
<1>5. r \in Receipt /\ r.id = i /\ r.phase = "prepared" /\ r.expected = E
  BY <1>4 DEF Receipt, Phases
<1> HIDE DEF r
<1>6. r # None
  BY <1>5, ConstantsOK
<1>7. TypeInv'
  BY <1>1, <1>2, <1>5 DEF TypeInv, Locations
<1>8. receipt'[d] = r /\ plan'[d] = plan[d] \ {i} /\ pc'[d] = "store"
  BY <1>1, <1>2 DEF TypeInv
<1>9. receipt[d] = None /\ i \in log[d] /\ plan[d] \subseteq Used /\ i \in Used
  BY <1>1, <1>2 DEF DeviceInv, ReceiptAt, LogAt
<1>10. plan'[d] \cap Ancestry(i) = {}
  <2>1. ASSUME NEW j \in plan[d] \ {i}, j \in made[i].past PROVE FALSE
    <3>1. made[j].rev < made[i].rev /\ made[i].rev \in Nat /\ made[j].rev \in Nat
      BY <1>1, <1>9, <2>1 DEF GraphInv, TypeInv, Used, Change
    <3> QED
      BY <1>2, <3>1 DEF Earlier
  <2> QED
    BY <1>8, <2>1 DEF Ancestry
<1>11. LogAt(d)' /\ PlanAt(d)'
  BY <1>1, <1>2, <1>3, <1>5, <1>8, <1>9, <1>10 DEF DeviceInv, LogAt, PlanAt, Ancestry
<1>12. DeviceInv(d)'
  BY <1>5, <1>6, <1>8, <1>11 DEF DeviceInv, ReceiptAt, LiveAt, Written
<1>13. \A e \in Device \ {d} :
        /\ log'[e] = log[e] /\ live'[e] = live[e] /\ cursor'[e] = cursor[e]
        /\ receipt'[e] = receipt[e] /\ pc'[e] = pc[e] /\ plan'[e] = plan[e]
        /\ writes'[e] = writes[e] /\ (e \in edited' <=> e \in edited)
  BY <1>1, <1>2 DEF TypeInv
<1>14. IInv' /\ (WInv /\ RemovalInv' /\ GoneAt(d)' /\ WriteAt(d)' => WInv')
  BY <1>3, <1>7, <1>12, <1>13, AtOne
<1>15. ASSUME WInv PROVE RemovalInv' /\ GoneAt(d)' /\ WriteAt(d)'
  <2>1. RemovalInv /\ GoneAt(d) /\ WriteAt(d)
    BY <1>15 DEF WInv
  <2>2. cursor[d] # None => cursor[d] \in Used /\ made[cursor[d]].val # None
    BY <1>1, <1>2, <1>9, <2>1 DEF RemovalInv, DeviceInv, LogAt, PlanAt
  <2>3. live[d].val = None => live[d].rev = 0
    BY <1>9, <2>1, <2>2 DEF GoneAt
  <2>4. GoneAt(d)'
    BY <1>2, <2>3 DEF GoneAt
  <2>5. made[i].val # None => live[d].rev + 1 = E
    BY <2>3 DEF E
  <2>6. OneWrite(d)'
    BY <1>2, <1>5, <1>8, <1>9, <2>1, <2>5 DEF OneWrite, WriteAt
  <2>7. WriteAt(d)'
    BY <1>5, <1>6, <1>8, <2>6 DEF WriteAt, Written
  <2> QED
    BY <1>3, <2>1, <2>4, <2>7
<1> QED
  BY <1>14, <1>15

\* Storage takes the receipt's state, in one write.
LEMMA StoreKeeps ==
  ASSUME IInv, NEW d \in Device, Store(d)
  PROVE  IInv' /\ (RemovedForGood /\ WInv => WInv')
<1>1. TypeInv /\ GraphInv /\ DeviceInv(d)
  BY DEF IInv
<1> DEFINE i == receipt[d].id
           v == made[i].val
<1>2. /\ edited' = edited \ {d} /\ taken' = [taken EXCEPT ![d] = @ \cup {i}]
      /\ pc' = [pc EXCEPT ![d] = "verify"]
      /\ UNCHANGED <<made, log, cursor, receipt, plan, natives, interrupts>>
      /\ pc[d] = "store"
      /\ \/ Materialized(d) /\ UNCHANGED <<live, writes>>
         \/ /\ ~Materialized(d) /\ live' = [live EXCEPT ![d] = Stores(@, v)]
            /\ writes' = [writes EXCEPT ![d] = @ + 1]
  BY DEF Store, Goto
<1>3. Used' = Used /\ GraphInv' /\ (RemovalInv => RemovalInv') /\ \A j \in Used : made'[j] = made[j]
  BY <1>2, SameGraph
<1>4. receipt[d] # None /\ receipt[d].phase = "prepared" /\ i \in Used
  BY <1>1, <1>2 DEF DeviceInv, ReceiptAt, LogAt
<1>5. v \in Value \cup {None} /\ receipt[d] \in Receipt /\ i \in Id
  BY <1>1, <1>4 DEF TypeInv, Used, Change, Receipt
<1> HIDE DEF i
<1>6. Stores(live[d], v) \in Stored /\ Stores(live[d], v).val = v
      /\ (v # None => Stores(live[d], v).rev = live[d].rev + 1)
  BY <1>1, <1>5 DEF TypeInv, Stored, Stores
<1>7. TypeInv'
  BY <1>1, <1>2, <1>5, <1>6 DEF TypeInv, Locations
<1> HIDE DEF v
<1>8. pc'[d] = "verify" /\ d \notin edited' /\ live'[d].val = v
  BY <1>1, <1>2, <1>6 DEF TypeInv, Materialized, v, i
<1>9. DeviceInv(d)'
  BY <1>1, <1>2, <1>3, <1>4, <1>8 DEF DeviceInv, LogAt, PlanAt, ReceiptAt, LiveAt, Ancestry, v, i
<1>10. \A e \in Device \ {d} :
        /\ log'[e] = log[e] /\ live'[e] = live[e] /\ cursor'[e] = cursor[e]
        /\ receipt'[e] = receipt[e] /\ pc'[e] = pc[e] /\ plan'[e] = plan[e]
        /\ writes'[e] = writes[e] /\ (e \in edited' <=> e \in edited)
  BY <1>1, <1>2 DEF TypeInv
<1>11. IInv' /\ (WInv /\ RemovalInv' /\ GoneAt(d)' /\ WriteAt(d)' => WInv')
  BY <1>3, <1>7, <1>9, <1>10, AtOne
<1>12. ASSUME WInv PROVE RemovalInv' /\ GoneAt(d)' /\ WriteAt(d)'
  <2>1. RemovalInv /\ OneWrite(d)
    BY <1>4, <1>12 DEF WInv, WriteAt
  <2>2. GoneAt(d)'
    BY <1>2, <1>4, <1>8 DEF GoneAt, v, i
  <2>3. CASE Materialized(d) /\ UNCHANGED <<live, writes>>
    <3>1. writes[d] <= 1
      BY <2>1, <2>3 DEF OneWrite
    <3>2. Materialized(d)'
      BY <1>2, <2>3 DEF Materialized
    <3> QED
      BY <1>2, <1>3, <1>4, <2>1, <2>2, <2>3, <3>1, <3>2 DEF WriteAt, OneWrite
  <2>4. CASE /\ ~Materialized(d) /\ live' = [live EXCEPT ![d] = Stores(@, v)]
             /\ writes' = [writes EXCEPT ![d] = @ + 1]
    <3>1. writes[d] = 0 /\ (v # None => live[d].rev + 1 = receipt[d].expected)
      BY <2>1, <2>4 DEF OneWrite, v, i
    <3>2. writes'[d] = 1 /\ live'[d] = Stores(live[d], v)
      BY <1>1, <2>4, <3>1 DEF TypeInv
    <3>3. Materialized(d)'
      BY <1>2, <1>6, <3>1, <3>2 DEF Materialized, v, i
    <3> QED
      BY <1>2, <1>3, <1>4, <2>1, <2>2, <3>2, <3>3 DEF WriteAt, OneWrite
  <2> QED
    BY <1>2, <2>3, <2>4
<1> QED
  BY <1>11, <1>12

LEMMA VerifyKeeps ==
  ASSUME IInv, NEW d \in Device, Verify(d)
  PROVE  IInv' /\ (RemovedForGood /\ WInv => WInv')
<1>1. TypeInv /\ GraphInv /\ DeviceInv(d)
  BY DEF IInv
<1>2. /\ pc[d] = "verify"
      /\ UNCHANGED <<made, log, live, cursor, natives, interrupts, edited, writes, taken>>
      /\ \/ /\ Materialized(d) /\ receipt' = [receipt EXCEPT ![d].phase = "storage-written"]
            /\ pc' = [pc EXCEPT ![d] = "cursor"] /\ UNCHANGED plan
         \/ /\ ~Materialized(d) /\ plan' = [plan EXCEPT ![d] = {}]
            /\ pc' = [pc EXCEPT ![d] = "idle"] /\ UNCHANGED receipt
  BY DEF Verify, Goto
<1>3. Used' = Used /\ GraphInv' /\ (RemovalInv => RemovalInv') /\ \A j \in Used : made'[j] = made[j]
  BY <1>2, SameGraph
<1>4. \A e \in Device \ {d} :
        /\ log'[e] = log[e] /\ live'[e] = live[e] /\ cursor'[e] = cursor[e]
        /\ receipt'[e] = receipt[e] /\ pc'[e] = pc[e] /\ plan'[e] = plan[e]
        /\ writes'[e] = writes[e] /\ (e \in edited' <=> e \in edited)
  BY <1>1, <1>2 DEF TypeInv
<1>6. receipt[d] \in Receipt /\ receipt[d] # None /\ receipt[d].phase = "prepared"
  BY <1>1, <1>2 DEF TypeInv, DeviceInv, ReceiptAt
<1> DEFINE r == [receipt[d] EXCEPT !.phase = "storage-written"]
<1>7. /\ r \in Receipt /\ r # None /\ r.id = receipt[d].id /\ r.phase = "storage-written"
      /\ r.expected = receipt[d].expected
  <2>1. r \in Receipt /\ r.id = receipt[d].id /\ r.phase = "storage-written"
        /\ r.expected = receipt[d].expected
    BY <1>6 DEF Receipt, Phases
  <2> HIDE DEF r
  <2> QED
    BY <2>1, ConstantsOK
<1>8. \/ /\ Materialized(d) /\ receipt' = [receipt EXCEPT ![d] = r] /\ receipt'[d] = r
         /\ pc' = [pc EXCEPT ![d] = "cursor"] /\ pc'[d] = "cursor" /\ UNCHANGED plan
      \/ /\ ~Materialized(d) /\ plan' = [plan EXCEPT ![d] = {}] /\ plan'[d] = {}
         /\ pc' = [pc EXCEPT ![d] = "idle"] /\ pc'[d] = "idle" /\ UNCHANGED receipt
  BY <1>1, <1>2 DEF TypeInv
<1> HIDE DEF r
<1>5. TypeInv'
  BY <1>1, <1>2, <1>7, <1>8 DEF TypeInv, Locations
<1>9. DeviceInv(d)'
  <2>1. LogAt(d)'
    BY <1>1, <1>2, <1>6, <1>7, <1>8, <1>3 DEF DeviceInv, LogAt
  <2>2. PlanAt(d)'
    BY <1>1, <1>2, <1>6, <1>7, <1>8 DEF DeviceInv, PlanAt, ReceiptAt, Ancestry
  <2>3. ReceiptAt(d)'
    BY <1>1, <1>2, <1>6, <1>7, <1>8 DEF DeviceInv, ReceiptAt
  <2>4. LiveAt(d)'
    BY <1>1, <1>2, <1>6, <1>7, <1>8 DEF DeviceInv, LiveAt, Written, Applied, Materialized
  <2> QED
    BY <2>1, <2>2, <2>3, <2>4 DEF DeviceInv
<1>10. IInv' /\ (WInv /\ RemovalInv' /\ GoneAt(d)' /\ WriteAt(d)' => WInv')
  BY <1>3, <1>4, <1>5, <1>9, AtOne
<1>11. ASSUME WInv PROVE RemovalInv' /\ GoneAt(d)' /\ WriteAt(d)'
  <2>1. RemovalInv /\ GoneAt(d) /\ OneWrite(d) /\ Materialized(d)
    BY <1>2, <1>6, <1>11 DEF WInv, WriteAt, Written
  <2>2. receipt'[d] = r /\ pc'[d] = "cursor"
    BY <1>8, <2>1
  <2>3. GoneAt(d)'
    BY <1>2, <1>6, <1>7, <2>1, <2>2 DEF GoneAt
  <2>4. OneWrite(d)' /\ Materialized(d)'
    BY <1>2, <1>6, <1>7, <2>1, <2>2 DEF OneWrite, Materialized
  <2> QED
    BY <1>3, <1>7, <2>1, <2>2, <2>3, <2>4 DEF WriteAt
<1> QED
  BY <1>10, <1>11

LEMMA WriteCursorKeeps ==
  ASSUME IInv, NEW d \in Device, WriteCursor(d)
  PROVE  IInv' /\ (RemovedForGood /\ WInv => WInv')
<1>1. TypeInv /\ GraphInv /\ DeviceInv(d)
  BY DEF IInv
<1>2. /\ pc[d] = "cursor" /\ cursor' = [cursor EXCEPT ![d] = receipt[d].id]
      /\ pc' = [pc EXCEPT ![d] = "mark"]
      /\ UNCHANGED <<made, log, live, receipt, plan, natives, interrupts, edited, writes, taken>>
  BY DEF WriteCursor, Goto
<1>3. Used' = Used /\ GraphInv' /\ (RemovalInv => RemovalInv') /\ \A j \in Used : made'[j] = made[j]
  BY <1>2, SameGraph
<1>4. \A e \in Device \ {d} :
        /\ log'[e] = log[e] /\ live'[e] = live[e] /\ cursor'[e] = cursor[e]
        /\ receipt'[e] = receipt[e] /\ pc'[e] = pc[e] /\ plan'[e] = plan[e]
        /\ writes'[e] = writes[e] /\ (e \in edited' <=> e \in edited)
  BY <1>1, <1>2 DEF TypeInv
<1>6. receipt[d] \in Receipt /\ receipt[d] # None /\ receipt[d].phase = "storage-written"
  BY <1>1, <1>2 DEF TypeInv, DeviceInv, ReceiptAt
<1>7. receipt[d].id \in Id
  BY <1>6 DEF Receipt
<1>8. cursor'[d] = receipt[d].id /\ pc'[d] = "mark" /\ receipt'[d] = receipt[d] /\ plan'[d] = plan[d]
  BY <1>1, <1>2 DEF TypeInv
<1>5. TypeInv'
  BY <1>1, <1>2, <1>7 DEF TypeInv, Locations
<1>9. DeviceInv(d)'
  <2>1. LogAt(d)'
    BY <1>1, <1>2, <1>6, <1>8, <1>3 DEF DeviceInv, LogAt
  <2>2. PlanAt(d)'
    BY <1>1, <1>2, <1>6, <1>8 DEF DeviceInv, PlanAt, ReceiptAt, Ancestry
  <2>3. ReceiptAt(d)'
    BY <1>1, <1>2, <1>6, <1>8 DEF DeviceInv, ReceiptAt
  <2>4. LiveAt(d)'
    BY <1>1, <1>2, <1>6, <1>8 DEF DeviceInv, LiveAt, Written, Applied, Materialized
  <2> QED
    BY <2>1, <2>2, <2>3, <2>4 DEF DeviceInv
<1>10. IInv' /\ (WInv /\ RemovalInv' /\ GoneAt(d)' /\ WriteAt(d)' => WInv')
  BY <1>3, <1>4, <1>5, <1>9, AtOne
<1>11. ASSUME WInv PROVE RemovalInv' /\ GoneAt(d)' /\ WriteAt(d)'
  <2>1. RemovalInv /\ GoneAt(d) /\ WriteAt(d) /\ Materialized(d)
    BY <1>2, <1>6, <1>11 DEF WInv, WriteAt, Written
  <2>2. GoneAt(d)'
    BY <1>2, <1>6, <1>8, <2>1 DEF GoneAt, Materialized
  <2>3. WriteAt(d)'
    BY <1>2, <1>6, <1>8, <2>1 DEF WriteAt, OneWrite, Materialized, Written
  <2> QED
    BY <1>3, <2>1, <2>2, <2>3
<1> QED
  BY <1>10, <1>11

LEMMA MarkCursorKeeps ==
  ASSUME IInv, NEW d \in Device, MarkCursor(d)
  PROVE  IInv' /\ (RemovedForGood /\ WInv => WInv')
<1>1. TypeInv /\ GraphInv /\ DeviceInv(d)
  BY DEF IInv
<1>2. /\ pc[d] = "mark" /\ receipt' = [receipt EXCEPT ![d].phase = "cursor-written"]
      /\ pc' = [pc EXCEPT ![d] = "clear"]
      /\ UNCHANGED <<made, log, live, cursor, plan, natives, interrupts, edited, writes, taken>>
  BY DEF MarkCursor, Goto
<1>3. Used' = Used /\ GraphInv' /\ (RemovalInv => RemovalInv') /\ \A j \in Used : made'[j] = made[j]
  BY <1>2, SameGraph
<1>4. \A e \in Device \ {d} :
        /\ log'[e] = log[e] /\ live'[e] = live[e] /\ cursor'[e] = cursor[e]
        /\ receipt'[e] = receipt[e] /\ pc'[e] = pc[e] /\ plan'[e] = plan[e]
        /\ writes'[e] = writes[e] /\ (e \in edited' <=> e \in edited)
  BY <1>1, <1>2 DEF TypeInv
<1>6. receipt[d] \in Receipt /\ receipt[d] # None /\ receipt[d].phase = "storage-written"
  BY <1>1, <1>2 DEF TypeInv, DeviceInv, ReceiptAt
<1> DEFINE r == [receipt[d] EXCEPT !.phase = "cursor-written"]
<1>7. /\ r \in Receipt /\ r # None /\ r.id = receipt[d].id /\ r.phase = "cursor-written"
      /\ r.expected = receipt[d].expected
  <2>1. r \in Receipt /\ r.id = receipt[d].id /\ r.phase = "cursor-written"
        /\ r.expected = receipt[d].expected
    BY <1>6 DEF Receipt, Phases
  <2> HIDE DEF r
  <2> QED
    BY <2>1, ConstantsOK
<1>8. /\ receipt' = [receipt EXCEPT ![d] = r] /\ receipt'[d] = r /\ pc'[d] = "clear"
      /\ cursor'[d] = cursor[d] /\ plan'[d] = plan[d]
  BY <1>1, <1>2 DEF TypeInv
<1> HIDE DEF r
<1>5. TypeInv'
  BY <1>1, <1>2, <1>7, <1>8 DEF TypeInv, Locations
<1>9. DeviceInv(d)'
  <2>1. LogAt(d)'
    BY <1>1, <1>2, <1>6, <1>7, <1>8, <1>3 DEF DeviceInv, LogAt
  <2>2. PlanAt(d)'
    BY <1>1, <1>2, <1>6, <1>7, <1>8 DEF DeviceInv, PlanAt, ReceiptAt, Ancestry
  <2>3. ReceiptAt(d)'
    BY <1>1, <1>2, <1>6, <1>7, <1>8 DEF DeviceInv, ReceiptAt
  <2>4. LiveAt(d)'
    BY <1>1, <1>2, <1>6, <1>7, <1>8 DEF DeviceInv, LiveAt, Written, Applied, Materialized
  <2> QED
    BY <2>1, <2>2, <2>3, <2>4 DEF DeviceInv
<1>10. IInv' /\ (WInv /\ RemovalInv' /\ GoneAt(d)' /\ WriteAt(d)' => WInv')
  BY <1>3, <1>4, <1>5, <1>9, AtOne
<1>11. ASSUME WInv PROVE RemovalInv' /\ GoneAt(d)' /\ WriteAt(d)'
  <2>1. RemovalInv /\ GoneAt(d) /\ WriteAt(d) /\ Materialized(d)
    BY <1>2, <1>6, <1>11 DEF WInv, WriteAt, Written
  <2>2. GoneAt(d)'
    BY <1>2, <1>6, <1>7, <1>8, <2>1 DEF GoneAt
  <2>3. WriteAt(d)'
    BY <1>2, <1>6, <1>7, <1>8, <2>1 DEF WriteAt, OneWrite, Materialized, Written
  <2> QED
    BY <1>3, <2>1, <2>2, <2>3
<1> QED
  BY <1>10, <1>11

\* The receipt goes when storage and cursor are at its change.
LEMMA ClearKeeps ==
  ASSUME IInv, NEW d \in Device, Clear(d)
  PROVE  IInv' /\ (RemovedForGood /\ WInv => WInv')
<1>1. TypeInv /\ GraphInv /\ DeviceInv(d)
  BY DEF IInv
<1>2. /\ pc[d] = "clear" /\ receipt' = [receipt EXCEPT ![d] = None]
      /\ writes' = [writes EXCEPT ![d] = 0]
      /\ pc' = [pc EXCEPT ![d] = IF plan[d] = {} THEN "idle" ELSE "apply"]
      /\ UNCHANGED <<made, log, live, cursor, plan, natives, interrupts, edited, taken>>
  BY DEF Clear, Goto
<1>3. Used' = Used /\ GraphInv' /\ (RemovalInv => RemovalInv') /\ \A j \in Used : made'[j] = made[j]
  BY <1>2, SameGraph
<1>4. \A e \in Device \ {d} :
        /\ log'[e] = log[e] /\ live'[e] = live[e] /\ cursor'[e] = cursor[e]
        /\ receipt'[e] = receipt[e] /\ pc'[e] = pc[e] /\ plan'[e] = plan[e]
        /\ writes'[e] = writes[e] /\ (e \in edited' <=> e \in edited)
  BY <1>1, <1>2 DEF TypeInv
<1>6. receipt[d] # None /\ receipt[d].phase = "cursor-written" /\ cursor[d] = receipt[d].id
  BY <1>1, <1>2 DEF DeviceInv, ReceiptAt, LiveAt
<1>7. cursor[d] # None
  BY <1>1, <1>6, ConstantsOK DEF DeviceInv, LogAt, Used
<1>8. /\ receipt'[d] = None /\ pc'[d] = (IF plan[d] = {} THEN "idle" ELSE "apply")
      /\ writes'[d] = 0 /\ cursor'[d] = cursor[d] /\ plan'[d] = plan[d]
  BY <1>1, <1>2 DEF TypeInv
<1>5. TypeInv'
  BY <1>1, <1>2 DEF TypeInv, Locations
<1>9. DeviceInv(d)'
  <2>1. LogAt(d)'
    BY <1>1, <1>2, <1>6, <1>7, <1>8, <1>3 DEF DeviceInv, LogAt
  <2>2. PlanAt(d)'
    BY <1>1, <1>2, <1>6, <1>7, <1>8 DEF DeviceInv, PlanAt, ReceiptAt, Ancestry
  <2>3. ReceiptAt(d)'
    BY <1>1, <1>2, <1>6, <1>7, <1>8 DEF DeviceInv, ReceiptAt
  <2>4. LiveAt(d)'
    BY <1>1, <1>2, <1>6, <1>7, <1>8 DEF DeviceInv, LiveAt, Written, Applied, Materialized
  <2> QED
    BY <2>1, <2>2, <2>3, <2>4 DEF DeviceInv
<1>10. IInv' /\ (WInv /\ RemovalInv' /\ GoneAt(d)' /\ WriteAt(d)' => WInv')
  BY <1>3, <1>4, <1>5, <1>9, AtOne
<1>11. ASSUME WInv PROVE RemovalInv' /\ GoneAt(d)' /\ WriteAt(d)'
  <2>1. RemovalInv /\ GoneAt(d)
    BY <1>11 DEF WInv
  <2>2. GoneAt(d)'
    BY <1>2, <1>6, <1>7, <1>8, <2>1 DEF GoneAt
  <2>3. WriteAt(d)'
    BY <1>8 DEF WriteAt
  <2> QED
    BY <1>3, <2>1, <2>2, <2>3
<1> QED
  BY <1>10, <1>11

LEMMA RecoverKeeps ==
  ASSUME IInv, NEW d \in Device, Recover(d)
  PROVE  IInv' /\ (RemovedForGood /\ WInv => WInv')
<1>1. TypeInv /\ GraphInv /\ DeviceInv(d)
  BY DEF IInv
<1>2. /\ pc[d] = "idle" /\ receipt[d] # None /\ pc' = [pc EXCEPT ![d] = Resume[receipt[d].phase]]
      /\ UNCHANGED <<made, log, live, cursor, receipt, plan, natives, interrupts, edited, writes, taken>>
  BY DEF Recover, Goto, Idle
<1>3. Used' = Used /\ GraphInv' /\ (RemovalInv => RemovalInv') /\ \A j \in Used : made'[j] = made[j]
  BY <1>2, SameGraph
<1>4. \A e \in Device \ {d} :
        /\ log'[e] = log[e] /\ live'[e] = live[e] /\ cursor'[e] = cursor[e]
        /\ receipt'[e] = receipt[e] /\ pc'[e] = pc[e] /\ plan'[e] = plan[e]
        /\ writes'[e] = writes[e] /\ (e \in edited' <=> e \in edited)
  BY <1>1, <1>2 DEF TypeInv
<1>6. receipt[d] \in Receipt /\ receipt[d].phase \in Phases
  BY <1>1, <1>2 DEF TypeInv, Receipt
<1>7. /\ receipt[d].phase = "prepared" => Resume[receipt[d].phase] = "store"
      /\ receipt[d].phase = "storage-written" => Resume[receipt[d].phase] = "cursor"
      /\ receipt[d].phase = "cursor-written" => Resume[receipt[d].phase] = "clear"
  BY <1>6 DEF Resume, Phases
<1>8. /\ pc'[d] \in {"store", "cursor", "clear"}
      /\ pc'[d] = "store" <=> receipt[d].phase = "prepared"
      /\ pc'[d] = "cursor" <=> receipt[d].phase = "storage-written"
      /\ pc'[d] = "clear" <=> receipt[d].phase = "cursor-written"
  BY <1>1, <1>2, <1>6, <1>7 DEF TypeInv, Phases
<1>5. TypeInv'
  BY <1>1, <1>2, <1>6, <1>7 DEF TypeInv, Locations, Phases
<1>9. DeviceInv(d)'
  <2>1. LogAt(d)'
    BY <1>1, <1>2, <1>8, <1>3 DEF DeviceInv, LogAt
  <2>2. PlanAt(d)'
    BY <1>1, <1>2, <1>8 DEF DeviceInv, PlanAt, ReceiptAt, Ancestry
  <2>3. ReceiptAt(d)'
    BY <1>1, <1>2, <1>8 DEF DeviceInv, ReceiptAt
  <2>4. LiveAt(d)'
    BY <1>1, <1>2, <1>8 DEF DeviceInv, LiveAt, Written, Applied, Materialized
  <2> QED
    BY <2>1, <2>2, <2>3, <2>4 DEF DeviceInv
<1>10. IInv' /\ (WInv /\ RemovalInv' /\ GoneAt(d)' /\ WriteAt(d)' => WInv')
  BY <1>3, <1>4, <1>5, <1>9, AtOne
<1>11. ASSUME WInv PROVE RemovalInv' /\ GoneAt(d)' /\ WriteAt(d)'
  BY <1>2, <1>3, <1>8, <1>11 DEF WInv, GoneAt, WriteAt, OneWrite, Materialized, Written
<1> QED
  BY <1>10, <1>11

\* What is on disk stays.
LEMMA InterruptKeeps ==
  ASSUME IInv, NEW d \in Device, Interrupt(d)
  PROVE  IInv' /\ (RemovedForGood /\ WInv => WInv')
<1>1. TypeInv /\ GraphInv /\ DeviceInv(d)
  BY DEF IInv
<1>2. /\ interrupts' = interrupts + 1 /\ pc' = [pc EXCEPT ![d] = "idle"]
      /\ plan' = [plan EXCEPT ![d] = {}]
      /\ UNCHANGED <<made, log, live, cursor, receipt, natives, edited, writes, taken>>
  BY DEF Interrupt, Goto
<1>3. Used' = Used /\ GraphInv' /\ (RemovalInv => RemovalInv') /\ \A j \in Used : made'[j] = made[j]
  BY <1>2, SameGraph
<1>4. \A e \in Device \ {d} :
        /\ log'[e] = log[e] /\ live'[e] = live[e] /\ cursor'[e] = cursor[e]
        /\ receipt'[e] = receipt[e] /\ pc'[e] = pc[e] /\ plan'[e] = plan[e]
        /\ writes'[e] = writes[e] /\ (e \in edited' <=> e \in edited)
  BY <1>1, <1>2 DEF TypeInv
<1>6. pc'[d] = "idle" /\ plan'[d] = {}
  BY <1>1, <1>2 DEF TypeInv
<1>5. TypeInv'
  BY <1>1, <1>2 DEF TypeInv, Locations
<1>9. DeviceInv(d)'
  BY <1>1, <1>2, <1>3, <1>6
     DEF DeviceInv, LogAt, PlanAt, ReceiptAt, LiveAt, Ancestry, Written, Applied
<1>10. IInv' /\ (WInv /\ RemovalInv' /\ GoneAt(d)' /\ WriteAt(d)' => WInv')
  BY <1>3, <1>4, <1>5, <1>9, AtOne
<1>11. ASSUME WInv PROVE RemovalInv' /\ GoneAt(d)' /\ WriteAt(d)'
  BY <1>2, <1>3, <1>6, <1>11 DEF WInv, GoneAt, WriteAt, OneWrite, Materialized, Written
<1> QED
  BY <1>10, <1>11

\* Every step keeps the invariants.
LEMMA NextKeeps ==
  ASSUME IInv, [Next]_vars
  PROVE  IInv' /\ (RemovedForGood /\ WInv => WInv')
<1>1. CASE UNCHANGED vars
  <2> USE <1>1 DEF vars
  <2>1. TypeInv' /\ GraphInv'
    BY DEF IInv, TypeInv, GraphInv, Ancestry, Used
  <2>2. \A d \in Device : DeviceInv(d)'
    BY DEF IInv, DeviceInv, LogAt, PlanAt, ReceiptAt, LiveAt, Written, Applied, Ancestry, Used
  <2>3. ASSUME WInv PROVE RemovalInv' /\ \A d \in Device : GoneAt(d)' /\ WriteAt(d)'
    BY <2>3 DEF WInv, RemovalInv, GoneAt, WriteAt, OneWrite, Materialized, Written, Ancestry, Used
  <2> QED
    BY <2>1, <2>2, <2>3 DEF IInv, WInv
<1>2. ASSUME NEW d \in Device, Step(d) PROVE IInv' /\ (RemovedForGood /\ WInv => WInv')
  <2>1. ASSUME NEW i \in Id, BeginReceipt(d, i) PROVE IInv' /\ (RemovedForGood /\ WInv => WInv')
    BY <2>1, BeginReceiptKeeps
  <2> QED
    BY <1>2, <2>1, StoreKeeps, VerifyKeeps, WriteCursorKeeps, MarkCursorKeeps, ClearKeeps,
       RecoverKeeps DEF Step
<1>3. ASSUME NEW d \in Device, Settling(d) PROVE IInv' /\ (RemovedForGood /\ WInv => WInv')
  BY <1>3, BeginApplyKeeps, ResolveKeeps DEF Settling
<1> QED
  BY <1>1, <1>2, <1>3, EditKeeps, NativeEditKeeps, CaptureKeeps, ImportKeeps, InterruptKeeps
     DEF Next

LEMMA Invariance == Spec => []IInv
<1>1. Init => IInv
  BY InitIInv
<1>2. IInv /\ [Next]_vars => IInv'
  BY NextKeeps
<1> QED
  BY <1>1, <1>2, PTL DEF Spec

LEMMA WriteInvariance == ASSUME RemovedForGood PROVE Spec => []WInv
<1>1. Init => WInv
  BY InitIInv
<1>2. WInv /\ [Next]_vars => WInv'
  BY NextKeeps DEF WInv
<1> QED
  BY <1>1, <1>2, PTL DEF Spec
-----------------------------------------------------------------------------
(* The theorems. *)

\* The state stays well typed: logs hold recorded changes, and cursors and receipts name
\* changes of their device's log (sync.ts:2957-3000).
THEOREM ReplicasTypeSafety == Spec => []TypeOK
<1>1. IInv => TypeOK
  BY DEF IInv, TypeInv, TypeOK, DeviceInv, LogAt
<1> QED
  BY <1>1, Invariance, PTL

\* The winner of a log is one of its heads, and no change in it has a higher revision.
WinnerOnTop ==
  \A d \in Device : log[d] # {} =>
    /\ Winner(log[d]) \in Heads(log[d])
    /\ \A i \in log[d] : made[i].rev <= made[Winner(log[d])].rev

\* However edits, imports and resolutions interleave, resolveSyncObject has one display
\* winner for every log, and it is a head above everything the device has, which is what
\* lets the next edit count on from it (sync.ts:1796-1836).
THEOREM ReplicasHaveAWinner == Spec => []WinnerOnTop
<1>1. IInv => WinnerOnTop
  BY WinnerExists DEF IInv, WinnerOnTop, DeviceInv, LogAt
<1> QED
  BY <1>1, Invariance, PTL

\* With no receipt on disk, live storage is what the change under the cursor says, unless
\* sessions without sync edited it since, while a receipt was on disk included
\* (engine.ts:105-136).
THEOREM ReplicasLiveMatchesCursor == Spec => []LiveMatchesCursor
<1>1. IInv => LiveMatchesCursor
  BY DEF IInv, LiveMatchesCursor, DeviceInv, LiveAt
<1> QED
  BY <1>1, Invariance, PTL

\* No change is applied while one of its ancestors is still to be applied, for any graph of
\* changes: the storage order, by revision and then by an ID that knows nothing of
\* causality, agrees with causality (planSyncApplication).
THEOREM ReplicasAncestorsFirst == Spec => []AncestorsFirst
<1>1. IInv => AncestorsFirst
  BY DEF IInv, AncestorsFirst, DeviceInv, PlanAt, Ancestry
<1> QED
  BY <1>1, Invariance, PTL

\* When removals are for good and sessions without sync wait for the receipt, the storage a
\* receipt left is always the one it expects, and recovery completes (sync.ts:3053-3058).
THEOREM ReplicasMaterialize == RemovedForGood /\ Spec => []ReceiptsMaterialize
<1> SUFFICES ASSUME RemovedForGood PROVE Spec => []ReceiptsMaterialize
  OBVIOUS
<1>1. WInv => ReceiptsMaterialize
  BY DEF WInv, IInv, ReceiptsMaterialize, WriteAt, Written, DeviceInv, ReceiptAt
<1> QED
  BY <1>1, WriteInvariance, PTL

\* Under the same condition a receipt writes storage once, however often its application is
\* interrupted and rolled forward (engine.ts:82-90).
THEOREM ReplicasWriteOnce == RemovedForGood /\ Spec => []ReceiptWritesOnce
<1> SUFFICES ASSUME RemovedForGood PROVE Spec => []ReceiptWritesOnce
  OBVIOUS
<1>1. WInv => ReceiptWritesOnce
  <2> SUFFICES ASSUME WInv, NEW d \in Device PROVE writes[d] <= 1
    BY DEF ReceiptWritesOnce
  <2>1. WriteAt(d)
    BY DEF WInv
  <2> QED
    BY <2>1 DEF WriteAt, OneWrite
<1> QED
  BY <1>1, WriteInvariance, PTL
=============================================================================
