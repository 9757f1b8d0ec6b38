----------------------- MODULE LocalTransactionProofs -----------------------
(***************************************************************************)
(* Proofs about LocalTransaction for every set of notes and values and      *)
(* every bound, while nothing else writes during an intent: an intent rolls *)
(* forward from wherever it stopped, the log stays a chain and names what   *)
(* is live, and a captured edit is one step of AtomicCapture.               *)
(***************************************************************************)
EXTENDS LocalTransaction, SequenceTheorems, WellFoundedInduction, TLAPS

\* Other sessions wait until an intent is rolled forward.
NobodyOutside == Outside = {}

TypeInv ==
  /\ live \in [Note -> Stored] /\ log \in Seq(Change)
  /\ cursor \in [Note -> Nat] /\ \A n \in Note : cursor[n] <= Len(log)
  /\ pending \in Intent \cup {None} /\ pc \in Locations /\ next \in Nat \ {0}
  /\ draft \in [ops : Seq(Operation), changes : Seq(Change)]
  /\ todo \subseteq Note /\ edited \subseteq Note /\ interrupts \in 0 .. MaxInterrupts

\* What ChainAdvances says of the log.
Chain(s) ==
  \A i \in 1 .. Len(s) :
    /\ s[i].base = RevisionOn(SubSeq(s, 1, i - 1), s[i].note)
    /\ s[i].rev = s[i].base + 1

\* The operations of an intent are puts, or there is one; each starts where the one before it
\* on its note ends.
PutsOnly(ops) ==
  \A i \in 1..Len(ops) :
    ops[i].target.val \in Value /\ ops[i].target.rev = ops[i].before.rev + 1
OneOnly(ops) ==
  /\ Len(ops) = 1
  /\ \/ ops[1].target.val = None /\ ops[1].before.val # None
     \/ ops[1].target = ops[1].before
Coherent(ops) ==
  /\ PutsOnly(ops) \/ OneOnly(ops)
  /\ \A i, j \in 1..Len(ops) : i < j /\ ops[i].note = ops[j].note =>
       /\ ops[i].target.rev < ops[j].target.rev
       /\ (\A k \in i + 1 .. j - 1 : ops[k].note # ops[i].note) => ops[j].before = ops[i].target

\* Storage s is where the first m operations leave it.
StandsAt(ops, s, m) ==
  \A i \in 1..Len(ops) :
    /\ i <= m /\ (\A j \in i + 1 .. m : ops[j].note # ops[i].note) => s[ops[i].note] = ops[i].target
    /\ i > m /\ (\A j \in m + 1 .. i - 1 : ops[j].note # ops[i].note) => s[ops[i].note] = ops[i].before

\* The changes name what the operations leave on each note.
Matches(ops, changes) ==
  \A n \in Note :
         /\ LastOn(ops, n) = 0 <=> LastOn(changes, n) = 0
         /\ LastOn(ops, n) # 0 => changes[LastOn(changes, n)].val = ops[LastOn(ops, n)].target.val

Prepared(ops, changes) == ops # << >> /\ changes # << >> /\ Coherent(ops) /\ Matches(ops, changes)

\* A draft builds on what is there.
DraftInv ==
  /\ pc \in {"draft", "save", "capture"} => pending = None
  /\ pc \in {"write", "install", "cursor", "mark", "clear"} => pending # None
  /\ pc \in {"draft", "save"} => Prepared(draft.ops, draft.changes)
  /\ pc = "draft" => PutsOnly(draft.ops)
  /\ pc \notin {"draft", "save"} => draft = Nothing
  /\ pc \notin {"write", "install"} => next = 1
  /\ StandsAt(draft.ops, live, 0) /\ Chain(log \o draft.changes)

\* The log has the first k changes of the intent.
Installed(k) ==
  /\ Len(log) = pending.first - 1 + k
  /\ \A j \in 1..k : log[pending.first - 1 + j] = pending.changes[j]

\* The marker of an intent says what is done for sure; a step may be done that it does not say.
IntentInv ==
  pending # None =>
    /\ Prepared(pending.ops, pending.changes) /\ Chain(CommittedLog)
    /\ pc = "write" => pending.phase = "prepared"
    /\ pc = "install" => pending.phase = "storage-written"
    /\ pc \in {"cursor", "mark"} => pending.phase = "envelope-installed"
    /\ pc = "clear" => pending.phase = "cursor-written"
    /\ pending.phase = "prepared" =>
         /\ Installed(0)
         /\ \E m \in 0..Len(pending.ops) :
              StandsAt(pending.ops, live, m) /\ (pc = "write" => next <= m + 1)
    /\ pending.phase # "prepared" => StandsAt(pending.ops, live, Len(pending.ops))
    /\ pending.phase = "storage-written" =>
         \E k \in 0..Len(pending.changes) : Installed(k) /\ (pc = "install" => next <= k + 1)
    /\ pending.phase \in {"envelope-installed", "cursor-written"} => Installed(Len(pending.changes))

\* Where the cursor is written, and for the notes it is not about.
CursorWritten == pc = "mark" \/ pending.phase = "cursor-written"
CursorInv ==
  /\ pending # None /\ CursorWritten =>
       \A n \in Note : LastOn(pending.changes, n) # 0
         => cursor[n] = pending.first - 1 + LastOn(pending.changes, n)
  /\ \A n \in Note \ edited :
       pending = None \/ CursorWritten \/ LastOn(pending.ops, n) = 0 => live[n].val = Applied(n)

IInv == TypeInv /\ DraftInv /\ IntentInv /\ CursorInv
-----------------------------------------------------------------------------
(* Sequences of entries about notes. *)

\* The greatest of numbers.
LEMMA MaxFacts ==
  ASSUME NEW n \in Nat, NEW S \in SUBSET (1..n), S # {}
  PROVE  Max(S) \in S /\ \A y \in S : y <= Max(S)
<1> DEFINE D == {n - i : i \in S}
           R == {ss \in Nat \X Nat : ss[1] < ss[2]}
<1>1. D \in SUBSET Nat /\ D # {}
  <2>1. \A i \in S : n - i \in Nat
    OBVIOUS
  <2> QED
    BY <2>1
<1>2. IsWellFoundedOn(R, Nat)
  BY NatLessThanWellFounded DEF OpToRel
<1>3. \E d \in D : \A e \in D : ~ (<<e, d>> \in R)
  <2> HIDE DEF D, R
  <2> QED
    BY <1>1, <1>2, WFMin
<1>4. PICK x \in S : \A e \in D : ~ (<<e, n - x>> \in R)
  BY <1>3
<1>5. ASSUME NEW y \in S PROVE x >= y
  <2>1. n - y \in D /\ n - y \in Nat /\ n - x \in Nat
    OBVIOUS
  <2>2. ~(n - y < n - x)
    BY <1>4, <2>1
  <2> QED
    BY <2>2
<1> QED
  BY <1>5 DEF Max

IsLast(s, n, k) ==
  k \in 0..Len(s) /\ (k # 0 => s[k].note = n) /\ \A j \in k + 1 .. Len(s) : s[j].note # n

\* The place of an intent's i-th change is in the log that the intent fills.
LEMMA WithinIntent ==
  \A f \in Nat \ {0}, c \in Nat : \A i \in 1..c : f + i - 1 \in Nat /\ f + i - 1 <= f - 1 + c
OBVIOUS

\* LastOn is what it says, and nothing else is.
LEMMA LastOnFacts ==
  ASSUME NEW s, Len(s) \in Nat, NEW n
  PROVE  IsLast(s, n, LastOn(s, n)) /\ \A k : IsLast(s, n, k) => k = LastOn(s, n)
<1> DEFINE I == {i \in 1..Len(s) : s[i].note = n}
<1>1. LastOn(s, n) = IF I # {} THEN Max(I) ELSE 0
  BY DEF LastOn, SelectLastInSeq
<1>2. I # {} => Max(I) \in I /\ \A i \in I : i <= Max(I)
  BY MaxFacts
<1> HIDE DEF I
<1>3. CASE I = {}
  <2>1. LastOn(s, n) = 0 /\ \A j \in 1..Len(s) : s[j].note # n
    BY <1>1, <1>3 DEF I
  <2> QED
    BY <2>1 DEF IsLast
<1>4. CASE I # {}
  <2> DEFINE m == LastOn(s, n)
  <2>1. m \in I /\ \A i \in I : i <= m
    BY <1>1, <1>2, <1>4
  <2> HIDE DEF m
  <2>2. m \in 1..Len(s) /\ s[m].note = n /\ \A j \in 1..Len(s) : s[j].note = n => j <= m
    BY <2>1 DEF I
  <2>3. IsLast(s, n, m)
    BY <2>2 DEF IsLast
  <2>4. ASSUME NEW k, IsLast(s, n, k) PROVE k = m
    BY <2>2, <2>4 DEF IsLast
  <2> QED
    BY <2>3, <2>4 DEF m
<1> QED
  BY <1>3, <1>4

\* The last entry of two sequences put together.
LEMMA LastOnConcat ==
  ASSUME NEW S, NEW s \in Seq(S), NEW t \in Seq(S), NEW n
  PROVE  LastOn(s \o t, n) = IF LastOn(t, n) = 0 THEN LastOn(s, n) ELSE Len(s) + LastOn(t, n)
<1>1. Len(s) \in Nat /\ Len(t) \in Nat /\ Len(s \o t) = Len(s) + Len(t)
  BY LenProperties, ConcatProperties
<1>2. \A i \in 1..(Len(s) + Len(t)) : (s \o t)[i] = IF i <= Len(s) THEN s[i] ELSE t[i - Len(s)]
  BY ConcatProperties
<1> DEFINE u == s \o t
           a == LastOn(s, n)
           b == LastOn(t, n)
<1>3. IsLast(s, n, a) /\ IsLast(t, n, b)
  BY <1>1, LastOnFacts
<1>4. Len(u) \in Nat /\ \A k : IsLast(u, n, k) => k = LastOn(u, n)
  BY <1>1, LastOnFacts
<1> HIDE DEF u, a, b
<1>5. CASE b = 0
  <2>1. a \in 0..Len(u)
    BY <1>1, <1>3 DEF IsLast, u
  <2>2. a # 0 => u[a].note = n
    BY <1>1, <1>2, <1>3 DEF IsLast, u
  <2>3. ASSUME NEW j \in a + 1 .. Len(u) PROVE u[j].note # n
    <3>0. a \in Nat /\ j \in 1..(Len(s) + Len(t)) /\ a < j
      BY <1>1, <1>3, <2>3 DEF IsLast, u
    <3>1. CASE j <= Len(s)
      BY <1>1, <1>2, <1>3, <3>0, <3>1 DEF IsLast, u
    <3>2. CASE ~(j <= Len(s))
      <4>1. j - Len(s) \in 1..Len(t)
        BY <1>1, <3>0, <3>2
      <4> QED
        BY <1>1, <1>2, <1>3, <1>5, <3>0, <3>2, <4>1 DEF IsLast, u
    <3> QED
      BY <3>1, <3>2
  <2>4. IsLast(u, n, a)
    BY <2>1, <2>2, <2>3 DEF IsLast
  <2> QED
    BY <1>4, <1>5, <2>4 DEF u, a, b
<1>6. CASE b # 0
  <2>1. b \in 1..Len(t) /\ t[b].note = n
    BY <1>1, <1>3, <1>6 DEF IsLast
  <2>2. Len(s) + b \in 0..Len(u) /\ Len(s) + b # 0 /\ u[Len(s) + b].note = n
    BY <1>1, <1>2, <2>1 DEF u
  <2>3. ASSUME NEW j \in (Len(s) + b) + 1 .. Len(u) PROVE u[j].note # n
    <3>1. j \in 1..(Len(s) + Len(t)) /\ ~(j <= Len(s)) /\ j - Len(s) \in b + 1 .. Len(t)
      BY <1>1, <2>1, <2>3 DEF u
    <3> QED
      BY <1>2, <1>3, <3>1 DEF IsLast, u
  <2>4. IsLast(u, n, Len(s) + b)
    BY <2>2, <2>3 DEF IsLast
  <2> QED
    BY <1>4, <1>6, <2>4 DEF u, b
<1> QED
  BY <1>5, <1>6

\* A sequence of one and of two entries about the same note.
LEMMA LastOnPlan ==
  ASSUME NEW c, NEW d, NEW n, d.note = c.note
  PROVE  /\ LastOn(<<c>>, n) = IF c.note = n THEN 1 ELSE 0
         /\ LastOn(<<c, d>>, n) = IF c.note = n THEN 2 ELSE 0
         /\ LastOn(<< >>, n) = 0
<1>1. Len(<<c>>) = 1 /\ Len(<<c, d>>) = 2 /\ Len(<< >>) = 0 /\ <<c>>[1] = c
      /\ <<c, d>>[1] = c /\ <<c, d>>[2] = d
  OBVIOUS
<1>2. IsLast(<<c>>, n, IF c.note = n THEN 1 ELSE 0)
  BY <1>1 DEF IsLast
<1>3. IsLast(<<c, d>>, n, IF c.note = n THEN 2 ELSE 0)
  BY <1>1 DEF IsLast
<1>4. IsLast(<< >>, n, 0)
  BY <1>1 DEF IsLast
<1> QED
  BY <1>1, <1>2, <1>3, <1>4, LastOnFacts

LEMMA LastOnOne == ASSUME NEW c, NEW n PROVE LastOn(<<c>>, n) = IF c.note = n THEN 1 ELSE 0
BY LastOnPlan

LEMMA LastOnAppend ==
  ASSUME NEW S, NEW s \in Seq(S), NEW e \in S, NEW n
  PROVE  LastOn(Append(s, e), n) = IF e.note = n THEN Len(s) + 1 ELSE LastOn(s, n)
<1>1. Append(s, e) = s \o <<e>> /\ <<e>> \in Seq(S)
  BY AppendIsConcat
<1>2. LastOn(<<e>>, n) = IF e.note = n THEN 1 ELSE 0
  BY LastOnOne
<1>3. LastOn(s \o <<e>>, n) = IF LastOn(<<e>>, n) = 0 THEN LastOn(s, n) ELSE Len(s) + LastOn(<<e>>, n)
  BY <1>1, LastOnConcat
<1> QED
  BY <1>1, <1>2, <1>3
-----------------------------------------------------------------------------
(* Chains of changes. *)

\* The beginning of a sequence.
LEMMA PrefixFacts ==
  ASSUME NEW S, NEW s \in Seq(S), NEW k \in 0..Len(s)
  PROVE  /\ SubSeq(s, 1, k) \in Seq(S) /\ Len(SubSeq(s, 1, k)) = k
         /\ \A i \in 1..k : SubSeq(s, 1, k)[i] = s[i]
<1>1. Len(s) \in Nat /\ \A i \in 1..k : s[i] \in S
  BY LenProperties, ElementOfSeq
<1> QED
  BY <1>1, SubSeqProperties

\* Sequences with the same beginnings.
LEMMA SamePrefix ==
  ASSUME NEW S, NEW s \in Seq(S), NEW t \in Seq(S), NEW k \in Nat, k <= Len(s), k <= Len(t),
         \A i \in 1..k : s[i] = t[i]
  PROVE  SubSeq(s, 1, k) = SubSeq(t, 1, k)
<1>1. Len(s) \in Nat /\ Len(t) \in Nat
  BY LenProperties
<1>2. k \in 0..Len(s) /\ k \in 0..Len(t)
  BY <1>1
<1> QED
  BY <1>2, PrefixFacts, SeqEqual

\* The beginning of a chain is one.
LEMMA ChainPrefix ==
  ASSUME NEW s \in Seq(Change), Chain(s), NEW k \in 0..Len(s)
  PROVE  Chain(SubSeq(s, 1, k))
<1> DEFINE p == SubSeq(s, 1, k)
<1>1. p \in Seq(Change) /\ Len(p) = k /\ \A i \in 1..k : p[i] = s[i]
  BY PrefixFacts
<1>2. Len(s) \in Nat /\ k <= Len(s)
  BY LenProperties
<1> HIDE DEF p
<1>3. ASSUME NEW i \in 1..Len(p)
      PROVE  /\ p[i].base = RevisionOn(SubSeq(p, 1, i - 1), p[i].note)
             /\ p[i].rev = p[i].base + 1
  <2>1. i \in 1..Len(s) /\ p[i] = s[i]
    BY <1>1, <1>2
  <2>2. SubSeq(p, 1, i - 1) = SubSeq(s, 1, i - 1)
    <3>1. i - 1 \in Nat /\ i - 1 <= Len(p) /\ i - 1 <= Len(s) /\ \A j \in 1..(i - 1) : p[j] = s[j]
      BY <1>1, <1>2
    <3> QED
      BY <1>1, <3>1, SamePrefix
  <2> QED
    BY <2>1, <2>2 DEF Chain
<1> QED
  BY <1>3 DEF Chain, p

\* What a chain goes on from is one.
LEMMA ChainLeft ==
  ASSUME NEW s \in Seq(Change), NEW t \in Seq(Change), Chain(s \o t)
  PROVE  Chain(s)
<1> DEFINE c == s \o t
           l == Len(s)
<1>1. /\ c \in Seq(Change) /\ Len(c) = Len(s) + Len(t)
      /\ \A i \in 1..(Len(s) + Len(t)) : c[i] = IF i <= Len(s) THEN s[i] ELSE t[i - Len(s)]
  BY ConcatProperties
<1>2. Len(s) \in Nat /\ Len(t) \in Nat
  BY LenProperties
<1>3. Chain(c) /\ SubSeq(s, 1, l) = s
  BY SubSeqFull
<1> HIDE DEF c
<1>4. l \in Nat /\ l \in 0..Len(c) /\ l <= Len(c) /\ l <= Len(s) /\ \A i \in 1..l : c[i] = s[i]
  BY <1>1, <1>2
<1> HIDE DEF l
<1>5. SubSeq(c, 1, l) = SubSeq(s, 1, l)
  BY <1>1, <1>4, SamePrefix
<1>6. Chain(SubSeq(c, 1, l))
  BY <1>1, <1>3, <1>4, ChainPrefix
<1> QED
  BY <1>3, <1>5, <1>6

\* A chain goes on with a change that builds on the last one on its note.
LEMMA ChainAppend ==
  ASSUME NEW s \in Seq(Change), Chain(s), NEW c \in Change,
         c.base = RevisionOn(s, c.note), c.rev = c.base + 1
  PROVE  Chain(s \o <<c>>)
<1> DEFINE t == Append(s, c)
<1>1. s \o <<c>> = t
  BY AppendIsConcat
<1>2. /\ t \in Seq(Change) /\ Len(t) = Len(s) + 1 /\ \A i \in 1..Len(s) : t[i] = s[i]
      /\ t[Len(s) + 1] = c /\ Len(s) \in Nat
  BY AppendProperties, LenProperties
<1> HIDE DEF t
<1>3. ASSUME NEW i \in 1..Len(t)
      PROVE  /\ t[i].base = RevisionOn(SubSeq(t, 1, i - 1), t[i].note)
             /\ t[i].rev = t[i].base + 1
  <2>1. SubSeq(t, 1, i - 1) = SubSeq(s, 1, i - 1)
    <3>1. i - 1 \in Nat /\ i - 1 <= Len(s) /\ i - 1 <= Len(t) /\ \A j \in 1..(i - 1) : t[j] = s[j]
      BY <1>2
    <3> QED
      BY <1>2, <3>1, SamePrefix
  <2>2. CASE i \in 1..Len(s)
    BY <1>2, <2>1, <2>2 DEF Chain
  <2>3. CASE i = Len(s) + 1
    <3>1. SubSeq(t, 1, i - 1) = s
      <4>1. SubSeq(s, 1, Len(s)) = s /\ i - 1 = Len(s)
        BY <1>2, <2>3, SubSeqFull
      <4> QED
        BY <2>1, <4>1
    <3> QED
      BY <1>2, <2>3, <3>1
  <2> QED
    BY <1>2, <2>2, <2>3
<1> QED
  BY <1>1, <1>3 DEF Chain

\* The revision of a note is one of the chain's: 0 exactly when it has none there.
LEMMA RevisionFacts ==
  ASSUME NEW s \in Seq(Change), Chain(s), NEW n
  PROVE  RevisionOn(s, n) \in Nat /\ (RevisionOn(s, n) = 0 <=> LastOn(s, n) = 0)
<1> DEFINE k == LastOn(s, n)
<1>1. Len(s) \in Nat
  BY LenProperties
<1>2. k \in 0..Len(s)
  BY <1>1, LastOnFacts DEF IsLast
<1> HIDE DEF k
<1>3. CASE k = 0
  BY <1>3 DEF RevisionOn, k
<1>4. CASE k # 0
  <2>1. k \in 1..Len(s)
    BY <1>1, <1>2, <1>4
  <2>2. s[k] \in Change /\ s[k].rev = s[k].base + 1
    BY <2>1, ElementOfSeq DEF Chain
  <2>3. s[k].rev \in Nat /\ s[k].base \in Nat
    BY <2>2 DEF Change
  <2> QED
    BY <1>4, <2>2, <2>3 DEF RevisionOn, k
<1> QED
  BY <1>3, <1>4

\* The revision of a note in two sequences put together.
LEMMA RevisionConcat ==
  ASSUME NEW s \in Seq(Change), NEW t \in Seq(Change), NEW n
  PROVE  RevisionOn(s \o t, n) = IF LastOn(t, n) = 0 THEN RevisionOn(s, n) ELSE RevisionOn(t, n)
<1>1. LastOn(s \o t, n) = IF LastOn(t, n) = 0 THEN LastOn(s, n) ELSE Len(s) + LastOn(t, n)
  BY LastOnConcat
<1>2. Len(s) \in Nat /\ Len(t) \in Nat
  BY LenProperties
<1>3. LastOn(s, n) \in 0..Len(s) /\ LastOn(t, n) \in 0..Len(t)
  BY <1>2, LastOnFacts DEF IsLast
<1>4. \A i \in 1..(Len(s) + Len(t)) : (s \o t)[i] = IF i <= Len(s) THEN s[i] ELSE t[i - Len(s)]
  BY ConcatProperties
<1>5. CASE LastOn(t, n) = 0
  <2>1. LastOn(s, n) # 0 => (s \o t)[LastOn(s, n)] = s[LastOn(s, n)]
    BY <1>2, <1>3, <1>4
  <2> QED
    BY <1>1, <1>5, <2>1 DEF RevisionOn
<1>6. CASE LastOn(t, n) # 0
  <2> DEFINE b == LastOn(t, n)
  <2>1. b \in 1..Len(t)
    BY <1>2, <1>3, <1>6
  <2> HIDE DEF b
  <2> DEFINE i == Len(s) + b
  <2>2. i \in 1..(Len(s) + Len(t)) /\ ~(i <= Len(s)) /\ i - Len(s) = b /\ i # 0
    BY <1>2, <2>1
  <2> HIDE DEF i
  <2>3. (s \o t)[i] = t[b]
    BY <1>4, <2>2
  <2> QED
    BY <1>1, <1>6, <2>2, <2>3 DEF RevisionOn, b, i
<1> QED
  BY <1>5, <1>6
-----------------------------------------------------------------------------
(* Rolling an intent forward. *)

\* What the last operation so far left on a note.
LEMMA LastSoFar ==
  ASSUME NEW ops \in Seq(Operation), NEW s, NEW m \in 0..Len(ops), StandsAt(ops, s, m),
         NEW i \in 1..Len(ops), i <= m
  PROVE  \E l \in i..m : ops[l].note = ops[i].note /\ s[ops[i].note] = ops[l].target
<1> DEFINE I == {l \in 1..m : ops[l].note = ops[i].note}
           l == Max(I)
<1>1. m \in Nat /\ i \in 1..m /\ Len(ops) \in Nat /\ m <= Len(ops)
  BY LenProperties
<1>2. I \in SUBSET (1..m) /\ i \in I
  BY <1>1
<1>3. l \in I /\ \A y \in I : y <= l
  <2> HIDE DEF I
  <2> QED
    BY <1>1, <1>2, MaxFacts
<1>4. i <= l
  BY <1>2, <1>3
<1> HIDE DEF l
<1>5. l \in 1..m /\ ops[l].note = ops[i].note /\ \A j \in l + 1 .. m : ops[j].note # ops[l].note
  <2>1. l \in 1..m /\ ops[l].note = ops[i].note
    BY <1>3
  <2>2. ASSUME NEW j \in l + 1 .. m, ops[j].note = ops[l].note PROVE FALSE
    <3>1. j \in I
      BY <1>1, <2>1, <2>2
    <3> QED
      BY <1>3, <2>1, <3>1
  <2> QED
    BY <2>1, <2>2
<1>6. s[ops[l].note] = ops[l].target
  BY <1>1, <1>5 DEF StandsAt
<1> QED
  BY <1>1, <1>4, <1>5, <1>6

\* Replaying an operation, done or the next one to do, is never refused; it is skipped when
\* it is done, and when it is not only if it has nothing to do.
LEMMA ReplayFacts ==
  ASSUME ConstantsOK, pending \in Intent, live \in [Note -> Stored], Coherent(pending.ops),
         NEW m \in 0..Len(pending.ops), StandsAt(pending.ops, live, m),
         NEW i \in 1..Len(pending.ops), i <= m + 1
  PROVE  /\ ~Refuses(i)
         /\ i <= m => Skips(i)
         /\ i = m + 1 => live[pending.ops[i].note] = pending.ops[i].before
         /\ i = m + 1 /\ Skips(i) => pending.ops[i].target = pending.ops[i].before
<1> DEFINE ops == pending.ops
           op == ops[i]
<1>1. ops \in Seq(Operation) /\ Len(ops) \in Nat
  BY LenProperties DEF Intent
<1>2. \A j \in 1..Len(ops) :
        /\ ops[j] \in Operation /\ ops[j].note \in Note
        /\ ops[j].target \in Stored /\ ops[j].before \in Stored
        /\ ops[j].target.rev \in Nat /\ ops[j].before.rev \in Nat
  <2> HIDE DEF ops
  <2>1. \A j \in 1..Len(ops) : ops[j] \in Operation
    BY <1>1, ElementOfSeq
  <2> QED
    BY <2>1 DEF Operation, Stored
<1>3. None \notin Value
  BY DEF ConstantsOK
<1>4. m \in Nat /\ m <= Len(ops) /\ i \in Nat /\ 1 <= i
  BY <1>1
<1> HIDE DEF ops
<1>5. Coherent(ops) /\ StandsAt(ops, live, m) /\ i \in 1..Len(ops)
  BY DEF ops
<1>6. CASE i <= m
  <2>1. PICK l \in i..m : ops[l].note = op.note /\ live[op.note] = ops[l].target
    <3>1. /\ ops \in Seq(Operation) /\ m \in 0..Len(ops) /\ StandsAt(ops, live, m)
          /\ i \in 1..Len(ops) /\ i <= m
      BY <1>1, <1>4, <1>5, <1>6
    <3>2. \E l \in i..m : ops[l].note = ops[i].note /\ live[ops[i].note] = ops[l].target
      BY <3>1, LastSoFar
    <3> QED
      BY <3>2
  <2>2. l \in 1..Len(ops)
    BY <1>1, <1>4, <2>1
  <2>3. CASE l = i
    <3>1. Skips(i)
      BY <2>1, <2>3 DEF Skips, ops
    <3> QED
      BY <1>4, <1>6, <3>1 DEF Refuses
  <2>4. CASE l # i
    <3>1. Len(ops) # 1
      BY <1>1, <1>4, <2>1, <2>2, <2>4
    <3>2. PutsOnly(ops)
      BY <1>5, <3>1 DEF Coherent, OneOnly
    <3>3. op.target.val # None /\ ops[l].target.val # None
      BY <1>3, <1>5, <2>2, <3>2 DEF PutsOnly
    <3>4. l \in i + 1 .. Len(ops)
      BY <1>4, <2>1, <2>2, <2>4
    <3>5. Observed(live[op.note]) = ops[l].target
      BY <2>1, <3>3 DEF Observed
    <3>6. Skips(i)
      BY <2>1, <3>3, <3>4, <3>5 DEF Skips, ops
    <3> QED
      BY <1>4, <1>6, <3>6 DEF Refuses
  <2> QED
    BY <2>3, <2>4
<1>7. CASE i = m + 1
  <2>1. \A j \in m + 1 .. i - 1 : ops[j].note # op.note
    BY <1>4, <1>7
  <2>2. live[op.note] = op.before
    BY <1>4, <1>5, <1>7, <2>1 DEF StandsAt
  <2>3. CASE PutsOnly(ops)
    <3>1. op.target.val # None /\ op.target.rev = op.before.rev + 1
      BY <1>3, <1>5, <2>3 DEF PutsOnly
    <3>2. Observed(op.target) = op.target
      BY <3>1 DEF Observed
    <3>3. Observed(op.before) # op.target
      <4>1. CASE op.before.val = None
        BY <3>1, <4>1 DEF Observed, Absent
      <4>2. CASE op.before.val # None
        <5>1. op.before.rev \in Nat
          BY <1>2, <1>5
        <5>2. op.before.rev # op.target.rev
          BY <3>1, <5>1
        <5>3. Observed(op.before) = op.before
          BY <4>2 DEF Observed
        <5> QED
          BY <5>2, <5>3
      <4> QED
        BY <4>1, <4>2
    <3>4. ASSUME NEW j \in i + 1 .. Len(ops), ops[j].note = op.note,
                 ops[j].target = Observed(op.before)
          PROVE  FALSE
      <4>1. j \in 1..Len(ops) /\ i < j
        BY <1>1, <1>4
      <4>2. op.target.rev < ops[j].target.rev
        BY <1>5, <3>4, <4>1 DEF Coherent
      <4>3. ops[j].target.val # None
        BY <1>3, <2>3, <4>1 DEF PutsOnly
      <4>4. op.before.val # None
        BY <3>4, <4>3 DEF Observed, Absent
      <4>5. ops[j].target = op.before
        BY <3>4, <4>4 DEF Observed
      <4>6. op.before.rev \in Nat /\ ops[j].target.rev = op.before.rev
        BY <1>2, <1>5, <4>5
      <4>7. op.before.rev + 1 < op.before.rev
        BY <3>1, <4>2, <4>6
      <4> QED
        BY <4>6, <4>7
    <3>5. ~Skips(i)
      BY <2>2, <3>2, <3>3, <3>4 DEF Skips, ops
    <3>6. ~Refuses(i)
      BY <2>2, <3>1 DEF Refuses, ops
    <3> QED
      BY <1>4, <1>7, <2>2, <3>5, <3>6 DEF ops
  <2>4. CASE OneOnly(ops)
    <3>1. i = 1 /\ Len(ops) = 1
      BY <1>5, <2>4 DEF OneOnly
    <3>2. CASE op.target = op.before
      <4>1. Skips(i)
        BY <2>2, <3>2 DEF Skips, ops
      <4> QED
        BY <1>4, <1>7, <2>2, <3>2, <4>1 DEF Refuses, ops
    <3>3. CASE op.target.val = None /\ op.before.val # None
      <4>1. Observed(op.target) # Observed(op.before)
        BY <3>3 DEF Observed, Absent
      <4>2. ~Skips(i)
        BY <2>2, <3>3, <4>1 DEF Skips, ops
      <4>3. ~Refuses(i)
        BY <2>2, <3>3 DEF Refuses, ops
      <4> QED
        BY <1>4, <1>7, <2>2, <4>2, <4>3 DEF ops
    <3> QED
      BY <2>4, <3>1, <3>2, <3>3 DEF OneOnly
  <2> QED
    BY <1>5, <2>3, <2>4 DEF Coherent
<1> QED
  BY <1>4, <1>6, <1>7

\* Doing the next operation.
LEMMA AfterWrite ==
  ASSUME NEW ops \in Seq(Operation), Coherent(ops), NEW s \in [Note -> Stored],
         NEW m \in 0..Len(ops), m < Len(ops), StandsAt(ops, s, m)
  PROVE  StandsAt(ops, [s EXCEPT ![ops[m + 1].note] = ops[m + 1].target], m + 1)
<1> DEFINE i == m + 1
           t == [s EXCEPT ![ops[i].note] = ops[i].target]
<1>1. Len(ops) \in Nat /\ m \in Nat /\ i \in 1..Len(ops) /\ i = m + 1 /\ i - 1 = m
  BY LenProperties
<1>2. \A k \in 1..Len(ops) : ops[k].note \in Note
  <2>1. \A k \in 1..Len(ops) : ops[k] \in Operation
    BY ElementOfSeq
  <2> QED
    BY <2>1 DEF Operation
<1>3. t[ops[i].note] = ops[i].target /\ \A n \in Note : n # ops[i].note => t[n] = s[n]
  BY <1>1, <1>2
<1> HIDE DEF i, t
<1>4. ASSUME NEW k \in 1..Len(ops), k <= i, \A j \in k + 1 .. i : ops[j].note # ops[k].note
      PROVE  t[ops[k].note] = ops[k].target
  <2>1. CASE k = i
    BY <1>3, <2>1
  <2>2. CASE k # i
    <3>1. k <= m /\ i \in k + 1 .. i
      BY <1>1, <1>4, <2>2
    <3>2. ops[k].note # ops[i].note
      BY <1>4, <3>1
    <3>3. \A j \in k + 1 .. m : ops[j].note # ops[k].note
      BY <1>1, <1>4
    <3> QED
      BY <1>2, <1>3, <3>1, <3>2, <3>3 DEF StandsAt
  <2> QED
    BY <2>1, <2>2
<1>5. ASSUME NEW k \in 1..Len(ops), k > i, \A j \in i + 1 .. k - 1 : ops[j].note # ops[k].note
      PROVE  t[ops[k].note] = ops[k].before
  <2>1. CASE ops[k].note = ops[i].note
    <3>1. ops[k].before = ops[i].target
      <4>1. i \in 1..Len(ops) /\ k \in 1..Len(ops) /\ i < k
        BY <1>1, <1>5
      <4>2. \A j \in i + 1 .. k - 1 : ops[j].note # ops[k].note
        BY <1>5
      <4> QED
        BY <2>1, <4>1, <4>2 DEF Coherent
    <3> QED
      BY <1>3, <2>1, <3>1
  <2>2. CASE ops[k].note # ops[i].note
    <3>1. k > m /\ \A j \in m + 1 .. k - 1 : ops[j].note # ops[k].note
      BY <1>1, <1>5, <2>2
    <3> QED
      BY <1>2, <1>3, <2>2, <3>1 DEF StandsAt
  <2> QED
    BY <2>1, <2>2
<1>6. StandsAt(ops, t, i)
  BY <1>4, <1>5 DEF StandsAt
<1> QED
  BY <1>6 DEF t, i

\* When all operations are done, a note is where its last one left it.
LEMMA LastStands ==
  ASSUME NEW ops \in Seq(Operation), NEW s, StandsAt(ops, s, Len(ops)), NEW n,
         LastOn(ops, n) # 0
  PROVE  s[n] = ops[LastOn(ops, n)].target
<1> DEFINE k == LastOn(ops, n)
<1>1. Len(ops) \in Nat
  BY LenProperties
<1>2. k \in 1..Len(ops) /\ ops[k].note = n /\ \A j \in k + 1 .. Len(ops) : ops[j].note # n
  BY <1>1, LastOnFacts DEF IsLast
<1> HIDE DEF k
<1>3. k <= Len(ops)
  BY <1>1, <1>2
<1> QED
  BY <1>2, <1>3 DEF StandsAt, k

\* The log is a beginning of what it will be when the intent is done.
LEMMA LogIsPrefix ==
  ASSUME ConstantsOK, pending \in Intent, log \in Seq(Change), NEW k \in 0..Len(pending.changes), Installed(k)
  PROVE  /\ CommittedLog = SubSeq(log, 1, pending.first - 1) \o pending.changes
         /\ CommittedLog \in Seq(Change)
         /\ Len(log) = pending.first - 1 + k
         /\ Len(CommittedLog) = pending.first - 1 + Len(pending.changes)
         /\ log = SubSeq(CommittedLog, 1, Len(log))
         /\ k = Len(pending.changes) => log = CommittedLog
<1> DEFINE f == pending.first - 1
           c == pending.changes
           p == SubSeq(log, 1, f)
           C == p \o c
<1>1. CommittedLog = C
  BY DEF ConstantsOK, CommittedLog
<1>2. f \in Nat /\ c \in Seq(Change) /\ Len(c) \in Nat /\ k \in Nat /\ k <= Len(c)
  BY LenProperties DEF Intent
<1>3. Len(log) = f + k /\ \A j \in 1..k : log[f + j] = c[j]
  BY DEF Installed
<1>4. p \in Seq(Change) /\ Len(p) = f /\ \A i \in 1..f : p[i] = log[i]
  <2>1. f \in 0..Len(log)
    BY <1>2, <1>3
  <2> HIDE DEF f
  <2> QED
    BY <2>1, PrefixFacts
<1> HIDE DEF f, c, p
<1>5. /\ C \in Seq(Change) /\ Len(C) = f + Len(c)
      /\ \A i \in 1..(f + Len(c)) : C[i] = IF i <= f THEN p[i] ELSE c[i - f]
  <2>1. /\ C \in Seq(Change) /\ Len(C) = Len(p) + Len(c)
        /\ \A i \in 1..(Len(p) + Len(c)) : C[i] = IF i <= Len(p) THEN p[i] ELSE c[i - Len(p)]
    <3>1. p \in Seq(Change) /\ c \in Seq(Change)
      BY <1>2, <1>4
    <3> QED
      BY <3>1, ConcatProperties
  <2> HIDE DEF C
  <2> QED
    BY <1>4, <2>1
<1> HIDE DEF C
<1>6. \A i \in 1..Len(log) : log[i] = C[i]
  <2> SUFFICES ASSUME NEW i \in 1..Len(log) PROVE log[i] = C[i]
    OBVIOUS
  <2>1. i \in 1..(f + Len(c))
    BY <1>2, <1>3
  <2>2. CASE i <= f
    BY <1>2, <1>4, <1>5, <2>1, <2>2
  <2>3. CASE ~(i <= f)
    <3> DEFINE j == i - f
    <3>1. j \in 1..k /\ i = f + j
      BY <1>2, <1>3, <2>1, <2>3
    <3>2. C[i] = c[j]
      BY <1>5, <2>1, <2>3
    <3> HIDE DEF j
    <3> QED
      BY <1>3, <3>1, <3>2
  <2> QED
    BY <2>2, <2>3
<1>7. Len(log) \in Nat /\ Len(log) <= Len(C)
  BY <1>2, <1>3, <1>5
<1>8. SubSeq(C, 1, Len(log)) = SubSeq(log, 1, Len(log))
  BY <1>5, <1>6, <1>7, SamePrefix
<1>9. SubSeq(log, 1, Len(log)) = log
  BY SubSeqFull
<1>10. k = Len(c) => log = C
  BY <1>3, <1>5, <1>6, SeqEqual
<1>11. C = p \o c
  BY DEF C
<1> QED
  BY <1>1, <1>3, <1>5, <1>8, <1>9, <1>10, <1>11 DEF f, c, p
-----------------------------------------------------------------------------
(* Planning an operation. *)

\* One or two more changes on a note, building on what is in the log and in the draft.
LEMMA ExtendFacts ==
  ASSUME log \in Seq(Change), NEW ch \in Seq(Change), Chain(log \o ch),
         NEW n \in Note, NEW v \in Value \cup {None}, NEW u \in Value \cup {None}, NEW r,
         r = IF LastOn(ch, n) = 0 THEN RevisionOn(log, n) ELSE RevisionOn(ch, n), NEW p,
         \/ p = <<NextChange(n, r, v)>>
         \/ r = 0 /\ p = <<NextChange(n, 0, u), NextChange(n, 1, v)>>
  PROVE  /\ p \in Seq(Change) /\ ch \o p \in Seq(Change) /\ ch \o p # << >>
         /\ Chain(log \o (ch \o p))
         /\ \A m : LastOn(ch \o p, m) = IF n = m THEN Len(ch \o p) ELSE LastOn(ch, m)
         /\ (ch \o p)[Len(ch \o p)].val = v
         /\ \A i \in 1..Len(ch) : (ch \o p)[i] = ch[i]
<1> DEFINE s == log \o ch
           c == NextChange(n, r, v)
           d == NextChange(n, 0, u)
           e == NextChange(n, 1, v)
<1>1. s \in Seq(Change) /\ RevisionOn(s, n) = r
  BY ConcatProperties, RevisionConcat
<1>2. r \in Nat
  BY <1>1, RevisionFacts
<1>3. c \in Change /\ d \in Change /\ e \in Change
  BY <1>2 DEF NextChange, Change
<1>4. /\ c.note = n /\ c.base = r /\ c.rev = r + 1 /\ c.val = v
      /\ d.note = n /\ d.base = 0 /\ d.rev = 1
      /\ e.note = n /\ e.base = 1 /\ e.rev = 2 /\ e.val = v
  BY <1>2 DEF NextChange
<1>5. p = <<c>> \/ (r = 0 /\ p = <<d, e>>)
  OBVIOUS
<1> HIDE DEF c, d, e
<1>6. p \in Seq(Change) /\ Len(p) \in Nat /\ 0 < Len(p) /\ p[Len(p)].val = v
  <2>1. CASE p = <<c>>
    <3>1. p \in Seq(Change) /\ Len(p) = 1 /\ p[1] = c
      BY <1>3, <2>1
    <3> QED
      BY <1>4, <3>1
  <2>2. CASE p = <<d, e>>
    <3>1. p \in Seq(Change) /\ Len(p) = 2 /\ p[2] = e
      BY <1>3, <2>2
    <3> QED
      BY <1>4, <3>1
  <2> QED
    BY <1>5, <2>1, <2>2
<1>15. \A m : LastOn(p, m) = IF n = m THEN Len(p) ELSE 0
  <2> SUFFICES ASSUME NEW m PROVE LastOn(p, m) = IF n = m THEN Len(p) ELSE 0
    OBVIOUS
  <2>1. CASE p = <<c>>
    <3>1. LastOn(<<c>>, m) = IF c.note = m THEN 1 ELSE 0
      BY LastOnOne
    <3> QED
      BY <1>4, <2>1, <3>1
  <2>2. CASE p = <<d, e>>
    <3>1. LastOn(<<d, e>>, m) = IF d.note = m THEN 2 ELSE 0
      <4>1. e.note = d.note
        BY <1>4
      <4> QED
        BY <4>1, LastOnPlan
    <3> QED
      BY <1>4, <2>2, <3>1
  <2> QED
    BY <1>5, <2>1, <2>2
<1>7. Chain(s \o p)
  <2>1. CASE p = <<c>>
    <3>1. Chain(s \o <<c>>)
      BY <1>1, <1>3, <1>4, ChainAppend DEF s
    <3> QED
      BY <2>1, <3>1
  <2>2. CASE r = 0 /\ p = <<d, e>>
    <3> DEFINE t == s \o <<d>>
    <3>1. Chain(t)
      <4>1. s \in Seq(Change) /\ d.base = RevisionOn(s, d.note) /\ d.rev = d.base + 1
        BY <1>1, <1>4, <2>2
      <4> QED
        BY <1>3, <4>1, ChainAppend DEF s
    <3>2. t \in Seq(Change) /\ <<d>> \in Seq(Change) /\ <<e>> \in Seq(Change)
      BY <1>1, <1>3, ConcatProperties
    <3>3. RevisionOn(t, n) = 1
      <4>1. LastOn(<<d>>, n) = 1
        <5>1. d.note = n
          BY <1>4
        <5> QED
          BY <5>1, LastOnOne
      <4>2. RevisionOn(<<d>>, n) = 1
        BY <1>4, <4>1 DEF RevisionOn
      <4>3. RevisionOn(s \o <<d>>, n) = RevisionOn(<<d>>, n)
        <5> HIDE DEF s
        <5>1. s \in Seq(Change) /\ <<d>> \in Seq(Change)
          BY <1>1, <3>2
        <5>2. RevisionOn(s \o <<d>>, n)
                = IF LastOn(<<d>>, n) = 0 THEN RevisionOn(s, n) ELSE RevisionOn(<<d>>, n)
          BY <5>1, RevisionConcat
        <5> QED
          BY <4>1, <5>2
      <4> QED
        BY <4>2, <4>3
    <3> HIDE DEF t
    <3>4. Chain(t \o <<e>>)
      BY <1>3, <1>4, <3>1, <3>2, <3>3, ChainAppend
    <3>5. t \o <<e>> = s \o (<<d>> \o <<e>>)
      BY <1>1, <3>2, ConcatAssociative DEF t
    <3>6. <<d>> \o <<e>> = <<d, e>>
      <4>1. <<d>> \o <<e>> = Append(<<d>>, e)
        BY <1>3, <3>2, AppendIsConcat
      <4>2. Append(<<d>>, e) = <<d, e>>
        <5>1. /\ Append(<<d>>, e) \in Seq(Change) /\ Len(Append(<<d>>, e)) = 2
              /\ Append(<<d>>, e)[1] = d /\ Append(<<d>>, e)[2] = e
          BY <1>3, <3>2, AppendProperties
        <5>2. <<d, e>> \in Seq(Change) /\ Len(<<d, e>>) = 2 /\ <<d, e>>[1] = d /\ <<d, e>>[2] = e
          BY <1>3
        <5>3. \A i \in 1..2 : Append(<<d>>, e)[i] = <<d, e>>[i]
          <6>1. \A i \in 1..2 : i = 1 \/ i = 2
            OBVIOUS
          <6> QED
            BY <5>1, <5>2, <6>1
        <5> QED
          BY <5>1, <5>2, <5>3, SeqEqual
      <4> QED
        BY <4>1, <4>2
    <3> QED
      BY <2>2, <3>4, <3>5, <3>6
  <2> QED
    BY <1>5, <2>1, <2>2
<1>8. s \o p = log \o (ch \o p)
  <2>1. (log \o ch) \o p = log \o (ch \o p)
    <3>1. log \in Seq(Change) /\ ch \in Seq(Change) /\ p \in Seq(Change)
      BY <1>6
    <3> HIDE DEF s
    <3> QED
      BY <3>1, ConcatAssociative
  <2> QED
    BY <2>1
<1>9. /\ ch \o p \in Seq(Change) /\ Len(ch \o p) = Len(ch) + Len(p)
      /\ \A i \in 1..(Len(ch) + Len(p)) : (ch \o p)[i] = IF i <= Len(ch) THEN ch[i] ELSE p[i - Len(ch)]
      /\ Len(ch) \in Nat
  BY <1>6, ConcatProperties, LenProperties
<1> HIDE DEF s
<1>10. \A m : LastOn(ch \o p, m) = IF LastOn(p, m) = 0 THEN LastOn(ch, m) ELSE Len(ch) + LastOn(p, m)
  BY <1>6, LastOnConcat
<1>11. \A m : LastOn(ch \o p, m) = IF n = m THEN Len(ch \o p) ELSE LastOn(ch, m)
  BY <1>6, <1>9, <1>10, <1>15
<1>12. (ch \o p)[Len(ch \o p)] = p[Len(p)]
  <2> DEFINE i == Len(ch) + Len(p)
  <2>1. i \in 1..(Len(ch) + Len(p)) /\ ~(i <= Len(ch)) /\ i - Len(ch) = Len(p)
    BY <1>6, <1>9
  <2>2. i = Len(ch \o p)
    BY <1>9
  <2> HIDE DEF i
  <2> QED
    BY <1>9, <2>1, <2>2
<1>13. ch \o p # << >>
  BY <1>6, <1>9
<1>14. \A i \in 1..Len(ch) : (ch \o p)[i] = ch[i]
  BY <1>6, <1>9
<1> QED
  BY <1>6, <1>7, <1>8, <1>9, <1>11, <1>12, <1>13, <1>14

\* One more operation, which starts where the draft leaves its note.
LEMMA AddedFacts ==
  ASSUME NEW ops \in Seq(Operation), NEW ch \in Seq(Change), NEW q \in Seq(Change),
         NEW op \in Operation, NEW s,
         op.before = IF LastOn(ops, op.note) = 0 THEN s[op.note] ELSE ops[LastOn(ops, op.note)].target,
         Matches(ops, ch), StandsAt(ops, s, 0), q # << >>,
         \A m : LastOn(q, m) = IF op.note = m THEN Len(q) ELSE LastOn(ch, m),
         q[Len(q)].val = op.target.val, \A i \in 1..Len(ch) : q[i] = ch[i]
  PROVE  Matches(Append(ops, op), q) /\ StandsAt(Append(ops, op), s, 0)
<1> DEFINE o == Append(ops, op)
           k == Len(ops) + 1
<1>1. /\ o \in Seq(Operation) /\ Len(o) = k /\ o[k] = op /\ \A i \in 1..Len(ops) : o[i] = ops[i]
      /\ Len(ops) \in Nat /\ Len(ch) \in Nat /\ Len(q) \in Nat
  BY AppendProperties, LenProperties
<1>2. \A m : LastOn(o, m) = IF op.note = m THEN k ELSE LastOn(ops, m)
  BY LastOnAppend
<1>3. \A m : IsLast(ops, m, LastOn(ops, m)) /\ IsLast(ch, m, LastOn(ch, m))
  BY <1>1, LastOnFacts
<1>4. Len(q) # 0
  BY EmptySeq, LenProperties
<1> HIDE DEF o
<1>5. Matches(o, q)
  <2> SUFFICES ASSUME NEW m \in Note
               PROVE  /\ LastOn(o, m) = 0 <=> LastOn(q, m) = 0
                      /\ LastOn(o, m) # 0 => q[LastOn(q, m)].val = o[LastOn(o, m)].target.val
    BY DEF Matches
  <2>1. CASE m = op.note
    BY <1>1, <1>2, <1>4, <2>1
  <2>2. CASE m # op.note
    <3>1. LastOn(o, m) = LastOn(ops, m) /\ LastOn(q, m) = LastOn(ch, m)
      BY <1>2, <2>2
    <3>2. LastOn(ops, m) # 0 => o[LastOn(ops, m)] = ops[LastOn(ops, m)]
      BY <1>1, <1>3 DEF IsLast
    <3>3. LastOn(ch, m) # 0 => q[LastOn(ch, m)] = ch[LastOn(ch, m)]
      BY <1>1, <1>3 DEF IsLast
    <3> QED
      BY <3>1, <3>2, <3>3 DEF Matches
  <2> QED
    BY <2>1, <2>2
<1>6. StandsAt(o, s, 0)
  <2>1. ASSUME NEW i \in 1..k, \A j \in 1 .. i - 1 : o[j].note # o[i].note
        PROVE  s[o[i].note] = o[i].before
    <3>1. CASE i = k
      <4>1. \A j \in 1..Len(ops) : ops[j].note # op.note
        BY <1>1, <2>1, <3>1
      <4>2. LastOn(ops, op.note) = 0
        <5> DEFINE a == LastOn(ops, op.note)
        <5>1. a \in 0..Len(ops) /\ (a # 0 => ops[a].note = op.note)
          BY <1>3 DEF IsLast
        <5> HIDE DEF a
        <5>2. a # 0 => a \in 1..Len(ops)
          BY <1>1, <5>1
        <5>3. a = 0
          BY <4>1, <5>1, <5>2
        <5> QED
          BY <5>3 DEF a
      <4> QED
        BY <1>1, <3>1, <4>2
    <3>2. CASE i # k
      <4>1. i \in 1..Len(ops) /\ \A j \in 1 .. i - 1 : j \in 1..Len(ops)
        BY <1>1, <3>2
      <4>2. \A j \in 1 .. i - 1 : ops[j].note # ops[i].note
        BY <1>1, <2>1, <4>1
      <4>3. \A j \in 0 + 1 .. i - 1 : ops[j].note # ops[i].note
        BY <4>2
      <4>4. s[ops[i].note] = ops[i].before
        BY <4>1, <4>3 DEF StandsAt
      <4> QED
        BY <1>1, <4>1, <4>4
    <3> QED
      BY <3>1, <3>2
  <2> QED
    BY <1>1, <2>1 DEF StandsAt
<1> QED
  BY <1>5, <1>6 DEF o

\* One more put.
LEMMA AddedPut ==
  ASSUME NEW ops \in Seq(Operation), NEW op \in Operation, NEW s,
         op.before = IF LastOn(ops, op.note) = 0 THEN s[op.note] ELSE ops[LastOn(ops, op.note)].target,
         op.target.val \in Value, op.target.rev = op.before.rev + 1,
         PutsOnly(ops), Coherent(ops)
  PROVE  PutsOnly(Append(ops, op)) /\ Coherent(Append(ops, op))
<1> DEFINE o == Append(ops, op)
           k == Len(ops) + 1
           n == op.note
           l == LastOn(ops, n)
<1>1. /\ o \in Seq(Operation) /\ Len(o) = k /\ o[k] = op /\ \A i \in 1..Len(ops) : o[i] = ops[i]
      /\ Len(ops) \in Nat
  BY AppendProperties, LenProperties
<1>2. IsLast(ops, n, l)
  BY <1>1, LastOnFacts
<1>3. \A i \in 1..Len(ops) : ops[i].target.rev \in Nat
  <2>1. \A i \in 1..Len(ops) : ops[i] \in Operation
    BY ElementOfSeq
  <2> QED
    BY <2>1 DEF Operation, Stored
<1>4. op.before.rev \in Nat /\ op.target.rev = op.before.rev + 1
  BY DEF Operation, Stored
<1> HIDE DEF o, l
<1>5. PutsOnly(o)
  BY <1>1 DEF PutsOnly
<1>6. ASSUME NEW i \in 1..k, NEW j \in 1..k, i < j, o[i].note = o[j].note
      PROVE  /\ o[i].target.rev < o[j].target.rev
             /\ (\A m \in i + 1 .. j - 1 : o[m].note # o[i].note) => o[j].before = o[i].target
  <2>1. CASE j \in 1..Len(ops)
    <3>1. i \in 1..Len(ops) /\ \A m \in i + 1 .. j - 1 : m \in 1..Len(ops)
      BY <1>1, <1>6, <2>1
    <3>2. o[i] = ops[i] /\ o[j] = ops[j] /\ \A m \in i + 1 .. j - 1 : o[m] = ops[m]
      BY <1>1, <2>1, <3>1
    <3>3. /\ ops[i].target.rev < ops[j].target.rev
          /\ (\A m \in i + 1 .. j - 1 : ops[m].note # ops[i].note) => ops[j].before = ops[i].target
      BY <1>6, <2>1, <3>1, <3>2 DEF Coherent
    <3> QED
      BY <3>2, <3>3
  <2>2. CASE j = k
    <3>1. i \in 1..Len(ops) /\ ops[i].note = n
      BY <1>1, <1>6, <2>2
    <3>2. l \in 1..Len(ops) /\ i <= l /\ ops[l].note = n
      BY <1>1, <1>2, <3>1 DEF IsLast
    <3>3. op.before = ops[l].target
      BY <3>2 DEF l
    <3>4. i < l => ops[i].target.rev < ops[l].target.rev
      BY <3>1, <3>2 DEF Coherent
    <3>5. ops[i].target.rev <= ops[l].target.rev
      BY <1>1, <1>3, <3>1, <3>2, <3>4
    <3>6. o[i].target.rev < o[j].target.rev
      <4>1. o[i].target = ops[i].target /\ o[j] = op
        BY <1>1, <2>2, <3>1
      <4>2. op.target.rev = ops[l].target.rev + 1
        BY <1>4, <3>3
      <4>3. ops[i].target.rev \in Nat /\ ops[l].target.rev \in Nat
        BY <1>3, <3>1, <3>2
      <4>4. ops[i].target.rev < ops[l].target.rev + 1
        BY <3>5, <4>3
      <4> QED
        BY <4>1, <4>2, <4>4
    <3>7. (\A m \in i + 1 .. j - 1 : o[m].note # o[i].note) => l = i
      <4>1. l # i => l \in i + 1 .. j - 1
        BY <1>1, <2>2, <3>1, <3>2
      <4>2. o[l].note = o[i].note
        BY <1>1, <3>1, <3>2
      <4> QED
        BY <4>1, <4>2
    <3> QED
      BY <1>1, <2>2, <3>1, <3>3, <3>6, <3>7
  <2> QED
    BY <1>1, <2>1, <2>2
<1>7. Coherent(o)
  BY <1>1, <1>5, <1>6 DEF Coherent
<1> QED
  BY <1>5, <1>7 DEF o
-----------------------------------------------------------------------------
(* The invariant. *)

\* In the beginning nothing is written for sync.
LEMMA InitIInv ==
  ASSUME ConstantsOK, Init
  PROVE  IInv
<1> USE DEF Init
<1>0. /\ << >> \in Seq(Change) /\ << >> \in Seq(Operation)
      /\ Nothing \in [ops : Seq(Operation), changes : Seq(Change)]
      /\ Nothing.ops = << >> /\ Nothing.changes = << >> /\ Len(<< >>) = 0
  BY EmptySeq DEF Nothing
<1>1. TypeInv
  <2>1. live \in [Note -> Stored]
    BY DEF ConstantsOK, Stored, Absent
  <2>2. interrupts \in 0..MaxInterrupts
    BY DEF ConstantsOK
  <2> QED
    BY <1>0, <2>1, <2>2 DEF TypeInv, Locations
<1>2. DraftInv
  <2>1. Chain(log \o draft.changes)
    <3>1. log \o draft.changes = << >>
      BY <1>0, ConcatEmptySeq
    <3> QED
      BY <1>0, <3>1 DEF Chain
  <2>2. StandsAt(draft.ops, live, 0)
    BY <1>0 DEF StandsAt
  <2> QED
    BY <2>1, <2>2 DEF DraftInv
<1>3. IntentInv
  BY DEF IntentInv
<1>4. CursorInv
  <2>1. \A n \in Note \ edited : live[n].val = Applied(n)
    BY DEF Absent, Applied
  <2> QED
    BY <2>1 DEF CursorInv
<1> QED
  BY <1>1, <1>2, <1>3, <1>4 DEF IInv

\* The changes of an operation that is planned next.
LEMMA PlanFacts ==
  ASSUME ConstantsOK, TypeInv, DraftInv, NEW op \in Operation
  PROVE  LET q == draft.changes \o Plan(op) IN
         /\ q \in Seq(Change) /\ q # << >> /\ Chain(log \o q)
         /\ \A m : LastOn(q, m) = IF op.note = m THEN Len(q) ELSE LastOn(draft.changes, m)
         /\ q[Len(q)].val = op.target.val
         /\ \A i \in 1..Len(draft.changes) : q[i] = draft.changes[i]
<1> DEFINE n == op.note
           r == Revision(n)
           ch == draft.changes
           p == Plan(op)
<1>1. /\ n \in Note /\ op.target.val \in Value \cup {None} /\ op.before.val \in Value \cup {None}
      /\ log \in Seq(Change) /\ ch \in Seq(Change) /\ Chain(log \o ch)
  BY DEF Operation, Stored, TypeInv, DraftInv
<1>2. r = IF LastOn(ch, n) = 0 THEN RevisionOn(log, n) ELSE RevisionOn(ch, n)
  BY DEF Revision
<1>3. \/ p = <<NextChange(n, r, op.target.val)>>
      \/ r = 0 /\ p = <<NextChange(n, 0, op.before.val), NextChange(n, 1, op.target.val)>>
  BY DEF Plan
<1> HIDE DEF n, r, ch, p
<1>4. /\ ch \o p \in Seq(Change) /\ ch \o p # << >> /\ Chain(log \o (ch \o p))
      /\ \A m : LastOn(ch \o p, m) = IF n = m THEN Len(ch \o p) ELSE LastOn(ch, m)
      /\ (ch \o p)[Len(ch \o p)].val = op.target.val
      /\ \A i \in 1..Len(ch) : (ch \o p)[i] = ch[i]
  <2> DEFINE v == op.target.val
             u == op.before.val
  <2>1. /\ v \in Value \cup {None} /\ u \in Value \cup {None}
        /\ \/ p = <<NextChange(n, r, v)>>
           \/ r = 0 /\ p = <<NextChange(n, 0, u), NextChange(n, 1, v)>>
    BY <1>1, <1>3
  <2> HIDE DEF v, u
  <2>2. /\ ch \o p \in Seq(Change) /\ ch \o p # << >> /\ Chain(log \o (ch \o p))
        /\ \A m : LastOn(ch \o p, m) = IF n = m THEN Len(ch \o p) ELSE LastOn(ch, m)
        /\ (ch \o p)[Len(ch \o p)].val = v
        /\ \A i \in 1..Len(ch) : (ch \o p)[i] = ch[i]
    BY <1>1, <1>2, <2>1, ExtendFacts
  <2> QED
    BY <2>2 DEF v
<1> QED
  BY <1>4 DEF n, ch, p

\* What a session holds in memory has the right types.
LEMMA NextTypeInv ==
  ASSUME ConstantsOK, IInv, [Next]_vars
  PROVE  TypeInv'
<1> USE DEF IInv, TypeInv
<1>0. /\ Nothing \in [ops : Seq(Operation), changes : Seq(Change)]
      /\ log \in Seq(Change) /\ Len(log) \in Nat
  BY EmptySeq, LenProperties DEF Nothing
<1>1. ASSUME NEW n \in Note, NEW v \in Value, Put(n, v) PROVE TypeInv'
  <2> DEFINE op == [note |-> n, before |-> Evolving(n),
                    target |-> [rev |-> Evolving(n).rev + 1, val |-> v]]
  <2>1. Evolving(n) \in Stored
    <3> DEFINE l == LastOn(draft.ops, n)
    <3>0. draft.ops \in Seq(Operation) /\ Len(draft.ops) \in Nat
      BY LenProperties
    <3>1. l = 0 \/ l \in 1..Len(draft.ops)
      BY <3>0, LastOnFacts DEF IsLast
    <3> HIDE DEF l
    <3>2. l # 0 => draft.ops[l] \in Operation
      BY <3>0, <3>1, ElementOfSeq
    <3> QED
      BY <3>2 DEF Evolving, Operation, l
  <2>2. op \in Operation
    BY <2>1 DEF Operation, Stored
  <2>3. draft' = [ops |-> Append(draft.ops, op), changes |-> draft.changes \o Plan(op)]
    BY <1>1 DEF Put, AddToDraft
  <2>4. UNCHANGED <<disk, next, todo, interrupts, edited>> /\ pc' = "draft"
    BY <1>1 DEF Put
  <2> HIDE DEF op
  <2>5. draft' \in [ops : Seq(Operation), changes : Seq(Change)]
    BY <2>2, <2>3, PlanFacts, AppendProperties
  <2> QED
    BY <2>4, <2>5 DEF disk, Locations
<1>2. ASSUME NEW n \in Note, RemoveNote(n) PROVE TypeInv'
  <2> DEFINE op == Removal(n)
  <2>2. op \in Operation
    <3>1. live[n] \in Stored
      OBVIOUS
    <3>2. [live[n] EXCEPT !.val = None] \in Stored
      BY <3>1 DEF Stored
    <3> QED
      BY <3>1, <3>2 DEF Removal, Operation
  <2>3. draft' = [ops |-> Append(draft.ops, op), changes |-> draft.changes \o Plan(op)]
    BY <1>2 DEF RemoveNote, AddToDraft
  <2>4. UNCHANGED <<disk, next, todo, interrupts, edited>> /\ pc' = "save"
    BY <1>2 DEF RemoveNote
  <2> HIDE DEF op
  <2>5. draft' \in [ops : Seq(Operation), changes : Seq(Change)]
    BY <2>2, <2>3, PlanFacts, AppendProperties
  <2> QED
    BY <2>4, <2>5 DEF disk, Locations
<1>3. CASE BeginCapture
  BY <1>3 DEF BeginCapture, disk, Locations
<1>4. ASSUME NEW n \in Note, CaptureNote(n) PROVE TypeInv'
  <2>1. CASE Untracked(n)
    BY <1>4, <2>1 DEF CaptureNote, disk, Locations
  <2>2. CASE ~Untracked(n)
    <3> DEFINE c == NextChange(n, Revision(n), live[n].val)
               op == [note |-> n, before |-> live[n], target |-> live[n]]
    <3>1. draft' = [ops |-> <<op>>, changes |-> <<c>>] /\ todo' = todo \ {n} /\ pc' = "save"
          /\ UNCHANGED <<disk, next, interrupts, edited>>
      BY <1>4, <2>2 DEF CaptureNote
    <3>2. op \in Operation
      BY DEF Operation
    <3>3. Revision(n) \in Nat
      <4>1. Revision(n) = RevisionOn(log \o draft.changes, n)
        BY <1>0, RevisionConcat DEF Revision
      <4>2. log \o draft.changes \in Seq(Change) /\ Chain(log \o draft.changes)
        BY <1>0, ConcatProperties DEF DraftInv
      <4> QED
        BY <4>1, <4>2, RevisionFacts
    <3>4. c \in Change
      BY <3>3 DEF NextChange, Change, Stored
    <3> HIDE DEF c, op
    <3>5. draft' \in [ops : Seq(Operation), changes : Seq(Change)]
      BY <3>1, <3>2, <3>4
    <3> QED
      BY <3>1, <3>5 DEF disk, Locations
  <2> QED
    BY <2>1, <2>2
<1>5. CASE Save
  <2>1. pending' \in Intent
    BY <1>0, <1>5 DEF Save, Intent, Phases
  <2> QED
    BY <1>0, <1>5, <2>1 DEF Save, Locations
<1>6. CASE WriteStorage
  <2>1. pending \in Intent /\ pending.ops[next] \in Operation
    <3>1. pending \in Intent /\ next \in 1..Len(pending.ops)
      BY <1>6, LenProperties DEF WriteStorage, DraftInv, Intent
    <3> QED
      BY <3>1, ElementOfSeq DEF Intent
  <2>2. live' \in [Note -> Stored]
    BY <1>6, <2>1 DEF WriteStorage, Operation
  <2>3. next' \in Nat \ {0} /\ pc' \in Locations /\ todo' \subseteq Note
    BY <1>6 DEF WriteStorage, Throw, Locations
  <2>4. UNCHANGED <<log, cursor, pending, draft, interrupts, edited>>
    BY <1>6 DEF WriteStorage
  <2> QED
    BY <2>2, <2>3, <2>4
<1>7. CASE MarkStorage \/ MarkInstalled \/ MarkCursor
  <2>1. pending \in Intent
    BY <1>7 DEF MarkStorage, MarkInstalled, MarkCursor, DraftInv
  <2>2. pending' \in Intent
    BY <1>7, <2>1 DEF MarkStorage, MarkInstalled, MarkCursor, Intent, Phases
  <2> QED
    BY <1>7, <2>2 DEF MarkStorage, MarkInstalled, MarkCursor, Locations
<1>8. CASE InstallEnvelope
  <2>1. pending \in Intent /\ pending.changes[next] \in Change
    <3>1. pending \in Intent /\ next \in 1..Len(pending.changes)
      BY <1>8, LenProperties DEF InstallEnvelope, DraftInv, Intent
    <3> QED
      BY <3>1, ElementOfSeq DEF Intent
  <2>2. log' = log \/ log' = Append(log, pending.changes[next])
    BY <1>8 DEF InstallEnvelope
  <2>3. log' \in Seq(Change) /\ Len(log') \in Nat /\ Len(log) <= Len(log')
    <3> DEFINE t == Append(log, pending.changes[next])
    <3>1. t \in Seq(Change) /\ Len(t) = Len(log) + 1
      BY <1>0, <2>1, AppendProperties
    <3>2. log' = log \/ log' = t
      BY <2>2
    <3> HIDE DEF t
    <3> QED
      BY <1>0, <3>1, <3>2
  <2>4. next' \in Nat \ {0} /\ pc' \in Locations /\ todo' \subseteq Note
    <3>1. \/ pc' = "idle" /\ next' = 1 /\ todo' = {}
          \/ pc' = pc /\ next' = next + 1 /\ todo' = todo
      BY <1>8 DEF InstallEnvelope, Throw
    <3>2. next + 1 \in Nat \ {0}
      OBVIOUS
    <3> QED
      BY <3>1, <3>2 DEF Locations
  <2>5. UNCHANGED <<live, cursor, pending, draft, interrupts, edited>>
    BY <1>8 DEF InstallEnvelope
  <2>6. \A n \in Note : cursor'[n] <= Len(log')
    BY <1>0, <2>3, <2>5
  <2> QED
    BY <2>3, <2>4, <2>5, <2>6
<1>9. CASE WriteCursor
  <2>1. pending \in Intent /\ Installed(Len(pending.changes))
    BY <1>9 DEF WriteCursor, DraftInv, IntentInv
  <2>2. pending.first \in Nat \ {0} /\ Len(pending.changes) \in Nat
        /\ Len(log) = pending.first - 1 + Len(pending.changes)
    BY <2>1, LenProperties DEF Intent, Installed
  <2>3. \A n : LastOn(pending.changes, n) \in 0..Len(pending.changes)
    BY <2>2, LastOnFacts DEF IsLast
  <2>4. cursor' = [n \in Note |-> IF LastOn(pending.changes, n) = 0 THEN cursor[n]
                                  ELSE pending.first + LastOn(pending.changes, n) - 1]
    BY <1>9 DEF WriteCursor
  <2>5. cursor' \in [Note -> Nat] /\ \A n \in Note : cursor'[n] <= Len(log)
    <3> SUFFICES ASSUME NEW n \in Note PROVE cursor'[n] \in Nat /\ cursor'[n] <= Len(log)
      BY <2>4
    <3> DEFINE l == LastOn(pending.changes, n)
    <3>1. l \in 0..Len(pending.changes)
      BY <2>3
    <3>2. cursor'[n] = IF l = 0 THEN cursor[n] ELSE pending.first + l - 1
      BY <2>4
    <3>3. cursor[n] \in Nat /\ cursor[n] <= Len(log)
      OBVIOUS
    <3> HIDE DEF l, IInv, TypeInv
    <3>4. CASE l = 0
      BY <3>2, <3>3, <3>4
    <3>5. CASE l # 0
      <4>1. pending.first + l - 1 \in Nat /\ pending.first + l - 1 <= Len(log)
        <5>1. l \in 1..Len(pending.changes)
          BY <2>2, <3>1, <3>5
        <5> QED
          BY <2>2, <5>1, WithinIntent
      <4> QED
        BY <3>2, <3>5, <4>1
    <3> QED
      BY <3>4, <3>5
  <2>6. UNCHANGED <<live, log, pending, next, draft, todo, interrupts>> /\ pc' = "mark"
        /\ edited' \subseteq Note
    BY <1>9 DEF WriteCursor
  <2> QED
    BY <2>5, <2>6 DEF Locations
<1>10. CASE Clear
  BY <1>10 DEF Clear, StopAfter, Locations
<1>11. CASE Recover
  <2>1. pending \in Intent
    BY <1>11 DEF Recover
  <2>2. pc' \in Locations
    BY <1>11, <2>1 DEF Recover, Resume, Intent, Phases, Locations
  <2> QED
    BY <1>11, <2>2 DEF Recover, disk
<1>12. CASE Interrupt
  <2>1. interrupts' \in 0..MaxInterrupts
    BY <1>12 DEF Interrupt, ConstantsOK
  <2> QED
    BY <1>0, <1>12, <2>1 DEF Interrupt, Throw, disk, Locations
<1>13. ASSUME NEW n \in Note, NEW v \in Value \cup {None}, NativeEdit(n, v) PROVE TypeInv'
  <2>1. live' \in [Note -> Stored]
    <3>1. [rev |-> IF v = None THEN live[n].rev ELSE live[n].rev + 1, val |-> v] \in Stored
      BY DEF Stored
    <3> QED
      BY <1>13, <3>1 DEF NativeEdit
  <2> QED
    BY <1>13, <2>1 DEF NativeEdit
<1>14. ASSUME NEW n \in Note, NEW v \in Appended, Record(n, v) PROVE TypeInv'
  <2>1. RevisionOn(log, n) \in Nat
    <3>1. pc = "idle"
      BY <1>14 DEF Record
    <3>2. draft = Nothing
      BY <3>1 DEF DraftInv
    <3>3. log \o draft.changes = log
      BY <1>0, <3>2, ConcatEmptySeq DEF Nothing
    <3>4. Chain(log)
      BY <3>3 DEF DraftInv
    <3> QED
      BY <1>0, <3>4, RevisionFacts
  <2>2. NextChange(n, RevisionOn(log, n), v) \in Change
    BY <2>1 DEF NextChange, Change, ConstantsOK
  <2>3. log' = Append(log, NextChange(n, RevisionOn(log, n), v))
        /\ UNCHANGED <<live, cursor, pending, pc, next, draft, todo, interrupts, edited>>
    BY <1>14 DEF Record
  <2>4. log' \in Seq(Change) /\ Len(log') = Len(log) + 1
    BY <1>0, <2>2, <2>3, AppendProperties
  <2>5. \A m \in Note : cursor'[m] <= Len(log')
    BY <1>0, <2>3, <2>4
  <2> QED
    BY <2>3, <2>4, <2>5
<1>15. CASE UNCHANGED vars
  BY <1>15 DEF vars, disk
<1> QED
  BY <1>1, <1>2, <1>3, <1>4, <1>5, <1>6, <1>7, <1>8, <1>9, <1>10, <1>11, <1>12, <1>13, <1>14,
     <1>15 DEF Next, Step

\* Nothing drafted fits any storage and goes on with any chain.
LEMMA NothingDrafted ==
  ASSUME NEW s \in Seq(Change), NEW l
  PROVE  StandsAt(Nothing.ops, l, 0) /\ s \o Nothing.changes = s
<1>1. Nothing.ops = << >> /\ Nothing.changes = << >> /\ Len(<< >>) = 0
  BY DEF Nothing
<1>2. StandsAt(Nothing.ops, l, 0)
  BY <1>1 DEF StandsAt
<1>3. s \o << >> = s
  BY ConcatEmptySeq
<1> QED
  BY <1>1, <1>2, <1>3

\* While an intent is pending nothing is drafted.
LEMMA PendingFacts ==
  ASSUME ConstantsOK, IInv, pending # None
  PROVE  /\ pending \in Intent /\ pending.ops \in Seq(Operation) /\ pending.changes \in Seq(Change)
         /\ Len(pending.ops) \in Nat /\ Len(pending.changes) \in Nat /\ pending.first \in Nat \ {0}
         /\ Prepared(pending.ops, pending.changes)
         /\ draft = Nothing /\ log \in Seq(Change) /\ Len(log) \in Nat /\ Chain(log)
<1>1. pending \in Intent /\ log \in Seq(Change) /\ draft = Nothing /\ Prepared(pending.ops, pending.changes)
  BY DEF IInv, TypeInv, DraftInv, IntentInv
<1>2. log \o draft.changes = log
  BY <1>1, NothingDrafted
<1>3. Chain(log)
  BY <1>2 DEF IInv, DraftInv
<1>4. pending.ops \in Seq(Operation) /\ pending.changes \in Seq(Change) /\ pending.first \in Nat \ {0}
  BY <1>1 DEF Intent
<1> QED
  BY <1>1, <1>3, <1>4, LenProperties

\* What a step of a replay leaves of the storage.
LEMMA WriteFacts ==
  ASSUME ConstantsOK, IInv, WriteStorage
  PROVE  /\ pc = "write" /\ UNCHANGED <<pc, todo, log, cursor, pending, draft, interrupts, edited>>
         /\ next' = next + 1 /\ ~Refuses(next)
         /\ \E m \in 0..Len(pending.ops) : StandsAt(pending.ops, live', m) /\ next' <= m + 1
         /\ \A n \in Note : LastOn(pending.ops, n) = 0 => live'[n] = live[n]
<1>1. pc = "write" /\ pending # None /\ next <= Len(pending.ops)
  BY DEF WriteStorage, IInv, DraftInv
<1>2. /\ pending \in Intent /\ pending.ops \in Seq(Operation) /\ Len(pending.ops) \in Nat
      /\ Coherent(pending.ops)
  BY <1>1, PendingFacts DEF Prepared
<1>3. pending.phase = "prepared"
  BY <1>1 DEF IInv, IntentInv
<1>4. PICK m \in 0..Len(pending.ops) : StandsAt(pending.ops, live, m) /\ next <= m + 1
  BY <1>1, <1>3 DEF IInv, IntentInv
<1>5. next \in 1..Len(pending.ops) /\ live \in [Note -> Stored] /\ next \in Nat
  BY <1>1, <1>2 DEF IInv, TypeInv
<1>6. /\ ~Refuses(next)
      /\ next <= m => Skips(next)
      /\ next = m + 1 => live[pending.ops[next].note] = pending.ops[next].before
      /\ next = m + 1 /\ Skips(next) => pending.ops[next].target = pending.ops[next].before
  BY <1>2, <1>4, <1>5, ReplayFacts
<1> DEFINE op == pending.ops[next]
<1>7. /\ live' = IF Skips(next) THEN live ELSE [live EXCEPT ![op.note] = op.target]
      /\ next' = next + 1 /\ UNCHANGED <<pc, todo>>
      /\ UNCHANGED <<log, cursor, pending, draft, interrupts, edited>>
  BY <1>6 DEF WriteStorage
<1>8. op \in Operation /\ op.note \in Note
  <2>1. op \in Operation
    BY <1>2, <1>5, ElementOfSeq
  <2> QED
    BY <2>1 DEF Operation
<1> HIDE DEF op
<1>9. \E k \in 0..Len(pending.ops) : StandsAt(pending.ops, live', k) /\ next' <= k + 1
  <2>1. CASE next <= m
    <3>1. live' = live
      BY <1>6, <1>7, <2>1
    <3>2. next' <= m + 1
      BY <1>4, <1>5, <1>7, <2>1
    <3>3. StandsAt(pending.ops, live', m)
      BY <1>4, <3>1
    <3> QED
      BY <3>2, <3>3
  <2>2. CASE ~(next <= m)
    <3>1. next = m + 1 /\ m < Len(pending.ops) /\ next \in 0..Len(pending.ops)
      BY <1>1, <1>2, <1>4, <1>5, <2>2
    <3> DEFINE t == [live EXCEPT ![op.note] = op.target]
    <3>2. StandsAt(pending.ops, t, next)
      BY <1>2, <1>4, <1>5, <3>1, AfterWrite DEF op
    <3>3. live' = t
      <4>1. Skips(next) => op.target = live[op.note]
        BY <1>6, <3>1 DEF op
      <4>2. op.target = live[op.note] => t = live
        BY <1>5, <1>8
      <4> QED
        BY <1>7, <4>1, <4>2
    <3> HIDE DEF t
    <3>4. next' <= next + 1
      BY <1>5, <1>7
    <3> QED
      BY <3>1, <3>2, <3>3, <3>4
  <2> QED
    BY <2>1, <2>2
<1>10. ASSUME NEW n \in Note, LastOn(pending.ops, n) = 0 PROVE live'[n] = live[n]
  <2>1. \A j \in 1..Len(pending.ops) : pending.ops[j].note # n
    <3>1. IsLast(pending.ops, n, 0)
      BY <1>2, <1>10, LastOnFacts
    <3> QED
      BY <3>1 DEF IsLast
  <2>2. op.note # n
    BY <1>5, <2>1 DEF op
  <2> QED
    BY <1>5, <1>7, <1>8, <2>2
<1> QED
  BY <1>1, <1>6, <1>7, <1>9, <1>10

\* A replay never finds another change at one of its places.
LEMMA NoFork ==
  ASSUME ConstantsOK, IInv, pc = "install"
  PROVE  ~Forks
<1>1. pending # None /\ pending.phase = "storage-written"
  BY DEF IInv, DraftInv, IntentInv
<1>2. pending.first \in Nat \ {0} /\ Len(pending.changes) \in Nat
  BY <1>1, PendingFacts
<1>3. PICK k \in 0..Len(pending.changes) : Installed(k)
  BY <1>1 DEF IInv, IntentInv
<1>4. ASSUME NEW j \in 1..Len(pending.changes), pending.first + j - 1 <= Len(log)
      PROVE  log[pending.first + j - 1] = pending.changes[j]
  <2>1. j \in 1..k /\ pending.first + j - 1 = pending.first - 1 + j
    <3>1. Len(log) = pending.first - 1 + k
      BY <1>3 DEF Installed
    <3>2. j \in Nat /\ 1 <= j /\ k \in Nat /\ pending.first \in Nat
      BY <1>2
    <3>3. pending.first + j - 1 <= pending.first - 1 + k
      BY <1>4, <3>1
    <3> QED
      BY <3>2, <3>3
  <2> QED
    BY <1>3, <2>1 DEF Installed
<1> QED
  BY <1>4 DEF Forks

\* What a step of a replay leaves of the log.
LEMMA InstallFacts ==
  ASSUME ConstantsOK, IInv, InstallEnvelope
  PROVE  /\ pc = "install" /\ UNCHANGED <<pc, todo, live, cursor, pending, draft, interrupts, edited>>
         /\ next' = next + 1
         /\ \E k \in 0..Len(pending.changes) : Installed(k)' /\ next' <= k + 1
         /\ log' \in Seq(Change) /\ Chain(log') /\ CommittedLog' = CommittedLog
         /\ Len(log) <= Len(log') /\ \A i \in 1..Len(log) : log'[i] = log[i]
<1> DEFINE f == pending.first
           ch == pending.changes
           C == CommittedLog
<1>1. pc = "install" /\ pending # None /\ next <= Len(ch)
  BY DEF InstallEnvelope, IInv, DraftInv
<1>2. /\ pending \in Intent /\ f \in Nat \ {0} /\ ch \in Seq(Change) /\ Len(ch) \in Nat
      /\ log \in Seq(Change) /\ Len(log) \in Nat /\ Chain(log)
  BY <1>1, PendingFacts
<1>3. pending.phase = "storage-written" /\ Chain(C)
  BY <1>1 DEF IInv, IntentInv
<1>4. PICK k \in 0..Len(ch) : Installed(k) /\ next <= k + 1
  BY <1>1, <1>3 DEF IInv, IntentInv
<1>5. next \in Nat /\ next \in 1..Len(ch) /\ k \in Nat
  BY <1>1, <1>2, <1>4 DEF IInv, TypeInv
<1>6. /\ log' = IF f + next - 1 <= Len(log) THEN log ELSE Append(log, ch[next])
      /\ next' = next + 1 /\ UNCHANGED <<pc, todo>>
      /\ UNCHANGED <<live, cursor, pending, draft, interrupts, edited>>
  BY <1>1, NoFork DEF InstallEnvelope
<1>7. /\ C = SubSeq(log, 1, f - 1) \o ch /\ C \in Seq(Change) /\ Len(log) = f - 1 + k
      /\ Len(C) = f - 1 + Len(ch) /\ log = SubSeq(C, 1, Len(log))
  BY <1>2, <1>4, LogIsPrefix
<1>8. \A j \in 1..k : log[f - 1 + j] = ch[j]
  BY <1>4 DEF Installed
<1>9. ch[next] \in Change
  BY <1>2, <1>5, ElementOfSeq
<1> HIDE DEF f, ch
<1>10. CASE next <= k
  <2>1. log' = log
    BY <1>2, <1>5, <1>6, <1>7, <1>10
  <2>2. Installed(k)'
    BY <1>6, <1>7, <1>8, <2>1 DEF Installed, f, ch
  <2>3. CommittedLog' = CommittedLog
    BY <1>6, <2>1 DEF CommittedLog
  <2>4. next' <= k + 1
    BY <1>5, <1>6, <1>10
  <2> QED
    BY <1>1, <1>2, <1>4, <1>6, <2>1, <2>2, <2>3, <2>4 DEF ch
<1>11. CASE ~(next <= k)
  <2>1. next = k + 1 /\ k + 1 \in 0..Len(ch)
    BY <1>2, <1>4, <1>5, <1>11
  <2>2. log' = Append(log, ch[k + 1])
    BY <1>2, <1>5, <1>6, <1>7, <2>1
  <2>3. /\ log' \in Seq(Change) /\ Len(log') = Len(log) + 1 /\ log'[Len(log) + 1] = ch[k + 1]
        /\ \A i \in 1..Len(log) : log'[i] = log[i]
    BY <1>2, <1>9, <2>1, <2>2, AppendProperties
  <2>4. \A j \in 1..(k + 1) : log'[f - 1 + j] = ch[j]
    <3> SUFFICES ASSUME NEW j \in 1..(k + 1) PROVE log'[f - 1 + j] = ch[j]
      OBVIOUS
    <3>1. CASE j = k + 1
      <4>1. f - 1 + j = Len(log) + 1
        BY <1>2, <1>5, <1>7, <3>1
      <4> QED
        BY <2>3, <3>1, <4>1
    <3>2. CASE j # k + 1
      <4>0. j \in 1..k
        BY <1>5, <3>2
      <4>1. j \in 1..k /\ f - 1 + j \in 1..Len(log)
        BY <1>2, <1>5, <1>7, <4>0
      <4> QED
        BY <1>8, <2>3, <4>1
    <3> QED
      BY <3>1, <3>2
  <2>5. Len(log') = f - 1 + (k + 1)
    BY <1>2, <1>5, <1>7, <2>3
  <2>6. Installed(k + 1)'
    BY <1>6, <2>4, <2>5 DEF Installed, f, ch
  <2>7. CommittedLog' = CommittedLog
    <3>1. SubSeq(log', 1, f - 1) = SubSeq(log, 1, f - 1)
      <4>1. f - 1 \in Nat /\ f - 1 <= Len(log) /\ f - 1 <= Len(log')
            /\ \A i \in 1..(f - 1) : log'[i] = log[i]
        <5>1. f - 1 \in Nat /\ f - 1 <= Len(log) /\ f - 1 <= Len(log')
          BY <1>2, <1>5, <1>7, <2>3
        <5>2. \A i \in 1..(f - 1) : i \in 1..Len(log)
          BY <1>2, <5>1
        <5> QED
          BY <2>3, <5>1, <5>2
      <4> DEFINE g == f - 1
      <4> HIDE DEF g
      <4>2. SubSeq(log', 1, g) = SubSeq(log, 1, g)
        BY <1>2, <2>3, <4>1, SamePrefix DEF g
      <4> QED
        BY <4>2 DEF g
    <3> QED
      BY <1>1, <1>6, <3>1 DEF CommittedLog, f
  <2>8. Chain(log')
    <3> DEFINE p == SubSeq(log, 1, f - 1)
    <3>1. p \in Seq(Change) /\ Len(p) = f - 1
      <4> DEFINE g == f - 1
      <4>1. g \in 0..Len(log)
        BY <1>2, <1>5, <1>7
      <4> HIDE DEF g
      <4>2. SubSeq(log, 1, g) \in Seq(Change) /\ Len(SubSeq(log, 1, g)) = g
        BY <1>2, <4>1, PrefixFacts
      <4> QED
        BY <4>2 DEF g
    <3>2. C[f - 1 + (k + 1)] = ch[k + 1]
      <4> HIDE DEF p, C
      <4>1. \A i \in 1..(Len(p) + Len(ch)) : C[i] = IF i <= Len(p) THEN p[i] ELSE ch[i - Len(p)]
        BY <1>2, <1>7, <3>1, ConcatProperties DEF p
      <4> DEFINE i == f - 1 + (k + 1)
      <4>2. i \in 1..(Len(p) + Len(ch)) /\ ~(i <= Len(p)) /\ i - Len(p) = k + 1
        BY <1>2, <1>5, <2>1, <3>1
      <4> HIDE DEF i
      <4>3. C[i] = ch[k + 1]
        BY <4>1, <4>2
      <4> QED
        BY <4>3 DEF i
    <3> HIDE DEF C, p
    <3>3. \A i \in 1..Len(log) : log[i] = C[i]
      <4>1. Len(log) \in 0..Len(C)
        BY <1>2, <1>4, <1>5, <1>7
      <4>2. \A i \in 1..Len(log) : SubSeq(C, 1, Len(log))[i] = C[i]
        BY <1>7, <4>1, PrefixFacts
      <4> QED
        BY <1>7, <4>2
    <3>4. \A i \in 1..Len(log') : log'[i] = C[i]
      <4> SUFFICES ASSUME NEW i \in 1..Len(log') PROVE log'[i] = C[i]
        OBVIOUS
      <4>1. CASE i \in 1..Len(log)
        BY <2>3, <3>3, <4>1
      <4>2. CASE i = Len(log) + 1
        <5>1. i = f - 1 + (k + 1)
          BY <2>3, <2>5, <4>2
        <5> QED
          BY <2>3, <3>2, <4>2, <5>1
      <4> QED
        BY <1>2, <2>3, <4>1, <4>2
    <3>5. Len(log') \in Nat /\ Len(log') \in 0..Len(C) /\ Len(log') <= Len(C)
      BY <1>2, <1>7, <2>1, <2>5
    <3>6. SubSeq(log', 1, Len(log')) = SubSeq(C, 1, Len(log'))
      <4> DEFINE l == Len(log')
      <4>1. l \in Nat /\ l <= Len(log') /\ l <= Len(C) /\ \A i \in 1..l : log'[i] = C[i]
        BY <3>4, <3>5
      <4> HIDE DEF l
      <4>2. C \in Seq(Change)
        BY <1>7 DEF C
      <4>3. SubSeq(log', 1, l) = SubSeq(C, 1, l)
        BY <2>3, <4>1, <4>2, SamePrefix
      <4> QED
        BY <4>3 DEF l
    <3>7. SubSeq(log', 1, Len(log')) = log'
      BY <2>3, SubSeqFull
    <3> QED
      BY <1>3, <1>7, <3>5, <3>6, <3>7, ChainPrefix DEF C
  <2>9. next' <= (k + 1) + 1 /\ Len(log) <= Len(log')
    BY <1>2, <1>5, <1>6, <2>1, <2>3
  <2> QED
    BY <1>1, <1>6, <2>1, <2>3, <2>6, <2>7, <2>8, <2>9 DEF ch
<1> QED
  BY <1>10, <1>11

\* A saved intent says what the draft said.
LEMMA SaveFacts ==
  ASSUME ConstantsOK, IInv, Save
  PROVE  /\ pending = None /\ Prepared(draft.ops, draft.changes) /\ log \in Seq(Change) /\ Chain(log)
         /\ pending' = [ops |-> draft.ops, changes |-> draft.changes, first |-> Len(log) + 1,
                        phase |-> "prepared"]
         /\ pending' # None /\ CommittedLog = log /\ CommittedLog' = log \o draft.changes
         /\ draft' = Nothing /\ pc' = "write" /\ next' = 1
         /\ UNCHANGED <<live, log, cursor, todo, interrupts, edited>>
<1> USE DEF IInv
<1>1. /\ pc \in {"draft", "save"} /\ draft' = Nothing /\ pc' = "write" /\ next' = 1
      /\ UNCHANGED <<live, log, cursor, todo, interrupts, edited>>
      /\ pending' = [ops |-> draft.ops, changes |-> draft.changes, first |-> Len(log) + 1,
                     phase |-> "prepared"]
  BY DEF Save
<1>2. pending = None /\ Prepared(draft.ops, draft.changes) /\ Chain(log \o draft.changes)
  BY <1>1 DEF DraftInv
<1>3. log \in Seq(Change) /\ Len(log) \in Nat /\ draft.ops \in Seq(Operation) /\ draft.changes \in Seq(Change)
  BY LenProperties DEF TypeInv
<1>4. pending' # None
  <2>1. pending' \in Intent
    BY <1>1, <1>3 DEF Intent, Phases
  <2> QED
    BY <2>1 DEF ConstantsOK
<1>5. Len(log) + 1 - 1 = Len(log) /\ SubSeq(log, 1, Len(log)) = log
  BY <1>3, SubSeqFull
<1>6. CommittedLog = log /\ CommittedLog' = log \o draft.changes
  <2>1. pending'.first = Len(log) + 1 /\ pending'.changes = draft.changes
    BY <1>1
  <2>2. CommittedLog' = SubSeq(log', 1, pending'.first - 1) \o pending'.changes
    BY <1>4 DEF CommittedLog
  <2>3. log' = log
    BY <1>1
  <2>4. pending'.first - 1 = Len(log)
    BY <1>3, <2>1
  <2>5. CommittedLog = log
    BY <1>2 DEF CommittedLog
  <2> QED
    BY <1>5, <2>1, <2>2, <2>3, <2>4, <2>5
<1>7. Chain(log)
  BY <1>2, <1>3, ChainLeft
<1> QED
  BY <1>1, <1>2, <1>3, <1>4, <1>6, <1>7

\* What an operation plans becomes the draft of a prepared intent.
LEMMA NextDraftInv ==
  ASSUME ConstantsOK, NobodyOutside, IInv, [Next]_vars
  PROVE  DraftInv'
<1> USE DEF IInv
<1>0. /\ log \in Seq(Change) /\ live \in [Note -> Stored] /\ pc \in Locations
      /\ draft.ops \in Seq(Operation) /\ draft.changes \in Seq(Change)
      /\ Nothing.ops = << >> /\ Nothing.changes = << >> /\ Len(<< >>) = 0
      /\ << >> \in Seq(Operation) /\ << >> \in Seq(Change)
  BY EmptySeq DEF TypeInv, Nothing
<1>n. /\ \A n : LastOn(<< >>, n) = 0
      /\ PutsOnly(<< >>) /\ Coherent(<< >>) /\ Matches(<< >>, << >>)
  <2>1. \A n : LastOn(<< >>, n) = 0
    <3>1. Len(<< >>) \in Nat
      BY <1>0
    <3>2. \A n : IsLast(<< >>, n, 0)
      BY <1>0 DEF IsLast
    <3> QED
      BY <3>1, <3>2, LastOnFacts
  <2>2. PutsOnly(<< >>) /\ Coherent(<< >>)
    BY <1>0 DEF PutsOnly, Coherent
  <2> QED
    BY <2>1, <2>2 DEF Matches
<1>k. pc \notin {"draft", "save"} => Chain(log) /\ draft.ops = << >> /\ draft.changes = << >>
  <2>1. log \o << >> = log
    BY <1>0, ConcatEmptySeq
  <2> QED
    BY <1>0, <2>1 DEF DraftInv
<1>g. ASSUME draft' = Nothing, pc' \notin {"draft", "save"}, log' \in Seq(Change), Chain(log'),
             pc' = "capture" => pending' = None,
             pc' \in {"write", "install", "cursor", "mark", "clear"} => pending' # None,
             pc' \notin {"write", "install"} => next' = 1
      PROVE  DraftInv'
  <2>1. StandsAt(Nothing.ops, live', 0) /\ log' \o Nothing.changes = log'
    BY <1>g, NothingDrafted
  <2> QED
    BY <1>g, <2>1 DEF DraftInv
<1>1. ASSUME NEW n \in Note, NEW v \in Value, Put(n, v) PROVE DraftInv'
  <2> DEFINE op == [note |-> n, before |-> Evolving(n),
                    target |-> [rev |-> Evolving(n).rev + 1, val |-> v]]
             q == draft.changes \o Plan(op)
  <2>1. pc \in {"idle", "draft"} /\ pending = None /\ UNCHANGED <<disk, next, todo, interrupts, edited>>
        /\ pc' = "draft" /\ draft' = [ops |-> Append(draft.ops, op), changes |-> q]
    BY <1>1 DEF Put, AddToDraft, DraftInv
  <2>2. Evolving(n) \in Stored
    <3> DEFINE l == LastOn(draft.ops, n)
    <3>0. Len(draft.ops) \in Nat
      BY <1>0, LenProperties
    <3>1. l = 0 \/ l \in 1..Len(draft.ops)
      BY <3>0, LastOnFacts DEF IsLast
    <3> HIDE DEF l
    <3>2. l # 0 => draft.ops[l] \in Operation
      BY <1>0, <3>0, <3>1, ElementOfSeq
    <3> QED
      BY <1>0, <3>2 DEF Evolving, Operation, l
  <2>3. op \in Operation
    BY <2>2 DEF Operation, Stored
  <2>4. /\ op.note = n /\ op.target.val = v /\ op.target.rev = op.before.rev + 1
        /\ op.before = IF LastOn(draft.ops, op.note) = 0 THEN live[op.note]
                       ELSE draft.ops[LastOn(draft.ops, op.note)].target
    BY DEF Evolving
  <2> HIDE DEF op
  <2>5. /\ q \in Seq(Change) /\ q # << >> /\ Chain(log \o q)
        /\ \A m : LastOn(q, m) = IF op.note = m THEN Len(q) ELSE LastOn(draft.changes, m)
        /\ q[Len(q)].val = op.target.val
        /\ \A i \in 1..Len(draft.changes) : q[i] = draft.changes[i]
    BY <2>3, PlanFacts
  <2>6. PutsOnly(draft.ops) /\ Coherent(draft.ops) /\ Matches(draft.ops, draft.changes)
    BY <1>k, <1>n, <2>1 DEF DraftInv, Prepared
  <2>7. StandsAt(draft.ops, live, 0)
    BY DEF DraftInv
  <2> HIDE DEF q
  <2>8. Matches(Append(draft.ops, op), q) /\ StandsAt(Append(draft.ops, op), live, 0)
    BY <1>0, <2>3, <2>4, <2>5, <2>6, <2>7, AddedFacts
  <2>9. PutsOnly(Append(draft.ops, op)) /\ Coherent(Append(draft.ops, op))
    BY <1>0, <2>3, <2>4, <2>6, AddedPut
  <2>10. Append(draft.ops, op) # << >>
    BY <1>0, <2>3, AppendProperties
  <2>11. draft'.ops = Append(draft.ops, op) /\ draft'.changes = q
    BY <2>1
  <2>12. next = 1
    BY <2>1 DEF DraftInv
  <2> QED
    BY <2>1, <2>5, <2>8, <2>9, <2>10, <2>11, <2>12 DEF DraftInv, Prepared, disk
<1>h. ASSUME NEW op \in Operation, NEW q, pc \in {"idle", "capture"}, op.before = live[op.note],
             OneOnly(<<op>>), draft' = [ops |-> <<op>>, changes |-> q],
             q \in Seq(Change), q # << >>, Chain(log \o q),
             \A m : LastOn(q, m) = IF op.note = m THEN Len(q) ELSE LastOn(<< >>, m),
             q[Len(q)].val = op.target.val,
             pc' = "save", UNCHANGED <<disk, next>>, pending = None
      PROVE  DraftInv'
  <2>1. draft.ops = << >> /\ draft.changes = << >>
    BY <1>h, <1>k
  <2>2. Append(<< >>, op) = <<op>>
    BY <1>0, AppendIsConcat, ConcatEmptySeq
  <2>3. StandsAt(<< >>, live, 0)
    BY <1>0 DEF StandsAt
  <2>4. \A i \in 1..Len(<< >>) : q[i] = << >>[i]
    BY <1>0
  <2>5. op.before = IF LastOn(<< >>, op.note) = 0 THEN live[op.note] ELSE << >>[LastOn(<< >>, op.note)].target
    BY <1>h, <1>n
  <2>6. Matches(Append(<< >>, op), q) /\ StandsAt(Append(<< >>, op), live, 0)
    BY <1>0, <1>h, <1>n, <2>3, <2>4, <2>5, AddedFacts
  <2>7. Coherent(<<op>>)
    <3>1. Len(<<op>>) = 1
      OBVIOUS
    <3> QED
      BY <1>h, <3>1 DEF Coherent
  <2>8. <<op>> # << >> /\ draft'.ops = <<op>> /\ draft'.changes = q
    BY <1>h
  <2>9. next = 1
    BY <1>h DEF DraftInv
  <2> QED
    BY <1>h, <2>2, <2>6, <2>7, <2>8, <2>9 DEF DraftInv, Prepared, disk
<1>2. ASSUME NEW n \in Note, RemoveNote(n) PROVE DraftInv'
  <2> DEFINE op == Removal(n)
             q == draft.changes \o Plan(op)
  <2>1. /\ pc = "idle" /\ pending = None /\ live[n].val # None
        /\ draft' = [ops |-> Append(draft.ops, op), changes |-> q]
        /\ pc' = "save" /\ UNCHANGED <<disk, next, todo, interrupts, edited>>
    BY <1>2 DEF RemoveNote, AddToDraft
  <2>2. op \in Operation /\ op.before = live[op.note] /\ op.target.val = None /\ op.before.val # None
    <3>1. live[n] \in Stored
      BY <1>0
    <3>2. [live[n] EXCEPT !.val = None] \in Stored /\ [live[n] EXCEPT !.val = None].val = None
      BY <3>1 DEF Stored
    <3> QED
      BY <2>1, <3>1, <3>2 DEF Removal, Operation
  <2>3. draft.ops = << >> /\ draft.changes = << >>
    BY <1>k, <2>1
  <2> HIDE DEF op
  <2>4. Append(draft.ops, op) = <<op>>
    BY <1>0, <2>2, <2>3, AppendIsConcat, ConcatEmptySeq
  <2>5. OneOnly(<<op>>)
    BY <2>2 DEF OneOnly
  <2>6. /\ q \in Seq(Change) /\ q # << >> /\ Chain(log \o q)
        /\ \A m : LastOn(q, m) = IF op.note = m THEN Len(q) ELSE LastOn(draft.changes, m)
        /\ q[Len(q)].val = op.target.val
    BY <2>2, PlanFacts
  <2> HIDE DEF q
  <2> QED
    BY <1>h, <2>1, <2>2, <2>3, <2>4, <2>5, <2>6
<1>3. CASE BeginCapture
  BY <1>0, <1>3, <1>k, <1>g DEF BeginCapture, DraftInv, disk
<1>4. ASSUME NEW n \in Note, CaptureNote(n) PROVE DraftInv'
  <2>1. CASE Untracked(n)
    BY <1>0, <1>4, <1>k, <1>g, <2>1 DEF CaptureNote, DraftInv, disk
  <2>2. CASE ~Untracked(n)
    <3> DEFINE v == live[n].val
               r == Revision(n)
               q == <<NextChange(n, r, v)>>
               op == [note |-> n, before |-> live[n], target |-> live[n]]
    <3>1. draft' = [ops |-> <<op>>, changes |-> q] /\ pc = "capture" /\ pc' = "save"
          /\ UNCHANGED <<disk, next, interrupts, edited>>
      BY <1>4, <2>2 DEF CaptureNote
    <3>2. op \in Operation /\ op.before = live[op.note] /\ op.note = n /\ op.target.val = v
          /\ op.target = op.before
      BY <1>0 DEF Operation
    <3>3. pending = None /\ draft.changes = << >> /\ v \in Value \cup {None}
      BY <1>0, <1>k, <3>1 DEF DraftInv, Stored
    <3>4. r = IF LastOn(<< >>, n) = 0 THEN RevisionOn(log, n) ELSE RevisionOn(<< >>, n)
      BY <3>3 DEF Revision
    <3>5. Chain(log \o << >>)
      BY <3>3 DEF DraftInv
    <3>p. q = <<NextChange(n, r, v)>>
      OBVIOUS
    <3> HIDE DEF v, r, q
    <3>6. /\ q \in Seq(Change) /\ << >> \o q # << >> /\ Chain(log \o (<< >> \o q))
          /\ \A m : LastOn(<< >> \o q, m) = IF n = m THEN Len(<< >> \o q) ELSE LastOn(<< >>, m)
          /\ (<< >> \o q)[Len(<< >> \o q)].val = v
      <4> DEFINE ch == << >>
      <4>1. log \in Seq(Change) /\ ch \in Seq(Change) /\ Chain(log \o ch) /\ v \in Value \cup {None}
            /\ r = IF LastOn(ch, n) = 0 THEN RevisionOn(log, n) ELSE RevisionOn(ch, n)
        BY <1>0, <3>3, <3>4, <3>5
      <4> HIDE DEF IInv, ch
      <4>2. /\ q \in Seq(Change) /\ ch \o q # << >> /\ Chain(log \o (ch \o q))
            /\ \A m : LastOn(ch \o q, m) = IF n = m THEN Len(ch \o q) ELSE LastOn(ch, m)
            /\ (ch \o q)[Len(ch \o q)].val = v
        <5>1. \/ q = <<NextChange(n, r, v)>>
              \/ r = 0 /\ q = <<NextChange(n, 0, v), NextChange(n, 1, v)>>
          BY <3>p
        <5> QED
          BY <4>1, <5>1, ExtendFacts
      <4> QED
        BY <4>2 DEF ch
    <3>7. << >> \o q = q
      BY <3>6, ConcatEmptySeq
    <3> HIDE DEF op
    <3>8. OneOnly(<<op>>)
      BY <3>2 DEF OneOnly
    <3>9. /\ q # << >> /\ Chain(log \o q) /\ q[Len(q)].val = op.target.val
          /\ \A m : LastOn(q, m) = IF op.note = m THEN Len(q) ELSE LastOn(<< >>, m)
      BY <3>2, <3>6, <3>7
    <3> QED
      BY <1>h, <3>1, <3>2, <3>3, <3>6, <3>8, <3>9
  <2> QED
    BY <2>1, <2>2
<1>5. CASE Save
  BY <1>5, <1>g, SaveFacts
<1>6. CASE WriteStorage
  <2>1. pending # None /\ pc = "write"
    BY <1>6 DEF WriteStorage, DraftInv
  <2> QED
    BY <1>6, <1>g, <2>1, PendingFacts, WriteFacts
<1>7. CASE MarkStorage \/ MarkInstalled \/ WriteCursor \/ MarkCursor
  <2>1. pending # None /\ pc \in {"write", "install", "cursor", "mark"} /\ UNCHANGED <<log, draft>>
        /\ pc' \in {"install", "cursor", "mark", "clear"}
    BY <1>7 DEF MarkStorage, MarkInstalled, WriteCursor, MarkCursor, DraftInv
  <2>2. draft = Nothing /\ log \in Seq(Change) /\ Chain(log)
    BY <2>1, PendingFacts
  <2>3. pending' # None
    <3>1. pending' \in Intent \cup {pending}
      <4>1. pending \in Intent
        BY <2>1, PendingFacts
      <4> QED
        BY <1>7, <4>1 DEF MarkStorage, MarkInstalled, WriteCursor, MarkCursor, Intent, Phases
    <3> QED
      BY <2>1, <3>1 DEF ConstantsOK
  <2>4. pc' \notin {"write", "install"} => next' = 1
    BY <1>7 DEF MarkStorage, MarkInstalled, WriteCursor, MarkCursor, DraftInv
  <2> QED
    BY <1>g, <2>1, <2>2, <2>3, <2>4
<1>8. CASE InstallEnvelope
  <2>1. pending # None /\ pc = "install"
    BY <1>8 DEF InstallEnvelope, DraftInv
  <2> QED
    BY <1>8, <1>g, <2>1, PendingFacts, InstallFacts
<1>9. CASE Clear
  <2>1. pc = "clear" /\ pending' = None /\ pc' \in {"idle", "capture"} /\ UNCHANGED <<log, next, draft>>
    BY <1>9 DEF Clear, StopAfter
  <2>2. next = 1 /\ pending # None
    BY <2>1 DEF DraftInv
  <2> QED
    BY <1>g, <2>1, <2>2, PendingFacts
<1>10. CASE Recover
  <2>1. pending # None /\ pc = "idle" /\ pc' = Resume[pending.phase] /\ UNCHANGED <<disk, next, draft>>
    BY <1>10 DEF Recover
  <2>2. pc' \in {"write", "install", "cursor", "clear"}
    <3>1. pending.phase \in Phases
      BY <2>1, PendingFacts DEF Intent
    <3> QED
      BY <2>1, <3>1 DEF Resume, Phases
  <2>3. next = 1
    BY <2>1 DEF DraftInv
  <2> QED
    BY <1>g, <2>1, <2>2, <2>3, PendingFacts DEF disk
<1>11. CASE Interrupt
  <2>1. pc' = "idle" /\ next' = 1 /\ draft' = Nothing /\ UNCHANGED disk
    BY <1>11 DEF Interrupt, Throw
  <2>2. Chain(log)
    <3>1. CASE pc \in {"draft", "save"}
      BY <1>0, ChainLeft DEF DraftInv
    <3>2. CASE pc \notin {"draft", "save"}
      BY <1>k, <3>2
    <3> QED
      BY <3>1, <3>2
  <2> QED
    BY <1>0, <1>g, <2>1, <2>2 DEF disk
<1>12. ASSUME NEW n \in Note, NEW v \in Value \cup {None}, NativeEdit(n, v) PROVE DraftInv'
  <2>1. pc = "idle" /\ UNCHANGED <<log, pending, pc, next, draft>>
    BY <1>12 DEF NativeEdit
  <2>2. draft = Nothing /\ next = 1
    BY <2>1 DEF DraftInv
  <2> QED
    BY <1>0, <1>g, <1>k, <2>1, <2>2
<1>13. ASSUME NEW n \in Note, NEW v \in Appended, Record(n, v) PROVE DraftInv'
  <2> DEFINE c == NextChange(n, RevisionOn(log, n), v)
  <2>1. pc = "idle" /\ log' = Append(log, c) /\ UNCHANGED <<pending, pc, next, draft>>
    BY <1>13 DEF Record
  <2>2. draft = Nothing /\ next = 1
    BY <2>1 DEF DraftInv
  <2>3. Chain(log) /\ RevisionOn(log, n) \in Nat
    BY <1>0, <1>k, <2>1, RevisionFacts
  <2>4. c \in Change /\ c.note = n /\ c.base = RevisionOn(log, n) /\ c.rev = c.base + 1
    BY <2>3 DEF NextChange, Change, ConstantsOK
  <2> HIDE DEF c
  <2>5. log' \in Seq(Change) /\ log' = log \o <<c>> /\ Chain(log \o <<c>>)
    <3>1. log \in Seq(Change) /\ c \in Change
      BY <1>0, <2>4
    <3>2. Append(log, c) \in Seq(Change)
      BY <3>1, AppendProperties
    <3>3. Append(log, c) = log \o <<c>>
      BY <3>1, AppendIsConcat
    <3>4. Chain(log \o <<c>>)
      BY <2>3, <2>4, <3>1, ChainAppend
    <3> QED
      BY <2>1, <3>2, <3>3, <3>4
  <2> QED
    BY <1>g, <2>1, <2>2, <2>5
<1>14. CASE UNCHANGED vars
  BY <1>14 DEF vars, disk, DraftInv
<1> QED
  BY <1>1, <1>2, <1>3, <1>4, <1>5, <1>6, <1>7, <1>8, <1>9, <1>10, <1>11, <1>12, <1>13, <1>14
     DEF Next, Step

\* A marker moves nothing else.
LEMMA Marked ==
  ASSUME pending # None, pending' # None, pending'.changes = pending.changes,
         pending'.first = pending.first, log' = log
  PROVE  /\ CommittedLog' = CommittedLog /\ \A k : Installed(k)' <=> Installed(k)
         /\ Installed(Len(pending.changes))' <=> Installed(Len(pending.changes))
BY DEF CommittedLog, Installed

\* A marker never says more than is on disk.
LEMMA NextIntentInv ==
  ASSUME ConstantsOK, NobodyOutside, IInv, [Next]_vars
  PROVE  IntentInv'
<1> USE DEF IInv
<1>o. Outside = {}
  BY DEF NobodyOutside
<1>n. pending' = None => IntentInv'
  BY DEF IntentInv
<1>1. CASE \/ \E n \in Note, v \in Value : Put(n, v)
           \/ \E n \in Note : RemoveNote(n) \/ CaptureNote(n)
           \/ \E n \in Note, v \in Value \cup {None} : NativeEdit(n, v)
           \/ \E n \in Note, v \in Appended : Record(n, v)
           \/ BeginCapture \/ Clear
  <2>1. pending' = None
    BY <1>1, <1>o DEF Put, RemoveNote, CaptureNote, NativeEdit, Record, BeginCapture, Clear,
                      DraftInv, disk
  <2> QED
    BY <1>n, <2>1
<1>2. CASE Save
  <2>1. /\ pending' = [ops |-> draft.ops, changes |-> draft.changes, first |-> Len(log) + 1,
                       phase |-> "prepared"]
        /\ Prepared(draft.ops, draft.changes) /\ CommittedLog' = log \o draft.changes
        /\ pc' = "write" /\ next' = 1 /\ UNCHANGED <<live, log>>
    BY <1>2, SaveFacts
  <2>2. /\ pending'.ops = draft.ops /\ pending'.changes = draft.changes
        /\ pending'.first = Len(log) + 1 /\ pending'.phase = "prepared"
    BY <2>1
  <2>3. StandsAt(draft.ops, live, 0) /\ Chain(log \o draft.changes)
    BY DEF DraftInv
  <2>4. Len(log) \in Nat /\ Len(draft.ops) \in Nat
    BY LenProperties DEF TypeInv
  <2>5. Installed(0)'
    <3>1. Len(log) = (Len(log) + 1) - 1 + 0
      BY <2>4
    <3>2. Len(log') = pending'.first - 1 + 0
      BY <2>1, <2>2, <3>1
    <3> QED
      BY <3>2 DEF Installed
  <2>6. \E m \in 0..Len(pending'.ops) :
          StandsAt(pending'.ops, live', m) /\ (pc' = "write" => next' <= m + 1)
    <3>1. 0 \in 0..Len(pending'.ops) /\ StandsAt(pending'.ops, live', 0) /\ next' <= 0 + 1
      BY <2>1, <2>2, <2>3, <2>4
    <3> QED
      BY <3>1
  <2> QED
    BY <2>1, <2>2, <2>3, <2>5, <2>6 DEF IntentInv
<1>3. CASE WriteStorage
  <2>1. pending # None /\ pc = "write" /\ pending.phase = "prepared"
    BY <1>3 DEF WriteStorage, DraftInv, IntentInv
  <2>2. /\ UNCHANGED <<pc, log, pending>>
        /\ \E m \in 0..Len(pending.ops) : StandsAt(pending.ops, live', m) /\ next' <= m + 1
    BY <1>3, WriteFacts
  <2>3. CommittedLog' = CommittedLog /\ (Installed(0)' <=> Installed(0))
    BY <2>2 DEF CommittedLog, Installed
  <2> QED
    BY <2>1, <2>2, <2>3 DEF IntentInv
<1>4. CASE MarkStorage
  <2>1. /\ pending # None /\ pc = "write" /\ next > Len(pending.ops)
        /\ pending' = [pending EXCEPT !.phase = "storage-written"]
        /\ pc' = "install" /\ next' = 1 /\ UNCHANGED <<live, log>>
    BY <1>4 DEF MarkStorage, DraftInv
  <2>2. pending.phase = "prepared" /\ Installed(0)
    BY <2>1 DEF IntentInv
  <2>3. PICK m \in 0..Len(pending.ops) : StandsAt(pending.ops, live, m) /\ next <= m + 1
    BY <2>1, <2>2 DEF IntentInv
  <2>4. Len(pending.ops) \in Nat /\ Len(pending.changes) \in Nat /\ next \in Nat
    BY <2>1, PendingFacts DEF TypeInv
  <2>5. m = Len(pending.ops)
    BY <2>1, <2>3, <2>4
  <2>6. /\ pending'.ops = pending.ops /\ pending'.changes = pending.changes
        /\ pending'.first = pending.first /\ pending'.phase = "storage-written" /\ pending' # None
    BY <2>1, PendingFacts DEF Intent, Phases, ConstantsOK
  <2>7. CommittedLog' = CommittedLog /\ (Installed(0)' <=> Installed(0))
    BY <2>1, <2>6, Marked
  <2>8. \E k \in 0..Len(pending'.changes) : Installed(k)' /\ (pc' = "install" => next' <= k + 1)
    <3>1. 0 \in 0..Len(pending'.changes) /\ next' <= 0 + 1
      BY <2>1, <2>4, <2>6
    <3> QED
      BY <2>2, <2>7, <3>1
  <2>9. StandsAt(pending'.ops, live', Len(pending'.ops))
    BY <2>1, <2>3, <2>5, <2>6
  <2>10. Prepared(pending'.ops, pending'.changes) /\ Chain(CommittedLog')
    BY <2>1, <2>6, <2>7 DEF IntentInv
  <2> QED
    BY <2>1, <2>6, <2>8, <2>9, <2>10 DEF IntentInv
<1>5. CASE InstallEnvelope
  <2>1. pending # None /\ pc = "install" /\ pending.phase = "storage-written"
    BY <1>5 DEF InstallEnvelope, DraftInv, IntentInv
  <2>2. /\ UNCHANGED <<pc, live, pending>> /\ CommittedLog' = CommittedLog
        /\ \E k \in 0..Len(pending.changes) : Installed(k)' /\ next' <= k + 1
    BY <1>5, InstallFacts
  <2> QED
    BY <2>1, <2>2 DEF IntentInv
<1>6. CASE MarkInstalled
  <2>1. /\ pending # None /\ pc = "install" /\ next > Len(pending.changes)
        /\ pending' = [pending EXCEPT !.phase = "envelope-installed"]
        /\ pc' = "cursor" /\ next' = 1 /\ UNCHANGED <<live, log>>
    BY <1>6 DEF MarkInstalled, DraftInv
  <2>2. pending.phase = "storage-written" /\ StandsAt(pending.ops, live, Len(pending.ops))
    BY <2>1 DEF IntentInv
  <2>3. PICK k \in 0..Len(pending.changes) : Installed(k) /\ next <= k + 1
    BY <2>1, <2>2 DEF IntentInv
  <2>4. Len(pending.changes) \in Nat /\ next \in Nat
    BY <2>1, PendingFacts DEF TypeInv
  <2>5. k = Len(pending.changes)
    BY <2>1, <2>3, <2>4
  <2>6. /\ pending'.ops = pending.ops /\ pending'.changes = pending.changes
        /\ pending'.first = pending.first /\ pending'.phase = "envelope-installed" /\ pending' # None
    BY <2>1, PendingFacts DEF Intent, Phases, ConstantsOK
  <2>7. CommittedLog' = CommittedLog /\ Installed(Len(pending.changes))'
    <3>1. Installed(Len(pending.changes))
      BY <2>3, <2>5
    <3> QED
      BY <2>1, <2>6, <3>1, Marked
  <2>8. Prepared(pending'.ops, pending'.changes) /\ Chain(CommittedLog')
    BY <2>1, <2>6, <2>7 DEF IntentInv
  <2> QED
    BY <2>1, <2>2, <2>6, <2>7, <2>8 DEF IntentInv
<1>7. CASE WriteCursor
  <2>1. pending # None /\ pc = "cursor" /\ pc' = "mark" /\ UNCHANGED <<live, log, pending, next>>
    BY <1>7 DEF WriteCursor, DraftInv
  <2>2. CommittedLog' = CommittedLog /\ pending.phase = "envelope-installed"
        /\ (Installed(Len(pending.changes))' <=> Installed(Len(pending.changes)))
    BY <2>1 DEF CommittedLog, IntentInv, Installed
  <2> QED
    BY <2>1, <2>2 DEF IntentInv
<1>8. CASE MarkCursor
  <2>1. /\ pending # None /\ pc = "mark" /\ pending' = [pending EXCEPT !.phase = "cursor-written"]
        /\ pc' = "clear" /\ UNCHANGED <<live, log, next>>
    BY <1>8 DEF MarkCursor, DraftInv
  <2>2. /\ pending.phase = "envelope-installed" /\ StandsAt(pending.ops, live, Len(pending.ops))
        /\ Installed(Len(pending.changes))
    BY <2>1 DEF IntentInv
  <2>3. /\ pending'.ops = pending.ops /\ pending'.changes = pending.changes
        /\ pending'.first = pending.first /\ pending'.phase = "cursor-written" /\ pending' # None
    BY <2>1, PendingFacts DEF Intent, Phases, ConstantsOK
  <2>4. CommittedLog' = CommittedLog /\ Installed(Len(pending.changes))'
    BY <2>1, <2>2, <2>3, Marked
  <2>5. Prepared(pending'.ops, pending'.changes) /\ Chain(CommittedLog')
    BY <2>1, <2>3, <2>4 DEF IntentInv
  <2> QED
    BY <2>1, <2>2, <2>3, <2>4, <2>5 DEF IntentInv
<1>9. CASE Recover \/ Interrupt
  <2>1. UNCHANGED disk
    BY <1>9 DEF Recover, Interrupt
  <2>2. CASE pending = None
    BY <1>n, <2>1, <2>2 DEF disk
  <2>3. CASE pending # None
    <3>1. /\ pc' = "write" => pending.phase = "prepared"
          /\ pc' = "install" => pending.phase = "storage-written"
          /\ pc' \in {"cursor", "mark"} => pending.phase = "envelope-installed"
          /\ pc' = "clear" => pending.phase = "cursor-written"
          /\ next' = 1
      <4>1. CASE Recover
        <5>1. pc = "idle" /\ pc' = Resume[pending.phase] /\ next' = next /\ pending.phase \in Phases
          BY <2>3, <4>1, PendingFacts DEF Recover, Intent
        <5>2. next = 1
          BY <5>1 DEF DraftInv
        <5> QED
          BY <5>1, <5>2 DEF Resume, Phases
      <4>2. CASE Interrupt
        BY <4>2 DEF Interrupt, Throw
      <4> QED
        BY <1>9, <4>1, <4>2
    <3>2. UNCHANGED <<live, log, pending>> /\ CommittedLog' = CommittedLog
          /\ \A k : Installed(k)' <=> Installed(k)
      BY <2>1 DEF disk, CommittedLog, Installed
    <3>3. \A k \in Nat : next' <= k + 1
      BY <3>1
    <3>4. pending.phase = "prepared" =>
            \E m \in 0..Len(pending.ops) :
              StandsAt(pending.ops, live', m) /\ (pc' = "write" => next' <= m + 1)
      <4> SUFFICES ASSUME pending.phase = "prepared"
                   PROVE  \E m \in 0..Len(pending.ops) :
                            StandsAt(pending.ops, live', m) /\ (pc' = "write" => next' <= m + 1)
        OBVIOUS
      <4>1. PICK m \in 0..Len(pending.ops) : StandsAt(pending.ops, live, m)
        BY <2>3 DEF IntentInv
      <4> QED
        BY <3>2, <3>3, <4>1
    <3>5. pending.phase = "storage-written" =>
            \E k \in 0..Len(pending.changes) : Installed(k)' /\ (pc' = "install" => next' <= k + 1)
      <4> SUFFICES ASSUME pending.phase = "storage-written"
                   PROVE  \E k \in 0..Len(pending.changes) :
                            Installed(k)' /\ (pc' = "install" => next' <= k + 1)
        OBVIOUS
      <4>1. PICK k \in 0..Len(pending.changes) : Installed(k)
        BY <2>3 DEF IntentInv
      <4> QED
        BY <3>2, <3>3, <4>1
    <3> QED
      BY <2>3, <3>1, <3>2, <3>4, <3>5 DEF IntentInv
  <2> QED
    BY <2>2, <2>3
<1>10. CASE UNCHANGED vars
  BY <1>10 DEF vars, disk, IntentInv, CommittedLog, Installed
<1> QED
  BY <1>1, <1>2, <1>3, <1>4, <1>5, <1>6, <1>7, <1>8, <1>9, <1>10 DEF Next, Step

\* The cursor follows the storage and the log.
LEMMA NextCursorInv ==
  ASSUME ConstantsOK, NobodyOutside, IInv, [Next]_vars
  PROVE  CursorInv'
<1> USE DEF IInv
<1>o. Outside = {}
  BY DEF NobodyOutside
<1>t. /\ log \in Seq(Change) /\ Len(log) \in Nat /\ cursor \in [Note -> Nat]
      /\ live \in [Note -> Stored] /\ \A n \in Note : cursor[n] <= Len(log)
  BY LenProperties DEF TypeInv
\* A step that leaves log and cursor alone and marks nothing.
<1>g. ASSUME pending' # None /\ CursorWritten' =>
               pending # None /\ CursorWritten /\ pending'.first = pending.first
               /\ pending'.changes = pending.changes,
             cursor' = cursor, \A n \in Note : Applied(n)' = Applied(n),
             \A n \in Note \ edited' : pending' = None \/ CursorWritten' \/ LastOn(pending'.ops, n) = 0 =>
               \/ live'[n].val = Applied(n)
               \/ /\ n \notin edited /\ live'[n] = live[n]
                  /\ pending = None \/ CursorWritten \/ LastOn(pending.ops, n) = 0
      PROVE  CursorInv'
  <2>1. pending' # None /\ CursorWritten' =>
          \A n \in Note : LastOn(pending'.changes, n) # 0
            => cursor'[n] = pending'.first - 1 + LastOn(pending'.changes, n)
    BY <1>g DEF CursorInv
  <2>2. ASSUME NEW n \in Note \ edited',
               pending' = None \/ CursorWritten' \/ LastOn(pending'.ops, n) = 0
        PROVE  live'[n].val = Applied(n)'
    BY <1>g, <2>2 DEF CursorInv
  <2> QED
    BY <2>1, <2>2 DEF CursorInv
<1>1. CASE \/ \E n \in Note, v \in Value : Put(n, v)
           \/ \E n \in Note : RemoveNote(n) \/ CaptureNote(n)
           \/ BeginCapture
  <2>1. pending = None /\ UNCHANGED <<disk, edited>>
    BY <1>1 DEF Put, RemoveNote, CaptureNote, BeginCapture, DraftInv
  <2>2. pending' = None /\ UNCHANGED <<live, log, cursor, edited>>
    BY <2>1 DEF disk
  <2> QED
    BY <1>g, <2>1, <2>2 DEF Applied
<1>2. CASE Save
  <2>1. pending = None /\ pc' = "write" /\ UNCHANGED <<live, log, cursor, edited>>
    BY <1>2, SaveFacts
  <2>2. pending'.phase = "prepared"
    BY <1>2, SaveFacts
  <2>3. ~CursorWritten'
    BY <2>1, <2>2 DEF CursorWritten
  <2> QED
    BY <1>g, <2>1, <2>3 DEF Applied
<1>3. CASE WriteStorage
  <2>1. pending # None /\ pc = "write" /\ pending.phase = "prepared"
    BY <1>3 DEF WriteStorage, DraftInv, IntentInv
  <2>2. /\ UNCHANGED <<pc, log, cursor, pending, edited>>
        /\ \A n \in Note : LastOn(pending.ops, n) = 0 => live'[n] = live[n]
    BY <1>3, WriteFacts
  <2>3. ~CursorWritten' /\ pending' # None /\ \A n \in Note : Applied(n)' = Applied(n)
    BY <2>1, <2>2 DEF CursorWritten, Applied
  <2> QED
    BY <1>g, <2>2, <2>3
<1>4. CASE MarkStorage \/ MarkInstalled
  <2>1. /\ pending # None /\ pc' \in {"install", "cursor"} /\ UNCHANGED <<live, log, cursor, edited>>
        /\ \/ pending' = [pending EXCEPT !.phase = "storage-written"]
           \/ pending' = [pending EXCEPT !.phase = "envelope-installed"]
    BY <1>4 DEF MarkStorage, MarkInstalled, DraftInv
  <2>2. /\ pending'.ops = pending.ops /\ pending'.phase # "cursor-written" /\ pending' # None
    BY <2>1, PendingFacts DEF Intent, Phases, ConstantsOK
  <2>3. ~CursorWritten' /\ UNCHANGED <<live, cursor, edited>> /\ \A n \in Note : Applied(n)' = Applied(n)
    BY <2>1, <2>2 DEF CursorWritten, Applied
  <2> QED
    BY <1>g, <2>2, <2>3
<1>5. CASE InstallEnvelope
  <2>1. pending # None /\ pc = "install" /\ pending.phase = "storage-written"
    BY <1>5 DEF InstallEnvelope, DraftInv, IntentInv
  <2>2. /\ UNCHANGED <<pc, live, cursor, pending, edited>>
        /\ \A i \in 1..Len(log) : log'[i] = log[i]
    BY <1>5, InstallFacts
  <2>3. \A n \in Note : Applied(n)' = Applied(n)
    BY <1>t, <2>2 DEF Applied
  <2>4. ~CursorWritten'
    BY <2>1, <2>2 DEF CursorWritten
  <2> QED
    BY <1>g, <2>1, <2>2, <2>3, <2>4
<1>6. CASE WriteCursor
  <2>1. /\ pending # None /\ pc = "cursor" /\ pc' = "mark" /\ UNCHANGED <<live, log, pending>>
        /\ edited' = edited \ Touched
    BY <1>6 DEF WriteCursor, DraftInv
  <2>2. /\ pending \in Intent /\ pending.ops \in Seq(Operation) /\ pending.changes \in Seq(Change)
        /\ Len(pending.ops) \in Nat /\ Len(pending.changes) \in Nat /\ pending.first \in Nat \ {0}
        /\ Matches(pending.ops, pending.changes)
    BY <2>1, PendingFacts DEF Prepared
  <2>3. Installed(Len(pending.changes)) /\ StandsAt(pending.ops, live, Len(pending.ops))
    BY <2>1 DEF IntentInv
  <2>4. \A n \in Note : cursor'[n] = IF LastOn(pending.changes, n) = 0 THEN cursor[n]
                                     ELSE pending.first + LastOn(pending.changes, n) - 1
    BY <1>6 DEF WriteCursor
  <2>5. \A n : LastOn(pending.changes, n) \in 0..Len(pending.changes)
    BY <2>2, LastOnFacts DEF IsLast
  <2>6. ASSUME NEW n \in Note, LastOn(pending.changes, n) # 0
        PROVE  cursor'[n] = pending.first - 1 + LastOn(pending.changes, n)
    <3> DEFINE l == LastOn(pending.changes, n)
    <3>1. l \in 0..Len(pending.changes) /\ cursor'[n] = pending.first + l - 1
      BY <2>4, <2>5, <2>6
    <3> HIDE DEF l
    <3>2. cursor'[n] = pending.first - 1 + l
      BY <2>2, <3>1
    <3> QED
      BY <3>2 DEF l
  <2>7. ASSUME NEW n \in Note \ edited' PROVE live'[n].val = Applied(n)'
    <3> DEFINE l == LastOn(pending.changes, n)
               k == LastOn(pending.ops, n)
    <3>1. CASE k = 0
      <4>1. \A j \in 1..Len(pending.ops) : pending.ops[j].note # n
        BY <2>2, <3>1, LastOnFacts DEF IsLast
      <4>2. n \notin Touched
        BY <4>1 DEF Touched
      <4>3. n \in Note \ edited /\ live[n].val = Applied(n)
        BY <2>1, <3>1, <4>2 DEF CursorInv
      <4>4. l = 0
        BY <2>2, <3>1 DEF Matches
      <4>5. cursor'[n] = cursor[n]
        BY <2>4, <4>4
      <4> QED
        BY <2>1, <4>3, <4>5 DEF Applied
    <3>2. CASE k # 0
      <4>1. l # 0 /\ pending.changes[l].val = pending.ops[k].target.val
        BY <2>2, <3>2 DEF Matches
      <4>2. live[n] = pending.ops[k].target
        BY <2>2, <2>3, <3>2, LastStands
      <4>3. cursor'[n] = pending.first - 1 + l /\ l \in 1..Len(pending.changes)
        BY <2>2, <2>5, <2>6, <4>1
      <4>4. log[pending.first - 1 + l] = pending.changes[l]
        BY <2>3, <4>3 DEF Installed
      <4> HIDE DEF l, k
      <4>5. cursor'[n] # 0
        BY <2>2, <4>3
      <4>6. Applied(n)' = log[pending.first - 1 + l].val
        BY <2>1, <4>3, <4>5 DEF Applied
      <4> QED
        BY <2>1, <4>1, <4>2, <4>4, <4>6
    <3> QED
      BY <3>1, <3>2
  <2> QED
    BY <2>1, <2>6, <2>7 DEF CursorInv
<1>7. CASE MarkCursor
  <2>1. /\ pending # None /\ pc = "mark" /\ UNCHANGED <<live, log, cursor, edited>>
        /\ pending' = [pending EXCEPT !.phase = "cursor-written"]
    BY <1>7 DEF MarkCursor, DraftInv
  <2>2. /\ pending'.ops = pending.ops /\ pending'.changes = pending.changes
        /\ pending'.first = pending.first /\ CursorWritten
    BY <2>1, PendingFacts DEF Intent, CursorWritten
  <2>3. UNCHANGED <<live, cursor, edited>> /\ \A n \in Note : Applied(n)' = Applied(n)
    BY <2>1 DEF Applied
  <2> HIDE DEF IInv
  <2> QED
    BY <1>g, <2>2, <2>3, <2>1
<1>8. CASE Clear
  <2>1. pending # None /\ pc = "clear" /\ pending' = None /\ UNCHANGED <<live, log, cursor, edited>>
    BY <1>8 DEF Clear, DraftInv
  <2>2. CursorWritten
    BY <2>1 DEF IntentInv, CursorWritten
  <2> QED
    BY <1>g, <2>1, <2>2 DEF Applied
<1>9. CASE Recover \/ Interrupt
  <2>1. UNCHANGED <<live, log, cursor, pending, edited>> /\ pc' # "mark"
    <3>1. CASE Recover
      <4>1. UNCHANGED <<disk, edited>> /\ pending # None /\ pc' = Resume[pending.phase]
        BY <3>1 DEF Recover
      <4>2. pending.phase \in Phases
        BY <4>1, PendingFacts DEF Intent
      <4> QED
        BY <4>1, <4>2 DEF disk, Resume, Phases
    <3>2. CASE Interrupt
      BY <3>2 DEF Interrupt, Throw, disk
    <3> QED
      BY <1>9, <3>1, <3>2
  <2>2. CursorWritten' => CursorWritten
    BY <2>1 DEF CursorWritten
  <2> QED
    BY <1>g, <2>1, <2>2 DEF Applied
<1>10. ASSUME NEW n \in Note, NEW v \in Value \cup {None}, NativeEdit(n, v) PROVE CursorInv'
  <2>1. /\ pending = None /\ pending' = None /\ UNCHANGED <<log, cursor>>
        /\ edited' = edited \cup {n} /\ \A m \in Note : m # n => live'[m] = live[m]
    BY <1>10, <1>o, <1>t DEF NativeEdit
  <2> QED
    BY <1>g, <2>1 DEF Applied
<1>11. ASSUME NEW n \in Note, NEW v \in Appended, Record(n, v) PROVE CursorInv'
  <2> DEFINE c == NextChange(n, RevisionOn(log, n), v)
  <2>1. /\ pending = None /\ pending' = None /\ UNCHANGED <<live, cursor, edited>>
        /\ log' = Append(log, c) /\ pc = "idle"
    BY <1>11, <1>o DEF Record
  <2>2. \A i \in 1..Len(log) : log'[i] = log[i]
    <3>1. draft = Nothing /\ Chain(log \o draft.changes)
      BY <2>1 DEF DraftInv
    <3>2. Chain(log)
      BY <1>t, <3>1, NothingDrafted
    <3>3. RevisionOn(log, n) \in Nat
      BY <1>t, <3>2, RevisionFacts
    <3>4. c \in Change
      BY <3>3 DEF NextChange, Change, ConstantsOK
    <3> HIDE DEF c
    <3> QED
      BY <1>t, <2>1, <3>4, AppendProperties
  <2>3. \A m \in Note : Applied(m)' = Applied(m)
    BY <1>t, <2>1, <2>2 DEF Applied
  <2> QED
    BY <1>g, <2>1, <2>3
<1>12. CASE UNCHANGED vars
  BY <1>12 DEF vars, disk, CursorInv, CursorWritten, Applied
<1> QED
  BY <1>1, <1>2, <1>3, <1>4, <1>5, <1>6, <1>7, <1>8, <1>9, <1>10, <1>11, <1>12 DEF Next, Step

\* Every step keeps the invariant.
LEMMA NextIInv ==
  ASSUME ConstantsOK, NobodyOutside, IInv, [Next]_vars
  PROVE  IInv'
BY NextTypeInv, NextDraftInv, NextIntentInv, NextCursorInv DEF IInv
-----------------------------------------------------------------------------
(* The theorems. *)

\* The invariant holds for ever.
LEMMA Invariance ==
  ASSUME NobodyOutside
  PROVE  Spec => []IInv
<1>1. Init => IInv
  BY ConstantsOK, InitIInv
<1>2. IInv /\ [Next]_vars => IInv'
  BY ConstantsOK, NextIInv
<1> QED
  BY <1>1, <1>2, PTL DEF Spec

\* State, intent and draft always have their types (the files of sync/ and the session).
THEOREM TransactionTypeSafety == NobodyOutside /\ Spec => []TypeOK
<1> SUFFICES ASSUME NobodyOutside PROVE Spec => []TypeOK
  OBVIOUS
<1>1. IInv => TypeOK
  <2> SUFFICES ASSUME IInv PROVE TypeOK
    OBVIOUS
  <2>1. Len(log) \in Nat
    BY LenProperties DEF IInv, TypeInv
  <2>2. cursor \in [Note -> 0 .. Len(log)]
    BY <2>1 DEF IInv, TypeInv
  <2> QED
    BY <2>2 DEF IInv, TypeInv, DraftInv, TypeOK
<1>2. Spec => []IInv
  BY Invariance
<1> QED
  BY <1>1, <1>2, PTL

\* After any crash or error the next session rolls the intent forward without meeting a state
\* it refuses (sync.ts:2232-2235): the vault can always be opened again.
THEOREM TransactionRecovers == NobodyOutside /\ Spec => []RecoverySucceeds
<1> SUFFICES ASSUME NobodyOutside PROVE Spec => []RecoverySucceeds
  OBVIOUS
<1>1. IInv => RecoverySucceeds
  <2> SUFFICES ASSUME IInv PROVE RecoverySucceeds
    OBVIOUS
  <2>1. ASSUME pc = "write", next <= Len(pending.ops) PROVE ~Refuses(next)
    <3>1. pending # None /\ pending.phase = "prepared" /\ next \in Nat \ {0}
      BY <2>1 DEF IInv, TypeInv, DraftInv, IntentInv
    <3>2. PICK m \in 0..Len(pending.ops) : StandsAt(pending.ops, live, m) /\ next <= m + 1
      BY <2>1, <3>1 DEF IInv, IntentInv
    <3>3. /\ pending \in Intent /\ Coherent(pending.ops) /\ Len(pending.ops) \in Nat
          /\ live \in [Note -> Stored]
      BY <3>1, ConstantsOK, PendingFacts DEF Prepared, IInv, TypeInv
    <3>4. next \in 1..Len(pending.ops)
      BY <2>1, <3>1, <3>3
    <3> QED
      BY <3>2, <3>3, <3>4, ConstantsOK, ReplayFacts
  <2>2. pc = "install" => ~Forks
    BY ConstantsOK, NoFork
  <2> QED
    BY <2>1, <2>2 DEF RecoverySucceeds
<1>2. Spec => []IInv
  BY Invariance
<1> QED
  BY <1>1, <1>2, PTL

\* Between operations a note nobody edited outside sync holds what the log says under its cursor.
THEOREM TransactionLogged == NobodyOutside /\ Spec => []LoggedAgrees
<1> SUFFICES ASSUME NobodyOutside PROVE Spec => []LoggedAgrees
  OBVIOUS
<1>1. IInv => LoggedAgrees
  BY DEF IInv, CursorInv, LoggedAgrees
<1>2. Spec => []IInv
  BY Invariance
<1> QED
  BY <1>1, <1>2, PTL

\* The log is a chain an importing device accepts, replays included (sync.ts:1768-1784).
THEOREM TransactionChains == NobodyOutside /\ Spec => []ChainAdvances
<1> SUFFICES ASSUME NobodyOutside PROVE Spec => []ChainAdvances
  OBVIOUS
<1>1. IInv => ChainAdvances
  <2> SUFFICES ASSUME IInv PROVE ChainAdvances
    OBVIOUS
  <2>1. /\ log \in Seq(Change) /\ draft.changes \in Seq(Change) /\ Chain(log \o draft.changes)
    BY DEF IInv, TypeInv, DraftInv
  <2>2. Chain(log)
    BY <2>1, ChainLeft
  <2> QED
    BY <2>2 DEF Chain, ChainAdvances
<1>2. Spec => []IInv
  BY Invariance
<1> QED
  BY <1>1, <1>2, PTL
-----------------------------------------------------------------------------
(* Capturing is atomic. *)

\* What an observer of the three files sees through the intent.
Committed == <<CommittedLive, CommittedLog, CommittedCursor>>

\* The two modules mean the same by the last entry about a note.
LEMMA SameLastOn ==
  ASSUME NEW s, NEW n
  PROVE  Atomic!LastOn(s, n) = LastOn(s, n)
BY DEF Atomic!LastOn, LastOn, Atomic!SelectLastInSeq, SelectLastInSeq, Atomic!Max, Max

\* A marker changes nothing an observer sees.
LEMMA MarkIsHidden ==
  ASSUME pending # None, pending' # None, pending'.ops = pending.ops,
         pending'.changes = pending.changes, pending'.first = pending.first,
         UNCHANGED <<live, log, cursor>>
  PROVE  UNCHANGED Committed
<1>1. live' = live /\ log' = log /\ cursor' = cursor
  OBVIOUS
<1>2. CommittedLive' = CommittedLive
  BY <1>1 DEF CommittedLive
<1>3. CommittedLog' = CommittedLog
  BY <1>1 DEF CommittedLog
<1>4. CommittedCursor' = CommittedCursor
  BY <1>1 DEF CommittedCursor
<1> QED
  BY <1>2, <1>3, <1>4 DEF Committed

\* Without an intent an observer sees what is there.
LEMMA NothingPending ==
  ASSUME IInv, pending = None
  PROVE  CommittedLive = live /\ CommittedLog = log /\ CommittedCursor = cursor
BY DEF IInv, TypeInv, CommittedLive, CommittedLog, CommittedCursor

\* Saving the intent is the transition.
LEMMA SaveCommits ==
  ASSUME ConstantsOK, IInv, IInv', Save
  PROVE  Atomic!Commit
<1> DEFINE ch == draft.changes
           L == CommittedLog
<1>1. /\ pending = None /\ Prepared(draft.ops, ch) /\ log \in Seq(Change)
      /\ pending' = [ops |-> draft.ops, changes |-> ch, first |-> Len(log) + 1, phase |-> "prepared"]
      /\ pending' # None /\ L = log /\ L' = log \o ch /\ UNCHANGED <<live, log, cursor>>
  BY SaveFacts
<1>2. pending'.ops = draft.ops /\ pending'.changes = ch /\ pending'.first = Len(log) + 1
  BY <1>1
<1>3. CommittedLive = live /\ CommittedCursor = cursor
  BY <1>1, NothingPending
<1>4. /\ ch \in Seq(Change) /\ Len(ch) \in Nat /\ Len(ch) # 0 /\ Len(log) \in Nat
      /\ Matches(draft.ops, ch)
  BY <1>1, LenProperties, EmptySeq DEF IInv, TypeInv, Prepared
<1>5. Len(L') = Len(log) + Len(ch) /\ L' \in Seq(Change)
      /\ \A i \in 1..(Len(log) + Len(ch)) : L'[i] = IF i <= Len(log) THEN log[i] ELSE ch[i - Len(log)]
  <2>1. /\ log \o ch \in Seq(Change) /\ Len(log \o ch) = Len(log) + Len(ch)
        /\ \A i \in 1..(Len(log) + Len(ch)) :
             (log \o ch)[i] = IF i <= Len(log) THEN log[i] ELSE ch[i - Len(log)]
    BY <1>1, <1>4, ConcatProperties
  <2> QED
    BY <1>1, <2>1
<1>6. Len(L') > Len(L)
  BY <1>1, <1>4, <1>5
<1>7. SubSeq(L', 1, Len(L)) = L
  <2> DEFINE l == Len(log)
             M == log \o ch
  <2>1. l \in Nat /\ l <= Len(M) /\ l <= Len(log) /\ M \in Seq(Change) /\ \A i \in 1..l : M[i] = log[i]
    BY <1>1, <1>4, <1>5
  <2>2. SubSeq(log, 1, l) = log
    BY <1>1, SubSeqFull
  <2>3. L' = M /\ L = log
    BY <1>1
  <2> HIDE DEF l, M
  <2>4. SubSeq(M, 1, l) = SubSeq(log, 1, l)
    BY <1>1, <2>1, SamePrefix
  <2> QED
    BY <2>2, <2>3, <2>4 DEF l
<1>8. ASSUME NEW n \in Note
      PROVE  LET last == Atomic!LastOn(L', n) IN
             IF last > Len(L)
             THEN CommittedCursor'[n] = last /\ CommittedLive'[n].val = L'[last].val
             ELSE CommittedCursor'[n] = CommittedCursor[n] /\ CommittedLive'[n] = CommittedLive[n]
  <2> DEFINE b == LastOn(ch, n)
             last == Atomic!LastOn(L', n)
  <2>1. last = LastOn(log \o ch, n)
    <3>1. L' = log \o ch
      BY <1>1
    <3>2. Atomic!LastOn(L', n) = LastOn(L', n)
      BY SameLastOn
    <3> QED
      BY <3>1, <3>2
  <2>2. LastOn(log \o ch, n) = IF b = 0 THEN LastOn(log, n) ELSE Len(log) + b
    BY <1>1, <1>4, LastOnConcat
  <2>3. LastOn(log, n) \in 0..Len(log) /\ b \in 0..Len(ch)
    BY <1>4, LastOnFacts DEF IsLast
  <2>4. CommittedLive'[n] = IF LastOn(draft.ops, n) = 0 THEN live[n]
                            ELSE draft.ops[LastOn(draft.ops, n)].target
    BY <1>1, <1>2 DEF CommittedLive
  <2>5. CommittedCursor'[n] = IF b = 0 THEN cursor[n] ELSE Len(log) + 1 + b - 1
    BY <1>1, <1>2 DEF CommittedCursor
  <2>6. /\ LastOn(draft.ops, n) = 0 <=> b = 0
        /\ LastOn(draft.ops, n) # 0 => ch[b].val = draft.ops[LastOn(draft.ops, n)].target.val
    BY <1>4 DEF Matches
  <2> HIDE DEF b, last, L
  <2>7. CASE b = 0
    <3>1. ~(last > Len(L))
      BY <1>1, <1>4, <2>1, <2>2, <2>3, <2>7
    <3>2. CommittedCursor'[n] = CommittedCursor[n] /\ CommittedLive'[n] = CommittedLive[n]
      BY <1>3, <2>4, <2>5, <2>6, <2>7
    <3> QED
      BY <3>1, <3>2 DEF last
  <2>8. CASE b # 0
    <3>1. last = Len(log) + b /\ last > Len(L)
      BY <1>1, <1>4, <2>1, <2>2, <2>3, <2>8
    <3>2. CommittedCursor'[n] = last
      BY <1>4, <2>3, <2>5, <2>8, <3>1
    <3>3. L'[last] = ch[b]
      <4>1. last \in 1..(Len(log) + Len(ch)) /\ ~(last <= Len(log)) /\ last - Len(log) = b
        BY <1>4, <2>3, <2>8, <3>1
      <4> QED
        BY <1>5, <4>1
    <3>4. CommittedLive'[n].val = L'[last].val
      BY <2>4, <2>6, <2>8, <3>3
    <3> QED
      BY <3>1, <3>2, <3>4 DEF last
  <2> QED
    BY <2>7, <2>8
<1> QED
  BY <1>6, <1>7, <1>8 DEF Atomic!Commit

\* A step is one of AtomicCapture, or nothing an observer sees.
LEMMA StepRefines ==
  ASSUME ConstantsOK, NobodyOutside, IInv, IInv', [Next]_vars
  PROVE  [Atomic!Next]_Committed
<1> USE DEF IInv
<1>o. Outside = {}
  BY DEF NobodyOutside
<1>1. CASE \/ \E n \in Note, v \in Value : Put(n, v)
           \/ \E n \in Note : RemoveNote(n) \/ CaptureNote(n)
           \/ BeginCapture \/ Recover \/ Interrupt \/ UNCHANGED vars
  <2>1. UNCHANGED disk
    BY <1>1 DEF Put, RemoveNote, CaptureNote, BeginCapture, Recover, Interrupt, vars
  <2> QED
    BY <2>1 DEF disk, Committed, CommittedLive, CommittedLog, CommittedCursor
<1>2. CASE Save
  BY <1>2, SaveCommits DEF Atomic!Next
<1>3. CASE WriteStorage
  <2>1. /\ UNCHANGED <<log, cursor, pending>>
        /\ \A n \in Note : LastOn(pending.ops, n) = 0 => live'[n] = live[n]
    BY <1>3, WriteFacts
  <2>2. pending # None
    BY <1>3 DEF WriteStorage, DraftInv
  <2>3. CommittedLive' = CommittedLive
    BY <2>1, <2>2 DEF CommittedLive
  <2>4. CommittedLog' = CommittedLog /\ CommittedCursor' = CommittedCursor
    BY <2>1 DEF CommittedLog, CommittedCursor
  <2> QED
    BY <2>3, <2>4 DEF Committed
<1>4. CASE MarkStorage \/ MarkInstalled \/ MarkCursor
  <2>1. /\ pending # None /\ UNCHANGED <<live, log, cursor>>
        /\ \E p \in Phases : pending' = [pending EXCEPT !.phase = p]
    BY <1>4 DEF MarkStorage, MarkInstalled, MarkCursor, DraftInv, Phases
  <2>2. pending \in Intent
    BY <2>1, PendingFacts
  <2>3. /\ pending'.ops = pending.ops /\ pending'.changes = pending.changes
        /\ pending'.first = pending.first /\ pending' # None
    BY <2>1, <2>2 DEF Intent, ConstantsOK
  <2> QED
    BY <2>1, <2>3, MarkIsHidden
<1>5. CASE InstallEnvelope
  <2>1. UNCHANGED <<live, cursor, pending>> /\ CommittedLog' = CommittedLog
    BY <1>5, InstallFacts
  <2>2. CommittedLive' = CommittedLive /\ CommittedCursor' = CommittedCursor
    BY <2>1 DEF CommittedLive, CommittedCursor
  <2> QED
    BY <2>1, <2>2 DEF Committed
<1>6. CASE WriteCursor
  <2>1. /\ pending # None /\ UNCHANGED <<live, log, pending>>
        /\ \A n \in Note : LastOn(pending.changes, n) = 0 => cursor'[n] = cursor[n]
    BY <1>6 DEF WriteCursor, DraftInv
  <2>2. CommittedCursor' = CommittedCursor
    BY <2>1 DEF CommittedCursor
  <2>3. CommittedLive' = CommittedLive /\ CommittedLog' = CommittedLog
    BY <2>1 DEF CommittedLive, CommittedLog
  <2> QED
    BY <2>2, <2>3 DEF Committed
<1>7. CASE Clear
  <2>1. pending # None /\ pc = "clear" /\ pending' = None /\ UNCHANGED <<live, log, cursor>>
    BY <1>7 DEF Clear, DraftInv
  <2>2. /\ pending \in Intent /\ pending.ops \in Seq(Operation) /\ pending.changes \in Seq(Change)
        /\ Len(pending.changes) \in Nat /\ pending.first \in Nat \ {0} /\ log \in Seq(Change)
    BY <2>1, PendingFacts
  <2>3. /\ pending.phase = "cursor-written" /\ CursorWritten /\ Installed(Len(pending.changes))
        /\ StandsAt(pending.ops, live, Len(pending.ops))
    BY <2>1 DEF IntentInv, CursorWritten
  <2>4. CommittedLog = log
    <3>1. Len(pending.changes) \in 0..Len(pending.changes)
      BY <2>2
    <3> QED
      BY <2>2, <2>3, <3>1, LogIsPrefix
  <2>5. CommittedLive = live
    <3>1. \A n \in Note : LastOn(pending.ops, n) # 0 => live[n] = pending.ops[LastOn(pending.ops, n)].target
      BY <2>2, <2>3, LastStands
    <3>2. live \in [Note -> Stored]
      BY DEF TypeInv
    <3> QED
      BY <2>1, <3>1, <3>2 DEF CommittedLive
  <2>6. CommittedCursor = cursor
    <3>1. cursor \in [Note -> Nat]
      BY DEF TypeInv
    <3>2. ASSUME NEW n \in Note, LastOn(pending.changes, n) # 0
          PROVE  cursor[n] = pending.first + LastOn(pending.changes, n) - 1
      <4> DEFINE l == LastOn(pending.changes, n)
      <4>1. cursor[n] = pending.first - 1 + l
        BY <2>1, <2>3, <3>2 DEF CursorInv
      <4>2. l \in 0..Len(pending.changes)
        BY <2>2, LastOnFacts DEF IsLast
      <4> HIDE DEF l
      <4>3. l \in Nat /\ pending.first \in Nat
        BY <2>2, <4>2
      <4>4. pending.first - 1 + l = pending.first + l - 1
        BY <4>3
      <4>5. cursor[n] = pending.first + l - 1
        BY <4>1, <4>4
      <4> QED
        BY <4>5 DEF l
    <3> QED
      BY <2>1, <3>1, <3>2 DEF CommittedCursor
  <2>7. CommittedLive' = live' /\ CommittedLog' = log' /\ CommittedCursor' = cursor'
    BY <2>1 DEF CommittedLive, CommittedLog, CommittedCursor, TypeInv
  <2> QED
    BY <2>1, <2>4, <2>5, <2>6, <2>7 DEF Committed
<1>8. ASSUME NEW n \in Note, NEW v \in Value \cup {None}, NativeEdit(n, v)
      PROVE  Atomic!NativeEdit
  <2>1. /\ pending = None /\ pending' = None /\ UNCHANGED <<log, cursor>>
        /\ \E s : live' = [live EXCEPT ![n] = s]
    BY <1>8, <1>o DEF NativeEdit
  <2>2. CommittedLive = live /\ CommittedLog = log /\ CommittedCursor = cursor
    BY <2>1, NothingPending
  <2>3. CommittedLive' = live' /\ CommittedLog' = log' /\ CommittedCursor' = cursor'
    BY <2>1 DEF CommittedLive, CommittedLog, CommittedCursor, TypeInv
  <2>4. live' = [live EXCEPT ![n] = live'[n]]
    BY <2>1 DEF TypeInv
  <2> QED
    BY <2>1, <2>2, <2>3, <2>4 DEF Atomic!NativeEdit
<1>9. ASSUME NEW n \in Note, NEW v \in Appended, Record(n, v)
      PROVE  Atomic!Record
  <2> DEFINE c == NextChange(n, RevisionOn(log, n), v)
  <2>1. /\ pending = None /\ pending' = None /\ UNCHANGED <<live, cursor>>
        /\ log' = Append(log, c) /\ pc = "idle"
    BY <1>9, <1>o DEF Record
  <2>2. c \in Change
    <3>1. draft = Nothing /\ Chain(log \o draft.changes) /\ log \in Seq(Change)
      BY <2>1 DEF DraftInv, TypeInv
    <3>2. RevisionOn(log, n) \in Nat
      BY <3>1, NothingDrafted, RevisionFacts
    <3> QED
      BY <3>2 DEF NextChange, Change, ConstantsOK
  <2> HIDE DEF c
  <2>3. log \in Seq(Change) /\ Len(log) \in Nat /\ log' \in Seq(Change) /\ Len(log') = Len(log) + 1
        /\ \A i \in 1..Len(log) : log'[i] = log[i]
    BY <2>1, <2>2, AppendProperties, LenProperties DEF TypeInv
  <2>4. SubSeq(log', 1, Len(log)) = log
    <3> DEFINE l == Len(log)
    <3>1. l \in Nat /\ l <= Len(log) /\ l <= Len(log') /\ \A i \in 1..l : log'[i] = log[i]
      BY <2>3
    <3>2. SubSeq(log, 1, l) = log
      BY <2>3, SubSeqFull
    <3> HIDE DEF l
    <3>3. SubSeq(log', 1, l) = SubSeq(log, 1, l)
      BY <2>3, <3>1, SamePrefix
    <3> QED
      BY <3>2, <3>3 DEF l
  <2>5. CommittedLive = live /\ CommittedLog = log /\ CommittedCursor = cursor
    BY <2>1, NothingPending
  <2>6. CommittedLive' = live' /\ CommittedLog' = log' /\ CommittedCursor' = cursor'
    BY <2>1 DEF CommittedLive, CommittedLog, CommittedCursor, TypeInv
  <2> QED
    BY <2>1, <2>3, <2>4, <2>5, <2>6 DEF Atomic!Record
<1> QED
  BY <1>1, <1>2, <1>3, <1>4, <1>5, <1>6, <1>7, <1>8, <1>9 DEF Next, Step, Atomic!Next

\* Capturing is atomic: with its crashes and replays it behaves as AtomicCapture.
THEOREM TransactionIsAtomic == NobodyOutside /\ Spec => CaptureIsAtomic
<1> SUFFICES ASSUME NobodyOutside PROVE Spec => CaptureIsAtomic
  OBVIOUS
<1>1. Init => Atomic!Init
  <2> SUFFICES ASSUME Init PROVE Atomic!Init
    OBVIOUS
  <2>1. CommittedLive = live /\ CommittedLog = log /\ CommittedCursor = cursor
    BY ConstantsOK, InitIInv, NothingPending DEF Init
  <2>2. live \in [Note -> {Atomic!Absent} \cup [rev : {1}, val : Value]]
    BY ConstantsOK DEF Init, ConstantsOK, Absent, Atomic!Absent
  <2> QED
    BY <2>1, <2>2 DEF Init, Atomic!Init
<1>2. IInv /\ IInv' /\ [Next]_vars => [Atomic!Next]_<<CommittedLive, CommittedLog, CommittedCursor>>
  BY ConstantsOK, StepRefines DEF Committed
<1>3. Spec => []IInv
  BY Invariance
<1> QED
  BY <1>1, <1>2, <1>3, PTL DEF Spec, CaptureIsAtomic, Atomic!Spec
=============================================================================
