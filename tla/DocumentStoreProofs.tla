------------------------ MODULE DocumentStoreProofs ------------------------
(***************************************************************************)
(* Proofs about DocumentStore for every set of sessions and notes and every  *)
(* bound, when no session is locked beside a busy one (LocksAlone) and a      *)
(* process that dies was alone (DiesAlone): whatever reads, writes, compactions, recoveries and       *)
(* crashes come in between, the journal covers what the index does not say,  *)
(* a write starts from what is on disk, no acknowledged version is lost, the *)
(* log stays readable, and no session's index goes back in time.             *)
(***************************************************************************)
EXTENDS DocumentStore, FiniteSetTheorems, SequenceTheorems, WellFoundedInduction, TLAPS

\* lock() compacts without the vault lock: while another session is busy no session is locked.
\* Otherwise JournalCoversStale, WritesOnCurrent, NothingLost and NeverRewinds fail.
LocksAlone == "close" \notin Overlap

\* When a process dies, no other session is busy or has an index in memory: one that has would
\* not look for the journal, and would append behind the line the dead one left half written.
\* Otherwise those four and LogOpens fail.
DiesAlone == "crash" \notin Overlap

NothingOverlaps == LocksAlone /\ DiesAlone

TypeInv ==
  /\ objects \in Index
  /\ archive \in [Note -> SUBSET Entry] /\ \A n \in Note : IsFiniteSet(archive[n])
  /\ snap \in Snapshot /\ logf \in Log \cup {None}
  /\ journal \in (SUBSET Note) \cup {None}
  /\ holder \in Session \cup {None}
  /\ pc \in [Session -> Locations] /\ op \in [Session -> Kinds]
  /\ todo \in [Session -> SUBSET Note]
  /\ loading \in [Session -> Snapshot \cup {None}]
  /\ cache \in [Session -> Index \cup {None}]
  /\ stamp \in [Session -> Nat] /\ gen \in [Session -> Nat] /\ lines \in [Session -> Nat]
  /\ writes \in Nat /\ crashes \in Nat /\ acked \subseteq 1 .. writes

Puts == {"put", "putMany", "remove"}
Loading == {"idle", "load", "reload", "readLog", "await"}
Healing == {"healSnapshot", "healDrop", "healEnd"}
Writes == {"archive", "object", "commit", "append", "snapshot", "dropLog", "end"}

\* A session that may change the disk: it has the index and the lock, or the vault for itself.
Active(s) == pc[s] \in Writes \cup Healing
Exclusive(s) == Active(s) \/ pc[s] = "begin" \/ (pc[s] = "loaded" /\ op[s] # "read")

\* The lock, and what the place in an operation says of the operation.
LockAt(s) ==
  /\ pc[s] = "idle" => op[s] = "read"
  /\ Writing(s) \/ pc[s] \in Healing <=> holder = s
  /\ op[s] = "close" => \A t \in Session \ {s} : pc[t] = "idle"
  /\ pc[s] \in {"begin", "archive", "object", "commit", "append", "end"} => op[s] \in Puts
  /\ pc[s] \in {"commit", "append"} => op[s] # "putMany"
  /\ pc[s] \in {"snapshot", "dropLog"} => op[s] # "read"
  /\ op[s] \in {"put", "remove"} => \E n \in Note : todo[s] = {n}
  /\ op[s] = "putMany" => (todo[s] = {} <=> pc[s] \in {"snapshot", "dropLog", "end"})

\* The index on disk as it was found, and what of it a session has.
Bound(s) == gen[s] = snap.gen /\ stamp[s] = snap.stamp /\ lines[s] = LinesFor(snap.gen)

\* A write was cut off and nobody has repaired it: nothing has changed since.
Waits(s) == pc[s] \in Loading /\ (cache[s] # None => pc[s] = "await")
Leftover ==
  \A s \in Session :
    /\ Waits(s)
    /\ cache[s] # None => Bound(s) /\ cache[s] = DiskIndex
    /\ loading[s] # None => loading[s] = snap

\* Who has the journal out.
JournalInv == journal # None => Leftover \/ \E s \in Session : Active(s)
JournalAt(s) ==
  /\ op[s] \in Puts /\ pc[s] \in Writes =>
       /\ journal # None /\ todo[s] \subseteq journal
       /\ op[s] # "putMany" => journal = todo[s]
  /\ op[s] = "compact" /\ pc[s] \in {"snapshot", "dropLog"} => journal = None
  /\ op[s] = "close" => journal = None
  /\ pc[s] = "begin" \/ (pc[s] = "loaded" /\ op[s] # "read") => journal = None
  /\ pc[s] = "await" /\ op[s] # "read" => journal # None
  /\ pc[s] \in Healing => journal # None /\ \A t \in Session \ {s} : Waits(t)

\* What such a session has in memory is what is on disk.
ReadyAt(s) ==
  Exclusive(s) =>
    /\ cache[s] = objects /\ gen[s] = snap.gen
    /\ pc[s] \in {"dropLog", "healDrop"} => LinesFor(snap.gen) = 0
    /\ pc[s] \notin {"dropLog", "healDrop"} => Bound(s)
    /\ pc[s] \in {"dropLog", "end", "healDrop", "healEnd"} => DiskIndex = objects
    /\ pc[s] = "append" => lines[s] > 0

\* No entry of index a is newer than the one of index b.
NotNewer(a, b) == \A n \in Note : a[n].ed <= b[n].ed

\* The records among the first k lines.
Prefix(k) == IF k = 0 THEN << >> ELSE SubSeq(logf.recs, 1, k - 1)

\* What the other sessions remember, of the index on disk or of one it replaced.
Remembers(s) ==
  /\ NotNewer(cache[s], objects)
  /\ gen[s] = stamp[s] /\ stamp[s] <= snap.stamp
  /\ stamp[s] = snap.stamp =>
       lines[s] <= LinesFor(snap.gen) /\ cache[s] = Replay(snap.map, Prefix(lines[s]))
  /\ stamp[s] < snap.stamp => NotNewer(cache[s], snap.map)
MemoryAt(s) ==
  /\ pc[s] \in {"await", "loaded"} => cache[s] # None
  /\ cache[s] # None /\ ~Exclusive(s) =>
       Remembers(s) /\ (pc[s] = "reload" => stamp[s] < snap.stamp)

RecordsAbove(map) ==
  \A i \in 1 .. Len(logf.recs) : map[logf.recs[i].note].ed <= logf.recs[i].entry.ed
RecordsBelow(map) ==
  \A i \in 1 .. Len(logf.recs) : logf.recs[i].entry.ed <= map[logf.recs[i].note].ed

\* A snapshot read and its log not yet.
LoadingAt(s) ==
  /\ loading[s] # None <=> pc[s] = "readLog"
  /\ loading[s] # None =>
       /\ loading[s].gen = loading[s].stamp /\ loading[s].stamp <= snap.stamp
       /\ loading[s].stamp = snap.stamp => loading[s] = snap
       /\ loading[s].stamp < snap.stamp => NotNewer(loading[s].map, snap.map)
       /\ op[s] # "read" => loading[s] = snap
       /\ cache[s] # None => NotNewer(cache[s], loading[s].map)
       /\ logf # None /\ logf.gen = loading[s].gen => RecordsAbove(loading[s].map)

\* The log is of the snapshot or of one before it, readable, and goes on in time.
LogInv ==
  logf # None =>
    /\ logf.gen <= snap.gen
    /\ \A i \in 1 .. Len(logf.recs) : logf.recs[i].sealed
    /\ \A i, j \in 1 .. Len(logf.recs) : i < j /\ logf.recs[i].note = logf.recs[j].note
         => logf.recs[i].entry.ed <= logf.recs[j].entry.ed
    /\ RecordsBelow(IF logf.gen = snap.gen THEN objects ELSE snap.map)
    /\ logf.gen = snap.gen => RecordsAbove(snap.map)
    /\ logf.torn => /\ journal # None
                    /\ \A s \in Session : pc[s] \in Loading \cup {"healSnapshot", "healDrop"}

DiskInv ==
  /\ snap.gen = snap.stamp /\ snap.gen > 0 /\ NotNewer(snap.map, objects)
  /\ \A n \in Note : objects[n].ed <= writes
  /\ JournalCoversStale /\ LogInv

\* An object is archived before it is replaced, and a put that ends has put its notes.
WrittenAt(s) ==
  /\ pc[s] = "object" /\ objects[NextNote(s)].rev > 0
       => objects[NextNote(s)] \in archive[NextNote(s)]
  /\ op[s] = "put" /\ pc[s] \in {"commit", "append", "snapshot", "dropLog", "end"}
       => \A n \in todo[s] : objects[n].rev > 0
  /\ op[s] = "putMany" => \A n \in Note \ todo[s] : objects[n].rev > 0

\* The numbers of the versions that were written.
Numbered ==
  \A n \in Note :
    /\ \A v \in archive[n] : v.rev > 0 /\ (objects[n].rev > 0 => v.rev <= objects[n].rev)
    /\ objects[n].rev = 0 => objects[n].ed \notin acked
    /\ objects[n].rev > 0 => objects[n].ed > 0
    /\ \A m \in Note : m # n /\ objects[m].ed = objects[n].ed => objects[n].ed = 0

HistoryInv == NothingLost /\ Numbered /\ \A s \in Session : WrittenAt(s)

SessionInv(s) == LockAt(s) /\ JournalAt(s) /\ ReadyAt(s) /\ MemoryAt(s) /\ LoadingAt(s)

IInv ==
  /\ TypeInv /\ DiskInv /\ HistoryInv /\ JournalInv
  /\ holder # None => Busy(holder)
  /\ \A s \in Session : SessionInv(s)
-----------------------------------------------------------------------------
(* Records and indexes. *)

\* The greatest of numbers.
LEMMA MaxFacts ==
  ASSUME NEW n \in Nat, NEW S \in SUBSET (1..n), S # {}
  PROVE  Max(S) \in S /\ \A y \in S : y <= Max(S)
<1> DEFINE D == {n - i : i \in S}
           R == {ss \in Nat \X Nat : ss[1] < ss[2]}
<1>1. D \in SUBSET Nat /\ D # {}
  <2>1. \A i \in S : n - i \in Nat
    OBVIOUS
  <2> QED
    BY <2>1
<1>2. IsWellFoundedOn(R, Nat)
  BY NatLessThanWellFounded DEF OpToRel
<1>3. \E d \in D : \A e \in D : ~ (<<e, d>> \in R)
  <2> HIDE DEF D, R
  <2> QED
    BY <1>1, <1>2, WFMin
<1>4. PICK x \in S : \A e \in D : ~ (<<e, n - x>> \in R)
  BY <1>3
<1>5. ASSUME NEW y \in S PROVE x >= y
  <2>1. n - y \in D /\ n - y \in Nat /\ n - x \in Nat
    OBVIOUS
  <2>2. ~(n - y < n - x)
    BY <1>4, <2>1
  <2> QED
    BY <2>2
<1> QED
  BY <1>5 DEF Max

IsLast(s, n, k) ==
  /\ k \in 0..Len(s) /\ (k # 0 => s[k].note = n /\ s[k].sealed)
  /\ \A j \in k + 1 .. Len(s) : ~(s[j].note = n /\ s[j].sealed)

\* LastOn is what it says, and nothing else is.
LEMMA LastOnFacts ==
  ASSUME NEW s, Len(s) \in Nat, NEW n
  PROVE  IsLast(s, n, LastOn(s, n)) /\ \A k : IsLast(s, n, k) => k = LastOn(s, n)
<1> DEFINE I == {i \in 1..Len(s) : s[i].note = n /\ s[i].sealed}
<1>1. LastOn(s, n) = IF I # {} THEN Max(I) ELSE 0
  BY DEF LastOn, SelectLastInSeq
<1>2. I # {} => Max(I) \in I /\ \A i \in I : i <= Max(I)
  BY MaxFacts
<1> HIDE DEF I
<1>3. CASE I = {}
  <2>1. LastOn(s, n) = 0 /\ \A j \in 1..Len(s) : ~(s[j].note = n /\ s[j].sealed)
    BY <1>1, <1>3 DEF I
  <2> QED
    BY <2>1 DEF IsLast
<1>4. CASE I # {}
  <2> DEFINE m == LastOn(s, n)
  <2>1. m \in I /\ \A i \in I : i <= m
    BY <1>1, <1>2, <1>4
  <2> HIDE DEF m
  <2>2. /\ m \in 1..Len(s) /\ s[m].note = n /\ s[m].sealed
        /\ \A j \in 1..Len(s) : s[j].note = n /\ s[j].sealed => j <= m
    BY <2>1 DEF I
  <2>3. IsLast(s, n, m)
    BY <2>2 DEF IsLast
  <2>4. ASSUME NEW k, IsLast(s, n, k) PROVE k = m
    BY <2>2, <2>4 DEF IsLast
  <2> QED
    BY <2>3, <2>4 DEF m
<1> QED
  BY <1>3, <1>4

\* Replaying gives an index; without records, the one it starts from.
LEMMA ReplayType ==
  ASSUME NEW map \in Index, NEW recs \in Seq(Line)
  PROVE  Replay(map, recs) \in Index /\ Replay(map, << >>) = map
<1>1. ASSUME NEW n \in Note PROVE Replay(map, recs)[n] \in Entry /\ Replay(map, << >>)[n] = map[n]
  <2>1. Len(recs) \in Nat /\ \A i \in 1..Len(recs) : recs[i].entry \in Entry
    <3>1. Len(recs) \in Nat /\ \A i \in 1..Len(recs) : recs[i] \in Line
      OBVIOUS
    <3> QED
      BY <3>1 DEF Line
  <2>2. IsLast(recs, n, LastOn(recs, n))
    BY <2>1, LastOnFacts
  <2>3. LastOn(<< >>, n) = 0
    <3>1. Len(<< >>) = 0
      OBVIOUS
    <3>2. IsLast(<< >>, n, LastOn(<< >>, n))
      BY <3>1, LastOnFacts
    <3> QED
      BY <3>1, <3>2 DEF IsLast
  <2>4. map[n] \in Entry
    BY DEF Index
  <2>5. Replay(map, << >>)[n] = map[n]
    BY <2>3 DEF Replay
  <2>6. Replay(map, recs)[n] \in Entry
    <3>1. CASE LastOn(recs, n) = 0
      BY <2>4, <3>1 DEF Replay
    <3>2. CASE LastOn(recs, n) # 0
      BY <2>1, <2>2, <3>2 DEF Replay, IsLast
    <3> QED
      BY <3>1, <3>2
  <2> QED
    BY <2>5, <2>6
<1>2. /\ Replay(map, recs) = [n \in Note |-> Replay(map, recs)[n]]
      /\ Replay(map, << >>) = [n \in Note |-> Replay(map, << >>)[n]]
      /\ map = [n \in Note |-> map[n]]
  BY DEF Replay, Index
<1> QED
  BY <1>1, <1>2 DEF Index

\* Replay by its last record: what it gives is one record's entry, or the old one.
LEMMA ReplayLast ==
  ASSUME NEW map, NEW recs \in Seq(Line), NEW n \in Note, NEW k, IsLast(recs, n, k)
  PROVE  Replay(map, recs)[n] = IF k = 0 THEN map[n] ELSE recs[k].entry
<1>1. Len(recs) \in Nat
  OBVIOUS
<1>2. k = LastOn(recs, n)
  BY <1>1, LastOnFacts
<1> QED
  BY <1>2 DEF Replay

LEMMA ReplayAppend ==
  ASSUME NEW map \in Index, NEW recs \in Seq(Line), NEW r \in Line, r.sealed
  PROVE  Replay(map, Append(recs, r)) = [Replay(map, recs) EXCEPT ![r.note] = r.entry]
<1> DEFINE t == Append(recs, r)
<1>1. /\ t \in Seq(Line) /\ Len(t) = Len(recs) + 1 /\ Len(recs) \in Nat /\ t[Len(recs) + 1] = r
      /\ \A i \in 1..Len(recs) : t[i] = recs[i]
  OBVIOUS
<1> HIDE DEF t
<1>2. r.note \in Note
  BY DEF Line
<1>3. ASSUME NEW n \in Note
      PROVE  Replay(map, t)[n] = [Replay(map, recs) EXCEPT ![r.note] = r.entry][n]
  <2>1. PICK k : IsLast(recs, n, k)
    BY <1>1, LastOnFacts
  <2>2. Replay(map, recs)[n] = IF k = 0 THEN map[n] ELSE recs[k].entry
    BY <2>1, ReplayLast
  <2>3. CASE n = r.note
    <3>1. IsLast(t, n, Len(recs) + 1)
      BY <1>1, <2>3 DEF IsLast
    <3>2. Replay(map, t)[n] = r.entry
      <4>1. Replay(map, t)[n] = IF Len(recs) + 1 = 0 THEN map[n] ELSE t[Len(recs) + 1].entry
        BY <1>1, <3>1, ReplayLast
      <4> QED
        BY <1>1, <4>1
    <3> QED
      BY <2>3, <3>2 DEF Replay
  <2>4. CASE n # r.note
    <3>1. IsLast(t, n, k)
      BY <1>1, <2>1, <2>4 DEF IsLast
    <3>2. Replay(map, t)[n] = IF k = 0 THEN map[n] ELSE t[k].entry
      BY <1>1, <3>1, ReplayLast
    <3>3. k # 0 => t[k] = recs[k]
      BY <1>1, <2>1 DEF IsLast
    <3>4. Replay(map, t)[n] = Replay(map, recs)[n]
      BY <2>2, <3>2, <3>3
    <3> QED
      BY <2>4, <3>4 DEF Replay
  <2> QED
    BY <2>3, <2>4
<1> QED
  BY <1>3 DEF Replay, t

\* Replaying a log in two parts is replaying it.
LEMMA ReplaySplit ==
  ASSUME NEW map \in Index, NEW recs \in Seq(Line), NEW k \in 0..Len(recs)
  PROVE  Replay(Replay(map, SubSeq(recs, 1, k)), SubSeq(recs, k + 1, Len(recs))) = Replay(map, recs)
<1> DEFINE p == SubSeq(recs, 1, k)
           q == SubSeq(recs, k + 1, Len(recs))
           N == Len(recs)
<1>1. /\ N \in Nat /\ p \in Seq(Line) /\ q \in Seq(Line) /\ Len(p) = k /\ Len(q) = N - k
      /\ k \in Nat /\ N - k \in Nat
  OBVIOUS
<1>3. \A i \in 1..k : p[i] = recs[i]
  OBVIOUS
<1>4. \A j \in 1..(N - k) : q[j] = recs[k + j]
  OBVIOUS
<1>5. \A m \in k + 1 .. N : m - k \in 1..(N - k) /\ q[m - k] = recs[m]
  <2> SUFFICES ASSUME NEW m \in k + 1 .. N PROVE m - k \in 1..(N - k) /\ q[m - k] = recs[m]
    OBVIOUS
  <2>1. m - k \in 1..(N - k) /\ k + (m - k) = m
    BY <1>1
  <2> QED
    BY <1>4, <2>1
<1> HIDE DEF p, q
<1>2. ASSUME NEW n \in Note PROVE Replay(Replay(map, p), q)[n] = Replay(map, recs)[n]
  <2>1. PICK i : IsLast(p, n, i)
    <3>1. Len(p) \in Nat
      BY <1>1
    <3> QED
      BY <3>1, LastOnFacts
  <2>2. PICK j : IsLast(q, n, j)
    <3>1. Len(q) \in Nat
      BY <1>1
    <3> QED
      BY <3>1, LastOnFacts
  <2>3. Replay(map, p)[n] = IF i = 0 THEN map[n] ELSE p[i].entry
    BY <1>1, <2>1, ReplayLast
  <2>4. Replay(Replay(map, p), q)[n] = IF j = 0 THEN Replay(map, p)[n] ELSE q[j].entry
    BY <1>1, <2>2, ReplayLast
  <2>5. i \in 0..k /\ j \in 0..(N - k)
    BY <1>1, <2>1, <2>2 DEF IsLast
  <2>6. CASE j = 0
    <3>1. \A m \in 1..(N - k) : ~(q[m].note = n /\ q[m].sealed)
      BY <1>1, <2>2, <2>6 DEF IsLast
    <3>2. \A m \in k + 1 .. N : ~(recs[m].note = n /\ recs[m].sealed)
      <4> SUFFICES ASSUME NEW m \in k + 1 .. N PROVE ~(recs[m].note = n /\ recs[m].sealed)
        OBVIOUS
      <4> QED
        BY <1>5, <3>1
    <3>3. IsLast(recs, n, i)
      <4>1. i \in 0..N /\ (i # 0 => recs[i] = p[i])
        BY <1>1, <1>3, <2>5
      <4>2. ASSUME NEW m \in i + 1 .. N PROVE ~(recs[m].note = n /\ recs[m].sealed)
        <5>1. CASE m > k
          BY <1>1, <2>5, <3>2, <5>1
        <5>2. CASE m <= k
          <6>1. m \in i + 1 .. Len(p) /\ m \in 1..k
            BY <1>1, <2>5, <5>2
          <6> QED
            BY <1>3, <2>1, <6>1 DEF IsLast
        <5> QED
          BY <1>1, <2>5, <5>1, <5>2
      <4> QED
        BY <2>1, <4>1, <4>2 DEF IsLast
    <3>4. Replay(map, recs)[n] = IF i = 0 THEN map[n] ELSE recs[i].entry
      BY <3>3, ReplayLast
    <3>5. i # 0 => p[i] = recs[i]
      BY <1>1, <1>3, <2>5
    <3> QED
      BY <2>3, <2>4, <2>6, <3>4, <3>5
  <2>7. CASE j # 0
    <3>1. q[j] = recs[k + j] /\ k + j \in 1..N
      BY <1>1, <1>4, <2>5, <2>7
    <3>2. \A m \in k + j + 1 .. N : ~(recs[m].note = n /\ recs[m].sealed)
      <4> SUFFICES ASSUME NEW m \in k + j + 1 .. N PROVE ~(recs[m].note = n /\ recs[m].sealed)
        OBVIOUS
      <4>1. m - k \in j + 1 .. (N - k) /\ q[m - k] = recs[m]
        <5>1. m \in k + 1 .. N /\ m - k \in Nat /\ m - k >= j + 1 /\ m - k <= N - k
          BY <1>1, <2>5, <2>7
        <5> QED
          BY <1>1, <1>5, <2>5, <5>1
      <4> QED
        BY <1>1, <2>2, <4>1 DEF IsLast
    <3>3. IsLast(recs, n, k + j)
      BY <1>1, <2>2, <2>5, <2>7, <3>1, <3>2 DEF IsLast
    <3>4. Replay(map, recs)[n] = IF k + j = 0 THEN map[n] ELSE recs[k + j].entry
      BY <3>3, ReplayLast
    <3> QED
      BY <2>4, <2>5, <2>7, <3>1, <3>4
  <2> QED
    BY <2>6, <2>7
<1> QED
  BY <1>2 DEF Replay, p, q

\* What replayed records and the index under them have in common, their result has.
LEMMA ReplayBetween ==
  ASSUME NEW map \in Index, NEW recs \in Seq(Line), NEW b \in Index
  PROVE  /\ /\ NotNewer(map, b)
            /\ \A i \in 1..Len(recs) : recs[i].entry.ed <= b[recs[i].note].ed
            => NotNewer(Replay(map, recs), b)
         /\ (\A i \in 1..Len(recs) : map[recs[i].note].ed <= recs[i].entry.ed)
            => NotNewer(map, Replay(map, recs))
<1>1. ASSUME NEW n \in Note
      PROVE  /\ map[n].ed \in Nat
             /\ \/ Replay(map, recs)[n] = map[n]
                \/ \E k \in 1..Len(recs) : recs[k].note = n /\ Replay(map, recs)[n] = recs[k].entry
  <2>1. Len(recs) \in Nat /\ map[n].ed \in Nat
    BY DEF Index, Entry
  <2>2. PICK k : IsLast(recs, n, k)
    BY <2>1, LastOnFacts
  <2>3. Replay(map, recs)[n] = IF k = 0 THEN map[n] ELSE recs[k].entry
    BY <2>2, ReplayLast
  <2> QED
    BY <2>1, <2>2, <2>3 DEF IsLast
<1> QED
  BY <1>1 DEF NotNewer

\* A log that goes on in time gives an index no older than its first lines do.
LEMMA PrefixNotNewer ==
  ASSUME NEW map \in Index, NEW recs \in Seq(Line), NEW k \in 0..Len(recs),
         \A i \in 1..Len(recs) : recs[i].sealed /\ map[recs[i].note].ed <= recs[i].entry.ed,
         \A i, j \in 1..Len(recs) :
           i < j /\ recs[i].note = recs[j].note => recs[i].entry.ed <= recs[j].entry.ed
  PROVE  NotNewer(Replay(map, SubSeq(recs, 1, k)), Replay(map, recs))
<1> DEFINE p == SubSeq(recs, 1, k)
<1>1. Len(recs) \in Nat /\ k \in Nat /\ p \in Seq(Line) /\ Len(p) = k /\ \A i \in 1..k : p[i] = recs[i]
  OBVIOUS
<1> HIDE DEF p
<1>2. ASSUME NEW n \in Note PROVE Replay(map, p)[n].ed <= Replay(map, recs)[n].ed
  <2>1. PICK i : IsLast(p, n, i)
    <3>1. Len(p) \in Nat
      BY <1>1
    <3> QED
      BY <3>1, LastOnFacts
  <2>2. PICK j : IsLast(recs, n, j)
    BY <1>1, LastOnFacts
  <2>3. Replay(map, p)[n] = IF i = 0 THEN map[n] ELSE p[i].entry
    BY <1>1, <2>1, ReplayLast
  <2>4. Replay(map, recs)[n] = IF j = 0 THEN map[n] ELSE recs[j].entry
    BY <2>2, ReplayLast
  <2>5. Replay(map, recs)[n].ed \in Nat
    BY ReplayType DEF Index, Entry
  <2>6. i \in 0..k /\ j \in 0..Len(recs) /\ (i # 0 => p[i] = recs[i] /\ recs[i].note = n)
    BY <1>1, <2>1, <2>2 DEF IsLast
  <2>7. i # 0 => j # 0 /\ i <= j /\ recs[j].note = n
    BY <1>1, <2>2, <2>6 DEF IsLast
  <2>8. CASE i = 0 /\ j = 0
    BY <2>3, <2>4, <2>5, <2>8
  <2>9. CASE i = 0 /\ j # 0
    <3>1. map[n].ed <= recs[j].entry.ed
      BY <2>2, <2>6, <2>9 DEF IsLast
    <3> QED
      BY <2>3, <2>4, <2>9, <3>1
  <2>10. CASE i # 0
    <3>1. recs[i].entry.ed <= recs[j].entry.ed \/ i = j
      BY <1>1, <2>6, <2>7, <2>10
    <3> QED
      BY <2>3, <2>4, <2>5, <2>6, <2>7, <2>10, <3>1
  <2> QED
    BY <2>8, <2>9, <2>10
<1> QED
  BY <1>2 DEF NotNewer, p

\* How much of the log counts, and from where.
LEMMA LinesFacts ==
  ASSUME TypeInv, NEW g
  PROVE  /\ LinesFor(g) \in Nat
         /\ LinesFor(g) > 0 <=> logf # None /\ logf.gen = g
         /\ LinesFor(g) > 0 => logf.recs \in Seq(Line) /\ LinesFor(g) = Len(logf.recs) + 1
                               /\ Len(logf.recs) \in Nat
<1>1. logf # None => logf.recs \in Seq(Line)
  BY DEF TypeInv, Log
<1> QED
  BY <1>1 DEF LinesFor

LEMMA RecordsFacts ==
  ASSUME TypeInv, NEW g, NEW k \in Nat, k <= LinesFor(g)
  PROVE  /\ RecordsFrom(g, k) \in Seq(Line) /\ Prefix(k) \in Seq(Line)
         /\ \A map \in Index : Replay(Replay(map, Prefix(k)), RecordsFrom(g, k))
                                 = Replay(map, RecordsFrom(g, 0))
         /\ RecordsFrom(g, 0) = IF LinesFor(g) = 0 THEN << >> ELSE logf.recs
         /\ \A i \in 1..Len(RecordsFrom(g, k)) : LinesFor(g) > 0 /\
              \E j \in 1..Len(logf.recs) : RecordsFrom(g, k)[i] = logf.recs[j]
<1>1. CASE LinesFor(g) = 0
  <2>1. RecordsFrom(g, k) = << >> /\ RecordsFrom(g, 0) = << >> /\ Prefix(k) = << >>
    BY <1>1 DEF RecordsFrom, Prefix
  <2>2. Len(<< >>) = 0 /\ << >> \in Seq(Line)
    OBVIOUS
  <2>3. \A map \in Index : Replay(map, << >>) = map
    BY <2>2, ReplayType
  <2> QED
    BY <1>1, <2>1, <2>2, <2>3
<1>2. CASE LinesFor(g) > 0
  <2> DEFINE recs == logf.recs
             m == Max({k, 1})
  <2>1. recs \in Seq(Line) /\ Len(recs) \in Nat /\ k <= Len(recs) + 1
    BY <1>2, LinesFacts
  <2> HIDE DEF recs
  <2>2. m = IF k = 0 THEN 1 ELSE k
    <3>1. \E x \in {k, 1} : \A y \in {k, 1} : x >= y
      OBVIOUS
    <3>2. m \in {k, 1} /\ m >= k /\ m >= 1
      BY <3>1 DEF Max
    <3> QED
      BY <3>2
  <2>3. Max({0, 1}) = 1
    <3>1. \E x \in {0, 1} : \A y \in {0, 1} : x >= y
      OBVIOUS
    <3> QED
      BY <3>1 DEF Max
  <2>4. RecordsFrom(g, k) = SubSeq(recs, m, Len(recs)) /\ RecordsFrom(g, 0) = SubSeq(recs, 1, Len(recs))
    <3>1. LinesFor(g) # 0
      BY <1>2, LinesFacts
    <3> QED
      BY <2>3, <3>1 DEF RecordsFrom, recs
  <2> HIDE DEF m
  <2>5. SubSeq(recs, 1, Len(recs)) = recs
    BY <2>1, SubSeqFull
  <2>6. CASE k = 0
    <3>1. RecordsFrom(g, k) = recs /\ Prefix(k) = << >>
      BY <2>2, <2>4, <2>5, <2>6 DEF Prefix
    <3>2. << >> \in Seq(Line) /\ \A map \in Index : Replay(map, << >>) = map
      BY <2>1, ReplayType
    <3> QED
      BY <1>2, <2>1, <2>4, <2>5, <3>1, <3>2 DEF recs
  <2>7. CASE k # 0
    <3> DEFINE h == k - 1
    <3>1. h \in 0..Len(recs) /\ h + 1 = k
      BY <2>1, <2>7
    <3>2. RecordsFrom(g, k) = SubSeq(recs, h + 1, Len(recs)) /\ Prefix(k) = SubSeq(recs, 1, h)
      BY <2>2, <2>4, <2>7, <3>1 DEF Prefix, recs
    <3> HIDE DEF h
    <3>3. \A map \in Index : Replay(Replay(map, Prefix(k)), RecordsFrom(g, k)) = Replay(map, recs)
      BY <2>1, <3>1, <3>2, ReplaySplit
    <3>4. /\ SubSeq(recs, h + 1, Len(recs)) \in Seq(Line) /\ SubSeq(recs, 1, h) \in Seq(Line)
          /\ Len(SubSeq(recs, h + 1, Len(recs))) = Len(recs) - h
      BY <2>1, <3>1
    <3>5. \A i \in 1..(Len(recs) - h) :
            SubSeq(recs, h + 1, Len(recs))[i] = recs[h + i] /\ h + i \in 1..Len(recs)
      BY <2>1, <3>1
    <3>6. \A i \in 1..Len(RecordsFrom(g, k)) :
            \E j \in 1..Len(recs) : RecordsFrom(g, k)[i] = recs[j]
      BY <3>2, <3>4, <3>5
    <3>7. RecordsFrom(g, 0) = recs
      BY <2>4, <2>5
    <3>8. RecordsFrom(g, k) \in Seq(Line) /\ Prefix(k) \in Seq(Line)
      BY <3>2, <3>4
    <3> QED
      BY <1>2, <3>3, <3>6, <3>7, <3>8 DEF recs
  <2> QED
    BY <2>6, <2>7
<1> QED
  BY <1>1, <1>2, LinesFacts

\* No record the log gives is unreadable.
LEMMA NoDamage ==
  ASSUME TypeInv, LogInv, NEW g, NEW k \in Nat, k <= LinesFor(g)
  PROVE  ~Damaged(RecordsFrom(g, k))
<1> DEFINE recs == RecordsFrom(g, k)
<1>1. recs \in Seq(Line) /\ \A i \in 1..Len(recs) : recs[i].sealed
  <2>1. /\ recs \in Seq(Line)
        /\ \A i \in 1..Len(recs) : LinesFor(g) > 0 /\ \E j \in 1..Len(logf.recs) : recs[i] = logf.recs[j]
    BY RecordsFacts
  <2>2. LinesFor(g) > 0 => \A j \in 1..Len(logf.recs) : logf.recs[j].sealed
    BY LinesFacts DEF LogInv
  <2> HIDE DEF recs
  <2> QED
    BY <2>1, <2>2
<1>2. Len(recs) \in Nat
  BY <1>1
<1> HIDE DEF recs
<1>3. ~Damaged(recs)
  BY <1>1, <1>2 DEF Damaged
<1> QED
  BY <1>3 DEF recs

\* The index on disk: what a session that has all its lines has.
LEMMA DiskFacts ==
  ASSUME TypeInv, DiskInv
  PROVE  /\ DiskIndex \in Index /\ Replay(snap.map, Prefix(LinesFor(snap.gen))) = DiskIndex
         /\ NotNewer(snap.map, DiskIndex) /\ NotNewer(DiskIndex, objects)
         /\ \A k \in Nat : k <= LinesFor(snap.gen) =>
              NotNewer(Replay(snap.map, Prefix(k)), DiskIndex)
         /\ journal = None => DiskIndex = objects
<1> DEFINE g == snap.gen
           R == RecordsFrom(g, 0)
<1>1. snap.map \in Index /\ objects \in Index /\ LinesFor(g) \in Nat /\ 0 <= LinesFor(g)
  BY LinesFacts DEF TypeInv, Snapshot
<1>2. R \in Seq(Line) /\ R = IF LinesFor(g) = 0 THEN << >> ELSE logf.recs
  BY <1>1, RecordsFacts
<1>3. DiskIndex = Replay(snap.map, R)
  BY DEF DiskIndex
<1>4. ASSUME NEW k \in Nat, k <= LinesFor(g)
      PROVE  Replay(snap.map, Prefix(k)) \in Index /\ NotNewer(Replay(snap.map, Prefix(k)), DiskIndex)
  <2>1. Prefix(k) \in Seq(Line)
    BY <1>4, RecordsFacts
  <2>2. Replay(snap.map, Prefix(k)) \in Index
    BY <1>1, <2>1, ReplayType
  <2>3. CASE LinesFor(g) = 0
    <3>1. Prefix(k) = << >> /\ DiskIndex = snap.map
      BY <1>1, <1>2, <1>3, <1>4, <2>1, <2>3, ReplayType DEF Prefix
    <3>2. Replay(snap.map, Prefix(k)) = DiskIndex
      BY <1>1, <2>1, <3>1, ReplayType
    <3> QED
      BY <1>1, <2>2, <3>1, <3>2 DEF NotNewer, Index, Entry
  <2>4. CASE LinesFor(g) > 0
    <3> DEFINE recs == logf.recs
    <3>1. /\ recs \in Seq(Line) /\ Len(recs) \in Nat /\ LinesFor(g) = Len(recs) + 1 /\ logf # None
          /\ logf.gen = g
      BY <2>4, LinesFacts
    <3>2. /\ \A i \in 1..Len(recs) : recs[i].sealed /\ snap.map[recs[i].note].ed <= recs[i].entry.ed
          /\ \A i, j \in 1..Len(recs) : i < j /\ recs[i].note = recs[j].note
               => recs[i].entry.ed <= recs[j].entry.ed
      BY <3>1 DEF DiskInv, LogInv, RecordsAbove
    <3>3. DiskIndex = Replay(snap.map, recs)
      BY <1>2, <1>3, <2>4, <3>1
    <3> DEFINE h == IF k = 0 THEN 0 ELSE k - 1
    <3>4. h \in 0..Len(recs) /\ Prefix(k) = SubSeq(recs, 1, h)
      <4>1. CASE k = 0
        <5>1. SubSeq(recs, 1, 0) = << >>
          BY <3>1
        <5> QED
          BY <3>1, <4>1, <5>1 DEF Prefix
      <4>2. CASE k # 0
        BY <1>4, <3>1, <4>2 DEF Prefix
      <4> QED
        BY <4>1, <4>2
    <3> HIDE DEF h, recs
    <3>5. NotNewer(Replay(snap.map, SubSeq(recs, 1, h)), Replay(snap.map, recs))
      BY <1>1, <3>1, <3>2, <3>4, PrefixNotNewer
    <3> QED
      BY <2>2, <3>3, <3>4, <3>5
  <2> QED
    BY <1>1, <2>3, <2>4
<1>5. DiskIndex \in Index
  BY <1>1, <1>2, <1>3, ReplayType
<1>6. Replay(snap.map, Prefix(LinesFor(g))) = DiskIndex
  <2>1. CASE LinesFor(g) = 0
    BY <1>2, <1>3, <2>1 DEF Prefix
  <2>2. CASE LinesFor(g) > 0
    <3>1. logf.recs \in Seq(Line) /\ LinesFor(g) = Len(logf.recs) + 1 /\ Len(logf.recs) \in Nat
      BY <2>2, LinesFacts
    <3>2. Prefix(LinesFor(g)) = SubSeq(logf.recs, 1, Len(logf.recs))
      BY <2>2, <3>1 DEF Prefix
    <3> QED
      BY <1>2, <1>3, <2>2, <3>1, <3>2, SubSeqFull
  <2> QED
    BY <1>1, <2>1, <2>2
<1>7. NotNewer(snap.map, DiskIndex)
  <2>1. Prefix(0) = << >> /\ Replay(snap.map, << >>) = snap.map
    BY <1>1, <1>2, ReplayType DEF Prefix
  <2> QED
    BY <1>1, <1>4, <2>1
<1>8. NotNewer(DiskIndex, objects)
  <2>1. \A i \in 1..Len(R) : R[i].entry.ed <= objects[R[i].note].ed
    <3>1. CASE LinesFor(g) = 0
      BY <1>2, <3>1
    <3>2. CASE LinesFor(g) > 0
      BY <1>2, <3>2, LinesFacts DEF DiskInv, LogInv, RecordsBelow
    <3> QED
      BY <1>1, <3>1, <3>2
  <2> HIDE DEF R
  <2> QED
    BY <1>1, <1>2, <1>3, <2>1, ReplayBetween DEF DiskInv
<1>9. journal = None => DiskIndex = objects
  BY <1>1, <1>5 DEF DiskInv, JournalCoversStale, Index
<1> QED
  BY <1>4, <1>5, <1>6, <1>7, <1>8, <1>9

\* One session at a time may change the disk.
LEMMA OnlyOne ==
  ASSUME TypeInv, \A s \in Session : LockAt(s),
         NEW s \in Session, NEW t \in Session \ {s}, Exclusive(s)
  PROVE  op[t] = "read" /\ ~Exclusive(t) /\ (holder = s \/ op[s] = "close") /\ holder # t
<1>1. op[s] \in Kinds /\ op[t] \in Kinds
  BY DEF TypeInv
<1>2. holder = s \/ op[s] = "close"
  BY <1>1 DEF LockAt, Exclusive, Active, Writing, Writes, Puts, Kinds
<1>3. op[t] # "close"
  BY DEF LockAt, Exclusive, Active, Writes, Healing
<1>4. op[t] = "read" /\ pc[t] \notin Healing
  <2>1. CASE holder = s
    BY <1>1, <1>3, <2>1 DEF LockAt, Writing, Kinds
  <2>2. CASE op[s] = "close"
    BY <2>2 DEF LockAt, Healing
  <2> QED
    BY <1>2, <2>1, <2>2
<1>5. ~Exclusive(t)
  BY <1>4 DEF LockAt, Exclusive, Active, Writes, Puts
<1>6. holder # t
  BY <1>4 DEF LockAt, Writing
<1> QED
  BY <1>2, <1>4, <1>5, <1>6

\* A session that has read the index and has no reason to repair it finds it repaired.
LEMMA NoJournal ==
  ASSUME IInv, NEW s \in Session, op[s] # "read", cache[s] # None,
         pc[s] \in {"idle", "load", "reload"}
  PROVE  journal = None
<1>1. ASSUME NEW t \in Session, Active(t) PROVE FALSE
  <2>1. t # s
    BY <1>1 DEF Active, Writes, Healing
  <2> QED
    BY <1>1, <2>1, OnlyOne DEF IInv, SessionInv, Exclusive
<1>2. ~Leftover
  BY DEF Leftover, Waits
<1> QED
  BY <1>1, <1>2 DEF IInv, JournalInv

\* What a session that had the vault for itself takes with it.
LEMMA ReadyRemembers ==
  ASSUME IInv, NEW s \in Session, Exclusive(s), Bound(s), DiskIndex = objects
  PROVE  Remembers(s)
<1>1. TypeInv /\ DiskInv /\ ReadyAt(s)
  BY DEF IInv, SessionInv
<1>2. cache[s] = objects /\ lines[s] = LinesFor(snap.gen)
  BY <1>1 DEF ReadyAt, Bound
<1>3. Replay(snap.map, Prefix(LinesFor(snap.gen))) = DiskIndex /\ LinesFor(snap.gen) \in Nat
  BY <1>1, DiskFacts, LinesFacts
<1>4. objects \in Index /\ NotNewer(objects, objects)
  BY <1>1 DEF TypeInv, NotNewer, Index, Entry
<1> QED
  <2>1. snap.stamp \in Nat
    BY <1>1 DEF TypeInv, Snapshot
  <2> QED
    BY <1>1, <1>2, <1>3, <1>4, <2>1 DEF Bound, DiskInv, Remembers

\* A history has a highest revision.
LEMMA HighestRevision ==
  ASSUME NEW L \in SUBSET Entry, IsFiniteSet(L), L # {}
  PROVE  \E x \in L : \A y \in L : y.rev <= x.rev
<1> DEFINE Above == [x \in L |-> {y \in L : y.rev > x.rev}]
           T == {Above[x] : x \in L}
<1>1. \A x \in L : Above[x] = {y \in L : y.rev > x.rev}
  OBVIOUS
<1>2. \A x \in L : x.rev \in Nat
  BY DEF Entry
<1> HIDE DEF Above
<1>3. \A x \in L : Above[x] \in FiniteSubsetsOf(L)
  <2> SUFFICES ASSUME NEW x \in L PROVE Above[x] \in FiniteSubsetsOf(L)
    OBVIOUS
  <2>1. Above[x] \in SUBSET L
    BY <1>1
  <2>2. IsFiniteSet(Above[x])
    BY <2>1, FS_Subset
  <2> QED
    BY <2>1, <2>2 DEF FiniteSubsetsOf
<1>4. T \subseteq FiniteSubsetsOf(L) /\ T # {}
  BY <1>3
<1>5. \E a \in T : \A b \in T : ~ (<<b, a>> \in StrictSubsetOrdering(L))
  <2>1. IsWellFoundedOn(StrictSubsetOrdering(L), FiniteSubsetsOf(L))
    BY FS_StrictSubsetOrderingWellFounded
  <2> HIDE DEF T
  <2> QED
    BY <1>4, <2>1, WFMin
<1>6. PICK x \in L : \A b \in T : ~ (<<b, Above[x]>> \in StrictSubsetOrdering(L))
  BY <1>5
<1>7. ASSUME NEW y \in L, y.rev > x.rev PROVE FALSE
  <2>1. Above[y] \in T
    OBVIOUS
  <2>2. Above[y] \subseteq Above[x] /\ y \in Above[x] /\ y \notin Above[y] /\ Above[x] \subseteq L
    BY <1>1, <1>2, <1>7
  <2>3. <<Above[y], Above[x]>> \in StrictSubsetOrdering(L)
    BY <2>2 DEF StrictSubsetOrdering
  <2> QED
    BY <1>6, <2>1, <2>3
<1> QED
  BY <1>2, <1>7

\* A put never reuses a number of the history.
LEMMA BaseFacts ==
  ASSUME TypeInv, NEW n \in Note
  PROVE  ArchivedBase(n) \in Nat /\ \A e \in archive[n] : e.rev <= ArchivedBase(n)
<1> DEFINE revs == {e.rev : e \in archive[n]}
           top == CHOOSE r \in revs : \A e \in archive[n] : e.rev <= r
<1>1. archive[n] \in SUBSET Entry /\ IsFiniteSet(archive[n])
  BY DEF TypeInv
<1>2. CASE archive[n] = {}
  BY <1>2 DEF ArchivedBase
<1>3. CASE archive[n] # {}
  <2>1. PICK x \in archive[n] : \A y \in archive[n] : y.rev <= x.rev
    BY <1>1, <1>3, HighestRevision
  <2>2. top \in revs /\ \A e \in archive[n] : e.rev <= top
    <3>1. x.rev \in revs
      OBVIOUS
    <3> QED
      BY <2>1, <3>1
  <2>3. \A r \in revs : r \in Nat
    BY <1>1 DEF Entry
  <2>4. ArchivedBase(n) = top
    BY <1>3 DEF ArchivedBase
  <2> HIDE DEF top, revs
  <2> QED
    BY <2>2, <2>3, <2>4
<1> QED
  BY <1>2, <1>3

\* The note a write is at.
LEMMA NextNoteFacts ==
  ASSUME IInv, NEW s \in Session, op[s] \in Puts,
         pc[s] \in {"archive", "object", "commit", "append"}
  PROVE  NextNote(s) \in todo[s] /\ NextNote(s) \in Note
<1>1. todo[s] \subseteq Note /\ LockAt(s)
  BY DEF IInv, TypeInv, SessionInv
<1>2. todo[s] # {}
  BY <1>1 DEF LockAt, Puts
<1> QED
  BY <1>1, <1>2 DEF NextNote

\* From where it has been loaded, a session has the index.
LEMMA HasIndex ==
  ASSUME IInv, NEW s \in Session, pc[s] \notin {"idle", "load", "reload", "readLog"}
  PROVE  cache[s] \in Index
<1>1. cache[s] \in Index \cup {None} /\ pc[s] \in Locations /\ op[s] \in Kinds /\ objects \in Index
  BY DEF IInv, TypeInv
<1>2. CASE pc[s] \in {"await", "loaded"}
  BY <1>1, <1>2 DEF IInv, SessionInv, MemoryAt
<1>3. CASE Exclusive(s)
  BY <1>1, <1>3 DEF IInv, SessionInv, ReadyAt
<1> QED
  BY <1>1, <1>2, <1>3 DEF Locations, Exclusive, Active, Writes, Healing

\* The entry that a write makes.
LEMMA NewEntry ==
  ASSUME IInv, NEW s \in Session, NEW n \in Note, pc[s] = "object"
  PROVE  NextRevision(s, n) \in Nat
<1>1. cache[s] \in Index
  BY HasIndex
<1>2. cache[s][n].rev \in Nat
  BY <1>1 DEF Index, Entry
<1>3. ArchivedBase(n) \in Nat
  BY BaseFacts DEF IInv
<1> QED
  BY <1>2, <1>3 DEF NextRevision

\* The variables keep their types.
LEMMA TypeStep ==
  ASSUME IInv, [Next]_vars
  PROVE  TypeInv'
<1>1. TypeInv /\ objects \in Index
  BY DEF IInv, TypeInv
<1>2. CASE UNCHANGED vars
  BY <1>1, <1>2 DEF TypeInv, vars, disk, work, memory
<1> SUFFICES ASSUME NEW s \in Session,
                    Step(s) \/ BeginWrite(s) \/ BeginRead(s) \/ BeginClose(s) \/ Quit(s) \/ Crash(s)
             PROVE  TypeInv'
  BY <1>2 DEF Next
<1>3. \A l \in {"idle", "load", "reload", "readLog", "await", "loaded", "begin", "archive", "object", "commit", "append", "snapshot", "dropLog", "end", "healSnapshot", "healDrop", "healEnd"} : l \in Locations
  BY DEF Locations
<1>4. "read" \in Kinds /\ {} \in SUBSET Note
  BY DEF Kinds
<1>5. ASSUME NEW g, NEW k \in Nat, k <= LinesFor(g), NEW map \in Index
      PROVE  Replay(map, RecordsFrom(g, k)) \in Index /\ LinesFor(g) \in Nat
  BY <1>1, <1>5, RecordsFacts, ReplayType, LinesFacts
<1>6. ASSUME NEW kind \in Kinds, NEW notes \in SUBSET Note, Begin(s, kind, notes),
             holder' \in {holder, s}
      PROVE  TypeInv'
  BY <1>1, <1>3, <1>6 DEF TypeInv, Begin, Goto, disk, memory
<1>7. CASE BeginWrite(s)
  <2>1. PICK kind \in Kinds, notes \in SUBSET Note : Begin(s, kind, notes)
    BY <1>7 DEF BeginWrite, Kinds
  <2> QED
    BY <1>6, <1>7, <2>1 DEF BeginWrite
<1>8. CASE BeginRead(s)
  BY <1>4, <1>6, <1>8 DEF BeginRead
<1>9. CASE BeginClose(s)
  BY <1>4, <1>6, <1>9 DEF BeginClose, Kinds
<1>10. ASSUME UNCHANGED <<disk, writes, crashes, acked>>, Fail(s),
              loading' = loading \/ loading' = [loading EXCEPT ![s] = None]
       PROVE  TypeInv'
  BY <1>1, <1>3, <1>4, <1>10 DEF TypeInv, Fail, Return, Goto, Leave, Forget, memory, disk
<1>11. CASE Load(s)
  <2>1. CASE cache[s] = None \/ stamp[s] # snap.stamp \/ LinesFor(gen[s]) < lines[s]
    BY <1>1, <1>3, <1>11, <2>1 DEF TypeInv, Load, Goto, memory, disk, work
  <2>2. CASE ~(cache[s] = None \/ stamp[s] # snap.stamp \/ LinesFor(gen[s]) < lines[s])
    <3> DEFINE recs == RecordsFrom(gen[s], lines[s])
    <3>1. CASE Damaged(recs)
      BY <1>10, <1>11, <2>2, <3>1 DEF Load
    <3>2. CASE ~Damaged(recs)
      <4>1. /\ cache' = [cache EXCEPT ![s] = Replay(cache[s], recs)]
            /\ lines' = [lines EXCEPT ![s] = LinesFor(gen[s])]
            /\ pc' = [pc EXCEPT ![s] = "loaded"]
            /\ UNCHANGED <<work, stamp, gen, disk, loading, writes, crashes, acked>>
        BY <1>11, <2>2, <3>2 DEF Load, Goto
      <4>2. Replay(cache[s], recs) \in Index /\ LinesFor(gen[s]) \in Nat
        <5>1. lines[s] \in Nat /\ LinesFor(gen[s]) \in Nat /\ cache[s] \in Index
          BY <1>1, <2>2, LinesFacts DEF TypeInv
        <5> QED
          BY <1>5, <2>2, <5>1
      <4> HIDE DEF recs
      <4> QED
        BY <1>1, <1>3, <4>1, <4>2 DEF TypeInv, disk, work
    <3> QED
      BY <3>1, <3>2
  <2> QED
    BY <2>1, <2>2
<1>12. CASE Reload(s)
  BY <1>1, <1>3, <1>12 DEF TypeInv, Reload, Goto, memory, disk, work
<1>13. CASE ReadLog(s)
  <2> DEFINE from == loading[s]
             recs == RecordsFrom(from.gen, 0)
  <2>1. CASE Damaged(recs)
    BY <1>10, <1>13, <2>1 DEF ReadLog
  <2>2. CASE ~Damaged(recs)
    <3>1. from \in Snapshot
      BY <1>1, <1>13 DEF IInv, SessionInv, LoadingAt, ReadLog, TypeInv
    <3>2. from.gen \in Nat /\ from.stamp \in Nat /\ from.map \in Index
      BY <3>1 DEF Snapshot
    <3>3. Replay(from.map, recs) \in Index /\ LinesFor(from.gen) \in Nat
      <4>1. LinesFor(from.gen) \in Nat
        BY <1>1, LinesFacts
      <4> QED
        BY <1>5, <3>2, <4>1
    <3>4. /\ cache' = [cache EXCEPT ![s] = Replay(from.map, recs)]
          /\ stamp' = [stamp EXCEPT ![s] = from.stamp]
          /\ gen' = [gen EXCEPT ![s] = from.gen]
          /\ lines' = [lines EXCEPT ![s] = LinesFor(from.gen)]
          /\ pc' = [pc EXCEPT ![s] = IF journal = None THEN "loaded" ELSE "await"]
          /\ UNCHANGED <<work, disk, writes, crashes, acked>>
          /\ loading' = [loading EXCEPT ![s] = None]
      BY <1>13, <2>2 DEF ReadLog, Goto
    <3> HIDE DEF recs, from
    <3> QED
      BY <1>1, <1>3, <3>2, <3>3, <3>4 DEF TypeInv, disk, work
  <2> QED
    BY <2>1, <2>2
<1>14. CASE Await(s)
  <2>1. CASE journal = None
    BY <1>1, <1>3, <1>14, <2>1 DEF TypeInv, Await, Goto, memory, disk, work
  <2>2. CASE journal # None
    <3> DEFINE c == [n \in Note |-> IF n \in journal THEN objects[n] ELSE cache[s][n]]
    <3>1. cache[s] \in Index
      BY <1>14, HasIndex DEF Await
    <3>2. c \in Index
      BY <1>1, <3>1 DEF Index
    <3>3. /\ cache' = [cache EXCEPT ![s] = c] /\ holder' = s
          /\ pc' = [pc EXCEPT ![s] = "healSnapshot"]
          /\ UNCHANGED <<disk, op, todo, loading, stamp, gen, lines, writes, crashes, acked>>
      BY <1>14, <2>2 DEF Await, Goto
    <3> HIDE DEF c
    <3> QED
      BY <1>1, <1>3, <3>2, <3>3 DEF TypeInv, disk
  <2> QED
    BY <2>1, <2>2
<1>15. CASE Dispatch(s)
  <2>1. /\ UNCHANGED <<disk, loading, memory, writes, crashes, acked>>
        /\ (\E l \in {"begin", "snapshot"} : pc' = [pc EXCEPT ![s] = l] /\ UNCHANGED work) \/ Return(s)
    BY <1>15 DEF Dispatch, Goto
  <2>2. CASE Return(s)
    BY <1>1, <1>3, <1>4, <2>1, <2>2 DEF TypeInv, Return, Goto, Leave, memory, disk
  <2>3. CASE \E l \in {"begin", "snapshot"} : pc' = [pc EXCEPT ![s] = l] /\ UNCHANGED work
    BY <1>1, <1>3, <2>1, <2>3 DEF TypeInv, memory, disk, work
  <2> QED
    BY <2>1, <2>2, <2>3
<1>16. CASE BeginJournal(s)
  <2>1. CASE Rejects(s)
    BY <1>1, <1>3, <1>4, <1>16, <2>1 DEF TypeInv, BeginJournal, Return, Goto, Leave, memory
  <2>2. CASE ~Rejects(s)
    BY <1>1, <1>3, <1>16, <2>2 DEF TypeInv, BeginJournal, Goto, memory, work
  <2> QED
    BY <2>1, <2>2
<1>17. CASE Archive(s)
  <2>1. pc[s] = "archive" /\ op[s] \in Puts
    BY <1>17 DEF Archive, IInv, SessionInv, LockAt
  <2> DEFINE n == NextNote(s)
             a == [archive EXCEPT ![n] = archive[n] \cup {objects[n]}]
  <2>2. n \in Note
    BY <2>1, NextNoteFacts
  <2>3. objects[n] \in Entry
    BY <1>1, <2>2 DEF Index
  <2>4. a \in [Note -> SUBSET Entry] /\ \A m \in Note : IsFiniteSet(a[m])
    <3>1. archive[n] \cup {objects[n]} \in SUBSET Entry
      BY <1>1, <2>2, <2>3 DEF TypeInv
    <3>2. IsFiniteSet(archive[n] \cup {objects[n]})
      BY <1>1, <2>2, FS_AddElement DEF TypeInv
    <3> DEFINE b == archive[n] \cup {objects[n]}
    <3>3. b \in SUBSET Entry /\ IsFiniteSet(b) /\ a = [archive EXCEPT ![n] = b]
      BY <3>1, <3>2
    <3> HIDE DEF b, a, n
    <3> QED
      BY <1>1, <2>2, <3>3 DEF TypeInv
  <2>5. archive' \in {archive, a}
    BY <1>17 DEF Archive
  <2>6. \/ Return(s)
        \/ pc' = [pc EXCEPT ![s] = "object"] /\ UNCHANGED work
    BY <1>17 DEF Archive, Goto
  <2>7. UNCHANGED <<objects, snap, logf, journal, loading, memory, writes, crashes, acked>>
    BY <1>17 DEF Archive
  <2>8. archive' \in [Note -> SUBSET Entry] /\ \A m \in Note : IsFiniteSet(archive'[m])
    <3> HIDE DEF a
    <3> QED
      BY <1>1, <2>4, <2>5 DEF TypeInv
  <2> HIDE DEF a, n
  <2>9. CASE Return(s)
    BY <1>1, <1>3, <1>4, <2>7, <2>8, <2>9 DEF TypeInv, Return, Goto, Leave, memory
  <2>10. CASE pc' = [pc EXCEPT ![s] = "object"] /\ UNCHANGED work
    BY <1>1, <1>3, <2>7, <2>8, <2>10 DEF TypeInv, work, memory
  <2> QED
    BY <2>6, <2>9, <2>10
<1>18. CASE WriteObject(s)
  <2>1. pc[s] = "object" /\ op[s] \in Puts
    BY <1>18 DEF WriteObject, IInv, SessionInv, LockAt
  <2> DEFINE n == NextNote(s)
             new == [rev |-> NextRevision(s, n), ed |-> writes + 1]
             c == [cache[s] EXCEPT ![n] = new]
  <2>2. n \in Note
    BY <2>1, NextNoteFacts
  <2>3. new \in Entry
    <3>1. NextRevision(s, n) \in Nat /\ writes + 1 \in Nat
      BY <1>1, <2>1, <2>2, NewEntry DEF TypeInv
    <3> QED
      BY <3>1 DEF Entry
  <2>4. c \in Index
    <3> HIDE DEF new
    <3> QED
      BY <2>1, <2>2, <2>3, HasIndex DEF Index
  <2>5. PICK l \in {"commit", "snapshot", "archive"} : pc' = [pc EXCEPT ![s] = l]
    BY <1>18 DEF WriteObject, Goto
  <2>6. /\ objects' = [objects EXCEPT ![n] = new]
        /\ cache' = [cache EXCEPT ![s] = c]
        /\ writes' = writes + 1
        /\ todo' = [todo EXCEPT ![s] = IF op[s] = "putMany" THEN todo[s] \ {n} ELSE todo[s]]
        /\ UNCHANGED <<archive, snap, logf, journal, holder, op, loading, stamp, gen, lines, crashes, acked>>
    BY <1>18 DEF WriteObject
  <2> HIDE DEF n, new, c
  <2>7. objects' \in Index
    BY <1>1, <2>2, <2>3, <2>6 DEF Index
  <2>8. acked' \subseteq 1 .. writes'
    BY <1>1, <2>6 DEF TypeInv
  <2> QED
    BY <1>1, <1>3, <2>4, <2>5, <2>6, <2>7, <2>8 DEF TypeInv
<1>19. CASE Commit(s)
  <2>1. CASE lines[s] = 0 /\ lines[s] < CompactAfter
    <3> DEFINE new == [gen |-> gen[s], recs |-> << >>, torn |-> FALSE]
    <3>1. new \in Log
      BY <1>1 DEF TypeInv, Log
    <3>2. /\ logf' \in {logf, new} /\ lines' \in {lines, [lines EXCEPT ![s] = 1]}
          /\ \E l \in {"snapshot", "append"} : pc' = [pc EXCEPT ![s] = l]
          /\ UNCHANGED <<objects, archive, snap, journal, work, loading, cache, stamp, gen, writes, crashes, acked>>
      BY <1>19, <2>1 DEF Commit, Goto
    <3> HIDE DEF new
    <3> QED
      BY <1>1, <1>3, <3>1, <3>2 DEF TypeInv, work
  <2>2. CASE ~(lines[s] = 0 /\ lines[s] < CompactAfter)
    <3>1. /\ UNCHANGED <<logf, lines>>
          /\ \E l \in {"snapshot", "append"} : pc' = [pc EXCEPT ![s] = l]
          /\ UNCHANGED <<objects, archive, snap, journal, work, loading, cache, stamp, gen, writes, crashes, acked>>
      BY <1>1, <1>19, <2>2, ConstantsOK DEF Commit, Goto, TypeInv
    <3> QED
      BY <1>1, <1>3, <3>1 DEF TypeInv, work
  <2> QED
    BY <2>1, <2>2
<1>20. CASE AppendRecord(s)
  <2>1. pc[s] = "append" /\ op[s] \in Puts
    BY <1>20 DEF AppendRecord, IInv, SessionInv, LockAt
  <2> DEFINE n == NextNote(s)
             r == [note |-> n, entry |-> cache[s][n],
                   sealed |-> ~logf.torn /\ logf.gen = gen[s] /\ Len(logf.recs) + 1 = lines[s]]
  <2>2. n \in Note
    BY <2>1, NextNoteFacts
  <2>3. logf' \in Log
    <3>1. CASE logf = None
      BY <1>20, <3>1 DEF AppendRecord, Appended, Log
    <3>2. CASE logf # None
      <4>1. cache[s][n] \in Entry
        BY <2>1, <2>2, HasIndex DEF Index
      <4>2. r \in Line
        BY <2>2, <4>1 DEF Line
      <4>3. logf \in Log
        BY <1>1, <3>2 DEF TypeInv
      <4>4. logf' = [logf EXCEPT !.torn = FALSE, !.recs = Append(logf.recs, r)]
        BY <1>20, <3>2 DEF AppendRecord, Appended
      <4> HIDE DEF r, n
      <4>5. Append(logf.recs, r) \in Seq(Line)
        BY <4>2, <4>3 DEF Log
      <4> QED
        BY <4>3, <4>4, <4>5 DEF Log
    <3> QED
      BY <3>1, <3>2
  <2>4. /\ lines' = [lines EXCEPT ![s] = lines[s] + 1] /\ pc' = [pc EXCEPT ![s] = "end"]
        /\ UNCHANGED <<objects, archive, snap, journal, work, loading, cache, stamp, gen, writes, crashes, acked>>
    BY <1>20 DEF AppendRecord, Goto
  <2> QED
    BY <1>1, <1>3, <2>3, <2>4 DEF TypeInv, work
<1>21. CASE WriteSnapshot(s)
  <2> DEFINE new == [gen |-> gen[s] + 1, map |-> cache[s], stamp |-> snap.stamp + 1]
  <2>1. cache[s] \in Index /\ snap.stamp \in Nat /\ gen[s] \in Nat
    BY <1>1, <1>21, HasIndex DEF WriteSnapshot, TypeInv, Snapshot
  <2>2. new \in Snapshot
    BY <2>1 DEF Snapshot
  <2>3. /\ snap' = new /\ gen' = [gen EXCEPT ![s] = gen[s] + 1]
        /\ \E l \in {"dropLog", "healDrop"} : pc' = [pc EXCEPT ![s] = l]
        /\ UNCHANGED <<objects, archive, logf, journal, work, loading, cache, stamp, lines, writes, crashes, acked>>
    BY <1>21 DEF WriteSnapshot, Goto
  <2> HIDE DEF new
  <2> QED
    BY <1>1, <1>3, <2>2, <2>3 DEF TypeInv, work
<1>22. CASE DropLog(s)
  <2>1. /\ logf' = None
        /\ \/ Return(s) /\ Forget(s)
           \/ /\ lines' = [lines EXCEPT ![s] = 0]
              /\ stamp' = [stamp EXCEPT ![s] = snap.stamp]
              /\ UNCHANGED <<cache, gen>>
              /\ \/ Return(s)
                 \/ (\E l \in {"healEnd", "end"} : pc' = [pc EXCEPT ![s] = l]) /\ UNCHANGED work
        /\ UNCHANGED <<objects, archive, snap, journal, loading, writes, crashes, acked>>
    BY <1>22 DEF DropLog, Goto
  <2>2. snap.stamp \in Nat
    BY <1>1 DEF TypeInv, Snapshot
  <2>3. CASE Return(s)
    BY <1>1, <1>3, <1>4, <2>1, <2>2, <2>3 DEF TypeInv, Return, Goto, Leave, Forget
  <2>4. CASE (\E l \in {"healEnd", "end"} : pc' = [pc EXCEPT ![s] = l]) /\ UNCHANGED work
             /\ lines' = [lines EXCEPT ![s] = 0] /\ stamp' = [stamp EXCEPT ![s] = snap.stamp]
             /\ UNCHANGED <<cache, gen>>
    BY <1>1, <1>3, <2>1, <2>2, <2>4 DEF TypeInv, work
  <2> QED
    BY <2>1, <2>3, <2>4
<1>23. CASE EndWrite(s)
  <2>1. acked' \subseteq 1 .. writes
    <3> DEFINE N == IF op[s] = "put" THEN todo[s] ELSE Note
    <3>1. pc[s] = "end" /\ op[s] \in Puts /\ LockAt(s) /\ WrittenAt(s)
      BY <1>23 DEF EndWrite, IInv, SessionInv, LockAt, HistoryInv
    <3>2. N \subseteq Note
      BY <1>1 DEF TypeInv
    <3>3. op[s] # "remove" => \A n \in N : objects[n].rev > 0
      <4>1. op[s] = "putMany" => todo[s] = {}
        BY <3>1 DEF LockAt
      <4> QED
        BY <3>1, <4>1 DEF WrittenAt, Puts
    <3>4. op[s] # "remove" => \A n \in N : objects[n].ed \in 1 .. writes
      <4> HIDE DEF N
      <4> SUFFICES ASSUME NEW n \in N, op[s] # "remove" PROVE objects[n].ed \in 1 .. writes
        OBVIOUS
      <4>1. n \in Note /\ objects[n].rev > 0
        BY <3>2, <3>3
      <4>2. objects[n].ed > 0 /\ objects[n].ed <= writes
        BY <4>1 DEF IInv, HistoryInv, Numbered, DiskInv
      <4>3. objects[n].ed \in Nat /\ writes \in Nat
        BY <1>1, <4>1 DEF TypeInv, Index, Entry
      <4> QED
        BY <4>2, <4>3
    <3>5. acked' = IF op[s] = "remove" THEN acked ELSE acked \cup {objects[n].ed : n \in N}
      BY <1>23 DEF EndWrite
    <3> HIDE DEF N
    <3> QED
      BY <1>1, <3>4, <3>5 DEF TypeInv
  <2>2. /\ journal' = None /\ Return(s)
        /\ UNCHANGED <<objects, archive, snap, logf, loading, cache, stamp, gen, lines, writes, crashes>>
    BY <1>23 DEF EndWrite, memory
  <2> QED
    BY <1>1, <1>3, <1>4, <2>1, <2>2 DEF TypeInv, Return, Goto, Leave
<1>24. CASE EndRecovery(s)
  <2>1. /\ journal' = None /\ holder' \in {holder, None} /\ pc' = [pc EXCEPT ![s] = "loaded"]
        /\ UNCHANGED <<objects, archive, snap, logf, op, todo, loading, cache, stamp, gen, lines,
                       writes, crashes, acked>>
    BY <1>24 DEF EndRecovery, Goto, Leave, memory
  <2> QED
    BY <1>1, <1>3, <2>1 DEF TypeInv
<1>25. CASE Quit(s)
  BY <1>1, <1>3, <1>25 DEF TypeInv, Quit, Forget, disk, work
<1>26. CASE Crash(s)
  <2>1. logf' \in Log \cup {None}
    <3>1. [gen |-> 0, recs |-> << >>, torn |-> TRUE] \in Log
      BY DEF Log
    <3>2. logf # None => [logf EXCEPT !.torn = TRUE] \in Log
      BY <1>1 DEF TypeInv, Log
    <3>3. logf \in Log \cup {None}
      BY <1>1 DEF TypeInv
    <3> QED
      BY <1>26, <3>1, <3>2, <3>3 DEF Crash
  <2> QED
    BY <1>1, <1>3, <1>4, <1>26, <2>1 DEF TypeInv, Crash, Return, Goto, Leave, Forget
<1> QED
  BY <1>7, <1>8, <1>9, <1>11, <1>12, <1>13, <1>14, <1>15, <1>16, <1>17, <1>18, <1>19, <1>20,
     <1>21, <1>22, <1>23, <1>24, <1>25, <1>26 DEF Step
-----------------------------------------------------------------------------
(* Steps that leave the disk as it is. *)

\* What the steps of one session leave alone.
Apart(s) ==
  \A t \in Session \ {s} :
    /\ pc'[t] = pc[t] /\ op'[t] = op[t] /\ todo'[t] = todo[t] /\ loading'[t] = loading[t]
    /\ cache'[t] = cache[t] /\ stamp'[t] = stamp[t] /\ gen'[t] = gen[t] /\ lines'[t] = lines[t]

DiskStays == UNCHANGED <<objects, archive, snap, logf, journal, writes, acked>>

\* No index in memory goes back in time.
Forward(s) == cache[s] # None /\ cache'[s] # None => NotNewer(cache[s], cache'[s])
Advances == \A s \in Session : Forward(s)

\* Reading the disk gives what it gave.
LEMMA DiskReads ==
  ASSUME logf' = logf, snap' = snap
  PROVE  /\ \A g : LinesFor(g)' = LinesFor(g)
         /\ \A k : Prefix(k)' = Prefix(k)
         /\ \A g, k : RecordsFrom(g, k)' = RecordsFrom(g, k)
         /\ DiskIndex' = DiskIndex
<1>2. \A g : LinesFor(g)' = LinesFor(g)
  BY DEF LinesFor
<1>3. \A k : Prefix(k)' = Prefix(k)
  BY DEF Prefix
<1>4. \A g, k : RecordsFrom(g, k)' = RecordsFrom(g, k)
  BY <1>2 DEF RecordsFrom
<1>5. DiskIndex' = DiskIndex
  BY <1>4 DEF DiskIndex
<1> QED
  BY <1>2, <1>3, <1>4, <1>5

\* Nobody's index goes back when only one changes, and it does not.
LEMMA OnlyForward ==
  ASSUME TypeInv, NEW s \in Session, Apart(s), Forward(s)
  PROVE  Advances
<1> SUFFICES ASSUME NEW t \in Session \ {s}, cache[t] # None, cache'[t] # None
             PROVE  NotNewer(cache[t], cache'[t])
  BY DEF Advances, Forward
<1>1. cache'[t] = cache[t] /\ cache[t] \in Index
  BY DEF Apart, TypeInv
<1> QED
  BY <1>1 DEF NotNewer, Index, Entry

\* A session that another one's step does not touch.
LEMMA Untouched ==
  ASSUME TypeInv, NEW s \in Session, NEW t \in Session \ {s}, SessionInv(t), DiskStays, Apart(s),
         holder' = t <=> holder = t,
         op[t] = "close" => pc'[s] = "idle",
         pc[t] \in Healing => Waits(s)'
  PROVE  SessionInv(t)'
<1>1. /\ pc'[t] = pc[t] /\ op'[t] = op[t] /\ todo'[t] = todo[t] /\ loading'[t] = loading[t]
      /\ cache'[t] = cache[t] /\ stamp'[t] = stamp[t] /\ gen'[t] = gen[t] /\ lines'[t] = lines[t]
      /\ \A u \in Session \ {s} : pc'[u] = pc[u] /\ cache'[u] = cache[u]
  BY DEF Apart
<1>2. /\ objects' = objects /\ snap' = snap /\ logf' = logf /\ journal' = journal
  BY DEF DiskStays
<1>3. /\ \A g : LinesFor(g)' = LinesFor(g)
      /\ \A k : Prefix(k)' = Prefix(k)
      /\ DiskIndex' = DiskIndex
  BY <1>2, DiskReads
<1>4. LinesFor(snap.gen)' = LinesFor(snap.gen)
  BY <1>2 DEF LinesFor
<1>5. Exclusive(t)' <=> Exclusive(t)
  BY <1>1 DEF Exclusive, Active
<1>6. LockAt(t)'
  <2>1. Writing(t)' <=> Writing(t)
    BY <1>1 DEF Writing
  <2>2. op[t] = "close" => \A u \in Session \ {t} : pc'[u] = "idle"
    BY <1>1 DEF SessionInv, LockAt
  <2> QED
    BY <1>1, <2>1, <2>2 DEF SessionInv, LockAt
<1>7. JournalAt(t)'
  <2>1. pc[t] \in Healing => \A u \in Session \ {t} : Waits(u)'
    <3> SUFFICES ASSUME pc[t] \in Healing, NEW u \in Session \ {t}, u # s PROVE Waits(u)'
      OBVIOUS
    <3>1. Waits(u)
      BY DEF SessionInv, JournalAt
    <3> QED
      BY <1>1, <3>1 DEF Waits
  <2> QED
    BY <1>1, <1>2, <2>1 DEF SessionInv, JournalAt
<1>8. ReadyAt(t)'
  <2>1. Bound(t)' <=> Bound(t)
    BY <1>1, <1>2, <1>4 DEF Bound
  <2> QED
    BY <1>1, <1>2, <1>3, <1>4, <1>5, <2>1 DEF SessionInv, ReadyAt
<1>9. MemoryAt(t)'
  <2>1. Prefix(lines[t])' = Prefix(lines[t])
    BY <1>1, <1>2 DEF Prefix
  <2>2. Remembers(t)' <=> Remembers(t)
    BY <1>1, <1>2, <1>4, <2>1 DEF Remembers, NotNewer
  <2> QED
    BY <1>1, <1>2, <1>5, <2>2 DEF SessionInv, MemoryAt
<1>10. LoadingAt(t)'
  <2>1. RecordsAbove(loading[t].map)' <=> RecordsAbove(loading[t].map)
    BY <1>1, <1>2 DEF RecordsAbove
  <2> QED
    BY <1>1, <1>2, <2>1 DEF SessionInv, LoadingAt, NotNewer
<1> QED
  BY <1>6, <1>7, <1>8, <1>9, <1>10 DEF SessionInv

\* A step of one session that changes nothing on disk keeps the invariant if it keeps the
\* session's part of it.
LEMMA Quiet ==
  ASSUME IInv, TypeInv', NEW s \in Session, DiskStays, Apart(s), SessionInv(s)', Forward(s),
         holder' \in {holder, s, None}, holder' # holder => holder \in {None, s},
         holder' = s => pc'[s] # "idle",
         pc'[s] # "object", WrittenAt(s)',
         journal # None /\ Leftover =>
           Active(s)' \/ (/\ Waits(s)' /\ (cache'[s] # None => Bound(s)' /\ cache'[s] = DiskIndex)
                          /\ (loading'[s] # None => loading'[s] = snap)),
         journal # None /\ Active(s) => Active(s)',
         logf # None /\ logf.torn => pc'[s] \in Loading \cup {"healSnapshot", "healDrop"},
         \A t \in Session \ {s} : op[t] = "close" => pc'[s] = "idle",
         \A t \in Session \ {s} : pc[t] \in Healing => Waits(s)'
  PROVE  IInv' /\ Advances
<1>1. TypeInv /\ DiskInv /\ HistoryInv /\ JournalInv /\ (holder # None => Busy(holder))
      /\ \A t \in Session : SessionInv(t)
  BY DEF IInv
<1>2. /\ objects' = objects /\ archive' = archive /\ snap' = snap /\ logf' = logf
      /\ journal' = journal /\ writes' = writes /\ acked' = acked
  BY DEF DiskStays
<1>3. \A t \in Session \ {s} :
        /\ pc'[t] = pc[t] /\ op'[t] = op[t] /\ todo'[t] = todo[t] /\ loading'[t] = loading[t]
        /\ cache'[t] = cache[t] /\ stamp'[t] = stamp[t] /\ gen'[t] = gen[t] /\ lines'[t] = lines[t]
  BY DEF Apart
<1>4. DiskIndex' = DiskIndex /\ LinesFor(snap.gen)' = LinesFor(snap.gen)
  BY <1>2, DiskReads DEF LinesFor
<1>5. \A t \in Session : SessionInv(t)'
  <2> SUFFICES ASSUME NEW t \in Session, t # s PROVE SessionInv(t)'
    OBVIOUS
  <2>1. holder' = t <=> holder = t
    BY <1>1, ConstantsOK DEF TypeInv
  <2> QED
    BY <1>1, <2>1, Untouched
<1>6. DiskInv'
  <2>1. LogInv'
    <3>1. logf # None /\ logf.torn => \A t \in Session : pc'[t] \in Loading \cup {"healSnapshot", "healDrop"}
      <4> SUFFICES ASSUME logf # None, logf.torn, NEW t \in Session, t # s
                   PROVE  pc'[t] \in Loading \cup {"healSnapshot", "healDrop"}
        OBVIOUS
      <4> QED
        BY <1>1, <1>3 DEF DiskInv, LogInv
    <3>2. \A map : (RecordsAbove(map)' <=> RecordsAbove(map)) /\ (RecordsBelow(map)' <=> RecordsBelow(map))
      BY <1>2 DEF RecordsAbove, RecordsBelow
    <3>3. RecordsBelow(IF logf.gen = snap.gen THEN objects ELSE snap.map)'
            <=> RecordsBelow(IF logf.gen = snap.gen THEN objects ELSE snap.map)
      BY <1>2 DEF RecordsBelow
    <3>4. RecordsAbove(snap.map)' <=> RecordsAbove(snap.map)
      BY <1>2 DEF RecordsAbove
    <3>5. LogInv
      BY <1>1 DEF DiskInv
    <3> QED
      BY <1>2, <3>1, <3>3, <3>4, <3>5 DEF LogInv
  <2>2. JournalCoversStale'
    BY <1>1, <1>2, <1>4 DEF DiskInv, JournalCoversStale
  <2> QED
    BY <1>1, <1>2, <2>1, <2>2 DEF DiskInv, NotNewer
<1>7. HistoryInv'
  <2>1. \A t \in Session : WrittenAt(t)'
    <3> SUFFICES ASSUME NEW t \in Session, t # s PROVE WrittenAt(t)'
      OBVIOUS
    <3>1. WrittenAt(t)
      BY <1>1 DEF HistoryInv
    <3>2. NextNote(t)' = NextNote(t)
      BY <1>3 DEF NextNote
    <3> QED
      BY <1>2, <1>3, <3>1, <3>2 DEF WrittenAt
  <2> QED
    BY <1>1, <1>2, <2>1 DEF HistoryInv, NothingLost, Numbered
<1>8. JournalInv'
  <2> SUFFICES ASSUME journal # None PROVE Leftover' \/ \E t \in Session : Active(t)'
    BY <1>2 DEF JournalInv
  <2>1. CASE \E t \in Session : Active(t)
    <3>1. PICK t \in Session : Active(t)
      BY <2>1
    <3>2. Active(t)'
      BY <1>3, <3>1 DEF Active
    <3> QED
      BY <3>2
  <2>2. CASE Leftover /\ Active(s)'
    BY <2>2
  <2>3. CASE Leftover /\ ~Active(s)'
    <3> SUFFICES ASSUME NEW t \in Session
                 PROVE  /\ Waits(t)'
                        /\ cache'[t] # None => Bound(t)' /\ cache'[t] = DiskIndex'
                        /\ loading'[t] # None => loading'[t] = snap'
      BY DEF Leftover
    <3>1. CASE t = s
      BY <1>2, <1>4, <2>3, <3>1
    <3>2. CASE t # s
      <4>1. Waits(t)' <=> Waits(t)
        BY <1>3, <3>2 DEF Waits
      <4>2. Bound(t)' <=> Bound(t)
        BY <1>2, <1>3, <1>4, <3>2 DEF Bound
      <4> QED
        BY <1>2, <1>3, <1>4, <2>3, <3>2, <4>1, <4>2 DEF Leftover
    <3> QED
      BY <3>1, <3>2
  <2> QED
    BY <1>1, <2>1, <2>2, <2>3 DEF JournalInv
<1>9. holder' # None => Busy(holder)'
  <2>1. CASE holder' = s
    BY <2>1 DEF Busy
  <2>2. CASE holder' = holder /\ holder # s /\ holder # None
    <3>1. holder \in Session \ {s} /\ Busy(holder)
      BY <1>1, <2>2 DEF TypeInv
    <3> QED
      BY <1>3, <2>2, <3>1 DEF Busy
  <2> QED
    BY <2>1, <2>2
<1>10. Advances
  BY <1>1, OnlyForward
<1> QED
  BY <1>5, <1>6, <1>7, <1>8, <1>9, <1>10 DEF IInv

\* A session that remembers goes on remembering while the disk stays.
LEMMA StillRemembers ==
  ASSUME NEW s \in Session, Remembers(s), snap' = snap, logf' = logf, objects' = objects,
         cache'[s] = cache[s],
         stamp'[s] = stamp[s], gen'[s] = gen[s], lines'[s] = lines[s]
  PROVE  Remembers(s)'
<1>1. Prefix(lines[s])' = Prefix(lines[s]) /\ LinesFor(snap.gen)' = LinesFor(snap.gen)
  BY DEF Prefix, LinesFor
<1> QED
  BY <1>1 DEF Remembers, NotNewer

\* A session that repairs the index has the others wait, and one that writes has it to itself.
LEMMA Guarded ==
  ASSUME IInv, NEW s \in Session, Busy(s)
  PROVE  /\ \A t \in Session \ {s} : op[t] # "close"
         /\ \A t \in Session \ {s} : pc[t] \in Healing => Waits(s) /\ journal # None /\ ~Writing(s)
<1>1. \A t \in Session : LockAt(t) /\ JournalAt(t)
  BY DEF IInv, SessionInv
<1>2. \A t \in Session \ {s} : op[t] # "close"
  BY <1>1 DEF LockAt, Busy
<1>3. ASSUME NEW t \in Session \ {s}, pc[t] \in Healing
      PROVE  Waits(s) /\ journal # None /\ ~Writing(s)
  <2>1. holder = t /\ holder # s
    BY <1>1, <1>3 DEF LockAt
  <2> QED
    BY <1>1, <1>3, <2>1 DEF LockAt, JournalAt
<1> QED
  BY <1>2, <1>3

\* At rest a session has nothing to hold, and what it remembers or nothing.
LEMMA AtRest ==
  ASSUME NEW s \in Session, pc'[s] = "idle", op'[s] = "read", loading'[s] = None, holder' # s,
         cache'[s] = None \/ Remembers(s)'
  PROVE  SessionInv(s)' /\ WrittenAt(s)'
<1>1. ~Exclusive(s)' /\ ~Writing(s)'
  BY DEF Exclusive, Active, Writes, Healing, Writing
<1>2. LockAt(s)'
  BY <1>1 DEF LockAt, Healing
<1>3. JournalAt(s)'
  BY DEF JournalAt, Healing, Puts
<1>4. ReadyAt(s)' /\ MemoryAt(s)'
  BY <1>1 DEF ReadyAt, MemoryAt
<1>5. LoadingAt(s)'
  BY DEF LoadingAt
<1>6. WrittenAt(s)'
  BY DEF WrittenAt
<1> QED
  BY <1>2, <1>3, <1>4, <1>5, <1>6 DEF SessionInv

\* Coming to rest with what the session remembers, or with nothing.
LEMMA Rest ==
  ASSUME IInv, TypeInv', NEW s \in Session, DiskStays, Apart(s),
         pc'[s] = "idle", op'[s] = "read", loading'[s] = None,
         holder' = IF holder = s THEN None ELSE holder,
         \/ cache'[s] = None
         \/ /\ cache'[s] = cache[s] /\ stamp'[s] = stamp[s] /\ gen'[s] = gen[s] /\ lines'[s] = lines[s]
            /\ Remembers(s) /\ (Waits(s) => cache[s] = None),
         journal = None \/ ~Active(s)
  PROVE  IInv' /\ Advances
<1>1. TypeInv /\ JournalAt(s) /\ LockAt(s)
  BY DEF IInv, SessionInv
<1>2. holder' # s /\ holder' \in {holder, None}
  BY ConstantsOK
<1>3. ~Active(s)'
  BY DEF Active, Writes, Healing
<1>4. cache'[s] = None \/ Remembers(s)'
  BY StillRemembers DEF DiskStays
<1>5. SessionInv(s)' /\ WrittenAt(s)'
  BY <1>2, <1>4, AtRest
<1>6. Forward(s)
  <2>1. cache[s] \in Index \cup {None}
    BY <1>1 DEF TypeInv
  <2> QED
    BY <2>1 DEF Forward, NotNewer, Index, Entry
<1>8. Waits(s) => Waits(s)' /\ cache'[s] = None
  BY DEF Waits, Loading
<1>9. Leftover => Waits(s)
  BY DEF Leftover
<1>10. \A t \in Session \ {s} : pc[t] \in Healing => Waits(s)
  BY DEF IInv, SessionInv, JournalAt
<1>11. "idle" \in Loading
  BY DEF Loading
<1> QED
  BY <1>2, <1>3, <1>5, <1>6, <1>8, <1>9, <1>10, <1>11, Quiet

\* Nobody who has the index meets a line cut short.
LEMMA NotTorn ==
  ASSUME IInv, NEW s \in Session, ~Waits(s), pc[s] \notin {"healSnapshot", "healDrop"}
  PROVE  ~(logf # None /\ logf.torn)
<1> SUFFICES ASSUME logf # None, logf.torn PROVE FALSE
  OBVIOUS
<1>1. journal # None /\ \A t \in Session : pc[t] \in Loading \cup {"healSnapshot", "healDrop"}
  BY DEF IInv, DiskInv, LogInv
<1>2. ~Leftover
  BY DEF Leftover
<1>3. PICK t \in Session : Active(t)
  BY <1>1, <1>2 DEF IInv, JournalInv
<1>4. pc[t] \in Healing /\ t # s
  BY <1>1, <1>3 DEF Active, Writes, Healing, Loading
<1> QED
  BY <1>4 DEF IInv, SessionInv, JournalAt

LEMMA BeginKeeps ==
  ASSUME NothingOverlaps, IInv, TypeInv', NEW s \in Session,
         NEW kind \in Kinds, NEW notes \in SUBSET Note, Begin(s, kind, notes),
         kind \in {"put", "remove"} => \E n \in Note : notes = {n},
         kind = "putMany" => notes = Note,
         IF kind \in {"read", "close"} THEN holder' = holder ELSE holder = None /\ holder' = s,
         kind = "close" => cache[s] # None
  PROVE  IInv' /\ Advances
<1>1. TypeInv /\ LockAt(s) /\ MemoryAt(s) /\ LoadingAt(s)
  BY DEF IInv, SessionInv
<1>2. /\ pc[s] = "idle" /\ pc' = [pc EXCEPT ![s] = "load"] /\ op' = [op EXCEPT ![s] = kind]
      /\ todo' = [todo EXCEPT ![s] = notes]
      /\ UNCHANGED <<disk, loading, memory, writes, crashes, acked>>
  BY DEF Begin, Busy, Goto
<1>3. \A t \in Session \ {s} : pc[t] # "idle" => op[t] # "close" /\ kind # "close"
  BY DEF Begin, MayStart, Busy, NothingOverlaps, LocksAlone
<1>4. DiskStays /\ Apart(s) /\ pc'[s] = "load" /\ op'[s] = kind /\ todo'[s] = notes
  BY <1>1, <1>2 DEF DiskStays, Apart, TypeInv, disk, memory
<1>5. /\ cache'[s] = cache[s] /\ stamp'[s] = stamp[s] /\ gen'[s] = gen[s] /\ lines'[s] = lines[s]
      /\ loading'[s] = loading[s] /\ loading[s] = None /\ \A t \in Session \ {s} : pc'[t] = pc[t]
  BY <1>1, <1>2, <1>4 DEF memory, LoadingAt, Apart
<1>6. LockAt(s)'
  <2>1. holder # s
    BY <1>1, <1>2 DEF LockAt, Writing, Healing
  <2>2. Writing(s)' <=> kind \notin {"read", "close"}
    BY <1>4 DEF Writing, Kinds
  <2>3. Writing(s)' <=> holder' = s
    BY <2>1, <2>2
  <2>4. kind = "close" => \A t \in Session \ {s} : pc'[t] = "idle"
    BY <1>3, <1>5
  <2>5. kind = "putMany" => notes # {}
    BY ConstantsOK
  <2> QED
    BY <1>4, <2>3, <2>4, <2>5 DEF LockAt, Healing
<1>7. kind = "close" => journal = None
  <2> SUFFICES ASSUME kind = "close" PROVE journal = None
    OBVIOUS
  <2>1. ~Leftover
    BY <1>2 DEF Leftover, Waits
  <2>2. \A t \in Session : ~Active(t)
    <3>1. \A t \in Session : pc[t] = "idle"
      BY <1>2, <1>3
    <3> QED
      BY <3>1 DEF Active, Writes, Healing
  <2> QED
    BY <2>1, <2>2 DEF IInv, JournalInv
<1>8. JournalAt(s)' /\ ReadyAt(s)' /\ LoadingAt(s)'
  <2>1. journal' = journal
    BY <1>4 DEF DiskStays
  <2> QED
    BY <1>4, <1>5, <1>7, <2>1 DEF JournalAt, ReadyAt, LoadingAt, Exclusive, Active, Writes, Healing
<1>9. MemoryAt(s)'
  <2>1. ~Exclusive(s)
    BY <1>2 DEF Exclusive, Active, Writes, Healing
  <2> QED
    BY <1>1, <1>4, <1>5, <2>1, StillRemembers DEF MemoryAt, DiskStays
<1>10. Forward(s)
  <2>1. cache[s] \in Index \cup {None}
    BY <1>1 DEF TypeInv
  <2> QED
    BY <1>5, <2>1 DEF Forward, NotNewer, Index, Entry
<1>11. WrittenAt(s)'
  BY <1>4 DEF WrittenAt
<1>12. Waits(s) => Waits(s)' /\ cache'[s] = None
  BY <1>2, <1>4, <1>5 DEF Waits, Loading
<1>13. Leftover => Waits(s)
  BY DEF Leftover
<1>14. \A t \in Session \ {s} : pc[t] \in Healing => Waits(s)
  BY DEF IInv, SessionInv, JournalAt
<1>15. \A t \in Session \ {s} : op[t] # "close"
  BY <1>3 DEF IInv, SessionInv, LockAt
<1>16. "load" \in Loading /\ ~Active(s)
  BY <1>2 DEF Loading, Active, Writes, Healing
<1> QED
  BY <1>4, <1>5, <1>6, <1>8, <1>9, <1>10, <1>11, <1>12, <1>13, <1>14, <1>15, <1>16, Quiet
     DEF SessionInv

LEMMA BeginsKeep ==
  ASSUME NothingOverlaps, IInv, TypeInv', NEW s \in Session,
         BeginWrite(s) \/ BeginRead(s) \/ BeginClose(s)
  PROVE  IInv' /\ Advances
<1>1. CASE BeginWrite(s)
  <2>1. PICK kind \in {"put", "remove", "putMany", "compact"}, notes \in SUBSET Note :
          /\ Begin(s, kind, notes)
          /\ kind \in {"put", "remove"} => \E n \in Note : notes = {n}
          /\ kind = "putMany" => notes = Note
    <3>1. CASE \E n \in Note, kind \in {"put", "remove"} : Begin(s, kind, {n})
      <4>1. PICK n \in Note, kind \in {"put", "remove"} : Begin(s, kind, {n})
        BY <3>1
      <4>2. {n} \in SUBSET Note /\ kind \in {"put", "remove", "putMany", "compact"} /\ kind # "putMany"
        OBVIOUS
      <4> QED
        BY <4>1, <4>2
    <3>2. CASE Begin(s, "putMany", Note)
      <4>1. Note \in SUBSET Note
        OBVIOUS
      <4> QED
        BY <3>2, <4>1
    <3>3. CASE Begin(s, "compact", {})
      <4>1. {} \in SUBSET Note
        OBVIOUS
      <4> QED
        BY <3>3, <4>1
    <3> QED
      BY <1>1, <3>1, <3>2, <3>3 DEF BeginWrite
  <2>2. kind \in Kinds /\ holder = None /\ holder' = s /\ kind # "read" /\ kind # "close"
    BY <1>1 DEF BeginWrite, Kinds
  <2> QED
    BY <2>1, <2>2, BeginKeeps
<1>2. CASE BeginRead(s)
  <2>1. "read" \in Kinds /\ {} \in SUBSET Note
    BY DEF Kinds
  <2> QED
    BY <1>2, <2>1, BeginKeeps DEF BeginRead
<1>3. CASE BeginClose(s)
  <2>1. "close" \in Kinds /\ {} \in SUBSET Note
    BY DEF Kinds
  <2> QED
    BY <1>3, <2>1, BeginKeeps DEF BeginClose
<1> QED
  BY <1>1, <1>2, <1>3

\* A process that quits.
LEMMA QuitKeeps ==
  ASSUME IInv, TypeInv', NEW s \in Session, Quit(s)
  PROVE  IInv' /\ Advances
<1>1. TypeInv /\ LockAt(s) /\ LoadingAt(s)
  BY DEF IInv, SessionInv
<1>2. /\ pc[s] = "idle" /\ cache' = [cache EXCEPT ![s] = None]
      /\ stamp' = [stamp EXCEPT ![s] = 0] /\ gen' = [gen EXCEPT ![s] = 0]
      /\ lines' = [lines EXCEPT ![s] = 0]
      /\ UNCHANGED <<disk, work, pc, loading, writes, crashes, acked>>
  BY DEF Quit, Busy, Forget
<1>3. DiskStays /\ Apart(s) /\ cache'[s] = None /\ pc'[s] = "idle" /\ op'[s] = op[s] /\ holder' = holder
      /\ loading' = loading
  BY <1>1, <1>2 DEF DiskStays, Apart, TypeInv, disk, work
<1>4. op[s] = "read" /\ loading[s] = None /\ holder # s
  BY <1>1, <1>2 DEF LockAt, LoadingAt, Writing, Healing
<1>5. ~Active(s)
  BY <1>2 DEF Active, Writes, Healing
<1> QED
  BY <1>3, <1>4, <1>5, Rest

\* A session that goes on reading the index.
LEMMA ReadsOn ==
  ASSUME IInv, TypeInv', NEW s \in Session, DiskStays, Apart(s), UNCHANGED work,
         pc[s] \in {"load", "reload", "readLog", "await"},
         pc'[s] \in {"reload", "readLog", "await", "loaded"},
         LoadingAt(s)', Forward(s),
         cache'[s] # None => Remembers(s)' /\ (pc'[s] = "reload" => stamp'[s] < snap.stamp),
         pc'[s] \in {"await", "loaded"} => cache'[s] # None,
         pc'[s] = "loaded" /\ op[s] # "read" => journal = None /\ cache'[s] = objects /\ Bound(s)',
         pc'[s] = "await" /\ op[s] # "read" => journal # None,
         journal # None /\ Waits(s) => Waits(s)',
         journal # None /\ Leftover =>
           /\ cache'[s] # None => Bound(s)' /\ cache'[s] = DiskIndex
           /\ loading'[s] # None => loading'[s] = snap
  PROVE  IInv' /\ Advances
<1>1. TypeInv /\ LockAt(s) /\ JournalAt(s)
  BY DEF IInv, SessionInv
<1>2. holder' = holder /\ op'[s] = op[s] /\ todo'[s] = todo[s]
  BY DEF work
<1>3. journal' = journal /\ objects' = objects /\ snap' = snap
  BY DEF DiskStays
<1>4. \A t \in Session \ {s} : pc'[t] = pc[t]
  BY DEF Apart
<1>5. Busy(s) /\ ~Active(s) /\ ~Active(s)' /\ pc'[s] # "idle" /\ pc[s] \notin Healing /\ pc'[s] \notin Healing
  BY DEF Busy, Active, Writes, Healing
<1>6. Exclusive(s)' <=> pc'[s] = "loaded" /\ op[s] # "read"
  BY <1>2, <1>5 DEF Exclusive
<1>7. LockAt(s)'
  <2>1. Writing(s)' <=> Writing(s)
    BY <1>2 DEF Writing
  <2>2. op[s] = "close" => \A t \in Session \ {s} : pc'[t] = "idle"
    BY <1>1, <1>4 DEF LockAt
  <2>3. Writing(s) <=> holder = s
    BY <1>1, <1>5 DEF LockAt
  <2>4. op[s] \in {"put", "remove"} => \E n \in Note : todo[s] = {n}
    BY <1>1 DEF LockAt
  <2>5. op[s] = "putMany" => todo[s] # {}
    BY <1>1 DEF LockAt
  <2> QED
    BY <1>2, <1>5, <2>1, <2>2, <2>3, <2>4, <2>5 DEF LockAt
<1>8. JournalAt(s)'
  <2>1. op[s] = "close" => journal = None
    BY <1>1 DEF JournalAt
  <2> QED
    BY <1>2, <1>3, <1>5, <2>1 DEF JournalAt, Writes
<1>9. ReadyAt(s)'
  <2>1. Exclusive(s)' => Bound(s)' /\ cache'[s] = objects
    BY <1>6
  <2>2. Bound(s)' => gen'[s] = snap.gen
    BY <1>3 DEF Bound
  <2> QED
    BY <1>3, <2>1, <2>2 DEF ReadyAt
<1>10. MemoryAt(s)'
  BY <1>3 DEF MemoryAt
<1>11. WrittenAt(s)'
  <2>1. WrittenAt(s)
    BY DEF IInv, HistoryInv
  <2> QED
    BY <1>2, <1>3, <2>1 DEF WrittenAt
<1>12. logf # None /\ logf.torn => pc'[s] \in Loading
  <2>1. logf # None /\ logf.torn => Waits(s) /\ journal # None
    BY NotTorn DEF IInv, DiskInv, LogInv
  <2> QED
    BY <2>1 DEF Waits
<1>13. \A t \in Session \ {s} : op[t] # "close" /\ (pc[t] \in Healing => Waits(s) /\ journal # None)
  BY <1>5, Guarded
<1>14. Leftover => Waits(s)
  BY DEF Leftover
<1> QED
  BY <1>2, <1>5, <1>7, <1>8, <1>9, <1>10, <1>11, <1>12, <1>13, <1>14, Quiet DEF SessionInv

\* What the files give: the index on disk to a session that has all of its lines.
LEMMA RemembersAll ==
  ASSUME TypeInv, DiskInv, NEW s \in Session, DiskStays, cache'[s] = DiskIndex, Bound(s)'
  PROVE  Remembers(s)'
<1>1. snap' = snap /\ logf' = logf /\ objects' = objects
  BY DEF DiskStays
<1>2. LinesFor(snap.gen)' = LinesFor(snap.gen)
  BY <1>1 DEF LinesFor
<1>3. gen'[s] = snap.gen /\ stamp'[s] = snap.stamp /\ lines'[s] = LinesFor(snap.gen)
  BY <1>1, <1>2 DEF Bound
<1>4. Prefix(lines[s])' = Prefix(LinesFor(snap.gen))
  BY <1>1, <1>3 DEF Prefix
<1>5. LinesFor(snap.gen) \in Nat /\ snap.stamp \in Nat
  BY LinesFacts DEF TypeInv, Snapshot
<1>6. NotNewer(DiskIndex, objects) /\ Replay(snap.map, Prefix(LinesFor(snap.gen))) = DiskIndex
  BY DiskFacts
<1>7. NotNewer(cache[s], objects)'
  BY <1>1, <1>6 DEF NotNewer
<1>8. (cache[s] = Replay(snap.map, Prefix(lines[s])))'
  BY <1>1, <1>4, <1>6
<1> QED
  BY <1>1, <1>2, <1>3, <1>5, <1>7, <1>8 DEF Remembers, DiskInv

LEMMA LoadKeeps ==
  ASSUME IInv, TypeInv', NEW s \in Session, Load(s)
  PROVE  IInv' /\ Advances
<1>1. TypeInv /\ DiskInv /\ LockAt(s) /\ JournalAt(s) /\ MemoryAt(s) /\ LoadingAt(s)
  BY DEF IInv, SessionInv
<1>2. pc[s] = "load" /\ UNCHANGED <<disk, loading, writes, crashes, acked>>
  BY DEF Load
<1>3. ~Exclusive(s) /\ loading[s] = None /\ DiskStays
  BY <1>1, <1>2 DEF Exclusive, Active, Writes, Healing, LoadingAt, DiskStays, disk
<1>4. cache[s] # None => Remembers(s)
  BY <1>1, <1>3 DEF MemoryAt
<1>5. cache[s] \in Index \cup {None} /\ snap.stamp \in Nat /\ stamp[s] \in Nat /\ lines[s] \in Nat
  BY <1>1 DEF TypeInv, Snapshot
<1>6. Waits(s) <=> cache[s] = None
  BY <1>2 DEF Waits, Loading
<1>7. CASE cache[s] = None \/ stamp[s] # snap.stamp \/ LinesFor(gen[s]) < lines[s]
  <2>1. pc' = [pc EXCEPT ![s] = "reload"] /\ UNCHANGED <<work, memory>>
    BY <1>7 DEF Load, Goto
  <2>2. Apart(s) /\ pc'[s] = "reload" /\ UNCHANGED work /\ cache'[s] = cache[s] /\ stamp'[s] = stamp[s]
        /\ gen'[s] = gen[s] /\ lines'[s] = lines[s] /\ loading'[s] = None
    BY <1>1, <1>2, <1>3, <2>1 DEF Apart, TypeInv, work, memory
  <2>3. cache[s] # None => stamp[s] < snap.stamp
    <3>1. cache[s] # None => stamp[s] <= snap.stamp /\ gen[s] = stamp[s]
                             /\ (stamp[s] = snap.stamp => lines[s] <= LinesFor(snap.gen))
      BY <1>4 DEF Remembers
    <3>2. LinesFor(snap.gen) \in Nat /\ snap.gen = snap.stamp
      BY <1>1, LinesFacts DEF DiskInv
    <3> QED
      BY <1>5, <1>7, <3>1, <3>2
  <2>4. cache'[s] # None => Remembers(s)'
    BY <1>3, <1>4, <2>2, StillRemembers DEF DiskStays
  <2>5. Forward(s)
    BY <1>5, <2>2 DEF Forward, NotNewer, Index, Entry
  <2>6. LoadingAt(s)'
    BY <2>2 DEF LoadingAt
  <2>7. Waits(s) => Waits(s)' /\ cache'[s] = None
    BY <1>6, <2>2 DEF Waits, Loading
  <2>8. Leftover => Waits(s)
    BY DEF Leftover
  <2> QED
    BY <1>2, <1>3, <2>2, <2>3, <2>4, <2>5, <2>6, <2>7, <2>8, ReadsOn
<1>8. CASE ~(cache[s] = None \/ stamp[s] # snap.stamp \/ LinesFor(gen[s]) < lines[s])
  <2> DEFINE recs == RecordsFrom(gen[s], lines[s])
  <2>1. cache[s] # None /\ stamp[s] = snap.stamp /\ gen[s] = snap.gen /\ lines[s] <= LinesFor(snap.gen)
        /\ cache[s] = Replay(snap.map, Prefix(lines[s]))
    BY <1>1, <1>4, <1>8 DEF Remembers, DiskInv
  <2>2. ~Damaged(recs)
    BY <1>1, <1>5, <2>1, NoDamage DEF DiskInv
  <2>3. Replay(cache[s], recs) = DiskIndex
    <3>1. snap.map \in Index
      BY <1>1 DEF TypeInv, Snapshot
    <3>2. Replay(Replay(snap.map, Prefix(lines[s])), RecordsFrom(snap.gen, lines[s]))
            = Replay(snap.map, RecordsFrom(snap.gen, 0))
      BY <1>1, <1>5, <2>1, <3>1, RecordsFacts
    <3> QED
      BY <2>1, <3>2 DEF DiskIndex
  <2>4. /\ cache' = [cache EXCEPT ![s] = Replay(cache[s], recs)]
        /\ lines' = [lines EXCEPT ![s] = LinesFor(gen[s])]
        /\ pc' = [pc EXCEPT ![s] = "loaded"]
        /\ UNCHANGED <<work, stamp, gen>>
    BY <1>8, <2>2 DEF Load, Goto
  <2>5. /\ cache' = [cache EXCEPT ![s] = DiskIndex]
        /\ lines' = [lines EXCEPT ![s] = LinesFor(snap.gen)]
    BY <2>1, <2>3, <2>4
  <2> HIDE DEF recs
  <2>6. Apart(s) /\ pc'[s] = "loaded" /\ UNCHANGED work /\ cache'[s] = DiskIndex /\ loading'[s] = None
        /\ stamp'[s] = snap.stamp /\ gen'[s] = snap.gen /\ lines'[s] = LinesFor(snap.gen)
    BY <1>1, <1>2, <1>3, <2>1, <2>4, <2>5 DEF Apart, TypeInv, work
  <2>7. Bound(s)'
    <3>1. snap' = snap /\ LinesFor(snap.gen)' = LinesFor(snap.gen)
      BY <1>3 DEF DiskStays, LinesFor
    <3> QED
      BY <2>6, <3>1 DEF Bound
  <2>8. Remembers(s)'
    BY <1>1, <1>3, <2>6, <2>7, RemembersAll
  <2>9. Forward(s)
    BY <1>1, <1>5, <2>1, <2>6, DiskFacts DEF Forward
  <2>10. op[s] # "read" => journal = None /\ DiskIndex = objects
    BY <1>1, <1>2, <2>1, NoJournal, DiskFacts
  <2>11. LoadingAt(s)'
    BY <2>6 DEF LoadingAt
  <2>12. ~Waits(s) /\ ~Leftover
    BY <1>6, <2>1 DEF Leftover
  <2>13. DiskIndex # None
    BY <1>1, DiskFacts, ConstantsOK
  <2> QED
    BY <1>2, <1>3, <2>6, <2>7, <2>8, <2>9, <2>10, <2>11, <2>12, <2>13, ReadsOn
<1> QED
  BY <1>7, <1>8

LEMMA ReloadKeeps ==
  ASSUME IInv, TypeInv', NEW s \in Session, Reload(s)
  PROVE  IInv' /\ Advances
<1>1. TypeInv /\ DiskInv /\ MemoryAt(s)
  BY DEF IInv, SessionInv
<1>2. /\ pc[s] = "reload" /\ loading' = [loading EXCEPT ![s] = snap]
      /\ pc' = [pc EXCEPT ![s] = "readLog"]
      /\ UNCHANGED <<disk, work, memory, writes, crashes, acked>>
  BY DEF Reload, Goto
<1>3. /\ DiskStays /\ Apart(s) /\ UNCHANGED work /\ pc'[s] = "readLog" /\ loading'[s] = snap
      /\ cache'[s] = cache[s] /\ stamp'[s] = stamp[s] /\ gen'[s] = gen[s] /\ lines'[s] = lines[s]
  BY <1>1, <1>2 DEF DiskStays, Apart, TypeInv, disk, work, memory
<1>4. ~Exclusive(s)
  BY <1>2 DEF Exclusive, Active, Writes, Healing
<1>5. cache[s] # None => Remembers(s) /\ stamp[s] < snap.stamp
  BY <1>1, <1>2, <1>4 DEF MemoryAt
<1>6. cache'[s] # None => Remembers(s)'
  BY <1>3, <1>5, StillRemembers DEF DiskStays
<1>7. Forward(s)
  <2>1. cache[s] \in Index \cup {None}
    BY <1>1 DEF TypeInv
  <2> QED
    BY <1>3, <2>1 DEF Forward, NotNewer, Index, Entry
<1>8. LoadingAt(s)'
  <2>1. snap' = snap /\ logf' = logf
    BY <1>3 DEF DiskStays
  <2>2. snap.stamp \in Nat /\ snap # None
    BY <1>1, ConstantsOK DEF TypeInv, Snapshot
  <2>3. logf # None /\ logf.gen = snap.gen => RecordsAbove(snap.map)
    BY <1>1 DEF DiskInv, LogInv
  <2>4. RecordsAbove(loading[s].map)' <=> RecordsAbove(snap.map)
    BY <1>3, <2>1 DEF RecordsAbove
  <2>5. cache'[s] # None => NotNewer(cache[s], snap.map)
    BY <1>3, <1>5 DEF Remembers
  <2> QED
    BY <1>1, <1>3, <2>1, <2>2, <2>3, <2>4, <2>5 DEF LoadingAt, DiskInv, NotNewer
<1>9. Waits(s) => Waits(s)' /\ cache'[s] = None
  BY <1>2, <1>3 DEF Waits, Loading
<1>10. Leftover => Waits(s)
  BY DEF Leftover
<1> QED
  BY <1>2, <1>3, <1>6, <1>7, <1>8, <1>9, <1>10, ReadsOn

LEMMA ReadLogKeeps ==
  ASSUME IInv, TypeInv', NEW s \in Session, ReadLog(s)
  PROVE  IInv' /\ Advances
<1> DEFINE from == loading[s]
           recs == RecordsFrom(from.gen, 0)
           l == IF journal = None THEN "loaded" ELSE "await"
<1>1. TypeInv /\ DiskInv /\ LockAt(s) /\ JournalAt(s) /\ MemoryAt(s) /\ LoadingAt(s)
  BY DEF IInv, SessionInv
<1>2. /\ pc[s] = "readLog" /\ loading' = [loading EXCEPT ![s] = None]
      /\ UNCHANGED <<disk, writes, crashes, acked>>
  BY DEF ReadLog
<1>3. from # None /\ from \in Snapshot
  BY <1>1, <1>2 DEF LoadingAt, TypeInv
<1>4. from.gen \in Nat /\ from.map \in Index /\ from.stamp \in Nat /\ snap.map \in Index /\ snap.stamp \in Nat
  BY <1>1, <1>3 DEF Snapshot, TypeInv
<1>5. ~Damaged(recs)
  <2>1. LinesFor(from.gen) \in Nat /\ 0 <= LinesFor(from.gen)
    BY <1>1, LinesFacts
  <2> QED
    BY <1>1, <2>1, NoDamage DEF DiskInv
<1>6. /\ cache' = [cache EXCEPT ![s] = Replay(from.map, recs)]
      /\ stamp' = [stamp EXCEPT ![s] = from.stamp] /\ gen' = [gen EXCEPT ![s] = from.gen]
      /\ lines' = [lines EXCEPT ![s] = LinesFor(from.gen)]
      /\ pc' = [pc EXCEPT ![s] = l] /\ UNCHANGED work
  BY <1>5 DEF ReadLog, Goto
<1> HIDE DEF recs, l
<1>7. DiskStays /\ snap' = snap /\ logf' = logf /\ objects' = objects
  BY <1>2 DEF DiskStays, disk
<1>8. /\ Apart(s) /\ UNCHANGED work /\ pc'[s] = l /\ loading'[s] = None
      /\ cache'[s] = Replay(from.map, recs) /\ stamp'[s] = from.stamp
      /\ gen'[s] = from.gen /\ lines'[s] = LinesFor(from.gen)
  BY <1>1, <1>2, <1>6 DEF Apart, TypeInv, work
<1>9. recs \in Seq(Line) /\ recs = (IF LinesFor(from.gen) = 0 THEN << >> ELSE logf.recs)
  <2>1. LinesFor(from.gen) \in Nat /\ 0 <= LinesFor(from.gen)
    BY <1>1, LinesFacts
  <2> QED
    BY <1>1, <2>1, RecordsFacts DEF recs
<1>10. Replay(from.map, recs) \in Index
  BY <1>4, <1>9, ReplayType
<1>11. LinesFor(from.gen) # 0 => logf # None /\ logf.gen = from.gen
  BY <1>1, LinesFacts
<1>12. NotNewer(from.map, Replay(from.map, recs))
  <2>1. \A i \in 1..Len(recs) : from.map[recs[i].note].ed <= recs[i].entry.ed
    <3>1. CASE LinesFor(from.gen) = 0
      BY <1>9, <3>1
    <3>2. CASE LinesFor(from.gen) # 0
      BY <1>1, <1>3, <1>9, <1>11, <3>2 DEF LoadingAt, RecordsAbove
    <3> QED
      BY <3>1, <3>2
  <2> HIDE DEF from
  <2> QED
    BY <1>4, <1>9, <2>1, ReplayBetween
<1>13. Forward(s)
  <2> SUFFICES ASSUME cache[s] # None PROVE NotNewer(cache[s], Replay(from.map, recs))
    BY <1>8 DEF Forward
  <2>1. NotNewer(cache[s], from.map) /\ cache[s] \in Index
    BY <1>1, <1>3 DEF LoadingAt, TypeInv
  <2> QED
    BY <1>4, <1>10, <1>12, <2>1 DEF NotNewer, Index, Entry
<1>14. from = snap => Replay(from.map, recs) = DiskIndex /\ Bound(s)'
  <2> SUFFICES ASSUME from = snap PROVE Replay(from.map, recs) = DiskIndex /\ Bound(s)'
    OBVIOUS
  <2>1. LinesFor(snap.gen)' = LinesFor(snap.gen)
    BY <1>7 DEF LinesFor
  <2>2. Bound(s)'
    BY <1>7, <1>8, <2>1 DEF Bound
  <2> QED
    BY <2>2 DEF DiskIndex, recs
<1>15. Remembers(s)'
  <2>1. CASE from = snap
    BY <1>1, <1>7, <1>8, <1>14, <2>1, RemembersAll
  <2>2. CASE from # snap
    <3>1. from.stamp < snap.stamp /\ from.gen = from.stamp /\ NotNewer(from.map, snap.map)
      BY <1>1, <1>3, <1>4, <2>2 DEF LoadingAt
    <3>2. from.gen # snap.gen
      BY <1>1, <1>4, <3>1 DEF DiskInv
    <3>3. \A i \in 1..Len(recs) : recs[i].entry.ed <= snap.map[recs[i].note].ed
      <4>1. CASE LinesFor(from.gen) = 0
        BY <1>9, <4>1
      <4>2. CASE LinesFor(from.gen) # 0
        <5>1. RecordsBelow(snap.map)
          BY <1>1, <1>11, <3>2, <4>2 DEF DiskInv, LogInv
        <5> QED
          BY <1>9, <4>2, <5>1 DEF RecordsBelow
      <4> QED
        BY <4>1, <4>2
    <3> HIDE DEF from
    <3>4. NotNewer(Replay(from.map, recs), snap.map)
      BY <1>4, <1>9, <3>1, <3>3, ReplayBetween
    <3>5. NotNewer(Replay(from.map, recs), objects)
      <4>1. NotNewer(snap.map, objects) /\ objects \in Index
        BY <1>1 DEF DiskInv, TypeInv
      <4> QED
        BY <1>4, <1>10, <3>4, <4>1 DEF NotNewer, Index, Entry
    <3>6. NotNewer(cache[s], snap.map)' /\ NotNewer(cache[s], objects)'
      BY <1>7, <1>8, <3>4, <3>5 DEF NotNewer
    <3>7. gen'[s] = stamp'[s] /\ stamp'[s] < snap'.stamp /\ stamp'[s] \in Nat /\ snap'.stamp \in Nat
      BY <1>4, <1>7, <1>8, <3>1
    <3> QED
      BY <3>6, <3>7 DEF Remembers
  <2> QED
    BY <2>1, <2>2
<1>16. LoadingAt(s)'
  BY <1>8 DEF LoadingAt, l
<1>17. op[s] # "read" => from = snap
  BY <1>1, <1>3 DEF LoadingAt
<1>18. Leftover => from = snap
  BY <1>3 DEF Leftover
<1>19. journal = None => DiskIndex = objects
  BY <1>1, DiskFacts
<1>20. journal # None => Waits(s)'
  BY <1>8 DEF Waits, Loading, l
<1>21. cache'[s] # None /\ pc'[s] \in {"await", "loaded"} /\ (pc'[s] = "loaded" <=> journal = None)
  BY <1>8, <1>10, ConstantsOK DEF l
<1> HIDE DEF from
<1> QED
  BY <1>2, <1>7, <1>8, <1>13, <1>14, <1>15, <1>16, <1>17, <1>18, <1>19, <1>20, <1>21, ReadsOn
     DEF from

\* Recovery starts from the index on disk, and makes of it what the objects say.
LEMMA AwaitKeeps ==
  ASSUME IInv, TypeInv', NEW s \in Session, Await(s)
  PROVE  IInv' /\ Advances
<1>1. TypeInv /\ DiskInv /\ LockAt(s) /\ JournalAt(s) /\ MemoryAt(s) /\ LoadingAt(s)
  BY DEF IInv, SessionInv
<1>2. /\ pc[s] = "await" /\ holder \in {None, s}
      /\ UNCHANGED <<disk, op, todo, loading, stamp, gen, lines, writes, crashes, acked>>
  BY DEF Await
<1>3. DiskStays /\ loading[s] = None /\ loading'[s] = None
  BY <1>1, <1>2 DEF DiskStays, disk, LoadingAt
<1>4. ~Exclusive(s) /\ ~Active(s)
  BY <1>2 DEF Exclusive, Active, Writes, Healing
<1>5. cache[s] # None /\ cache[s] \in Index /\ Remembers(s)
  BY <1>1, <1>2, <1>4 DEF MemoryAt, TypeInv
<1>6. CASE journal = None
  <2>1. pc' = [pc EXCEPT ![s] = "loaded"] /\ UNCHANGED <<holder, cache>>
    BY <1>6 DEF Await, Goto
  <2>2. /\ Apart(s) /\ UNCHANGED work /\ pc'[s] = "loaded"
        /\ cache'[s] = cache[s] /\ stamp'[s] = stamp[s] /\ gen'[s] = gen[s] /\ lines'[s] = lines[s]
    BY <1>1, <1>2, <2>1 DEF Apart, TypeInv, work
  <2>3. op[s] = "read"
    BY <1>1, <1>2, <1>6 DEF JournalAt
  <2>4. Remembers(s)'
    BY <1>3, <1>5, <2>2, StillRemembers DEF DiskStays
  <2>5. Forward(s)
    BY <1>5, <2>2 DEF Forward, NotNewer, Index, Entry
  <2>6. LoadingAt(s)'
    BY <1>3, <2>2 DEF LoadingAt
  <2> QED
    BY <1>2, <1>3, <1>5, <1>6, <2>2, <2>3, <2>4, <2>5, <2>6, ReadsOn
<1>7. CASE journal # None
  <2> DEFINE c == [n \in Note |-> IF n \in journal THEN objects[n] ELSE cache[s][n]]
  <2>1. pc' = [pc EXCEPT ![s] = "healSnapshot"] /\ holder' = s /\ cache' = [cache EXCEPT ![s] = c]
    BY <1>7 DEF Await, Goto
  <2>2. ASSUME NEW t \in Session, Active(t) PROVE FALSE
    <3>1. t # s /\ Exclusive(t)
      BY <1>4, <2>2 DEF Exclusive
    <3>2. holder = t \/ op[t] = "close"
      BY <1>1, <3>1, OnlyOne DEF IInv, SessionInv
    <3>3. op[t] # "close"
      BY <1>2, <3>1 DEF IInv, SessionInv, LockAt
    <3> QED
      BY <1>2, <3>1, <3>2, <3>3, ConstantsOK
  <2>3. Leftover
    BY <1>7, <2>2 DEF IInv, JournalInv
  <2>4. Bound(s) /\ cache[s] = DiskIndex
    BY <1>5, <2>3 DEF Leftover
  <2>5. c = objects
    <3>1. \A n \in Note : c[n] = objects[n]
      BY <1>1, <2>4 DEF DiskInv, JournalCoversStale
    <3>2. objects = [n \in Note |-> objects[n]]
      BY <1>1 DEF TypeInv, Index
    <3> QED
      BY <3>1, <3>2
  <2> HIDE DEF c
  <2>6. /\ Apart(s) /\ pc'[s] = "healSnapshot" /\ cache'[s] = objects /\ op'[s] = op[s] /\ todo'[s] = todo[s]
        /\ stamp'[s] = stamp[s] /\ gen'[s] = gen[s] /\ lines'[s] = lines[s]
    BY <1>1, <1>2, <2>1, <2>5 DEF Apart, TypeInv
  <2>7. snap' = snap /\ logf' = logf /\ objects' = objects /\ journal' = journal
    BY <1>3 DEF DiskStays
  <2>8. Bound(s)'
    <3>1. LinesFor(snap.gen)' = LinesFor(snap.gen)
      BY <2>7 DEF LinesFor
    <3> QED
      BY <2>4, <2>6, <2>7, <3>1 DEF Bound
  <2>9. LockAt(s)'
    <3>1. op[s] = "close" => \A t \in Session \ {s} : pc'[t] = "idle"
      BY <1>1, <2>6 DEF LockAt, Apart
    <3>2. op[s] \in {"put", "remove"} => \E n \in Note : todo[s] = {n}
      BY <1>1 DEF LockAt
    <3>3. op[s] = "putMany" => todo[s] # {}
      BY <1>1, <1>2 DEF LockAt
    <3> QED
      BY <2>1, <2>6, <3>1, <3>2, <3>3 DEF LockAt, Healing
  <2>10. \A t \in Session \ {s} : Waits(t)'
    BY <2>3, <2>6 DEF Leftover, Waits, Apart
  <2>11. JournalAt(s)'
    <3>1. op[s] # "close"
      BY <1>1, <1>7 DEF JournalAt
    <3> QED
      BY <1>7, <2>6, <2>7, <2>10, <3>1 DEF JournalAt, Writes, Healing
  <2>12. ReadyAt(s)'
    <3>1. gen'[s] = snap'.gen
      BY <2>8 DEF Bound
    <3> QED
      BY <2>6, <2>7, <2>8, <3>1 DEF ReadyAt
  <2>13. MemoryAt(s)' /\ LoadingAt(s)' /\ WrittenAt(s)' /\ Active(s)'
    <3>1. WrittenAt(s)
      BY DEF IInv, HistoryInv
    <3> QED
      BY <1>3, <2>6, <2>7, <3>1 DEF MemoryAt, LoadingAt, WrittenAt, Active, Exclusive, Healing
  <2>14. Forward(s)
    BY <1>1, <2>4, <2>6, DiskFacts DEF Forward
  <2>15. \A t \in Session \ {s} : op[t] # "close" /\ pc[t] \notin Healing
    <3>1. Busy(s)
      BY <1>2 DEF Busy
    <3> QED
      BY <2>2, <3>1, Guarded DEF Active
  <2> QED
    BY <1>2, <1>3, <1>4, <2>1, <2>6, <2>9, <2>11, <2>12, <2>13, <2>14, <2>15, Quiet DEF SessionInv
<1> QED
  BY <1>6, <1>7

LEMMA DispatchKeeps ==
  ASSUME IInv, TypeInv', NEW s \in Session, Dispatch(s)
  PROVE  IInv' /\ Advances
<1>1. TypeInv /\ DiskInv /\ LockAt(s) /\ JournalAt(s) /\ ReadyAt(s) /\ MemoryAt(s) /\ LoadingAt(s)
  BY DEF IInv, SessionInv
<1>2. pc[s] = "loaded" /\ UNCHANGED <<disk, loading, memory, writes, crashes, acked>>
  BY DEF Dispatch
<1>3. /\ DiskStays /\ loading[s] = None /\ loading'[s] = None /\ op[s] \in Kinds
      /\ cache'[s] = cache[s] /\ stamp'[s] = stamp[s] /\ gen'[s] = gen[s] /\ lines'[s] = lines[s]
  BY <1>1, <1>2 DEF DiskStays, disk, memory, LoadingAt, TypeInv
<1>4. /\ ~Active(s) /\ ~Waits(s) /\ (Exclusive(s) <=> op[s] # "read") /\ Busy(s)
  BY <1>2 DEF Exclusive, Active, Writes, Healing, Waits, Loading, Busy
<1>5. op[s] # "read" => journal = None /\ Bound(s) /\ cache[s] = objects /\ DiskIndex = objects
  <2>1. op[s] # "read" => journal = None
    BY <1>1, <1>2 DEF JournalAt
  <2> QED
    BY <1>1, <1>2, <1>4, <2>1, DiskFacts DEF ReadyAt
<1>6. cache[s] \in Index
  BY <1>2, HasIndex
<1>7. \/ /\ pc' = [pc EXCEPT ![s] = "begin"] /\ UNCHANGED work /\ op[s] \in Puts
      \/ /\ pc' = [pc EXCEPT ![s] = "snapshot"] /\ UNCHANGED work /\ op[s] \in {"close", "compact"}
      \/ Return(s) /\ (op[s] = "read" \/ op[s] = "compact")
  BY <1>3 DEF Dispatch, Goto, Puts, Kinds
<1>8. ASSUME NEW l \in {"begin", "snapshot"}, pc' = [pc EXCEPT ![s] = l], UNCHANGED work,
             op[s] # "read", IF l = "begin" THEN op[s] \in Puts ELSE op[s] \in {"close", "compact"}
      PROVE  IInv' /\ Advances
  <2>1. Apart(s) /\ pc'[s] = l /\ op'[s] = op[s] /\ todo'[s] = todo[s] /\ holder' = holder
    BY <1>1, <1>2, <1>8 DEF Apart, TypeInv, work, memory
  <2>2. snap' = snap /\ logf' = logf /\ objects' = objects /\ journal' = journal
    BY <1>3 DEF DiskStays
  <2>3. Bound(s)'
    <3>1. LinesFor(snap.gen)' = LinesFor(snap.gen)
      BY <2>2 DEF LinesFor
    <3> QED
      BY <1>3, <1>5, <1>8, <2>2, <3>1 DEF Bound
  <2>4. LockAt(s)'
    <3>1. op[s] = "close" => \A t \in Session \ {s} : pc'[t] = "idle"
      BY <1>1, <2>1 DEF LockAt, Apart
    <3>2. op[s] \in {"put", "remove"} => \E n \in Note : todo[s] = {n}
      BY <1>1 DEF LockAt
    <3>3. op[s] = "putMany" => todo[s] # {} /\ l = "begin"
      BY <1>1, <1>2, <1>8 DEF LockAt
    <3>4. Writing(s)' <=> holder' = s
      BY <1>1, <1>2, <2>1 DEF LockAt, Writing, Healing
    <3> QED
      BY <1>8, <2>1, <3>1, <3>2, <3>3, <3>4 DEF LockAt, Healing
  <2>5. JournalAt(s)'
    BY <1>5, <1>8, <2>1, <2>2 DEF JournalAt, Writes, Healing, Puts
  <2>6. ReadyAt(s)'
    BY <1>1, <1>3, <1>5, <1>8, <2>1, <2>2, <2>3 DEF ReadyAt, Bound
  <2>7. Exclusive(s)'
    BY <1>8, <2>1 DEF Exclusive, Active, Writes
  <2>8. MemoryAt(s)' /\ LoadingAt(s)' /\ WrittenAt(s)'
    <3>1. WrittenAt(s)
      BY DEF IInv, HistoryInv
    <3>2. MemoryAt(s)'
      BY <1>8, <2>1, <2>7 DEF MemoryAt
    <3>3. LoadingAt(s)'
      BY <1>3, <1>8, <2>1 DEF LoadingAt
    <3>4. WrittenAt(s)'
      BY <1>8, <2>1, <2>2, <3>1 DEF WrittenAt, Puts
    <3> QED
      BY <3>2, <3>3, <3>4
  <2>9. Forward(s)
    BY <1>3, <1>6 DEF Forward, NotNewer, Index, Entry
  <2>10. \A t \in Session \ {s} : op[t] # "close" /\ pc[t] \notin Healing
    BY <1>4, Guarded
  <2>11. ~(logf # None /\ logf.torn)
    BY <1>2, <1>4, NotTorn
  <2> QED
    BY <1>3, <1>4, <1>5, <1>8, <2>1, <2>4, <2>5, <2>6, <2>8, <2>9, <2>10, <2>11, Quiet DEF SessionInv
<1>9. CASE Return(s) /\ (op[s] = "read" \/ op[s] = "compact")
  <2>1. /\ Apart(s) /\ pc'[s] = "idle" /\ op'[s] = "read"
        /\ holder' = IF holder = s THEN None ELSE holder
    BY <1>1, <1>2, <1>9 DEF Apart, TypeInv, Return, Goto, Leave, memory
  <2>2. Remembers(s)
    <3>1. CASE op[s] = "read"
      BY <1>1, <1>4, <1>6, <3>1, ConstantsOK DEF MemoryAt
    <3>2. CASE op[s] # "read"
      BY <1>4, <1>5, <3>2, ReadyRemembers
    <3> QED
      BY <3>1, <3>2
  <2> QED
    BY <1>3, <1>4, <2>1, <2>2, Rest
<1> QED
  <2>1. "read" \notin Puts
    BY DEF Puts
  <2> QED
    BY <1>7, <1>8, <1>9, <2>1

\* A write that is refused leaves no journal.
LEMMA RejectKeeps ==
  ASSUME IInv, TypeInv', NEW s \in Session, BeginJournal(s), Rejects(s)
  PROVE  IInv' /\ Advances
<1>1. TypeInv /\ DiskInv /\ JournalAt(s) /\ ReadyAt(s) /\ LoadingAt(s)
  BY DEF IInv, SessionInv
<1>2. /\ pc[s] = "begin" /\ Return(s) /\ UNCHANGED journal
      /\ UNCHANGED <<objects, archive, snap, logf, loading, memory, writes, crashes, acked>>
  BY DEF BeginJournal
<1>3. /\ DiskStays /\ Apart(s) /\ pc'[s] = "idle" /\ op'[s] = "read"
      /\ holder' = IF holder = s THEN None ELSE holder
      /\ cache'[s] = cache[s] /\ stamp'[s] = stamp[s] /\ gen'[s] = gen[s] /\ lines'[s] = lines[s]
      /\ loading' = loading
  BY <1>1, <1>2 DEF DiskStays, Apart, TypeInv, Return, Goto, Leave, memory
<1>4. Exclusive(s) /\ ~Waits(s) /\ journal = None /\ loading[s] = None
  BY <1>1, <1>2 DEF Exclusive, Waits, Loading, JournalAt, LoadingAt
<1>5. Bound(s) /\ DiskIndex = objects
  BY <1>1, <1>2, <1>4, DiskFacts DEF ReadyAt
<1>6. Remembers(s)
  BY <1>4, <1>5, ReadyRemembers
<1> QED
  BY <1>3, <1>4, <1>6, Rest
-----------------------------------------------------------------------------
(* Steps of the session that has the disk to itself. *)

\* The other sessions read, and know the lock held or free.
LEMMA OthersRead ==
  ASSUME IInv, NEW s \in Session, Exclusive(s), Apart(s), holder' \in {holder, None},
         NEW t \in Session \ {s}
  PROVE  /\ op'[t] = "read" /\ pc'[t] \in Loading \cup {"loaded"}
         /\ ~Exclusive(t) /\ ~Exclusive(t)' /\ holder' # t
         /\ LockAt(t)' /\ JournalAt(t)' /\ ReadyAt(t)' /\ WrittenAt(t)'
<1>1. op[t] = "read" /\ ~Exclusive(t) /\ holder # t
  BY OnlyOne DEF IInv, SessionInv
<1>2. op'[t] = "read" /\ pc'[t] = pc[t]
  BY <1>1 DEF Apart
<1>3. holder' # t
  BY <1>1, ConstantsOK
<1>4. pc[t] \in Loading \cup {"loaded"}
  BY <1>1 DEF IInv, TypeInv, Exclusive, Active, Writes, Healing, Locations, Loading
<1>5. ~Exclusive(t)' /\ pc[t] \notin Healing
  BY <1>1, <1>2, <1>4 DEF Exclusive, Active, Writes, Healing, Loading
<1>6. LockAt(t)'
  BY <1>2, <1>3, <1>4, <1>5 DEF LockAt, Writing, Loading, Puts
<1>7. JournalAt(t)'
  BY <1>2, <1>4, <1>5 DEF JournalAt, Loading, Puts
<1>8. ReadyAt(t)'
  BY <1>5 DEF ReadyAt
<1>9. WrittenAt(t)'
  BY <1>2, <1>4 DEF WrittenAt, Loading
<1> QED
  BY <1>1, <1>2, <1>3, <1>4, <1>5, <1>6, <1>7, <1>8, <1>9

\* The snapshot stays, and what there is of its log.
Grows ==
  /\ snap' = snap /\ NotNewer(objects, objects') /\ LinesFor(snap.gen) <= LinesFor(snap.gen)'
  /\ \A k \in Nat : k <= LinesFor(snap.gen) => Prefix(k)' = Prefix(k)
  /\ logf' = None \/ logf' = logf \/ logf'.gen = snap.gen

LEMMA OthersGrow ==
  ASSUME IInv, TypeInv', LogInv', NEW s \in Session, Exclusive(s), Apart(s),
         holder' \in {holder, None}, Grows, NEW t \in Session \ {s}
  PROVE  MemoryAt(t)' /\ LoadingAt(t)'
<1>1. TypeInv /\ DiskInv /\ MemoryAt(t) /\ LoadingAt(t)
  BY DEF IInv, SessionInv
<1>2. /\ pc'[t] = pc[t] /\ op'[t] = op[t] /\ loading'[t] = loading[t] /\ cache'[t] = cache[t]
      /\ stamp'[t] = stamp[t] /\ gen'[t] = gen[t] /\ lines'[t] = lines[t]
  BY DEF Apart
<1>3. snap' = snap /\ ~Exclusive(t) /\ ~Exclusive(t)'
  BY OthersRead DEF Grows
<1>4. snap.stamp \in Nat /\ lines[t] \in Nat /\ snap.map \in Index /\ snap # None
  BY <1>1, ConstantsOK DEF TypeInv, Snapshot
<1>5. ASSUME Remembers(t), cache[t] # None PROVE Remembers(t)'
  <2>1. cache[t] \in Index /\ objects \in Index /\ objects' \in Index
    BY <1>1, <1>5 DEF TypeInv
  <2>2. NotNewer(cache[t], objects)'
    <3>1. NotNewer(cache[t], objects) /\ NotNewer(objects, objects')
      BY <1>5 DEF Remembers, Grows
    <3> QED
      BY <1>2, <2>1, <3>1 DEF NotNewer, Index, Entry
  <2>3. stamp[t] = snap.stamp => lines[t] <= LinesFor(snap.gen) /\ cache[t] = Replay(snap.map, Prefix(lines[t]))
    BY <1>5 DEF Remembers
  <2>4. stamp[t] = snap.stamp => Prefix(lines[t])' = Prefix(lines[t])
    <3>2. lines[t] <= LinesFor(snap.gen) => \A k \in {lines[t]} : Prefix(k)' = Prefix(k)
      BY <1>4 DEF Grows
    <3>1. Prefix(lines[t])' = IF lines[t] = 0 THEN << >> ELSE SubSeq(logf'.recs, 1, lines[t] - 1)
      BY <1>2 DEF Prefix
    <3> QED
      BY <2>3, <3>1, <3>2 DEF Prefix
  <2>5. stamp[t] = snap.stamp => lines[t] <= LinesFor(snap.gen)'
    <3>1. LinesFor(snap.gen) \in Nat /\ LinesFor(snap.gen)' \in Nat
      <4>1. \A g : LinesFor(g)' \in Nat
        <5>1. logf' # None => logf'.recs \in Seq(Line)
          BY DEF TypeInv, Log
        <5> QED
          BY <5>1 DEF LinesFor
      <4> QED
        BY <1>1, <1>3, <4>1, LinesFacts DEF LinesFor
    <3> QED
      BY <1>4, <2>3, <3>1 DEF Grows
  <2> QED
    BY <1>2, <1>3, <1>5, <2>2, <2>3, <2>4, <2>5 DEF Remembers, NotNewer
<1>6. MemoryAt(t)'
  BY <1>1, <1>2, <1>3, <1>5 DEF MemoryAt
<1>7. LoadingAt(t)'
  <2>1. ASSUME loading[t] # None, logf' # None, logf'.gen = loading[t].gen
        PROVE  RecordsAbove(loading[t].map)'
    <3>1. CASE loading[t] = snap
      <4>1. RecordsAbove(snap.map)'
        BY <1>3, <2>1, <3>1 DEF LogInv
      <4> QED
        BY <1>2, <1>3, <3>1, <4>1 DEF RecordsAbove
    <3>2. CASE loading[t] # snap
      <4>1. loading[t].gen # snap.gen
        BY <1>1, <2>1, <3>2 DEF LoadingAt, DiskInv
      <4>2. logf' = logf
        BY <2>1, <4>1 DEF Grows
      <4>3. RecordsAbove(loading[t].map)
        BY <1>1, <2>1, <4>2 DEF LoadingAt
      <4> QED
        BY <1>2, <4>2, <4>3 DEF RecordsAbove
    <3> QED
      BY <3>1, <3>2
  <2> QED
    BY <1>1, <1>2, <1>3, <2>1 DEF LoadingAt, NotNewer
<1> QED
  BY <1>6, <1>7

\* A snapshot of what the objects say takes the place of the one before.
Replaced ==
  /\ snap' = [gen |-> snap.gen + 1, map |-> objects, stamp |-> snap.stamp + 1]
  /\ logf' = logf /\ objects' = objects

LEMMA OthersReplaced ==
  ASSUME IInv, NEW s \in Session, Exclusive(s), Apart(s),
         holder' \in {holder, None}, Replaced, NEW t \in Session \ {s}
  PROVE  MemoryAt(t)' /\ LoadingAt(t)'
<1>1. TypeInv /\ DiskInv /\ MemoryAt(t) /\ LoadingAt(t)
  BY DEF IInv, SessionInv
<1>2. /\ pc'[t] = pc[t] /\ op'[t] = op[t] /\ loading'[t] = loading[t] /\ cache'[t] = cache[t]
      /\ stamp'[t] = stamp[t] /\ gen'[t] = gen[t] /\ lines'[t] = lines[t]
  BY DEF Apart
<1>3. ~Exclusive(t) /\ ~Exclusive(t)' /\ op'[t] = "read"
  BY OthersRead
<1>4. /\ snap'.stamp = snap.stamp + 1 /\ snap'.map = objects /\ objects' = objects /\ logf' = logf
      /\ snap.stamp \in Nat /\ stamp[t] \in Nat /\ objects \in Index /\ snap.map \in Index
  BY <1>1 DEF TypeInv, Snapshot, Replaced
<1>5. ASSUME Remembers(t), cache[t] # None PROVE Remembers(t)' /\ stamp'[t] < snap'.stamp
  <2>1. stamp'[t] < snap'.stamp /\ gen'[t] = stamp'[t]
    BY <1>2, <1>4, <1>5 DEF Remembers
  <2>2. NotNewer(cache[t], objects)' /\ NotNewer(cache[t], snap.map)'
    BY <1>2, <1>4, <1>5 DEF Remembers, NotNewer
  <2>3. stamp'[t] \in Nat /\ snap'.stamp \in Nat
    BY <1>2, <1>4
  <2> QED
    BY <2>1, <2>2, <2>3 DEF Remembers
<1>6. MemoryAt(t)'
  BY <1>1, <1>2, <1>3, <1>5 DEF MemoryAt
<1>7. LoadingAt(t)'
  <2>1. ASSUME loading[t] # None
        PROVE  /\ loading[t].stamp < snap'.stamp /\ loading[t].stamp \in Nat
               /\ NotNewer(loading[t].map, snap'.map)
    <3>1. loading[t] \in Snapshot
      BY <1>1, <2>1 DEF TypeInv
    <3>2. loading[t].stamp \in Nat /\ loading[t].map \in Index /\ loading[t].stamp <= snap.stamp
      BY <1>1, <2>1, <3>1 DEF Snapshot, LoadingAt
    <3>3. NotNewer(snap.map, objects)
      BY <1>1 DEF DiskInv
    <3>4. NotNewer(loading[t].map, objects)
      <4>1. CASE loading[t] = snap
        BY <3>3, <4>1
      <4>2. CASE loading[t] # snap
        <5>1. NotNewer(loading[t].map, snap.map)
          BY <1>1, <1>4, <2>1, <3>2, <4>2 DEF LoadingAt
        <5> QED
          BY <1>4, <3>2, <3>3, <5>1 DEF NotNewer, Index, Entry
      <4> QED
        BY <4>1, <4>2
    <3> QED
      BY <1>4, <3>2, <3>4
  <2>2. RecordsAbove(loading[t].map)' <=> RecordsAbove(loading[t].map)
    BY <1>2, <1>4 DEF RecordsAbove
  <2>3. loading[t] # None => NotNewer(loading[t].map, snap.map)'
    BY <1>2, <1>4, <2>1 DEF NotNewer
  <2>4. cache'[t] # None /\ loading[t] # None => NotNewer(cache[t], loading[t].map)'
    BY <1>1, <1>2 DEF LoadingAt, NotNewer
  <2>5. loading[t] # None => snap'.stamp \in Nat /\ snap'.stamp # loading[t].stamp
    BY <1>4, <2>1
  <2> QED
    BY <1>1, <1>2, <1>3, <1>4, <2>1, <2>2, <2>3, <2>4, <2>5 DEF LoadingAt
<1> QED
  BY <1>6, <1>7

\* A step of the session that has the disk to itself keeps the invariant if it keeps what
\* is said of the disk and of that session.
LEMMA Alone ==
  ASSUME IInv, TypeInv', NEW s \in Session, Exclusive(s), Apart(s), holder' \in {holder, None},
         holder' = s => pc'[s] # "idle",
         DiskInv', NothingLost', Numbered', WrittenAt(s)', SessionInv(s)', Forward(s),
         journal' # None => Active(s)',
         Grows \/ Replaced
  PROVE  IInv' /\ Advances
<1>1. \A t \in Session : SessionInv(t)'
  <2> SUFFICES ASSUME NEW t \in Session, t # s PROVE SessionInv(t)'
    OBVIOUS
  <2>1. LockAt(t)' /\ JournalAt(t)' /\ ReadyAt(t)'
    BY OthersRead
  <2>2. MemoryAt(t)' /\ LoadingAt(t)'
    <3>1. CASE Grows
      BY <3>1, OthersGrow DEF DiskInv
    <3>2. CASE Replaced
      BY <3>2, OthersReplaced
    <3> QED
      BY <3>1, <3>2
  <2> QED
    BY <2>1, <2>2 DEF SessionInv
<1>2. \A t \in Session : WrittenAt(t)'
  BY OthersRead
<1>3. holder' # None => Busy(holder)'
  <2>1. holder' \in Session \cup {None}
    BY DEF TypeInv
  <2>2. holder' # None => holder' = s
    BY <2>1, OthersRead
  <2> QED
    BY <2>2 DEF Busy
<1>4. JournalInv'
  BY DEF JournalInv
<1>5. Advances
  BY OnlyForward DEF IInv
<1> QED
  BY <1>1, <1>2, <1>3, <1>4, <1>5 DEF IInv, HistoryInv

\* A log that stays goes on saying less than the objects.
LEMMA LogStays ==
  ASSUME IInv, NEW s \in Session, Exclusive(s), pc[s] \notin {"healSnapshot", "healDrop"},
         logf' = logf, snap' = snap, NotNewer(objects, objects'), objects' \in Index
  PROVE  LogInv'
<1>1. TypeInv /\ LogInv
  BY DEF IInv, DiskInv
<1>2. ~(logf # None /\ logf.torn)
  <2>1. ~Waits(s)
    BY DEF Exclusive, Active, Writes, Healing, Waits, Loading
  <2> QED
    BY <2>1, NotTorn
<1> SUFFICES ASSUME logf # None PROVE LogInv'
  BY DEF LogInv
<1>3. logf \in Log /\ snap.map \in Index /\ objects \in Index
  BY <1>1 DEF TypeInv, Snapshot
<1>4. logf.recs \in Seq(Line)
  BY <1>3 DEF Log
<1>5. \A i \in 1..Len(logf.recs) : logf.recs[i].note \in Note /\ logf.recs[i].entry.ed \in Nat
  <2>1. \A i \in 1..Len(logf.recs) : logf.recs[i] \in Line
    BY <1>4
  <2> QED
    BY <2>1 DEF Line, Entry
<1>6. RecordsBelow(IF logf.gen = snap.gen THEN objects ELSE snap.map)'
  <2>1. CASE logf.gen = snap.gen
    <3>1. RecordsBelow(objects)
      BY <1>1, <2>1 DEF LogInv
    <3>2. \A i \in 1..Len(logf.recs) : logf.recs[i].entry.ed <= objects'[logf.recs[i].note].ed
      BY <1>3, <1>5, <3>1 DEF RecordsBelow, NotNewer, Index, Entry
    <3> QED
      BY <2>1, <3>2 DEF RecordsBelow
  <2>2. CASE logf.gen # snap.gen
    <3>1. RecordsBelow(snap.map)
      BY <1>1, <2>2 DEF LogInv
    <3> QED
      BY <2>2, <3>1 DEF RecordsBelow
  <2> QED
    BY <2>1, <2>2
<1>7. RecordsAbove(snap.map)' <=> RecordsAbove(snap.map)
  BY DEF RecordsAbove
<1> QED
  BY <1>1, <1>2, <1>6, <1>7 DEF LogInv

\* Nothing lost, by a step that leaves objects and history alone.
LEMMA HistoryStays ==
  ASSUME IInv, UNCHANGED <<objects, archive, acked>>
  PROVE  NothingLost' /\ Numbered'
  BY DEF IInv, HistoryInv, NothingLost, Numbered

LEMMA SelfNotNewer == ASSUME NEW a \in Index PROVE NotNewer(a, a)
  BY DEF NotNewer, Index, Entry

\* The lock is held on, and the note or notes kept, while a write goes on.
LEMMA StillLocked ==
  ASSUME IInv, NEW s \in Session, Apart(s), holder' = holder, op'[s] = op[s], Active(s) \/ pc[s] = "begin",
         pc[s] \notin Healing, pc'[s] \in Writes,
         pc'[s] \in {"archive", "object", "commit", "append", "end"} => op[s] \in Puts,
         pc'[s] \in {"commit", "append"} => op[s] # "putMany",
         op[s] \in {"put", "remove"} => todo'[s] = todo[s],
         op[s] = "putMany" => (todo'[s] = {} <=> pc'[s] \in {"snapshot", "dropLog", "end"})
  PROVE  LockAt(s)'
<1>1. LockAt(s)
  BY DEF IInv, SessionInv
<1>2. Writing(s)' <=> holder' = s
  BY <1>1 DEF LockAt, Writing
<1>3. op[s] = "close" => \A t \in Session \ {s} : pc'[t] = "idle"
  BY <1>1 DEF LockAt, Apart
<1>4. op[s] \in {"put", "remove"} => \E n \in Note : todo'[s] = {n}
  BY <1>1 DEF LockAt
<1>5. pc'[s] # "idle" /\ pc'[s] \notin Healing /\ pc'[s] # "begin"
  BY DEF Writes, Healing
<1>6. op[s] # "read"
  BY <1>1, <1>5 DEF LockAt, Active, Writes, Puts
<1> QED
  BY <1>2, <1>3, <1>4, <1>5, <1>6 DEF LockAt

LEMMA BeginJournalKeeps ==
  ASSUME IInv, TypeInv', NEW s \in Session, BeginJournal(s)
  PROVE  IInv' /\ Advances
<1>1. CASE Rejects(s)
  BY <1>1, RejectKeeps
<1>2. CASE ~Rejects(s)
  <2>1. TypeInv /\ DiskInv /\ LockAt(s) /\ JournalAt(s) /\ ReadyAt(s) /\ LoadingAt(s)
    BY DEF IInv, SessionInv
  <2>2. /\ pc[s] = "begin" /\ journal' = todo[s] /\ pc' = [pc EXCEPT ![s] = "archive"]
        /\ UNCHANGED <<work, objects, archive, snap, logf, loading, memory, writes, crashes, acked>>
    BY <1>2 DEF BeginJournal, Goto
  <2>3. /\ Apart(s) /\ pc'[s] = "archive" /\ op'[s] = op[s] /\ todo'[s] = todo[s] /\ holder' = holder
        /\ cache'[s] = cache[s] /\ stamp'[s] = stamp[s] /\ gen'[s] = gen[s] /\ lines'[s] = lines[s]
        /\ loading'[s] = loading[s] /\ loading[s] = None
    BY <2>1, <2>2 DEF Apart, TypeInv, work, memory, LoadingAt
  <2>4. Exclusive(s) /\ Bound(s) /\ cache[s] = objects /\ objects \in Index /\ op[s] \in Puts
        /\ gen[s] = snap.gen /\ journal = None
    BY <2>1, <2>2 DEF Exclusive, ReadyAt, TypeInv, LockAt, JournalAt
  <2>5. todo[s] \subseteq Note /\ todo[s] # None
    BY <2>1, ConstantsOK DEF TypeInv
  <2>6. DiskIndex' = DiskIndex /\ DiskIndex = objects /\ (\A g : LinesFor(g)' = LinesFor(g))
        /\ (\A k : Prefix(k)' = Prefix(k))
    BY <2>1, <2>2, <2>4, DiskReads, DiskFacts
  <2>7. LinesFor(snap.gen)' = LinesFor(snap.gen)
    BY <2>2, <2>6 DEF LinesFor
  <2>8. Bound(s)'
    BY <2>2, <2>3, <2>4, <2>7 DEF Bound
  <2>9. DiskInv'
    <3>1. LogInv'
      BY <2>1, <2>2, <2>4, LogStays, SelfNotNewer
    <3>2. JournalCoversStale'
      BY <2>2, <2>6 DEF JournalCoversStale
    <3> QED
      BY <2>1, <2>2, <3>1, <3>2 DEF DiskInv, NotNewer
  <2>10. LockAt(s)'
    <3>1. op[s] = "putMany" => todo[s] # {}
      BY <2>1, <2>2 DEF LockAt
    <3> QED
      BY <2>2, <2>3, <2>4, <3>1, StillLocked DEF Writes, Healing
  <2>11. JournalAt(s)'
    <3>1. op[s] # "close" /\ op[s] # "compact"
      BY <2>4 DEF Puts
    <3> QED
      BY <2>2, <2>3, <2>5, <3>1 DEF JournalAt, Healing
  <2>12. ReadyAt(s)'
    BY <2>2, <2>3, <2>4, <2>8 DEF ReadyAt
  <2>13. MemoryAt(s)' /\ LoadingAt(s)' /\ WrittenAt(s)' /\ Active(s)'
    <3>1. WrittenAt(s) /\ Active(s)'
      BY <2>3 DEF IInv, HistoryInv, Active, Writes
    <3> QED
      BY <2>2, <2>3, <3>1 DEF MemoryAt, LoadingAt, WrittenAt, Exclusive
  <2>14. Forward(s)
    BY <2>3, <2>4, SelfNotNewer DEF Forward
  <2>15. Grows
    <3>1. LinesFor(snap.gen) \in Nat
      BY <2>1, LinesFacts
    <3> QED
      BY <2>2, <2>4, <2>6, <2>7, <3>1, SelfNotNewer DEF Grows
  <2>16. NothingLost' /\ Numbered'
    BY <2>2, HistoryStays
  <2> QED
    BY <2>3, <2>4, <2>9, <2>10, <2>11, <2>12, <2>13, <2>14, <2>15, <2>16, Alone DEF SessionInv
<1> QED
  BY <1>1, <1>2

\* What is archived is what is about to be replaced.
LEMMA ArchiveKeeps ==
  ASSUME IInv, TypeInv', NEW s \in Session, Archive(s)
  PROVE  IInv' /\ Advances
<1> DEFINE n == NextNote(s)
<1>1. TypeInv /\ DiskInv /\ LockAt(s) /\ JournalAt(s) /\ ReadyAt(s) /\ LoadingAt(s)
      /\ NothingLost /\ Numbered /\ WrittenAt(s)
  BY DEF IInv, SessionInv, HistoryInv
<1>2. /\ pc[s] = "archive"
      /\ UNCHANGED <<objects, snap, logf, journal, loading, memory, writes, crashes, acked>>
  BY DEF Archive
<1>3. Exclusive(s) /\ Bound(s) /\ cache[s] = objects /\ objects \in Index /\ op[s] \in Puts
      /\ gen[s] = snap.gen
  BY <1>1, <1>2 DEF Exclusive, Active, Writes, ReadyAt, TypeInv, LockAt
<1>4. n \in todo[s] /\ n \in Note
  BY <1>2, <1>3, NextNoteFacts
<1>5. objects[n] \in Entry /\ objects[n].rev \in Nat
  BY <1>3, <1>4 DEF Index, Entry
<1>6. /\ archive' = (IF objects[n].rev = 0 \/ \E e \in archive[n] : e.rev = objects[n].rev
                     THEN archive ELSE [archive EXCEPT ![n] = archive[n] \cup {objects[n]}])
      /\ pc' = [pc EXCEPT ![s] = "object"] /\ UNCHANGED work
  BY <1>3, <1>5 DEF Archive, Goto
<1>7. /\ Apart(s) /\ pc'[s] = "object" /\ op'[s] = op[s] /\ todo'[s] = todo[s] /\ holder' = holder
      /\ cache'[s] = cache[s] /\ stamp'[s] = stamp[s] /\ gen'[s] = gen[s] /\ lines'[s] = lines[s]
      /\ loading'[s] = loading[s] /\ loading[s] = None
  BY <1>1, <1>2, <1>6 DEF Apart, TypeInv, work, memory, LoadingAt
<1>8. /\ \A m \in Note : archive[m] \subseteq archive'[m]
      /\ \A m \in Note : \A v \in archive'[m] :
           v \in archive[m] \/ (m = n /\ v = objects[n] /\ objects[n].rev > 0)
      /\ objects[n].rev > 0 => \E e \in archive'[n] : e.rev = objects[n].rev
  <2>1. archive \in [Note -> SUBSET Entry]
    BY <1>1 DEF TypeInv
  <2> HIDE DEF n
  <2>2. CASE objects[n].rev = 0 \/ \E e \in archive[n] : e.rev = objects[n].rev
    BY <1>6, <2>2
  <2>3. CASE ~(objects[n].rev = 0 \/ \E e \in archive[n] : e.rev = objects[n].rev)
    <3>1. archive' = [archive EXCEPT ![n] = archive[n] \cup {objects[n]}]
      BY <1>6, <2>3
    <3> QED
      BY <1>4, <1>5, <2>1, <2>3, <3>1
  <2> QED
    BY <2>2, <2>3
<1> HIDE DEF n
<1>9. NothingLost'
  <2>1. \A e \in acked : \E m \in Note : \E v \in archive'[m] \cup {objects[m]} : v.ed = e
    BY <1>1, <1>8 DEF NothingLost
  <2>2. \A m \in Note : \A v \in archive'[m] : v.rev = objects[m].rev => v = objects[m]
    BY <1>1, <1>8 DEF NothingLost
  <2> QED
    BY <1>2, <2>1, <2>2 DEF NothingLost
<1>10. Numbered'
  <2>1. \A m \in Note : \A v \in archive'[m] : v.rev > 0 /\ (objects[m].rev > 0 => v.rev <= objects[m].rev)
    BY <1>1, <1>5, <1>8 DEF Numbered
  <2> QED
    BY <1>1, <1>2, <2>1 DEF Numbered
<1>11. WrittenAt(s)'
  <2>1. NextNote(s)' = n
    BY <1>7 DEF NextNote, n
  <2>2. objects[n].rev > 0 => objects[n] \in archive'[n]
    <3>1. \A v \in archive'[n] : v.rev = objects[n].rev => v = objects[n]
      BY <1>2, <1>4, <1>9 DEF NothingLost
    <3> QED
      BY <1>8, <3>1
  <2> QED
    BY <1>1, <1>2, <1>7, <2>1, <2>2 DEF WrittenAt
<1>12. DiskIndex' = DiskIndex /\ (\A g : LinesFor(g)' = LinesFor(g)) /\ (\A k : Prefix(k)' = Prefix(k))
  BY <1>2, DiskReads
<1>13. LinesFor(snap.gen)' = LinesFor(snap.gen)
  BY <1>2, <1>12 DEF LinesFor
<1>14. DiskInv'
  <2>1. LogInv'
    BY <1>2, <1>3, LogStays, SelfNotNewer
  <2>2. JournalCoversStale'
    BY <1>1, <1>2, <1>12 DEF JournalCoversStale, DiskInv
  <2> QED
    BY <1>1, <1>2, <2>1, <2>2 DEF DiskInv, NotNewer
<1>15. LockAt(s)'
  <2>1. op[s] = "putMany" => todo[s] # {}
    BY <1>1, <1>2 DEF LockAt
  <2> QED
    BY <1>2, <1>3, <1>7, <2>1, StillLocked DEF Active, Writes, Healing
<1>16. JournalAt(s)'
  <2>1. op[s] # "close" /\ op[s] # "compact"
    BY <1>3 DEF Puts
  <2> QED
    BY <1>1, <1>2, <1>3, <1>7, <2>1 DEF JournalAt, Healing, Writes
<1>17. ReadyAt(s)'
  <2>1. Bound(s)'
    BY <1>2, <1>3, <1>7, <1>13 DEF Bound
  <2> QED
    BY <1>2, <1>3, <1>7, <2>1 DEF ReadyAt
<1>18. MemoryAt(s)' /\ LoadingAt(s)' /\ Active(s)'
  BY <1>7 DEF MemoryAt, LoadingAt, Exclusive, Active, Writes
<1>19. Forward(s)
  BY <1>3, <1>7, SelfNotNewer DEF Forward
<1>20. Grows
  <2>1. LinesFor(snap.gen) \in Nat
    BY <1>1, LinesFacts
  <2> QED
    BY <1>2, <1>3, <1>12, <1>13, <2>1, SelfNotNewer DEF Grows
<1> QED
  BY <1>3, <1>7, <1>9, <1>10, <1>11, <1>14, <1>15, <1>16, <1>17, <1>18, <1>19, <1>20, Alone DEF SessionInv

\* A version that is replaced is in the history, and its successor has a new number.
LEMMA WriteObjectKeeps ==
  ASSUME IInv, TypeInv', NEW s \in Session, WriteObject(s)
  PROVE  IInv' /\ Advances
<1> DEFINE n == NextNote(s)
           new == [rev |-> NextRevision(s, n), ed |-> writes + 1]
           l == IF op[s] # "putMany" THEN "commit" ELSE IF todo[s] = {n} THEN "snapshot" ELSE "archive"
<1>1. TypeInv /\ DiskInv /\ LockAt(s) /\ JournalAt(s) /\ ReadyAt(s) /\ LoadingAt(s)
      /\ NothingLost /\ Numbered /\ WrittenAt(s)
  BY DEF IInv, SessionInv, HistoryInv
<1>2. /\ pc[s] = "object" /\ objects' = [objects EXCEPT ![n] = new]
      /\ cache' = [cache EXCEPT ![s] = [cache[s] EXCEPT ![n] = new]]
      /\ todo' = [todo EXCEPT ![s] = IF op[s] = "putMany" THEN todo[s] \ {n} ELSE todo[s]]
      /\ pc' = [pc EXCEPT ![s] = l] /\ writes' = writes + 1
      /\ UNCHANGED <<archive, snap, logf, journal, holder, op, loading, stamp, gen, lines, crashes, acked>>
  BY DEF WriteObject, Goto
<1>3. Exclusive(s) /\ Bound(s) /\ cache[s] = objects /\ objects \in Index /\ op[s] \in Puts
      /\ gen[s] = snap.gen
  BY <1>1, <1>2 DEF Exclusive, Active, Writes, ReadyAt, TypeInv, LockAt
<1>4. n \in todo[s] /\ n \in Note /\ todo[s] \subseteq Note
  BY <1>1, <1>2, <1>3, NextNoteFacts DEF TypeInv
<1>5. objects[n] \in Entry /\ objects[n].rev \in Nat /\ objects[n].ed \in Nat /\ writes \in Nat
      /\ acked \subseteq 1 .. writes
  BY <1>1, <1>3, <1>4 DEF Index, Entry, TypeInv
<1>6. new.rev \in Nat /\ new.ed = writes + 1 /\ new \in Entry
  <2>1. NextRevision(s, n) \in Nat
    BY <1>2, <1>4, NewEntry
  <2> QED
    BY <1>5, <2>1 DEF Entry
<1>7. /\ op[s] # "remove" => new.rev > 0
      /\ \A v \in archive[n] : v.rev # new.rev /\ (new.rev > 0 => v.rev <= new.rev)
  <2>1. ArchivedBase(n) \in Nat /\ \A v \in archive[n] : v.rev <= ArchivedBase(n)
    BY <1>1, <1>4, BaseFacts
  <2>2. \A v \in archive[n] : v.rev \in Nat /\ v.rev > 0 /\ (objects[n].rev > 0 => v.rev <= objects[n].rev)
    <3>1. archive[n] \subseteq Entry
      BY <1>1, <1>4 DEF TypeInv
    <3> QED
      BY <1>1, <1>4, <3>1 DEF Numbered, Entry
  <2>3. new.rev = IF op[s] = "remove" THEN 0
                  ELSE IF objects[n].rev > 0 THEN objects[n].rev + 1 ELSE ArchivedBase(n) + 1
    BY <1>3 DEF NextRevision
  <2> HIDE DEF new, n
  <2> QED
    BY <1>5, <2>1, <2>2, <2>3
<1>8. /\ Apart(s) /\ pc'[s] = l /\ op'[s] = op[s] /\ holder' = holder
      /\ todo'[s] = (IF op[s] = "putMany" THEN todo[s] \ {n} ELSE todo[s])
      /\ cache'[s] = objects' /\ stamp'[s] = stamp[s] /\ gen'[s] = gen[s] /\ lines'[s] = lines[s]
      /\ loading'[s] = loading[s] /\ loading[s] = None
  <2> HIDE DEF n, new, l
  <2> QED
    BY <1>1, <1>2, <1>3 DEF Apart, TypeInv, LoadingAt
<1> HIDE DEF new, n
<1>9. objects'[n] = new /\ \A m \in Note : m # n => objects'[m] = objects[m]
  BY <1>2, <1>3, <1>4 DEF Index
<1>10. NotNewer(objects, objects') /\ \A m \in Note : objects'[m].ed <= writes'
  <2> SUFFICES ASSUME NEW m \in Note PROVE objects[m].ed <= objects'[m].ed /\ objects'[m].ed <= writes'
    BY DEF NotNewer
  <2>1. objects[m].ed <= writes /\ objects[m].ed \in Nat
    BY <1>1, <1>3 DEF DiskInv, Index, Entry
  <2> QED
    BY <1>2, <1>5, <1>6, <1>9, <2>1
<1>11. objects' \in Index /\ snap.map \in Index
  BY <1>1, <1>2 DEF TypeInv, Snapshot
<1>12. n \in journal /\ journal # None
  BY <1>1, <1>2, <1>3, <1>4 DEF JournalAt, Writes
<1>13. DiskIndex' = DiskIndex /\ (\A g : LinesFor(g)' = LinesFor(g)) /\ (\A k : Prefix(k)' = Prefix(k))
  BY <1>2, DiskReads
<1>14. LinesFor(snap.gen)' = LinesFor(snap.gen)
  BY <1>2, <1>13 DEF LinesFor
<1>15. DiskInv'
  <2>1. LogInv'
    BY <1>2, <1>3, <1>10, <1>11, LogStays
  <2>2. JournalCoversStale'
    BY <1>1, <1>2, <1>9, <1>12, <1>13 DEF JournalCoversStale, DiskInv
  <2>3. NotNewer(snap.map, objects')
    BY <1>1, <1>3, <1>10, <1>11 DEF DiskInv, NotNewer, Index, Entry
  <2> QED
    BY <1>1, <1>2, <1>10, <2>1, <2>2, <2>3 DEF DiskInv, NotNewer
<1>16. NothingLost'
  <2>1. ASSUME NEW e \in acked
        PROVE  \E m \in Note : \E v \in archive[m] \cup {objects'[m]} : v.ed = e
    <3>0. PICK m \in Note : \E v \in archive[m] \cup {objects[m]} : v.ed = e
      BY <1>1 DEF NothingLost
    <3>1. PICK v \in archive[m] \cup {objects[m]} : v.ed = e
      BY <3>0
    <3>2. CASE v \in archive[m] \/ m # n
      BY <1>9, <3>1, <3>2
    <3>3. CASE v = objects[n] /\ m = n
      <4>1. objects[n].rev # 0
        BY <1>1, <1>4, <3>1, <3>3 DEF Numbered
      <4>2. objects[n] \in archive[n]
        BY <1>1, <1>2, <1>5, <4>1 DEF WrittenAt, n
      <4> QED
        BY <3>1, <3>3, <4>2
    <3> QED
      BY <3>1, <3>2, <3>3
  <2>2. \A m \in Note : \A v \in archive[m] : v.rev = objects'[m].rev => v = objects'[m]
    BY <1>1, <1>7, <1>9 DEF NothingLost
  <2> QED
    BY <1>2, <2>1, <2>2 DEF NothingLost
<1>17. Numbered'
  <2> SUFFICES ASSUME NEW m \in Note
               PROVE  /\ \A v \in archive[m] : v.rev > 0 /\ (objects'[m].rev > 0 => v.rev <= objects'[m].rev)
                      /\ objects'[m].rev = 0 => objects'[m].ed \notin acked
                      /\ objects'[m].rev > 0 => objects'[m].ed > 0
                      /\ \A k \in Note : k # m /\ objects'[k].ed = objects'[m].ed => objects'[m].ed = 0
    BY <1>2 DEF Numbered
  <2>1. \A k \in Note : objects[k].ed <= writes /\ objects[k].ed \in Nat
    BY <1>1, <1>3 DEF DiskInv, Index, Entry
  <2>2. CASE m = n
    BY <1>1, <1>5, <1>6, <1>7, <1>9, <2>1, <2>2 DEF Numbered
  <2>3. CASE m # n
    BY <1>1, <1>5, <1>6, <1>9, <2>1, <2>3 DEF Numbered
  <2> QED
    BY <2>2, <2>3
<1>18. op[s] \in {"put", "remove"} => todo[s] = {n}
  BY <1>1, <1>4 DEF LockAt
<1>19. WrittenAt(s)'
  <2>1. op[s] = "put" => objects'[n].rev > 0
    BY <1>7, <1>9
  <2>2. op[s] = "putMany" => \A m \in Note \ (todo[s] \ {n}) : objects'[m].rev > 0
    BY <1>1, <1>7, <1>9 DEF WrittenAt
  <2> QED
    BY <1>8, <1>18, <2>1, <2>2 DEF WrittenAt
<1>20. LockAt(s)'
  <2>1. op[s] = "putMany" => (todo'[s] = {} <=> l = "snapshot")
    BY <1>4, <1>8
  <2> QED
    BY <1>2, <1>3, <1>8, <2>1, StillLocked DEF Active, Writes, Healing
<1>21. JournalAt(s)'
  <2>1. op[s] # "close" /\ op[s] # "compact"
    BY <1>3 DEF Puts
  <2>2. todo[s] \subseteq journal /\ (op[s] # "putMany" => journal = todo[s])
    BY <1>1, <1>2, <1>3 DEF JournalAt, Writes
  <2> QED
    BY <1>2, <1>8, <1>12, <2>1, <2>2 DEF JournalAt, Healing
<1>22. ReadyAt(s)'
  <2>1. Bound(s)'
    BY <1>2, <1>3, <1>8, <1>14 DEF Bound
  <2> QED
    BY <1>2, <1>3, <1>8, <2>1 DEF ReadyAt
<1>23. MemoryAt(s)' /\ LoadingAt(s)' /\ Active(s)' /\ l # "idle"
  BY <1>8 DEF MemoryAt, LoadingAt, Exclusive, Active, Writes
<1>24. Forward(s)
  BY <1>3, <1>8, <1>10 DEF Forward
<1>25. Grows
  <2>1. LinesFor(snap.gen) \in Nat
    BY <1>1, LinesFacts
  <2> QED
    BY <1>2, <1>10, <1>13, <1>14, <2>1 DEF Grows
<1> QED
  BY <1>3, <1>8, <1>15, <1>16, <1>17, <1>19, <1>20, <1>21, <1>22, <1>23, <1>24, <1>25, Alone
     DEF SessionInv

\* What the log of the next state gives.
LEMMA LogGives ==
  ASSUME logf' # None, logf'.gen = snap'.gen, NEW recs \in Seq(Line), logf'.recs = recs
  PROVE  LinesFor(snap.gen)' = Len(recs) + 1 /\ DiskIndex' = Replay(snap'.map, recs)
<1>1. LinesFor(snap.gen)' = Len(recs) + 1 /\ Len(recs) \in Nat
  BY DEF LinesFor
<1>2. Max({0, 1}) = 1
  <2>1. \E x \in {0, 1} : \A y \in {0, 1} : x >= y
    OBVIOUS
  <2> QED
    BY <2>1 DEF Max
<1>3. RecordsFrom(snap.gen, 0)' = SubSeq(recs, 1, Len(recs))
  <2>1. RecordsFrom(snap.gen, 0)'
          = IF LinesFor(snap.gen)' = 0 THEN << >> ELSE SubSeq(logf'.recs, Max({0, 1}), Len(logf'.recs))
    BY DEF RecordsFrom
  <2>2. LinesFor(snap.gen)' # 0
    BY <1>1
  <2>3. RecordsFrom(snap.gen, 0)' = SubSeq(recs, Max({0, 1}), Len(recs))
    BY <2>1, <2>2
  <2> QED
    BY <1>2, <2>3
<1>4. SubSeq(recs, 1, Len(recs)) = recs
  BY <1>1, SubSeqFull
<1> QED
  BY <1>1, <1>3, <1>4 DEF DiskIndex

LEMMA NoLogGives ==
  ASSUME logf' = None \/ logf'.gen # snap'.gen, snap'.map \in Index
  PROVE  LinesFor(snap.gen)' = 0 /\ DiskIndex' = snap'.map
<1>1. LinesFor(snap.gen)' = 0
  BY DEF LinesFor
<1>2. RecordsFrom(snap.gen, 0)' = << >>
  BY <1>1 DEF RecordsFrom
<1>3. << >> \in Seq(Line)
  OBVIOUS
<1>4. Replay(snap'.map, << >>) = snap'.map
  BY <1>3, ReplayType
<1> QED
  BY <1>1, <1>2, <1>4 DEF DiskIndex

\* What the log gives.
LEMMA LogNow ==
  ASSUME TypeInv
  PROVE  /\ LinesFor(snap.gen) = 0 => DiskIndex = snap.map
         /\ LinesFor(snap.gen) > 0 => DiskIndex = Replay(snap.map, logf.recs)
<1>1. LinesFor(snap.gen) \in Nat /\ 0 <= LinesFor(snap.gen) /\ snap.map \in Index
  BY LinesFacts DEF TypeInv, Snapshot
<1>2. RecordsFrom(snap.gen, 0) = IF LinesFor(snap.gen) = 0 THEN << >> ELSE logf.recs
  BY <1>1, RecordsFacts
<1>3. << >> \in Seq(Line)
  OBVIOUS
<1>4. Replay(snap.map, << >>) = snap.map
  BY <1>1, <1>3, ReplayType
<1> QED
  BY <1>1, <1>2, <1>4 DEF DiskIndex

\* The log is begun, used, or about to make way.
LEMMA CommitKeeps ==
  ASSUME IInv, TypeInv', NEW s \in Session, Commit(s)
  PROVE  IInv' /\ Advances
<1> DEFINE fresh == lines[s] = 0 /\ ~(lines[s] >= CompactAfter)
           l == IF lines[s] >= CompactAfter THEN "snapshot" ELSE "append"
           new == [gen |-> gen[s], recs |-> << >>, torn |-> FALSE]
<1>1. TypeInv /\ DiskInv /\ LockAt(s) /\ JournalAt(s) /\ ReadyAt(s) /\ LoadingAt(s) /\ WrittenAt(s)
  BY DEF IInv, SessionInv, HistoryInv
<1>2. /\ pc[s] = "commit" /\ pc' = [pc EXCEPT ![s] = l]
      /\ logf' = (IF fresh THEN new ELSE logf)
      /\ lines' = (IF fresh THEN [lines EXCEPT ![s] = 1] ELSE lines)
      /\ UNCHANGED <<objects, archive, snap, journal, work, loading, cache, stamp, gen,
                     writes, crashes, acked>>
  BY DEF Commit, Goto
<1>3. Exclusive(s) /\ Bound(s) /\ cache[s] = objects /\ objects \in Index /\ op[s] \in {"put", "remove"}
      /\ gen[s] = snap.gen /\ lines[s] \in Nat /\ snap.gen \in Nat /\ snap.map \in Index
  BY <1>1, <1>2 DEF Exclusive, Active, Writes, ReadyAt, TypeInv, LockAt, Puts, Snapshot
<1>4. LinesFor(snap.gen) = lines[s]
  BY <1>3 DEF Bound
<1>5. /\ Apart(s) /\ pc'[s] = l /\ op'[s] = op[s] /\ holder' = holder /\ todo'[s] = todo[s]
      /\ cache'[s] = cache[s] /\ stamp'[s] = stamp[s] /\ gen'[s] = gen[s]
      /\ lines'[s] = (IF fresh THEN 1 ELSE lines[s])
      /\ loading'[s] = loading[s] /\ loading[s] = None
  <2> HIDE DEF l, fresh, new
  <2> QED
    BY <1>1, <1>2 DEF Apart, TypeInv, LoadingAt, work
<1>6. fresh => LinesFor(snap.gen)' = 1 /\ DiskIndex' = DiskIndex
  <2> SUFFICES ASSUME fresh PROVE LinesFor(snap.gen)' = 1 /\ DiskIndex' = DiskIndex
    OBVIOUS
  <2>1. logf' = new /\ new.recs = << >> /\ new.gen = snap.gen /\ snap' = snap
    BY <1>2, <1>3
  <2>2. new # None
    <3>1. new \in Log
      BY <1>3 DEF Log
    <3> QED
      BY <3>1, ConstantsOK
  <2>3. << >> \in Seq(Line) /\ Len(<< >>) = 0
    OBVIOUS
  <2> HIDE DEF new
  <2>4. LinesFor(snap.gen)' = 0 + 1 /\ DiskIndex' = Replay(snap.map, << >>)
    BY <2>1, <2>2, <2>3, LogGives
  <2>5. Replay(snap.map, << >>) = snap.map /\ DiskIndex = snap.map
    BY <1>1, <1>3, <1>4, <2>3, ReplayType, LogNow
  <2> QED
    BY <2>4, <2>5
<1>7. ~fresh => /\ DiskIndex' = DiskIndex /\ LinesFor(snap.gen)' = LinesFor(snap.gen)
                /\ (\A k : Prefix(k)' = Prefix(k))
  BY <1>2, DiskReads DEF LinesFor
<1>8. LinesFor(snap.gen)' = lines'[s] /\ lines[s] <= lines'[s]
  <2>1. CASE fresh
    BY <1>5, <1>6, <2>1
  <2>2. CASE ~fresh
    <3> HIDE DEF fresh
    <3> QED
      BY <1>3, <1>4, <1>5, <1>7, <2>2
  <2> QED
    BY <2>1, <2>2
<1>9. DiskInv'
  <2>1. LogInv'
    <3>1. CASE fresh
      <4>1. logf' = new /\ logf'.gen = snap'.gen /\ logf'.recs = << >> /\ ~logf'.torn /\ snap'.gen \in Nat
        BY <1>2, <1>3, <3>1
      <4>2. Len(<< >>) = 0
        OBVIOUS
      <4>3. RecordsBelow(objects)' /\ RecordsAbove(snap.map)'
        BY <4>1, <4>2 DEF RecordsBelow, RecordsAbove
      <4>4. RecordsBelow(IF logf.gen = snap.gen THEN objects ELSE snap.map)'
        BY <4>1, <4>2 DEF RecordsBelow
      <4> QED
        BY <4>1, <4>2, <4>3, <4>4 DEF LogInv
    <3>2. CASE ~fresh
      BY <1>2, <1>3, <3>2, LogStays, SelfNotNewer
    <3> QED
      BY <3>1, <3>2
  <2>2. JournalCoversStale'
    BY <1>1, <1>2, <1>6, <1>7 DEF JournalCoversStale, DiskInv
  <2> QED
    BY <1>1, <1>2, <2>1, <2>2 DEF DiskInv, NotNewer
<1>10. LockAt(s)'
  BY <1>2, <1>3, <1>5, StillLocked DEF Active, Writes, Healing, Puts
<1>11. JournalAt(s)'
  BY <1>1, <1>2, <1>3, <1>5 DEF JournalAt, Healing, Writes, Puts
<1>12. ReadyAt(s)'
  <2>1. Bound(s)'
    BY <1>2, <1>3, <1>5, <1>8 DEF Bound
  <2>2. l = "append" => lines'[s] > 0
    BY <1>3, <1>5
  <2> QED
    BY <1>2, <1>3, <1>5, <2>1, <2>2 DEF ReadyAt
<1>13. MemoryAt(s)' /\ LoadingAt(s)' /\ Active(s)' /\ l # "idle"
  BY <1>5 DEF MemoryAt, LoadingAt, Exclusive, Active, Writes
<1>14. WrittenAt(s)'
  BY <1>1, <1>2, <1>3, <1>5 DEF WrittenAt
<1>15. Forward(s)
  BY <1>3, <1>5, SelfNotNewer DEF Forward
<1>16. Grows
  <2>1. \A k \in Nat : k <= LinesFor(snap.gen) => Prefix(k)' = Prefix(k)
    <3>1. CASE fresh
      BY <1>4, <3>1 DEF Prefix
    <3>2. CASE ~fresh
      BY <1>7, <3>2
    <3> QED
      BY <3>1, <3>2
  <2>2. logf' = logf \/ logf'.gen = snap.gen
    BY <1>2, <1>3
  <2> QED
    BY <1>2, <1>3, <1>4, <1>8, <2>1, <2>2, SelfNotNewer DEF Grows
<1>17. NothingLost' /\ Numbered'
  BY <1>2, HistoryStays
<1> HIDE DEF l
<1> QED
  BY <1>3, <1>5, <1>9, <1>10, <1>11, <1>12, <1>13, <1>14, <1>15, <1>16, <1>17, Alone DEF SessionInv

\* The record that is appended can be read, and is the last the index lacked.
LEMMA AppendKeeps ==
  ASSUME IInv, TypeInv', NEW s \in Session, AppendRecord(s)
  PROVE  IInv' /\ Advances
<1> DEFINE n == NextNote(s)
           recs == logf.recs
           N == Len(recs)
           r == [note |-> n, entry |-> objects[n], sealed |-> TRUE]
<1>1. TypeInv /\ DiskInv /\ LockAt(s) /\ JournalAt(s) /\ ReadyAt(s) /\ LoadingAt(s) /\ WrittenAt(s)
      /\ LogInv
  BY DEF IInv, SessionInv, HistoryInv, DiskInv
<1>2. /\ pc[s] = "append" /\ logf' = Appended(s, n) /\ pc' = [pc EXCEPT ![s] = "end"]
      /\ lines' = [lines EXCEPT ![s] = lines[s] + 1]
      /\ UNCHANGED <<objects, archive, snap, journal, work, loading, cache, stamp, gen,
                     writes, crashes, acked>>
  BY DEF AppendRecord, Goto
<1>3. Exclusive(s) /\ Bound(s) /\ cache[s] = objects /\ objects \in Index /\ op[s] \in {"put", "remove"}
      /\ gen[s] = snap.gen /\ lines[s] > 0 /\ lines[s] \in Nat /\ snap.map \in Index
  BY <1>1, <1>2 DEF Exclusive, Active, Writes, ReadyAt, TypeInv, LockAt, Puts, Snapshot
<1>4. n \in todo[s] /\ n \in Note /\ todo[s] = {n} /\ journal = {n}
  <2>1. n \in todo[s] /\ n \in Note
    BY <1>2, <1>3, NextNoteFacts DEF Puts
  <2>2. todo[s] = {n}
    BY <1>1, <1>3, <2>1 DEF LockAt
  <2> QED
    BY <1>1, <1>2, <1>3, <2>1, <2>2 DEF JournalAt, Puts, Writes
<1>5. LinesFor(snap.gen) = lines[s] /\ logf # None /\ logf.gen = snap.gen /\ recs \in Seq(Line)
      /\ lines[s] = N + 1 /\ N \in Nat
  <2>1. LinesFor(snap.gen) = lines[s]
    BY <1>3 DEF Bound
  <2> QED
    BY <1>1, <1>3, <2>1, LinesFacts
<1>6. ~logf.torn
  BY <1>1, <1>2, <1>5 DEF LogInv, Loading
<1>7. r \in Line /\ objects[n] \in Entry
  BY <1>3, <1>4 DEF Line, Index
<1>8. logf' = [logf EXCEPT !.torn = FALSE, !.recs = Append(recs, r)] /\ logf \in Log
  <2>1. (~logf.torn /\ logf.gen = gen[s] /\ Len(logf.recs) + 1 = lines[s]) = TRUE
    BY <1>3, <1>5, <1>6
  <2> QED
    BY <1>1, <1>2, <1>3, <1>5, <2>1 DEF Appended, TypeInv
<1> DEFINE q == Append(recs, r)
<1>9. /\ q \in Seq(Line) /\ Len(q) = N + 1 /\ q[N + 1] = r /\ \A i \in 1..N : q[i] = recs[i]
  <2> HIDE DEF r, recs
  <2> QED
    BY <1>5, <1>7
<1>10. \A k \in 0..N : SubSeq(q, 1, k) = SubSeq(recs, 1, k)
  <2> SUFFICES ASSUME NEW k \in 0..N PROVE SubSeq(q, 1, k) = SubSeq(recs, 1, k)
    OBVIOUS
  <2> HIDE DEF q, r, recs
  <2> QED
    BY <1>5, <1>9
<1>11. logf' # None /\ logf'.gen = snap'.gen /\ logf'.recs = q /\ ~logf'.torn /\ snap' = snap
  <2>1. logf' \in Log
    <3> HIDE DEF q, r, recs
    <3> QED
      BY <1>8, <1>9 DEF Log, q
  <2>2. logf' # None
    BY <2>1, ConstantsOK
  <2> HIDE DEF r, recs
  <2> QED
    BY <1>2, <1>5, <1>8, <2>2 DEF Log
<1>12. LinesFor(snap.gen)' = N + 2 /\ DiskIndex' = Replay(snap.map, q)
  <2> HIDE DEF q
  <2>1. LinesFor(snap.gen)' = Len(q) + 1 /\ DiskIndex' = Replay(snap.map, q)
    BY <1>9, <1>11, LogGives
  <2> QED
    BY <1>5, <1>9, <2>1
<1>13. DiskIndex' = objects
  <2>1. DiskIndex = Replay(snap.map, recs) /\ DiskIndex \in Index
    BY <1>1, <1>3, <1>5, LogNow, DiskFacts
  <2>2. r.sealed /\ r.note = n /\ r.entry = objects[n]
    OBVIOUS
  <2> HIDE DEF r, recs, n
  <2>3. Replay(snap.map, q) = [DiskIndex EXCEPT ![n] = objects[n]]
    BY <1>3, <1>5, <1>7, <2>1, <2>2, ReplayAppend DEF q
  <2>4. \A m \in Note : m # n => DiskIndex[m] = objects[m]
    BY <1>1, <1>4 DEF DiskInv, JournalCoversStale
  <2> QED
    BY <1>3, <1>4, <1>12, <2>1, <2>3, <2>4 DEF Index
<1>14. /\ Apart(s) /\ pc'[s] = "end" /\ op'[s] = op[s] /\ holder' = holder /\ todo'[s] = todo[s]
       /\ cache'[s] = cache[s] /\ stamp'[s] = stamp[s] /\ gen'[s] = gen[s] /\ lines'[s] = lines[s] + 1
       /\ loading'[s] = loading[s] /\ loading[s] = None
  BY <1>1, <1>2 DEF Apart, TypeInv, LoadingAt, work
<1>15. LogInv'
  <2>1. \A i \in 1..N : recs[i].sealed /\ snap.map[recs[i].note].ed <= recs[i].entry.ed
                        /\ recs[i].entry.ed <= objects[recs[i].note].ed
    BY <1>1, <1>5 DEF LogInv, RecordsAbove, RecordsBelow
  <2>2. snap.map[n].ed <= objects[n].ed /\ objects[n].ed \in Nat
    BY <1>1, <1>4, <1>7 DEF DiskInv, NotNewer, Entry
  <2>3. r.sealed /\ r.note = n /\ r.entry = objects[n]
    OBVIOUS
  <2>4. \A i, j \in 1..N : i < j /\ recs[i].note = recs[j].note => recs[i].entry.ed <= recs[j].entry.ed
    BY <1>1, <1>5 DEF LogInv
  <2> HIDE DEF r, q, n, recs, N
  <2>5. \A i \in 1..(N + 1) : (i \in 1..N /\ q[i] = recs[i]) \/ (i = N + 1 /\ q[i] = r)
    BY <1>5, <1>9
  <2>6. \A i \in 1..(N + 1) : q[i].sealed /\ snap.map[q[i].note].ed <= q[i].entry.ed
                              /\ q[i].entry.ed <= objects[q[i].note].ed
    BY <2>1, <2>2, <2>3, <2>5
  <2>7. \A i, j \in 1..(N + 1) : i < j /\ q[i].note = q[j].note => q[i].entry.ed <= q[j].entry.ed
    <3> SUFFICES ASSUME NEW i \in 1..(N + 1), NEW j \in 1..(N + 1), i < j, q[i].note = q[j].note
                 PROVE  q[i].entry.ed <= q[j].entry.ed
      OBVIOUS
    <3>1. i \in 1..N /\ q[i] = recs[i]
      BY <1>5, <2>5
    <3>2. CASE j \in 1..N
      BY <2>4, <2>5, <3>1, <3>2, <1>5
    <3>3. CASE j = N + 1
      BY <1>9, <2>1, <2>3, <3>1, <3>3
    <3> QED
      BY <1>5, <3>2, <3>3
  <2>8. snap.gen \in Nat
    BY <1>1 DEF TypeInv, Snapshot
  <2>9. RecordsBelow(IF logf.gen = snap.gen THEN objects ELSE snap.map)' /\ RecordsAbove(snap.map)'
    BY <1>2, <1>9, <1>11, <2>6 DEF RecordsBelow, RecordsAbove
  <2> QED
    BY <1>9, <1>11, <2>6, <2>7, <2>8, <2>9 DEF LogInv
<1>16. DiskInv'
  <2>1. JournalCoversStale'
    BY <1>2, <1>13 DEF JournalCoversStale
  <2> QED
    BY <1>1, <1>2, <1>15, <2>1 DEF DiskInv, NotNewer
<1>17. LockAt(s)'
  BY <1>2, <1>3, <1>14, StillLocked DEF Active, Writes, Healing, Puts
<1>18. JournalAt(s)'
  BY <1>1, <1>2, <1>3, <1>14 DEF JournalAt, Healing, Writes, Puts
<1>19. ReadyAt(s)'
  <2>1. Bound(s)'
    BY <1>2, <1>3, <1>5, <1>12, <1>14 DEF Bound
  <2> QED
    BY <1>2, <1>3, <1>13, <1>14, <2>1 DEF ReadyAt
<1>20. MemoryAt(s)' /\ LoadingAt(s)' /\ Active(s)'
  BY <1>14 DEF MemoryAt, LoadingAt, Exclusive, Active, Writes
<1>21. WrittenAt(s)'
  BY <1>1, <1>2, <1>3, <1>14 DEF WrittenAt
<1>22. Forward(s)
  BY <1>3, <1>14, SelfNotNewer DEF Forward
<1>23. Grows
  <2>1. \A k \in Nat : k <= LinesFor(snap.gen) => Prefix(k)' = Prefix(k)
    <3> SUFFICES ASSUME NEW k \in Nat, k <= N + 1 PROVE Prefix(k)' = Prefix(k)
      BY <1>5
    <3>1. CASE k = 0
      BY <3>1 DEF Prefix
    <3>2. CASE k # 0
      <4>1. k - 1 \in 0..N
        BY <1>5, <3>2
      <4> HIDE DEF q, r
      <4> QED
        BY <1>10, <1>11, <3>2, <4>1 DEF Prefix
    <3> QED
      BY <3>1, <3>2
  <2> QED
    BY <1>2, <1>3, <1>5, <1>11, <1>12, <2>1, SelfNotNewer DEF Grows
<1>24. NothingLost' /\ Numbered'
  BY <1>2, HistoryStays
<1> QED
  BY <1>3, <1>14, <1>16, <1>17, <1>18, <1>19, <1>20, <1>21, <1>22, <1>23, <1>24, Alone DEF SessionInv

\* A recovery holds the lock, and the others wait for it.
LEMMA StillHealing ==
  ASSUME IInv, NEW s \in Session, Apart(s), holder' = holder, op'[s] = op[s], todo'[s] = todo[s],
         pc[s] \in Healing, pc'[s] \in Healing, UNCHANGED <<objects, archive, journal>>
  PROVE  LockAt(s)' /\ JournalAt(s)' /\ WrittenAt(s)'
<1>1. LockAt(s) /\ JournalAt(s) /\ WrittenAt(s)
  BY DEF IInv, SessionInv, HistoryInv
<1>2. Writing(s)' <=> Writing(s)
  BY DEF Writing
<1>3. holder = s /\ journal # None /\ \A t \in Session \ {s} : Waits(t)
  BY <1>1 DEF LockAt, JournalAt
<1>4. \A t \in Session \ {s} : Waits(t)'
  BY <1>3 DEF Apart, Waits
<1>5. op[s] # "close"
  BY <1>1, <1>3 DEF JournalAt
<1>6. LockAt(s)'
  <2>1. op[s] \in {"put", "remove"} => \E n \in Note : todo[s] = {n}
    BY <1>1 DEF LockAt
  <2>2. op[s] = "putMany" => todo[s] # {}
    BY <1>1 DEF LockAt, Healing
  <2> QED
    BY <1>3, <1>5, <2>1, <2>2 DEF LockAt, Healing
<1>7. JournalAt(s)'
  BY <1>3, <1>4, <1>5 DEF JournalAt, Healing, Writes
<1>8. WrittenAt(s)'
  BY <1>1 DEF WrittenAt, Healing
<1> QED
  BY <1>6, <1>7, <1>8

\* The snapshot that is written is what the objects say, and the old log is not its own.
LEMMA WriteSnapshotKeeps ==
  ASSUME IInv, TypeInv', NEW s \in Session, WriteSnapshot(s)
  PROVE  IInv' /\ Advances
<1> DEFINE l == IF pc[s] = "snapshot" THEN "dropLog" ELSE "healDrop"
<1>1. TypeInv /\ DiskInv /\ LockAt(s) /\ JournalAt(s) /\ ReadyAt(s) /\ LoadingAt(s) /\ WrittenAt(s)
      /\ LogInv
  BY DEF IInv, SessionInv, HistoryInv, DiskInv
<1>2. /\ pc[s] \in {"snapshot", "healSnapshot"} /\ pc' = [pc EXCEPT ![s] = l]
      /\ snap' = [gen |-> gen[s] + 1, map |-> cache[s], stamp |-> snap.stamp + 1]
      /\ gen' = [gen EXCEPT ![s] = gen[s] + 1]
      /\ UNCHANGED <<objects, archive, logf, journal, work, loading, cache, stamp, lines,
                     writes, crashes, acked>>
  BY DEF WriteSnapshot, Goto
<1>3. Exclusive(s) /\ Bound(s) /\ cache[s] = objects /\ objects \in Index
      /\ gen[s] = snap.gen /\ snap.gen \in Nat /\ snap.stamp \in Nat /\ snap.map \in Index
  BY <1>1, <1>2 DEF Exclusive, Active, Writes, Healing, ReadyAt, TypeInv, Snapshot
<1>4. /\ snap'.gen = snap.gen + 1 /\ snap'.stamp = snap.stamp + 1 /\ snap'.map = objects
      /\ snap' = [gen |-> snap.gen + 1, map |-> objects, stamp |-> snap.stamp + 1]
  BY <1>2, <1>3
<1>5. /\ Apart(s) /\ pc'[s] = l /\ op'[s] = op[s] /\ holder' = holder /\ todo'[s] = todo[s]
      /\ cache'[s] = cache[s] /\ stamp'[s] = stamp[s] /\ gen'[s] = snap'.gen /\ lines'[s] = lines[s]
      /\ loading'[s] = loading[s] /\ loading[s] = None
  <2> HIDE DEF l
  <2> QED
    BY <1>1, <1>2, <1>3, <1>4 DEF Apart, TypeInv, LoadingAt, work
<1>6. LinesFor(snap.gen)' = 0 /\ DiskIndex' = objects
  <2>1. logf' = None \/ logf'.gen # snap'.gen
    <3>1. logf # None => logf.gen <= snap.gen /\ logf.gen \in Nat
      BY <1>1 DEF LogInv, TypeInv, Log
    <3> QED
      BY <1>2, <1>3, <1>4, <3>1
  <2> QED
    BY <1>3, <1>4, <2>1, NoLogGives
<1>7. LogInv'
  <2> SUFFICES ASSUME logf # None PROVE LogInv'
    BY <1>2 DEF LogInv
  <2>1. logf.gen <= snap.gen /\ logf.gen \in Nat /\ logf.recs \in Seq(Line)
    BY <1>1 DEF LogInv, TypeInv, Log
  <2>2. logf.gen <= snap'.gen /\ logf.gen # snap'.gen
    BY <1>3, <1>4, <2>1
  <2>3. RecordsBelow(snap'.map)
    <3>1. CASE logf.gen = snap.gen
      BY <1>1, <1>4, <3>1 DEF LogInv
    <3>2. CASE logf.gen # snap.gen
      <4>1. RecordsBelow(snap.map) /\ NotNewer(snap.map, objects)
        BY <1>1, <3>2 DEF LogInv, DiskInv
      <4>2. \A i \in 1..Len(logf.recs) : logf.recs[i].note \in Note /\ logf.recs[i].entry.ed \in Nat
        <5>1. \A i \in 1..Len(logf.recs) : logf.recs[i] \in Line
          BY <2>1
        <5> QED
          BY <5>1 DEF Line, Entry
      <4>3. \A n \in Note : snap.map[n].ed \in Nat /\ objects[n].ed \in Nat
        BY <1>3 DEF Index, Entry
      <4>4. ASSUME NEW i \in 1..Len(logf.recs) PROVE logf.recs[i].entry.ed <= objects[logf.recs[i].note].ed
        <5> DEFINE n == logf.recs[i].note
        <5>1. n \in Note /\ logf.recs[i].entry.ed \in Nat
          BY <4>2
        <5>2. logf.recs[i].entry.ed <= snap.map[n].ed
          BY <4>1 DEF RecordsBelow
        <5> HIDE DEF n
        <5>3. snap.map[n].ed <= objects[n].ed
          BY <4>1, <5>1 DEF NotNewer
        <5>4. logf.recs[i].entry.ed <= objects[n].ed
          BY <4>3, <5>1, <5>2, <5>3
        <5> QED
          BY <5>4 DEF n
      <4> QED
        BY <1>4, <4>4 DEF RecordsBelow
    <3> QED
      BY <3>1, <3>2
  <2>4. RecordsBelow(IF logf.gen = snap.gen THEN objects ELSE snap.map)'
    BY <1>2, <2>2, <2>3 DEF RecordsBelow
  <2>5. logf.torn => journal # None /\ \A t \in Session : pc'[t] \in Loading \cup {"healSnapshot", "healDrop"}
    <3> SUFFICES ASSUME logf.torn
                 PROVE  journal # None /\ \A t \in Session : pc'[t] \in Loading \cup {"healSnapshot", "healDrop"}
      OBVIOUS
    <3>1. journal # None /\ \A t \in Session : pc[t] \in Loading \cup {"healSnapshot", "healDrop"}
      BY <1>1 DEF LogInv
    <3>2. pc'[s] = "healDrop"
      BY <1>2, <1>5, <3>1 DEF Loading
    <3> QED
      BY <1>5, <3>1, <3>2 DEF Apart
  <2> QED
    BY <1>1, <1>2, <2>2, <2>4, <2>5 DEF LogInv
<1>8. DiskInv'
  <2>1. JournalCoversStale'
    BY <1>2, <1>6 DEF JournalCoversStale
  <2>2. NotNewer(snap.map, objects)'
    BY <1>2, <1>3, <1>4, SelfNotNewer DEF NotNewer
  <2> QED
    BY <1>1, <1>2, <1>3, <1>4, <1>7, <2>1, <2>2 DEF DiskInv
<1>9. LockAt(s)' /\ JournalAt(s)' /\ WrittenAt(s)'
  <2>1. CASE pc[s] = "snapshot"
    <3>1. op[s] # "read" /\ (op[s] = "putMany" => todo[s] = {})
      BY <1>1, <2>1 DEF LockAt
    <3>2. LockAt(s)'
      BY <1>5, <2>1, <3>1, StillLocked DEF Active, Writes, Healing
    <3>3. JournalAt(s)'
      BY <1>1, <1>2, <1>5, <2>1 DEF JournalAt, Healing, Writes
    <3>4. WrittenAt(s)'
      BY <1>1, <1>2, <1>5, <2>1 DEF WrittenAt
    <3> QED
      BY <3>2, <3>3, <3>4
  <2>2. CASE pc[s] = "healSnapshot"
    BY <1>2, <1>5, <2>2, StillHealing DEF Healing
  <2> QED
    BY <1>2, <2>1, <2>2
<1>10. ReadyAt(s)'
  BY <1>2, <1>3, <1>5, <1>6 DEF ReadyAt
<1>11. MemoryAt(s)' /\ LoadingAt(s)' /\ Active(s)' /\ l # "idle"
  BY <1>5 DEF MemoryAt, LoadingAt, Exclusive, Active, Writes, Healing
<1>12. Forward(s)
  BY <1>3, <1>5, SelfNotNewer DEF Forward
<1>13. Replaced
  BY <1>2, <1>4 DEF Replaced
<1>14. NothingLost' /\ Numbered'
  BY <1>2, HistoryStays
<1> QED
  BY <1>3, <1>5, <1>8, <1>9, <1>10, <1>11, <1>12, <1>13, <1>14, Alone DEF SessionInv

\* The log goes when the snapshot says it all.
LEMMA DropLogKeeps ==
  ASSUME IInv, TypeInv', NEW s \in Session, DropLog(s)
  PROVE  IInv' /\ Advances
<1>1. TypeInv /\ DiskInv /\ LockAt(s) /\ JournalAt(s) /\ ReadyAt(s) /\ LoadingAt(s) /\ WrittenAt(s)
  BY DEF IInv, SessionInv, HistoryInv
<1>2. /\ pc[s] \in {"dropLog", "healDrop"} /\ logf' = None
      /\ UNCHANGED <<objects, archive, snap, journal, loading, writes, crashes, acked>>
  BY DEF DropLog
<1>3. Exclusive(s) /\ cache[s] = objects /\ objects \in Index /\ op[s] \in Kinds /\ LinesFor(snap.gen) = 0
      /\ gen[s] = snap.gen /\ snap.gen \in Nat /\ snap.stamp \in Nat /\ snap.map \in Index
      /\ DiskIndex = objects /\ loading'[s] = None
  BY <1>1, <1>2 DEF Exclusive, Active, Writes, Healing, ReadyAt, TypeInv, Snapshot, LoadingAt
<1>4. LinesFor(snap.gen)' = 0 /\ DiskIndex' = objects /\ snap.map = objects
  <2>1. LinesFor(snap.gen)' = 0 /\ DiskIndex' = snap.map
    BY <1>2, <1>3, NoLogGives
  <2>2. DiskIndex = snap.map
    BY <1>1, <1>3, LogNow
  <2> QED
    BY <1>3, <2>1, <2>2
<1>5. DiskInv'
  <2>1. JournalCoversStale'
    BY <1>2, <1>4 DEF JournalCoversStale
  <2>2. LogInv'
    BY <1>2 DEF LogInv
  <2> QED
    BY <1>1, <1>2, <2>1, <2>2 DEF DiskInv, NotNewer
<1>6. Grows
  BY <1>2, <1>3, <1>4, SelfNotNewer DEF Grows, Prefix
<1>7. NothingLost' /\ Numbered'
  BY <1>2, HistoryStays
<1>8. CASE pc[s] = "dropLog" /\ op[s] = "close"
  <2>1. Return(s) /\ Forget(s)
    BY <1>8 DEF DropLog
  <2>2. /\ Apart(s) /\ pc'[s] = "idle" /\ op'[s] = "read" /\ cache'[s] = None
        /\ holder' = IF holder = s THEN None ELSE holder
    BY <1>1, <1>2, <2>1 DEF Apart, TypeInv, Return, Goto, Leave, Forget
  <2>3. SessionInv(s)' /\ WrittenAt(s)'
    BY <1>3, <2>2, AtRest, ConstantsOK
  <2>4. Forward(s) /\ journal' = None
    BY <1>1, <1>2, <1>8, <2>2 DEF Forward, JournalAt
  <2> QED
    BY <1>3, <1>5, <1>6, <1>7, <2>2, <2>3, <2>4, Alone, ConstantsOK
<1>9. CASE pc[s] = "dropLog" /\ op[s] = "compact"
  <2>1. /\ Return(s) /\ lines' = [lines EXCEPT ![s] = 0] /\ stamp' = [stamp EXCEPT ![s] = snap.stamp]
        /\ UNCHANGED <<cache, gen>>
    BY <1>9 DEF DropLog
  <2>2. /\ Apart(s) /\ pc'[s] = "idle" /\ op'[s] = "read" /\ cache'[s] = objects
        /\ stamp'[s] = snap.stamp /\ gen'[s] = snap.gen /\ lines'[s] = 0
        /\ holder' = IF holder = s THEN None ELSE holder
    BY <1>1, <1>2, <1>3, <2>1 DEF Apart, TypeInv, Return, Goto, Leave
  <2>3. Remembers(s)'
    <3>1. << >> \in Seq(Line)
      OBVIOUS
    <3>2. Replay(snap.map, << >>) = snap.map
      BY <1>3, <3>1, ReplayType
    <3>3. Prefix(lines[s])' = << >>
      BY <2>2 DEF Prefix
    <3>4. NotNewer(cache[s], objects)'
      BY <1>2, <1>3, <2>2, SelfNotNewer DEF NotNewer
    <3> QED
      BY <1>1, <1>2, <1>3, <1>4, <2>2, <3>2, <3>3, <3>4 DEF Remembers, DiskInv
  <2>4. SessionInv(s)' /\ WrittenAt(s)'
    BY <1>3, <2>2, <2>3, AtRest, ConstantsOK
  <2>5. Forward(s) /\ journal' = None
    BY <1>1, <1>2, <1>3, <1>9, <2>2, SelfNotNewer DEF Forward, JournalAt
  <2> QED
    BY <1>3, <1>5, <1>6, <1>7, <2>2, <2>4, <2>5, Alone, ConstantsOK
<1>10. CASE ~(pc[s] = "dropLog" /\ op[s] \in {"close", "compact"})
  <2> DEFINE l == IF pc[s] = "healDrop" THEN "healEnd" ELSE "end"
  <2>1. /\ pc' = [pc EXCEPT ![s] = l] /\ lines' = [lines EXCEPT ![s] = 0]
        /\ stamp' = [stamp EXCEPT ![s] = snap.stamp] /\ UNCHANGED <<cache, gen, work>>
    BY <1>2, <1>10 DEF DropLog, Goto
  <2>2. /\ Apart(s) /\ pc'[s] = l /\ op'[s] = op[s] /\ todo'[s] = todo[s] /\ holder' = holder
        /\ cache'[s] = objects /\ stamp'[s] = snap.stamp /\ gen'[s] = snap.gen /\ lines'[s] = 0
    <3> HIDE DEF l
    <3> QED
      BY <1>1, <1>2, <1>3, <2>1 DEF Apart, TypeInv, work
  <2>3. LockAt(s)' /\ JournalAt(s)' /\ WrittenAt(s)'
    <3>1. CASE pc[s] = "dropLog"
      <4>1. op[s] \in Puts /\ (op[s] = "putMany" => todo[s] = {})
        BY <1>1, <1>3, <1>10, <3>1 DEF LockAt, Kinds, Puts
      <4>2. LockAt(s)'
        BY <2>2, <3>1, <4>1, StillLocked DEF Active, Writes, Healing
      <4>3. JournalAt(s)'
        BY <1>1, <1>2, <2>2, <3>1, <4>1 DEF JournalAt, Healing, Writes, Puts
      <4>4. WrittenAt(s)'
        BY <1>1, <1>2, <2>2, <3>1 DEF WrittenAt
      <4> QED
        BY <4>2, <4>3, <4>4
    <3>2. CASE pc[s] = "healDrop"
      BY <1>2, <2>2, <3>2, StillHealing DEF Healing
    <3> QED
      BY <1>2, <3>1, <3>2
  <2>4. Bound(s)'
    BY <1>2, <1>4, <2>2 DEF Bound
  <2>5. ReadyAt(s)'
    BY <1>2, <1>4, <2>2, <2>4 DEF ReadyAt
  <2>6. MemoryAt(s)' /\ LoadingAt(s)' /\ Active(s)' /\ l # "idle"
    BY <1>3, <2>2 DEF MemoryAt, LoadingAt, Exclusive, Active, Writes, Healing
  <2>7. Forward(s)
    BY <1>3, <2>2, SelfNotNewer DEF Forward
  <2> QED
    BY <1>3, <1>5, <1>6, <1>7, <2>2, <2>3, <2>5, <2>6, <2>7, Alone DEF SessionInv
<1> QED
  BY <1>8, <1>9, <1>10

\* A write returns with the index on disk saying what the objects say.
LEMMA EndWriteKeeps ==
  ASSUME IInv, TypeInv', NEW s \in Session, EndWrite(s)
  PROVE  IInv' /\ Advances
<1> DEFINE N == IF op[s] = "put" THEN todo[s] ELSE Note
<1>1. TypeInv /\ DiskInv /\ LockAt(s) /\ JournalAt(s) /\ ReadyAt(s) /\ LoadingAt(s) /\ WrittenAt(s)
      /\ NothingLost /\ Numbered
  BY DEF IInv, SessionInv, HistoryInv
<1>2. /\ pc[s] = "end" /\ journal' = None /\ Return(s)
      /\ acked' = (IF op[s] = "remove" THEN acked ELSE acked \cup {objects[n].ed : n \in N})
      /\ UNCHANGED <<objects, archive, snap, logf, loading, cache, stamp, gen, lines, writes, crashes>>
  BY DEF EndWrite, memory
<1>3. Exclusive(s) /\ Bound(s) /\ cache[s] = objects /\ objects \in Index /\ op[s] \in Puts
      /\ DiskIndex = objects /\ loading'[s] = None
  BY <1>1, <1>2 DEF Exclusive, Active, Writes, ReadyAt, TypeInv, LockAt, LoadingAt
<1>4. /\ Apart(s) /\ pc'[s] = "idle" /\ op'[s] = "read"
      /\ cache'[s] = cache[s] /\ stamp'[s] = stamp[s] /\ gen'[s] = gen[s] /\ lines'[s] = lines[s]
      /\ holder' = IF holder = s THEN None ELSE holder
  <2> HIDE DEF N
  <2> QED
    BY <1>1, <1>2 DEF Apart, TypeInv, Return, Goto, Leave
<1>5. op[s] # "remove" => \A n \in N : n \in Note /\ objects[n].rev > 0
  <2>1. todo[s] \subseteq Note /\ (op[s] = "putMany" => todo[s] = {})
    BY <1>1, <1>2 DEF TypeInv, LockAt
  <2> QED
    BY <1>1, <1>2, <1>3, <2>1 DEF WrittenAt, Puts
<1> HIDE DEF N
<1>6. NothingLost'
  <2>1. \A e \in acked' : \E m \in Note : \E v \in archive[m] \cup {objects[m]} : v.ed = e
    <3> SUFFICES ASSUME NEW e \in acked', e \notin acked
                 PROVE  \E m \in Note : \E v \in archive[m] \cup {objects[m]} : v.ed = e
      BY <1>1 DEF NothingLost
    <3>1. PICK n \in N : op[s] # "remove" /\ objects[n].ed = e
      BY <1>2
    <3> QED
      BY <1>5, <3>1
  <2> QED
    BY <1>1, <1>2, <2>1 DEF NothingLost
<1>7. Numbered'
  <2>1. ASSUME NEW n \in Note, objects[n].rev = 0, objects[n].ed \in acked' PROVE FALSE
    <3>1. objects[n].ed \notin acked
      BY <1>1, <2>1 DEF Numbered
    <3>2. PICK m \in N : op[s] # "remove" /\ objects[m].ed = objects[n].ed
      BY <1>2, <2>1, <3>1
    <3>3. m \in Note /\ objects[m].rev > 0
      BY <1>5, <3>2
    <3>4. objects[m].ed > 0 /\ m # n
      BY <1>1, <2>1, <3>3 DEF Numbered
    <3>5. objects[m].ed \in Nat
      BY <1>3, <3>3 DEF Index, Entry
    <3> QED
      BY <1>1, <3>2, <3>3, <3>4, <3>5 DEF Numbered
  <2> QED
    BY <1>1, <1>2, <2>1 DEF Numbered
<1>8. DiskInv'
  <2>1. DiskIndex' = DiskIndex
    BY <1>2, DiskReads
  <2>2. JournalCoversStale'
    BY <1>2, <1>3, <2>1 DEF JournalCoversStale
  <2>3. LogInv'
    BY <1>2, <1>3, LogStays, SelfNotNewer
  <2> QED
    BY <1>1, <1>2, <2>2, <2>3 DEF DiskInv, NotNewer
<1>9. Grows
  <2>1. LinesFor(snap.gen)' = LinesFor(snap.gen) /\ (\A k : Prefix(k)' = Prefix(k))
    BY <1>2, DiskReads DEF LinesFor
  <2>2. LinesFor(snap.gen) \in Nat
    BY <1>1, LinesFacts
  <2> QED
    BY <1>2, <1>3, <2>1, <2>2, SelfNotNewer DEF Grows
<1>10. SessionInv(s)' /\ WrittenAt(s)'
  <2>1. Remembers(s)'
    BY <1>2, <1>3, <1>4, ReadyRemembers, StillRemembers
  <2> QED
    BY <1>3, <1>4, <2>1, AtRest, ConstantsOK
<1>11. Forward(s)
  BY <1>3, <1>4, SelfNotNewer DEF Forward
<1> QED
  BY <1>2, <1>3, <1>4, <1>6, <1>7, <1>8, <1>9, <1>10, <1>11, Alone, ConstantsOK

\* The operation that had to recover goes on with what the objects say.
LEMMA EndRecoveryKeeps ==
  ASSUME IInv, TypeInv', NEW s \in Session, EndRecovery(s)
  PROVE  IInv' /\ Advances
<1>1. TypeInv /\ DiskInv /\ LockAt(s) /\ JournalAt(s) /\ ReadyAt(s) /\ LoadingAt(s) /\ WrittenAt(s)
  BY DEF IInv, SessionInv, HistoryInv
<1>2. /\ pc[s] = "healEnd" /\ journal' = None /\ pc' = [pc EXCEPT ![s] = "loaded"]
      /\ IF Writing(s) THEN holder' = holder ELSE Leave(s)
      /\ UNCHANGED <<objects, archive, snap, logf, op, todo, loading, cache, stamp, gen, lines,
                     writes, crashes, acked>>
  BY DEF EndRecovery, Goto, memory
<1>3. Exclusive(s) /\ Bound(s) /\ cache[s] = objects /\ objects \in Index /\ gen[s] = snap.gen
      /\ DiskIndex = objects /\ loading[s] = None /\ op[s] \in Kinds /\ op[s] # "close"
  BY <1>1, <1>2 DEF Exclusive, Active, Healing, ReadyAt, TypeInv, LockAt, LoadingAt, JournalAt
<1>4. /\ Apart(s) /\ pc'[s] = "loaded" /\ op'[s] = op[s] /\ todo'[s] = todo[s]
      /\ cache'[s] = cache[s] /\ stamp'[s] = stamp[s] /\ gen'[s] = gen[s] /\ lines'[s] = lines[s]
      /\ loading'[s] = None /\ holder = s /\ holder' = IF Writing(s) THEN s ELSE None
  BY <1>1, <1>2, <1>3 DEF Apart, TypeInv, Leave, LockAt, Healing
<1>5. DiskIndex' = DiskIndex /\ LinesFor(snap.gen)' = LinesFor(snap.gen) /\ (\A k : Prefix(k)' = Prefix(k))
  BY <1>2, DiskReads DEF LinesFor
<1>6. DiskInv'
  <2>1. JournalCoversStale'
    BY <1>2, <1>3, <1>5 DEF JournalCoversStale
  <2>2. LogInv'
    BY <1>2, <1>3, LogStays, SelfNotNewer
  <2> QED
    BY <1>1, <1>2, <2>1, <2>2 DEF DiskInv, NotNewer
<1>7. Grows
  <2>1. LinesFor(snap.gen) \in Nat
    BY <1>1, LinesFacts
  <2> QED
    BY <1>2, <1>3, <1>5, <2>1, SelfNotNewer DEF Grows
<1>8. LockAt(s)'
  <2>1. Writing(s)' <=> Writing(s)
    BY <1>4 DEF Writing
  <2>2. op[s] \in {"put", "remove"} => \E n \in Note : todo[s] = {n}
    BY <1>1 DEF LockAt
  <2>3. op[s] = "putMany" => todo[s] # {}
    BY <1>1, <1>2 DEF LockAt
  <2> QED
    BY <1>3, <1>4, <2>1, <2>2, <2>3, ConstantsOK DEF LockAt, Healing
<1>9. JournalAt(s)'
  BY <1>2, <1>3, <1>4 DEF JournalAt, Healing, Writes
<1>10. ReadyAt(s)'
  <2>1. Bound(s)'
    BY <1>2, <1>3, <1>4, <1>5 DEF Bound
  <2> QED
    BY <1>2, <1>3, <1>4, <2>1 DEF ReadyAt
<1>11. MemoryAt(s)'
  <2>1. Remembers(s)'
    BY <1>2, <1>3, <1>4, ReadyRemembers, StillRemembers
  <2>2. cache'[s] # None
    BY <1>3, <1>4, ConstantsOK
  <2> QED
    BY <1>4, <2>1, <2>2 DEF MemoryAt
<1>12. LoadingAt(s)' /\ WrittenAt(s)'
  BY <1>1, <1>2, <1>4 DEF LoadingAt, WrittenAt
<1>13. Forward(s)
  BY <1>3, <1>4, SelfNotNewer DEF Forward
<1>14. NothingLost' /\ Numbered'
  BY <1>2, HistoryStays
<1> QED
  BY <1>2, <1>3, <1>4, <1>6, <1>7, <1>8, <1>9, <1>10, <1>11, <1>12, <1>13, <1>14, Alone
     DEF SessionInv

\* Whatever a process was doing when it died alone, it leaves a journal for what it left undone.
LEMMA CrashKeeps ==
  ASSUME NothingOverlaps, IInv, TypeInv', NEW s \in Session, Crash(s)
  PROVE  IInv' /\ Advances
<1> DEFINE torn == [logf EXCEPT !.torn = TRUE]
           headless == [gen |-> 0, recs |-> << >>, torn |-> TRUE]
<1>1. TypeInv /\ DiskInv /\ LockAt(s) /\ JournalAt(s) /\ ReadyAt(s) /\ LogInv /\ HistoryInv
      /\ \A t \in Session : SessionInv(t)
  BY DEF IInv, SessionInv, DiskInv
<1>2. /\ \A t \in Session \ {s} : pc[t] = "idle" /\ cache[t] = None
      /\ Return(s) /\ loading' = [loading EXCEPT ![s] = None] /\ Forget(s)
      /\ UNCHANGED <<objects, archive, snap, journal, writes, acked>>
  BY DEF Crash, NothingOverlaps, DiesAlone, Busy
<1>3. \/ logf' = logf
      \/ logf' = torn /\ pc[s] = "append" /\ logf # None
      \/ logf' = headless /\ pc[s] = "commit" /\ lines[s] = 0
  BY DEF Crash
<1>4. /\ pc'[s] = "idle" /\ op'[s] = "read" /\ loading'[s] = None /\ cache'[s] = None
      /\ \A t \in Session \ {s} :
           pc'[t] = pc[t] /\ op'[t] = op[t] /\ loading'[t] = loading[t] /\ cache'[t] = cache[t]
      /\ holder' = IF holder = s THEN None ELSE holder
  BY <1>1, <1>2 DEF TypeInv, Return, Goto, Leave, Forget
<1>5. holder' = None
  <2>1. holder # None => holder \in Session /\ Busy(holder)
    BY DEF IInv, TypeInv
  <2> QED
    BY <1>2, <1>4, <2>1 DEF Busy
<1>6. \A t \in Session : pc'[t] = "idle" /\ op'[t] = "read" /\ loading'[t] = None /\ cache'[t] = None
  <2> SUFFICES ASSUME NEW t \in Session, t # s
               PROVE  pc'[t] = "idle" /\ op'[t] = "read" /\ loading'[t] = None /\ cache'[t] = None
    BY <1>4
  <2>1. op[t] = "read" /\ loading[t] = None
    BY <1>1, <1>2 DEF SessionInv, LockAt, LoadingAt
  <2> QED
    BY <1>2, <1>4, <2>1
<1>7. \A t \in Session : SessionInv(t)' /\ WrittenAt(t)'
  <2> SUFFICES ASSUME NEW t \in Session PROVE SessionInv(t)' /\ WrittenAt(t)'
    OBVIOUS
  <2>1. holder' # t
    BY <1>5, ConstantsOK
  <2> QED
    BY <1>6, <2>1, AtRest
<1>8. JournalInv'
  BY <1>6 DEF JournalInv, Leftover, Waits, Loading
<1>9. snap' = snap /\ snap.gen \in Nat /\ snap.gen > 0 /\ snap.map \in Index
      /\ (\A t \in Session : pc'[t] \in Loading)
  BY <1>1, <1>2, <1>6 DEF TypeInv, Snapshot, DiskInv, Loading
<1>10. LogInv' /\ DiskIndex' = DiskIndex
  <2>1. CASE logf' = logf
    <3>1. DiskIndex' = DiskIndex
      BY <1>9, <2>1, DiskReads
    <3>2. RecordsAbove(snap.map)' <=> RecordsAbove(snap.map)
      BY <1>9, <2>1 DEF RecordsAbove
    <3>3. RecordsBelow(IF logf.gen = snap.gen THEN objects ELSE snap.map)'
            <=> RecordsBelow(IF logf.gen = snap.gen THEN objects ELSE snap.map)
      BY <1>2, <1>9, <2>1 DEF RecordsBelow
    <3> QED
      BY <1>1, <1>2, <1>9, <2>1, <3>1, <3>2, <3>3 DEF LogInv
  <2>2. CASE logf' = torn /\ pc[s] = "append" /\ logf # None
    <3>1. logf \in Log /\ logf.recs \in Seq(Line)
      BY <1>1, <2>2 DEF TypeInv, Log
    <3>2. /\ logf' # None /\ logf'.gen = logf.gen /\ logf'.recs = logf.recs
      <4>1. torn \in Log
        BY <3>1 DEF Log
      <4>2. torn.gen = logf.gen /\ torn.recs = logf.recs
        BY <3>1 DEF Log
      <4> HIDE DEF torn
      <4> QED
        BY <2>2, <4>1, <4>2, ConstantsOK
    <3>3. journal # None
      BY <1>1, <2>2 DEF JournalAt, LockAt, Writes
    <3>4. RecordsAbove(snap.map)' <=> RecordsAbove(snap.map)
      BY <1>9, <3>2 DEF RecordsAbove
    <3>5. RecordsBelow(IF logf.gen = snap.gen THEN objects ELSE snap.map)'
            <=> RecordsBelow(IF logf.gen = snap.gen THEN objects ELSE snap.map)
      BY <1>2, <1>9, <3>2 DEF RecordsBelow
    <3>6. LogInv'
      <4> HIDE DEF torn
      <4> QED
        BY <1>1, <1>2, <1>9, <2>2, <3>2, <3>3, <3>4, <3>5 DEF LogInv
    <3>7. \A g : LinesFor(g)' = LinesFor(g)
      BY <2>2, <3>2 DEF LinesFor
    <3>8. RecordsFrom(snap.gen, 0)' = RecordsFrom(snap.gen, 0)
      BY <1>9, <3>2, <3>7 DEF RecordsFrom
    <3> QED
      BY <1>9, <3>6, <3>8 DEF DiskIndex
  <2>3. CASE logf' = headless /\ pc[s] = "commit" /\ lines[s] = 0
    <3>1. headless.gen = 0 /\ headless.recs = << >> /\ Len(<< >>) = 0
      OBVIOUS
    <3>2. Bound(s) /\ journal # None
      BY <1>1, <2>3 DEF ReadyAt, Exclusive, Active, Writes, JournalAt, LockAt
    <3>3. LinesFor(snap.gen) = 0
      BY <2>3, <3>2 DEF Bound
    <3> HIDE DEF headless
    <3>4. DiskIndex = snap.map
      BY <1>1, <3>3, LogNow
    <3>5. DiskIndex' = snap.map
      BY <1>9, <2>3, <3>1, NoLogGives
    <3>6. RecordsBelow(IF logf.gen = snap.gen THEN objects ELSE snap.map)' /\ RecordsAbove(snap.map)'
      BY <2>3, <3>1 DEF RecordsBelow, RecordsAbove
    <3>7. LogInv'
      BY <1>2, <1>9, <2>3, <3>1, <3>2, <3>6 DEF LogInv
    <3> QED
      BY <3>4, <3>5, <3>7
  <2> HIDE DEF torn, headless
  <2> QED
    BY <1>3, <2>1, <2>2, <2>3
<1>11. DiskInv'
  <2>1. JournalCoversStale'
    BY <1>1, <1>2, <1>10 DEF DiskInv, JournalCoversStale
  <2> QED
    BY <1>1, <1>2, <1>10, <2>1 DEF DiskInv, NotNewer
<1>12. HistoryInv'
  BY <1>2, <1>7, HistoryStays DEF HistoryInv
<1>13. Advances
  BY <1>6 DEF Advances, Forward
<1> QED
  BY <1>5, <1>7, <1>8, <1>11, <1>12, <1>13 DEF IInv
-----------------------------------------------------------------------------
(* The invariant, and what it gives. *)

LEMMA InitKeeps == Init => IInv
<1> SUFFICES ASSUME Init PROVE IInv
  OBVIOUS
<1>1. Absent \in Entry /\ Empty \in Index /\ \A n \in Note : Empty[n] = Absent
  BY DEF Absent, Empty, Entry, Index
<1>2. TypeInv
  <2>1. [gen |-> 1, map |-> Empty, stamp |-> 1] \in Snapshot
    BY <1>1 DEF Snapshot
  <2>2. "idle" \in Locations /\ "read" \in Kinds
    BY DEF Locations, Kinds
  <2>3. \A n \in Note : IsFiniteSet(archive[n]) /\ archive[n] \in SUBSET Entry
    BY FS_EmptySet DEF Init
  <2> QED
    BY <1>1, <2>1, <2>2, <2>3 DEF Init, TypeInv
<1>3. snap.gen = 1 /\ snap.stamp = 1 /\ snap.map = Empty /\ logf = None /\ objects = Empty
  BY DEF Init
<1>4. DiskInv
  <2>1. LinesFor(snap.gen) = 0
    BY <1>3 DEF LinesFor
  <2>2. DiskIndex = objects
    BY <1>2, <1>3, <2>1, LogNow
  <2> QED
    BY <1>1, <1>3, <2>2 DEF Init, DiskInv, NotNewer, Absent, JournalCoversStale, LogInv
<1>5. HistoryInv
  BY <1>1 DEF Init, HistoryInv, NothingLost, Numbered, Absent, WrittenAt
<1>6. JournalInv /\ holder = None
  BY DEF Init, JournalInv
<1>7. ASSUME NEW s \in Session PROVE SessionInv(s)
  <2>1. pc[s] = "idle" /\ op[s] = "read" /\ loading[s] = None /\ cache[s] = None /\ holder # s
    BY ConstantsOK DEF Init
  <2>2. ~Exclusive(s) /\ ~Writing(s) /\ pc[s] \notin Healing
    BY <2>1 DEF Exclusive, Active, Writes, Healing, Writing
  <2> QED
    BY <2>1, <2>2 DEF SessionInv, LockAt, JournalAt, ReadyAt, MemoryAt, LoadingAt, Puts
<1> QED
  BY <1>2, <1>4, <1>5, <1>6, <1>7 DEF IInv

LEMMA Stutters == ASSUME IInv, UNCHANGED vars PROVE IInv'
<1>1. /\ objects' = objects /\ archive' = archive /\ snap' = snap /\ logf' = logf /\ journal' = journal
      /\ holder' = holder /\ op' = op /\ todo' = todo /\ pc' = pc /\ loading' = loading
      /\ cache' = cache /\ stamp' = stamp /\ gen' = gen /\ lines' = lines
      /\ writes' = writes /\ crashes' = crashes /\ acked' = acked
  BY DEF vars, disk, work, memory
<1>2. /\ \A g : LinesFor(g)' = LinesFor(g)
      /\ \A k : Prefix(k)' = Prefix(k)
      /\ DiskIndex' = DiskIndex /\ LinesFor(snap.gen)' = LinesFor(snap.gen)
  BY <1>1, DiskReads DEF LinesFor
<1>3. TypeInv'
  BY <1>1 DEF IInv, TypeInv
<1>4. DiskInv'
  <2>1. LogInv'
    <3>1. RecordsAbove(snap.map)' <=> RecordsAbove(snap.map)
      BY <1>1 DEF RecordsAbove
    <3>2. RecordsBelow(IF logf.gen = snap.gen THEN objects ELSE snap.map)'
            <=> RecordsBelow(IF logf.gen = snap.gen THEN objects ELSE snap.map)
      BY <1>1 DEF RecordsBelow
    <3> QED
      BY <1>1, <3>1, <3>2 DEF IInv, DiskInv, LogInv
  <2>2. JournalCoversStale'
    BY <1>1, <1>2 DEF IInv, DiskInv, JournalCoversStale
  <2> QED
    BY <1>1, <2>1, <2>2 DEF IInv, DiskInv, NotNewer
<1>5. HistoryInv'
  <2>1. NothingLost' /\ Numbered'
    BY <1>1, HistoryStays
  <2>2. \A s \in Session : WrittenAt(s)'
    BY <1>1 DEF IInv, HistoryInv, WrittenAt, NextNote
  <2> QED
    BY <2>1, <2>2 DEF HistoryInv
<1>6. JournalInv'
  <2>1. Leftover' <=> Leftover
    BY <1>1, <1>2 DEF Leftover, Waits, Bound
  <2> QED
    BY <1>1, <2>1 DEF IInv, JournalInv, Active
<1>7. holder' # None => Busy(holder)'
  BY <1>1 DEF IInv, Busy
<1>8. ASSUME NEW s \in Session PROVE SessionInv(s)'
  <2>0. SessionInv(s)
    BY DEF IInv
  <2>1. LockAt(s)' /\ JournalAt(s)'
    BY <1>1, <2>0 DEF SessionInv, LockAt, JournalAt, Writing, Waits
  <2>2. (Exclusive(s)' <=> Exclusive(s)) /\ (Bound(s)' <=> Bound(s))
    BY <1>1, <1>2 DEF Exclusive, Active, Bound
  <2>3. ReadyAt(s)'
    BY <1>1, <1>2, <2>0, <2>2 DEF SessionInv, ReadyAt
  <2>4. MemoryAt(s)'
    <3>1. Remembers(s) => Remembers(s)'
      BY <1>1, StillRemembers
    <3> QED
      BY <1>1, <2>0, <2>2, <3>1 DEF SessionInv, MemoryAt
  <2>5. LoadingAt(s)'
    <3>1. RecordsAbove(loading[s].map)' <=> RecordsAbove(loading[s].map)
      BY <1>1 DEF RecordsAbove
    <3> QED
      BY <1>1, <2>0, <3>1 DEF SessionInv, LoadingAt, NotNewer
  <2> QED
    BY <2>1, <2>3, <2>4, <2>5 DEF SessionInv
<1> QED
  BY <1>3, <1>4, <1>5, <1>6, <1>7, <1>8 DEF IInv

\* Every step keeps the invariant, and takes no session's index back.
LEMMA NextKeeps ==
  ASSUME NothingOverlaps, IInv, [Next]_vars
  PROVE  IInv' /\ Advances
<1>1. TypeInv'
  BY TypeStep
<1>2. CASE UNCHANGED vars
  <2>1. Advances
    <3>1. \A s \in Session : cache'[s] = cache[s] /\ cache[s] \in Index \cup {None}
      BY <1>2 DEF vars, memory, IInv, TypeInv
    <3> QED
      BY <3>1, SelfNotNewer DEF Advances, Forward
  <2> QED
    BY <1>2, <2>1, Stutters
<1>3. ASSUME NEW s \in Session,
             Step(s) \/ BeginWrite(s) \/ BeginRead(s) \/ BeginClose(s) \/ Quit(s) \/ Crash(s)
      PROVE  IInv' /\ Advances
  BY <1>1, <1>3, LoadKeeps, ReloadKeeps, ReadLogKeeps, AwaitKeeps, DispatchKeeps, BeginJournalKeeps,
     ArchiveKeeps, WriteObjectKeeps, CommitKeeps, AppendKeeps, WriteSnapshotKeeps, DropLogKeeps,
     EndWriteKeeps, EndRecoveryKeeps, BeginsKeep, QuitKeeps, CrashKeeps DEF Step
<1>4. Next => IInv' /\ Advances
  BY <1>3 DEF Next
<1> QED
  BY <1>2, <1>4

LEMMA Invariance == ASSUME NothingOverlaps PROVE Spec => []IInv
<1>1. Init => IInv
  BY InitKeeps
<1>2. IInv /\ [Next]_vars => IInv'
  BY NextKeeps
<1> QED
  BY <1>1, <1>2, PTL DEF Spec

\* The invariant gives what is said of the index and the objects.
LEMMA Consequences ==
  ASSUME IInv
  PROVE  TypeOK /\ JournalCoversStale /\ WritesOnCurrent /\ NothingLost /\ LogOpens
<1>1. TypeInv /\ DiskInv /\ HistoryInv /\ LogInv
  BY DEF IInv, DiskInv
<1>2. TypeOK
  <2>1. \A s \in Session :
          pc[s] \in Locations \ {"idle", "load", "reload", "readLog"} => cache[s] # None
    BY HasIndex, ConstantsOK
  <2> QED
    BY <1>1, <2>1 DEF TypeInv, TypeOK
<1>3. WritesOnCurrent
  <2> SUFFICES ASSUME NEW s \in Session, pc[s] = "begin" PROVE cache[s] = objects
    BY DEF WritesOnCurrent
  <2> QED
    BY DEF IInv, SessionInv, ReadyAt, Exclusive
<1>4. LogOpens
  <2> SUFFICES ASSUME logf # None PROVE ~Damaged(logf.recs)
    BY DEF LogOpens
  <2>1. Len(logf.recs) \in Nat
    BY <1>1 DEF TypeInv, Log
  <2> QED
    BY <1>1, <2>1 DEF LogInv, Damaged
<1> QED
  BY <1>1, <1>2, <1>3, <1>4 DEF DiskInv, HistoryInv

\* The variables keep their types, and a session that is past loading has an index, when no
\* session is locked beside a busy one and a process that dies is the only one with an index.
THEOREM StoreTypeSafety == LocksAlone /\ DiesAlone /\ Spec => []TypeOK
<1> SUFFICES ASSUME LocksAlone, DiesAlone PROVE Spec => []TypeOK
  OBVIOUS
<1>1. IInv => TypeOK
  BY Consequences
<1>2. Spec => []IInv
  BY Invariance DEF NothingOverlaps
<1> QED
  BY <1>1, <1>2, PTL

\* A note whose entry in the index on disk is not what its object says is named by the journal,
\* wherever a process that was alone died (withJournal, recoverFromJournal), and while no
\* session is locked beside a busy one.
THEOREM StoreJournalCovers == LocksAlone /\ DiesAlone /\ Spec => []JournalCoversStale
<1> SUFFICES ASSUME LocksAlone, DiesAlone PROVE Spec => []JournalCoversStale
  OBVIOUS
<1>1. IInv => JournalCoversStale
  BY Consequences
<1>2. Spec => []IInv
  BY Invariance DEF NothingOverlaps
<1> QED
  BY <1>1, <1>2, PTL

\* A write starts from what the previous holder of the lock left, however old the index in
\* memory was (withVaultLock, loadIndex, refreshIndexCache), when no session is locked beside a
\* busy one and no process dies beside a session with an index in memory.
THEOREM StoreWritesOnCurrent == LocksAlone /\ DiesAlone /\ Spec => []WritesOnCurrent
<1> SUFFICES ASSUME LocksAlone, DiesAlone PROVE Spec => []WritesOnCurrent
  OBVIOUS
<1>1. IInv => WritesOnCurrent
  BY Consequences
<1>2. Spec => []IInv
  BY Invariance DEF NothingOverlaps
<1> QED
  BY <1>1, <1>2, PTL

\* Every version that a put acknowledged is live or archived, and no live note has the number of
\* another version in its history (archiveRevision, ArchivedBase), when no session is locked
\* beside a busy one and no process dies beside a session with an index in memory.
THEOREM StoreNothingLost == LocksAlone /\ DiesAlone /\ Spec => []NothingLost
<1> SUFFICES ASSUME LocksAlone, DiesAlone PROVE Spec => []NothingLost
  OBVIOUS
<1>1. IInv => NothingLost
  BY Consequences
<1>2. Spec => []IInv
  BY Invariance DEF NothingOverlaps
<1> QED
  BY <1>1, <1>2, PTL

\* Provided that no process dies beside a session with an index in memory (and none is locked
\* beside a busy one), no line of the log before its last is unreadable: every session that may
\* append has loaded the index since the append was cut short, and loading it drops the log
\* (readIndexLog, recoverFromJournal, appendIndexRecord).  A session that had its index from
\* before appends behind the half line; MCDocumentStoreCrash.cfg shows it.
THEOREM StoreLogOpens == LocksAlone /\ DiesAlone /\ Spec => []LogOpens
<1> SUFFICES ASSUME LocksAlone, DiesAlone PROVE Spec => []LogOpens
  OBVIOUS
<1>1. IInv => LogOpens
  BY Consequences
<1>2. Spec => []IInv
  BY Invariance DEF NothingOverlaps
<1> QED
  BY <1>1, <1>2, PTL

\* A session never shows an older version of a note than it has shown (loadIndex, readIndexLog
\* against files that others replace), when no session is locked beside a busy one and no
\* process dies beside a session with an index in memory.
THEOREM StoreNeverRewinds == LocksAlone /\ DiesAlone /\ Spec => NeverRewinds
<1> SUFFICES ASSUME NothingOverlaps PROVE Spec => NeverRewinds
  BY DEF NothingOverlaps
<1> DEFINE Later == \A s \in Session : cache[s] # None /\ cache'[s] # None
                      => \A n \in Note : cache'[s][n].ed >= cache[s][n].ed
<1>1. IInv /\ [Next]_vars => Later
  <2> SUFFICES ASSUME IInv, [Next]_vars PROVE Later
    OBVIOUS
  <2>1. Advances /\ TypeInv /\ TypeInv'
    BY NextKeeps DEF IInv
  <2> SUFFICES ASSUME NEW s \in Session, cache[s] # None, cache'[s] # None, NEW n \in Note
               PROVE  cache'[s][n].ed >= cache[s][n].ed
    OBVIOUS
  <2>2. NotNewer(cache[s], cache'[s]) /\ cache[s] \in Index /\ cache'[s] \in Index
    BY <2>1 DEF Advances, Forward, TypeInv
  <2>3. cache[s][n].ed \in Nat /\ cache'[s][n].ed \in Nat
    BY <2>2 DEF Index, Entry
  <2> QED
    BY <2>2, <2>3 DEF NotNewer
<1>2. IInv /\ [Next]_vars => [Later]_vars
  BY <1>1
<1> HIDE DEF Later
<1>3. Spec => [][Later]_vars
  BY <1>2, Invariance, PTL DEF Spec
<1> QED
  BY <1>3 DEF Later, NeverRewinds
=============================================================================
