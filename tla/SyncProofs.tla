----------------------------- MODULE SyncProofs -----------------------------
(***************************************************************************)
(* Proofs about SyncDevices and SyncRelay, who may read the changes of a    *)
(* vault and how they travel.                                               *)
(*                                                                          *)
(* The first half is about SyncDevices, for every set of devices and every  *)
(* number of registries, changes, checkpoints and deaths: an active device  *)
(* opens what it has, a revoked one gets no later key, and pinned history   *)
(* only grows.                                                              *)
(*                                                                          *)
(* The second half is about SyncRelay, for every set of devices and         *)
(* changes, every size of their attachments, every page size and every      *)
(* quota: the relay lists no change it cannot serve, no chunk is lost, and  *)
(* a pull gets all there was.                                               *)
(***************************************************************************)
EXTENDS SyncDevices, SyncRelay, SequenceTheorems, FiniteSetTheorems, WellFoundedInduction, TLAPS

\* What the owner signs: a certificate per enrolled device, a key per wrap.
Signed(r) ==
  /\ r \in Registry /\ r.rev \in Nat /\ r.epoch \in Nat \ {0}
  /\ Enrolled(r) \subseteq Device
  /\ \A d \in Enrolled(r) : r.cert[d] \in Certificate
  /\ \A d \in DOMAIN r.wraps : r.wraps[d] \in Nat
  /\ DOMAIN r.wraps \subseteq Active(r)
  /\ ValidRegistry(r)
  /\ r.epoch = 1 => Active(r) = Enrolled(r)
  /\ \A d \in Enrolled(r) : "agreement" \in identity[d]

\* A later registry keeps who was enrolled, and a revoked device as it was.
Follows(r, s) ==
  /\ r.epoch <= s.epoch
  /\ \A d \in Enrolled(r) : /\ d \in Enrolled(s) /\ r.cert[d].epoch <= s.cert[d].epoch
                            /\ d \notin Active(r) => s.cert[d] = r.cert[d]

\* Registries are one chain, and an epoch above the first has a single registry.
Chained ==
  /\ \A r \in issued : Signed(r) /\ registry[Owner] # None /\ r.rev <= registry[Owner].rev
  /\ \A r, s \in issued : /\ r.rev <= s.rev => Follows(r, s)
                          /\ r.rev = s.rev \/ (r.epoch = s.epoch /\ r.epoch > 1) => r = s

DeviceTypes ==
  /\ authority \in BOOLEAN
  /\ identity \in [Device -> SUBSET {"signing", "agreement"}]
  /\ registry \in [Device -> issued \cup {None}]
  /\ epochKeys = [d \in Device |-> epochKeys[d]]
  /\ \A d \in Device : \A e \in DOMAIN epochKeys[d] : e \in Nat /\ epochKeys[d][e] \in Nat
  /\ log \in [Device -> SUBSET Change]
  /\ \A d \in Device : \A c \in log[d] : c.seq <= MaxSequence
  /\ checkpoint \in [Device -> checkpoints \cup {None}] /\ checkpoints \subseteq Checkpoint
  /\ todo = [d \in Device |-> todo[d]]
  /\ revoking # None => revoking.dev \in Device /\ revoking.cutoff \in Nat
  /\ requests \subseteq {d \in Device : "agreement" \in identity[d]}
  /\ minted \in Nat

\* A registry the owner has signed and not saved.
Unsaved(r) ==
  /\ registry[Owner] # None
  /\ Signed(r) /\ r.rev = registry[Owner].rev + 1 /\ Follows(registry[Owner], r)
  /\ r.epoch > 1 => r.epoch > registry[Owner].epoch

\* A registry about to be saved: with the key it needs, or after it.
Ready(d, r) ==
  \/ r \in issued /\ (d = Owner => registry[Owner] = r) /\ (d \in DOMAIN r.wraps => HasKey(d, r.epoch))
  \/ /\ d = Owner /\ Unsaved(r)
     /\ r.epoch > 1 => /\ r.epoch \in DOMAIN epochKeys[Owner]
                       /\ \A e \in DOMAIN r.wraps : r.wraps[e] = epochKeys[Owner][r.epoch]
Coming(d, r, key) ==
  /\ key \in Nat /\ r.epoch > 1
  /\ \/ d # Owner /\ r \in issued /\ d \in DOMAIN r.wraps /\ key = r.wraps[d]
     \/ d = Owner /\ Unsaved(r) /\ \A e \in DOMAIN r.wraps : r.wraps[e] = key

First == [rev |-> 1, epoch |-> 1, wraps |-> << >>,
          cert |-> [d \in {Owner} |-> [epoch |-> 1, cutoff |-> None]]]
AU == Write("authority", None)
SI == Write("signing", None)
AG == Write("agreement", None)
RQ == Write("request", None)
FI == Write("registry", First)

Asking(d) == \/ todo[d] \in {<<SI, AG, RQ>>, <<AG, RQ>>}
             \/ todo[d] = <<RQ>> /\ "agreement" \in identity[d]
Founding(d) ==
  /\ d = Owner /\ registry[Owner] = None
  /\ \/ todo[d] \in {<<AU, SI, AG, FI>>, <<SI, AG, FI>>, <<AG, FI>>}
     \/ todo[d] = <<FI>> /\ "agreement" \in identity[d]
Replacing(d) == \E r : todo[d] = <<Write("registry", r)>> /\ Ready(d, r)
Adopting(d) ==
  \E r, key : /\ todo[d] = <<Write("key", [epoch |-> r.epoch, key |-> key]), Write("registry", r)>>
              /\ Coming(d, r, key)
Pending(d) == Idle(d) \/ Asking(d) \/ Founding(d) \/ Replacing(d) \/ Adopting(d)

\* Where an epoch's key comes from: the owner minted it, and wrapped it for who was active.
KeysFromWraps ==
  /\ \A r \in issued : r.epoch > 1 =>
       /\ r.epoch \in DOMAIN epochKeys[Owner]
       /\ \A d \in DOMAIN r.wraps : r.wraps[d] = epochKeys[Owner][r.epoch]
  /\ \A d \in Device \ {Owner} : \A e \in DOMAIN epochKeys[d] :
       \E r \in issued : r.epoch = e /\ e > 1 /\ d \in DOMAIN r.wraps /\ epochKeys[d][e] = r.wraps[d]
  /\ \A d \in Device \ {Owner} :
       registry[d] # None /\ d \in DOMAIN registry[d].wraps => registry[d].epoch \in DOMAIN epochKeys[d]

\* What is in a log opens, under an epoch the owner has issued.
LogsOpen ==
  \A d \in Device : \A c \in log[d] :
    Opens(d, c) /\ (c.epoch > 1 => \E r \in issued : r.epoch = c.epoch)

\* Checkpoints are one chain of what the owner had, pinned where it is covered.
Pinned ==
  /\ \A k \in checkpoints : /\ k.seq \in Nat /\ checkpoint[Owner] # None
                            /\ k.seq <= checkpoint[Owner].seq /\ k.covers \subseteq log[Owner]
  /\ \A k, l \in checkpoints : k.seq <= l.seq => k.covers \subseteq l.covers
  /\ \A d \in Device : checkpoint[d] # None => checkpoint[d].covers \subseteq log[d]

DevicesInv == DeviceTypes /\ Chained /\ (\A d \in Device : Pending(d)) /\ KeysFromWraps /\ LogsOpen /\ Pinned
-----------------------------------------------------------------------------
\* The greatest of numbers up to n.
LEMMA MaxUpTo ==
  ASSUME NEW n \in Nat, NEW T \in SUBSET (0..n), T # {}
  PROVE  Max(T) \in T /\ \A y \in T : y <= Max(T)
<1> DEFINE R == {ss \in Nat \X Nat : ss[1] < ss[2]}
           D == {n - i : i \in T}
<1>1. D \in SUBSET Nat /\ D # {}
  <2>1. \A i \in T : n - i \in Nat
    OBVIOUS
  <2> QED
    BY <2>1
<1>2. \E x \in D : \A y \in D : ~ (<<y, x>> \in R)
  <2>1. IsWellFoundedOn(R, Nat)
    BY NatLessThanWellFounded DEF OpToRel
  <2> HIDE DEF R, D
  <2> QED
    BY <1>1, <2>1, WFMin
<1>3. PICK x \in T : \A y \in D : ~ (<<y, n - x>> \in R)
  BY <1>2
<1>4. ASSUME NEW y \in T PROVE x >= y
  <2>1. n - y \in D /\ n - y \in Nat /\ n - x \in Nat
    OBVIOUS
  <2>2. ~(n - y < n - x)
    BY <1>3, <2>1
  <2> QED
    BY <2>2
<1>5. \E z \in T : \A y \in T : z >= y
  BY <1>4
<1>6. Max(T) = CHOOSE z \in T : \A y \in T : z >= y
  BY DEF Max
<1>7. Max(T) \in T /\ \A y \in T : Max(T) >= y
  BY <1>5, <1>6
<1> QED
  BY <1>7

\* One thing after another.
LEMMA TwoInARow ==
  ASSUME NEW x, NEW y PROVE <<x>> \o <<y>> = <<x, y>>
<1> DEFINE T == {x, y}
<1>1. <<x>> \in Seq(T) /\ y \in T /\ <<x, y>> \in Seq(T)
  OBVIOUS
<1>2. <<x>> \o <<y>> = Append(<<x>>, y)
  BY <1>1, AppendIsConcat
<1>3. /\ Append(<<x>>, y) \in Seq(T) /\ Len(Append(<<x>>, y)) = 2
      /\ Append(<<x>>, y)[1] = x /\ Append(<<x>>, y)[2] = y
  BY <1>1, AppendProperties
<1>4. Len(<<x, y>>) = 2 /\ <<x, y>>[1] = x /\ <<x, y>>[2] = y
  OBVIOUS
<1>5. \A i \in 1..2 : Append(<<x>>, y)[i] = <<x, y>>[i]
  <2>1. \A i \in 1..2 : i = 1 \/ i = 2
    OBVIOUS
  <2> QED
    BY <1>3, <1>4, <2>1
<1> QED
  BY <1>1, <1>2, <1>3, <1>4, <1>5, SeqEqual

\* The last number of a device's chain.
LEMMA SequenceFacts ==
  ASSUME SyncDevicesConstantsOK, DeviceTypes, NEW d \in Device, NEW e \in Device
  PROVE  Sequence(d, log[e]) \in Nat
<1> DEFINE T == {0} \cup {c.seq : c \in {x \in log[e] : x.dev = d}}
<1>1. MaxSequence \in Nat
  BY DEF SyncDevicesConstantsOK
<1>2. \A c \in log[e] : c.seq \in 0..MaxSequence
  BY <1>1 DEF DeviceTypes, Change
<1>3. T \in SUBSET (0..MaxSequence) /\ T # {}
  BY <1>1, <1>2
<1>4. Max(T) \in T
  <2> HIDE DEF T
  <2> QED
    BY <1>1, <1>3, MaxUpTo
<1> QED
  BY <1>3, <1>4 DEF Sequence
-----------------------------------------------------------------------------
(* Registries that follow each other. *)

LEMMA FollowsItself ==
  ASSUME NEW r, Signed(r) PROVE Follows(r, r)
BY DEF Signed, Follows, Certificate

LEMMA FollowsTransitively ==
  ASSUME NEW r, NEW s, NEW u, Signed(r), Signed(s), Signed(u), Follows(r, s), Follows(s, u)
  PROVE  Follows(r, u)
<1>1. r.epoch <= u.epoch
  BY DEF Signed, Follows
<1>2. ASSUME NEW d \in Enrolled(r)
      PROVE  /\ d \in Enrolled(u) /\ r.cert[d].epoch <= u.cert[d].epoch
             /\ d \notin Active(r) => u.cert[d] = r.cert[d]
  <2>1. d \in Enrolled(s) /\ d \in Enrolled(u)
    BY DEF Follows
  <2>2. r.cert[d].epoch \in Nat /\ s.cert[d].epoch \in Nat /\ u.cert[d].epoch \in Nat
    BY <2>1 DEF Signed, Certificate
  <2>3. r.cert[d].epoch <= u.cert[d].epoch
    BY <2>1, <2>2 DEF Follows
  <2>4. ASSUME d \notin Active(r) PROVE u.cert[d] = r.cert[d]
    <3>1. s.cert[d] = r.cert[d]
      BY <2>4 DEF Follows
    <3>2. d \notin Active(s)
      BY <2>1, <2>4, <3>1 DEF Active
    <3> QED
      BY <2>1, <3>1, <3>2 DEF Follows
  <2> QED
    BY <2>1, <2>3, <2>4
<1> QED
  BY <1>1, <1>2 DEF Follows

\* What is signed stays so while private keys of agreement stay.
LEMMA SignedKept ==
  ASSUME NEW r, Signed(r),
         \A d \in Device : "agreement" \in identity[d] => "agreement" \in identity'[d]
  PROVE  Signed(r)'
BY DEF Signed

\* A function on some devices.
LEMMA OnDevices ==
  ASSUME NEW V, NEW E \in SUBSET Device, NEW f \in [E -> V]
  PROVE  f \in UNION {[D -> V] : D \in SUBSET Device}
OBVIOUS

LEMMA SomeRegistry ==
  ASSUME NEW rev \in Nat, NEW epoch \in Nat \ {0},
         NEW E \in SUBSET Device, NEW cert \in [E -> Certificate],
         NEW W \in SUBSET Device, NEW wraps \in [W -> Nat],
         NEW r, r = [rev |-> rev, epoch |-> epoch, cert |-> cert, wraps |-> wraps]
  PROVE  r \in Registry
<1> DEFINE C == UNION {[D -> Certificate] : D \in SUBSET Device}
           N == UNION {[D -> Nat] : D \in SUBSET Device}
<1>1. cert \in C /\ wraps \in N
  <2>1. cert \in C
    BY OnDevices
  <2>2. wraps \in N
    BY OnDevices
  <2> QED
    BY <2>1, <2>2
<1>2. Registry = [rev : Nat, epoch : Nat \ {0}, cert : C, wraps : N]
  BY DEF Registry
<1> HIDE DEF C, N
<1> QED
  BY <1>1, <1>2

LEMMA RegistryFacts ==
  ASSUME NEW r \in Registry
  PROVE  /\ r = [rev |-> r.rev, epoch |-> r.epoch, cert |-> r.cert, wraps |-> r.wraps]
         /\ r.cert \in [DOMAIN r.cert -> Certificate] /\ DOMAIN r.cert \in SUBSET Device
         /\ r.wraps \in [DOMAIN r.wraps -> Nat] /\ DOMAIN r.wraps \in SUBSET Device
<1> DEFINE C == UNION {[D -> Certificate] : D \in SUBSET Device}
           N == UNION {[D -> Nat] : D \in SUBSET Device}
<1>1. Registry = [rev : Nat, epoch : Nat \ {0}, cert : C, wraps : N]
  BY DEF Registry
<1> HIDE DEF C, N
<1>2. r = [rev |-> r.rev, epoch |-> r.epoch, cert |-> r.cert, wraps |-> r.wraps] /\ r.cert \in C /\ r.wraps \in N
  BY <1>1
<1>3. PICK E \in SUBSET Device : r.cert \in [E -> Certificate]
  BY <1>2 DEF C
<1>4. PICK W \in SUBSET Device : r.wraps \in [W -> Nat]
  BY <1>2 DEF N
<1> QED
  BY <1>2, <1>3, <1>4

LEMMA FirstSigned ==
  ASSUME SyncDevicesConstantsOK, "agreement" \in identity[Owner]
  PROVE  Signed(First) /\ First.rev = 1 /\ First.epoch = 1
<1>1. First = [rev |-> 1, epoch |-> 1, cert |-> First.cert, wraps |-> << >>]
      /\ First.rev = 1 /\ First.epoch = 1 /\ First.wraps = << >>
      /\ First.cert = [d \in {Owner} |-> [epoch |-> 1, cutoff |-> None]]
  BY DEF First
<1>2. DOMAIN << >> = {}
  OBVIOUS
<1> HIDE DEF First
<1>3. Enrolled(First) = {Owner} /\ Active(First) = {Owner} /\ First.cert[Owner] = [epoch |-> 1, cutoff |-> None]
  BY <1>1 DEF Enrolled, Active
<1>4. First.cert[Owner] \in Certificate
  BY <1>3 DEF Certificate
<1>5. ValidRegistry(First)
  BY <1>1, <1>3 DEF ValidRegistry
<1>6. First \in Registry
  <2>1. << >> \in [{} -> Nat]
    <3>1. << >> \in Seq(Nat) /\ Len(<< >>) = 0 /\ 1..0 = {}
      OBVIOUS
    <3>2. << >> \in [1..Len(<< >>) -> Nat]
      BY <3>1, LenProperties
    <3> QED
      BY <3>1, <3>2
  <2>2. First.cert \in [{Owner} -> Certificate] /\ {Owner} \in SUBSET Device
    BY <1>1, <1>3, <1>4 DEF SyncDevicesConstantsOK
  <2> PICK w, c : w = << >> /\ c = First.cert
    OBVIOUS
  <2>3. w \in [{} -> Nat] /\ c \in [{Owner} -> Certificate] /\ {} \in SUBSET Device /\ 1 \in Nat \ {0} /\ 1 \in Nat
        /\ First = [rev |-> 1, epoch |-> 1, cert |-> c, wraps |-> w]
    BY <1>1, <2>1, <2>2
  <2> QED
    BY <2>2, <2>3, SomeRegistry
<1> QED
  BY <1>1, <1>2, <1>3, <1>4, <1>5, <1>6 DEF Signed, SyncDevicesConstantsOK

\* An enrolment happens at the first epoch only, and changes nobody else's certificate.
LEMMA WithDeviceFacts ==
  ASSUME SyncDevicesConstantsOK, NEW r, Signed(r), NEW d \in Device \ Enrolled(r), "agreement" \in identity[d],
         ValidRegistry(WithDevice(r, d))
  PROVE  LET n == WithDevice(r, d)
         IN  Signed(n) /\ n.rev = r.rev + 1 /\ Follows(r, n) /\ n.epoch = 1
<1> DEFINE n == WithDevice(r, d)
<1>1. n = [rev |-> n.rev, epoch |-> n.epoch, cert |-> n.cert, wraps |-> n.wraps]
      /\ n.rev = r.rev + 1 /\ n.epoch = r.epoch /\ n.wraps = r.wraps
      /\ n.cert = [e \in Enrolled(r) \cup {d} |->
                        IF e = d THEN [epoch |-> r.epoch, cutoff |-> None] ELSE r.cert[e]]
  <2>1. r = [rev |-> r.rev, epoch |-> r.epoch, cert |-> r.cert, wraps |-> r.wraps]
    BY RegistryFacts DEF Signed
  <2> DEFINE c2 == [e \in Enrolled(r) \cup {d} |->
                        IF e = d THEN [epoch |-> r.epoch, cutoff |-> None] ELSE r.cert[e]]
  <2>2. n = [r EXCEPT !.rev = @ + 1, !.cert = c2]
    BY DEF WithDevice
  <2> HIDE DEF n, c2
  <2>3. n = [rev |-> r.rev + 1, epoch |-> r.epoch, cert |-> c2, wraps |-> r.wraps]
    BY <2>1, <2>2
  <2> QED
    BY <2>3 DEF c2
<1> HIDE DEF n
<1>2. Enrolled(n) = Enrolled(r) \cup {d} /\ n.cert[d] = [epoch |-> r.epoch, cutoff |-> None]
      /\ \A e \in Enrolled(r) : n.cert[e] = r.cert[e]
  BY <1>1 DEF Enrolled
<1>3. Active(n) = Active(r) \cup {d}
  BY <1>2 DEF Active
<1>4. ValidRegistry(n)
  BY DEF n
<1>5. r.epoch = 1
  <2>1. d \notin Active(r)
    BY DEF Active
  <2> QED
    BY <1>1, <1>3, <1>4, <2>1 DEF Signed, ValidRegistry
<1>6. n.cert[d] \in Certificate
  BY <1>2, <1>5 DEF Certificate
<1>7. Signed(n)
  <2>1. \A e \in Enrolled(n) : n.cert[e] \in Certificate
    BY <1>2, <1>6 DEF Signed
  <2>2. n.rev \in Nat /\ n.epoch \in Nat \ {0} /\ Enrolled(n) \subseteq Device
    BY <1>1, <1>2 DEF Signed
  <2>3. \A e \in DOMAIN n.wraps : n.wraps[e] \in Nat
    BY <1>1 DEF Signed
  <2>4. DOMAIN n.wraps \subseteq Active(n)
    BY <1>1, <1>3 DEF Signed
  <2>5. Active(n) = Enrolled(n)
    BY <1>2, <1>3, <1>5 DEF Signed
  <2>6. \A e \in Enrolled(n) : "agreement" \in identity[e]
    BY <1>2 DEF Signed
  <2>7. n \in Registry
    <3>1. n.cert \in [Enrolled(n) -> Certificate] /\ Enrolled(n) \in SUBSET Device
      BY <1>1, <1>2, <2>1, <2>2
    <3>2. n.wraps \in [DOMAIN n.wraps -> Nat] /\ DOMAIN n.wraps \in SUBSET Device
      BY <1>1, RegistryFacts DEF Signed
    <3> QED
      BY <1>1, <2>2, <3>1, <3>2, SomeRegistry
  <2> QED
    BY <2>1, <2>2, <1>4, <2>3, <2>4, <2>5, <2>6, <2>7 DEF Signed
<1>8. Follows(r, n)
  <2>1. \A e \in Enrolled(r) : r.cert[e].epoch \in Nat
    BY DEF Signed, Certificate
  <2> QED
    BY <1>1, <1>2, <2>1 DEF Follows, Signed
<1> QED
  BY <1>1, <1>5, <1>7, <1>8 DEF n

\* A revocation reissues who remains at the next epoch, under one key.
LEMMA WithoutDeviceFacts ==
  ASSUME SyncDevicesConstantsOK, NEW r, Signed(r), NEW gone \in Active(r), NEW cutoff \in Nat, NEW key \in Nat
  PROVE  LET n == WithoutDevice(r, gone, cutoff, key)
         IN  /\ Signed(n) /\ n.rev = r.rev + 1 /\ Follows(r, n) /\ n.epoch = r.epoch + 1
             /\ \A d \in DOMAIN n.wraps : n.wraps[d] = key
<1> DEFINE n == WithoutDevice(r, gone, cutoff, key)
           remaining == Active(r) \ {gone}
<1>1. n = [rev |-> n.rev, epoch |-> n.epoch, cert |-> n.cert, wraps |-> n.wraps]
      /\ n.rev = r.rev + 1 /\ n.epoch = r.epoch + 1 /\ n.wraps = [d \in remaining |-> key]
      /\ n.cert = [d \in Enrolled(r) |->
               IF d = gone THEN [r.cert[d] EXCEPT !.cutoff = cutoff]
               ELSE IF d \in remaining THEN [r.cert[d] EXCEPT !.epoch = r.epoch + 1]
               ELSE r.cert[d]]
  BY DEF WithoutDevice, Wraps
<1>2. r.epoch \in Nat \ {0} /\ r.rev \in Nat /\ Enrolled(r) \subseteq Device
      /\ Active(r) \subseteq Enrolled(r) /\ None \notin Nat
  BY DEF Signed, Active, SyncDevicesConstantsOK
<1> HIDE DEF n
<1>3. \A d \in Enrolled(r) : r.cert[d] \in Certificate /\ r.cert[d].epoch \in Nat \ {0} /\ r.cert[d].epoch <= r.epoch
  BY DEF Signed, Certificate, ValidRegistry
<1>4. Enrolled(n) = Enrolled(r)
  BY <1>1 DEF Enrolled
<1>5. n.cert[gone] = [r.cert[gone] EXCEPT !.cutoff = cutoff]
  BY <1>1, <1>2
<1>6. ASSUME NEW d \in remaining PROVE n.cert[d] = [r.cert[d] EXCEPT !.epoch = r.epoch + 1]
  BY <1>1, <1>2
<1>7. ASSUME NEW d \in Enrolled(r), d \notin Active(r) PROVE n.cert[d] = r.cert[d]
  BY <1>1, <1>2, <1>7
<1>8. n.cert[gone] \in Certificate /\ n.cert[gone].epoch = r.cert[gone].epoch /\ n.cert[gone].cutoff = cutoff
  BY <1>2, <1>3, <1>5 DEF Certificate
<1>9. ASSUME NEW d \in remaining
      PROVE  n.cert[d] \in Certificate /\ n.cert[d].epoch = r.epoch + 1 /\ n.cert[d].cutoff = None
  <2>1. r.cert[d] \in Certificate /\ r.cert[d].cutoff = None
    BY <1>2, <1>3 DEF Active
  <2> DEFINE x == r.epoch + 1
  <2>2. x \in Nat \ {0}
    BY <1>2
  <2> HIDE DEF x
  <2>3. n.cert[d] = [r.cert[d] EXCEPT !.epoch = x]
    BY <1>6 DEF x
  <2>4. n.cert[d] \in Certificate /\ n.cert[d].epoch = x /\ n.cert[d].cutoff = None
    BY <2>1, <2>2, <2>3 DEF Certificate
  <2> QED
    BY <2>4 DEF x
<1>10. Active(n) = remaining
  <2>1. \A d \in remaining : d \in Active(n)
    BY <1>2, <1>4, <1>9 DEF Active
  <2>2. gone \notin Active(n)
    BY <1>2, <1>8 DEF Active
  <2>3. \A d \in Enrolled(r) : d \notin Active(r) => d \notin Active(n)
    BY <1>7 DEF Active
  <2>4. Active(n) \subseteq Enrolled(r)
    BY <1>4 DEF Active
  <2> QED
    BY <2>1, <2>2, <2>3, <2>4
<1>11. DOMAIN n.wraps = remaining /\ \A d \in DOMAIN n.wraps : n.wraps[d] = key
  BY <1>1
<1>12. \A d \in Enrolled(n) : n.cert[d] \in Certificate /\ n.cert[d].epoch <= n.epoch
                              /\ (d \in Active(n) <=> n.cert[d].epoch = n.epoch)
  <2> SUFFICES ASSUME NEW d \in Enrolled(r)
               PROVE  n.cert[d] \in Certificate /\ n.cert[d].epoch <= n.epoch
                      /\ (d \in remaining <=> n.cert[d].epoch = n.epoch)
    BY <1>4, <1>10
  <2>1. CASE d = gone
    BY <1>1, <1>2, <1>3, <1>8, <2>1
  <2>2. CASE d \in remaining
    <3>1. n.cert[d] \in Certificate /\ n.cert[d].epoch = r.epoch + 1
      BY <1>9, <2>2
    <3>2. n.cert[d].epoch <= n.epoch /\ n.cert[d].epoch = n.epoch
      BY <1>1, <1>2, <3>1
    <3> QED
      BY <2>2, <3>1, <3>2
  <2>3. CASE d \notin Active(r)
    BY <1>1, <1>2, <1>3, <1>7, <2>3
  <2> QED
    BY <2>1, <2>2, <2>3
<1>13. ValidRegistry(n)
  <2>1. n.epoch # 1
    <3>1. n.epoch = r.epoch + 1 /\ r.epoch \in Nat \ {0}
      BY <1>1, <1>2
    <3>2. PICK e \in Nat \ {0} : e = r.epoch
      BY <3>1
    <3>3. e + 1 # 1
      OBVIOUS
    <3> QED
      BY <3>1, <3>2, <3>3
  <2> QED
    BY <1>10, <1>11, <1>12, <2>1 DEF ValidRegistry
<1>14. Signed(n)
  <2>1. \A d \in Enrolled(n) : "agreement" \in identity[d]
    BY <1>4 DEF Signed
  <2>2. n.rev \in Nat /\ n.epoch \in Nat \ {0} /\ n.epoch # 1
    <3>1. n.rev = r.rev + 1 /\ n.epoch = r.epoch + 1
      BY <1>1
    <3>2. r.rev \in Nat /\ r.epoch \in Nat \ {0}
      BY <1>2
    <3>3. \A e \in Nat \ {0} : e + 1 \in Nat \ {0} /\ e + 1 # 1
      OBVIOUS
    <3>4. \A e \in Nat : e + 1 \in Nat
      OBVIOUS
    <3> QED
      BY <3>1, <3>2, <3>3, <3>4
  <2>3. n.cert \in [Enrolled(n) -> Certificate] /\ Enrolled(n) \in SUBSET Device
    BY <1>1, <1>2, <1>4, <1>12
  <2>4. n.wraps \in [remaining -> Nat] /\ remaining \in SUBSET Device
    BY <1>1, <1>2
  <2>5. n \in Registry
    <3> HIDE DEF remaining
    <3> QED
      BY <1>1, <2>2, <2>3, <2>4, SomeRegistry
  <2> QED
    BY <1>2, <1>4, <1>10, <1>11, <1>12, <1>13, <2>1, <2>2, <2>5 DEF Signed
<1>15. Follows(r, n)
  <2> SUFFICES ASSUME NEW d \in Enrolled(r)
               PROVE  /\ r.cert[d].epoch <= n.cert[d].epoch
                      /\ d \notin Active(r) => n.cert[d] = r.cert[d]
    BY <1>1, <1>2, <1>4 DEF Follows
  <2>1. CASE d = gone
    BY <1>3, <1>8, <2>1
  <2>2. CASE d \in remaining
    BY <1>2, <1>3, <1>9, <2>2
  <2>3. CASE d \notin Active(r)
    BY <1>3, <1>7, <2>3
  <2> QED
    BY <2>1, <2>2, <2>3
<1> QED
  BY <1>1, <1>11, <1>14, <1>15 DEF n
-----------------------------------------------------------------------------
(* What a step that leaves these files alone keeps. *)

\* No step removes a private key of agreement.
AgreementStays == \A d \in Device : "agreement" \in identity[d] => "agreement" \in identity'[d]

LEMMA PendingKept ==
  ASSUME NEW d \in Device, Pending(d), AgreementStays, todo'[d] = todo[d], registry'[d] = registry[d],
         epochKeys'[d] = epochKeys[d], issued \subseteq issued'
  PROVE  Pending(d)'
<1>1. ASSUME NEW r, Unsaved(r), d = Owner PROVE Unsaved(r)'
  <2>1. Signed(r)'
    BY <1>1, SignedKept DEF Unsaved, AgreementStays
  <2>2. registry'[Owner] = registry[Owner]
    BY <1>1
  <2>3. Follows(registry[Owner], r)'
    BY <1>1, <2>2 DEF Unsaved, Follows, Enrolled, Active
  <2> QED
    BY <1>1, <2>1, <2>2, <2>3 DEF Unsaved
<1>2. CASE Idle(d)
  BY <1>2 DEF Pending, Idle
<1>3. CASE Asking(d)
  BY <1>3 DEF Pending, Asking, AgreementStays
<1>4. CASE Founding(d)
  BY <1>4 DEF Pending, Founding, AgreementStays
<1>5. CASE Replacing(d)
  <2> PICK r : todo[d] = <<Write("registry", r)>> /\ Ready(d, r)
    BY <1>5 DEF Replacing
  <2>1. Ready(d, r)'
    BY <1>1 DEF Ready, HasKey
  <2> QED
    BY <2>1 DEF Pending, Replacing
<1>6. CASE Adopting(d)
  <2> PICK r, key : /\ todo[d] = <<Write("key", [epoch |-> r.epoch, key |-> key]), Write("registry", r)>>
                    /\ Coming(d, r, key)
    BY <1>6 DEF Adopting
  <2>1. Coming(d, r, key)'
    BY <1>1 DEF Coming
  <2> QED
    BY <2>1 DEF Pending, Adopting
<1> QED
  BY <1>2, <1>3, <1>4, <1>5, <1>6 DEF Pending

LEMMA ChainKept ==
  ASSUME Chained, AgreementStays, registry'[Owner] = registry[Owner], issued' = issued
  PROVE  Chained'
<1>1. \A r \in issued' : Signed(r)'
  BY SignedKept DEF Chained, AgreementStays
<1>2. \A r, s \in issued' : r.rev <= s.rev => Follows(r, s)'
  BY DEF Chained, Follows, Enrolled, Active
<1> QED
  BY <1>1, <1>2 DEF Chained

LEMMA KeysKept ==
  ASSUME KeysFromWraps, UNCHANGED <<issued, epochKeys, registry>>
  PROVE  KeysFromWraps'
BY DEF KeysFromWraps

LEMMA LogsKept ==
  ASSUME LogsOpen, UNCHANGED <<issued, epochKeys, log>>
  PROVE  LogsOpen'
BY DEF LogsOpen, Opens, HasKey

LEMMA PinsKept ==
  ASSUME Pinned, UNCHANGED <<log, checkpoint, checkpoints>>
  PROVE  Pinned'
BY DEF Pinned

\* A command that begins has written nothing yet.
LEMMA Begins ==
  ASSUME DevicesInv, UNCHANGED <<files, world>>, NEW d \in Device, NEW q, Run(d, q), Pending(d)',
         minted' \in Nat, revoking' \in {None, revoking}
  PROVE  DevicesInv'
<1> USE DEF DevicesInv
<1>1. UNCHANGED <<authority, identity, registry, epochKeys, log, checkpoint, requests, issued, checkpoints>>
  BY DEF files, world
<1>2. AgreementStays
  BY <1>1 DEF AgreementStays
<1>3. todo' = [todo EXCEPT ![d] = q] /\ todo = [e \in Device |-> todo[e]]
  BY DEF Run, DeviceTypes
<1>4. todo' = [e \in Device |-> todo'[e]] /\ \A e \in Device \ {d} : todo'[e] = todo[e]
  BY <1>3
<1>5. DeviceTypes'
  BY <1>1, <1>4 DEF DeviceTypes
<1>6. ASSUME NEW e \in Device PROVE Pending(e)'
  <2>1. CASE e = d
    BY <2>1
  <2>2. CASE e # d
    BY <1>1, <1>2, <1>4, <2>2, PendingKept
  <2> QED
    BY <2>1, <2>2
<1>7. Chained' /\ KeysFromWraps' /\ LogsOpen' /\ Pinned'
  BY <1>1, <1>2, ChainKept, KeysKept, LogsKept, PinsKept
<1> QED
  BY <1>5, <1>6, <1>7

\* A write of one device's own files, with its queue one shorter.
LEMMA OthersPending ==
  ASSUME DevicesInv, AgreementStays, issued \subseteq issued', NEW d \in Device,
         \A e \in Device \ {d} : todo'[e] = todo[e] /\ registry'[e] = registry[e] /\ epochKeys'[e] = epochKeys[e],
         Pending(d)'
  PROVE  \A e \in Device : Pending(e)'
BY PendingKept DEF DevicesInv
-----------------------------------------------------------------------------
(* What the next write is. *)

LEMMA Heads ==
  ASSUME NEW d \in Device, Pending(d), ~Idle(d)
  PROVE  /\ Head(todo[d]).file = "authority" =>
              /\ d = Owner /\ registry[Owner] = None /\ todo[d] = <<AU, SI, AG, FI>>
              /\ Tail(todo[d]) = <<SI, AG, FI>>
         /\ Head(todo[d]).file = "signing" =>
              \/ Tail(todo[d]) = <<AG, RQ>>
              \/ d = Owner /\ registry[Owner] = None /\ Tail(todo[d]) = <<AG, FI>>
         /\ Head(todo[d]).file = "agreement" =>
              \/ Tail(todo[d]) = <<RQ>>
              \/ d = Owner /\ registry[Owner] = None /\ Tail(todo[d]) = <<FI>>
         /\ Head(todo[d]).file = "request" => Tail(todo[d]) = << >> /\ "agreement" \in identity[d]
         /\ Head(todo[d]).file = "registry" =>
              /\ Tail(todo[d]) = << >>
              /\ \/ /\ d = Owner /\ registry[Owner] = None
                    /\ Head(todo[d]).value = First /\ "agreement" \in identity[d]
                 \/ Ready(d, Head(todo[d]).value)
         /\ Head(todo[d]).file = "key" =>
              \E r, key : /\ Head(todo[d]).value = [epoch |-> r.epoch, key |-> key]
                          /\ Tail(todo[d]) = <<Write("registry", r)>> /\ Coming(d, r, key)
<1>1. AU.file = "authority" /\ SI.file = "signing" /\ AG.file = "agreement" /\ RQ.file = "request"
      /\ FI.file = "registry" /\ FI.value = First
      /\ \A v : Write("registry", v).file = "registry" /\ Write("registry", v).value = v
                /\ Write("key", v).file = "key" /\ Write("key", v).value = v
  BY DEF AU, SI, AG, RQ, FI, Write
<1>2. \A x, y, z, w : /\ Head(<<x>>) = x /\ Tail(<<x>>) = << >>
                      /\ Head(<<x, y>>) = x /\ Tail(<<x, y>>) = <<y>>
                      /\ Head(<<x, y, z>>) = x /\ Tail(<<x, y, z>>) = <<y, z>>
                      /\ Head(<<x, y, z, w>>) = x /\ Tail(<<x, y, z, w>>) = <<y, z, w>>
  OBVIOUS
<1>3. CASE Asking(d)
  <2>1. \/ todo[d] = <<SI, AG, RQ>> \/ todo[d] = <<AG, RQ>>
        \/ todo[d] = <<RQ>> /\ "agreement" \in identity[d]
    BY <1>3 DEF Asking
  <2>2. CASE todo[d] = <<SI, AG, RQ>>
    <3>1. Head(todo[d]) = SI /\ Tail(todo[d]) = <<AG, RQ>>
      BY <1>2, <2>2
    <3> QED
      BY <1>1, <3>1
  <2>3. CASE todo[d] = <<AG, RQ>>
    <3>1. Head(todo[d]) = AG /\ Tail(todo[d]) = <<RQ>>
      BY <1>2, <2>3
    <3> QED
      BY <1>1, <3>1
  <2>4. CASE todo[d] = <<RQ>> /\ "agreement" \in identity[d]
    <3>1. Head(todo[d]) = RQ /\ Tail(todo[d]) = << >>
      BY <1>2, <2>4
    <3> QED
      BY <1>1, <2>4, <3>1
  <2> QED
    BY <2>1, <2>2, <2>3, <2>4
<1>4. CASE Founding(d)
  <2>1. /\ d = Owner /\ registry[Owner] = None
        /\ \/ todo[d] = <<AU, SI, AG, FI>> \/ todo[d] = <<SI, AG, FI>> \/ todo[d] = <<AG, FI>>
           \/ todo[d] = <<FI>> /\ "agreement" \in identity[d]
    BY <1>4 DEF Founding
  <2>2. CASE todo[d] = <<AU, SI, AG, FI>>
    <3>1. Head(todo[d]) = AU /\ Tail(todo[d]) = <<SI, AG, FI>>
      BY <1>2, <2>2
    <3> QED
      BY <1>1, <2>1, <2>2, <3>1
  <2>3. CASE todo[d] = <<SI, AG, FI>>
    <3>1. Head(todo[d]) = SI /\ Tail(todo[d]) = <<AG, FI>>
      BY <1>2, <2>3
    <3> QED
      BY <1>1, <2>1, <3>1
  <2>4. CASE todo[d] = <<AG, FI>>
    <3>1. Head(todo[d]) = AG /\ Tail(todo[d]) = <<FI>>
      BY <1>2, <2>4
    <3> QED
      BY <1>1, <2>1, <3>1
  <2>5. CASE todo[d] = <<FI>> /\ "agreement" \in identity[d]
    <3>1. Head(todo[d]) = FI /\ Tail(todo[d]) = << >>
      BY <1>2, <2>5
    <3> QED
      BY <1>1, <2>1, <2>5, <3>1
  <2> QED
    BY <2>1, <2>2, <2>3, <2>4, <2>5
<1>5. CASE Replacing(d)
  <2> PICK r : todo[d] = <<Write("registry", r)>> /\ Ready(d, r)
    BY <1>5 DEF Replacing
  <2>1. Head(todo[d]) = Write("registry", r) /\ Tail(todo[d]) = << >>
    BY <1>2
  <2>2. Head(todo[d]).file = "registry" /\ Head(todo[d]).value = r
    BY <1>1, <2>1
  <2> QED
    BY <2>1, <2>2
<1>6. CASE Adopting(d)
  <2> PICK r, key : /\ todo[d] = <<Write("key", [epoch |-> r.epoch, key |-> key]), Write("registry", r)>>
                    /\ Coming(d, r, key)
    BY <1>6 DEF Adopting
  <2>1. Head(todo[d]) = Write("key", [epoch |-> r.epoch, key |-> key]) /\ Tail(todo[d]) = <<Write("registry", r)>>
    BY <1>2
  <2>2. Head(todo[d]).file = "key" /\ Head(todo[d]).value = [epoch |-> r.epoch, key |-> key]
    BY <1>1, <2>1
  <2> QED
    BY <2>1, <2>2
<1> QED
  BY <1>3, <1>4, <1>5, <1>6 DEF Pending
-----------------------------------------------------------------------------
(* Commands begin. *)

LEMMA OwnerRegistry ==
  ASSUME DevicesInv, NEW d \in Device, registry[d] # None
  PROVE  registry[d] \in issued /\ Signed(registry[d])
BY DEF DevicesInv, DeviceTypes, Chained

LEMMA UnsavedKept ==
  ASSUME NEW r, Unsaved(r), UNCHANGED <<files, world>>
  PROVE  Unsaved(r)'
<1>1. identity' = identity /\ registry' = registry
  BY DEF files
<1> QED
  BY <1>1 DEF Unsaved, Signed, Follows, Enrolled, Active, ValidRegistry

LEMMA InitializeOwnerStep ==
  ASSUME SyncDevicesConstantsOK, DevicesInv, InitializeOwner
  PROVE  DevicesInv'
<1>1. Owner \in Device
  BY DEF SyncDevicesConstantsOK
<1>2. Run(Owner, <<AU, SI, AG, FI>>) /\ UNCHANGED <<files, revoking, world, minted, deaths>>
      /\ registry[Owner] = None
  BY DEF InitializeOwner, AU, SI, AG, FI, First
<1>3. todo'[Owner] = <<AU, SI, AG, FI>>
  BY <1>1, <1>2 DEF Run, DevicesInv, DeviceTypes
<1>4. Pending(Owner)'
  BY <1>2, <1>3 DEF Pending, Founding, files
<1>5. minted' \in Nat /\ revoking' \in {None, revoking} /\ UNCHANGED <<files, world>>
  BY <1>2 DEF DevicesInv, DeviceTypes
<1> QED
  BY <1>1, <1>2, <1>4, <1>5, Begins

LEMMA CreateRequestStep ==
  ASSUME SyncDevicesConstantsOK, DevicesInv, NEW d \in Device, CreateRequest(d)
  PROVE  DevicesInv'
<1>1. Run(d, <<SI, AG, RQ>>) /\ UNCHANGED <<files, revoking, world, minted, deaths>>
  BY DEF CreateRequest, SI, AG, RQ
<1>2. todo'[d] = <<SI, AG, RQ>>
  BY <1>1 DEF Run, DevicesInv, DeviceTypes
<1>3. Pending(d)'
  BY <1>2 DEF Pending, Asking
<1>4. minted' \in Nat /\ revoking' \in {None, revoking} /\ UNCHANGED <<files, world>>
  BY <1>1 DEF DevicesInv, DeviceTypes
<1> QED
  BY <1>1, <1>3, <1>4, Begins

LEMMA EnrollStep ==
  ASSUME SyncDevicesConstantsOK, DevicesInv, NEW d \in Device, Enroll(d)
  PROVE  DevicesInv'
<1> DEFINE r == registry[Owner]
           n == WithDevice(r, d)
<1>1. Owner \in Device /\ r # None /\ d \in Device \ Enrolled(r) /\ "agreement" \in identity[d]
  BY DEF Enroll, SyncDevicesConstantsOK, DevicesInv, DeviceTypes
<1>2. ValidRegistry(n) /\ Run(Owner, <<Write("registry", n)>>)
      /\ UNCHANGED <<files, revoking, world, minted, deaths>>
  BY DEF Enroll
<1>3. Signed(r)
  BY <1>1, OwnerRegistry
<1> HIDE DEF r, n
<1>4. Signed(n) /\ n.rev = r.rev + 1 /\ Follows(r, n) /\ n.epoch = 1
  BY <1>1, <1>2, <1>3, WithDeviceFacts DEF n
<1>5. Unsaved(n) /\ ~(n.epoch > 1)
  BY <1>1, <1>4 DEF Unsaved, r
<1>6. PICK x : x = n
  OBVIOUS
<1>7. todo'[Owner] = <<Write("registry", x)>>
  BY <1>1, <1>2, <1>6 DEF Run, DevicesInv, DeviceTypes
<1>8. Ready(Owner, x)'
  BY <1>2, <1>5, <1>6, UnsavedKept DEF Ready
<1>9. Pending(Owner)'
  BY <1>7, <1>8 DEF Pending, Replacing
<1>10. minted' \in Nat /\ revoking' \in {None, revoking} /\ UNCHANGED <<files, world>>
  BY <1>2 DEF DevicesInv, DeviceTypes
<1> QED
  BY <1>1, <1>2, <1>9, <1>10, Begins

LEMMA RevokeStep ==
  ASSUME SyncDevicesConstantsOK, DevicesInv, Revoke
  PROVE  DevicesInv'
<1> DEFINE r == registry[Owner]
           n == WithoutDevice(r, revoking.dev, revoking.cutoff, minted + 1)
<1>1. Owner \in Device /\ r # None /\ revoking.dev \in Active(r) /\ revoking.cutoff \in Nat /\ minted + 1 \in Nat
  BY DEF Revoke, Revocable, SyncDevicesConstantsOK, DevicesInv, DeviceTypes
<1>2. Run(Owner, <<Write("key", [epoch |-> n.epoch, key |-> minted + 1]), Write("registry", n)>>)
      /\ UNCHANGED <<files, world, deaths>> /\ minted' = minted + 1 /\ revoking' = None
  BY DEF Revoke
<1>3. Signed(r)
  BY <1>1, OwnerRegistry
<1> PICK x, k : x = n /\ k = minted + 1
  OBVIOUS
<1>4. Signed(x) /\ x.rev = r.rev + 1 /\ Follows(r, x) /\ x.epoch = r.epoch + 1
      /\ \A d \in DOMAIN x.wraps : x.wraps[d] = k
  <2> HIDE DEF r
  <2> QED
    BY <1>1, <1>3, WithoutDeviceFacts
<1>5. Run(Owner, <<Write("key", [epoch |-> x.epoch, key |-> k]), Write("registry", x)>>)
  BY <1>2
<1>6. todo'[Owner] = <<Write("key", [epoch |-> x.epoch, key |-> k]), Write("registry", x)>>
  <2> HIDE DEF n
  <2> QED
    BY <1>1, <1>5 DEF Run, DevicesInv, DeviceTypes
<1> HIDE DEF n
<1>7. x.epoch > 1 /\ x.epoch > r.epoch
  BY <1>3, <1>4 DEF Signed
<1>8. Unsaved(x)
  BY <1>1, <1>4, <1>7 DEF Unsaved
<1>9. Unsaved(x)'
  BY <1>2, <1>8, UnsavedKept
<1>10. Coming(Owner, x, k)'
  BY <1>1, <1>4, <1>7, <1>9 DEF Coming
<1>11. Pending(Owner)'
  BY <1>6, <1>10 DEF Pending, Adopting
<1>12. minted' \in Nat /\ revoking' \in {None, revoking} /\ UNCHANGED <<files, world>>
  BY <1>1, <1>2
<1> QED
  BY <1>1, <1>5, <1>11, <1>12, Begins

LEMMA ImportRegistryStep ==
  ASSUME SyncDevicesConstantsOK, DevicesInv, NEW d \in Device, NEW r \in issued, ImportRegistry(d, r)
  PROVE  DevicesInv'
<1>1. Revision(d) < r.rev \/ registry[d] = r
  BY DEF ImportRegistry
<1>2. Run(d, Adopted(d, r) \o <<Write("registry", r)>>) /\ UNCHANGED <<files, revoking, world, minted, deaths>>
  BY DEF ImportRegistry
<1>3. Signed(r) /\ registry[Owner] # None /\ r.rev <= registry[Owner].rev /\ Owner \in Device
  BY DEF DevicesInv, Chained, SyncDevicesConstantsOK
<1>4. d = Owner => registry[Owner] = r
  <2>1. r.rev \in Nat /\ registry[Owner].rev \in Nat
    BY <1>3, OwnerRegistry DEF Signed
  <2> QED
    BY <1>1, <1>3, <2>1 DEF Revision
<1>5. r.epoch \in Nat \ {0}
  BY <1>3 DEF Signed
<1>6. UNCHANGED <<registry, epochKeys, issued, identity>>
  BY <1>2 DEF files, world
<1>7. Pending(d)'
  <2>1. CASE ~HasKey(d, r.epoch) /\ d \in DOMAIN r.wraps /\ "agreement" \in identity[d]
    <3> DEFINE k == r.wraps[d]
               q == <<Write("key", [epoch |-> r.epoch, key |-> k]), Write("registry", r)>>
    <3>1. Adopted(d, r) = <<Write("key", [epoch |-> r.epoch, key |-> k])>>
      BY <2>1 DEF Adopted
    <3>3. Adopted(d, r) \o <<Write("registry", r)>> = q
      BY <3>1, TwoInARow
    <3> HIDE DEF q
    <3>4. todo'[d] = q
      BY <1>2, <3>3 DEF Run, DevicesInv, DeviceTypes
    <3>5. r.epoch > 1 /\ k \in Nat
      BY <1>3, <1>5, <2>1 DEF HasKey, Signed
    <3>6. d # Owner
      BY <1>4, <2>1, <3>5 DEF DevicesInv, KeysFromWraps, HasKey
    <3>7. Coming(d, r, k)'
      BY <1>6, <2>1, <3>5, <3>6 DEF Coming
    <3> QED
      BY <3>4, <3>7 DEF Pending, Adopting, q
  <2>2. CASE ~(~HasKey(d, r.epoch) /\ d \in DOMAIN r.wraps /\ "agreement" \in identity[d])
    <3>1. Adopted(d, r) = << >>
      BY <2>2 DEF Adopted
    <3>2. \A y : << >> \o <<y>> = <<y>>
      OBVIOUS
    <3>3. todo'[d] = <<Write("registry", r)>>
      BY <1>2, <3>1, <3>2 DEF Run, DevicesInv, DeviceTypes
    <3>4. d \in DOMAIN r.wraps => "agreement" \in identity[d]
      BY <1>3 DEF Signed, Active
    <3>5. Ready(d, r)'
      BY <1>4, <1>6, <2>2, <3>4 DEF Ready, HasKey
    <3> QED
      BY <3>3, <3>5 DEF Pending, Replacing
  <2> QED
    BY <2>1, <2>2
<1>8. minted' \in Nat /\ revoking' \in {None, revoking} /\ UNCHANGED <<files, world>>
  BY <1>2 DEF DevicesInv, DeviceTypes
<1> QED
  BY <1>2, <1>7, <1>8, Begins

\* What a revocation is asked with is a device and a number.
LEMMA AskingStep ==
  ASSUME SyncDevicesConstantsOK, DevicesInv, RevocationRefused \/ \E d \in Device : AskRevocation(d)
  PROVE  DevicesInv'
<1>1. UNCHANGED <<files, todo, world, minted, deaths>>
  BY DEF RevocationRefused, AskRevocation
<1>2. revoking' # None => revoking'.dev \in Device /\ revoking'.cutoff \in Nat
  <2>1. CASE RevocationRefused
    BY <2>1 DEF RevocationRefused
  <2>2. CASE \E d \in Device : AskRevocation(d)
    <3> PICK d \in Device : AskRevocation(d)
      BY <2>2
    <3>1. Sequence(d, log[Owner]) \in Nat
      BY SequenceFacts DEF DevicesInv, SyncDevicesConstantsOK
    <3> QED
      BY <3>1 DEF AskRevocation
  <2> QED
    BY <2>1, <2>2
<1>3. UNCHANGED <<authority, identity, registry, epochKeys, log, checkpoint, requests, issued, checkpoints, todo>>
  BY <1>1 DEF files, world
<1>4. AgreementStays
  BY <1>3 DEF AgreementStays
<1>5. DeviceTypes'
  BY <1>1, <1>2, <1>3 DEF DevicesInv, DeviceTypes
<1>6. \A d \in Device : Pending(d)'
  BY <1>3, <1>4, PendingKept DEF DevicesInv
<1>7. Chained' /\ KeysFromWraps' /\ LogsOpen' /\ Pinned'
  BY <1>3, <1>4, ChainKept, KeysKept, LogsKept, PinsKept DEF DevicesInv
<1> QED
  BY <1>5, <1>6, <1>7 DEF DevicesInv
-----------------------------------------------------------------------------
(* One file replaced. *)

\* Only one device's queue changes: the rest of the state is as it was but for identities.
LEMMA IdentityWritten ==
  ASSUME DevicesInv, AgreementStays, identity' \in [Device -> SUBSET {"signing", "agreement"}],
         authority' \in BOOLEAN, NEW d \in Device, NEW q, Run(d, q), Pending(d)',
         requests' \subseteq {e \in Device : "agreement" \in identity'[e]},
         UNCHANGED <<registry, epochKeys, log, checkpoint, revoking, issued, checkpoints, minted>>
  PROVE  DevicesInv'
<1>1. todo' = [e \in Device |-> todo'[e]] /\ \A e \in Device \ {d} : todo'[e] = todo[e]
  BY DEF Run, DevicesInv, DeviceTypes
<1>2. DeviceTypes'
  BY <1>1 DEF DevicesInv, DeviceTypes
<1>3. \A e \in Device : Pending(e)'
  BY <1>1, OthersPending
<1>4. Chained' /\ KeysFromWraps' /\ LogsOpen' /\ Pinned'
  BY ChainKept, KeysKept, LogsKept, PinsKept DEF DevicesInv
<1> QED
  BY <1>2, <1>3, <1>4 DEF DevicesInv

LEMMA RequestFailsStep ==
  ASSUME SyncDevicesConstantsOK, DevicesInv, NEW d \in Device, RequestFails(d)
  PROVE  DevicesInv'
<1>1. /\ identity' = [identity EXCEPT ![d] = @ \ {"signing"}] /\ Run(d, << >>)
      /\ UNCHANGED <<authority, registry, epochKeys, log, checkpoint, revoking, world, minted>>
  BY DEF RequestFails
<1>2. identity' \in [Device -> SUBSET {"signing", "agreement"}] /\ AgreementStays
  BY <1>1 DEF AgreementStays, DevicesInv, DeviceTypes
<1>3. Pending(d)'
  BY <1>1 DEF Run, Pending, Idle, DevicesInv, DeviceTypes
<1>4. requests' \subseteq {e \in Device : "agreement" \in identity'[e]}
  BY <1>1, <1>2 DEF world, AgreementStays, DevicesInv, DeviceTypes
<1>5. authority' \in BOOLEAN /\ UNCHANGED <<registry, epochKeys, log, checkpoint, revoking, issued, checkpoints, minted>>
  BY <1>1 DEF world, DevicesInv, DeviceTypes
<1> QED
  BY <1>1, <1>2, <1>3, <1>4, <1>5, IdentityWritten

LEMMA SaveIdentityStep ==
  ASSUME SyncDevicesConstantsOK, DevicesInv, NEW d \in Device, SaveIdentity(d)
  PROVE  DevicesInv'
<1>1. /\ identity' = [identity EXCEPT ![d] = @ \cup {Head(todo[d]).file}]
      /\ Run(d, Tail(todo[d])) /\ ~Idle(d) /\ Head(todo[d]).file \in {"signing", "agreement"}
      /\ UNCHANGED <<authority, registry, epochKeys, log, checkpoint, revoking, world, minted>>
  BY DEF SaveIdentity
<1>2. identity' \in [Device -> SUBSET {"signing", "agreement"}] /\ AgreementStays
  BY <1>1 DEF AgreementStays, DevicesInv, DeviceTypes
<1>3. todo'[d] = Tail(todo[d]) /\ identity'[d] = identity[d] \cup {Head(todo[d]).file}
  BY <1>1 DEF Run, DevicesInv, DeviceTypes
<1>4. Pending(d)'
  <2>1. CASE Head(todo[d]).file = "signing"
    <3>1. \/ todo'[d] = <<AG, RQ>>
          \/ d = Owner /\ registry'[Owner] = None /\ todo'[d] = <<AG, FI>>
      BY <1>1, <1>3, <2>1, Heads DEF DevicesInv
    <3> QED
      BY <3>1 DEF Pending, Asking, Founding
  <2>2. CASE Head(todo[d]).file = "agreement"
    <3>1. \/ todo'[d] = <<RQ>>
          \/ d = Owner /\ registry'[Owner] = None /\ todo'[d] = <<FI>>
      BY <1>1, <1>3, <2>2, Heads DEF DevicesInv
    <3>2. "agreement" \in identity'[d]
      BY <1>3, <2>2
    <3> QED
      BY <3>1, <3>2 DEF Pending, Asking, Founding
  <2> QED
    BY <1>1, <2>1, <2>2
<1>5. requests' \subseteq {e \in Device : "agreement" \in identity'[e]}
  BY <1>1, <1>2 DEF world, AgreementStays, DevicesInv, DeviceTypes
<1>6. authority' \in BOOLEAN /\ UNCHANGED <<registry, epochKeys, log, checkpoint, revoking, issued, checkpoints, minted>>
  BY <1>1 DEF world, DevicesInv, DeviceTypes
<1> QED
  BY <1>1, <1>2, <1>4, <1>5, <1>6, IdentityWritten

LEMMA SaveAuthorityStep ==
  ASSUME SyncDevicesConstantsOK, DevicesInv, NEW d \in Device, SaveAuthority(d)
  PROVE  DevicesInv'
<1>1. /\ authority' = TRUE /\ Run(d, Tail(todo[d])) /\ ~Idle(d) /\ Head(todo[d]).file = "authority"
      /\ UNCHANGED <<identity, registry, epochKeys, log, checkpoint, revoking, world, minted>>
  BY DEF SaveAuthority
<1>2. d = Owner /\ registry[Owner] = None /\ Tail(todo[d]) = <<SI, AG, FI>>
  BY <1>1, Heads DEF DevicesInv
<1>3. Pending(d)'
  <2>1. todo'[d] = <<SI, AG, FI>>
    BY <1>1, <1>2 DEF Run, DevicesInv, DeviceTypes
  <2> QED
    BY <1>1, <1>2, <2>1 DEF Pending, Founding
<1>4. AgreementStays /\ identity' \in [Device -> SUBSET {"signing", "agreement"}]
      /\ requests' \subseteq {e \in Device : "agreement" \in identity'[e]} /\ authority' \in BOOLEAN
  BY <1>1 DEF world, AgreementStays, DevicesInv, DeviceTypes
<1>5. UNCHANGED <<registry, epochKeys, log, checkpoint, revoking, issued, checkpoints, minted>>
  BY <1>1 DEF world
<1> QED
  BY <1>1, <1>3, <1>4, <1>5, IdentityWritten

LEMMA ReturnRequestStep ==
  ASSUME SyncDevicesConstantsOK, DevicesInv, NEW d \in Device, ReturnRequest(d)
  PROVE  DevicesInv'
<1>1. /\ requests' = requests \cup {d} /\ Run(d, Tail(todo[d])) /\ ~Idle(d) /\ Head(todo[d]).file = "request"
      /\ UNCHANGED <<files, revoking, issued, checkpoints, minted>>
  BY DEF ReturnRequest
<1>2. Tail(todo[d]) = << >> /\ "agreement" \in identity[d]
  BY <1>1, Heads DEF DevicesInv
<1>3. Pending(d)'
  BY <1>1, <1>2 DEF Pending, Idle, Run, DevicesInv, DeviceTypes
<1>4. AgreementStays /\ identity' \in [Device -> SUBSET {"signing", "agreement"}]
      /\ requests' \subseteq {e \in Device : "agreement" \in identity'[e]} /\ authority' \in BOOLEAN
  BY <1>1, <1>2 DEF files, AgreementStays, DevicesInv, DeviceTypes
<1>5. UNCHANGED <<registry, epochKeys, log, checkpoint, revoking, issued, checkpoints, minted>>
  BY <1>1 DEF files
<1> QED
  BY <1>1, <1>3, <1>4, <1>5, IdentityWritten

LEMMA DieStep ==
  ASSUME SyncDevicesConstantsOK, DevicesInv, NEW d \in Device, Die(d)
  PROVE  DevicesInv'
<1>1. Run(d, << >>) /\ UNCHANGED <<files, revoking, world, minted>>
  BY DEF Die
<1>2. Pending(d)'
  BY <1>1 DEF Pending, Idle, Run, DevicesInv, DeviceTypes
<1>3. minted' \in Nat /\ revoking' \in {None, revoking} /\ UNCHANGED <<files, world>>
  BY <1>1 DEF DevicesInv, DeviceTypes
<1> QED
  BY <1>1, <1>2, <1>3, Begins

\* A key is saved for an epoch no registry has yet, or is the one that was wrapped for it.
LEMMA SaveEpochKeyStep ==
  ASSUME SyncDevicesConstantsOK, DevicesInv, NEW d \in Device, SaveEpochKey(d)
  PROVE  DevicesInv'
<1>1. /\ epochKeys' = [epochKeys EXCEPT ![d] = [e \in DOMAIN @ \cup {Head(todo[d]).value.epoch} |->
                          IF e = Head(todo[d]).value.epoch THEN Head(todo[d]).value.key ELSE @[e]]]
      /\ Run(d, Tail(todo[d])) /\ ~Idle(d) /\ Head(todo[d]).file = "key"
      /\ UNCHANGED <<authority, identity, registry, log, checkpoint, revoking, world, minted>>
  BY DEF SaveEpochKey
<1>2. PICK r, key : /\ Head(todo[d]).value = [epoch |-> r.epoch, key |-> key]
                    /\ Tail(todo[d]) = <<Write("registry", r)>> /\ Coming(d, r, key)
  BY <1>1, Heads DEF DevicesInv
<1>3. Head(todo[d]).value.epoch = r.epoch /\ Head(todo[d]).value.key = key
  BY <1>2
<1>4. todo'[d] = <<Write("registry", r)>> /\ todo' = [e \in Device |-> todo'[e]]
      /\ \A e \in Device \ {d} : todo'[e] = todo[e]
  BY <1>1, <1>2 DEF Run, DevicesInv, DeviceTypes
<1>5. epochKeys' = [e \in Device |-> epochKeys'[e]] /\ \A e \in Device \ {d} : epochKeys'[e] = epochKeys[e]
  BY <1>1 DEF DevicesInv, DeviceTypes
<1>6. epochKeys'[d] = [e \in DOMAIN epochKeys[d] \cup {r.epoch} |-> IF e = r.epoch THEN key ELSE epochKeys[d][e]]
  BY <1>1, <1>3 DEF DevicesInv, DeviceTypes
<1>7. /\ DOMAIN epochKeys'[d] = DOMAIN epochKeys[d] \cup {r.epoch} /\ epochKeys'[d][r.epoch] = key
      /\ \A e \in DOMAIN epochKeys[d] : e # r.epoch => epochKeys'[d][e] = epochKeys[d][e]
  BY <1>6
<1>8. Signed(r) /\ r.epoch \in Nat /\ key \in Nat /\ r.epoch > 1
  BY <1>2 DEF Coming, Unsaved, DevicesInv, Chained, Signed
<1>9. UNCHANGED <<authority, identity, registry, log, checkpoint, revoking, requests, issued, checkpoints, minted>>
  BY <1>1 DEF world
<1>10. AgreementStays
  BY <1>9 DEF AgreementStays
<1>11. DeviceTypes'
  <2>1. \A e \in Device : \A x \in DOMAIN epochKeys'[e] : x \in Nat /\ epochKeys'[e][x] \in Nat
    BY <1>5, <1>7, <1>8 DEF DevicesInv, DeviceTypes
  <2> QED
    BY <1>4, <1>5, <1>9, <2>1 DEF DevicesInv, DeviceTypes
<1>12. Chained'
  BY <1>9, <1>10, ChainKept DEF DevicesInv
<1>13. d = Owner => \A s \in issued : s.epoch \in Nat /\ s.epoch # r.epoch
  <2> SUFFICES ASSUME d = Owner, NEW s \in issued PROVE s.epoch \in Nat /\ s.epoch # r.epoch
    OBVIOUS
  <2>1. Unsaved(r)
    BY <1>2 DEF Coming
  <2>2. registry[Owner] # None /\ r.epoch > registry[Owner].epoch
    BY <1>8, <2>1 DEF Unsaved
  <2>3. registry[Owner] \in issued /\ Signed(registry[Owner]) /\ Signed(s)
    BY <2>2, OwnerRegistry DEF DevicesInv, Chained, SyncDevicesConstantsOK
  <2>4. s.epoch <= registry[Owner].epoch
    BY <2>3 DEF DevicesInv, Chained, Follows
  <2> QED
    BY <1>8, <2>2, <2>3, <2>4 DEF Signed
<1>14. ASSUME d # Owner
       PROVE  /\ r \in issued /\ d \in DOMAIN r.wraps /\ key = r.wraps[d]
              /\ r.epoch \in DOMAIN epochKeys[d] => epochKeys[d][r.epoch] = key
  <2>1. r \in issued /\ d \in DOMAIN r.wraps /\ key = r.wraps[d]
    BY <1>2, <1>14 DEF Coming
  <2>2. ASSUME r.epoch \in DOMAIN epochKeys[d] PROVE epochKeys[d][r.epoch] = key
    <3> PICK s \in issued : s.epoch = r.epoch /\ d \in DOMAIN s.wraps /\ epochKeys[d][r.epoch] = s.wraps[d]
      BY <1>14, <2>2 DEF DevicesInv, KeysFromWraps
    <3>1. s = r
      BY <1>8, <2>1 DEF DevicesInv, Chained
    <3> QED
      BY <2>1, <3>1
  <2> QED
    BY <2>1, <2>2
<1>15. KeysFromWraps'
  <2>1. ASSUME NEW s \in issued, s.epoch > 1
        PROVE  /\ s.epoch \in DOMAIN epochKeys'[Owner]
               /\ \A e \in DOMAIN s.wraps : s.wraps[e] = epochKeys'[Owner][s.epoch]
    <3>1. /\ s.epoch \in DOMAIN epochKeys[Owner]
          /\ \A e \in DOMAIN s.wraps : s.wraps[e] = epochKeys[Owner][s.epoch]
      BY <2>1 DEF DevicesInv, KeysFromWraps
    <3> QED
      BY <1>5, <1>7, <1>13, <3>1 DEF SyncDevicesConstantsOK
  <2>2. ASSUME NEW e \in Device \ {Owner}, NEW x \in DOMAIN epochKeys'[e]
        PROVE  \E s \in issued : s.epoch = x /\ x > 1 /\ e \in DOMAIN s.wraps /\ epochKeys'[e][x] = s.wraps[e]
    <3>1. CASE e = d /\ x = r.epoch
      BY <1>7, <1>8, <1>14, <3>1
    <3>2. CASE ~(e = d /\ x = r.epoch)
      <4>1. x \in DOMAIN epochKeys[e] /\ epochKeys'[e][x] = epochKeys[e][x]
        BY <1>5, <1>7, <3>2
      <4> QED
        BY <4>1 DEF DevicesInv, KeysFromWraps
    <3> QED
      BY <3>1, <3>2
  <2>3. ASSUME NEW e \in Device \ {Owner}, registry[e] # None, e \in DOMAIN registry[e].wraps
        PROVE  registry[e].epoch \in DOMAIN epochKeys'[e]
    BY <1>5, <1>7, <2>3 DEF DevicesInv, KeysFromWraps
  <2> QED
    BY <1>9, <2>1, <2>2, <2>3 DEF KeysFromWraps
<1>16. LogsOpen'
  <2> SUFFICES ASSUME NEW e \in Device, NEW c \in log[e]
               PROVE  Opens(e, c)' /\ (c.epoch > 1 => \E s \in issued : s.epoch = c.epoch)
    BY <1>9 DEF LogsOpen
  <2>1. Opens(e, c) /\ (c.epoch > 1 => \E s \in issued : s.epoch = c.epoch) /\ c.epoch \in Nat \ {0}
    BY DEF DevicesInv, LogsOpen, DeviceTypes, Change
  <2>2. CASE c.epoch = 1
    BY <2>1, <2>2 DEF Opens
  <2>3. CASE c.epoch > 1
    <3>1. c.epoch \in DOMAIN epochKeys[e] /\ epochKeys[e][c.epoch] = c.key
      BY <2>1, <2>3 DEF Opens, HasKey
    <3>2. c.epoch \in DOMAIN epochKeys'[e] /\ epochKeys'[e][c.epoch] = c.key
      <4>1. CASE e # d \/ c.epoch # r.epoch
        BY <1>5, <1>7, <3>1, <4>1
      <4>2. CASE e = d /\ c.epoch = r.epoch
        BY <1>7, <1>13, <1>14, <2>1, <2>3, <3>1, <4>2
      <4> QED
        BY <4>1, <4>2
    <3> QED
      BY <2>1, <2>3, <3>2 DEF Opens, HasKey
  <2> QED
    BY <2>1, <2>2, <2>3
<1>17. Pinned'
  BY <1>9, PinsKept DEF DevicesInv
<1>18. Pending(d)'
  <2>1. Ready(d, r)'
    <3>1. CASE d # Owner
      BY <1>7, <1>9, <1>14, <3>1 DEF Ready, HasKey
    <3>2. CASE d = Owner
      <4>1. Unsaved(r) /\ \A e \in DOMAIN r.wraps : r.wraps[e] = key
        BY <1>2, <3>2 DEF Coming
      <4>2. Unsaved(r)'
        BY <1>9, <4>1 DEF Unsaved, Signed, Follows, Enrolled, Active, ValidRegistry
      <4> QED
        BY <1>7, <3>2, <4>1, <4>2 DEF Ready
    <3> QED
      BY <3>1, <3>2
  <2> QED
    BY <1>4, <2>1 DEF Pending, Replacing
<1>19. \A e \in Device : Pending(e)'
  BY <1>4, <1>5, <1>9, <1>10, <1>18, OthersPending
<1> QED
  BY <1>11, <1>12, <1>15, <1>16, <1>17, <1>19 DEF DevicesInv

\* A registry is the next of the chain, the one that founds it, or one of it.
LEMMA SaveRegistryStep ==
  ASSUME SyncDevicesConstantsOK, DevicesInv, NEW d \in Device, SaveRegistry(d)
  PROVE  DevicesInv'
<1> DEFINE r == Head(todo[d]).value
<1>1. /\ registry' = [registry EXCEPT ![d] = r] /\ issued' = issued \cup {r}
      /\ Run(d, Tail(todo[d])) /\ ~Idle(d) /\ Head(todo[d]).file = "registry"
      /\ UNCHANGED <<authority, identity, epochKeys, log, checkpoint, revoking, requests, checkpoints, minted>>
  BY DEF SaveRegistry
<1>2. /\ Tail(todo[d]) = << >>
      /\ \/ d = Owner /\ registry[Owner] = None /\ r = First /\ "agreement" \in identity[d]
         \/ Ready(d, r)
  BY <1>1, Heads DEF DevicesInv
<1> HIDE DEF r
<1>3. AgreementStays /\ Owner \in Device /\ None \notin Nat
  BY <1>1 DEF AgreementStays, SyncDevicesConstantsOK
<1>4. todo' = [e \in Device |-> todo'[e]] /\ todo'[d] = << >> /\ \A e \in Device \ {d} : todo'[e] = todo[e]
  BY <1>1, <1>2 DEF Run, DevicesInv, DeviceTypes
<1>5. /\ registry' \in [Device -> issued' \cup {None}] /\ registry'[d] = r
      /\ \A e \in Device \ {d} : registry'[e] = registry[e]
  BY <1>1 DEF DevicesInv, DeviceTypes
<1>6. Pending(d)'
  BY <1>4 DEF Pending, Idle
<1>7. \A e \in Device : Pending(e)'
  BY <1>1, <1>3, <1>4, <1>5, <1>6, OthersPending
\* What it is for the chain.
<1>8. \/ r \in issued /\ (d = Owner => registry[Owner] = r) /\ (d \in DOMAIN r.wraps => HasKey(d, r.epoch))
      \/ /\ d = Owner /\ Signed(r)
         /\ \A s \in issued : /\ registry[Owner] # None
                              /\ Signed(s) /\ Follows(s, r) /\ s.rev < r.rev
                              /\ r.epoch > 1 => s.epoch < r.epoch
         /\ r.epoch > 1 => /\ r.epoch \in DOMAIN epochKeys[Owner]
                           /\ \A e \in DOMAIN r.wraps : r.wraps[e] = epochKeys[Owner][r.epoch]
  <2>1. CASE d = Owner /\ registry[Owner] = None /\ r = First /\ "agreement" \in identity[d]
    <3>1. Signed(r) /\ r.epoch = 1
      BY <2>1, FirstSigned
    <3>2. issued = {}
      BY <2>1 DEF DevicesInv, Chained
    <3> QED
      BY <2>1, <3>1, <3>2
  <2>2. CASE d = Owner /\ Unsaved(r)
             /\ (r.epoch > 1 => /\ r.epoch \in DOMAIN epochKeys[Owner]
                                /\ \A e \in DOMAIN r.wraps : r.wraps[e] = epochKeys[Owner][r.epoch])
    <3> DEFINE o == registry[Owner]
    <3>1. o # None /\ o \in issued /\ Signed(o) /\ Signed(r) /\ r.rev = o.rev + 1 /\ Follows(o, r)
          /\ (r.epoch > 1 => r.epoch > o.epoch)
      BY <1>3, <2>2, OwnerRegistry DEF Unsaved
    <3>2. ASSUME NEW s \in issued
          PROVE  Signed(s) /\ Follows(s, r) /\ s.rev < r.rev /\ (r.epoch > 1 => s.epoch < r.epoch)
      <4>1. Signed(s) /\ s.rev <= o.rev /\ Follows(s, o)
        BY <3>1 DEF DevicesInv, Chained
      <4> HIDE DEF o
      <4>2. Follows(s, r)
        BY <3>1, <4>1, FollowsTransitively
      <4>3. s.rev \in Nat /\ o.rev \in Nat /\ s.epoch \in Nat /\ o.epoch \in Nat /\ r.epoch \in Nat /\ s.epoch <= o.epoch
        BY <3>1, <4>1 DEF Signed, Follows
      <4> QED
        BY <3>1, <4>1, <4>2, <4>3
    <3> QED
      BY <2>2, <3>1, <3>2
  <2>3. CASE r \in issued /\ (d = Owner => registry[Owner] = r) /\ (d \in DOMAIN r.wraps => HasKey(d, r.epoch))
    BY <2>3
  <2> QED
    BY <1>2, <2>1, <2>2, <2>3 DEF Ready
<1>9. Signed(r) /\ r # None /\ r.epoch \in Nat \ {0} /\ r.rev \in Nat
  <2>1. Signed(r)
    BY <1>8 DEF DevicesInv, Chained
  <2>2. r # None
    BY <2>1 DEF Signed, SyncDevicesConstantsOK
  <2> QED
    BY <2>1, <2>2 DEF Signed
<1>10. None \notin issued /\ registry \in [Device -> issued \cup {None}]
       /\ \A s \in issued : s.epoch \in Nat \ {0} /\ s.rev \in Nat
  BY DEF DevicesInv, DeviceTypes, Chained, Signed, SyncDevicesConstantsOK
\* The owner's registry is still the latest.
<1>11. registry'[Owner] # None /\ \A s \in issued' : Signed(s) /\ s.rev <= registry'[Owner].rev
  <2>1. CASE r \in issued
    <3>1. registry'[Owner] = registry[Owner] /\ issued' = issued
      BY <1>1, <1>3, <1>5, <1>8, <1>10, <2>1
    <3> QED
      BY <3>1, <2>1 DEF DevicesInv, Chained
  <2>2. CASE r \notin issued
    <3>1. d = Owner /\ registry'[Owner] = r /\ \A s \in issued : Signed(s) /\ s.rev < r.rev
      BY <1>5, <1>8, <2>2
    <3> QED
      BY <1>1, <1>9, <1>10, <3>1
  <2> QED
    BY <2>1, <2>2
<1>12. \A s, u \in issued' : /\ s.rev <= u.rev => Follows(s, u)
                             /\ s.rev = u.rev \/ (s.epoch = u.epoch /\ s.epoch > 1) => s = u
  <2> SUFFICES ASSUME NEW s \in issued', NEW u \in issued'
               PROVE  /\ s.rev <= u.rev => Follows(s, u)
                      /\ s.rev = u.rev \/ (s.epoch = u.epoch /\ s.epoch > 1) => s = u
    OBVIOUS
  <2>1. CASE s \in issued /\ u \in issued
    BY <2>1 DEF DevicesInv, Chained
  <2>2. CASE r \notin issued
    <3>1. \A v \in issued : Follows(v, r) /\ v.rev < r.rev /\ (r.epoch > 1 => v.epoch < r.epoch)
      BY <1>8, <2>2
    <3>2. CASE s = r /\ u = r
      BY <1>9, <3>2, FollowsItself
    <3>3. CASE s \in issued /\ u = r
      BY <1>9, <1>10, <3>1, <3>3
    <3>4. CASE s = r /\ u \in issued
      BY <1>9, <1>10, <3>1, <3>4
    <3> QED
      BY <1>1, <2>1, <3>2, <3>3, <3>4
  <2> QED
    BY <1>1, <2>1, <2>2
<1>13. Chained'
  <2>1. \A s \in issued' : Signed(s)'
    BY <1>3, <1>11, SignedKept DEF AgreementStays
  <2>2. \A s, u \in issued' : s.rev <= u.rev => Follows(s, u)'
    BY <1>12 DEF Follows, Enrolled, Active
  <2> QED
    BY <1>11, <1>12, <2>1, <2>2 DEF Chained
<1>14. KeysFromWraps'
  <2>1. ASSUME NEW s \in issued', s.epoch > 1
        PROVE  /\ s.epoch \in DOMAIN epochKeys[Owner]
               /\ \A e \in DOMAIN s.wraps : s.wraps[e] = epochKeys[Owner][s.epoch]
    BY <1>1, <1>8, <2>1 DEF DevicesInv, KeysFromWraps
  <2>2. ASSUME NEW e \in Device \ {Owner}, NEW x \in DOMAIN epochKeys[e]
        PROVE  \E s \in issued' : s.epoch = x /\ x > 1 /\ e \in DOMAIN s.wraps /\ epochKeys[e][x] = s.wraps[e]
    BY <1>1 DEF DevicesInv, KeysFromWraps
  <2>3. ASSUME NEW e \in Device \ {Owner}, registry'[e] # None, e \in DOMAIN registry'[e].wraps
        PROVE  registry'[e].epoch \in DOMAIN epochKeys[e]
    <3>1. CASE e # d
      BY <1>5, <2>3, <3>1 DEF DevicesInv, KeysFromWraps
    <3>2. CASE e = d
      <4>1. HasKey(d, r.epoch) /\ d \in DOMAIN r.wraps /\ Signed(r)
        BY <1>5, <1>8, <1>9, <2>3, <3>2
      <4>2. r.epoch # 1
        BY <1>9, <4>1 DEF Signed, ValidRegistry
      <4> QED
        BY <1>5, <3>2, <4>1, <4>2 DEF HasKey
    <3> QED
      BY <3>1, <3>2
  <2> QED
    BY <1>1, <2>1, <2>2, <2>3 DEF KeysFromWraps
<1>15. LogsOpen'
  <2>1. \A e \in Device : \A c \in log[e] : Opens(e, c)'
    BY <1>1 DEF DevicesInv, LogsOpen, Opens, HasKey
  <2>2. \A e \in Device : \A c \in log[e] : c.epoch > 1 => \E s \in issued' : s.epoch = c.epoch
    BY <1>1 DEF DevicesInv, LogsOpen
  <2> QED
    BY <1>1, <2>1, <2>2 DEF LogsOpen
<1>16. Pinned'
  BY <1>1, PinsKept DEF DevicesInv
<1>17. DeviceTypes'
  BY <1>1, <1>4, <1>5 DEF DevicesInv, DeviceTypes
<1> QED
  BY <1>7, <1>13, <1>14, <1>15, <1>16, <1>17 DEF DevicesInv
-----------------------------------------------------------------------------
(* Changes and checkpoints. *)

LEMMA OnlyLogs ==
  ASSUME DevicesInv,
         UNCHANGED <<authority, identity, registry, epochKeys, checkpoint, todo, revoking, world, minted>>,
         NEW d \in Device, NEW c \in Change, log' = [log EXCEPT ![d] = @ \cup {c}],
         c.seq <= MaxSequence, Opens(d, c), c.epoch > 1 => \E r \in issued : r.epoch = c.epoch
  PROVE  DevicesInv'
<1>1. AgreementStays /\ UNCHANGED <<requests, issued, checkpoints>>
  BY DEF AgreementStays, world
<1>2. /\ log' \in [Device -> SUBSET Change] /\ log'[d] = log[d] \cup {c}
      /\ \A e \in Device \ {d} : log'[e] = log[e]
      /\ \A e \in Device : log[e] \subseteq log'[e]
  BY DEF DevicesInv, DeviceTypes
<1>3. DeviceTypes'
  <2>1. \A e \in Device : \A x \in log'[e] : x.seq <= MaxSequence
    BY <1>2 DEF DevicesInv, DeviceTypes
  <2> QED
    BY <1>1, <1>2, <2>1 DEF DevicesInv, DeviceTypes
<1>4. \A e \in Device : Pending(e)'
  BY <1>1, PendingKept DEF DevicesInv
<1>5. Chained' /\ KeysFromWraps'
  BY <1>1, ChainKept, KeysKept DEF DevicesInv
<1>6. LogsOpen'
  <2> SUFFICES ASSUME NEW e \in Device, NEW x \in log'[e]
               PROVE  Opens(e, x)' /\ (x.epoch > 1 => \E r \in issued : r.epoch = x.epoch)
    BY <1>1 DEF LogsOpen
  <2>1. Opens(e, x) /\ (x.epoch > 1 => \E r \in issued : r.epoch = x.epoch)
    BY <1>2 DEF DevicesInv, LogsOpen
  <2> QED
    BY <2>1 DEF Opens, HasKey
<1>7. Pinned'
  <2>1. \A k \in checkpoints : k.covers \subseteq log'[Owner]
    BY <1>2 DEF DevicesInv, Pinned, DeviceTypes
  <2>2. \A e \in Device : checkpoint[e] # None => checkpoint[e].covers \subseteq log'[e]
    BY <1>2 DEF DevicesInv, Pinned
  <2> QED
    BY <1>1, <2>1, <2>2 DEF DevicesInv, Pinned
<1> QED
  BY <1>3, <1>4, <1>5, <1>6, <1>7 DEF DevicesInv

LEMMA RecordChangeStep ==
  ASSUME SyncDevicesConstantsOK, DevicesInv, NEW d \in Device, RecordChange(d)
  PROVE  DevicesInv'
<1> DEFINE r == registry[d]
           c == [dev |-> d, seq |-> Sequence(d, log[d]) + 1, epoch |-> r.epoch,
                 key |-> IF r.epoch = 1 THEN 1 ELSE epochKeys[d][r.epoch]]
<1>1. /\ r # None /\ HasKey(d, r.epoch) /\ Sequence(d, log[d]) < MaxSequence
      /\ log' = [log EXCEPT ![d] = @ \cup {c}]
      /\ UNCHANGED <<authority, identity, registry, epochKeys, checkpoint, todo, revoking, world, minted>>
  BY DEF RecordChange, MaySign
<1>2. r \in issued /\ Signed(r) /\ r.epoch \in Nat \ {0}
  BY <1>1, OwnerRegistry DEF Signed
<1>3. Sequence(d, log[d]) \in Nat /\ MaxSequence \in Nat
  BY SequenceFacts DEF DevicesInv, SyncDevicesConstantsOK
<1>4. r.epoch # 1 => r.epoch \in DOMAIN epochKeys[d] /\ epochKeys[d][r.epoch] \in Nat
  BY <1>1 DEF HasKey, DevicesInv, DeviceTypes
<1>5. /\ c.dev = d /\ c.seq = Sequence(d, log[d]) + 1 /\ c.epoch = r.epoch
      /\ c.key = IF r.epoch = 1 THEN 1 ELSE epochKeys[d][r.epoch]
  OBVIOUS
<1>6. c \in Change
  BY <1>2, <1>3, <1>4 DEF Change
<1> HIDE DEF c
<1>7. c.seq <= MaxSequence /\ Opens(d, c)
  BY <1>1, <1>3, <1>5 DEF Opens
<1>8. c.epoch > 1 => \E s \in issued : s.epoch = c.epoch
  BY <1>2, <1>5
<1> QED
  BY <1>1, <1>6, <1>7, <1>8, OnlyLogs

LEMMA ImportChangeStep ==
  ASSUME SyncDevicesConstantsOK, DevicesInv, NEW d \in Device, NEW e \in Device, NEW c \in log[e],
         ImportChange(d, c)
  PROVE  DevicesInv'
<1>1. c \in Change /\ c.seq <= MaxSequence /\ (c.epoch > 1 => \E r \in issued : r.epoch = c.epoch)
  BY DEF DevicesInv, DeviceTypes, LogsOpen
<1>2. /\ Opens(d, c) /\ log' = [log EXCEPT ![d] = @ \cup {c}]
      /\ UNCHANGED <<authority, identity, registry, epochKeys, checkpoint, todo, revoking, world, minted>>
  BY DEF ImportChange
<1> QED
  BY <1>1, <1>2, OnlyLogs

LEMMA OnlyCheckpoints ==
  ASSUME DevicesInv,
         UNCHANGED <<authority, identity, registry, epochKeys, log, todo, revoking, requests, issued, minted>>,
         checkpoint' \in [Device -> checkpoints' \cup {None}], checkpoints' \subseteq Checkpoint, Pinned'
  PROVE  DevicesInv'
<1>1. AgreementStays
  BY DEF AgreementStays
<1>2. DeviceTypes'
  BY DEF DevicesInv, DeviceTypes
<1>3. \A e \in Device : Pending(e)'
  BY <1>1, PendingKept DEF DevicesInv
<1>4. Chained' /\ KeysFromWraps' /\ LogsOpen'
  BY <1>1, ChainKept, KeysKept, LogsKept DEF DevicesInv
<1> QED
  BY <1>2, <1>3, <1>4 DEF DevicesInv

\* A checkpoint the owner makes is later than all and covers as much.
LEMMA CreateCheckpointStep ==
  ASSUME SyncDevicesConstantsOK, DevicesInv, CreateCheckpoint
  PROVE  /\ DevicesInv'
         /\ \A d \in Device : checkpoint[d] # None => /\ checkpoint'[d].seq >= checkpoint[d].seq
                                                      /\ checkpoint[d].covers \subseteq checkpoint'[d].covers
                                                      /\ checkpoint'[d].covers \subseteq log'[d]
<1> DEFINE k == [seq |-> Last(Owner) + 1, rev |-> registry[Owner].rev, covers |-> log[Owner]]
<1>1. /\ registry[Owner] # None
      /\ checkpoint' = [checkpoint EXCEPT ![Owner] = k] /\ checkpoints' = checkpoints \cup {k}
      /\ UNCHANGED <<authority, identity, registry, epochKeys, log, todo, revoking, requests, issued, minted>>
  BY DEF CreateCheckpoint
<1>2. Owner \in Device /\ None \notin Checkpoint
  BY DEF SyncDevicesConstantsOK
<1>3. registry[Owner].rev \in Nat
  BY <1>1, <1>2, OwnerRegistry DEF Signed
<1>4. \A d \in Device : checkpoint[d] # None => checkpoint[d] \in checkpoints
  BY DEF DevicesInv, DeviceTypes
<1>5. Last(Owner) \in Nat /\ \A l \in checkpoints : l.seq \in Nat /\ l.seq <= Last(Owner)
  <2>1. checkpoint[Owner] # None => checkpoint[Owner].seq \in Nat
    BY <1>2, <1>4 DEF DevicesInv, Pinned
  <2> QED
    BY <2>1 DEF Last, DevicesInv, Pinned
<1>6. k.seq = Last(Owner) + 1 /\ k.covers = log[Owner] /\ k \in Checkpoint
  BY <1>2, <1>3, <1>5 DEF Checkpoint, DevicesInv, DeviceTypes
<1> HIDE DEF k
<1>7. checkpoint' \in [Device -> checkpoints' \cup {None}] /\ checkpoints' \subseteq Checkpoint
      /\ checkpoint'[Owner] = k /\ \A d \in Device \ {Owner} : checkpoint'[d] = checkpoint[d]
  BY <1>1, <1>2, <1>6 DEF DevicesInv, DeviceTypes
<1>8. k # None
  BY <1>2, <1>6
<1>9. k.seq \in Nat /\ \A l \in checkpoints : l.seq < k.seq /\ l.covers \subseteq k.covers
  BY <1>5, <1>6 DEF DevicesInv, Pinned
<1>10. Pinned'
  <2>1. \A l \in checkpoints' : l.seq \in Nat /\ l.seq <= k.seq /\ l.covers \subseteq log[Owner]
    BY <1>1, <1>5, <1>6, <1>9
  <2>2. \A l, m \in checkpoints' : l.seq <= m.seq => l.covers \subseteq m.covers
    <3> SUFFICES ASSUME NEW l \in checkpoints', NEW m \in checkpoints', l.seq <= m.seq
                 PROVE  l.covers \subseteq m.covers
      OBVIOUS
    <3>1. CASE l \in checkpoints /\ m \in checkpoints
      BY <3>1 DEF DevicesInv, Pinned
    <3>2. CASE m = k
      BY <1>1, <1>9, <3>2
    <3>3. CASE l = k /\ m \in checkpoints
      BY <1>5, <1>9, <3>3
    <3> QED
      BY <1>1, <3>1, <3>2, <3>3
  <2>3. \A d \in Device : checkpoint'[d] # None => checkpoint'[d].covers \subseteq log[d]
    BY <1>6, <1>7 DEF DevicesInv, Pinned
  <2> QED
    BY <1>1, <1>7, <1>8, <2>1, <2>2, <2>3 DEF Pinned
<1>11. ASSUME NEW d \in Device, checkpoint[d] # None
       PROVE  /\ checkpoint'[d].seq >= checkpoint[d].seq
              /\ checkpoint[d].covers \subseteq checkpoint'[d].covers
              /\ checkpoint'[d].covers \subseteq log'[d]
  <2>1. checkpoint[d] \in checkpoints /\ checkpoint[d].covers \subseteq log[d] /\ checkpoint[d].seq \in Nat
    BY <1>4, <1>11 DEF DevicesInv, Pinned
  <2>2. CASE d = Owner
    BY <1>1, <1>6, <1>7, <1>9, <2>1, <2>2
  <2>3. CASE d # Owner
    BY <1>1, <1>7, <2>1, <2>3
  <2> QED
    BY <2>2, <2>3
<1> QED
  BY <1>1, <1>7, <1>10, <1>11, OnlyCheckpoints

\* A checkpoint that is taken over is the next one, or the first.
LEMMA ImportCheckpointStep ==
  ASSUME SyncDevicesConstantsOK, DevicesInv, NEW e \in Device, NEW k \in checkpoints, ImportCheckpoint(e, k)
  PROVE  /\ DevicesInv'
         /\ \A d \in Device : checkpoint[d] # None => /\ checkpoint'[d].seq >= checkpoint[d].seq
                                                      /\ checkpoint[d].covers \subseteq checkpoint'[d].covers
                                                      /\ checkpoint'[d].covers \subseteq log'[d]
<1>1. /\ k.covers \subseteq log[e] /\ (checkpoint[e] = None \/ k.seq = Last(e) + 1)
      /\ checkpoint' = [checkpoint EXCEPT ![e] = k]
      /\ UNCHANGED <<authority, identity, registry, epochKeys, log, todo, revoking, requests, issued, checkpoints, minted>>
  BY DEF ImportCheckpoint, Covered, world
<1>2. checkpoint' \in [Device -> checkpoints' \cup {None}] /\ checkpoints' \subseteq Checkpoint
      /\ checkpoint'[e] = k /\ \A d \in Device \ {e} : checkpoint'[d] = checkpoint[d]
  BY <1>1 DEF DevicesInv, DeviceTypes
<1>3. \A d \in Device : checkpoint[d] # None => checkpoint[d] \in checkpoints
  BY DEF DevicesInv, DeviceTypes
<1>4. Owner \in Device /\ checkpoint[Owner] # None /\ k.seq \in Nat
  BY DEF SyncDevicesConstantsOK, DevicesInv, Pinned
<1>5. ASSUME checkpoint[e] # None
      PROVE  /\ checkpoint[e] \in checkpoints /\ checkpoint[e].seq \in Nat
             /\ k.seq = checkpoint[e].seq + 1 /\ checkpoint[e].covers \subseteq k.covers
  <2>1. checkpoint[e] \in checkpoints /\ checkpoint[e].seq \in Nat
    BY <1>3, <1>5 DEF DevicesInv, Pinned
  <2>2. k.seq = checkpoint[e].seq + 1
    BY <1>1, <1>5 DEF Last
  <2>3. checkpoint[e].seq <= k.seq
    BY <2>1, <2>2
  <2> QED
    BY <2>1, <2>2, <2>3 DEF DevicesInv, Pinned
<1>6. e # Owner
  <2> SUFFICES ASSUME e = Owner PROVE FALSE
    OBVIOUS
  <2>1. k.seq = checkpoint[Owner].seq + 1 /\ checkpoint[Owner].seq \in Nat
    BY <1>4, <1>5
  <2>2. k.seq <= checkpoint[Owner].seq
    BY DEF DevicesInv, Pinned
  <2> QED
    BY <2>1, <2>2
<1>7. Pinned'
  <2>1. \A d \in Device : checkpoint'[d] # None => checkpoint'[d].covers \subseteq log[d]
    BY <1>1, <1>2 DEF DevicesInv, Pinned
  <2>2. checkpoint'[Owner] = checkpoint[Owner]
    BY <1>2, <1>4, <1>6
  <2> QED
    BY <1>1, <2>1, <2>2 DEF DevicesInv, Pinned
<1>8. ASSUME NEW d \in Device, checkpoint[d] # None
      PROVE  /\ checkpoint'[d].seq >= checkpoint[d].seq
             /\ checkpoint[d].covers \subseteq checkpoint'[d].covers
             /\ checkpoint'[d].covers \subseteq log'[d]
  <2>1. CASE d = e
    BY <1>1, <1>2, <1>4, <1>5, <1>8, <2>1
  <2>2. CASE d # e
    <3>1. checkpoint[d].seq \in Nat /\ checkpoint[d].covers \subseteq log[d]
      BY <1>3, <1>8 DEF DevicesInv, Pinned
    <3> QED
      BY <1>1, <1>2, <2>2, <3>1
  <2> QED
    BY <2>1, <2>2
<1> QED
  BY <1>1, <1>2, <1>7, <1>8, OnlyCheckpoints
-----------------------------------------------------------------------------
(* Theorems. *)

LEMMA DevicesInit ==
  ASSUME SyncDevicesConstantsOK, Init
  PROVE  DevicesInv
<1>1. DOMAIN << >> = {}
  OBVIOUS
<1>2. \A d \in Device : todo[d] = << >> /\ log[d] = {} /\ epochKeys[d] = << >> /\ checkpoint[d] = None /\ registry[d] = None
  BY DEF Init
<1>3. DeviceTypes
  BY <1>1, <1>2 DEF Init, DeviceTypes
<1>4. Chained
  BY DEF Init, Chained
<1>5. \A d \in Device : Pending(d)
  BY <1>2 DEF Pending, Idle
<1>6. KeysFromWraps
  BY <1>1, <1>2 DEF Init, KeysFromWraps
<1>7. LogsOpen /\ Pinned
  BY <1>2 DEF Init, LogsOpen, Pinned
<1> QED
  BY <1>3, <1>4, <1>5, <1>6, <1>7 DEF DevicesInv

LEMMA DevicesNext ==
  ASSUME SyncDevicesConstantsOK, DevicesInv, [Next]_vars
  PROVE  DevicesInv'
<1>1. CASE UNCHANGED vars
  <2>1. UNCHANGED <<files, world, todo, revoking, minted>>
    BY <1>1 DEF vars
  <2>2. UNCHANGED <<authority, identity, registry, epochKeys, log, todo, revoking, requests, issued, minted,
                    checkpoint, checkpoints>>
    BY <2>1 DEF files, world
  <2>3. checkpoint' \in [Device -> checkpoints' \cup {None}] /\ checkpoints' \subseteq Checkpoint
    BY <2>2 DEF DevicesInv, DeviceTypes
  <2>4. Pinned'
    BY <2>2, PinsKept DEF DevicesInv
  <2> QED
    BY <2>2, <2>3, <2>4, OnlyCheckpoints
<1>2. CASE InitializeOwner
  BY <1>2, InitializeOwnerStep
<1>3. CASE Revocation
  BY <1>3, RevokeStep, AskingStep DEF Revocation
<1>4. CASE Checkpoints
  BY <1>4, CreateCheckpointStep, ImportCheckpointStep DEF Checkpoints
<1>5. ASSUME NEW d \in Device, Enrolment(d) PROVE DevicesInv'
  BY <1>5, CreateRequestStep, RequestFailsStep, EnrollStep DEF Enrolment
<1>6. ASSUME NEW d \in Device, Saving(d) PROVE DevicesInv'
  BY <1>6, SaveIdentityStep, SaveAuthorityStep, SaveEpochKeyStep, SaveRegistryStep, ReturnRequestStep DEF Saving
<1>7. ASSUME NEW d \in Device, Delivery(d) PROVE DevicesInv'
  BY <1>7, ImportRegistryStep, ImportChangeStep DEF Delivery
<1>8. ASSUME NEW d \in Device, RecordChange(d) \/ Die(d) PROVE DevicesInv'
  BY <1>8, RecordChangeStep, DieStep
<1> QED
  BY <1>1, <1>2, <1>3, <1>4, <1>5, <1>6, <1>7, <1>8 DEF Next

LEMMA DevicesInvariance ==
  ASSUME SyncDevicesConstantsOK
  PROVE  Spec => []DevicesInv
<1>1. Init => DevicesInv
  BY DevicesInit
<1>2. DevicesInv /\ [Next]_vars => DevicesInv'
  BY DevicesNext
<1> QED
  BY <1>1, <1>2, PTL DEF Spec

\* Files keep their types, and every registry a device holds is one the owner signed.
THEOREM DevicesTypeSafety == Spec => []TypeOK
<1>1. DevicesInv => TypeOK
  BY SyncDevicesConstantsOK DEF DevicesInv, DeviceTypes, Chained, Signed, TypeOK, Enrolled
<1> QED
  BY <1>1, DevicesInvariance, SyncDevicesConstantsOK, PTL

\* An active device has its epoch's key, the one the owner wrapped, and opens all it stored
\* (SaveEpochKey, ImportRegistry, RecordChange and a death between two of their writes).
THEOREM DevicesEpochsOpen == Spec => []EpochsOpen
<1>1. ASSUME DevicesInv PROVE EpochsOpen
  <2>1. ASSUME NEW d \in Device, registry[d] # None, d \in Active(registry[d]), registry[d].epoch > 1
        PROVE  HasKey(d, registry[d].epoch) /\ epochKeys[d][registry[d].epoch] = registry[d].wraps[d]
    <3> DEFINE r == registry[d]
    <3>1. r \in issued /\ Signed(r)
      BY <1>1, <2>1, OwnerRegistry
    <3>2. d \in DOMAIN r.wraps
      BY <2>1, <3>1 DEF Signed, ValidRegistry
    <3>3. CASE d = Owner
      BY <1>1, <2>1, <3>1, <3>2, <3>3 DEF DevicesInv, KeysFromWraps, HasKey
    <3>4. CASE d # Owner
      <4>1. r.epoch \in DOMAIN epochKeys[d]
        BY <1>1, <2>1, <3>2, <3>4 DEF DevicesInv, KeysFromWraps
      <4>2. PICK s \in issued : s.epoch = r.epoch /\ d \in DOMAIN s.wraps /\ epochKeys[d][r.epoch] = s.wraps[d]
        BY <1>1, <3>4, <4>1 DEF DevicesInv, KeysFromWraps
      <4>3. s = r
        BY <1>1, <2>1, <3>1, <4>2 DEF DevicesInv, Chained
      <4> QED
        BY <4>1, <4>2, <4>3 DEF HasKey
    <3> QED
      BY <3>3, <3>4
  <2> QED
    BY <1>1, <2>1 DEF EpochsOpen, DevicesInv, LogsOpen
<1> QED
  BY <1>1, DevicesInvariance, SyncDevicesConstantsOK, PTL

\* No epoch's key from after a revocation reaches the revoked device, whatever registries it
\* receives and in whatever order (ImportRegistry, Revoke).
THEOREM DevicesKeepRevokedOut == Spec => []RevokedKeptOut
<1>1. ASSUME DevicesInv PROVE RevokedKeptOut
  <2> SUFFICES ASSUME NEW r \in issued, NEW d \in Device \ {Owner}, d \in Enrolled(r) \ Active(r),
                      NEW e \in DOMAIN epochKeys[d]
               PROVE  e <= r.cert[d].epoch
    BY DEF RevokedKeptOut
  <2>1. PICK s \in issued : s.epoch = e /\ e > 1 /\ d \in DOMAIN s.wraps
    BY <1>1 DEF DevicesInv, KeysFromWraps
  <2>2. Signed(r) /\ Signed(s) /\ r.rev \in Nat /\ s.rev \in Nat /\ s.epoch \in Nat
    BY <1>1 DEF DevicesInv, Chained, Signed
  <2>3. d \in Active(s) /\ d \in Enrolled(s) /\ s.cert[d].epoch = e
    BY <2>1, <2>2 DEF Signed, ValidRegistry, Active
  <2>4. CASE s.rev <= r.rev
    BY <1>1, <2>3, <2>4 DEF DevicesInv, Chained, Follows
  <2>5. CASE r.rev <= s.rev
    <3>1. s.cert[d] = r.cert[d]
      BY <1>1, <2>5 DEF DevicesInv, Chained, Follows
    <3> QED
      BY <2>3, <3>1 DEF Active
  <2> QED
    BY <2>2, <2>4, <2>5
<1> QED
  BY <1>1, DevicesInvariance, SyncDevicesConstantsOK, PTL

\* No step takes pinned history back (CreateCheckpoint, ImportCheckpoint, and every step
\* that leaves checkpoints and logs alone or lets a log grow).
THEOREM DevicesCheckpointsGrow == Spec => CheckpointGrows
<1> DEFINE Grows == \A d \in Device : checkpoint[d] # None =>
                       /\ checkpoint'[d].seq >= checkpoint[d].seq
                       /\ checkpoint[d].covers \subseteq checkpoint'[d].covers
                       /\ checkpoint'[d].covers \subseteq log'[d]
<1>1. ASSUME DevicesInv, [Next]_vars PROVE [Grows]_vars
  <2>1. CASE UNCHANGED vars
    BY <2>1
  <2>2. CASE Checkpoints
    BY <1>1, <2>2, CreateCheckpointStep, ImportCheckpointStep, SyncDevicesConstantsOK DEF Checkpoints
  <2>3. ASSUME checkpoint' = checkpoint, \A d \in Device : log[d] \subseteq log'[d] PROVE Grows
    <3> SUFFICES ASSUME NEW d \in Device, checkpoint[d] # None
                 PROVE  /\ checkpoint[d].seq >= checkpoint[d].seq
                        /\ checkpoint[d].covers \subseteq log'[d]
      BY <2>3
    <3>1. checkpoint[d] \in checkpoints
      BY <1>1 DEF DevicesInv, DeviceTypes
    <3> QED
      BY <1>1, <2>3, <3>1 DEF DevicesInv, Pinned
  <2>4. ASSUME NEW d \in Device, RecordChange(d) \/ \E e \in Device : \E c \in log[e] : ImportChange(d, c)
        PROVE  Grows
    <3>1. checkpoint' = checkpoint /\ \E c : log' = [log EXCEPT ![d] = @ \cup {c}]
      BY <2>4 DEF RecordChange, ImportChange
    <3>2. \A e \in Device : log[e] \subseteq log'[e]
      BY <1>1, <3>1 DEF DevicesInv, DeviceTypes
    <3> QED
      BY <2>3, <3>1, <3>2
  <2>5. ASSUME UNCHANGED <<log, checkpoint>> PROVE Grows
    BY <2>3, <2>5
  <2>6. CASE InitializeOwner \/ Revocation
    BY <2>5, <2>6 DEF InitializeOwner, Revocation, Revoke, RevocationRefused, AskRevocation, files
  <2>7. ASSUME NEW d \in Device, Enrolment(d) \/ Saving(d) \/ Die(d) PROVE Grows
    BY <2>5, <2>7 DEF Enrolment, CreateRequest, RequestFails, Enroll, Saving, SaveIdentity, SaveAuthority,
                      SaveEpochKey, SaveRegistry, ReturnRequest, Die, files
  <2>8. ASSUME NEW d \in Device, NEW r \in issued, ImportRegistry(d, r) PROVE Grows
    BY <2>5, <2>8 DEF ImportRegistry, files
  <2> QED
    BY <1>1, <2>1, <2>2, <2>4, <2>6, <2>7, <2>8 DEF Next, Delivery
<1>2. Spec => [][Grows]_vars
  <2> HIDE DEF Grows
  <2> QED
    BY <1>1, DevicesInvariance, SyncDevicesConstantsOK, PTL DEF Spec
<1> QED
  BY <1>2 DEF CheckpointGrows
-----------------------------------------------------------------------------
(* SyncRelay: what the invariants are made of. *)

TypeInv ==
  /\ past \in [DOMAIN past -> SUBSET ChangeId] /\ DOMAIN past \subseteq ChangeId
  /\ changes \in [Vault -> SUBSET DOMAIN past]
  /\ staged \in [Vault -> SUBSET Blobs(ChangeId)]
  /\ relay \subseteq ChangeId \X Nat
  /\ client \in [Vault -> Push \cup Download \cup Fetch \cup {Nothing}]
  /\ bundle \in Bundle \cup {Nothing}

\* A relay that dies leaves at most a change torn.
NoTornBlobs == "torn" \notin Overlap
TornInv == torn \subseteq {ChangeObject(i) : i \in ChangeId}

\* What is on its way was recorded, and what is sent was known with its blobs.
SentInv ==
  /\ Listed \subseteq DOMAIN past
  /\ \A d \in Vault : Running(d, "read") => client[d].send \subseteq changes[d]
  /\ \A d \in Vault : Running(d, "push") => client[d].send \subseteq client[d].known \cap DOMAIN past
  /\ bundle # Nothing => bundle.changes \subseteq DOMAIN past

\* A pull has got all it began with as far as its cursor, which is all when it imports.
PullInv ==
  \A d \in Vault :
    /\ Running(d, "page") => \A i \in client[d].start : i <= client[d].cursor => i \in client[d].got
    /\ Running(d, "page") => client[d].start \subseteq Listed
    /\ Running(d, "import") => client[d].start \subseteq client[d].got
    /\ Running(d, "page") \/ Running(d, "import") => client[d].got \subseteq DOMAIN past

IInv == TypeInv /\ SentInv /\ PullInv /\ PullsComplete
ServeInv == TornInv /\ NothingDangling /\ BlobsKept
-----------------------------------------------------------------------------
\* The least and the greatest of numbers.
LEMMA MinFacts ==
  ASSUME NEW S \in SUBSET Nat, S # {}
  PROVE  Min(S) \in S /\ \A y \in S : Min(S) <= y
<1> DEFINE R == {ss \in Nat \X Nat : ss[1] < ss[2]}
<1>1. \E x \in S : \A y \in S : ~ (<<y, x>> \in R)
  <2>1. IsWellFoundedOn(R, Nat)
    BY NatLessThanWellFounded DEF OpToRel
  <2> HIDE DEF R
  <2> QED
    BY <2>1, WFMin
<1> PICK x \in S : \A y \in S : ~ (<<y, x>> \in R)
  BY <1>1
<1>2. ASSUME NEW y \in S PROVE x <= y
  <2>1. x \in Nat /\ y \in Nat /\ <<y, x>> \in Nat \X Nat
    OBVIOUS
  <2>2. ~(y < x)
    BY <2>1
  <2> QED
    BY <2>1, <2>2
<1> QED
  BY <1>2 DEF Min

LEMMA MaxFacts ==
  ASSUME NEW n \in Nat, NEW S \in SUBSET (1..n), S # {}
  PROVE  Max(S) \in S /\ \A y \in S : y <= Max(S)
<1> DEFINE D == {n - i : i \in S}
<1>1. D \in SUBSET Nat /\ D # {}
  <2>1. \A i \in S : n - i \in Nat
    OBVIOUS
  <2> QED
    BY <2>1
<1>2. Min(D) \in D /\ \A y \in D : Min(D) <= y
  BY <1>1, MinFacts
<1>3. \E x \in S : \A y \in S : x >= y
  <2> PICK x \in S : Min(D) = n - x
    BY <1>2
  <2>1. \A y \in S : n - x <= n - y
    BY <1>2
  <2> QED
    BY <2>1
<1> QED
  BY <1>3 DEF Max

\* A blob of a change is no change, and a change has its own blobs.
LEMMA BlobFacts ==
  ASSUME NEW S \in SUBSET ChangeId
  PROVE  /\ Blobs(S) \subseteq Blobs(ChangeId) /\ Blobs(ChangeId) \subseteq ChangeId \X Nat
         /\ \A i \in S : BlobsOf(i) \subseteq Blobs(S)
         /\ \A b \in Blobs(S) : \E i \in S : b \in BlobsOf(i)
         /\ \A b \in Blobs(ChangeId) : \A j : b # ChangeObject(j)
<1>1. \A i \in ChangeId : BlobsOf(i) \subseteq ChangeId \X Nat
  BY SyncRelayConstantsOK DEF BlobsOf, ChangeId
<1>2. ASSUME NEW i \in ChangeId, NEW b \in BlobsOf(i), NEW j PROVE b # ChangeObject(j)
  <2>1. PICK n \in 1..Chunks[i] : b = <<i, n>>
    BY DEF BlobsOf
  <2>2. n # 0
    BY SyncRelayConstantsOK DEF ChangeId
  <2> QED
    BY <2>1, <2>2 DEF ChangeObject
<1> QED
  BY <1>1, <1>2 DEF Blobs

\* What a command is doing says what kind of command it is.
LEMMA ClientFacts ==
  ASSUME TypeInv, NEW d \in Vault
  PROVE  /\ Running(d, "read") \/ Running(d, "push") => client[d] \in Push
         /\ Running(d, "page") \/ Running(d, "import") => client[d] \in Download
         /\ Running(d, "blobs") => client[d] \in Fetch
         /\ Nothing \notin Push \cup Download \cup Fetch \cup Bundle
<1>1. client[d] \in Push \cup Download \cup Fetch \cup {Nothing}
  BY DEF TypeInv
<1> QED
  BY <1>1, SyncRelayConstantsOK DEF Running, Push, Download, Fetch

\* The page is the next in order: what it passes over is in it.
LEMMA PageFacts ==
  ASSUME NEW cursor \in Nat
  PROVE  /\ Page(cursor) \subseteq Above(cursor) /\ Above(cursor) \subseteq ChangeId
         /\ Above(cursor) # {} => Page(cursor) # {}
         /\ Page(cursor) # {} =>
              /\ Max(Page(cursor)) \in Page(cursor)
              /\ \A i \in Above(cursor) : i <= Max(Page(cursor)) => i \in Page(cursor)
<1> DEFINE A == Above(cursor)
           B(i) == {j \in A : j < i}
<1>1. MaxChanges \in Nat /\ PageSize \in Nat /\ PageSize > 0
  BY SyncRelayConstantsOK
<1>2. A \in SUBSET (1..MaxChanges) /\ IsFiniteSet(A)
  <2>1. A \in SUBSET (1..MaxChanges)
    BY DEF Above, Listed, ChangeId
  <2> QED
    <3>1. IsFiniteSet(1..MaxChanges)
      BY <1>1, FS_Interval
    <3> QED
      BY <2>1, <3>1, FS_Subset
<1>3. Page(cursor) = {i \in A : Cardinality(B(i)) < PageSize}
  BY DEF Page
<1> HIDE DEF A
<1>4. \A i : IsFiniteSet(B(i)) /\ Cardinality(B(i)) \in Nat
  BY <1>2, FS_Subset, FS_CardinalityType
<1>5. A # {} => Page(cursor) # {}
  <2> SUFFICES ASSUME A # {} PROVE Page(cursor) # {}
    OBVIOUS
  <2>1. Min(A) \in A /\ \A y \in A : Min(A) <= y
    BY <1>1, <1>2, MinFacts
  <2>2. B(Min(A)) = {}
    <3>0. A \subseteq Nat
      BY <1>2
    <3>1. ASSUME NEW j \in A PROVE ~(j < Min(A))
      <4>1. Min(A) \in Nat /\ j \in Nat /\ Min(A) <= j
        BY <2>1, <3>0, <3>1
      <4> QED
        BY <4>1
    <3> QED
      BY <3>1
  <2>3. Cardinality(B(Min(A))) = 0
    BY <2>2, FS_EmptySet
  <2> QED
    BY <1>1, <1>3, <2>1, <2>3
<1>6. ASSUME Page(cursor) # {} PROVE Max(Page(cursor)) \in Page(cursor)
  <2>1. Page(cursor) \in SUBSET (1..MaxChanges)
    BY <1>2, <1>3
  <2> QED
    BY <1>1, <1>6, <2>1, MaxFacts
<1>7. ASSUME Page(cursor) # {}, NEW i \in A, i <= Max(Page(cursor)) PROVE i \in Page(cursor)
  <2> DEFINE m == Max(Page(cursor))
  <2>1. m \in Page(cursor)
    BY <1>6, <1>7
  <2>2. m \in A /\ Cardinality(B(m)) < PageSize
    BY <1>3, <2>1
  <2>0. i <= m
    BY <1>7
  <2> HIDE DEF m
  <2>3. B(i) \in SUBSET B(m)
    <3>1. \A j \in A : j < i => j < m
      <4>1. m \in Nat /\ i \in Nat /\ \A j \in A : j \in Nat
        BY <1>2, <2>2
      <4> QED
        BY <2>0, <4>1
    <3> QED
      BY <3>1
  <2> HIDE DEF B
  <2>4. Cardinality(B(i)) <= Cardinality(B(m))
    BY <1>4, <2>3, FS_Subset
  <2>5. Cardinality(B(i)) < PageSize
    BY <1>1, <1>4, <2>2, <2>4
  <2> QED
    BY <1>3, <1>7, <2>5 DEF B
<1>8. Page(cursor) \subseteq A
  BY <1>3
<1> QED
  BY <1>2, <1>5, <1>6, <1>7, <1>8 DEF A, ChangeId

\* A push sends a change it has still to send.
LEMMA SendingFacts ==
  ASSUME TypeInv, NEW d \in Vault, Running(d, "push"), client[d].send # {}
  PROVE  /\ client[d] \in Push /\ client[d].send \subseteq ChangeId /\ Sending(d) \in client[d].send
         /\ Unsent(d) \subseteq BlobsOf(Sending(d))
<1>1. client[d] \in Push
  BY ClientFacts
<1>2. client[d].send \subseteq ChangeId /\ ChangeId \subseteq Nat
  BY <1>1, SyncRelayConstantsOK DEF Push, ChangeId
<1>3. Sending(d) \in client[d].send
  BY <1>2, MinFacts DEF Sending
<1> QED
  BY <1>1, <1>2, <1>3 DEF Unsent
-----------------------------------------------------------------------------
\* Every step keeps the types.
LEMMA NextTypeInv == TypeInv /\ SentInv /\ PullInv /\ [RelayNext]_relayVars => TypeInv'
<1> SUFFICES ASSUME TypeInv, SentInv, PullInv, [RelayNext]_relayVars PROVE TypeInv'
  OBVIOUS
<1> USE DEF TypeInv, server, Start, Stop
<1>b. ASSUME NEW S \in SUBSET ChangeId PROVE Blobs(S) \subseteq Blobs(ChangeId)
  BY BlobFacts
<1>c. ChangeId \subseteq Nat /\ Listed \subseteq ChangeId /\ \A i \in ChangeId : ChangeObject(i) \in ChangeId \X Nat
  BY SyncRelayConstantsOK DEF ChangeId, Listed, ChangeObject
<1>d. Blobs(ChangeId) \subseteq ChangeId \X Nat /\ \A i \in ChangeId : BlobsOf(i) \subseteq Blobs(ChangeId)
  BY BlobFacts
<1>1. CASE UNCHANGED relayVars
  BY <1>1 DEF relayVars
<1>2. ASSUME NEW d \in Vault, BeginPush(d) PROVE TypeInv'
  <2>1. [step |-> "read", send |-> changes[d], known |-> {}] \in Push
    BY DEF Push
  <2> QED
    BY <1>2, <2>1 DEF BeginPush
<1>3. ASSUME NEW d \in Vault, ReadChanges(d) PROVE TypeInv'
  <2>1. client[d] \in Push /\ changes[d] \subseteq ChangeId
    BY <1>3, ClientFacts DEF ReadChanges
  <2>2. [client[d] EXCEPT !.step = "push", !.known = changes[d]] \in Push
    BY <2>1 DEF Push
  <2> QED
    BY <1>3, <2>2 DEF ReadChanges
<1>4. ASSUME NEW d \in Vault, SendBlob(d) PROVE TypeInv'
  <2>1. PICK b \in Unsent(d) : relay' = relay \cup {b}
    BY <1>4 DEF SendBlob, Put
  <2>2. b \in ChangeId \X Nat
    BY <1>4, <1>d, SendingFacts DEF SendBlob
  <2> QED
    BY <1>4, <2>1, <2>2 DEF SendBlob
<1>5. ASSUME NEW d \in Vault, SendChange(d) PROVE TypeInv'
  <2>1. client[d] \in Push /\ Sending(d) \in ChangeId
    BY <1>5, SendingFacts DEF SendChange
  <2>2. [client[d] EXCEPT !.send = @ \ {Sending(d)}] \in Push
    BY <2>1 DEF Push
  <2>3. relay' \subseteq ChangeId \X Nat
    BY <1>5, <1>c, <2>1 DEF SendChange, Put
  <2> QED
    BY <1>5, <2>2, <2>3 DEF SendChange
<1>6. ASSUME NEW d \in Vault, EndPush(d) \/ PushFails(d) \/ EndPull(d) \/ PullFails(d) \/ CutOff(d)
      PROVE  TypeInv'
  BY <1>6 DEF EndPush, PushFails, EndPull, PullFails, CutOff
<1>7. ASSUME NEW d \in Vault, BeginPull(d) PROVE TypeInv'
  <2>1. [step |-> "page", cursor |-> 0, got |-> {}, start |-> Listed] \in Download
    BY <1>c DEF Download
  <2> QED
    BY <1>7, <2>1 DEF BeginPull
<1>8. ASSUME NEW d \in Vault, NextPage(d) PROVE TypeInv'
  <2> DEFINE c == client[d]
             page == Page(c.cursor)
             new == [c EXCEPT !.got = @ \cup page,
                              !.cursor = IF LastPage(c.cursor) THEN @ ELSE Max(page),
                              !.step = IF LastPage(c.cursor) THEN "import" ELSE "page"]
  <2>1. c \in Download /\ c.cursor \in Nat
    BY <1>8, ClientFacts DEF NextPage, Download
  <2>2. page \subseteq ChangeId /\ (LastPage(c.cursor) \/ Max(page) \in Nat)
    BY <1>c, <2>1, PageFacts DEF LastPage
  <2>3. new \in Download
    BY <2>1, <2>2 DEF Download
  <2>4. client' = [client EXCEPT ![d] = new]
    BY <1>8 DEF NextPage
  <2> HIDE DEF new
  <2> QED
    BY <1>8, <2>3, <2>4 DEF NextPage
<1>9. ASSUME NEW d \in Vault, Import(d) PROVE TypeInv'
  <2>1. client[d] \in Download /\ client[d].got \subseteq ChangeId /\ client[d].start \subseteq ChangeId
    BY <1>9, ClientFacts DEF Import, Download
  <2>2. changes' \in [Vault -> SUBSET DOMAIN past]
    BY <1>9 DEF Import, PullInv
  <2>3. [step |-> "blobs", wanted |-> Blobs(changes'[d]), start |-> client[d].start] \in Fetch
    BY <1>b, <2>1, <2>2 DEF Fetch
  <2> QED
    BY <1>9, <2>2, <2>3 DEF Import
<1>10. ASSUME NEW d \in Vault, BeginFetch(d) PROVE TypeInv'
  <2>1. [step |-> "blobs", wanted |-> Blobs(changes[d]), start |-> {}] \in Fetch
    BY <1>b DEF Fetch
  <2> QED
    BY <1>10, <2>1 DEF BeginFetch
<1>11. ASSUME NEW d \in Vault, FetchBlob(d) PROVE TypeInv'
  <2>1. client[d] \in Fetch
    BY <1>11, ClientFacts DEF FetchBlob
  <2>2. Missing(d) \subseteq Blobs(ChangeId)
    BY <2>1 DEF Missing, Fetch
  <2>3. PICK b \in Missing(d) : staged' = [staged EXCEPT ![d] = @ \cup {b}]
    BY <1>11 DEF FetchBlob
  <2> QED
    BY <1>11, <2>2, <2>3 DEF FetchBlob
<1>12. ASSUME NEW d \in Vault, Prune(d) PROVE TypeInv'
  BY <1>12 DEF Prune
<1>13. ASSUME NEW d \in Vault, ExportBundle(d) PROVE TypeInv'
  <2>1. [changes |-> changes[d], blobs |-> Blobs(changes[d])] \in Bundle
    BY <1>b DEF Bundle
  <2> QED
    BY <1>13, <2>1 DEF ExportBundle
<1>14. ASSUME NEW d \in Vault, ImportBundle(d) PROVE TypeInv'
  <2>1. bundle \in Bundle /\ bundle.changes \subseteq DOMAIN past /\ bundle.blobs \subseteq Blobs(ChangeId)
    BY <1>14 DEF ImportBundle, SentInv, Bundle
  <2>2. changes' \in [Vault -> SUBSET DOMAIN past] /\ staged' \in [Vault -> SUBSET Blobs(ChangeId)]
    BY <1>14, <2>1 DEF ImportBundle
  <2> QED
    BY <1>14, <2>2 DEF ImportBundle
<1>15. ASSUME NEW d \in Vault, NEW i \in ChangeId, Record(d, i) PROVE TypeInv'
  <2>1. /\ past' = [j \in (DOMAIN past) \cup {i} |-> IF j = i THEN changes[d] ELSE past[j]]
        /\ DOMAIN past' = (DOMAIN past) \cup {i}
    BY <1>15 DEF Record
  <2>2. past' \in [DOMAIN past' -> SUBSET ChangeId] /\ DOMAIN past' \subseteq ChangeId
    BY <2>1
  <2>3. staged' \in [Vault -> SUBSET Blobs(ChangeId)]
    BY <1>15, <1>d DEF Record
  <2>4. changes' \in [Vault -> SUBSET DOMAIN past']
    BY <1>15, <2>1 DEF Record
  <2> QED
    BY <1>15, <2>2, <2>3, <2>4 DEF Record
<1>16. ASSUME NEW d \in Vault, RelayDies(d) PROVE TypeInv'
  <2>1. PICK o : /\ o \in (IF Unsent(d) = {} THEN {ChangeObject(Sending(d))}
                           ELSE IF "torn" \in Overlap THEN Unsent(d) \cap staged[d] ELSE {})
                 /\ relay' = relay \cup {o}
    BY <1>16 DEF RelayDies
  <2>2. Sending(d) \in ChangeId /\ Unsent(d) \subseteq BlobsOf(Sending(d))
    BY <1>16, SendingFacts DEF RelayDies
  <2>3. o \in ChangeId \X Nat
    BY <1>c, <1>d, <2>1, <2>2
  <2> QED
    BY <1>16, <2>1, <2>3 DEF RelayDies
<1> QED
  BY <1>1, <1>2, <1>3, <1>4, <1>5, <1>6, <1>7, <1>8, <1>9, <1>10, <1>11, <1>12, <1>13, <1>14,
     <1>15, <1>16 DEF RelayNext, Pushing, Pulling, Local
-----------------------------------------------------------------------------
\* Changes are recorded once and for all, and neither a log nor the relay loses any.
LEMMA Grows ==
  ASSUME TypeInv, SentInv, [RelayNext]_relayVars
  PROVE  /\ DOMAIN past \subseteq DOMAIN past' /\ \A i \in DOMAIN past : past'[i] = past[i]
         /\ relay \subseteq relay' /\ Listed \subseteq Listed' /\ Listed' \subseteq DOMAIN past'
         /\ \A d \in Vault : changes[d] \subseteq changes'[d]
<1>l. ASSUME NEW d \in Vault PROVE changes[d] \subseteq changes'[d]
  <2>1. CASE UNCHANGED changes
    BY <2>1
  <2>2. ASSUME NEW e \in Vault, NEW S, changes' = [changes EXCEPT ![e] = @ \cup S]
        PROVE  changes[d] \subseteq changes'[d]
    BY <2>2 DEF TypeInv
  <2>3. ASSUME NEW e \in Vault, Import(e) \/ ImportBundle(e) \/ \E i \in ChangeId : Record(e, i)
        PROVE  changes[d] \subseteq changes'[d]
    BY <2>2, <2>3 DEF Import, ImportBundle, Record
  <2> QED
    BY <2>1, <2>3
    DEF RelayNext, Pushing, Pulling, Local, CutOff, RelayDies, BeginPush, ReadChanges, SendBlob, SendChange,
        EndPush, PushFails, BeginPull, NextPage, BeginFetch, FetchBlob, EndPull, PullFails, Prune,
        ExportBundle, Stop, relayVars
<1> SUFFICES /\ DOMAIN past \subseteq DOMAIN past' /\ \A i \in DOMAIN past : past'[i] = past[i]
             /\ relay \subseteq relay' /\ Listed' \subseteq DOMAIN past'
  BY <1>l DEF Listed
<1> USE DEF server, Start, Stop
<1>p. Listed \subseteq DOMAIN past /\ Listed' = {i \in ChangeId : ChangeObject(i) \in relay'}
  BY DEF SentInv, Listed
<1>1. CASE UNCHANGED <<past, server>>
  BY <1>1, <1>p DEF Listed
<1>2. ASSUME NEW d \in Vault, NEW i \in ChangeId, Record(d, i)
      PROVE  /\ DOMAIN past \subseteq DOMAIN past' /\ \A j \in DOMAIN past : past'[j] = past[j]
             /\ relay \subseteq relay' /\ Listed' \subseteq DOMAIN past'
  BY <1>2, <1>p DEF Record, Listed
<1>r. ASSUME NEW o, relay' = relay \cup {o}, past' = past,
             \A i \in ChangeId : o = ChangeObject(i) => i \in DOMAIN past
      PROVE  /\ DOMAIN past \subseteq DOMAIN past' /\ \A j \in DOMAIN past : past'[j] = past[j]
             /\ relay \subseteq relay' /\ Listed' \subseteq DOMAIN past'
  BY <1>r, <1>p DEF Listed
<1>b. ASSUME NEW d \in Vault, Running(d, "push"), client[d].send # {}, NEW b \in Unsent(d),
             NEW i \in ChangeId
      PROVE  b # ChangeObject(i)
  <2>1. b \in BlobsOf(Sending(d)) /\ Sending(d) \in ChangeId
    BY <1>b, SendingFacts
  <2> QED
    BY <2>1, BlobFacts
<1>c. ASSUME NEW d \in Vault, Running(d, "push"), client[d].send # {}, NEW i \in ChangeId,
             ChangeObject(Sending(d)) = ChangeObject(i)
      PROVE  i \in DOMAIN past
  BY <1>c, SendingFacts DEF SentInv, ChangeObject
<1>3. ASSUME NEW d \in Vault, SendBlob(d)
      PROVE  /\ DOMAIN past \subseteq DOMAIN past' /\ \A j \in DOMAIN past : past'[j] = past[j]
             /\ relay \subseteq relay' /\ Listed' \subseteq DOMAIN past'
  BY <1>3, <1>b, <1>r DEF SendBlob, Put
<1>4. ASSUME NEW d \in Vault, SendChange(d)
      PROVE  /\ DOMAIN past \subseteq DOMAIN past' /\ \A j \in DOMAIN past : past'[j] = past[j]
             /\ relay \subseteq relay' /\ Listed' \subseteq DOMAIN past'
  BY <1>4, <1>c, <1>r DEF SendChange, Put
<1>5. ASSUME NEW d \in Vault, RelayDies(d)
      PROVE  /\ DOMAIN past \subseteq DOMAIN past' /\ \A j \in DOMAIN past : past'[j] = past[j]
             /\ relay \subseteq relay' /\ Listed' \subseteq DOMAIN past'
  <2> PICK o : /\ o \in (IF Unsent(d) = {} THEN {ChangeObject(Sending(d))}
                         ELSE IF "torn" \in Overlap THEN Unsent(d) \cap staged[d] ELSE {})
               /\ relay' = relay \cup {o}
    BY <1>5 DEF RelayDies
  <2>1. past' = past /\ Running(d, "push") /\ client[d].send # {}
    BY <1>5 DEF RelayDies
  <2>2. \A i \in ChangeId : o = ChangeObject(i) => i \in DOMAIN past
    BY <1>b, <1>c, <2>1
  <2> QED
    BY <1>r, <2>1, <2>2
<1> QED
  BY <1>1, <1>2, <1>3, <1>4, <1>5
  DEF RelayNext, Pushing, Pulling, Local, BeginPush, ReadChanges, EndPush, PushFails, BeginPull, NextPage,
      Import, BeginFetch, FetchBlob, EndPull, PullFails, Prune, ExportBundle, ImportBundle, CutOff, relayVars

\* A push reads its envelopes before what it knows the blobs of, and a change is recorded
\* before anything else is done with it.
LEMMA NextSentInv ==
  ASSUME TypeInv, SentInv, PullInv, [RelayNext]_relayVars
  PROVE  SentInv'
<1> USE DEF server, Start, Stop
<1>g. /\ DOMAIN past \subseteq DOMAIN past' /\ Listed' \subseteq DOMAIN past'
      /\ \A d \in Vault : changes[d] \subseteq changes'[d]
  BY Grows
<1>t. /\ client \in [Vault -> Push \cup Download \cup Fetch \cup {Nothing}]
      /\ Nothing \notin Push \cup Download \cup Fetch \cup Bundle
      /\ changes \in [Vault -> SUBSET DOMAIN past]
  BY SyncRelayConstantsOK DEF TypeInv
<1> DEFINE Good(d, c) == /\ c.step = "read" => c.send \subseteq changes'[d]
                         /\ c.step = "push" => c.send \subseteq c.known \cap DOMAIN past'
           Kept == /\ \A d \in Vault : Running(d, "read")' => client'[d].send \subseteq changes'[d]
                   /\ \A d \in Vault : Running(d, "push")' =>
                        client'[d].send \subseteq client'[d].known \cap DOMAIN past'
<1>k. ASSUME NEW d \in Vault, NEW c, c = Nothing \/ Good(d, c), client' = [client EXCEPT ![d] = c]
      PROVE  Kept
  <2>1. client'[d] = c /\ \A e \in Vault \ {d} : client'[e] = client[e]
    BY <1>k, <1>t
  <2>2. \A e \in Vault : client[e] # Nothing => Good(e, client[e])
    BY <1>g DEF SentInv, Running
  <2>3. \A e \in Vault : client'[e] # Nothing => Good(e, client'[e])
    BY <1>k, <2>1, <2>2
  <2> QED
    BY <2>3 DEF Running
<1>u. ASSUME UNCHANGED client PROVE Kept
  BY <1>g, <1>u DEF SentInv, Running
<1>b. ASSUME UNCHANGED bundle PROVE bundle' # Nothing => bundle'.changes \subseteq DOMAIN past'
  BY <1>g, <1>b DEF SentInv
<1>q. ASSUME Kept, bundle' # Nothing => bundle'.changes \subseteq DOMAIN past' PROVE SentInv'
  BY <1>g, <1>q DEF SentInv
<1> HIDE DEF Kept
<1>n. ASSUME NEW d \in Vault, NEW c, c.step \notin {"read", "push"}, UNCHANGED bundle,
             client' = [client EXCEPT ![d] = c]
      PROVE  SentInv'
  BY <1>b, <1>k, <1>n, <1>q
<1>1. CASE UNCHANGED <<client, bundle>>
  BY <1>1, <1>u, <1>b, <1>q
<1>2. ASSUME NEW d \in Vault, BeginPush(d) PROVE SentInv'
  <2>1. Good(d, [step |-> "read", send |-> changes[d], known |-> {}])
    BY <1>g, <1>t
  <2> QED
    BY <1>2, <1>k, <1>b, <1>q, <2>1 DEF BeginPush
<1>3. ASSUME NEW d \in Vault, ReadChanges(d) PROVE SentInv'
  <2>1. client[d] \in Push /\ client[d].send \subseteq changes[d] /\ changes[d] \subseteq DOMAIN past
    BY <1>3, <1>t, ClientFacts DEF ReadChanges, SentInv
  <2>2. Good(d, [client[d] EXCEPT !.step = "push", !.known = changes[d]])
    BY <1>g, <2>1 DEF Push
  <2> QED
    BY <1>3, <1>k, <1>b, <1>q, <2>2 DEF ReadChanges
<1>4. ASSUME NEW d \in Vault, SendChange(d) PROVE SentInv'
  <2>1. client[d] \in Push /\ client[d].send \subseteq client[d].known \cap DOMAIN past
        /\ client[d].step = "push"
    BY <1>4, ClientFacts DEF SendChange, SentInv, Running
  <2>2. Good(d, [client[d] EXCEPT !.send = @ \ {Sending(d)}])
    BY <1>g, <2>1 DEF Push
  <2> QED
    BY <1>4, <1>k, <1>b, <1>q, <2>2 DEF SendChange
<1>5. ASSUME NEW d \in Vault, EndPush(d) \/ PushFails(d) \/ EndPull(d) \/ PullFails(d) \/ CutOff(d)
                                \/ RelayDies(d)
      PROVE  SentInv'
  BY <1>5, <1>k, <1>b, <1>q DEF EndPush, PushFails, EndPull, PullFails, CutOff, RelayDies
<1>6. ASSUME NEW d \in Vault, BeginPull(d) PROVE SentInv'
  BY <1>6, <1>n DEF BeginPull
<1>7. ASSUME NEW d \in Vault, NextPage(d) PROVE SentInv'
  <2> DEFINE c == client[d]
             page == Page(c.cursor)
             new == [c EXCEPT !.got = @ \cup page,
                              !.cursor = IF LastPage(c.cursor) THEN @ ELSE Max(page),
                              !.step = IF LastPage(c.cursor) THEN "import" ELSE "page"]
  <2>1. c \in Download
    BY <1>7, ClientFacts DEF NextPage
  <2>2. new.step \notin {"read", "push"}
    BY <2>1 DEF Download
  <2>3. client' = [client EXCEPT ![d] = new]
    BY <1>7 DEF NextPage
  <2> HIDE DEF new
  <2> QED
    BY <1>7, <1>n, <2>2, <2>3 DEF NextPage
<1>8. ASSUME NEW d \in Vault, Import(d) PROVE SentInv'
  BY <1>8, <1>n DEF Import
<1>9. ASSUME NEW d \in Vault, BeginFetch(d) PROVE SentInv'
  BY <1>9, <1>n DEF BeginFetch
<1>10. ASSUME NEW d \in Vault, ExportBundle(d) PROVE SentInv'
  <2>1. bundle'.changes = changes[d] /\ UNCHANGED client
    BY <1>10 DEF ExportBundle
  <2> QED
    BY <1>g, <1>t, <1>u, <1>q, <2>1
<1> QED
  BY <1>1, <1>2, <1>3, <1>4, <1>5, <1>6, <1>7, <1>8, <1>9, <1>10
  DEF RelayNext, Pushing, Pulling, Local, SendBlob, FetchBlob, Prune, ImportBundle, Record, relayVars

\* A pull passes over no change that was there when it began.
LEMMA NextPullInv ==
  ASSUME TypeInv, SentInv, PullInv, [RelayNext]_relayVars
  PROVE  PullInv'
<1> USE DEF server, Start, Stop
<1>g. /\ DOMAIN past \subseteq DOMAIN past' /\ Listed \subseteq Listed' /\ Listed' \subseteq DOMAIN past'
      /\ Listed \subseteq DOMAIN past /\ Listed \subseteq Nat /\ Listed \subseteq ChangeId
  BY Grows, SyncRelayConstantsOK DEF SentInv, Listed, ChangeId
<1>t. /\ client \in [Vault -> Push \cup Download \cup Fetch \cup {Nothing}]
      /\ Nothing \notin Push \cup Download \cup Fetch \cup Bundle
  BY SyncRelayConstantsOK DEF TypeInv
<1> DEFINE Good(c) ==
  /\ c.step = "page" => \A i \in c.start : i <= c.cursor => i \in c.got
  /\ c.step = "page" => c.start \subseteq Listed'
  /\ c.step = "import" => c.start \subseteq c.got
  /\ c.step \in {"page", "import"} => c.got \subseteq DOMAIN past'
<1>k. ASSUME NEW d \in Vault, NEW c, c = Nothing \/ Good(c), client' = [client EXCEPT ![d] = c]
      PROVE  PullInv'
  <2>1. client'[d] = c /\ \A e \in Vault \ {d} : client'[e] = client[e]
    BY <1>k, <1>t
  <2>2. \A e \in Vault : client[e] # Nothing => Good(client[e])
    BY <1>g DEF PullInv, Running
  <2>3. \A e \in Vault : client'[e] # Nothing => Good(client'[e])
    BY <1>k, <2>1, <2>2
  <2> QED
    BY <2>3 DEF PullInv, Running
<1>u. ASSUME UNCHANGED client PROVE PullInv'
  BY <1>g, <1>u DEF PullInv, Running
<1>n. ASSUME NEW d \in Vault, NEW c, c.step \notin {"page", "import"}, client' = [client EXCEPT ![d] = c]
      PROVE  PullInv'
  BY <1>k, <1>n
<1>1. ASSUME NEW d \in Vault, BeginPush(d) \/ BeginFetch(d) PROVE PullInv'
  BY <1>1, <1>n DEF BeginPush, BeginFetch
<1>2. ASSUME NEW d \in Vault, ReadChanges(d) \/ SendChange(d) PROVE PullInv'
  <2>1. client[d] \in Push /\ client[d].step \in {"read", "push"}
    BY <1>2, ClientFacts DEF ReadChanges, SendChange, Running
  <2>2. /\ [client[d] EXCEPT !.step = "push", !.known = changes[d]].step = "push"
        /\ [client[d] EXCEPT !.send = @ \ {Sending(d)}].step = client[d].step
    BY <2>1 DEF Push
  <2> QED
    BY <1>2, <1>n, <2>1, <2>2 DEF ReadChanges, SendChange
<1>3. ASSUME NEW d \in Vault, EndPush(d) \/ PushFails(d) \/ EndPull(d) \/ PullFails(d) \/ CutOff(d)
                                \/ RelayDies(d)
      PROVE  PullInv'
  BY <1>3, <1>k DEF EndPush, PushFails, EndPull, PullFails, CutOff, RelayDies
<1>4. ASSUME NEW d \in Vault, BeginPull(d) PROVE PullInv'
  <2> DEFINE c == [step |-> "page", cursor |-> 0, got |-> {}, start |-> Listed]
  <2>1. \A i \in Listed : ~(i <= 0)
    BY <1>g, SyncRelayConstantsOK DEF ChangeId
  <2>2. Good(c)
    BY <1>g, <2>1
  <2> HIDE DEF c
  <2> QED
    BY <1>4, <1>k, <2>2 DEF BeginPull, c
<1>5. ASSUME NEW d \in Vault, NextPage(d) PROVE PullInv'
  <2> DEFINE c == client[d]
             page == Page(c.cursor)
             last == LastPage(c.cursor)
             new == [c EXCEPT !.got = @ \cup page,
                              !.cursor = IF last THEN @ ELSE Max(page),
                              !.step = IF last THEN "import" ELSE "page"]
  <2>1. /\ c \in Download /\ c.step = "page" /\ c.cursor \in Nat
        /\ \A i \in c.start : i <= c.cursor => i \in c.got
        /\ c.start \subseteq Listed /\ c.got \subseteq DOMAIN past
    BY <1>5, ClientFacts DEF NextPage, PullInv, Running, Download
  <2>2. /\ page \subseteq Listed /\ (last => page = Above(c.cursor))
        /\ ~last => \A i \in Above(c.cursor) : i <= Max(page) => i \in page
    <3>1. page \subseteq Above(c.cursor) /\ (last <=> page = Above(c.cursor))
          /\ (Above(c.cursor) # {} => page # {})
          /\ (page # {} => \A i \in Above(c.cursor) : i <= Max(page) => i \in page)
      BY <2>1, PageFacts DEF LastPage
    <3>2. ~last => page # {}
      BY <3>1
    <3> QED
      BY <3>1, <3>2 DEF Above
  <2>3. \A i \in c.start : i \in c.got \/ i \in Above(c.cursor)
    BY <1>g, <2>1 DEF Above
  <2>4. /\ new.got = c.got \cup page /\ new.start = c.start
        /\ new.cursor = IF last THEN c.cursor ELSE Max(page)
        /\ new.step = IF last THEN "import" ELSE "page"
    BY <2>1 DEF Download
  <2>5. client' = [client EXCEPT ![d] = new]
    BY <1>5 DEF NextPage
  <2> HIDE DEF new, page, last
  <2>6. Good(new)
    BY <1>g, <2>1, <2>2, <2>3, <2>4
  <2> QED
    BY <1>k, <2>5, <2>6
<1>6. ASSUME NEW d \in Vault, Import(d) PROVE PullInv'
  BY <1>6, <1>n DEF Import
<1> QED
  BY <1>u, <1>1, <1>2, <1>3, <1>4, <1>5, <1>6
  DEF RelayNext, Pushing, Pulling, Local, SendBlob, FetchBlob, Prune, ExportBundle, ImportBundle, Record, relayVars

\* What a pull got is admitted whole, with the ancestors of each change.
LEMMA NextPullsComplete ==
  ASSUME TypeInv, SentInv, PullInv, PullsComplete, [RelayNext]_relayVars
  PROVE  PullsComplete'
<1> USE DEF server, Start, Stop
<1>g. /\ DOMAIN past \subseteq DOMAIN past' /\ \A i \in DOMAIN past : past'[i] = past[i]
      /\ \A d \in Vault : changes[d] \subseteq changes'[d]
  BY Grows
<1>t. /\ client \in [Vault -> Push \cup Download \cup Fetch \cup {Nothing}]
      /\ Nothing \notin Push \cup Download \cup Fetch \cup Bundle
      /\ changes \in [Vault -> SUBSET DOMAIN past]
  BY SyncRelayConstantsOK DEF TypeInv
<1> DEFINE Whole == \A d \in Vault : \A i \in changes'[d] : past'[i] \subseteq changes'[d]
           Got == \A d \in Vault : client'[d] # Nothing /\ client'[d].step = "blobs"
                                      => client'[d].start \subseteq changes'[d]
<1>q. ASSUME Whole, Got PROVE PullsComplete'
  BY <1>q DEF PullsComplete, Running
<1>w. ASSUME UNCHANGED changes PROVE Whole
  BY <1>g, <1>t, <1>w DEF PullsComplete
<1>k. ASSUME NEW d \in Vault, NEW c, c = Nothing \/ (c.step = "blobs" => c.start \subseteq changes'[d]),
             client' = [client EXCEPT ![d] = c]
      PROVE  Got
  <2>1. client'[d] = c /\ \A e \in Vault \ {d} : client'[e] = client[e]
    BY <1>k, <1>t
  <2> QED
    BY <1>g, <1>k, <2>1 DEF PullsComplete, Running
<1>u. ASSUME UNCHANGED client PROVE Got
  BY <1>g, <1>u DEF PullsComplete, Running
<1>m. ASSUME NEW d \in Vault, NEW S \in SUBSET DOMAIN past, \A i \in S : past[i] \subseteq changes[d] \cup S,
             changes' = [changes EXCEPT ![d] = @ \cup S]
      PROVE  Whole
  <2>1. changes'[d] = changes[d] \cup S /\ \A e \in Vault \ {d} : changes'[e] = changes[e]
    BY <1>m, <1>t
  <2>2. \A i \in changes'[d] : past'[i] \subseteq changes'[d]
    BY <1>g, <1>m, <1>t, <2>1 DEF PullsComplete
  <2>3. \A e \in Vault \ {d} : \A i \in changes'[e] : past'[i] \subseteq changes'[e]
    BY <1>g, <1>t, <2>1 DEF PullsComplete
  <2> QED
    BY <2>2, <2>3
<1> HIDE DEF Whole, Got
<1>1. CASE UNCHANGED <<client, changes>>
  BY <1>1, <1>q, <1>u, <1>w
<1>2. ASSUME NEW d \in Vault, BeginPush(d) PROVE PullsComplete'
  <2>1. [step |-> "read", send |-> changes[d], known |-> {}].step # "blobs"
    OBVIOUS
  <2> QED
    BY <1>2, <1>k, <1>q, <1>w, <2>1 DEF BeginPush
<1>3. ASSUME NEW d \in Vault, ReadChanges(d) \/ SendChange(d) PROVE PullsComplete'
  <2>1. client[d] \in Push
    BY <1>3, ClientFacts DEF ReadChanges, SendChange
  <2>2. /\ [client[d] EXCEPT !.step = "push", !.known = changes[d]].step # "blobs"
        /\ [client[d] EXCEPT !.send = @ \ {Sending(d)}].step # "blobs"
    BY <2>1 DEF Push
  <2> QED
    BY <1>3, <1>k, <1>q, <1>w, <2>2 DEF ReadChanges, SendChange
<1>4. ASSUME NEW d \in Vault, EndPush(d) \/ PushFails(d) \/ EndPull(d) \/ PullFails(d) \/ CutOff(d)
                                \/ RelayDies(d)
      PROVE  PullsComplete'
  BY <1>4, <1>k, <1>q, <1>w DEF EndPush, PushFails, EndPull, PullFails, CutOff, RelayDies
<1>5. ASSUME NEW d \in Vault, BeginPull(d) PROVE PullsComplete'
  <2>1. [step |-> "page", cursor |-> 0, got |-> {}, start |-> Listed].step # "blobs"
    OBVIOUS
  <2> QED
    BY <1>5, <1>k, <1>q, <1>w, <2>1 DEF BeginPull
<1>6. ASSUME NEW d \in Vault, NextPage(d) PROVE PullsComplete'
  <2> DEFINE c == client[d]
             page == Page(c.cursor)
             new == [c EXCEPT !.got = @ \cup page,
                              !.cursor = IF LastPage(c.cursor) THEN @ ELSE Max(page),
                              !.step = IF LastPage(c.cursor) THEN "import" ELSE "page"]
  <2>1. c \in Download
    BY <1>6, ClientFacts DEF NextPage
  <2>2. new.step # "blobs"
    BY <2>1 DEF Download
  <2>3. client' = [client EXCEPT ![d] = new]
    BY <1>6 DEF NextPage
  <2> HIDE DEF new
  <2> QED
    BY <1>6, <1>k, <1>q, <1>w, <2>2, <2>3 DEF NextPage
<1>7. ASSUME NEW d \in Vault, Import(d) PROVE PullsComplete'
  <2> DEFINE c == [step |-> "blobs", wanted |-> Blobs(changes'[d]), start |-> client[d].start]
  <2>1. /\ changes' = [changes EXCEPT ![d] = @ \cup client[d].got]
        /\ \A i \in client[d].got : past[i] \subseteq changes[d] \cup client[d].got
        /\ client[d].got \subseteq DOMAIN past /\ client[d].start \subseteq client[d].got
        /\ client' = [client EXCEPT ![d] = c]
    BY <1>7 DEF Import, Admissible, PullInv
  <2>2. c.start \subseteq changes'[d]
    BY <1>t, <2>1
  <2> HIDE DEF c
  <2> QED
    BY <1>k, <1>m, <1>q, <2>1, <2>2
<1>8. ASSUME NEW d \in Vault, BeginFetch(d) PROVE PullsComplete'
  <2>1. [step |-> "blobs", wanted |-> Blobs(changes[d]), start |-> {}].start \subseteq changes'[d]
    OBVIOUS
  <2> QED
    BY <1>8, <1>k, <1>q, <1>w, <2>1 DEF BeginFetch
<1>9. ASSUME NEW d \in Vault, ImportBundle(d) PROVE PullsComplete'
  <2>1. /\ changes' = [changes EXCEPT ![d] = @ \cup bundle.changes] /\ UNCHANGED client
        /\ \A i \in bundle.changes : past[i] \subseteq changes[d] \cup bundle.changes
        /\ bundle.changes \subseteq DOMAIN past
    BY <1>9 DEF ImportBundle, Admissible, SentInv
  <2> QED
    BY <1>m, <1>q, <1>u, <2>1
<1>10. ASSUME NEW d \in Vault, NEW i \in ChangeId, Record(d, i) PROVE PullsComplete'
  <2>1. /\ i \notin DOMAIN past /\ UNCHANGED client /\ past'[i] = changes[d]
        /\ changes'[d] = changes[d] \cup {i} /\ \A e \in Vault \ {d} : changes'[e] = changes[e]
    BY <1>10, <1>t DEF Record
  <2>2. Whole
    BY <1>g, <1>t, <2>1 DEF PullsComplete, Whole
  <2> QED
    BY <1>q, <1>u, <2>1, <2>2
<1> QED
  BY <1>1, <1>2, <1>3, <1>4, <1>5, <1>6, <1>7, <1>8, <1>9, <1>10
  DEF RelayNext, Pushing, Pulling, Local, SendBlob, FetchBlob, Prune, ExportBundle, relayVars
-----------------------------------------------------------------------------
\* A relay that leaves no blob torn writes one whole or not at all.
LEMMA NextTornInv ==
  ASSUME NoTornBlobs, TypeInv, TornInv, [RelayNext]_relayVars
  PROVE  TornInv' /\ (torn' = torn \/ \E o \in relay' \ relay : torn' = torn \cup {o})
<1> USE DEF server, Stop
<1>1. CASE UNCHANGED torn
  BY <1>1 DEF TornInv
<1>2. ASSUME NEW d \in Vault, RelayDies(d)
      PROVE  TornInv' /\ \E o \in relay' \ relay : torn' = torn \cup {o}
  <2> PICK o : /\ o \in (IF Unsent(d) = {} THEN {ChangeObject(Sending(d))}
                         ELSE IF "torn" \in Overlap THEN Unsent(d) \cap staged[d] ELSE {})
               /\ ~Held(o) /\ relay' = relay \cup {o} /\ torn' = torn \cup {o}
    BY <1>2 DEF RelayDies
  <2>1. o = ChangeObject(Sending(d)) /\ Sending(d) \in ChangeId
    BY <1>2, SendingFacts DEF RelayDies, NoTornBlobs
  <2> QED
    BY <2>1 DEF TornInv, Held
<1> QED
  BY <1>1, <1>2
  DEF RelayNext, Pushing, Pulling, Local, BeginPush, ReadChanges, SendBlob, SendChange, Put, EndPush,
      PushFails, BeginPull, NextPage, Import, BeginFetch, FetchBlob, EndPull, PullFails, Prune,
      ExportBundle, ImportBundle, Record, CutOff, relayVars

\* What the relay holds whole stays whole.
LEMMA StaysWhole ==
  ASSUME NoTornBlobs, TypeInv, SentInv, TornInv, [RelayNext]_relayVars
  PROVE  relay \ torn \subseteq relay' \ torn'
BY NextTornInv, Grows

\* A change is sent after its blobs.
LEMMA NextNothingDangling ==
  ASSUME NoTornBlobs, TypeInv, SentInv, TornInv, NothingDangling, [RelayNext]_relayVars
  PROVE  NothingDangling'
<1> USE DEF server, Start, Stop
<1>w. relay \ torn \subseteq relay' \ torn'
  BY StaysWhole
<1>n. \A i \in Listed : BlobsOf(i) \subseteq relay \ torn
  BY DEF NothingDangling, Blobs
<1>q. ASSUME \A i \in Listed' : i \in Listed \/ BlobsOf(i) \subseteq relay \ torn
      PROVE  NothingDangling'
  BY <1>n, <1>q, <1>w DEF NothingDangling, Blobs, BlobsOf
<1>1. CASE UNCHANGED relay
  BY <1>1, <1>q DEF Listed
<1>2. ASSUME NEW d \in Vault, Running(d, "push"), client[d].send # {}, Unsent(d) = {},
             relay' = relay \cup {ChangeObject(Sending(d))}
      PROVE  NothingDangling'
  <2>1. Sending(d) \in client[d].send /\ Sending(d) \in ChangeId /\ Sending(d) \in client[d].known
    BY <1>2, SendingFacts DEF SentInv
  <2>2. BlobsOf(Sending(d)) \subseteq relay
    BY <1>2, <2>1 DEF Unsent, Held
  <2>3. BlobsOf(Sending(d)) \cap torn = {}
    BY <2>1, BlobFacts DEF TornInv
  <2> QED
    BY <1>2, <1>q, <2>2, <2>3 DEF Listed, ChangeObject
<1>3. ASSUME NEW d \in Vault, SendBlob(d) PROVE NothingDangling'
  <2> PICK b \in Unsent(d) : relay' = relay \cup {b}
    BY <1>3 DEF SendBlob, Put
  <2>1. b \in BlobsOf(Sending(d)) /\ Sending(d) \in ChangeId
    BY <1>3, SendingFacts DEF SendBlob
  <2>2. \A i : b # ChangeObject(i)
    BY <2>1, BlobFacts
  <2> QED
    BY <1>q, <2>2 DEF Listed
<1>4. ASSUME NEW d \in Vault, SendChange(d) PROVE NothingDangling'
  BY <1>2, <1>4 DEF SendChange, Put
<1>5. ASSUME NEW d \in Vault, RelayDies(d) PROVE NothingDangling'
  BY <1>2, <1>5 DEF RelayDies, NoTornBlobs
<1> QED
  BY <1>1, <1>3, <1>4, <1>5
  DEF RelayNext, Pushing, Pulling, Local, BeginPush, ReadChanges, EndPush, PushFails, BeginPull, NextPage,
      Import, BeginFetch, FetchBlob, EndPull, PullFails, Prune, ExportBundle, ImportBundle, Record,
      CutOff, relayVars

\* A staged blob goes when the relay has it whole.
LEMMA NextBlobsKept ==
  ASSUME NoTornBlobs, TypeInv, SentInv, TornInv, BlobsKept, [RelayNext]_relayVars
  PROVE  BlobsKept'
<1> USE DEF server, Start, Stop
<1>w. relay \ torn \subseteq relay' \ torn'
  BY StaysWhole
<1> DEFINE Kept(b) == b \in relay \ torn \/ \E d \in Vault : b \in staged[d]
<1>u. /\ BlobsKept <=> \A b \in Blobs(DOMAIN past) : Kept(b)
      /\ BlobsKept' <=> \A b \in Blobs(DOMAIN past') : Kept(b)'
  BY DEF BlobsKept
<1>q. ASSUME UNCHANGED past, \A d \in Vault : staged[d] \subseteq staged'[d] PROVE BlobsKept'
  BY <1>q, <1>u, <1>w
<1>1. CASE UNCHANGED <<past, staged>>
  BY <1>1, <1>q
<1>2. ASSUME NEW d \in Vault, FetchBlob(d) \/ ImportBundle(d) PROVE BlobsKept'
  BY <1>2, <1>q DEF FetchBlob, ImportBundle, TypeInv
<1>3. ASSUME NEW d \in Vault, Prune(d) PROVE BlobsKept'
  <2> PICK b \in staged[d] \cap Blobs(changes[d]) : Held(b) /\ staged' = [staged EXCEPT ![d] = @ \ {b}]
    BY <1>3 DEF Prune
  <2>1. b \in Blobs(ChangeId)
    BY DEF TypeInv
  <2>2. b \notin torn
    BY <2>1, BlobFacts DEF TornInv
  <2>3. b \in relay' \ torn'
    BY <1>w, <2>2 DEF Held
  <2>4. \A c \in Blobs(DOMAIN past) : Kept(c)'
    BY <1>u, <1>w, <2>3 DEF TypeInv
  <2> QED
    BY <1>3, <1>u, <2>4 DEF Prune
<1>4. ASSUME NEW d \in Vault, NEW i \in ChangeId, Record(d, i) PROVE BlobsKept'
  <2>1. /\ DOMAIN past' = (DOMAIN past) \cup {i} /\ BlobsOf(i) \subseteq staged'[d]
        /\ \A e \in Vault : staged[e] \subseteq staged'[e]
    BY <1>4 DEF Record, TypeInv
  <2>2. \A b \in Blobs(DOMAIN past') : b \in Blobs(DOMAIN past) \/ b \in BlobsOf(i)
    BY <2>1 DEF Blobs
  <2> QED
    BY <1>u, <1>w, <2>1, <2>2
<1> QED
  BY <1>1, <1>2, <1>3, <1>4
  DEF RelayNext, Pushing, Pulling, Local, BeginPush, ReadChanges, SendBlob, SendChange, EndPush, PushFails,
      BeginPull, NextPage, Import, BeginFetch, EndPull, PullFails, ExportBundle, CutOff, RelayDies, relayVars
-----------------------------------------------------------------------------
LEMMA InitIInv == RelayInit => IInv /\ ServeInv
<1> SUFFICES ASSUME RelayInit PROVE IInv /\ ServeInv
  OBVIOUS
<1> USE DEF RelayInit
<1>1. DOMAIN past = {}
  OBVIOUS
<1>2. TypeInv
  BY <1>1 DEF TypeInv
<1>3. Listed = {} /\ \A d \in Vault : \A step : ~Running(d, step)
  BY DEF Listed, Running
<1>4. SentInv /\ PullInv /\ PullsComplete
  BY <1>3 DEF SentInv, PullInv, PullsComplete
<1>5. ServeInv
  BY <1>1, <1>3 DEF ServeInv, TornInv, NothingDangling, BlobsKept, Blobs
<1> QED
  BY <1>2, <1>4, <1>5 DEF IInv

LEMMA NextIInv == IInv /\ [RelayNext]_relayVars => IInv'
BY NextTypeInv, NextSentInv, NextPullInv, NextPullsComplete DEF IInv

LEMMA NextServeInv == NoTornBlobs /\ IInv /\ ServeInv /\ [RelayNext]_relayVars => ServeInv'
BY NextTornInv, NextNothingDangling, NextBlobsKept DEF IInv, ServeInv

\* Every file, command and bundle keeps its type.
THEOREM RelayTypeSafety == RelaySpec => []TypeInv
<1>1. IInv => TypeInv
  BY DEF IInv
<1> QED
  BY InitIInv, NextIInv, <1>1, PTL DEF RelaySpec

\* A pull that gets to its blobs has admitted all the relay held when it began, and a log
\* holds no change without its ancestors (downloadChanges, log.import).
THEOREM RelayPullsComplete == RelaySpec => []PullsComplete
<1>1. IInv => PullsComplete
  BY DEF IInv
<1> QED
  BY InitIInv, NextIInv, <1>1, PTL DEF RelaySpec

\* A relay that dies in no blob serves every blob of every change it lists (pushBlobs).
THEOREM RelayNothingDangling == NoTornBlobs /\ RelaySpec => []NothingDangling
<1>1. ServeInv => NothingDangling
  BY DEF ServeInv
<1>2. NoTornBlobs => []NoTornBlobs
  <2>1. NoTornBlobs => NoTornBlobs'
    BY DEF NoTornBlobs
  <2> QED
    BY <2>1, PTL
<1> QED
  BY InitIInv, NextIInv, NextServeInv, <1>1, <1>2, PTL DEF RelaySpec

\* Every chunk of every recorded attachment is whole on a device or on such a relay (prune).
THEOREM RelayBlobsKept == NoTornBlobs /\ RelaySpec => []BlobsKept
<1>1. ServeInv => BlobsKept
  BY DEF ServeInv
<1>2. NoTornBlobs => []NoTornBlobs
  <2>1. NoTornBlobs => NoTornBlobs'
    BY DEF NoTornBlobs
  <2> QED
    BY <2>1, PTL
<1> QED
  BY InitIInv, NextIInv, NextServeInv, <1>1, <1>2, PTL DEF RelaySpec
=============================================================================
