--------------------------- MODULE BalancerProofs ---------------------------
(* What the operations of Balancer return, for every set of hosts and      *)
(* every hash function.                                                    *)
EXTENDS Balancer, TLAPS, FiniteSetTheorems, SequenceTheorems,
        WellFoundedInduction, NaturalsInduction

-----------------------------------------------------------------------------
(* Extrema of sets of naturals.                                            *)

(* Min picks the least element of a non-empty set of naturals.             *)
LEMMA MinIsLeast ==
  ASSUME NEW S \in SUBSET Nat, S # {}
  PROVE  Min(S) \in S /\ \A y \in S : Min(S) <= y
<1>1. IsWellFoundedOn(OpToRel(<, Nat), Nat)
  BY NatLessThanWellFounded
<1>2. \E x \in S : \A y \in S : ~(<<y, x>> \in OpToRel(<, Nat))
  BY <1>1, WFMin
<1>3. \A x, y \in Nat : ~(<<y, x>> \in OpToRel(<, Nat)) => x =< y
  BY DEF OpToRel
<1>4. \E x \in S : \A y \in S : x =< y
  BY <1>2, <1>3
<1> QED BY <1>4 DEF Min

(* Max picks the greatest element of a non-empty set below a bound.        *)
LEMMA MaxIsGreatest ==
  ASSUME NEW n \in Nat, NEW S \in SUBSET (0 .. n), S # {}
  PROVE  Max(S) \in S /\ \A y \in S : Max(S) >= y
<1> DEFINE D == {n - x : x \in S}
<1>1. D \in SUBSET Nat /\ D # {}
  <2>1. \A x \in S : n - x \in Nat
    OBVIOUS
  <2> QED BY <2>1
<1>2. Min(D) \in D /\ \A d \in D : Min(D) <= d
  BY <1>1, MinIsLeast
<1>3. PICK m \in S : Min(D) = n - m
  BY <1>2
<1>4. \A y \in S : n - m <= n - y
  BY <1>2, <1>3
<1>5. \A y \in S : m >= y
  BY <1>4
<1> QED BY <1>5 DEF Max

-----------------------------------------------------------------------------
(* Sequences.                                                              *)

(* RemoveFirst takes one element away from a sequence that has it, and     *)
(* leaves another one alone.                                               *)
LEMMA RemoveFirstType ==
  ASSUME NEW T, NEW s \in Seq(T), NEW e
  PROVE  /\ RemoveFirst(s, e) \in Seq(T)
         /\ e \in ToSet(s) => Len(RemoveFirst(s, e)) = Len(s) - 1
         /\ e \notin ToSet(s) => RemoveFirst(s, e) = s
         /\ \A x \in ToSet(s) : x # e => x \in ToSet(RemoveFirst(s, e))
<1> DEFINE I == {i \in 1 .. Len(s) : s[i] = e}
           k == Min(I)
<1>1. CASE I = {}
  <2>1. RemoveFirst(s, e) = s
    BY <1>1 DEF RemoveFirst
  <2>2. e \notin ToSet(s)
    BY <1>1 DEF ToSet
  <2> QED BY <2>1, <2>2
<1>2. CASE I # {}
  <2>1. k \in I
    <3>1. I \in SUBSET Nat
      OBVIOUS
    <3> HIDE DEF I
    <3> QED BY <1>2, <3>1, MinIsLeast
  <2>2. SelectInSeq(s, LAMBDA v : v = e) = k
    BY <1>2 DEF SelectInSeq
  <2>3. RemoveFirst(s, e) = SubSeq(s, 1, k - 1) \o SubSeq(s, k + 1, Len(s))
    BY <1>2, <2>2 DEF RemoveFirst, RemoveAt
  <2> HIDE DEF k
  <2> DEFINE a == SubSeq(s, 1, k - 1)
             b == SubSeq(s, k + 1, Len(s))
  <2>4. /\ k \in 1 .. Len(s) /\ s[k] = e
        /\ a \in Seq(T) /\ Len(a) = k - 1
        /\ \A i \in 1 .. k - 1 : a[i] = s[i]
    BY <2>1
  <2>5. /\ b \in Seq(T) /\ Len(b) = Len(s) - k
        /\ \A i \in 1 .. Len(s) - k : b[i] = s[k + i]
    BY <2>4
  <2> HIDE DEF a, b
  <2>6. a \o b \in Seq(T) /\ Len(a \o b) = Len(s) - 1
    <3>1. a \o b \in Seq(T) /\ Len(a \o b) = Len(a) + Len(b)
      BY <2>4, <2>5, ConcatProperties
    <3> QED BY <2>4, <2>5, <3>1
  <2>7. ASSUME NEW i \in 1 .. Len(s), i # k
        PROVE  \E j \in 1 .. Len(a \o b) : (a \o b)[j] = s[i]
    <3>1. CASE i < k
      <4>1. i \in 1 .. Len(a) /\ i \in 1 .. Len(a \o b) /\ a[i] = s[i]
        BY <2>4, <2>6, <3>1
      <4>2. (a \o b)[i] = a[i]
        BY <2>4, <2>5, <4>1
      <4> QED BY <4>1, <4>2
    <3>2. CASE i > k
      <4>1. (i - k) \in 1 .. Len(s) - k /\ b[i - k] = s[i]
        BY <2>4, <2>5, <3>2
      <4>2. (i - 1) \in 1 .. Len(a \o b) /\ (a \o b)[i - 1] = b[i - k]
        BY <2>4, <2>5, <2>6, <3>2
      <4> QED BY <4>1, <4>2
    <3> QED BY <2>4, <2>7, <3>1, <3>2
  <2>8. ASSUME NEW x \in ToSet(s), x # e
        PROVE  x \in ToSet(a \o b)
    <3>1. PICK i \in 1 .. Len(s) : s[i] = x
      BY <2>8 DEF ToSet
    <3>2. i # k
      BY <2>4, <2>8, <3>1
    <3>3. PICK j \in 1 .. Len(a \o b) : (a \o b)[j] = x
      BY <2>7, <3>1, <3>2
    <3>4. DOMAIN (a \o b) = 1 .. Len(a \o b)
      BY <2>6
    <3> QED BY <3>3, <3>4 DEF ToSet
  <2>9. e \in ToSet(s)
    BY <2>4 DEF ToSet
  <2> QED BY <2>3, <2>6, <2>8, <2>9 DEF a, b
<1> QED BY <1>1, <1>2

-----------------------------------------------------------------------------
(* The operations of the balancers.                                        *)

(* A host has finitely many replicas.                                      *)
LEMMA FiniteReplicas == IsFiniteSet(Replicas)
<1>1. 0 \in Int /\ 2 \in Int
  OBVIOUS
<1>2. IsFiniteSet(0 .. 2)
  BY ONLY <1>1, FS_Interval
<1> QED BY <1>2 DEF Replicas

(* Build returns a balancer of the algorithm with the given hosts.         *)
LEMMA BuildType ==
  ASSUME NEW algo \in factories, NEW hs \in Seq(Hosts)
  PROVE  /\ Build(algo, hs) \in Balancers
         /\ Build(algo, hs).mode = algo
         /\ Build(algo, hs).hosts = hs
         /\ ~Build(algo, hs).rlocked
<1>1. CASE algo = RR
  BY <1>1 DEF Build, NewRoundRobin, NoKeys, NoOwners, Balancers, factories, RR, CH
<1>2. CASE algo # RR
  <2>1. IsFiniteSet(Replicas \X DOMAIN hs)
    <3>1. DOMAIN hs = 1 .. Len(hs) /\ Len(hs) \in Int
      OBVIOUS
    <3>2. \A a, c \in Int : IsFiniteSet(a .. c)
      BY FS_Interval
    <3>3. IsFiniteSet(DOMAIN hs)
      BY <3>1, <3>2
    <3> QED BY <3>3, FiniteReplicas, FS_Product
  <2>2. ASSUME NEW x \in Positions
        PROVE  Cardinality({e \in Replicas \X DOMAIN hs :
                              hash[e[1]][hs[e[2]]] = x}) \in Nat
    BY <2>1, FS_Subset, FS_CardinalityType
  <2>3. ASSUME NEW x \in Positions, PlacedAt(hs, x) # {}
        PROVE  hs[Max(PlacedAt(hs, x))] \in Hosts
    <3>1. PlacedAt(hs, x) \subseteq DOMAIN hs
      BY DEF PlacedAt
    <3>2. DOMAIN hs \subseteq 0 .. Len(hs) /\ Len(hs) \in Nat
      OBVIOUS
    <3>3. PlacedAt(hs, x) \in SUBSET (0 .. Len(hs))
      BY <3>1, <3>2
    <3>4. Max(PlacedAt(hs, x)) \in PlacedAt(hs, x)
      BY <2>3, <3>2, <3>3, MaxIsGreatest
    <3>5. Max(PlacedAt(hs, x)) \in DOMAIN hs
      BY <3>1, <3>4
    <3> QED BY <3>5
  <2>4. NewConsistenceHash(hs) \in Balancers
    BY <2>2, <2>3 DEF NewConsistenceHash, Balancers, factories
  <2> QED BY <1>2, <2>4 DEF Build, NewConsistenceHash, factories
<1> QED BY <1>1, <1>2

(* Changes of the ring leave the rest of a balancer alone.                 *)
LEMMA WithRingType ==
  ASSUME NEW b \in Balancers, NEW ks \in [Positions -> Nat],
         NEW os \in [Positions -> Hosts \cup {NoHost}]
  PROVE  /\ WithRing(b, ks, os) \in Balancers
         /\ WithRing(b, ks, os).mode = b.mode
         /\ WithRing(b, ks, os).hosts = b.hosts
         /\ WithRing(b, ks, os).rlocked = b.rlocked
  BY DEF WithRing, Balancers

(* Add keeps the algorithm and every listed host. It lists a new one in a  *)
(* round-robin balancer only.                                              *)
LEMMA AddType ==
  ASSUME NEW b \in Balancers, NEW h \in Hosts
  PROVE  /\ Add(b, h) \in Balancers
         /\ Add(b, h).mode = b.mode
         /\ ToSet(b.hosts) \subseteq ToSet(Add(b, h).hosts)
         /\ Add(b, h).hosts = IF b.mode = RR /\ h \notin ToSet(b.hosts)
                              THEN Append(b.hosts, h) ELSE b.hosts
         /\ Add(b, h).rlocked = b.rlocked
<1>1. CASE b.mode = RR
  <2>1. Append(b.hosts, h) \in Seq(Hosts)
        /\ ToSet(b.hosts) \subseteq ToSet(Append(b.hosts, h))
    BY DEF Balancers, ToSet
  <2> QED BY <1>1, <2>1 DEF Add, RoundRobinAdd, Balancers
<1>2. CASE b.mode # RR
  <2>1. ASSUME NEW x \in Positions
        PROVE  Cardinality({i \in Replicas : hash[i][h] = x}) \in Nat
    BY FiniteReplicas, FS_Subset, FS_CardinalityType
  <2> DEFINE ks == [x \in Positions |->
                      b.keys[x] + Cardinality({i \in Replicas : hash[i][h] = x})]
             os == [x \in Positions |->
                      IF \E i \in Replicas : hash[i][h] = x THEN h ELSE b.owner[x]]
  <2>2. ks \in [Positions -> Nat]
    BY <2>1 DEF Balancers
  <2>3. os \in [Positions -> Hosts \cup {NoHost}]
    BY DEF Balancers
  <2>4. Add(b, h) = WithRing(b, ks, os)
    BY <1>2 DEF Add, ConsistenceHashAdd
  <2> HIDE DEF ks, os
  <2> QED BY <1>2, <2>2, <2>3, <2>4, WithRingType
<1> QED BY <1>1, <1>2

(* One turn of the loop of ConsistenceHash.Remove touches the ring only.   *)
Partial == [b : Balancers, panic : BOOLEAN]

LEMMA RemoveReplicaType ==
  ASSUME NEW r \in Partial, NEW x \in Positions
  PROVE  /\ RemoveReplica(r, x) \in Partial
         /\ RemoveReplica(r, x).b.mode = r.b.mode
         /\ RemoveReplica(r, x).b.hosts = r.b.hosts
         /\ RemoveReplica(r, x).b.rlocked = r.b.rlocked
<1>1. CASE r.panic \/ NotBelow(r.b, x) = {}
  BY <1>1 DEF RemoveReplica, Partial
<1>2. CASE ~(r.panic \/ NotBelow(r.b, x) = {})
  <2> DEFINE m == Min(NotBelow(r.b, x))
  <2>1. NotBelow(r.b, x) \in SUBSET Nat
    BY BalancerAssumption DEF NotBelow
  <2>2. m \in NotBelow(r.b, x)
    BY <1>2, <2>1, MinIsLeast
  <2>3. m \in Positions /\ r.b.keys[m] > 0
    BY <2>2 DEF NotBelow
  <2> HIDE DEF m
  <2> DEFINE ks == [r.b.keys EXCEPT ![m] = @ - 1]
             os == [r.b.owner EXCEPT ![x] = NoHost]
  <2>4. RemoveReplica(r, x) = [b |-> WithRing(r.b, ks, os), panic |-> FALSE]
    BY <1>2 DEF RemoveReplica, m
  <2>5. r.b \in Balancers
    BY DEF Partial
  <2>6. ks \in [Positions -> Nat]
    BY <2>3, <2>5 DEF Balancers
  <2>7. os \in [Positions -> Hosts \cup {NoHost}]
    BY <2>5 DEF Balancers
  <2> HIDE DEF ks, os
  <2> QED BY <2>4, <2>5, <2>6, <2>7, WithRingType DEF Partial
<1> QED BY <1>1, <1>2

(* Unlisting changes the list only.                                        *)
LEMMA UnlistedType ==
  ASSUME NEW b \in Balancers, NEW h
  PROVE  /\ Unlisted(b, h) \in Partial
         /\ Unlisted(b, h).b.mode = b.mode
         /\ Unlisted(b, h).b.hosts = RemoveFirst(b.hosts, h)
         /\ Unlisted(b, h).b.rlocked = b.rlocked
         /\ ~Unlisted(b, h).panic
<1>1. RemoveFirst(b.hosts, h) \in Seq(Hosts)
  BY RemoveFirstType DEF Balancers
<1> QED BY <1>1 DEF Unlisted, Partial, Balancers

(* Remove keeps the algorithm, and every listed host but the one removed;  *)
(* the list is as before when it panics.                                   *)
LEMMA RemoveType ==
  ASSUME NEW b \in Balancers, NEW h \in Hosts
  PROVE  LET r == RemoveResult(b, h) IN
         /\ r \in Partial
         /\ r.b.mode = b.mode
         /\ r.b.hosts = IF r.panic THEN b.hosts ELSE RemoveFirst(b.hosts, h)
         /\ r.b.rlocked = b.rlocked
<1>1. CASE b.mode = RR
  BY <1>1, UnlistedType DEF RemoveResult, RoundRobinRemove
<1>2. CASE b.mode # RR
  <2> DEFINE r0 == [b |-> b, panic |-> FALSE]
             r1 == RemoveReplica(r0, hash[0][h])
             r2 == RemoveReplica(r1, hash[1][h])
             r3 == RemoveReplica(r2, hash[2][h])
  <2>1. \A i \in Replicas : hash[i][h] \in Positions
    BY BalancerAssumption
  <2>2. r0 \in Partial /\ r0.b.mode = b.mode /\ r0.b.hosts = b.hosts
        /\ r0.b.rlocked = b.rlocked
    BY DEF Partial
  <2>3. r1 \in Partial /\ r1.b.mode = b.mode /\ r1.b.hosts = b.hosts
        /\ r1.b.rlocked = b.rlocked
    BY <2>1, <2>2, RemoveReplicaType DEF Replicas
  <2>4. r2 \in Partial /\ r2.b.mode = b.mode /\ r2.b.hosts = b.hosts
        /\ r2.b.rlocked = b.rlocked
    <3> HIDE DEF r1
    <3> QED BY <2>1, <2>3, RemoveReplicaType DEF Replicas
  <2>5. r3 \in Partial /\ r3.b.mode = b.mode /\ r3.b.hosts = b.hosts
        /\ r3.b.rlocked = b.rlocked
    <3> HIDE DEF r2
    <3> QED BY <2>1, <2>4, RemoveReplicaType DEF Replicas
  <2>6. RemoveResult(b, h) = IF r3.panic THEN r3 ELSE Unlisted(r3.b, h)
    BY <1>2 DEF RemoveResult, ConsistenceHashRemove
  <2> HIDE DEF r3
  <2>7. CASE r3.panic
    BY <2>5, <2>6, <2>7
  <2>8. CASE ~r3.panic
    <3>1. r3.b \in Balancers
      BY <2>5 DEF Partial
    <3> QED BY <2>5, <2>6, <2>8, <3>1, UnlistedType
  <2> QED BY <2>7, <2>8
<1> QED BY <1>1, <1>2

(* Balance changes neither the algorithm nor the list, and leaves the read *)
(* lock of a hash ring only.                                               *)
LEMMA AfterBalanceType ==
  ASSUME NEW b \in Balancers
  PROVE  /\ AfterBalance(b) \in Balancers
         /\ AfterBalance(b).mode = b.mode
         /\ AfterBalance(b).hosts = b.hosts
         /\ b.rlocked => AfterBalance(b).rlocked
         /\ AfterBalance(b).rlocked => b.rlocked \/ b.mode = CH
  BY DEF AfterBalance, Balancers, factories
=============================================================================
