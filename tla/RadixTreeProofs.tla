-------------------------- MODULE RadixTreeProofs ---------------------------
(* The black list answers every address as the set of its networks does,   *)
(* for every address length, every set of networks, every number of nodes. *)
EXTENDS RadixTree, FiniteSetTheorems, NaturalsInduction, WellFoundedInduction, TLAPS

-----------------------------------------------------------------------------
(* Naturals.                                                               *)

(* Min picks the least element of a non-empty set of naturals.             *)
LEMMA MinIsLeast ==
  ASSUME NEW S \in SUBSET Nat, S # {}
  PROVE  Min(S) \in S /\ \A y \in S : Min(S) <= y
<1>1. IsWellFoundedOn(OpToRel(<, Nat), Nat)
  BY NatLessThanWellFounded
<1>2. \E x \in S : \A y \in S : ~(<<y, x>> \in OpToRel(<, Nat))
  BY <1>1, WFMin
<1>3. \A x, y \in Nat : ~(<<y, x>> \in OpToRel(<, Nat)) => x =< y
  BY DEF OpToRel
<1>4. \E x \in S : \A y \in S : x =< y
  BY <1>2, <1>3
<1> QED BY <1>4 DEF Min

(* Max picks the greatest element of a non-empty set below a bound.        *)
LEMMA MaxIsGreatest ==
  ASSUME NEW n \in Nat, NEW S \in SUBSET (0 .. n), S # {}
  PROVE  Max(S) \in S /\ \A y \in S : Max(S) >= y
<1> DEFINE D == {n - x : x \in S}
<1>1. D \in SUBSET Nat /\ D # {}
  <2>1. \A x \in S : n - x \in Nat
    OBVIOUS
  <2> QED BY <2>1
<1>2. Min(D) \in D /\ \A d \in D : Min(D) <= d
  BY <1>1, MinIsLeast
<1>3. PICK m \in S : Min(D) = n - m
  BY <1>2
<1>4. \A y \in S : n - m <= n - y
  BY <1>2, <1>3
<1>5. \A y \in S : m >= y
  BY <1>4
<1> QED BY <1>5 DEF Max

(* Induction up to a bound, over a set: a claim is the set where it holds. *)
LEMMA UpTo ==
  ASSUME NEW n \in Nat, NEW S, 0 \in S,
         \A i \in 0 .. n - 1 : i \in S => i + 1 \in S
  PROVE  \A i \in 0 .. n : i \in S
<1> DEFINE D == {i \in 0 .. n : i \notin S}
<1> SUFFICES ASSUME D # {} PROVE FALSE
  OBVIOUS
<1>1. D \in SUBSET Nat
  OBVIOUS
<1> HIDE DEF D
<1>2. PICK m \in D : \A y \in D : m <= y
  BY <1>1, MinIsLeast
<1>3. m \in 0 .. n /\ m \notin S
  BY <1>2 DEF D
<1>4. m # 0 /\ m - 1 \in 0 .. n - 1
  BY <1>3
<1>5. m - 1 \notin D
  BY <1>2, <1>3, <1>4
<1>6. m - 1 \in S
  BY <1>4, <1>5 DEF D
<1> QED BY <1>3, <1>4, <1>6

-----------------------------------------------------------------------------
(* The way down.                                                           *)

(* Walk starts at the root and takes one child per bit.                    *)
LEMMA WalkStep ==
  ASSUME NEW t, NEW addr, NEW len \in Nat
  PROVE  LET w == Walk(t, addr, len) IN
         /\ w[0] = root
         /\ \A d \in 1 .. len :
              w[d] = IF w[d - 1] = nil THEN nil ELSE Child(t, w[d - 1], addr[d])
<1> DEFINE next(n, d) == IF n = nil THEN nil ELSE Child(t, n, addr[d])
           body(g, d) == IF d = 0 THEN root ELSE next(g[d - 1], d)
           Eqn(g, k) == g = [d \in 0 .. k |-> body(g, d)]
           S == {k \in 0 .. len : \E g : Eqn(g, k)}
<1> HIDE DEF next
<1>1. 0 \in S
  <2>1. Eqn([d \in 0 .. 0 |-> root], 0)
    OBVIOUS
  <2> HIDE DEF Eqn
  <2> QED BY <2>1
<1>2. ASSUME NEW k \in 0 .. len - 1, k \in S PROVE k + 1 \in S
  <2>1. PICK g : Eqn(g, k)
    BY <1>2
  <2> DEFINE h == [d \in 0 .. k + 1 |-> IF d <= k THEN g[d] ELSE next(g[k], d)]
  <2>2. \A d \in 0 .. k + 1 : h[d] = body(h, d)
    BY <2>1
  <2>3. Eqn(h, k + 1)
    BY <2>2
  <2> HIDE DEF Eqn, h
  <2> QED BY <2>3
<1> HIDE DEF S
<1>3. len \in S
  BY <1>1, <1>2, UpTo
<1> DEFINE w == Walk(t, addr, len)
<1>4. w = [d \in 0 .. len |-> body(w, d)]
  BY <1>3 DEF S, Walk, next
<1> HIDE DEF w
<1>5. \A d \in 0 .. len : w[d] = body(w, d)
  BY <1>4
<1> QED BY <1>5 DEF w, next

(* The node d bits down an address, if there is one.                       *)
At(t, a, d) == Walk(t, a, Bits)[d]

Depths == 0 .. Bits
Agree(a, b, d) == \A i \in 1 .. d : a[i] = b[i]

(* The way down is that of the address, bit by bit.                        *)
LEMMA AtStep ==
  ASSUME NEW t, NEW a
  PROVE  /\ At(t, a, 0) = root
         /\ \A d \in 1 .. Bits :
              At(t, a, d) = IF At(t, a, d - 1) = nil THEN nil
                            ELSE Child(t, At(t, a, d - 1), a[d])
BY WalkStep, RadixAssumption DEF At

(* Two ways down are the same as long as the bits are.                     *)
LEMMA WalkSame ==
  ASSUME NEW t, NEW a, NEW b, NEW m \in Nat, NEW n \in Nat,
         NEW k \in Nat, k <= m, k <= n, Agree(a, b, k)
  PROVE  \A d \in 0 .. k : Walk(t, a, m)[d] = Walk(t, b, n)[d]
<1> DEFINE v == Walk(t, a, m)
           w == Walk(t, b, n)
           S == {d \in 0 .. k : v[d] = w[d]}
<1>1. /\ v[0] = root /\ w[0] = root
      /\ \A d \in 1 .. m : v[d] = IF v[d - 1] = nil THEN nil ELSE Child(t, v[d - 1], a[d])
      /\ \A d \in 1 .. n : w[d] = IF w[d - 1] = nil THEN nil ELSE Child(t, w[d - 1], b[d])
  BY WalkStep
<1> HIDE DEF v, w
<1>2. 0 \in S
  BY <1>1
<1>3. ASSUME NEW i \in 0 .. k - 1, i \in S PROVE i + 1 \in S
  <2>1. i + 1 \in 1 .. k /\ i + 1 \in 1 .. m /\ i + 1 \in 1 .. n /\ i + 1 - 1 = i
    OBVIOUS
  <2>2. a[i + 1] = b[i + 1]
    BY <2>1 DEF Agree
  <2>3. v[i + 1] = w[i + 1]
    BY <1>1, <1>3, <2>1, <2>2
  <2> QED BY <2>1, <2>3
<1> HIDE DEF S
<1>4. \A d \in 0 .. k : d \in S
  BY <1>2, <1>3, UpTo
<1> QED BY <1>4 DEF S, v, w

(* Addresses that agree so far have come by the same nodes.                *)
LEMMA AtSame ==
  ASSUME NEW t, NEW a, NEW b, NEW d \in Depths, Agree(a, b, d)
  PROVE  \A e \in 0 .. d : At(t, a, e) = At(t, b, e)
BY WalkSame, RadixAssumption DEF At, Depths

(* Two trees with the same children have the same ways down.               *)
LEMMA AtTree ==
  ASSUME NEW t, NEW u, u.left = t.left, u.right = t.right, NEW a
  PROVE  \A d \in Depths : At(u, a, d) = At(t, a, d)
<1> DEFINE S == {d \in 0 .. Bits : At(u, a, d) = At(t, a, d)}
<1>0. Bits \in Nat
  BY RadixAssumption
<1>1. \A n, bit : Child(u, n, bit) = Child(t, n, bit)
  BY DEF Child
<1>2. 0 \in S
  BY <1>0, AtStep
<1>3. ASSUME NEW i \in 0 .. Bits - 1, i \in S PROVE i + 1 \in S
  <2>1. PICK j \in 1 .. Bits : j = i + 1 /\ j - 1 = i
    BY <1>0
  <2>2. At(u, a, j - 1) = At(t, a, j - 1)
    BY <1>3, <2>1
  <2>3. At(t, a, j) = IF At(t, a, j - 1) = nil THEN nil ELSE Child(t, At(t, a, j - 1), a[j])
    BY AtStep
  <2>4. At(u, a, j) = IF At(u, a, j - 1) = nil THEN nil ELSE Child(u, At(u, a, j - 1), a[j])
    BY AtStep
  <2>5. At(u, a, j) = At(t, a, j)
    BY <1>1, <2>2, <2>3, <2>4
  <2> QED BY <1>0, <2>1, <2>5
<1> HIDE DEF S
<1>4. \A d \in 0 .. Bits : d \in S
  BY <1>0, <1>2, <1>3, UpTo
<1> QED BY <1>4 DEF S, Depths

(* The way down along a network goes by the nodes of its address.          *)
LEMMA WalkIsAt ==
  ASSUME NEW t, NEW net \in NetType
  PROVE  \A d \in 0 .. net.len : Walk(t, net.addr, net.len)[d] = At(t, net.addr, d)
<1>1. net.len \in Nat /\ net.len <= Bits
  BY RadixAssumption DEF NetType
<1>2. Agree(net.addr, net.addr, net.len)
  BY DEF Agree
<1> QED BY <1>1, <1>2, WalkSame, RadixAssumption DEF At

(* Below a nil there is nothing.                                           *)
LEMMA NilBelow ==
  ASSUME NEW t, NEW a, NEW d \in Depths, NEW e \in Depths, d <= e, At(t, a, d) = nil
  PROVE  At(t, a, e) = nil
<1> DEFINE S == {i \in 0 .. Bits - d : At(t, a, d + i) = nil}
<1>1. Bits \in Nat /\ d \in 0 .. Bits /\ e \in 0 .. Bits
  BY RadixAssumption DEF Depths
<1>2. 0 \in S
  BY <1>1
<1>3. ASSUME NEW i \in 0 .. Bits - d - 1, i \in S PROVE i + 1 \in S
  <2>1. PICK j \in 1 .. Bits : j = d + (i + 1) /\ j - 1 = d + i
    BY <1>1
  <2>2. At(t, a, j - 1) = nil
    BY <1>3, <2>1
  <2>3. At(t, a, j) = nil
    BY <2>2, AtStep
  <2> QED BY <1>1, <2>1, <2>3
<1> HIDE DEF S
<1>4. \A i \in 0 .. Bits - d : i \in S
  BY <1>1, <1>2, <1>3, UpTo
<1>5. e - d \in 0 .. Bits - d /\ d + (e - d) = e
  BY <1>1
<1> QED BY <1>4, <1>5 DEF S

Pointer  == 0 .. MaxNodes
Pointers == [Nodes -> Pointer]
Values   == [Nodes -> Nets \cup {NoValue}]
TreeType == [left : Pointers, right : Pointers, parent : Pointers, value : Values,
             free : Pointer, used : Nodes]

-----------------------------------------------------------------------------
(* Types.                                                                  *)

(* Every place on a way down is a node or nil.                             *)
LEMMA AtType ==
  ASSUME NEW t \in TreeType, NEW a
  PROVE  /\ \A d \in Depths : At(t, a, d) \in Pointer
         /\ \A n \in Nodes : \A bit : Child(t, n, bit) \in Pointer
<1>1. \A n \in Nodes : \A bit : Child(t, n, bit) \in Pointer
  BY DEF TreeType, Pointers, Child
<1> DEFINE S == {d \in Depths : At(t, a, d) \in Pointer}
<1>2. 0 \in S
  BY AtStep, RadixAssumption DEF Depths, root, Pointer
<1>3. ASSUME NEW d \in 0 .. Bits - 1, d \in S PROVE d + 1 \in S
  <2>1. PICK j \in 1 .. Bits : j = d + 1 /\ j - 1 = d
    BY RadixAssumption
  <2>2. At(t, a, j) = IF At(t, a, d) = nil THEN nil ELSE Child(t, At(t, a, d), a[j])
    BY <2>1, AtStep
  <2>3. At(t, a, j) \in Pointer
    BY <1>1, <1>3, <2>2, RadixAssumption DEF nil, Nodes, Pointer
  <2> QED BY <2>1, <2>3 DEF Depths
<1> HIDE DEF S
<1>4. \A d \in 0 .. Bits : d \in S
  BY <1>2, <1>3, UpTo, RadixAssumption
<1> QED BY <1>1, <1>4 DEF S, Depths

(* Depth is the last bit of the network the tree has a node for.           *)
LEMMA DepthIs ==
  ASSUME NEW t, NEW net \in NetType
  PROVE  /\ Depth(t, net) \in 0 .. net.len
         /\ \A d \in 0 .. net.len : At(t, net.addr, d) # nil <=> d <= Depth(t, net)
<1> DEFINE w == Walk(t, net.addr, net.len)
           S == {d \in 0 .. net.len : w[d] # nil}
<1>1. net.len \in Nat /\ net.len <= Bits /\ Bits \in Nat
  BY RadixAssumption DEF NetType
<1>2. w[0] = root /\ \A d \in 0 .. net.len : w[d] = At(t, net.addr, d)
  BY <1>1, WalkStep, WalkIsAt
<1> HIDE DEF w
<1>3. 0 \in S
  BY <1>1, <1>2 DEF root, nil
<1>4. S \in SUBSET (0 .. net.len)
  OBVIOUS
<1>5. Depth(t, net) = Max(S)
  BY DEF Depth, w
<1> HIDE DEF S
<1>6. PICK D \in S : D = Depth(t, net) /\ \A d \in S : D >= d
  BY <1>1, <1>3, <1>4, <1>5, MaxIsGreatest
<1>7. D \in 0 .. net.len /\ At(t, net.addr, D) # nil
  BY <1>2, <1>6 DEF S
<1>8. ASSUME NEW d \in 0 .. net.len, d <= D PROVE At(t, net.addr, d) # nil
  BY <1>1, <1>7, <1>8, NilBelow DEF Depths
<1>9. ASSUME NEW d \in 0 .. net.len, At(t, net.addr, d) # nil PROVE d <= D
  BY <1>1, <1>2, <1>6, <1>7, <1>9 DEF S
<1> QED BY <1>6, <1>7, <1>8, <1>9

(* Writing a field keeps the others.                                       *)
LEMMA SetLeft ==
  ASSUME NEW t \in TreeType, NEW f \in Pointers
  PROVE  LET u == [t EXCEPT !.left = f] IN
         /\ u \in TreeType /\ u.left = f
         /\ u.right = t.right /\ u.parent = t.parent /\ u.value = t.value /\ u.free = t.free /\ u.used = t.used
BY DEF TreeType

(* New right pointers.                                                     *)
LEMMA SetRight ==
  ASSUME NEW t \in TreeType, NEW f \in Pointers
  PROVE  LET u == [t EXCEPT !.right = f] IN
         /\ u \in TreeType /\ u.right = f
         /\ u.left = t.left /\ u.parent = t.parent /\ u.value = t.value /\ u.free = t.free /\ u.used = t.used
BY DEF TreeType

(* New parent pointers.                                                    *)
LEMMA SetParent ==
  ASSUME NEW t \in TreeType, NEW f \in Pointers
  PROVE  LET u == [t EXCEPT !.parent = f] IN
         /\ u \in TreeType /\ u.parent = f
         /\ u.left = t.left /\ u.right = t.right /\ u.value = t.value /\ u.free = t.free /\ u.used = t.used
BY DEF TreeType

(* New values.                                                             *)
LEMMA SetValue ==
  ASSUME NEW t \in TreeType, NEW f \in Values
  PROVE  LET u == [t EXCEPT !.value = f] IN
         /\ u \in TreeType /\ u.value = f
         /\ u.left = t.left /\ u.right = t.right /\ u.parent = t.parent /\ u.free = t.free /\ u.used = t.used
BY DEF TreeType

(* A new head of the free list.                                            *)
LEMMA SetFree ==
  ASSUME NEW t \in TreeType, NEW f \in Pointer
  PROVE  LET u == [t EXCEPT !.free = f] IN
         /\ u \in TreeType /\ u.free = f
         /\ u.left = t.left /\ u.right = t.right /\ u.parent = t.parent /\ u.value = t.value /\ u.used = t.used
BY DEF TreeType

(* A new number of nodes.                                                  *)
LEMMA SetUsed ==
  ASSUME NEW t \in TreeType, NEW f \in Nodes
  PROVE  LET u == [t EXCEPT !.used = f] IN
         /\ u \in TreeType /\ u.used = f
         /\ u.left = t.left /\ u.right = t.right /\ u.parent = t.parent /\ u.value = t.value /\ u.free = t.free
BY DEF TreeType

(* What a pointer is, and what writing one is.                             *)
LEMMA PointerFacts ==
  /\ \A n : n \in Nodes <=> n \in Pointer /\ n # nil
  /\ nil \in Pointer /\ root \in Nodes
  /\ \A f \in Pointers, n \in Nodes, p \in Pointer :
       /\ [f EXCEPT ![n] = p] \in Pointers
       /\ \A m \in Nodes : [f EXCEPT ![n] = p][m] = IF m = n THEN p ELSE f[m]
  /\ \A f \in Pointers, n \in Nodes : f[n] \in Pointer
  /\ \A f \in Values, n \in Nodes, v \in Nets \cup {NoValue} :
       /\ [f EXCEPT ![n] = v] \in Values
       /\ \A m \in Nodes : [f EXCEPT ![n] = v][m] = IF m = n THEN v ELSE f[m]
<1>1. /\ \A n : n \in Nodes <=> n \in Pointer /\ n # nil
      /\ nil \in Pointer /\ root \in Nodes
  BY RadixAssumption DEF Nodes, Pointer, nil, root
<1>2. \A f \in Pointers, n \in Nodes, p \in Pointer :
        /\ [f EXCEPT ![n] = p] \in Pointers
        /\ \A m \in Nodes : [f EXCEPT ![n] = p][m] = IF m = n THEN p ELSE f[m]
  BY DEF Pointers
<1>3. \A f \in Values, n \in Nodes, v \in Nets \cup {NoValue} :
        /\ [f EXCEPT ![n] = v] \in Values
        /\ \A m \in Nodes : [f EXCEPT ![n] = v][m] = IF m = n THEN v ELSE f[m]
  BY DEF Values
<1>4. \A f \in Pointers, n \in Nodes : f[n] \in Pointer
  BY DEF Pointers
<1> QED BY <1>1, <1>2, <1>3, <1>4

(* A node of the free list, or the next number.                            *)
LEMMA NewNodeIs ==
  ASSUME NEW t \in TreeType, t.free # nil \/ t.used < MaxNodes
  PROVE  LET m == newNode(t) IN
         /\ m.t \in TreeType /\ m.node \in Nodes /\ m.t.used \in t.used .. t.used + 1
         /\ m.t.left = t.left /\ m.t.right = t.right
         /\ m.t.parent = t.parent /\ m.t.value = t.value
         /\ t.free = nil => m.t.free = nil /\ m.node = t.used + 1 /\ m.t.used = t.used + 1
<1>1. /\ t.right \in Pointers /\ t.free \in Pointer /\ t.used \in Nodes
      /\ t.used \in Nat /\ t.used + 0 = t.used
  BY DEF TreeType, Nodes
<1>2. CASE t.free # nil
  <2>1. t.free \in Nodes /\ t.right[t.free] \in Pointer
    BY <1>1, <1>2, PointerFacts
  <2> DEFINE u == [t EXCEPT !.free = t.right[t.free]]
  <2>2. newNode(t).node = t.free /\ newNode(t).t = u
    BY <1>2 DEF newNode
  <2>3. /\ u \in TreeType /\ u.used = t.used
        /\ u.left = t.left /\ u.right = t.right /\ u.parent = t.parent /\ u.value = t.value
    BY <2>1, SetFree
  <2> HIDE DEF u
  <2> QED BY <1>1, <1>2, <2>1, <2>2, <2>3
<1>3. CASE t.free = nil
  <2>1. t.used + 1 \in Nodes
    BY <1>1, <1>3, RadixAssumption DEF Nodes
  <2> DEFINE u == [t EXCEPT !.used = t.used + 1]
  <2>2. newNode(t).node = t.used + 1 /\ newNode(t).t = u
    BY <1>3 DEF newNode
  <2>3. /\ u \in TreeType /\ u.used = t.used + 1 /\ u.free = t.free
        /\ u.left = t.left /\ u.right = t.right /\ u.parent = t.parent /\ u.value = t.value
    BY <2>1, SetUsed
  <2> HIDE DEF u
  <2> QED BY <1>1, <1>3, <2>1, <2>2, <2>3
<1> QED BY <1>2, <1>3

(* Hang gives a node its parent and no value, and the parent its child.    *)
LEMMA HangIs ==
  ASSUME NEW s, s.t \in TreeType, s.node \in Nodes, NEW bit,
         s.t.free # nil \/ s.t.used < MaxNodes
  PROVE  LET t == s.t
             p == s.node
             m == newNode(t)
             n == m.node
             r == Hang(s, bit)
         IN
         /\ r.t \in TreeType /\ r.node = n
         /\ r.t.used = m.t.used /\ r.t.free = m.t.free
         /\ r.t.parent = [t.parent EXCEPT ![n] = p]
         /\ r.t.value = [t.value EXCEPT ![n] = NoValue]
         /\ r.t.left = IF bit = 1 THEN t.left ELSE [t.left EXCEPT ![p] = n]
         /\ r.t.right = IF bit = 1 THEN [t.right EXCEPT ![p] = n] ELSE t.right
<1> DEFINE t == s.t
           p == s.node
           m == newNode(t)
           n == m.node
           up == [t.parent EXCEPT ![n] = p]
           val == [t.value EXCEPT ![n] = NoValue]
           le == [t.left EXCEPT ![p] = n]
           ri == [t.right EXCEPT ![p] = n]
           linked == IF bit = 1 THEN [m.t EXCEPT !.right[p] = n] ELSE [m.t EXCEPT !.left[p] = n]
           l1 == [linked EXCEPT !.parent = [linked.parent EXCEPT ![n] = p]]
           l2 == [l1 EXCEPT !.value = [l1.value EXCEPT ![n] = NoValue]]
<1>1. Hang(s, bit) = [t |-> l2, node |-> n]
  BY DEF Hang
<1> HIDE DEF m
<1> HIDE DEF t, p
<1>0. t \in TreeType /\ p \in Nodes
  BY DEF t, p
<1>2. /\ m.t \in TreeType /\ n \in Nodes
      /\ m.t.left = t.left /\ m.t.right = t.right
      /\ m.t.parent = t.parent /\ m.t.value = t.value
  BY NewNodeIs DEF m, t
<1> HIDE DEF n
<1>3. up \in Pointers /\ val \in Values /\ le \in Pointers /\ ri \in Pointers
  <2>1. /\ t.left \in Pointers /\ t.right \in Pointers /\ t.parent \in Pointers
        /\ t.value \in Values
    BY <1>0 DEF TreeType
  <2> QED BY <1>0, <1>2, <2>1, PointerFacts
<1>4. /\ linked \in TreeType
      /\ linked.used = m.t.used /\ linked.free = m.t.free
      /\ linked.parent = t.parent /\ linked.value = t.value
      /\ linked.left = IF bit = 1 THEN t.left ELSE le
      /\ linked.right = IF bit = 1 THEN ri ELSE t.right
  <2>1. linked = IF bit = 1 THEN [m.t EXCEPT !.right = ri] ELSE [m.t EXCEPT !.left = le]
    BY <1>2
  <2> HIDE DEF linked, le, ri
  <2>2. CASE bit = 1
    BY <1>2, <1>3, <2>1, <2>2, SetRight
  <2>3. CASE bit # 1
    BY <1>2, <1>3, <2>1, <2>3, SetLeft
  <2> QED BY <2>2, <2>3
<1> HIDE DEF linked
<1>5. /\ l1 \in TreeType
      /\ l1.used = m.t.used /\ l1.free = m.t.free
      /\ l1.parent = up /\ l1.value = t.value
      /\ l1.left = linked.left /\ l1.right = linked.right
  <2>1. l1 = [linked EXCEPT !.parent = up]
    BY <1>4
  <2> HIDE DEF l1, up
  <2> QED BY <1>3, <1>4, <2>1, SetParent
<1> HIDE DEF l1
<1>6. /\ l2 \in TreeType
      /\ l2.used = m.t.used /\ l2.free = m.t.free
      /\ l2.parent = up /\ l2.value = val
      /\ l2.left = linked.left /\ l2.right = linked.right
  <2>1. l2 = [l1 EXCEPT !.value = val]
    BY <1>5
  <2> HIDE DEF l2, up, val
  <2> QED BY <1>3, <1>5, <2>1, SetValue
<1> HIDE DEF l2
<1> QED BY <1>1, <1>4, <1>6 DEF m, n, t, p

(* A node hung below another leaves a tree, with one node more at most.    *)
LEMMA HangType ==
  ASSUME NEW s, s.t \in TreeType, s.node \in Nodes, NEW bit,
         s.t.free # nil \/ s.t.used < MaxNodes
  PROVE  LET r == Hang(s, bit) IN
         /\ r.t \in TreeType /\ r.node \in Nodes
         /\ r.t.used \in s.t.used .. s.t.used + 1
<1>1. LET m == newNode(s.t) IN
      m.t \in TreeType /\ m.node \in Nodes /\ m.t.used \in s.t.used .. s.t.used + 1
  BY NewNodeIs
<1>2. LET m == newNode(s.t)
          r == Hang(s, bit)
      IN  r.t \in TreeType /\ r.node = m.node /\ r.t.used = m.t.used
  BY HangIs
<1> QED BY <1>1, <1>2

(* Unlink takes a node from its parent and puts it on the free list.       *)
LEMMA UnlinkIs ==
  ASSUME NEW s, s.t \in TreeType, s.node \in Nodes, s.t.parent[s.node] # nil
  PROVE  LET t == s.t
             n == s.node
             up == t.parent[n]
             r == Unlink(s)
         IN
         /\ r.t \in TreeType /\ r.node = up /\ up \in Nodes
         /\ r.t.used = t.used /\ r.t.parent = t.parent /\ r.t.value = t.value
         /\ \A x \in Nodes :
              /\ r.t.left[x] = IF x = up /\ t.right[up] # n THEN nil ELSE t.left[x]
              /\ x # n => r.t.right[x] = IF x = up /\ t.right[up] = n THEN nil ELSE t.right[x]
<1> DEFINE t == s.t
           n == s.node
           up == t.parent[n]
           unlinked == IF t.right[up] = n THEN [t EXCEPT !.right[up] = nil]
                                          ELSE [t EXCEPT !.left[up] = nil]
           u1 == [unlinked EXCEPT !.right[n] = t.free]
           u2 == [u1 EXCEPT !.free = n]
<1>1. Unlink(s) = [t |-> u2, node |-> up]
  BY DEF Unlink
<1> HIDE DEF t, n
<1>2. t \in TreeType /\ n \in Nodes /\ n \in Pointer /\ up # nil
  BY PointerFacts DEF t, n
<1> HIDE DEF up
<1>3. /\ t.left \in Pointers /\ t.right \in Pointers /\ t.parent \in Pointers
      /\ t.free \in Pointer
  BY <1>2 DEF TreeType
<1>4. up \in Nodes
  BY <1>2, <1>3, PointerFacts DEF up
<1> DEFINE ri == [t.right EXCEPT ![up] = nil]
           le == [t.left EXCEPT ![up] = nil]
<1>5. /\ ri \in Pointers /\ \A x \in Nodes : ri[x] = IF x = up THEN nil ELSE t.right[x]
      /\ le \in Pointers /\ \A x \in Nodes : le[x] = IF x = up THEN nil ELSE t.left[x]
  BY <1>3, <1>4, PointerFacts
<1>6. unlinked = IF t.right[up] = n THEN [t EXCEPT !.right = ri] ELSE [t EXCEPT !.left = le]
  OBVIOUS
<1> HIDE DEF unlinked, ri, le
<1>7. /\ unlinked \in TreeType /\ unlinked.used = t.used
      /\ unlinked.parent = t.parent /\ unlinked.value = t.value
      /\ unlinked.left \in Pointers /\ unlinked.right \in Pointers
      /\ unlinked.left = IF t.right[up] = n THEN t.left ELSE le
      /\ unlinked.right = IF t.right[up] = n THEN ri ELSE t.right
  <2>1. CASE t.right[up] = n
    BY <1>2, <1>3, <1>5, <1>6, <2>1, SetRight
  <2>2. CASE t.right[up] # n
    BY <1>2, <1>3, <1>5, <1>6, <2>2, SetLeft
  <2> QED BY <2>1, <2>2
<1> DEFINE last == [unlinked.right EXCEPT ![n] = t.free]
<1>8. last \in Pointers /\ \A x \in Nodes : last[x] = IF x = n THEN t.free ELSE unlinked.right[x]
  BY <1>2, <1>3, <1>7, PointerFacts
<1>9. u1 = [unlinked EXCEPT !.right = last]
  OBVIOUS
<1> HIDE DEF u1, last
<1>10. /\ u1 \in TreeType /\ u1.used = t.used /\ u1.parent = t.parent /\ u1.value = t.value
       /\ u1.left = unlinked.left /\ u1.right = last
  BY <1>7, <1>8, <1>9, SetRight
<1>11. /\ u2 \in TreeType /\ u2.used = t.used /\ u2.parent = t.parent /\ u2.value = t.value
       /\ u2.left = unlinked.left /\ u2.right = last
  BY <1>2, <1>10, SetFree
<1> HIDE DEF u2
<1>12. \A x \in Nodes :
         /\ u2.left[x] = IF x = up /\ t.right[up] # n THEN nil ELSE t.left[x]
         /\ x # n => u2.right[x] = IF x = up /\ t.right[up] = n THEN nil ELSE t.right[x]
  BY <1>5, <1>7, <1>8, <1>11
<1> QED BY <1>1, <1>4, <1>11, <1>12 DEF t, n, up

(* Extend goes down to the last node there is, then hangs one per bit.     *)
LEMMA ExtendStep ==
  ASSUME NEW t, NEW net \in NetType
  PROVE  \A d \in 0 .. net.len :
           Extend(t, net)[d] =
             IF d <= Depth(t, net)
             THEN [t |-> t, node |-> Walk(t, net.addr, net.len)[d]]
             ELSE Hang(Extend(t, net)[d - 1], net.addr[d])
<1> DEFINE len == net.len
           D == Depth(t, net)
           base(d) == [t |-> t, node |-> Walk(t, net.addr, net.len)[d]]
           next(r, d) == Hang(r, net.addr[d])
           body(g, d) == IF d <= D THEN base(d) ELSE next(g[d - 1], d)
           Eqn(g, k) == g = [d \in 0 .. k |-> body(g, d)]
           S == {k \in 0 .. len : \E g : Eqn(g, k)}
<1>0. len \in Nat /\ D \in 0 .. len
  BY RadixAssumption, DepthIs DEF NetType
<1> HIDE DEF base, next, D, len
<1>1. 0 \in S
  <2>1. Eqn([d \in 0 .. 0 |-> base(0)], 0)
    BY <1>0
  <2> HIDE DEF Eqn
  <2> QED BY <1>0, <2>1
<1>2. ASSUME NEW k \in 0 .. len - 1, k \in S PROVE k + 1 \in S
  <2>1. PICK g : Eqn(g, k)
    BY <1>2
  <2> DEFINE h == [d \in 0 .. k + 1 |->
                     IF d <= k THEN g[d] ELSE IF d <= D THEN base(d) ELSE next(g[k], d)]
  <2>2. \A d \in 0 .. k + 1 : h[d] = body(h, d)
    BY <1>0, <2>1
  <2>3. Eqn(h, k + 1)
    BY <2>2
  <2> HIDE DEF Eqn, h
  <2> QED BY <1>0, <2>3
<1> HIDE DEF S
<1>3. len \in S
  BY <1>0, <1>1, <1>2, UpTo
<1> DEFINE w == Extend(t, net)
<1>4. w = [d \in 0 .. len |-> body(w, d)]
  BY <1>3 DEF S, Extend, next, base, D, len
<1> HIDE DEF w
<1>5. \A d \in 0 .. len : w[d] = body(w, d)
  BY <1>4
<1> QED BY <1>5 DEF w, next, base, D, len

(* Climb unlinks the node, then its parents until one stays.               *)
LEMMA ClimbStep ==
  ASSUME NEW t, NEW node
  PROVE  LET s == Climb(t, node) IN
         /\ s[0] = [t |-> t, node |-> node]
         /\ \A i \in 1 .. Steps :
              s[i] = IF i > 1 /\ Stays(s[i - 1]) THEN s[i - 1] ELSE Unlink(s[i - 1])
<1> DEFINE base == [t |-> t, node |-> node]
           next(r, i) == IF i > 1 /\ Stays(r) THEN r ELSE Unlink(r)
           body(g, d) == IF d = 0 THEN base ELSE next(g[d - 1], d)
           Eqn(g, k) == g = [d \in 0 .. k |-> body(g, d)]
           S == {k \in 0 .. Steps : \E g : Eqn(g, k)}
<1>0. Steps \in Nat
  BY RadixAssumption DEF Steps
<1> HIDE DEF next, base
<1>1. 0 \in S
  <2>1. Eqn([d \in 0 .. 0 |-> base], 0)
    OBVIOUS
  <2> HIDE DEF Eqn
  <2> QED BY <1>0, <2>1
<1>2. ASSUME NEW k \in 0 .. Steps - 1, k \in S PROVE k + 1 \in S
  <2>1. PICK g : Eqn(g, k)
    BY <1>2
  <2> DEFINE h == [d \in 0 .. k + 1 |-> IF d <= k THEN g[d] ELSE next(g[k], d)]
  <2>2. \A d \in 0 .. k + 1 : h[d] = body(h, d)
    BY <1>0, <2>1
  <2>3. Eqn(h, k + 1)
    BY <2>2
  <2> HIDE DEF Eqn, h
  <2> QED BY <1>0, <2>3
<1> HIDE DEF S
<1>3. Steps \in S
  BY <1>0, <1>1, <1>2, UpTo
<1> DEFINE w == Climb(t, node)
<1>4. w = [d \in 0 .. Steps |-> body(w, d)]
  BY <1>3 DEF S, Climb, next, base
<1> HIDE DEF w
<1>5. \A d \in 0 .. Steps : w[d] = body(w, d)
  BY <1>4
<1> QED BY <1>0, <1>5 DEF w, next, base

(* A network has an address and a length, and is not the empty string.     *)
LEMMA NetFacts ==
  ASSUME NEW net \in Nets
  PROVE  /\ net \in NetType /\ net.addr \in Address /\ net # NoValue
         /\ net.len \in Nat /\ net.len <= Bits /\ Bits \in Nat /\ net.len \in Depths
BY RadixAssumption DEF NetType, Depths

(* Insertion stays within the nodes there are room for.                    *)
LEMMA ExtendType ==
  ASSUME NEW t \in TreeType, NEW net \in Nets,
         t.used + net.len - Depth(t, net) <= MaxNodes
  PROVE  \A d \in 0 .. net.len :
           LET s == Extend(t, net)[d] IN
           /\ s.t \in TreeType /\ s.node \in Nodes
           /\ s.t.used <= t.used + (IF d <= Depth(t, net) THEN 0 ELSE d - Depth(t, net))
<1> DEFINE D == Depth(t, net)
           s == Extend(t, net)
           len == net.len
           Ok(d) == /\ s[d].t \in TreeType /\ s[d].node \in Nodes
                    /\ s[d].t.used <= t.used + (IF d <= D THEN 0 ELSE d - D)
           S == {d \in 0 .. len : Ok(d)}
<1>1. /\ net \in NetType /\ len \in Nat /\ len <= Bits /\ Bits \in Nat
      /\ D \in 0 .. len /\ t.used \in Nat
  BY NetFacts, DepthIs DEF TreeType, Nodes
<1>2. ASSUME NEW d \in 0 .. len, d <= D PROVE Ok(d)
  <2>1. s[d] = [t |-> t, node |-> Walk(t, net.addr, net.len)[d]]
    BY <1>1, <1>2, ExtendStep
  <2>2. Walk(t, net.addr, net.len)[d] = At(t, net.addr, d) /\ At(t, net.addr, d) # nil
    BY <1>1, <1>2, WalkIsAt, DepthIs
  <2>3. At(t, net.addr, d) \in Pointer
    <3>1. d \in Depths
      BY <1>1 DEF Depths
    <3> QED BY <3>1, AtType
  <2>4. s[d].t = t /\ s[d].node \in Nodes
    BY <2>1, <2>2, <2>3, PointerFacts
  <2> QED BY <1>1, <1>2, <2>4
<1> HIDE DEF s, D, len
<1>3. 0 \in S
  BY <1>1, <1>2
<1>4. ASSUME NEW d \in 0 .. len - 1, d \in S PROVE d + 1 \in S
  <2>1. CASE d + 1 <= D
    BY <1>1, <1>2, <2>1
  <2>2. CASE ~(d + 1 <= D)
    <3>1. PICK e \in 0 .. len : e = d + 1 /\ e - 1 = d /\ ~(e <= D)
      BY <1>1, <2>2
    <3>2. s[e] = Hang(s[d], net.addr[e])
      BY <1>1, <3>1, ExtendStep DEF s, D, len
    <3>3. /\ s[d].t \in TreeType /\ s[d].node \in Nodes
          /\ s[d].t.used <= t.used + (IF d <= D THEN 0 ELSE d - D)
      BY <1>4
    <3>4. s[d].t.used \in Nat /\ MaxNodes \in Nat
      BY <3>3, RadixAssumption DEF TreeType, Nodes
    <3>5. t.used + len - D <= MaxNodes
      BY DEF len, D
    <3>6. s[d].t.used < MaxNodes
      BY <1>1, <3>1, <3>3, <3>4, <3>5
    <3>7. /\ s[e].t \in TreeType /\ s[e].node \in Nodes
          /\ s[e].t.used \in s[d].t.used .. s[d].t.used + 1
      BY <3>2, <3>3, <3>6, HangType
    <3>8. PICK u \in Nat, v \in Nat :
            /\ u = s[d].t.used /\ v = s[e].t.used /\ v <= u + 1
            /\ u <= t.used + (IF d <= D THEN 0 ELSE d - D)
      BY <3>3, <3>4, <3>7
    <3>9. v <= t.used + (e - D)
      BY <1>1, <3>1, <3>8
    <3>10. s[e].t.used <= t.used + (IF e <= D THEN 0 ELSE e - D)
      BY <3>1, <3>8, <3>9
    <3> QED BY <3>1, <3>7, <3>10
  <2> QED BY <2>1, <2>2
<1> HIDE DEF S
<1>5. \A d \in 0 .. len : d \in S
  BY <1>1, <1>3, <1>4, UpTo
<1> QED BY <1>5 DEF S, s, D, len

(* insert is Extend, then the value of the last node.                      *)
LEMMA InsertIs ==
  ASSUME NEW t \in TreeType, NEW net \in Nets,
         t.used + net.len - Depth(t, net) <= MaxNodes
  PROVE  LET s == Extend(t, net)[net.len]
             u == insert(t, net)
         IN
         /\ u \in TreeType
         /\ u.left = s.t.left /\ u.right = s.t.right /\ u.parent = s.t.parent
         /\ u.free = s.t.free /\ u.used = s.t.used
         /\ \A n \in Nodes : u.value[n] = IF n = s.node THEN net ELSE s.t.value[n]
<1> DEFINE s == Extend(t, net)[net.len]
           val == [s.t.value EXCEPT ![s.node] = net]
<1>1. s.t \in TreeType /\ s.node \in Nodes
  BY ExtendType, NetFacts
<1>2. insert(t, net) = [s.t EXCEPT !.value = val]
  BY DEF insert
<1> HIDE DEF s
<1>3. s.t.value \in Values
  BY <1>1 DEF TreeType
<1>4. val \in Values /\ \A n \in Nodes : val[n] = IF n = s.node THEN net ELSE s.t.value[n]
  BY <1>1, <1>3, PointerFacts
<1> HIDE DEF val
<1>5. LET u == [s.t EXCEPT !.value = val] IN
      /\ u \in TreeType /\ u.value = val
      /\ u.left = s.t.left /\ u.right = s.t.right /\ u.parent = s.t.parent
      /\ u.free = s.t.free /\ u.used = s.t.used
  BY <1>1, <1>4, SetValue
<1> QED BY <1>2, <1>4, <1>5 DEF s

(* The loop of delete goes from node to node.                              *)
LEMMA ClimbType ==
  ASSUME NEW t \in TreeType, NEW n \in Nodes, t.parent[n] # nil
  PROVE  \A i \in 0 .. Steps : LET s == Climb(t, n)[i] IN s.t \in TreeType /\ s.node \in Nodes
<1> DEFINE s == Climb(t, n)
           S == {i \in 0 .. Steps : s[i].t \in TreeType /\ s[i].node \in Nodes}
<1>0. Steps \in Nat
  BY RadixAssumption DEF Steps
<1>1. /\ s[0] = [t |-> t, node |-> n]
      /\ \A i \in 1 .. Steps :
           s[i] = IF i > 1 /\ Stays(s[i - 1]) THEN s[i - 1] ELSE Unlink(s[i - 1])
  BY ClimbStep
<1> HIDE DEF s
<1>2. 0 \in S
  BY <1>0, <1>1
<1>3. ASSUME NEW i \in 0 .. Steps - 1, i \in S PROVE i + 1 \in S
  <2>1. PICK j \in 1 .. Steps : j = i + 1 /\ j - 1 = i
    BY <1>0
  <2>2. s[j] = IF j > 1 /\ Stays(s[i]) THEN s[i] ELSE Unlink(s[i])
    BY <1>1, <2>1
  <2>3. s[i].t \in TreeType /\ s[i].node \in Nodes
    BY <1>3
  <2>4. CASE j > 1 /\ Stays(s[i])
    BY <1>0, <2>1, <2>2, <2>3, <2>4
  <2>5. CASE ~(j > 1 /\ Stays(s[i]))
    <3>1. s[i].t.parent[s[i].node] # nil
      <4>1. CASE i = 0
        BY <1>1, <4>1
      <4>2. CASE i # 0
        <5>1. j > 1
          BY <1>0, <2>1, <4>2
        <5>2. ~Stays(s[i])
          BY <2>5, <5>1
        <5> QED BY <5>2 DEF Stays
      <4> QED BY <4>1, <4>2
    <3>2. Unlink(s[i]).t \in TreeType /\ Unlink(s[i]).node \in Nodes
      BY <2>3, <3>1, UnlinkIs
    <3> QED BY <1>0, <2>1, <2>2, <2>5, <3>2
  <2> QED BY <2>4, <2>5
<1> HIDE DEF S
<1>4. \A i \in 0 .. Steps : i \in S
  BY <1>0, <1>2, <1>3, UpTo
<1> QED BY <1>4 DEF S, s

(* Deletion leaves a tree.                                                 *)
LEMMA DeleteType ==
  ASSUME NEW t \in TreeType, NEW net \in Nets
  PROVE  delete(t, net).t \in TreeType
<1> DEFINE n == Walk(t, net.addr, net.len)[net.len]
<1>1. n \in Pointer
  <2>1. n = At(t, net.addr, net.len)
    <3>1. net \in NetType /\ net.len \in 0 .. net.len
      BY NetFacts
    <3> QED BY <3>1, WalkIsAt
  <2> QED BY <2>1, NetFacts, AtType
<1>2. CASE n = nil
  BY <1>2 DEF delete
<1>3. CASE n # nil /\ (t.right[n] # nil \/ t.left[n] # nil)
  <2> DEFINE val == [t.value EXCEPT ![n] = NoValue]
  <2>1. n \in Nodes /\ t.value \in Values
    BY <1>1, <1>3, PointerFacts DEF TreeType
  <2>2. val \in Values
    <3> HIDE DEF n
    <3>1. NoValue \in Nets \cup {NoValue}
      OBVIOUS
    <3> QED BY <2>1, <3>1, PointerFacts
  <2>3. delete(t, net).t = [t EXCEPT !.value = val] \/ delete(t, net).t = t
    BY <1>3 DEF delete
  <2> HIDE DEF val
  <2> QED BY <2>2, <2>3, SetValue
<1>4. CASE n # nil /\ ~(t.right[n] # nil \/ t.left[n] # nil) /\ t.parent[n] = nil
  BY <1>4 DEF delete
<1>5. CASE n # nil /\ ~(t.right[n] # nil \/ t.left[n] # nil) /\ t.parent[n] # nil
  <2>1. delete(t, net).t = Climb(t, n)[Steps].t
    BY <1>5 DEF delete, FreeUp
  <2>2. n \in Nodes /\ Steps \in 0 .. Steps
    BY <1>1, <1>5, PointerFacts, RadixAssumption DEF Steps
  <2> HIDE DEF n
  <2> QED BY <1>5, <2>1, <2>2, ClimbType
<1> QED BY <1>2, <1>3, <1>4, <1>5

-----------------------------------------------------------------------------
(* The tree that Restore builds.                                           *)

(* A tree without free nodes, whatever its pointers.                       *)
Loose(t) ==
    /\ t = [left |-> t.left, right |-> t.right, parent |-> t.parent, value |-> t.value,
            free |-> nil, used |-> t.used]
    /\ t.used \in Nat

(* No assignment to a pointer or a value makes a free node.                *)
LEMMA LooseSet ==
  ASSUME NEW t, Loose(t)
  PROVE  /\ \A f : LET u == [t EXCEPT !.left = f] IN Loose(u) /\ u.used = t.used
         /\ \A f : LET u == [t EXCEPT !.right = f] IN Loose(u) /\ u.used = t.used
         /\ \A f : LET u == [t EXCEPT !.parent = f] IN Loose(u) /\ u.used = t.used
         /\ \A f : LET u == [t EXCEPT !.value = f] IN Loose(u) /\ u.used = t.used
         /\ LET u == [t EXCEPT !.used = @ + 1] IN Loose(u) /\ u.used = t.used + 1
         /\ t.free = nil
<1> DEFINE l == t.left
           r == t.right
           p == t.parent
           v == t.value
           k == t.used
<1>1. /\ t = [left |-> l, right |-> r, parent |-> p, value |-> v, free |-> nil, used |-> k]
      /\ k \in Nat
  BY DEF Loose
<1> HIDE DEF l, r, p, v, k
<1>2. \A f : LET u == [t EXCEPT !.left = f] IN Loose(u) /\ u.used = t.used
  BY <1>1 DEF Loose
<1>3. \A f : LET u == [t EXCEPT !.right = f] IN Loose(u) /\ u.used = t.used
  BY <1>1 DEF Loose
<1>4. \A f : LET u == [t EXCEPT !.parent = f] IN Loose(u) /\ u.used = t.used
  BY <1>1 DEF Loose
<1>5. \A f : LET u == [t EXCEPT !.value = f] IN Loose(u) /\ u.used = t.used
  BY <1>1 DEF Loose
<1>6. LET u == [t EXCEPT !.used = @ + 1] IN Loose(u) /\ u.used = t.used + 1
  BY <1>1 DEF Loose
<1> QED BY <1>1, <1>2, <1>3, <1>4, <1>5, <1>6

(* Without free nodes every node that is hung is a new one.                *)
LEMMA HangLoose ==
  ASSUME NEW s, Loose(s.t), NEW bit
  PROVE  Loose(Hang(s, bit).t) /\ Hang(s, bit).t.used = s.t.used + 1
<1> DEFINE t == s.t
           m == newNode(t)
           n == m.node
           linked == IF bit = 1 THEN [m.t EXCEPT !.right = [m.t.right EXCEPT ![s.node] = n]]
                                ELSE [m.t EXCEPT !.left = [m.t.left EXCEPT ![s.node] = n]]
           l1 == [linked EXCEPT !.parent = [linked.parent EXCEPT ![n] = s.node]]
           l2 == [l1 EXCEPT !.value = [l1.value EXCEPT ![n] = NoValue]]
<1>1. Hang(s, bit).t = l2
  BY DEF Hang
<1> HIDE DEF t
<1>2. Loose(t)
  BY DEF t
<1>3. Loose(m.t) /\ m.t.used = t.used + 1
  <2>1. m.t = [t EXCEPT !.used = @ + 1]
    BY <1>2, LooseSet DEF newNode
  <2> HIDE DEF m
  <2> QED BY <1>2, <2>1, LooseSet
<1> HIDE DEF m
<1>4. Loose(linked) /\ linked.used = t.used + 1
  <2>1. CASE bit = 1
    BY <1>3, <2>1, LooseSet
  <2>2. CASE bit # 1
    BY <1>3, <2>2, LooseSet
  <2> QED BY <2>1, <2>2
<1> HIDE DEF linked
<1>5. Loose(l1) /\ l1.used = t.used + 1
  BY <1>4, LooseSet
<1> HIDE DEF l1
<1>6. Loose(l2) /\ l2.used = t.used + 1
  BY <1>5, LooseSet
<1> HIDE DEF l2
<1> QED BY <1>1, <1>6 DEF t

(* An insertion allocates the nodes from the depth of the tree down.       *)
LEMMA InsertLoose ==
  ASSUME NEW t, Loose(t), NEW net \in Nets
  PROVE  /\ Loose(insert(t, net))
         /\ insert(t, net).used = t.used + net.len - Depth(t, net)
         /\ Depth(t, net) \in 0 .. net.len
<1> DEFINE D == Depth(t, net)
           s == Extend(t, net)
           len == net.len
           Ok(d) == Loose(s[d].t) /\ s[d].t.used = t.used + (IF d <= D THEN 0 ELSE d - D)
           S == {d \in 0 .. len : Ok(d)}
<1>1. net \in NetType /\ len \in Nat /\ D \in 0 .. len /\ t.used \in Nat
  BY NetFacts, DepthIs DEF Loose
<1>2. ASSUME NEW d \in 0 .. len, d <= D PROVE Ok(d)
  <2>1. s[d] = [t |-> t, node |-> Walk(t, net.addr, net.len)[d]]
    BY <1>1, <1>2, ExtendStep
  <2>2. s[d].t = t
    BY <2>1
  <2> QED BY <1>1, <1>2, <2>2
<1> HIDE DEF s, D, len
<1>3. 0 \in S
  BY <1>1, <1>2
<1>4. ASSUME NEW d \in 0 .. len - 1, d \in S PROVE d + 1 \in S
  <2>1. CASE d + 1 <= D
    BY <1>1, <1>2, <2>1
  <2>2. CASE ~(d + 1 <= D)
    <3>1. PICK e \in 0 .. len : e = d + 1 /\ e - 1 = d /\ ~(e <= D)
      BY <1>1, <2>2
    <3>2. s[e] = Hang(s[d], net.addr[e])
      BY <1>1, <3>1, ExtendStep DEF s, D, len
    <3>3. Loose(s[e].t) /\ s[e].t.used = s[d].t.used + 1
      BY <1>4, <3>2, HangLoose
    <3>4. PICK u \in Nat : u = s[d].t.used /\ u = t.used + (IF d <= D THEN 0 ELSE d - D)
      BY <1>4 DEF Loose
    <3>5. u + 1 = t.used + (e - D)
      BY <1>1, <3>1, <3>4
    <3>6. s[e].t.used = t.used + (IF e <= D THEN 0 ELSE e - D)
      BY <3>1, <3>3, <3>4, <3>5
    <3> QED BY <3>1, <3>3, <3>6
  <2> QED BY <2>1, <2>2
<1> HIDE DEF S
<1>5. len \in S
  BY <1>1, <1>3, <1>4, UpTo
<1>6. Loose(s[len].t) /\ s[len].t.used = t.used + len - D
  BY <1>1, <1>5 DEF S
<1> DEFINE u == s[len].t
           v == [u.value EXCEPT ![s[len].node] = net]
<1>7. insert(t, net) = [u EXCEPT !.value = v]
  BY DEF insert, s, len
<1> HIDE DEF u, v
<1>8. Loose(u) /\ u.used = t.used + len - D
  BY <1>6 DEF u
<1>9. Loose([u EXCEPT !.value = v]) /\ [u EXCEPT !.value = v].used = u.used
  BY <1>8, LooseSet
<1> QED BY <1>1, <1>7, <1>8, <1>9 DEF D, len

(* Rebuild inserts the networks one by one.                                *)
LEMMA RebuildStep ==
  ASSUME NEW nets, IsFiniteSet(nets)
  PROVE  LET r == Rebuild(nets)
             C == Cardinality(nets)
         IN
         /\ C \in Nat
         /\ r[0] = [t |-> NewRadixTree, rest |-> nets]
         /\ \A i \in 1 .. C :
              LET net == CHOOSE x \in r[i - 1].rest : TRUE
              IN  r[i] = [t |-> insert(r[i - 1].t, net), rest |-> r[i - 1].rest \ {net}]
<1> DEFINE C == Cardinality(nets)
           base == [t |-> NewRadixTree, rest |-> nets]
           pick(r) == CHOOSE x \in r.rest : TRUE
           next(r) == [t |-> insert(r.t, pick(r)), rest |-> r.rest \ {pick(r)}]
           body(g, d) == IF d = 0 THEN base ELSE next(g[d - 1])
           Eqn(g, k) == g = [d \in 0 .. k |-> body(g, d)]
           S == {k \in 0 .. C : \E g : Eqn(g, k)}
<1>0. C \in Nat
  BY FS_CardinalityType
<1> HIDE DEF next, base, C
<1>1. 0 \in S
  <2>1. Eqn([d \in 0 .. 0 |-> base], 0)
    OBVIOUS
  <2> HIDE DEF Eqn
  <2> QED BY <1>0, <2>1
<1>2. ASSUME NEW k \in 0 .. C - 1, k \in S PROVE k + 1 \in S
  <2>1. PICK g : Eqn(g, k)
    BY <1>2
  <2> DEFINE h == [d \in 0 .. k + 1 |-> IF d <= k THEN g[d] ELSE next(g[k])]
  <2>2. \A d \in 0 .. k + 1 : h[d] = body(h, d)
    BY <1>0, <2>1
  <2>3. Eqn(h, k + 1)
    BY <2>2
  <2> HIDE DEF Eqn, h
  <2> QED BY <1>0, <2>3
<1> HIDE DEF S
<1>3. C \in S
  BY <1>0, <1>1, <1>2, UpTo
<1> DEFINE w == Rebuild(nets)
<1>4. w = [d \in 0 .. C |-> body(w, d)]
  BY <1>3 DEF S, Rebuild, next, base, C
<1> HIDE DEF w
<1>5. \A d \in 0 .. C : w[d] = body(w, d)
  BY <1>4
<1>6. w[0] = base /\ \A d \in 1 .. C : w[d] = next(w[d - 1])
  BY <1>0, <1>5
<1> QED BY <1>0, <1>6 DEF w, next, base, C

(* Every turn takes one network of those left; at the end none is.         *)
LEMMA RebuildRest ==
  ASSUME NEW nets, IsFiniteSet(nets)
  PROVE  LET r == Rebuild(nets)
             C == Cardinality(nets)
         IN
         /\ \A i \in 0 .. C : r[i].rest \subseteq nets
         /\ \A i \in 1 .. C : \E net \in r[i - 1].rest :
              r[i].t = insert(r[i - 1].t, net) /\ r[i].rest = r[i - 1].rest \ {net}
         /\ r[C].rest = {}
<1> DEFINE r == Rebuild(nets)
           C == Cardinality(nets)
           Ok(i) == /\ r[i].rest \subseteq nets /\ IsFiniteSet(r[i].rest)
                    /\ Cardinality(r[i].rest) = C - i
           S == {i \in 0 .. C : Ok(i)}
<1>1. /\ C \in Nat
      /\ r[0] = [t |-> NewRadixTree, rest |-> nets]
      /\ \A i \in 1 .. C :
           LET net == CHOOSE x \in r[i - 1].rest : TRUE
           IN  r[i] = [t |-> insert(r[i - 1].t, net), rest |-> r[i - 1].rest \ {net}]
  BY RebuildStep
<1> HIDE DEF r
<1>2. ASSUME NEW i \in 1 .. C, Ok(i - 1)
      PROVE  /\ Ok(i)
             /\ \E net \in r[i - 1].rest :
                  r[i].t = insert(r[i - 1].t, net) /\ r[i].rest = r[i - 1].rest \ {net}
  <2> DEFINE R == r[i - 1].rest
             net == CHOOSE x \in R : TRUE
  <2>1. r[i] = [t |-> insert(r[i - 1].t, net), rest |-> R \ {net}]
    BY <1>1
  <2>2. IsFiniteSet(R) /\ R \subseteq nets /\ Cardinality(R) = C - (i - 1)
    BY <1>2
  <2> HIDE DEF R
  <2>3. R # {}
    <3>1. C - (i - 1) # 0
      BY <1>1
    <3> QED BY <2>2, <3>1, FS_EmptySet
  <2>4. net \in R
    BY <2>3
  <2> HIDE DEF net
  <2>5. IsFiniteSet(R \ {net}) /\ Cardinality(R \ {net}) = Cardinality(R) - 1
    BY <2>2, <2>4, FS_RemoveElement
  <2>6. C - (i - 1) - 1 = C - i
    BY <1>1
  <2>7. r[i].rest = R \ {net} /\ r[i].t = insert(r[i - 1].t, net)
    BY <2>1
  <2>8. Ok(i)
    BY <2>2, <2>5, <2>6, <2>7
  <2> QED BY <2>4, <2>7, <2>8 DEF R
<1>3. 0 \in S
  BY <1>1
<1>4. ASSUME NEW i \in 0 .. C - 1, i \in S PROVE i + 1 \in S
  <2>1. PICK j \in 1 .. C : j = i + 1 /\ j - 1 = i /\ j \in 0 .. C
    BY <1>1
  <2>2. Ok(j - 1)
    BY <1>4, <2>1
  <2> HIDE DEF Ok
  <2> QED BY <1>2, <2>1, <2>2
<1> HIDE DEF S, C
<1>5. \A i \in 0 .. C : i \in S
  BY <1>1, <1>3, <1>4, UpTo
<1>6. \A i \in 0 .. C : Ok(i)
  BY <1>5 DEF S
<1>7. \A i \in 1 .. C : i - 1 \in 0 .. C /\ Ok(i - 1)
  BY <1>1, <1>6
<1>8. r[C].rest = {}
  <2>1. IsFiniteSet(r[C].rest) /\ Cardinality(r[C].rest) = 0
    BY <1>1, <1>6
  <2> QED BY <2>1, FS_EmptySet
<1>9. \A i \in 0 .. C : r[i].rest \subseteq nets
  BY <1>6
<1> HIDE DEF Ok
<1>10. \A i \in 1 .. C : \E net \in r[i - 1].rest :
         r[i].t = insert(r[i - 1].t, net) /\ r[i].rest = r[i - 1].rest \ {net}
  BY <1>2, <1>7
<1> QED BY <1>8, <1>9, <1>10 DEF r, C

(* The new tree has no free node.                                          *)
LEMMA NewTreeType == NewRadixTree \in TreeType /\ Loose(NewRadixTree)
<1>1. /\ [n \in Nodes |-> nil] \in Pointers /\ nil \in Pointer /\ 1 \in Nodes
      /\ [n \in Nodes |-> NoValue] \in Values
  BY PointerFacts DEF Pointers, Values, root
<1> QED BY <1>1 DEF NewRadixTree, TreeType, Loose

(* The tree only grows: if the last one fits, every one before it does.    *)
LEMMA RebuildFits ==
  ASSUME NEW nets, IsFiniteSet(nets), nets \subseteq Nets,
         Rebuild(nets)[Cardinality(nets)].t.used <= MaxNodes
  PROVE  LET r == Rebuild(nets)
             C == Cardinality(nets)
         IN
         /\ C \in Nat
         /\ \A i \in 0 .. C : r[i].t \in TreeType /\ r[i].t.free = nil /\ r[i].rest \subseteq nets
         /\ \A i \in 1 .. C : \E net \in r[i - 1].rest :
              /\ r[i].t = insert(r[i - 1].t, net) /\ r[i].rest = r[i - 1].rest \ {net}
              /\ r[i - 1].t.used + net.len - Depth(r[i - 1].t, net) <= MaxNodes
<1> DEFINE r == Rebuild(nets)
           C == Cardinality(nets)
           used(i) == r[i].t.used
           L == {i \in 0 .. C : Loose(r[i].t)}
<1>1. /\ C \in Nat /\ r[0].t = NewRadixTree
      /\ \A i \in 0 .. C : r[i].rest \subseteq nets
      /\ \A i \in 1 .. C : \E net \in r[i - 1].rest :
           r[i].t = insert(r[i - 1].t, net) /\ r[i].rest = r[i - 1].rest \ {net}
  <2>1. C \in Nat /\ r[0] = [t |-> NewRadixTree, rest |-> nets]
    BY RebuildStep
  <2>2. /\ \A i \in 0 .. C : r[i].rest \subseteq nets
        /\ \A i \in 1 .. C : \E net \in r[i - 1].rest :
             r[i].t = insert(r[i - 1].t, net) /\ r[i].rest = r[i - 1].rest \ {net}
    BY RebuildRest
  <2> HIDE DEF r, C
  <2> QED BY <2>1, <2>2
<1>2. used(C) <= MaxNodes /\ MaxNodes \in Nat
  BY RadixAssumption
<1> HIDE DEF r, C
<1>3. ASSUME NEW i \in 1 .. C, Loose(r[i - 1].t)
      PROVE  /\ Loose(r[i].t) /\ used(i - 1) <= used(i)
             /\ \A net \in r[i - 1].rest :
                  r[i].t = insert(r[i - 1].t, net) =>
                    used(i) = used(i - 1) + net.len - Depth(r[i - 1].t, net)
  <2>1. PICK net \in r[i - 1].rest : r[i].t = insert(r[i - 1].t, net)
    BY <1>1
  <2>2. \A x \in r[i - 1].rest : x \in Nets
    <3>1. i - 1 \in 0 .. C
      BY <1>1
    <3> QED BY <1>1, <3>1
  <2>3. ASSUME NEW x \in r[i - 1].rest, r[i].t = insert(r[i - 1].t, x)
        PROVE  /\ Loose(r[i].t) /\ used(i) = used(i - 1) + x.len - Depth(r[i - 1].t, x)
               /\ Depth(r[i - 1].t, x) \in 0 .. x.len /\ x.len \in Nat
    BY <1>3, <2>2, <2>3, InsertLoose, NetFacts
  <2>4. used(i - 1) \in Nat
    BY <1>3 DEF Loose
  <2> HIDE DEF used
  <2>5. used(i - 1) <= used(i)
    BY <2>1, <2>3, <2>4
  <2> QED BY <2>1, <2>3, <2>5 DEF used
<1>4. 0 \in L
  BY <1>1, NewTreeType
<1>5. ASSUME NEW i \in 0 .. C - 1, i \in L PROVE i + 1 \in L
  <2>1. PICK j \in 1 .. C : j = i + 1 /\ j - 1 = i /\ j \in 0 .. C
    BY <1>1
  <2> QED BY <1>3, <1>5, <2>1
<1> HIDE DEF L
<1>6. \A i \in 0 .. C : i \in L
  BY <1>1, <1>4, <1>5, UpTo
<1>7. \A i \in 0 .. C : Loose(r[i].t) /\ used(i) \in Nat
  BY <1>6 DEF L, Loose
<1> HIDE DEF used
<1>8. \A i \in 0 .. C : used(i) <= MaxNodes
  <2> DEFINE S == {k \in 0 .. C : used(C - k) <= MaxNodes}
  <2>1. 0 \in S
    BY <1>1, <1>2
  <2>2. ASSUME NEW k \in 0 .. C - 1, k \in S PROVE k + 1 \in S
    <3>1. PICK j \in 1 .. C : j = C - k /\ j - 1 = C - (k + 1) /\ j \in 0 .. C /\ j - 1 \in 0 .. C
      BY <1>1
    <3>2. used(j - 1) <= used(j) /\ used(j) <= MaxNodes
      BY <1>3, <1>7, <2>2, <3>1
    <3>3. used(j - 1) \in Nat /\ used(j) \in Nat
      BY <1>7, <3>1
    <3> QED BY <1>1, <1>2, <3>1, <3>2, <3>3
  <2> HIDE DEF S
  <2>3. \A k \in 0 .. C : k \in S
    BY <1>1, <2>1, <2>2, UpTo
  <2>4. ASSUME NEW i \in 0 .. C PROVE used(i) <= MaxNodes
    <3>1. C - i \in 0 .. C /\ C - (C - i) = i
      BY <1>1
    <3> QED BY <2>3, <3>1 DEF S
  <2> QED BY <2>4
<1>9. ASSUME NEW i \in 1 .. C, NEW net \in r[i - 1].rest, r[i].t = insert(r[i - 1].t, net)
      PROVE  r[i - 1].t.used + net.len - Depth(r[i - 1].t, net) <= MaxNodes /\ net \in Nets
  <2>1. i - 1 \in 0 .. C /\ i \in 0 .. C
    BY <1>1
  <2> QED BY <1>1, <1>3, <1>7, <1>8, <1>9, <2>1 DEF used
<1> DEFINE T == {i \in 0 .. C : r[i].t \in TreeType}
<1>10. 0 \in T
  BY <1>1, NewTreeType
<1>11. ASSUME NEW i \in 0 .. C - 1, i \in T PROVE i + 1 \in T
  <2>1. PICK j \in 1 .. C : j = i + 1 /\ j - 1 = i /\ j \in 0 .. C
    BY <1>1
  <2>2. PICK net \in r[j - 1].rest : r[j].t = insert(r[j - 1].t, net)
    BY <1>1
  <2>3. r[j - 1].t.used + net.len - Depth(r[j - 1].t, net) <= MaxNodes /\ net \in Nets
    BY <1>9, <2>2
  <2>4. r[j].t \in TreeType
    BY <1>11, <2>1, <2>2, <2>3, InsertIs
  <2> QED BY <2>1, <2>4
<1> HIDE DEF T
<1>12. \A i \in 0 .. C : i \in T
  BY <1>1, <1>10, <1>11, UpTo
<1>13. \A i \in 0 .. C : r[i].t \in TreeType /\ r[i].t.free = nil /\ r[i].rest \subseteq nets
  BY <1>1, <1>7, <1>12, LooseSet DEF T
<1>14. \A i \in 1 .. C : \E net \in r[i - 1].rest :
         /\ r[i].t = insert(r[i - 1].t, net) /\ r[i].rest = r[i - 1].rest \ {net}
         /\ r[i - 1].t.used + net.len - Depth(r[i - 1].t, net) <= MaxNodes
  BY <1>1, <1>9
<1> QED BY <1>1, <1>13, <1>14 DEF r, C

-----------------------------------------------------------------------------
(* What the tree is while no freed node has been used again. No two places *)
(* have one node, the parent pointers are those of the way down, the last  *)
(* bit has no children, and the next number is a node nothing points to.   *)
Apart(t) ==
    \A a, b \in Address : \A d, e \in Depths :
      At(t, a, d) = At(t, b, e) /\ At(t, a, d) # nil => d = e /\ Agree(a, b, d)
Parents(t) ==
    /\ t.parent[root] = nil
    /\ \A a \in Address : \A d \in 1 .. Bits :
         At(t, a, d) # nil => t.parent[At(t, a, d)] = At(t, a, d - 1)
Leaves(t) ==
    \A a \in Address : At(t, a, Bits) # nil =>
      t.left[At(t, a, Bits)] = nil /\ t.right[At(t, a, Bits)] = nil
Fresh(t) ==
    /\ \A a \in Address : \A d \in Depths : At(t, a, d) <= t.used
    /\ \A n \in Nodes : n > t.used => t.left[n] = nil /\ t.right[n] = nil
Struct(t) == Apart(t) /\ Parents(t) /\ Leaves(t) /\ Fresh(t)

(* A node per bit of the networks, their values at their ends, no other.   *)
Needed(nets, a, d) == d = 0 \/ \E net \in nets : d <= net.len /\ Agree(net.addr, a, d)
Match(t, nets) ==
    /\ \A a \in Address : \A d \in Depths : At(t, a, d) # nil <=> Needed(nets, a, d)
    /\ \A net \in nets : t.value[At(t, net.addr, net.len)] = net
    /\ \A a \in Address : \A d \in Depths :
         At(t, a, d) # nil /\ t.value[At(t, a, d)] # NoValue =>
           \E net \in nets : net.len = d /\ Agree(net.addr, a, d)

(* The inductive invariant: the names of Record are finitely many, and     *)
(* until a freed node is used again the tree is the trie of Record.        *)
IInv ==
    /\ TypeOK
    /\ IsFiniteSet(Record)
    /\ OneName /\ ~reused => Struct(tree) /\ Match(tree, Record)

-----------------------------------------------------------------------------
(* Addresses.                                                              *)

(* Addresses agree up to a bit if they do before it and in it.             *)
LEMMA AgreeFacts ==
  ASSUME NEW a, NEW b, NEW d \in Nat
  PROVE  /\ Agree(a, a, d) /\ Agree(a, b, 0)
         /\ Agree(a, b, d) => Agree(b, a, d)
         /\ \A e \in Nat : e <= d /\ Agree(a, b, d) => Agree(a, b, e)
         /\ Agree(a, b, d + 1) <=> Agree(a, b, d) /\ a[d + 1] = b[d + 1]
<1>1. Agree(a, b, d + 1) <=> Agree(a, b, d) /\ a[d + 1] = b[d + 1]
  <2>1. 1 .. d + 1 = (1 .. d) \cup {d + 1}
    OBVIOUS
  <2> QED BY <2>1 DEF Agree
<1>2. /\ Agree(a, a, d) /\ Agree(a, b, 0)
      /\ Agree(a, b, d) => Agree(b, a, d)
      /\ \A e \in Nat : e <= d /\ Agree(a, b, d) => Agree(a, b, e)
  BY DEF Agree
<1> QED BY <1>1, <1>2

(* Agreement is transitive.                                                *)
LEMMA AgreeTrans ==
  ASSUME NEW a, NEW b, NEW c, NEW d, Agree(a, b, d), Agree(b, c, d)
  PROVE  Agree(a, c, d)
BY DEF Agree

(* Two networks of one length at one place have two names of one network.  *)
LEMMA OneNameIs ==
  ASSUME OneName, NEW m \in Nets, NEW n \in Nets, m.len = n.len, Agree(m.addr, n.addr, m.len)
  PROVE  m = n
BY DEF OneName, Covers, Agree

(* The address that leaves another after its first d bits.                 *)
LEMMA Turned ==
  ASSUME NEW a \in Address, NEW d \in 0 .. Bits - 1, NEW x \in {0, 1}
  PROVE  LET b == [a EXCEPT ![d + 1] = x] IN
         b \in Address /\ b[d + 1] = x /\ Agree(b, a, d)
<1>1. d + 1 \in 1 .. Bits
  BY RadixAssumption
<1>2. [a EXCEPT ![d + 1] = x] \in Address /\ [a EXCEPT ![d + 1] = x][d + 1] = x
  BY <1>1 DEF Address
<1>3. \A i \in 1 .. d : [a EXCEPT ![d + 1] = x][i] = a[i]
  BY RadixAssumption DEF Address
<1> QED BY <1>2, <1>3 DEF Agree

-----------------------------------------------------------------------------
(* Changing one child.                                                     *)

(* The node d bits down the address a becomes n, nil or a node without     *)
(* children; of the nodes that are still reached, no other child changes.  *)
Below(b, e, a, d) == e >= d /\ Agree(b, a, d)
Graft(t, u, a, d, n) ==
    LET p == At(t, a, d - 1) IN
    /\ p # nil
    /\ \A b \in Address : \A e \in Depths : \A bit \in {0, 1} :
         LET m == At(t, b, e) IN
         m # nil /\ ~Below(b, e, a, d) =>
           Child(u, m, bit) = IF m = p /\ bit = a[d] THEN n ELSE Child(t, m, bit)
    /\ n # nil => \A bit \in {0, 1} : Child(u, n, bit) = nil

(* Then every way down is as it was, but through that place.               *)
LEMMA GraftAt ==
  ASSUME NEW t, NEW u, NEW a \in Address, NEW d \in 1 .. Bits, NEW n,
         Apart(t), Graft(t, u, a, d, n)
  PROVE  \A b \in Address : \A e \in Depths :
           At(u, b, e) = IF Below(b, e, a, d) THEN (IF e = d THEN n ELSE nil) ELSE At(t, b, e)
<1> SUFFICES ASSUME NEW b \in Address
             PROVE  \A e \in Depths :
               At(u, b, e) = IF Below(b, e, a, d) THEN (IF e = d THEN n ELSE nil) ELSE At(t, b, e)
  OBVIOUS
<1> DEFINE p == At(t, a, d - 1)
           new(e) == IF Below(b, e, a, d) THEN (IF e = d THEN n ELSE nil) ELSE At(t, b, e)
           S == {e \in Depths : At(u, b, e) = new(e)}
<1>0. Bits \in Nat /\ d \in Nat /\ d >= 1 /\ d - 1 \in Depths /\ d - 1 \in Nat
  BY RadixAssumption DEF Depths
<1>1. 0 \in S
  <2>1. ~Below(b, 0, a, d)
    BY <1>0 DEF Below
  <2> QED BY <1>0, <2>1, AtStep DEF Depths
<1>2. ASSUME NEW k \in 0 .. Bits - 1, k \in S PROVE k + 1 \in S
  <2> DEFINE m == At(t, b, k)
  <2>1. PICK e \in 1 .. Bits : e = k + 1 /\ e - 1 = k /\ e \in Depths /\ k \in Depths /\ k \in Nat
    BY <1>0 DEF Depths
  <2>2. /\ At(t, b, e) = IF m = nil THEN nil ELSE Child(t, m, b[e])
        /\ At(u, b, e) = IF At(u, b, k) = nil THEN nil ELSE Child(u, At(u, b, k), b[e])
    BY <2>1, AtStep
  <2>3. At(u, b, k) = new(k) /\ b[e] \in {0, 1}
    BY <1>2, <2>1 DEF Address
  <2>4. CASE Below(b, k, a, d)
    <3>1. Below(b, e, a, d) /\ e # d
      BY <1>0, <2>1, <2>4 DEF Below
    <3>2. At(u, b, e) = nil
      <4>1. At(u, b, k) = n \/ At(u, b, k) = nil
        BY <2>3, <2>4
      <4>2. n # nil => Child(u, n, b[e]) = nil
        BY <2>3 DEF Graft
      <4> QED BY <2>2, <4>1, <4>2
    <3> QED BY <2>1, <3>1, <3>2
  <2>5. CASE ~Below(b, k, a, d)
    <3>1. At(u, b, k) = m
      BY <2>3, <2>5
    <3>2. Below(b, e, a, d) <=> k = d - 1 /\ Agree(b, a, d - 1) /\ b[e] = a[d]
      <4>1. Agree(b, a, d - 1 + 1) <=> Agree(b, a, d - 1) /\ b[d - 1 + 1] = a[d - 1 + 1]
        BY <1>0, AgreeFacts
      <4>2. d - 1 + 1 = d
        BY <1>0
      <4>3. Below(b, e, a, d) => e = d
        BY <1>0, <2>1, <2>5 DEF Below
      <4> QED BY <1>0, <2>1, <4>1, <4>2, <4>3 DEF Below
    <3>3. CASE m = nil
      <4>1. ~Below(b, e, a, d)
        <5>1. Agree(b, a, d - 1) /\ k = d - 1 => m = p
          BY <1>0, AtSame
        <5>2. p # nil
          BY DEF Graft
        <5> QED BY <3>2, <3>3, <5>1, <5>2
      <4> QED BY <2>1, <2>2, <3>1, <3>3, <4>1
    <3>4. CASE m # nil
      <4>1. Child(u, m, b[e]) = IF m = p /\ b[e] = a[d] THEN n ELSE Child(t, m, b[e])
        BY <2>1, <2>3, <2>5, <3>4 DEF Graft
      <4>2. At(u, b, e) = Child(u, m, b[e]) /\ At(t, b, e) = Child(t, m, b[e])
        BY <2>2, <3>1, <3>4
      <4>3. m = p <=> k = d - 1 /\ Agree(b, a, d - 1)
        <5>1. m = p => k = d - 1 /\ Agree(b, a, k)
          BY <1>0, <2>1, <3>4 DEF Apart
        <5>2. Agree(b, a, d - 1) /\ k = d - 1 => m = p
          BY <1>0, AtSame
        <5> QED BY <5>1, <5>2
      <4>4. Below(b, e, a, d) => e = d
        BY <1>0, <2>1, <3>2
      <4> QED BY <2>1, <3>2, <4>1, <4>2, <4>3, <4>4
    <3> QED BY <3>3, <3>4
  <2> QED BY <2>4, <2>5
<1> HIDE DEF S
<1>3. \A e \in 0 .. Bits : e \in S
  BY <1>0, <1>1, <1>2, UpTo
<1> QED BY <1>3 DEF S, Depths

(* A graft keeps the structure if what it hangs is fresh.                  *)
LEMMA GraftStruct ==
  ASSUME NEW t \in TreeType, NEW u \in TreeType, NEW a \in Address, NEW d \in 1 .. Bits,
         NEW n \in Pointer, Struct(t), Graft(t, u, a, d, n),
         n # nil => /\ \A b \in Address : \A e \in Depths : At(t, b, e) # n
                    /\ u.parent[n] = At(t, a, d - 1) /\ n <= u.used,
         t.used <= u.used,
         \A b \in Address : \A e \in Depths :
           At(t, b, e) # nil => u.parent[At(t, b, e)] = t.parent[At(t, b, e)],
         \A m \in Nodes : m > u.used => u.left[m] = nil /\ u.right[m] = nil
  PROVE  Struct(u)
<1> DEFINE p == At(t, a, d - 1)
<1>0. Bits \in Nat /\ d \in Nat /\ d >= 1 /\ d - 1 \in Depths /\ d \in Depths
  BY RadixAssumption DEF Depths
<1>1. \A b \in Address : \A e \in Depths :
        At(u, b, e) = IF Below(b, e, a, d) THEN (IF e = d THEN n ELSE nil) ELSE At(t, b, e)
  BY GraftAt DEF Struct
<1>2. Apart(u)
  <2> SUFFICES ASSUME NEW b \in Address, NEW c \in Address, NEW e \in Depths, NEW f \in Depths,
                      At(u, b, e) = At(u, c, f), At(u, b, e) # nil
               PROVE  e = f /\ Agree(b, c, e)
    BY DEF Apart
  <2>1. CASE Below(b, e, a, d) /\ Below(c, f, a, d)
    <3>1. e = d /\ f = d
      BY <1>1, <2>1
    <3>2. Agree(b, a, d) /\ Agree(a, c, d)
      BY <1>0, <2>1, AgreeFacts DEF Below
    <3> QED BY <3>1, <3>2, AgreeTrans
  <2>2. CASE Below(b, e, a, d) /\ ~Below(c, f, a, d)
    BY <1>1, <2>2
  <2>3. CASE ~Below(b, e, a, d) /\ Below(c, f, a, d)
    BY <1>1, <2>3
  <2>4. CASE ~Below(b, e, a, d) /\ ~Below(c, f, a, d)
    BY <1>1, <2>4 DEF Struct, Apart
  <2> QED BY <2>1, <2>2, <2>3, <2>4
<1>3. Parents(u)
  <2>1. u.parent[root] = nil
    <3>1. a \in Address /\ 0 \in Depths /\ At(t, a, 0) = root /\ root # nil
      BY <1>0, AtStep DEF Depths, root, nil
    <3> QED BY <3>1 DEF Struct, Parents
  <2>2. ASSUME NEW b \in Address, NEW e \in 1 .. Bits, At(u, b, e) # nil
        PROVE  u.parent[At(u, b, e)] = At(u, b, e - 1)
    <3>0. e \in Depths /\ e - 1 \in Depths /\ e - 1 \in Nat /\ e \in Nat /\ e - 1 + 1 = e
      BY <1>0 DEF Depths
    <3>1. CASE Below(b, e, a, d)
      <4>1. e = d /\ At(u, b, e) = n
        BY <1>1, <2>2, <3>0, <3>1
      <4>2. ~Below(b, e - 1, a, d)
        BY <1>0, <4>1 DEF Below
      <4>3. Agree(b, a, d - 1)
        BY <1>0, <3>0, <3>1, <4>1, AgreeFacts DEF Below
      <4>4. At(t, b, d - 1) = p
        BY <1>0, <4>3, AtSame
      <4> QED BY <1>1, <2>2, <3>0, <4>1, <4>2, <4>4
    <3>2. CASE ~Below(b, e, a, d)
      <4>1. ~Below(b, e - 1, a, d)
        BY <1>0, <3>0, <3>2 DEF Below
      <4>2. At(u, b, e) = At(t, b, e) /\ At(u, b, e - 1) = At(t, b, e - 1)
        BY <1>1, <3>0, <3>2, <4>1
      <4> QED BY <2>2, <3>0, <4>2 DEF Struct, Parents
    <3> QED BY <3>1, <3>2
  <2> QED BY <2>1, <2>2 DEF Parents
<1>4. Leaves(u)
  <2> SUFFICES ASSUME NEW b \in Address, At(u, b, Bits) # nil
               PROVE  u.left[At(u, b, Bits)] = nil /\ u.right[At(u, b, Bits)] = nil
    BY DEF Leaves
  <2> DEFINE m == At(u, b, Bits)
  <2>0. Bits \in Depths
    BY <1>0 DEF Depths
  <2>1. Child(u, m, 0) = nil /\ Child(u, m, 1) = nil
    <3>1. CASE Below(b, Bits, a, d)
      <4>1. m = n /\ n # nil
        BY <1>1, <2>0, <3>1
      <4> QED BY <4>1 DEF Graft
    <3>2. CASE ~Below(b, Bits, a, d)
      <4>1. m = At(t, b, Bits)
        BY <1>1, <2>0, <3>2
      <4>2. m # p
        <5>1. Bits # d - 1
          BY <1>0
        <5> QED BY <1>0, <2>0, <4>1, <5>1 DEF Struct, Apart
      <4>3. Child(t, m, 0) = nil /\ Child(t, m, 1) = nil
        BY <4>1 DEF Struct, Leaves, Child
      <4> QED BY <2>0, <3>2, <4>1, <4>2, <4>3 DEF Graft
    <3> QED BY <3>1, <3>2
  <2> QED BY <2>1 DEF Child
<1>5. Fresh(u)
  <2>1. ASSUME NEW b \in Address, NEW e \in Depths PROVE At(u, b, e) <= u.used
    <3>1. /\ u.used \in Nat /\ t.used \in Nat /\ nil <= u.used
          /\ At(t, b, e) <= t.used /\ At(t, b, e) \in Pointer
      BY AtType DEF Struct, Fresh, TreeType, Nodes, nil
    <3>2. At(t, b, e) \in Nat
      BY <3>1, RadixAssumption DEF Pointer
    <3>3. At(t, b, e) <= u.used
      BY <3>1, <3>2
    <3>4. n # nil => n <= u.used
      OBVIOUS
    <3> QED BY <1>1, <3>1, <3>3, <3>4
  <2> QED BY <2>1 DEF Fresh
<1> QED BY <1>2, <1>3, <1>4, <1>5 DEF Struct

-----------------------------------------------------------------------------
(* Insertion.                                                              *)

(* While no node is free, Hang grafts a fresh one where there was none.    *)
LEMMA HangStruct ==
  ASSUME NEW s, s.t \in TreeType, Struct(s.t), s.t.free = nil, s.t.used < MaxNodes,
         NEW a \in Address, NEW d \in 1 .. Bits,
         s.node = At(s.t, a, d - 1), s.node # nil, At(s.t, a, d) = nil
  PROVE  LET t == s.t
             r == Hang(s, a[d])
             u == r.t
         IN
         /\ u \in TreeType /\ u.free = nil /\ Struct(u)
         /\ r.node # nil /\ u.value[r.node] = NoValue
         /\ \A b \in Address : \A e \in Depths :
              /\ At(u, b, e) = IF Below(b, e, a, d) THEN (IF e = d THEN r.node ELSE nil)
                               ELSE At(t, b, e)
              /\ At(t, b, e) # nil => /\ ~Below(b, e, a, d)
                                      /\ u.value[At(t, b, e)] = t.value[At(t, b, e)]
<1> DEFINE t == s.t
           p == s.node
           n == newNode(t).node
           r == Hang(s, a[d])
           u == r.t
<1>0. /\ Bits \in Nat /\ d \in Nat /\ d >= 1 /\ d - 1 \in Depths /\ d \in Depths
      /\ a[d] \in {0, 1} /\ MaxNodes \in Nat /\ 0 \in Depths
  BY RadixAssumption DEF Depths, Address
<1>1. t \in TreeType /\ Struct(t) /\ t.used \in Nat /\ t.free = nil
  BY DEF TreeType, Nodes
<1>2. p \in Nodes /\ p = At(t, a, d - 1) /\ p <= t.used
  <2>1. p \in Pointer
    BY <1>0, AtType
  <2> QED BY <1>0, <2>1, PointerFacts DEF Struct, Fresh
<1>3. n = t.used + 1 /\ n \in Nodes /\ newNode(t).t.free = nil /\ newNode(t).t.used = n
  BY <1>1, NewNodeIs
<1>4. /\ u \in TreeType /\ r.node = n /\ u.used = n /\ u.free = nil
      /\ u.parent = [t.parent EXCEPT ![n] = p]
      /\ u.value = [t.value EXCEPT ![n] = NoValue]
      /\ u.left = IF a[d] = 1 THEN t.left ELSE [t.left EXCEPT ![p] = n]
      /\ u.right = IF a[d] = 1 THEN [t.right EXCEPT ![p] = n] ELSE t.right
  <2>1. LET m == newNode(t) IN
        /\ u \in TreeType /\ r.node = m.node
        /\ u.used = m.t.used /\ u.free = m.t.free
        /\ u.parent = [t.parent EXCEPT ![m.node] = p]
        /\ u.value = [t.value EXCEPT ![m.node] = NoValue]
        /\ u.left = IF a[d] = 1 THEN t.left ELSE [t.left EXCEPT ![p] = m.node]
        /\ u.right = IF a[d] = 1 THEN [t.right EXCEPT ![p] = m.node] ELSE t.right
    BY <1>1, <1>2, HangIs
  <2> QED BY <1>3, <2>1
<1>5. At(t, a, d) = nil
  OBVIOUS
<1> HIDE DEF t, p, n, u, r
<1>6. /\ \A m \in Nodes : /\ u.left[m] = IF m = p /\ a[d] # 1 THEN n ELSE t.left[m]
                          /\ u.right[m] = IF m = p /\ a[d] = 1 THEN n ELSE t.right[m]
                          /\ u.parent[m] = IF m = n THEN p ELSE t.parent[m]
                          /\ u.value[m] = IF m = n THEN NoValue ELSE t.value[m]
  <2>1. /\ t.left \in Pointers /\ t.right \in Pointers /\ t.parent \in Pointers
        /\ t.value \in Values
    BY <1>1 DEF TreeType
  <2>2. \A m \in Nodes : /\ [t.left EXCEPT ![p] = n][m] = IF m = p THEN n ELSE t.left[m]
                         /\ [t.right EXCEPT ![p] = n][m] = IF m = p THEN n ELSE t.right[m]
                         /\ [t.parent EXCEPT ![n] = p][m] = IF m = n THEN p ELSE t.parent[m]
    BY <2>1 DEF Pointers
  <2>3. \A m \in Nodes : [t.value EXCEPT ![n] = NoValue][m] = IF m = n THEN NoValue ELSE t.value[m]
    BY <2>1 DEF Values
  <2> QED BY <1>4, <2>2, <2>3
<1>7. \A b \in Address : \A e \in Depths :
        At(t, b, e) # nil => At(t, b, e) \in Nodes /\ At(t, b, e) # n
  <2>1. ASSUME NEW b \in Address, NEW e \in Depths, At(t, b, e) # nil
        PROVE  At(t, b, e) \in Nodes /\ At(t, b, e) # n
    <3>1. At(t, b, e) \in Nodes
      BY <1>1, <2>1, AtType, PointerFacts
    <3>2. At(t, b, e) <= t.used
      BY <1>1 DEF Struct, Fresh
    <3> QED BY <1>1, <1>3, <3>1, <3>2
  <2> QED BY <2>1
<1>8. p # n /\ t.left[n] = nil /\ t.right[n] = nil
  BY <1>1, <1>2, <1>3 DEF Struct, Fresh
<1>9. \A m \in Nodes : \A bit \in {0, 1} :
        Child(u, m, bit) = IF m = p /\ bit = a[d] THEN n ELSE Child(t, m, bit)
  BY <1>0, <1>6 DEF Child
<1>10. Graft(t, u, a, d, n)
  <2>1. p # nil
    BY <1>2, PointerFacts
  <2>2. \A bit \in {0, 1} : Child(u, n, bit) = nil
    BY <1>3, <1>8, <1>9 DEF Child
  <2> QED BY <1>2, <1>7, <1>9, <2>1, <2>2 DEF Graft
<1>11. n \in Pointer /\ n # nil
  BY <1>3, PointerFacts
<1>12. Struct(u)
  <2>1. u.parent[n] = At(t, a, d - 1) /\ n <= u.used /\ t.used <= u.used
    BY <1>1, <1>2, <1>3, <1>4, <1>6
  <2>2. \A b \in Address : \A e \in Depths :
          At(t, b, e) # nil => u.parent[At(t, b, e)] = t.parent[At(t, b, e)]
    BY <1>6, <1>7
  <2>3. \A m \in Nodes : m > u.used => u.left[m] = nil /\ u.right[m] = nil
    <3>1. ASSUME NEW m \in Nodes, m > u.used PROVE u.left[m] = nil /\ u.right[m] = nil
      <4>1. m > t.used /\ m # p
        BY <1>1, <1>2, <1>3, <1>4, <3>1 DEF Nodes
      <4> QED BY <1>1, <1>6, <4>1 DEF Struct, Fresh
    <3> QED BY <3>1
  <2>4. u \in TreeType
    BY <1>4
  <2>5. n # nil => /\ \A b \in Address : \A e \in Depths : At(t, b, e) # n
                   /\ u.parent[n] = At(t, a, d - 1) /\ n <= u.used
    BY <1>7, <1>11, <2>1
  <2> QED BY <1>1, <1>10, <1>11, <2>1, <2>2, <2>3, <2>4, <2>5, GraftStruct
<1>13. \A b \in Address : \A e \in Depths :
         At(u, b, e) = IF Below(b, e, a, d) THEN (IF e = d THEN n ELSE nil) ELSE At(t, b, e)
  BY <1>1, <1>10, GraftAt DEF Struct
<1>14. \A b \in Address : \A e \in Depths : Below(b, e, a, d) => At(t, b, e) = nil
  <2>1. ASSUME NEW b \in Address, NEW e \in Depths, Below(b, e, a, d) PROVE At(t, b, e) = nil
    <3>1. At(t, b, d) = nil
      <4>1. d \in 0 .. d /\ Agree(b, a, d)
        BY <1>0, <2>1 DEF Below
      <4> QED BY <1>0, <1>5, <4>1, AtSame
    <3> QED BY <1>0, <2>1, <3>1, NilBelow DEF Below
  <2> QED BY <2>1
<1>15. \A b \in Address : \A e \in Depths :
         At(t, b, e) # nil => u.value[At(t, b, e)] = t.value[At(t, b, e)]
  BY <1>6, <1>7
<1>16. u.value[n] = NoValue
  BY <1>3, <1>6
<1> QED BY <1>4, <1>11, <1>12, <1>13, <1>14, <1>15, <1>16 DEF t, p, n, u, r

(* Of the nodes of u, those of t are as they were, and those that are new  *)
(* are the first d of the address a and stand for no network.              *)
Grown(t, u, a, d) ==
    \A b \in Address : \A e \in Depths :
      IF At(t, b, e) # nil
      THEN At(u, b, e) = At(t, b, e) /\ u.value[At(t, b, e)] = t.value[At(t, b, e)]
      ELSE /\ At(u, b, e) # nil <=> e <= d /\ Agree(b, a, e)
           /\ At(u, b, e) # nil => u.value[At(u, b, e)] = NoValue

(* Insertion adds the missing nodes of its path and no other.              *)
LEMMA ExtendStruct ==
  ASSUME NEW t \in TreeType, NEW net \in Nets, Struct(t),
         t.used + net.len - Depth(t, net) <= MaxNodes,
         t.free = nil \/ Depth(t, net) = net.len
  PROVE  LET s == Extend(t, net)[net.len] IN
         /\ s.node = At(s.t, net.addr, net.len) /\ s.node # nil
         /\ Struct(s.t) /\ Grown(t, s.t, net.addr, net.len)
         /\ t.free = nil => s.t.free = nil
<1> DEFINE D == Depth(t, net)
           s == Extend(t, net)
           len == net.len
           a == net.addr
           Ok(d) == /\ s[d].node = At(s[d].t, a, d) /\ s[d].node # nil
                    /\ Struct(s[d].t) /\ Grown(t, s[d].t, a, d)
                    /\ t.free = nil => s[d].t.free = nil
           S == {d \in 0 .. len : Ok(d)}
<1>1. /\ net \in NetType /\ len \in Nat /\ len <= Bits /\ Bits \in Nat /\ a \in Address
      /\ D \in 0 .. len /\ t.used \in Nat
  BY NetFacts, DepthIs DEF TreeType, Nodes
<1>2. \A d \in 0 .. len : At(t, a, d) # nil <=> d <= D
  BY <1>1, DepthIs
<1>3. ASSUME NEW d \in 0 .. len, d <= D PROVE Ok(d)
  <2>1. s[d] = [t |-> t, node |-> Walk(t, net.addr, net.len)[d]]
    BY <1>1, <1>3, ExtendStep
  <2>2. Walk(t, net.addr, net.len)[d] = At(t, a, d) /\ At(t, a, d) # nil
    BY <1>1, <1>2, <1>3, WalkIsAt
  <2>3. s[d].t = t /\ s[d].node = At(t, a, d)
    BY <2>1, <2>2
  <2>4. Grown(t, t, a, d)
    <3>1. ASSUME NEW b \in Address, NEW e \in Depths, At(t, b, e) = nil, e <= d, Agree(b, a, e)
          PROVE  FALSE
      <4>1. e \in 0 .. e /\ e \in 0 .. len /\ e <= D
        BY <1>1, <1>3, <3>1 DEF Depths
      <4>2. At(t, b, e) = At(t, a, e)
        BY <3>1, <4>1, AtSame
      <4> QED BY <1>2, <3>1, <4>1, <4>2
    <3> QED BY <3>1 DEF Grown
  <2> QED BY <2>2, <2>3, <2>4
<1>4. \A d \in 0 .. len : /\ s[d].t \in TreeType /\ s[d].node \in Nodes
                          /\ s[d].t.used <= t.used + (IF d <= D THEN 0 ELSE d - D)
  BY ExtendType
<1>5. \A d \in 0 .. len : ~(d <= D) => s[d] = Hang(s[d - 1], a[d])
  BY <1>1, ExtendStep
<1>6. t.used + len - D <= MaxNodes /\ (t.free = nil \/ D = len) /\ MaxNodes \in Nat
  BY RadixAssumption
<1> HIDE DEF s, D, len, a
<1>7. 0 \in S
  BY <1>1, <1>3
<1>8. ASSUME NEW k \in 0 .. len - 1, k \in S PROVE k + 1 \in S
  <2>1. CASE k + 1 <= D
    BY <1>1, <1>3, <2>1
  <2>2. CASE ~(k + 1 <= D)
    <3> DEFINE u == s[k].t
    <3>1. PICK d \in 1 .. Bits : /\ d = k + 1 /\ d - 1 = k /\ ~(d <= D) /\ d \in 0 .. len /\ k \in 0 .. len
                                 /\ d \in Depths /\ k \in Nat /\ d \in Nat
      BY <1>1, <2>2 DEF Depths
    <3> DEFINE v == s[d].t
    <3>2. s[d] = Hang(s[k], a[d])
      BY <1>5, <3>1
    <3>3. /\ s[k].node = At(u, a, k) /\ s[k].node # nil
          /\ Struct(u) /\ Grown(t, u, a, k) /\ u.free = nil /\ t.free = nil
      <4>1. t.free = nil
        BY <1>1, <1>6, <3>1
      <4> QED BY <1>8, <4>1
    <3>4. u \in TreeType /\ u.used < MaxNodes
      <4>1. u \in TreeType /\ u.used <= t.used + (IF k <= D THEN 0 ELSE k - D)
        BY <1>4, <3>1
      <4>2. u.used \in Nat
        BY <4>1 DEF TreeType, Nodes
      <4> HIDE DEF u
      <4> QED BY <1>1, <1>6, <3>1, <4>1, <4>2
    <3>5. At(u, a, d) = nil
      <4>1. At(t, a, d) = nil
        BY <1>2, <3>1
      <4> QED BY <1>1, <3>1, <3>3, <4>1 DEF Grown
    <3>6. /\ v.free = nil /\ Struct(v)
          /\ s[d].node # nil /\ v.value[s[d].node] = NoValue
          /\ \A b \in Address : \A e \in Depths :
               /\ At(v, b, e) = IF Below(b, e, a, d) THEN (IF e = d THEN s[d].node ELSE nil)
                                ELSE At(u, b, e)
               /\ At(u, b, e) # nil => /\ ~Below(b, e, a, d)
                                       /\ v.value[At(u, b, e)] = u.value[At(u, b, e)]
      BY <1>1, <3>1, <3>2, <3>3, <3>4, <3>5, HangStruct
    <3>7. s[d].node = At(v, a, d)
      <4>1. Below(a, d, a, d)
        BY <3>1, AgreeFacts DEF Below
      <4> QED BY <1>1, <3>1, <3>6, <4>1
    <3>8. Grown(t, v, a, d)
      <4> SUFFICES ASSUME NEW b \in Address, NEW e \in Depths
                   PROVE  IF At(t, b, e) # nil
                          THEN At(v, b, e) = At(t, b, e) /\ v.value[At(t, b, e)] = t.value[At(t, b, e)]
                          ELSE /\ At(v, b, e) # nil <=> e <= d /\ Agree(b, a, e)
                               /\ At(v, b, e) # nil => v.value[At(v, b, e)] = NoValue
        BY DEF Grown
      <4>1. e \in Nat
        BY <1>1 DEF Depths
      <4>2. IF At(t, b, e) # nil
            THEN At(u, b, e) = At(t, b, e) /\ u.value[At(t, b, e)] = t.value[At(t, b, e)]
            ELSE /\ At(u, b, e) # nil <=> e <= k /\ Agree(b, a, e)
                 /\ At(u, b, e) # nil => u.value[At(u, b, e)] = NoValue
        BY <3>3 DEF Grown
      <4> HIDE DEF u, v
      <4>3. CASE At(t, b, e) # nil
        BY <3>6, <4>2, <4>3
      <4>4. CASE At(t, b, e) = nil /\ Below(b, e, a, d)
        <5>1. At(v, b, e) = IF e = d THEN s[d].node ELSE nil
          BY <3>6, <4>4
        <5>2. e >= d /\ Agree(b, a, d)
          BY <4>4 DEF Below
        <5>3. At(v, b, e) # nil <=> e <= d /\ Agree(b, a, e)
          BY <3>1, <3>6, <4>1, <5>1, <5>2
        <5> QED BY <3>6, <4>4, <5>1, <5>3
      <4>5. CASE At(t, b, e) = nil /\ ~Below(b, e, a, d)
        <5>1. At(v, b, e) = At(u, b, e)
          BY <3>6, <4>5
        <5>2. e <= k /\ Agree(b, a, e) <=> e <= d /\ Agree(b, a, e)
          BY <3>1, <4>1, <4>5 DEF Below
        <5> QED BY <3>6, <4>2, <4>5, <5>1, <5>2
      <4> QED BY <4>3, <4>4, <4>5
    <3> QED BY <3>1, <3>6, <3>7, <3>8
  <2> QED BY <2>1, <2>2
<1> HIDE DEF S
<1>9. \A d \in 0 .. len : d \in S
  BY <1>1, <1>7, <1>8, UpTo
<1>10. len \in 0 .. len
  BY <1>1
<1> QED BY <1>9, <1>10 DEF S, s, D, len, a

(* The same pointers have the same structure.                              *)
LEMMA StructSame ==
  ASSUME NEW t, NEW u, Struct(t),
         u.left = t.left, u.right = t.right, u.parent = t.parent, u.used = t.used
  PROVE  Struct(u)
<1>1. \A a \in Address : \A d \in Depths : At(u, a, d) = At(t, a, d)
  BY AtTree
<1>2. \A d \in 1 .. Bits : d \in Depths /\ d - 1 \in Depths
  BY RadixAssumption DEF Depths
<1>3. Bits \in Depths
  BY RadixAssumption DEF Depths
<1>4. Apart(u)
  BY <1>1 DEF Struct, Apart
<1>5. Parents(u)
  BY <1>1, <1>2 DEF Struct, Parents
<1>6. Leaves(u)
  BY <1>1, <1>3 DEF Struct, Leaves
<1>7. Fresh(u)
  BY <1>1 DEF Struct, Fresh
<1> QED BY <1>4, <1>5, <1>6, <1>7 DEF Struct

(* After an insertion the tree is the trie of one network more.            *)
LEMMA InsertMatch ==
  ASSUME OneName, NEW t \in TreeType, NEW net \in Nets, Struct(t),
         t.used + net.len - Depth(t, net) <= MaxNodes,
         t.free = nil \/ Depth(t, net) = net.len,
         NEW nets \in SUBSET Nets, Match(t, nets)
  PROVE  /\ Struct(insert(t, net)) /\ Match(insert(t, net), nets \cup {net})
         /\ t.free = nil => insert(t, net).free = nil
<1> DEFINE s == Extend(t, net)[net.len]
           u == insert(t, net)
           a == net.addr
           len == net.len
<1>0. /\ a \in Address /\ len \in Depths /\ net # NoValue
      /\ \A m \in nets : m \in Nets /\ m.addr \in Address /\ m.len \in Depths /\ m.len \in Nat
  BY NetFacts
<1>1. /\ u \in TreeType
      /\ u.left = s.t.left /\ u.right = s.t.right /\ u.parent = s.t.parent
      /\ u.free = s.t.free /\ u.used = s.t.used
      /\ \A n \in Nodes : u.value[n] = IF n = s.node THEN net ELSE s.t.value[n]
  BY InsertIs
<1>2. /\ s.node = At(s.t, a, len) /\ s.node # nil
      /\ Struct(s.t) /\ Grown(t, s.t, a, len)
      /\ t.free = nil => s.t.free = nil
  BY ExtendStruct
<1> HIDE DEF s, u, a, len
<1>3. Struct(u)
  BY <1>1, <1>2, StructSame
<1>4. \A b \in Address : \A e \in Depths : At(u, b, e) = At(s.t, b, e)
  BY <1>1, AtTree
<1>5. ASSUME NEW b \in Address, NEW e \in Depths, At(u, b, e) # nil
      PROVE  u.value[At(u, b, e)] = IF e = len /\ Agree(a, b, e) THEN net ELSE s.t.value[At(u, b, e)]
  <2>1. At(u, b, e) \in Nodes
    BY <1>1, <1>5, AtType, PointerFacts
  <2>2. s.node = At(u, b, e) <=> e = len /\ Agree(a, b, e)
    <3>1. s.node = At(u, a, len)
      BY <1>0, <1>2, <1>4
    <3>2. s.node = At(u, b, e) => e = len /\ Agree(a, b, len)
      <4>1. Apart(u)
        BY <1>3 DEF Struct
      <4>2. At(u, a, len) = At(u, b, e) => len = e /\ Agree(a, b, len)
        BY <1>0, <1>5, <4>1 DEF Apart
      <4> QED BY <3>1, <4>2
    <3>3. e = len /\ Agree(a, b, e) => At(u, a, len) = At(u, b, e)
      <4>1. len \in 0 .. len
        BY <1>0, RadixAssumption DEF Depths
      <4> QED BY <1>0, <4>1, AtSame
    <3> QED BY <3>1, <3>2, <3>3
  <2> QED BY <1>1, <2>1, <2>2
<1>6. \A b \in Address : \A e \in Depths :
        IF At(t, b, e) # nil
        THEN At(u, b, e) = At(t, b, e) /\ s.t.value[At(u, b, e)] = t.value[At(t, b, e)]
        ELSE /\ At(u, b, e) # nil <=> e <= len /\ Agree(b, a, e)
             /\ At(u, b, e) # nil => s.t.value[At(u, b, e)] = NoValue
  BY <1>2, <1>4 DEF Grown
<1>7. ASSUME NEW b \in Address, NEW e \in Depths
      PROVE  At(u, b, e) # nil <=> Needed(nets \cup {net}, b, e)
  <2>1. At(t, b, e) # nil <=> Needed(nets, b, e)
    BY DEF Match
  <2>2. e \in Nat
    BY RadixAssumption DEF Depths
  <2>3. Needed(nets \cup {net}, b, e) <=> Needed(nets, b, e) \/ (e <= len /\ Agree(a, b, e))
    BY DEF Needed, a, len
  <2>4. Agree(a, b, e) <=> Agree(b, a, e)
    BY <2>2, AgreeFacts
  <2> QED BY <1>6, <2>1, <2>3, <2>4
<1>8. ASSUME NEW m \in nets \cup {net} PROVE u.value[At(u, m.addr, m.len)] = m
  <2>0. m \in Nets /\ m.addr \in Address /\ m.len \in Depths /\ m.len \in Nat /\ m.len <= m.len
    BY <1>0, NetFacts
  <2>1. At(u, m.addr, m.len) # nil
    <3>1. Needed(nets \cup {net}, m.addr, m.len)
      BY <2>0, AgreeFacts DEF Needed
    <3> QED BY <1>7, <2>0, <3>1
  <2>2. CASE m = net
    <3>1. Agree(a, a, len)
      BY <2>0, <2>2, AgreeFacts DEF len
    <3> QED BY <1>5, <2>0, <2>1, <2>2, <3>1 DEF a, len
  <2>3. CASE m # net
    <3>1. ~(m.len = len /\ Agree(a, m.addr, m.len))
      BY <2>0, <2>3, OneNameIs DEF a, len
    <3>2. u.value[At(u, m.addr, m.len)] = s.t.value[At(u, m.addr, m.len)]
      BY <1>5, <2>0, <2>1, <3>1
    <3>3. m \in nets
      BY <2>3
    <3>4. At(t, m.addr, m.len) # nil
      <4>1. Needed(nets, m.addr, m.len)
        BY <2>0, <3>3, AgreeFacts DEF Needed
      <4> QED BY <2>0, <4>1 DEF Match
    <3>5. t.value[At(t, m.addr, m.len)] = m
      BY <3>3 DEF Match
    <3> QED BY <1>6, <2>0, <3>2, <3>4, <3>5
  <2> QED BY <2>2, <2>3
<1>9. ASSUME NEW b \in Address, NEW e \in Depths, At(u, b, e) # nil, u.value[At(u, b, e)] # NoValue
      PROVE  \E m \in nets \cup {net} : m.len = e /\ Agree(m.addr, b, e)
  <2>1. CASE e = len /\ Agree(a, b, e)
    BY <2>1 DEF a, len
  <2>2. CASE ~(e = len /\ Agree(a, b, e))
    <3>1. s.t.value[At(u, b, e)] # NoValue
      BY <1>5, <1>9, <2>2
    <3>2. At(t, b, e) # nil /\ t.value[At(t, b, e)] # NoValue
      BY <1>6, <1>9, <3>1
    <3> QED BY <3>2 DEF Match
  <2> QED BY <2>1, <2>2
<1>10. Match(u, nets \cup {net})
  BY <1>7, <1>8, <1>9 DEF Match
<1> QED BY <1>1, <1>2, <1>3, <1>10 DEF u

-----------------------------------------------------------------------------
(* Deletion.                                                               *)

(* A node without children ends every way down through it.                 *)
LEMMA LeafBelow ==
  ASSUME NEW t, NEW b, NEW d \in 0 .. Bits - 1, NEW n, At(t, b, d) = n,
         t.left[n] = nil, t.right[n] = nil
  PROVE  At(t, b, d + 1) = nil
<1>1. PICK j \in 1 .. Bits : j = d + 1 /\ j - 1 = d
  BY RadixAssumption
<1>2. Child(t, n, b[j]) = nil
  BY DEF Child
<1>3. At(t, b, j) = nil
  BY <1>1, <1>2, AtStep
<1> QED BY <1>1, <1>3

(* To unlink a node without children is to graft nil in its place.         *)
LEMMA UnlinkStruct ==
  ASSUME NEW s, s.t \in TreeType, Struct(s.t), NEW a \in Address, NEW d \in 1 .. Bits,
         s.node = At(s.t, a, d), s.node # nil,
         s.t.left[s.node] = nil, s.t.right[s.node] = nil
  PROVE  LET t == s.t
             r == Unlink(s)
             u == r.t
         IN
         /\ u \in TreeType /\ Struct(u) /\ u.value = t.value
         /\ r.node = At(u, a, d - 1) /\ r.node # nil
         /\ \A b \in Address : \A e \in Depths :
              At(u, b, e) = IF Below(b, e, a, d) THEN nil ELSE At(t, b, e)
<1> DEFINE t == s.t
           n == s.node
           p == At(t, a, d - 1)
           r == Unlink(s)
           u == r.t
<1>0. /\ Bits \in Nat /\ d \in Nat /\ d >= 1 /\ d - 1 \in Depths /\ d \in Depths
      /\ d - 1 \in 0 .. Bits - 1 /\ d - 1 + 1 = d /\ a[d] \in {0, 1} /\ d - 1 \in Nat
  BY RadixAssumption DEF Depths, Address
<1>1. t \in TreeType /\ Struct(t) /\ t.used \in Nat
  BY DEF TreeType, Nodes
<1>2. n \in Nodes /\ n = At(t, a, d) /\ n <= t.used
  <2>1. n \in Pointer
    BY <1>0, AtType
  <2> QED BY <1>0, <2>1, PointerFacts DEF Struct, Fresh
<1>3. t.parent[n] = p
  BY <1>1, <1>2 DEF Struct, Parents
<1>4. p # nil /\ n = Child(t, p, a[d]) /\ p \in Nodes
  <2>1. p # nil /\ n = Child(t, p, a[d])
    BY <1>2, AtStep
  <2> QED BY <1>0, <1>1, <2>1, AtType, PointerFacts
<1>5. /\ u \in TreeType /\ r.node = p
      /\ u.used = t.used /\ u.parent = t.parent /\ u.value = t.value
      /\ \A x \in Nodes :
           /\ u.left[x] = IF x = p /\ t.right[p] # n THEN nil ELSE t.left[x]
           /\ x # n => u.right[x] = IF x = p /\ t.right[p] = n THEN nil ELSE t.right[x]
  BY <1>1, <1>2, <1>3, <1>4, UnlinkIs
<1> HIDE DEF u, r, p
<1>6. Apart(t)
  BY <1>1 DEF Struct
<1>7. t.right[p] = n <=> a[d] = 1
  <2>1. a[d] = 1 => t.right[p] = n
    BY <1>4 DEF Child
  <2>2. ASSUME t.right[p] = n PROVE a[d] = 1
    <3> DEFINE b == [a EXCEPT ![d - 1 + 1] = 1]
    <3>1. b \in Address /\ b[d] = 1 /\ Agree(b, a, d - 1)
      BY <1>0, Turned
    <3> HIDE DEF b
    <3>2. At(t, b, d - 1) = p
      BY <1>0, <3>1, AtSame DEF p
    <3>3. At(t, b, d) = n
      BY <1>4, <2>2, <3>1, <3>2, AtStep DEF Child
    <3>4. Agree(b, a, d)
      BY <1>0, <1>2, <1>6, <3>1, <3>3 DEF Apart
    <3> QED BY <1>0, <3>1, <3>4 DEF Agree
  <2> QED BY <2>1, <2>2
<1>8. \A m \in Nodes : \A bit \in {0, 1} :
        m # n => Child(u, m, bit) = IF m = p /\ bit = a[d] THEN nil ELSE Child(t, m, bit)
  BY <1>0, <1>5, <1>7 DEF Child
<1>9. \A b \in Address : \A e \in Depths :
        At(t, b, e) # nil /\ ~Below(b, e, a, d) => At(t, b, e) \in Nodes /\ At(t, b, e) # n
  <2>1. ASSUME NEW b \in Address, NEW e \in Depths, At(t, b, e) # nil, ~Below(b, e, a, d)
        PROVE  At(t, b, e) \in Nodes /\ At(t, b, e) # n
    <3>1. At(t, b, e) \in Nodes
      BY <1>1, <2>1, AtType, PointerFacts
    <3>2. At(t, b, e) = n => e = d /\ Agree(b, a, e)
      BY <1>0, <1>2, <1>6, <2>1 DEF Apart
    <3> QED BY <1>0, <2>1, <3>1, <3>2 DEF Below
  <2> QED BY <2>1
<1>10. Graft(t, u, a, d, nil)
  BY <1>4, <1>8, <1>9 DEF Graft, p
<1>11. Struct(u)
  <2>1. nil \in Pointer /\ t.used <= u.used
    BY <1>1, <1>5, PointerFacts
  <2>2. \A b \in Address : \A e \in Depths :
          At(t, b, e) # nil => u.parent[At(t, b, e)] = t.parent[At(t, b, e)]
    BY <1>5
  <2>3. \A m \in Nodes : m > u.used => u.left[m] = nil /\ u.right[m] = nil
    <3>1. ASSUME NEW m \in Nodes, m > u.used PROVE u.left[m] = nil /\ u.right[m] = nil
      <4>1. m > t.used /\ m # n
        BY <1>1, <1>2, <1>5, <3>1 DEF Nodes
      <4>2. t.left[m] = nil /\ t.right[m] = nil
        BY <1>1, <4>1 DEF Struct, Fresh
      <4> QED BY <1>5, <4>1, <4>2
    <3> QED BY <3>1
  <2>4. u \in TreeType
    BY <1>5
  <2> QED BY <1>1, <1>10, <2>1, <2>2, <2>3, <2>4, GraftStruct
<1>12. \A b \in Address : \A e \in Depths :
         At(u, b, e) = IF Below(b, e, a, d) THEN nil ELSE At(t, b, e)
  BY <1>6, <1>10, GraftAt
<1>13. r.node = At(u, a, d - 1) /\ r.node # nil
  <2>1. ~Below(a, d - 1, a, d)
    BY <1>0 DEF Below
  <2> QED BY <1>0, <1>4, <1>5, <1>12, <2>1 DEF p
<1> QED BY <1>5, <1>11, <1>12, <1>13 DEF t, u, r

(* What is gone of t in u is the way from d down to the node that was      *)
(* deleted; what was between stood for no network.                         *)
Cut(t, u, a, d, len) ==
    \A b \in Address : \A e \in Depths :
      /\ At(u, b, e) = IF Below(b, e, a, d + 1) THEN nil ELSE At(t, b, e)
      /\ Below(b, e, a, d + 1) /\ At(t, b, e) # nil =>
           e <= len /\ Agree(b, a, e) /\ (e < len => t.value[At(t, b, e)] = NoValue)

(* The loop of delete takes away the end of the path, and stops at a node  *)
(* that is needed.                                                         *)
LEMMA ClimbStruct ==
  ASSUME NEW t \in TreeType, NEW net \in Nets, Struct(t),
         NEW n, n = At(t, net.addr, net.len), n # nil,
         t.left[n] = nil, t.right[n] = nil, t.parent[n] # nil
  PROVE  LET u == FreeUp(t, n) IN
         /\ u \in TreeType /\ Struct(u) /\ u.value = t.value
         /\ \E d \in 0 .. net.len - 1 :
              LET m == At(u, net.addr, d) IN
              /\ Cut(t, u, net.addr, d, net.len)
              /\ m # nil
              /\ u.left[m] # nil \/ u.right[m] # nil \/ t.value[m] # NoValue \/ d = 0
<1> DEFINE s == Climb(t, n)
           len == net.len
           a == net.addr
           Ok(i, d) == /\ s[i].t \in TreeType /\ Struct(s[i].t) /\ s[i].t.value = t.value
                       /\ Cut(t, s[i].t, a, d, len)
                       /\ s[i].node = At(s[i].t, a, d) /\ s[i].node # nil
                       /\ Stays(s[i]) \/ d = len - i
           S == {i \in 0 .. Steps - 1 : \E d \in 0 .. len - 1 : Ok(i + 1, d)}
<1>0. /\ len \in Nat /\ len <= Bits /\ Bits \in Nat /\ a \in Address /\ len \in Depths
      /\ Steps \in Nat /\ Steps > Bits
  BY NetFacts, RadixAssumption DEF Steps
<1>1. /\ s[0] = [t |-> t, node |-> n]
      /\ \A i \in 1 .. Steps :
           s[i] = IF i > 1 /\ Stays(s[i - 1]) THEN s[i - 1] ELSE Unlink(s[i - 1])
  BY ClimbStep
<1>2. n = At(t, a, len) /\ FreeUp(t, n) = s[Steps].t
  BY DEF FreeUp
<1> HIDE DEF s, len, a
<1>3. len >= 1
  <2>1. len # 0
    <3>1. At(t, a, 0) = root /\ t.parent[root] = nil
      BY AtStep DEF Struct, Parents
    <3> QED BY <1>2, <3>1
  <2> QED BY <1>0, <2>1
<1>4. 0 \in S
  <2>1. s[1] = Unlink(s[0])
    BY <1>0, <1>1
  <2>2. s[0].t = t /\ s[0].node = n
    BY <1>1
  <2>3. len \in 1 .. Bits
    BY <1>0, <1>3
  <2>4. /\ s[1].t \in TreeType /\ Struct(s[1].t) /\ s[1].t.value = t.value
        /\ s[1].node = At(s[1].t, a, len - 1) /\ s[1].node # nil
        /\ \A b \in Address : \A e \in Depths :
             At(s[1].t, b, e) = IF Below(b, e, a, len) THEN nil ELSE At(t, b, e)
    BY <1>0, <1>2, <2>1, <2>2, <2>3, UnlinkStruct
  <2>5. ASSUME NEW b \in Address, NEW e \in Depths, Below(b, e, a, len), At(t, b, e) # nil
        PROVE  e = len /\ Agree(b, a, e)
    <3>1. e \in Nat /\ e <= Bits /\ e >= len /\ Agree(b, a, len)
      BY <1>0, <2>5 DEF Depths, Below
    <3>2. At(t, b, len) = n
      <4>1. len \in 0 .. len
        BY <1>0
      <4> QED BY <1>0, <1>2, <3>1, <4>1, AtSame
    <3>3. ASSUME e > len PROVE FALSE
      <4>1. PICK j \in 1 .. Bits : j = len + 1 /\ j - 1 = len /\ j \in Depths /\ j <= e
        BY <1>0, <3>1, <3>3 DEF Depths
      <4>2. At(t, b, j) = nil
        BY <1>0, <3>2, <4>1, LeafBelow
      <4> QED BY <2>5, <4>1, <4>2, NilBelow
    <3> QED BY <1>0, <3>1, <3>3
  <2>6. Cut(t, s[1].t, a, len - 1, len)
    <3>1. len - 1 + 1 = len
      BY <1>0
    <3> QED BY <1>0, <2>4, <2>5, <3>1 DEF Cut
  <2>7. Ok(1, len - 1)
    BY <2>4, <2>6
  <2>8. len - 1 \in 0 .. len - 1 /\ 0 \in 0 .. Steps - 1 /\ 0 + 1 = 1
    BY <1>0, <1>3
  <2> HIDE DEF Ok
  <2> QED BY <2>7, <2>8
<1>5. ASSUME NEW i \in 0 .. Steps - 1 - 1, i \in S PROVE i + 1 \in S
  <2>1. PICK j \in 1 .. Steps : j = i + 1 /\ j - 1 = i /\ j \in 0 .. Steps - 1
    BY <1>0
  <2>2. PICK k \in 1 .. Steps : k = j + 1 /\ k - 1 = j /\ k > 1
    BY <1>0, <2>1
  <2>3. PICK d \in 0 .. len - 1 : Ok(j, d)
    BY <1>5, <2>1
  <2>4. s[k] = IF Stays(s[j]) THEN s[j] ELSE Unlink(s[j])
    BY <1>1, <2>2
  <2>5. CASE Stays(s[j])
    <3>1. s[k] = s[j]
      BY <2>4, <2>5
    <3>2. Ok(k, d)
      BY <2>3, <2>5, <3>1
    <3> HIDE DEF Ok
    <3> QED BY <2>1, <2>2, <3>2
  <2>6. CASE ~Stays(s[j])
    <3> DEFINE u == s[j].t
               m == s[j].node
               v == s[k].t
    <3>1. /\ u \in TreeType /\ Struct(u) /\ u.value = t.value
          /\ Cut(t, u, a, d, len) /\ m = At(u, a, d) /\ m # nil /\ d = len - j
      BY <2>3, <2>6
    <3>2. u.left[m] = nil /\ u.right[m] = nil /\ u.value[m] = NoValue /\ u.parent[m] # nil
      BY <2>6 DEF Stays
    <3>3. d # 0
      <4>1. At(u, a, 0) = root /\ u.parent[root] = nil
        BY <3>1, AtStep DEF Struct, Parents
      <4> QED BY <3>1, <3>2, <4>1
    <3>4. /\ d \in 1 .. Bits /\ d \in Nat /\ d < len /\ d - 1 \in 0 .. len - 1 /\ d - 1 + 1 = d
          /\ d \in Depths
      BY <1>0, <3>3 DEF Depths
    <3>5. s[k] = Unlink(s[j])
      BY <2>4, <2>6
    <3>6. /\ v \in TreeType /\ Struct(v) /\ v.value = u.value
          /\ s[k].node = At(v, a, d - 1) /\ s[k].node # nil
          /\ \A b \in Address : \A e \in Depths :
               At(v, b, e) = IF Below(b, e, a, d) THEN nil ELSE At(u, b, e)
      BY <1>0, <3>1, <3>2, <3>4, <3>5, UnlinkStruct
    <3> HIDE DEF u, v, m
    <3>7. \A b \in Address : \A e \in Depths :
            /\ At(u, b, e) = IF Below(b, e, a, d + 1) THEN nil ELSE At(t, b, e)
            /\ Below(b, e, a, d + 1) /\ At(t, b, e) # nil =>
                 e <= len /\ Agree(b, a, e) /\ (e < len => t.value[At(t, b, e)] = NoValue)
      BY <3>1 DEF Cut
    <3>8. ASSUME NEW b \in Address, NEW e \in Depths
          PROVE  At(v, b, e) = IF Below(b, e, a, d) THEN nil ELSE At(t, b, e)
      <4>1. Below(b, e, a, d + 1) => Below(b, e, a, d)
        BY <1>0, <3>4, AgreeFacts DEF Below, Depths
      <4> QED BY <3>6, <3>7, <4>1
    <3>9. ASSUME NEW b \in Address, NEW e \in Depths, Below(b, e, a, d), At(t, b, e) # nil
          PROVE  e <= len /\ Agree(b, a, e) /\ (e < len => t.value[At(t, b, e)] = NoValue)
      <4>0. e \in Nat /\ e <= Bits /\ e >= d /\ Agree(b, a, d)
        BY <1>0, <3>9 DEF Depths, Below
      <4>1. At(u, b, d) = m
        <5>1. d \in 0 .. d
          BY <3>4
        <5> QED BY <3>1, <3>4, <4>0, <5>1, AtSame
      <4>2. CASE Below(b, e, a, d + 1)
        BY <3>7, <3>9, <4>2
      <4>3. CASE ~Below(b, e, a, d + 1) /\ e = d
        <5>1. At(t, b, e) = m
          BY <3>7, <4>1, <4>3
        <5> QED BY <1>0, <3>1, <3>2, <3>4, <4>0, <4>3, <5>1
      <4>4. CASE ~Below(b, e, a, d + 1) /\ e # d
        <5>1. PICK f \in 1 .. Bits : f = d + 1 /\ f - 1 = d /\ f \in Depths /\ f <= e
          BY <1>0, <3>4, <4>0, <4>4 DEF Depths
        <5>2. At(u, b, f) = nil
          BY <1>0, <3>2, <3>4, <4>1, <5>1, LeafBelow
        <5>3. ~Below(b, f, a, d + 1)
          BY <4>0, <4>4, <5>1 DEF Below
        <5>4. At(t, b, f) = nil
          BY <3>7, <5>1, <5>2, <5>3
        <5> QED BY <3>9, <5>1, <5>4, NilBelow
      <4> QED BY <4>2, <4>3, <4>4
    <3>10. Cut(t, v, a, d - 1, len)
      BY <3>4, <3>8, <3>9 DEF Cut
    <3>11. d - 1 = len - k
      BY <1>0, <2>1, <2>2, <3>1, <3>4
    <3>12. Ok(k, d - 1)
      BY <3>1, <3>6, <3>10, <3>11 DEF v
    <3> HIDE DEF Ok
    <3> QED BY <2>1, <2>2, <3>4, <3>12
  <2> QED BY <2>5, <2>6
<1> HIDE DEF S
<1>6. Steps - 1 \in S
  BY <1>0, <1>4, <1>5, UpTo
<1>7. PICK d \in 0 .. len - 1 : Ok(Steps, d)
  <2>1. Steps - 1 + 1 = Steps
    BY <1>0
  <2> QED BY <1>6, <2>1 DEF S
<1> DEFINE u == s[Steps].t
           m == s[Steps].node
<1>8. /\ u \in TreeType /\ Struct(u) /\ u.value = t.value
      /\ Cut(t, u, a, d, len) /\ m = At(u, a, d) /\ m # nil
  BY <1>7
<1>9. Stays(s[Steps])
  <2>1. d # len - Steps
    BY <1>0
  <2> QED BY <1>7, <2>1
<1>10. u.right[m] # nil \/ u.left[m] # nil \/ u.value[m] # NoValue \/ u.parent[m] = nil
  BY <1>9 DEF Stays
<1> HIDE DEF u, m
<1>11. ASSUME u.parent[m] = nil PROVE d = 0
  <2> SUFFICES ASSUME d # 0 PROVE FALSE
    OBVIOUS
  <2>1. d \in 1 .. Bits /\ d \in Depths
    BY <1>0 DEF Depths
  <2>2. u.parent[m] = At(u, a, d - 1)
    BY <1>0, <1>8, <2>1 DEF Struct, Parents
  <2>3. At(u, a, d) = nil
    BY <1>11, <2>1, <2>2, AtStep
  <2> QED BY <1>8, <2>3
<1>12. FreeUp(t, n) = u
  BY <1>2 DEF u
<1> QED BY <1>8, <1>10, <1>11, <1>12 DEF a, len

(* What is left after the way of a deleted leaf is cut is the trie of the  *)
(* other networks: what went was needed by no other, what stayed is.       *)
LEMMA CutMatch ==
  ASSUME OneName, NEW t \in TreeType, NEW u, NEW net \in Nets,
         NEW nets \in SUBSET Nets, Match(t, nets), u.value = t.value,
         NEW d \in 0 .. net.len - 1, Cut(t, u, net.addr, d, net.len),
         NEW m, m = At(u, net.addr, d), m # nil,
         u.left[m] # nil \/ u.right[m] # nil \/ t.value[m] # NoValue \/ d = 0
  PROVE  Match(u, nets \ {net})
<1> DEFINE a == net.addr
           len == net.len
           rest == nets \ {net}
<1>0. /\ a \in Address /\ len \in Depths /\ len \in Nat /\ len <= Bits /\ Bits \in Nat
      /\ d \in Nat /\ d \in Depths /\ d < len /\ d \in 0 .. Bits - 1
      /\ \A r \in nets : /\ r \in Nets /\ r # NoValue /\ r.addr \in Address
                         /\ r.len \in Depths /\ r.len \in Nat /\ r.len <= r.len
      /\ \A e \in Depths : e \in Nat
  BY NetFacts DEF Depths
<1> HIDE DEF a, len
<1>1. \A b \in Address : \A e \in Depths :
        /\ At(u, b, e) = IF Below(b, e, a, d + 1) THEN nil ELSE At(t, b, e)
        /\ Below(b, e, a, d + 1) /\ At(t, b, e) # nil =>
             e <= len /\ Agree(b, a, e) /\ (e < len => t.value[At(t, b, e)] = NoValue)
  BY DEF Cut, a, len
<1>2. ASSUME NEW b \in Address, NEW e \in Depths, e <= d, Agree(a, b, e)
      PROVE  Needed(rest, b, e)
  <2>1. CASE d = 0
    <3>1. e \in Nat
      BY <1>0
    <3>2. e = 0
      BY <1>2, <2>1, <3>1
    <3> QED BY <3>2 DEF Needed
  <2>2. CASE u.left[m] # nil \/ u.right[m] # nil
    <3>1. PICK x \in {0, 1} : Child(u, m, x) # nil
      BY <2>2 DEF Child
    <3> DEFINE c == [a EXCEPT ![d + 1] = x]
    <3>2. c \in Address /\ c[d + 1] = x /\ Agree(c, a, d)
      BY <1>0, Turned
    <3> HIDE DEF c
    <3>3. PICK j \in 1 .. Bits : j = d + 1 /\ j - 1 = d /\ j \in Depths /\ j \in Nat
      BY <1>0 DEF Depths
    <3>4. At(u, c, d) = m
      <4>1. d \in 0 .. d
        BY <1>0
      <4> QED BY <1>0, <3>2, <4>1, AtSame DEF a
    <3>5. At(u, c, j) # nil
      BY <3>1, <3>2, <3>3, <3>4, AtStep
    <3>6. ~Below(c, j, a, d + 1) /\ At(t, c, j) # nil
      BY <1>1, <3>2, <3>3, <3>5
    <3>7. ~Agree(c, a, d + 1)
      BY <1>0, <3>3, <3>6 DEF Below
    <3>8. PICK r \in nets : j <= r.len /\ Agree(r.addr, c, j)
      BY <3>2, <3>3, <3>6 DEF Match, Needed
    <3>9. r # net
      <4>1. Agree(r.addr, c, j) => Agree(c, r.addr, d + 1)
        BY <3>3, AgreeFacts
      <4> QED BY <3>7, <3>8, <4>1 DEF a
    <3>10. Agree(r.addr, b, e)
      <4>1. Agree(r.addr, c, e) /\ Agree(c, a, e)
        BY <1>0, <1>2, <3>2, <3>3, <3>8, AgreeFacts
      <4> QED BY <1>2, <4>1, AgreeTrans
    <3>11. e <= r.len
      BY <1>0, <1>2, <3>3, <3>8
    <3> QED BY <3>9, <3>10, <3>11 DEF Needed
  <2>3. CASE t.value[m] # NoValue
    <3>1. At(t, a, d) = m
      BY <1>0, <1>1 DEF a
    <3>2. PICK r \in nets : r.len = d /\ Agree(r.addr, a, d)
      BY <1>0, <2>3, <3>1 DEF Match
    <3>3. r # net
      BY <1>0, <3>2 DEF len
    <3>4. Agree(r.addr, a, e)
      BY <1>0, <1>2, <3>2, AgreeFacts
    <3>5. Agree(r.addr, b, e)
      BY <1>2, <3>4, AgreeTrans
    <3> QED BY <1>2, <3>2, <3>3, <3>5 DEF Needed
  <2> QED BY <2>1, <2>2, <2>3
<1>3. ASSUME NEW b \in Address, NEW e \in Depths, At(u, b, e) # nil
      PROVE  Needed(rest, b, e)
  <2>1. ~Below(b, e, a, d + 1) /\ At(t, b, e) # nil
    BY <1>1, <1>3
  <2>2. CASE e = 0
    BY <2>2 DEF Needed
  <2>3. CASE e # 0
    <3>1. PICK r \in nets : e <= r.len /\ Agree(r.addr, b, e)
      BY <2>1, <2>3 DEF Match, Needed
    <3>2. CASE r # net
      BY <3>1, <3>2 DEF Needed
    <3>3. CASE r = net
      <4>1. Agree(a, b, e)
        BY <3>1, <3>3 DEF a
      <4>2. e <= d
        <5> SUFFICES ASSUME ~(e <= d) PROVE FALSE
          OBVIOUS
        <5>1. d + 1 \in Nat /\ d + 1 <= e /\ e \in Nat
          BY <1>0
        <5>2. Agree(b, a, e)
          BY <4>1, <5>1, AgreeFacts
        <5>3. Agree(b, a, d + 1)
          BY <5>1, <5>2, AgreeFacts
        <5> QED BY <2>1, <5>1, <5>3 DEF Below
      <4> QED BY <1>2, <4>1, <4>2
    <3> QED BY <3>2, <3>3
  <2> QED BY <2>2, <2>3
<1>4. ASSUME NEW r \in rest, NEW b \in Address, NEW e \in Depths, e <= r.len, Agree(r.addr, b, e)
      PROVE  At(u, b, e) # nil /\ At(u, b, e) = At(t, b, e)
  <2>0. r \in nets /\ r # net /\ r \in Nets
    OBVIOUS
  <2>1. At(t, b, e) # nil
    BY <1>4, <2>0 DEF Match, Needed
  <2>2. ASSUME Below(b, e, a, d + 1) PROVE FALSE
    <3>1. At(t, r.addr, r.len) # nil /\ t.value[At(t, r.addr, r.len)] = r
      <4>1. Agree(r.addr, r.addr, r.len)
        BY <1>0, <2>0, AgreeFacts
      <4> QED BY <1>0, <2>0, <4>1 DEF Match, Needed
    <3>2. Below(r.addr, r.len, a, d + 1)
      <4>1. d + 1 \in Nat /\ e \in Nat /\ d + 1 <= e /\ Agree(b, a, d + 1)
        BY <1>0, <2>2 DEF Below
      <4>2. Agree(r.addr, b, d + 1)
        BY <1>4, <4>1, AgreeFacts
      <4>3. Agree(r.addr, a, d + 1)
        BY <4>1, <4>2, AgreeTrans
      <4>4. r.len >= d + 1
        BY <1>0, <1>4, <2>0, <4>1
      <4> QED BY <4>3, <4>4 DEF Below
    <3>3. r.len <= len /\ Agree(r.addr, a, r.len) /\ (r.len < len => r = NoValue)
      BY <1>0, <1>1, <2>0, <3>1, <3>2
    <3>4. r.len = len
      BY <1>0, <2>0, <3>3
    <3> QED BY <2>0, <3>3, <3>4, OneNameIs DEF a, len
  <2> QED BY <1>1, <2>1, <2>2
<1>5. ASSUME NEW b \in Address, NEW e \in Depths
      PROVE  At(u, b, e) # nil <=> Needed(rest, b, e)
  <2>1. CASE e = 0
    BY <2>1, AtStep DEF Needed, root, nil
  <2>2. CASE e # 0
    BY <1>3, <1>4, <2>2 DEF Needed
  <2> QED BY <2>1, <2>2
<1>6. ASSUME NEW r \in rest PROVE u.value[At(u, r.addr, r.len)] = r
  <2>1. r \in nets /\ Agree(r.addr, r.addr, r.len)
    BY <1>0, AgreeFacts
  <2>2. At(u, r.addr, r.len) = At(t, r.addr, r.len)
    BY <1>0, <1>4, <2>1
  <2> QED BY <2>1, <2>2 DEF Match
<1>7. ASSUME NEW b \in Address, NEW e \in Depths, At(u, b, e) # nil, u.value[At(u, b, e)] # NoValue
      PROVE  \E r \in rest : r.len = e /\ Agree(r.addr, b, e)
  <2>1. ~Below(b, e, a, d + 1) /\ At(u, b, e) = At(t, b, e)
    BY <1>1, <1>7
  <2>2. PICK r \in nets : r.len = e /\ Agree(r.addr, b, e)
    BY <1>7, <2>1 DEF Match
  <2>3. r # net
    <3> SUFFICES ASSUME r = net PROVE FALSE
      OBVIOUS
    <3>1. e = len /\ Agree(a, b, e)
      BY <2>2 DEF a, len
    <3>2. d + 1 \in Nat /\ d + 1 <= e /\ e \in Nat
      BY <1>0, <3>1
    <3>3. Agree(b, a, e)
      BY <3>1, <3>2, AgreeFacts
    <3>4. Agree(b, a, d + 1)
      BY <3>2, <3>3, AgreeFacts
    <3> QED BY <2>1, <3>2, <3>4 DEF Below
  <2> QED BY <2>2, <2>3
<1> HIDE DEF rest
<1>8. Match(u, rest)
  BY <1>5, <1>6, <1>7 DEF Match
<1> QED BY <1>8 DEF rest

(* A node with children only loses its value: its way is still needed.     *)
LEMMA EmptyMatch ==
  ASSUME OneName, NEW t \in TreeType, NEW net \in Nets, Struct(t),
         NEW nets \in SUBSET Nets, Match(t, nets),
         NEW n, n = At(t, net.addr, net.len), n # nil,
         t.left[n] # nil \/ t.right[n] # nil
  PROVE  LET u == [t EXCEPT !.value[n] = NoValue] IN
         Struct(u) /\ Match(u, nets \ {net})
<1> DEFINE a == net.addr
           len == net.len
           rest == nets \ {net}
           val == [t.value EXCEPT ![n] = NoValue]
           u == [t EXCEPT !.value[n] = NoValue]
<1>0. /\ a \in Address /\ len \in Depths /\ len \in Nat /\ len <= Bits /\ Bits \in Nat
      /\ \A r \in nets : /\ r \in Nets /\ r.addr \in Address
                         /\ r.len \in Depths /\ r.len \in Nat /\ r.len <= r.len
      /\ \A e \in Depths : e \in Nat
  BY NetFacts DEF Depths
<1>1. n = At(t, a, len)
  OBVIOUS
<1> HIDE DEF a, len
<1>2. n \in Nodes
  BY <1>0, <1>1, AtType, PointerFacts
<1>3. /\ u.left = t.left /\ u.right = t.right /\ u.parent = t.parent /\ u.used = t.used
      /\ u.value = val /\ u \in TreeType
  <2>1. t.value \in Values /\ NoValue \in Nets \cup {NoValue}
    BY DEF TreeType
  <2>2. val \in Values
    BY <1>2, <2>1 DEF Values
  <2>3. u = [t EXCEPT !.value = val]
    OBVIOUS
  <2> HIDE DEF u, val
  <2> QED BY <2>2, <2>3, SetValue
<1>4. \A x \in Nodes : val[x] = IF x = n THEN NoValue ELSE t.value[x]
  <2>1. t.value \in Values
    BY DEF TreeType
  <2> QED BY <2>1 DEF Values
<1> HIDE DEF u, val
<1>5. Struct(u)
  BY <1>3, StructSame
<1>6. \A b \in Address : \A e \in Depths : At(u, b, e) = At(t, b, e)
  BY <1>3, AtTree
<1>7. len \in 0 .. Bits - 1
  <2>1. len # Bits
    BY <1>0, <1>1 DEF Struct, Leaves
  <2> QED BY <1>0, <2>1
<1>8. PICK r \in nets : r # net /\ len <= r.len /\ Agree(r.addr, a, len)
  <2>1. PICK x \in {0, 1} : Child(t, n, x) # nil
    BY DEF Child
  <2> DEFINE c == [a EXCEPT ![len + 1] = x]
  <2>2. c \in Address /\ c[len + 1] = x /\ Agree(c, a, len)
    BY <1>0, <1>7, Turned
  <2> HIDE DEF c
  <2>3. PICK j \in 1 .. Bits : j = len + 1 /\ j - 1 = len /\ j \in Depths /\ j \in Nat /\ len <= j
    BY <1>0, <1>7 DEF Depths
  <2>4. At(t, c, len) = n
    <3>1. len \in 0 .. len
      BY <1>0
    <3> QED BY <1>0, <1>1, <2>2, <3>1, AtSame
  <2>5. At(t, c, j) # nil
    BY <2>1, <2>2, <2>3, <2>4, AtStep
  <2>6. PICK q \in nets : j <= q.len /\ Agree(q.addr, c, j)
    BY <2>2, <2>3, <2>5 DEF Match, Needed
  <2>7. q # net /\ len <= q.len
    BY <1>0, <2>3, <2>6 DEF len
  <2>8. Agree(q.addr, a, len)
    <3>1. Agree(q.addr, c, len)
      BY <1>0, <2>3, <2>6, AgreeFacts
    <3> QED BY <2>2, <3>1, AgreeTrans
  <2> QED BY <2>7, <2>8
<1>9. ASSUME NEW b \in Address, NEW e \in Depths
      PROVE  At(u, b, e) # nil <=> Needed(rest, b, e)
  <2>1. At(u, b, e) # nil <=> Needed(nets, b, e)
    BY <1>6 DEF Match
  <2>2. ASSUME e <= len, Agree(a, b, e) PROVE Needed(rest, b, e)
    <3>1. Agree(r.addr, a, e)
      BY <1>0, <1>8, <2>2, AgreeFacts
    <3>2. Agree(r.addr, b, e)
      BY <2>2, <3>1, AgreeTrans
    <3>3. e <= r.len
      BY <1>0, <1>8, <2>2
    <3> QED BY <1>8, <3>2, <3>3 DEF Needed
  <2>3. Needed(rest, b, e) => Needed(nets, b, e)
    BY DEF Needed
  <2>4. Needed(nets, b, e) => Needed(rest, b, e) \/ (e <= len /\ Agree(a, b, e))
    BY DEF Needed, a, len
  <2> QED BY <2>1, <2>2, <2>3, <2>4
<1>10. ASSUME NEW b \in Address, NEW e \in Depths, At(t, b, e) # nil
       PROVE  /\ At(t, b, e) \in Nodes
              /\ At(t, b, e) = n => e = len /\ Agree(b, a, len)
  <2>1. At(t, b, e) \in Nodes
    BY <1>10, AtType, PointerFacts
  <2>2. Apart(t)
    BY DEF Struct
  <2> QED BY <1>0, <1>1, <1>10, <2>1, <2>2 DEF Apart
<1>11. ASSUME NEW q \in rest PROVE u.value[At(u, q.addr, q.len)] = q
  <2>1. q \in nets /\ q # net /\ Agree(q.addr, q.addr, q.len)
    BY <1>0, AgreeFacts
  <2>2. At(t, q.addr, q.len) # nil /\ t.value[At(t, q.addr, q.len)] = q
    BY <1>0, <2>1 DEF Match, Needed
  <2>3. At(t, q.addr, q.len) # n
    BY <1>0, <1>10, <2>1, <2>2, OneNameIs DEF a, len
  <2> QED BY <1>0, <1>3, <1>4, <1>6, <1>10, <2>1, <2>2, <2>3
<1>12. ASSUME NEW b \in Address, NEW e \in Depths, At(u, b, e) # nil, u.value[At(u, b, e)] # NoValue
       PROVE  \E q \in rest : q.len = e /\ Agree(q.addr, b, e)
  <2>1. At(u, b, e) = At(t, b, e) /\ At(t, b, e) \in Nodes
    BY <1>6, <1>10, <1>12
  <2>2. At(t, b, e) # n /\ t.value[At(t, b, e)] # NoValue
    BY <1>3, <1>4, <1>12, <2>1
  <2>3. PICK q \in nets : q.len = e /\ Agree(q.addr, b, e)
    BY <1>12, <2>1, <2>2 DEF Match
  <2>4. q # net
    <3> SUFFICES ASSUME q = net PROVE FALSE
      OBVIOUS
    <3>1. e = len /\ Agree(a, b, len) /\ len \in 0 .. len
      BY <1>0, <2>3 DEF a, len
    <3>2. At(t, b, e) = n
      BY <1>0, <1>1, <3>1, AtSame
    <3> QED BY <2>2, <3>2
  <2> QED BY <2>3, <2>4
<1> HIDE DEF rest
<1>13. Match(u, rest)
  BY <1>9, <1>11, <1>12 DEF Match
<1> QED BY <1>5, <1>13 DEF u, rest

(* After a deletion the tree is the trie of the networks that Delete       *)
(* leaves in Record.                                                       *)
LEMMA DeleteMatch ==
  ASSUME OneName, NEW t \in TreeType, NEW net \in Nets, Struct(t),
         NEW nets \in SUBSET Nets, Match(t, nets)
  PROVE  LET r == delete(t, net) IN
         Struct(r.t) /\ Match(r.t, IF r.ret = "true" THEN nets \ {net} ELSE nets)
<1> DEFINE n == Walk(t, net.addr, net.len)[net.len]
           r == delete(t, net)
<1>1. n = At(t, net.addr, net.len)
  <2>1. net \in NetType /\ net.len \in 0 .. net.len
    BY NetFacts
  <2> QED BY <2>1, WalkIsAt
<1>2. CASE r.t = t /\ r.ret # "true"
  BY <1>2
<1>3. CASE n = nil
  <2>1. r.t = t /\ r.ret # "true"
    BY <1>3 DEF delete
  <2> QED BY <1>2, <2>1
<1>4. CASE n # nil /\ (t.right[n] # nil \/ t.left[n] # nil)
  <2>1. CASE t.value[n] # NoValue
    <3>1. r.t = [t EXCEPT !.value[n] = NoValue] /\ r.ret = "true"
      BY <1>4, <2>1 DEF delete
    <3> HIDE DEF n
    <3>2. LET u == [t EXCEPT !.value[n] = NoValue] IN Struct(u) /\ Match(u, nets \ {net})
      BY <1>1, <1>4, EmptyMatch
    <3> HIDE DEF r
    <3>3. Struct(r.t) /\ Match(r.t, nets \ {net})
      BY <3>1, <3>2
    <3> QED BY <3>1, <3>3 DEF r
  <2>2. CASE t.value[n] = NoValue
    <3>1. r.t = t /\ r.ret # "true"
      BY <1>4, <2>2 DEF delete
    <3> QED BY <1>2, <3>1
  <2> QED BY <2>1, <2>2
<1>5. CASE n # nil /\ ~(t.right[n] # nil \/ t.left[n] # nil) /\ t.parent[n] = nil
  <2>1. r.t = t /\ r.ret # "true"
    BY <1>5 DEF delete
  <2> QED BY <1>2, <2>1
<1>6. CASE n # nil /\ ~(t.right[n] # nil \/ t.left[n] # nil) /\ t.parent[n] # nil
  <2> DEFINE u == FreeUp(t, n)
  <2>1. r.t = u /\ r.ret = "true"
    BY <1>6 DEF delete
  <2> HIDE DEF n, r
  <2>2. /\ u \in TreeType /\ Struct(u) /\ u.value = t.value
        /\ \E d \in 0 .. net.len - 1 :
             LET m == At(u, net.addr, d) IN
             /\ Cut(t, u, net.addr, d, net.len)
             /\ m # nil
             /\ u.left[m] # nil \/ u.right[m] # nil \/ t.value[m] # NoValue \/ d = 0
    BY <1>1, <1>6, ClimbStruct
  <2> HIDE DEF u
  <2>3. Match(u, nets \ {net})
    BY <2>2, CutMatch
  <2> QED BY <2>1, <2>2, <2>3 DEF r
<1> QED BY <1>3, <1>4, <1>5, <1>6

-----------------------------------------------------------------------------
(* Restart.                                                                *)

(* The new tree is the trie of no networks.                                *)
LEMMA NewTreeMatch == Struct(NewRadixTree) /\ Match(NewRadixTree, {})
<1> DEFINE t == NewRadixTree
<1>0. /\ t \in TreeType /\ t.used = 1 /\ root \in Nodes /\ root = 1 /\ nil = 0
      /\ \A n \in Nodes : t.left[n] = nil /\ t.right[n] = nil /\ t.parent[n] = nil /\ t.value[n] = NoValue
  BY NewTreeType, PointerFacts DEF NewRadixTree, root, nil
<1> HIDE DEF t
<1>1. ASSUME NEW a \in Address, NEW d \in Depths
      PROVE  At(t, a, d) = IF d = 0 THEN root ELSE nil
  <2>1. CASE d = 0
    BY <2>1, AtStep
  <2>2. CASE d # 0
    <3>1. 0 \in 0 .. Bits - 1 /\ 0 + 1 = 1 /\ 1 \in Depths /\ 1 <= d
      BY <2>2, RadixAssumption DEF Depths
    <3>2. At(t, a, 0) = root
      BY AtStep
    <3>3. At(t, a, 0 + 1) = nil
      BY <1>0, <3>1, <3>2, LeafBelow
    <3>4. At(t, a, d) = nil
      BY <3>1, <3>3, NilBelow
    <3> QED BY <2>2, <3>4
  <2> QED BY <2>1, <2>2
<1>2. \A a, b : Agree(a, b, 0)
  BY DEF Agree
<1>3. \A d \in 1 .. Bits : d \in Depths /\ d - 1 \in Depths /\ d # 0
  BY RadixAssumption DEF Depths
<1>4. Apart(t)
  BY <1>0, <1>1, <1>2 DEF Apart
<1>5. Parents(t)
  BY <1>0, <1>1, <1>3 DEF Parents
<1>6. Leaves(t)
  <2>1. Bits \in Depths
    BY RadixAssumption DEF Depths
  <2> QED BY <1>0, <1>1, <2>1 DEF Leaves
<1>7. Fresh(t)
  BY <1>0, <1>1 DEF Fresh
<1>8. Match(t, {})
  BY <1>0, <1>1 DEF Match, Needed
<1> QED BY <1>4, <1>5, <1>6, <1>7, <1>8 DEF Struct, t

(* The tree that Restore builds is the trie of Record.                     *)
LEMMA RebuildMatch ==
  ASSUME OneName, NEW nets, IsFiniteSet(nets), nets \subseteq Nets,
         Rebuild(nets)[Cardinality(nets)].t.used <= MaxNodes
  PROVE  LET t == Rebuild(nets)[Cardinality(nets)].t IN Struct(t) /\ Match(t, nets)
<1> DEFINE r == Rebuild(nets)
           C == Cardinality(nets)
           S == {i \in 0 .. C : Struct(r[i].t) /\ Match(r[i].t, nets \ r[i].rest)}
<1>1. /\ C \in Nat
      /\ \A i \in 0 .. C : r[i].t \in TreeType /\ r[i].t.free = nil /\ r[i].rest \subseteq nets
      /\ \A i \in 1 .. C : \E net \in r[i - 1].rest :
           /\ r[i].t = insert(r[i - 1].t, net) /\ r[i].rest = r[i - 1].rest \ {net}
           /\ r[i - 1].t.used + net.len - Depth(r[i - 1].t, net) <= MaxNodes
  BY RebuildFits
<1>2. r[0] = [t |-> NewRadixTree, rest |-> nets]
  BY RebuildStep
<1>3. r[C].rest = {}
  BY RebuildRest
<1> HIDE DEF r, C
<1>4. 0 \in S
  <2>1. nets \ r[0].rest = {} /\ r[0].t = NewRadixTree
    BY <1>2
  <2>2. Struct(r[0].t) /\ Match(r[0].t, nets \ r[0].rest)
    BY <2>1, NewTreeMatch, Zenon
  <2> QED BY <1>1, <2>2
<1>5. ASSUME NEW i \in 0 .. C - 1, i \in S PROVE i + 1 \in S
  <2>1. PICK j \in 1 .. C : j = i + 1 /\ j - 1 = i /\ j \in 0 .. C /\ i \in 0 .. C
    BY <1>1
  <2>2. PICK net \in r[i].rest :
          /\ r[j].t = insert(r[i].t, net) /\ r[j].rest = r[i].rest \ {net}
          /\ r[i].t.used + net.len - Depth(r[i].t, net) <= MaxNodes
    BY <1>1, <2>1
  <2>3. /\ r[i].t \in TreeType /\ r[i].t.free = nil /\ r[i].rest \subseteq nets
        /\ net \in Nets /\ nets \ r[i].rest \in SUBSET Nets
    BY <1>1, <2>1
  <2>4. Struct(r[i].t) /\ Match(r[i].t, nets \ r[i].rest)
    BY <1>5
  <2> DEFINE before == nets \ r[i].rest
  <2>5. nets \ r[j].rest = before \cup {net}
    BY <2>2, <2>3
  <2> HIDE DEF before
  <2>6. Struct(r[j].t) /\ Match(r[j].t, before \cup {net})
    BY <2>2, <2>3, <2>4, InsertMatch DEF before
  <2> QED BY <2>1, <2>5, <2>6
<1> HIDE DEF S
<1>6. \A i \in 0 .. C : i \in S
  BY <1>1, <1>4, <1>5, UpTo
<1>7. C \in 0 .. C /\ nets \ r[C].rest = nets
  BY <1>1, <1>3
<1> QED BY <1>6, <1>7 DEF S, r, C

-----------------------------------------------------------------------------
(* Search.                                                                 *)

(* Past its last bit an address meets no node.                             *)
LEMMA SearchPathIs ==
  ASSUME NEW t, Leaves(t), NEW ip \in Address
  PROVE  \A d \in 0 .. Steps : SearchPath(t, ip)[d] = IF d <= Bits THEN At(t, ip, d) ELSE nil
<1> DEFINE pad == [d \in 1 .. Steps |-> IF d <= Bits THEN ip[d] ELSE 0]
           w == Walk(t, pad, Steps)
           S == {i \in 0 .. Steps - Bits - 1 : w[Bits + 1 + i] = nil}
<1>0. Bits \in Nat /\ Steps \in Nat /\ Steps > Bits /\ Bits <= Bits /\ Bits <= Steps
  BY RadixAssumption DEF Steps
<1>1. Agree(pad, ip, Bits)
  BY <1>0 DEF Agree
<1>2. SearchPath(t, ip) = w
  BY DEF SearchPath
<1> HIDE DEF pad
<1>3. \A d \in 1 .. Steps : w[d] = IF w[d - 1] = nil THEN nil ELSE Child(t, w[d - 1], pad[d])
  BY <1>0, WalkStep
<1>4. \A d \in 0 .. Bits : w[d] = At(t, ip, d)
  BY <1>0, <1>1, WalkSame DEF At
<1> HIDE DEF w
<1>5. 0 \in S
  <2>1. PICK j \in 1 .. Steps : j = Bits + 1 + 0 /\ j - 1 = Bits
    BY <1>0
  <2>2. w[Bits] = At(t, ip, Bits)
    BY <1>0, <1>4
  <2>3. w[Bits] # nil => Child(t, w[Bits], pad[j]) = nil
    BY <2>2 DEF Leaves, Child
  <2>4. w[j] = nil
    BY <1>3, <2>1, <2>3
  <2> QED BY <1>0, <2>1, <2>4
<1>6. ASSUME NEW i \in 0 .. Steps - Bits - 1 - 1, i \in S PROVE i + 1 \in S
  <2>1. PICK j \in 1 .. Steps : j = Bits + 1 + (i + 1) /\ j - 1 = Bits + 1 + i
    BY <1>0
  <2>2. w[j - 1] = nil
    BY <1>6, <2>1
  <2>3. w[j] = nil
    BY <1>3, <2>2
  <2> QED BY <1>0, <2>1, <2>3
<1> HIDE DEF S
<1>7. \A i \in 0 .. Steps - Bits - 1 : i \in S
  BY <1>0, <1>5, <1>6, UpTo
<1>8. ASSUME NEW d \in 0 .. Steps, ~(d <= Bits) PROVE w[d] = nil
  <2>1. d - Bits - 1 \in 0 .. Steps - Bits - 1 /\ Bits + 1 + (d - Bits - 1) = d
    BY <1>0, <1>8
  <2> QED BY <1>7, <2>1 DEF S
<1>9. \A d \in 0 .. Steps : d <= Bits => d \in 0 .. Bits
  BY <1>0
<1> QED BY <1>2, <1>4, <1>8, <1>9

(* The trie of a set of networks answers with the longest around an        *)
(* address.                                                                *)
LEMMA SearchMatch ==
  ASSUME OneName, NEW t, Struct(t), NEW nets \in SUBSET Nets, Match(t, nets), NEW ip \in Address
  PROVE  LET around == {net \in nets : Covers(net, ip)} IN
         /\ around = {} => Search(t, ip) = NoValue
         /\ around # {} => /\ Search(t, ip) \in around
                           /\ \A o \in around : o.len <= Search(t, ip).len
<1> DEFINE around == {net \in nets : Covers(net, ip)}
           p == SearchPath(t, ip)
           hits == {d \in 0 .. Steps : p[d] # nil /\ t.value[p[d]] # NoValue}
<1>0. Bits \in Nat /\ Steps \in Nat /\ Steps > Bits
  BY RadixAssumption DEF Steps
<1>1. \A d \in 0 .. Steps : p[d] = IF d <= Bits THEN At(t, ip, d) ELSE nil
  BY SearchPathIs DEF Struct
<1>2. Search(t, ip) = IF hits = {} THEN NoValue ELSE t.value[p[Max(hits)]]
  BY DEF Search
<1> HIDE DEF p
<1>3. ASSUME NEW net \in around
      PROVE  net.len \in hits /\ p[net.len] = At(t, net.addr, net.len)
             /\ t.value[p[net.len]] = net /\ net.len \in Nat
  <2>1. /\ net \in nets /\ net # NoValue /\ net.addr \in Address
        /\ net.len \in Depths /\ net.len \in Nat /\ net.len <= Bits
    BY NetFacts
  <2>2. Agree(net.addr, ip, net.len) /\ Agree(net.addr, net.addr, net.len) /\ net.len <= net.len
    BY <2>1 DEF Covers, Agree
  <2>3. At(t, ip, net.len) = At(t, net.addr, net.len)
    <3>1. net.len \in 0 .. net.len
      BY <2>1
    <3> QED BY <2>1, <2>2, <3>1, AtSame
  <2>4. At(t, net.addr, net.len) # nil /\ t.value[At(t, net.addr, net.len)] = net
    BY <2>1, <2>2 DEF Match, Needed
  <2>5. net.len \in 0 .. Steps /\ p[net.len] = At(t, ip, net.len)
    BY <1>0, <1>1, <2>1
  <2> QED BY <2>1, <2>3, <2>4, <2>5
<1>4. ASSUME NEW d \in hits
      PROVE  \E net \in around : net.len = d
  <2>1. d \in 0 .. Steps /\ p[d] # nil /\ t.value[p[d]] # NoValue
    OBVIOUS
  <2>2. d \in Depths /\ p[d] = At(t, ip, d)
    BY <1>0, <1>1, <2>1 DEF Depths
  <2>3. PICK net \in nets : net.len = d /\ Agree(net.addr, ip, d)
    BY <2>1, <2>2 DEF Match
  <2>4. Covers(net, ip)
    BY <2>3 DEF Covers, Agree
  <2> QED BY <2>3, <2>4
<1>5. hits \in SUBSET (0 .. Steps)
  OBVIOUS
<1> HIDE DEF hits, around
<1>6. CASE around = {}
  <2>1. hits = {}
    BY <1>4, <1>6
  <2> QED BY <1>2, <1>6, <2>1 DEF around
<1>7. CASE around # {}
  <2>1. hits # {}
    BY <1>3, <1>7
  <2>2. PICK k \in hits : k = Max(hits) /\ \A d \in hits : k >= d
    BY <1>0, <1>5, <2>1, MaxIsGreatest
  <2>3. PICK net \in around : net.len = k
    BY <1>4, <2>2
  <2>4. Search(t, ip) = net
    BY <1>2, <1>3, <2>1, <2>2, <2>3
  <2>5. \A o \in around : o.len <= net.len
    BY <1>3, <2>2, <2>3
  <2> QED BY <1>7, <2>4, <2>5 DEF around
<1> QED BY <1>6, <1>7

(* A tree that is the trie of Record answers as Record does: of two        *)
(* networks of one length around an address there is only one.             *)
LEMMA MatchIsExact ==
  ASSUME OneName, Struct(tree), Record \subseteq Nets, Match(tree, Record)
  PROVE  Exact
<1> SUFFICES ASSUME NEW ip \in Address PROVE Search(tree, ip) = Answer(ip)
  BY DEF Exact
<1> DEFINE s == Search(tree, ip)
<1>1. /\ Around(ip) = {} => s = NoValue
      /\ Around(ip) # {} => s \in Around(ip) /\ \A o \in Around(ip) : o.len <= s.len
  <2>1. LET around == {net \in Record : Covers(net, ip)} IN
        /\ around = {} => s = NoValue
        /\ around # {} => s \in around /\ \A o \in around : o.len <= s.len
    BY SearchMatch
  <2> QED BY <2>1 DEF Around
<1> HIDE DEF s
<1>2. CASE Around(ip) = {}
  BY <1>1, <1>2 DEF Answer, s
<1>3. CASE Around(ip) # {}
  <2> DEFINE best(n) == \A o \in Around(ip) : o.len <= n.len
             c == CHOOSE n \in Around(ip) : best(n)
  <2>1. s \in Around(ip) /\ best(s)
    BY <1>1, <1>3
  <2>2. c \in Around(ip) /\ best(c)
    BY <2>1
  <2>3. Answer(ip) = c
    BY <1>3 DEF Answer
  <2> HIDE DEF c
  <2>4. c.len <= s.len /\ s.len <= c.len
    BY <2>1, <2>2
  <2>5. /\ c \in Nets /\ s \in Nets /\ Covers(c, ip) /\ Covers(s, ip)
        /\ c.len \in Nat /\ s.len \in Nat
    BY <2>1, <2>2, NetFacts DEF Around
  <2>6. c.len = s.len
    BY <2>4, <2>5
  <2>7. Agree(c.addr, s.addr, c.len)
    BY <2>5, <2>6 DEF Covers, Agree
  <2>8. c = s
    BY <2>5, <2>6, <2>7, OneNameIs
  <2> QED BY <2>3, <2>8 DEF s
<1> QED BY <1>2, <1>3

-----------------------------------------------------------------------------
(* The invariant.                                                          *)

(* The new list satisfies the invariant.                                   *)
LEMMA InitIInv == Init => IInv
<1> SUFFICES ASSUME Init PROVE IInv
  OBVIOUS
<1>1. tree = NewRadixTree /\ Record = {} /\ reused = FALSE
  BY DEF Init
<1>2. tree \in TreeType /\ Struct(tree) /\ Match(tree, Record)
  BY <1>1, NewTreeType, NewTreeMatch
<1>3. TypeOK
  BY <1>1, <1>2 DEF TypeOK, TreeType, Pointers, Pointer, Values
<1>4. IsFiniteSet(Record)
  BY <1>1, FS_EmptySet
<1> QED BY <1>2, <1>3, <1>4 DEF IInv

(* The invariant after a step speaks of the tree and Record after it.      *)
LEMMA Primed ==
  ASSUME TypeOK', IsFiniteSet(Record'),
         OneName /\ ~reused' => Struct(tree') /\ Match(tree', Record')
  PROVE  IInv'
<1>1. OneName' = OneName
  BY DEF OneName, Covers
<1>2. Struct(tree)' = Struct(tree')
  BY DEF Struct, Apart, Parents, Leaves, Fresh, At, Walk, Child
<1>3. Match(tree, Record)' = Match(tree', Record')
  BY DEF Match, Needed, At, Walk, Child
<1> QED BY <1>1, <1>2, <1>3 DEF IInv

(* AddBlackList preserves it.                                              *)
LEMMA AddIInv == ASSUME IInv, NEW net \in Nets, AddBlackList(net) PROVE IInv'
<1>1. /\ tree \in TreeType /\ Record \subseteq Nets /\ reused \in BOOLEAN /\ IsFiniteSet(Record)
      /\ OneName /\ ~reused => Struct(tree) /\ Match(tree, Record)
  BY DEF IInv, TypeOK, TreeType, Pointers, Pointer, Values
<1>2. /\ tree.used + net.len - Depth(tree, net) <= MaxNodes
      /\ tree' = insert(tree, net)
      /\ Record' = Record \cup {net}
      /\ reused' = (reused \/ (tree.free # nil /\ Depth(tree, net) < net.len))
  BY DEF AddBlackList, Add
<1>3. tree' \in TreeType
  BY <1>1, <1>2, InsertIs
<1>4. TypeOK'
  BY <1>1, <1>2, <1>3 DEF TypeOK, TreeType, Pointers, Pointer, Values
<1>5. IsFiniteSet(Record')
  BY <1>1, <1>2, FS_AddElement
<1>6. ASSUME OneName, ~reused' PROVE Struct(tree') /\ Match(tree', Record')
  <2>1. ~reused /\ (tree.free = nil \/ ~(Depth(tree, net) < net.len))
    BY <1>2, <1>6
  <2>2. Depth(tree, net) \in 0 .. net.len /\ net.len \in Nat
    BY DepthIs, NetFacts
  <2>3. tree.free = nil \/ Depth(tree, net) = net.len
    BY <2>1, <2>2
  <2>4. Struct(tree) /\ Match(tree, Record) /\ Record \in SUBSET Nets
    BY <1>1, <1>6, <2>1
  <2> QED BY <1>1, <1>2, <1>6, <2>3, <2>4, InsertMatch
<1> QED BY <1>4, <1>5, <1>6, Primed

(* RemoveBlackList preserves it.                                           *)
LEMMA DeleteIInv == ASSUME IInv, NEW net \in Nets, RemoveBlackList(net) PROVE IInv'
<1>1. /\ tree \in TreeType /\ Record \subseteq Nets /\ reused \in BOOLEAN /\ IsFiniteSet(Record)
      /\ OneName /\ ~reused => Struct(tree) /\ Match(tree, Record)
  BY DEF IInv, TypeOK, TreeType, Pointers, Pointer, Values
<1>2. /\ tree' = delete(tree, net).t
      /\ Record' = IF delete(tree, net).ret = "true" THEN Record \ {net} ELSE Record
      /\ reused' = reused
  BY DEF RemoveBlackList, Delete
<1>3. tree' \in TreeType
  BY <1>1, <1>2, DeleteType
<1>4. TypeOK'
  BY <1>1, <1>2, <1>3 DEF TypeOK, TreeType, Pointers, Pointer, Values
<1>5. IsFiniteSet(Record')
  BY <1>1, <1>2, FS_RemoveElement
<1>6. ASSUME OneName, ~reused' PROVE Struct(tree') /\ Match(tree', Record')
  <2>1. Struct(tree) /\ Match(tree, Record) /\ Record \in SUBSET Nets
    BY <1>1, <1>2, <1>6
  <2>2. LET r == delete(tree, net) IN
        Struct(r.t) /\ Match(r.t, IF r.ret = "true" THEN Record \ {net} ELSE Record)
    BY <1>1, <1>6, <2>1, DeleteMatch
  <2> QED BY <1>2, <2>2
<1> QED BY <1>4, <1>5, <1>6, Primed

(* A restart establishes it from Record alone.                             *)
LEMMA RestoreIInv == ASSUME IInv, Restore PROVE IInv'
<1> DEFINE t == Rebuild(Record)[Cardinality(Record)].t
<1>1. Record \subseteq Nets /\ IsFiniteSet(Record)
  BY DEF IInv, TypeOK
<1>2. t.used <= MaxNodes /\ tree' = t /\ reused' = FALSE /\ Record' = Record
  BY DEF Restore
<1>3. t \in TreeType
  <2>1. LET C == Cardinality(Record) IN
        C \in Nat /\ \A i \in 0 .. C : Rebuild(Record)[i].t \in TreeType
    BY <1>1, <1>2, RebuildFits
  <2> QED BY <2>1
<1>4. OneName => Struct(t) /\ Match(t, Record)
  BY <1>1, <1>2, RebuildMatch
<1> HIDE DEF t
<1>5. TypeOK'
  BY <1>1, <1>2, <1>3 DEF TypeOK, TreeType, Pointers, Pointer, Values
<1>6. IsFiniteSet(Record')
  BY <1>1, <1>2
<1> QED BY <1>2, <1>4, <1>5, <1>6, Primed

(* What is shown and persisted as the black list is enough to rebuild the  *)
(* tree of it: the invariant holds in every reachable state.               *)
LEMMA IInvHolds == Spec => []IInv
<1>1. IInv /\ [Next]_vars => IInv'
  <2> SUFFICES ASSUME IInv, [Next]_vars PROVE IInv'
    OBVIOUS
  <2>1. CASE Restore
    BY <2>1, RestoreIInv
  <2>2. ASSUME NEW net \in Nets, AddBlackList(net) PROVE IInv'
    BY <2>2, AddIInv
  <2>3. ASSUME NEW net \in Nets, RemoveBlackList(net) PROVE IInv'
    BY <2>3, DeleteIInv
  <2>4. CASE UNCHANGED vars
    <3>1. tree' = tree /\ Record' = Record /\ reused' = reused
      BY <2>4 DEF vars
    <3>2. TypeOK'
      BY <3>1 DEF IInv, TypeOK
    <3>3. OneName /\ ~reused' => Struct(tree') /\ Match(tree', Record')
      BY <3>1 DEF IInv
    <3>4. IsFiniteSet(Record')
      BY <3>1 DEF IInv
    <3> QED BY <3>2, <3>3, <3>4, Primed
  <2> QED BY <2>1, <2>2, <2>3, <2>4 DEF Next
<1> QED BY InitIInv, <1>1, PTL DEF Spec

(* Every pointer of the tree is nil or a node, whatever is added, deleted  *)
(* and rebuilt, and after the free list has corrupted the tree as well.    *)
THEOREM TypeCorrect == Spec => []TypeOK
<1>1. IInv => TypeOK
  BY DEF IInv
<1> QED BY IInvHolds, <1>1, PTL

(* Additions, deletions and restarts in any order keep the black list      *)
(* exact for every address, as long as no freed node has been used again   *)
(* and no network has two names.                                           *)
THEOREM ExactUntilReuseHolds == Spec => []ExactUntilReuse
<1>1. IInv => ExactUntilReuse
  BY MatchIsExact DEF IInv, TypeOK, ExactUntilReuse
<1> QED BY IInvHolds, <1>1, PTL

=============================================================================
