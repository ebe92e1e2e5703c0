----------------------------- MODULE RadixTree ------------------------------
(***************************************************************************)
(* The access control list of a proxy (acl/radix_tree.go): a binary trie   *)
(* over the bits of an address, with a free list of detached nodes, and    *)
(* Record, the set of networks that is shown and persisted.                *)
(*                                                                         *)
(* The heap of nodes is a record of functions; 0 is the nil pointer and 1  *)
(* the root. Addresses have Bits bits instead of 32, most significant      *)
(* first. A network is an address and the length of its mask; parsing of   *)
(* strings, whose failures change nothing, is left out. Every operation    *)
(* runs under the lock of the proxy, so it is one step.                    *)
(***************************************************************************)
EXTENDS SequencesExt

CONSTANTS
    Bits,      \* length of an address: 32 in the code
    Nets,      \* the networks an administrator may name
    NoValue,   \* the empty string: the node stands for no network
    MaxNodes   \* bound on the nodes ever allocated

nil     == 0
root    == 1
Nodes   == 1 .. MaxNodes
Address == [1 .. Bits -> {0, 1}]
NetType == [addr : Address, len : 0 .. Bits]

ASSUME RadixAssumption ==
    /\ Bits \in Nat /\ MaxNodes \in Nat \ {0}
    /\ Nets \subseteq NetType /\ NoValue \notin Nets

VARIABLES
    tree,    \* the nodes, the free list, the number of nodes allocated
    Record,  \* the networks added and not deleted
    reused   \* history: a node of the free list has been used again

vars == <<tree, Record, reused>>

(* The network contains the address.                                       *)
Covers(net, ip) == \A i \in 1 .. net.len : net.addr[i] = ip[i]

(* Loops without a counter. More turns than these would never end: they    *)
(* come back to a node.                                                    *)
Steps == Bits + MaxNodes

NewRadixTree ==
    [left   |-> [n \in Nodes |-> nil], right |-> [n \in Nodes |-> nil],
     parent |-> [n \in Nodes |-> nil], value |-> [n \in Nodes |-> NoValue],
     free   |-> nil, used |-> 1]

Child(t, n, bit) == IF bit = 1 THEN t.right[n] ELSE t.left[n]

(* The nodes met on the way down along the first bits of an address.       *)
Walk(t, addr, len) ==
    LET w[d \in 0 .. len] ==
          IF d = 0 THEN root
          ELSE LET n == w[d - 1] IN IF n = nil THEN nil ELSE Child(t, n, addr[d])
    IN  w

-----------------------------------------------------------------------------
(* A node of the free list comes back with the pointers it was freed with: *)
(* its right pointer is still the link to the next free node.              *)
newNode(t) ==
    IF t.free # nil
    THEN [node |-> t.free, t |-> [t EXCEPT !.free = t.right[t.free]]]
    ELSE [node |-> t.used + 1, t |-> [t EXCEPT !.used = @ + 1]]

(* One turn of the second loop of insert: a new node below the last one.   *)
Hang(s, bit) ==
    LET r == newNode(s.t)
        n == r.node
        linked == IF bit = 1 THEN [r.t EXCEPT !.right[s.node] = n]
                             ELSE [r.t EXCEPT !.left[s.node] = n]
    IN  [t |-> [linked EXCEPT !.parent[n] = s.node, !.value[n] = NoValue], node |-> n]

Depth(t, net) == LET w == Walk(t, net.addr, net.len)
                 IN  Max({d \in 0 .. net.len : w[d] # nil})

(* The first loop goes down as far as there are nodes.                     *)
Extend(t, net) ==
    LET s[d \in 0 .. net.len] ==
          IF d <= Depth(t, net)
          THEN [t |-> t, node |-> Walk(t, net.addr, net.len)[d]]
          ELSE Hang(s[d - 1], net.addr[d])
    IN  s

insert(t, net) ==
    LET s == Extend(t, net)[net.len] IN [s.t EXCEPT !.value[s.node] = net]

-----------------------------------------------------------------------------
(* The loop at the end of delete: unlink the node, push it on the free     *)
(* list, and go on with its parent while that is an empty leaf.            *)
Unlink(s) ==
    LET up == s.t.parent[s.node]
        unlinked == IF s.t.right[up] = s.node THEN [s.t EXCEPT !.right[up] = nil]
                                              ELSE [s.t EXCEPT !.left[up] = nil]
    IN  [t |-> [unlinked EXCEPT !.right[s.node] = s.t.free, !.free = s.node], node |-> up]

Stays(s) == \/ s.t.right[s.node] # nil \/ s.t.left[s.node] # nil
            \/ s.t.value[s.node] # NoValue
            \/ s.t.parent[s.node] = nil

Climb(t, node) ==
    LET s[i \in 0 .. Steps] ==
          IF i = 0 THEN [t |-> t, node |-> node]
          ELSE LET r == s[i - 1] IN IF i > 1 /\ Stays(r) THEN r ELSE Unlink(r)
    IN  s

FreeUp(t, node) == Climb(t, node)[Steps].t

(* Mutant: an inner node keeps its value.                                  *)
deleteKeepsValue(t, net) ==
    LET n == Walk(t, net.addr, net.len)[net.len] IN
    IF n = nil THEN [t |-> t, ret |-> "false"]
    ELSE IF t.right[n] # nil \/ t.left[n] # nil THEN [t |-> t, ret |-> "true"]
    ELSE IF t.parent[n] = nil THEN [t |-> t, ret |-> "panic"]
    ELSE [t |-> FreeUp(t, n), ret |-> "true"]

(* The result of delete: the new tree, and what it returned.               *)
delete(t, net) ==
    LET n == Walk(t, net.addr, net.len)[net.len] IN
    IF n = nil THEN [t |-> t, ret |-> "false"]
    ELSE IF t.right[n] # nil \/ t.left[n] # nil
    THEN IF t.value[n] # NoValue
         THEN [t |-> [t EXCEPT !.value[n] = NoValue], ret |-> "true"]
         ELSE [t |-> t, ret |-> "false"]
    ELSE IF t.parent[n] = nil THEN [t |-> t, ret |-> "panic"]
    ELSE [t |-> FreeUp(t, n), ret |-> "true"]

-----------------------------------------------------------------------------
(* search follows the address; once its bits are used up it goes left.     *)
SearchPath(t, ip) ==
    Walk(t, [d \in 1 .. Steps |-> IF d <= Bits THEN ip[d] ELSE 0], Steps)

Search(t, ip) ==
    LET s == SearchPath(t, ip)
        hits == {d \in 0 .. Steps : s[d] # nil /\ t.value[s[d]] # NoValue}
    IN  IF hits = {} THEN NoValue ELSE t.value[s[Max(hits)]]

-----------------------------------------------------------------------------
Init == /\ tree = NewRadixTree
        /\ Record = {}
        /\ reused = FALSE

(* Mutant: the address is recorded with a full mask.                       *)
AddAddress(net) ==
    /\ tree.used + net.len - Depth(tree, net) <= MaxNodes
    /\ tree' = insert(tree, net)
    /\ Record' = Record \cup {[net EXCEPT !.len = Bits]}
    /\ reused' = (reused \/ (tree.free # nil /\ Depth(tree, net) < net.len))

(* The network is inserted, then recorded.                                 *)
Add(net) ==
    /\ tree.used + net.len - Depth(tree, net) <= MaxNodes
    /\ tree' = insert(tree, net)
    /\ Record' = Record \cup {net}
    /\ reused' = (reused \/ (tree.free # nil /\ Depth(tree, net) < net.len))

(* RemoveBlackList logs an error and leaves Record alone when delete does  *)
(* not find the network; the panic of delete is recovered by net/http.     *)
Delete(net) ==
    LET r == delete(tree, net) IN
    /\ tree' = r.t
    /\ Record' = IF r.ret = "true" THEN Record \ {net} ELSE Record
    /\ UNCHANGED reused

(* HttpReverseProxy.Restore builds a new tree from the persisted Record.   *)
(* The order of the networks only decides the numbers of the nodes.        *)
Rebuild(nets) ==
    LET r[i \in 0 .. Cardinality(nets)] ==
          IF i = 0 THEN [t |-> NewRadixTree, rest |-> nets]
          ELSE LET net == CHOOSE x \in r[i - 1].rest : TRUE
               IN  [t |-> insert(r[i - 1].t, net), rest |-> r[i - 1].rest \ {net}]
    IN  r

Restore ==
    LET t == Rebuild(Record)[Cardinality(Record)].t IN
    /\ t.used <= MaxNodes
    /\ tree' = t
    /\ reused' = FALSE
    /\ UNCHANGED Record

(* The calls of an administrator, under the lock of the proxy; each of its *)
(* networks is a step, for a list of several is the same as several calls. *)
AddBlackList(net)    == Add(net)
RemoveBlackList(net) == Delete(net)

Next == Restore \/ \E net \in Nets : AddBlackList(net) \/ RemoveBlackList(net)

Spec == Init /\ [][Next]_vars

-----------------------------------------------------------------------------
(* Every pointer is nil or a node, every value a network an administrator  *)
(* named, and only such networks are recorded.                             *)
TypeOK ==
    /\ tree \in [left : [Nodes -> 0 .. MaxNodes], right : [Nodes -> 0 .. MaxNodes],
                 parent : [Nodes -> 0 .. MaxNodes],
                 value : [Nodes -> Nets \cup {NoValue}],
                 free : 0 .. MaxNodes, used : Nodes]
    /\ Record \subseteq Nets
    /\ reused \in BOOLEAN

(* What the list should answer: the longest recorded network around the    *)
(* address.                                                                *)
Around(ip) == {net \in Record : Covers(net, ip)}
Answer(ip) == IF Around(ip) = {} THEN NoValue
              ELSE CHOOSE net \in Around(ip) : \A o \in Around(ip) : o.len <= net.len

(* The tree answers every address as Record does.                          *)
Exact == \A ip \in Address : Search(tree, ip) = Answer(ip)

(* Two names of one network have one node, and two records.                *)
OneName == \A m, n \in Nets : m.len = n.len /\ Covers(m, n.addr) => m = n

(* Additions, deletions and restarts in any order keep the tree exact as   *)
(* long as no freed node has been used again.                              *)
ExactUntilReuse == OneName /\ ~reused => Exact
=============================================================================
