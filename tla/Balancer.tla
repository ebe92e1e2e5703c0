------------------------------ MODULE Balancer ------------------------------
(***************************************************************************)
(* The two load balancers a prefix can be bound to (balancer/), as values. *)
(*                                                                         *)
(*   mode     the algorithm the balancer was built with                    *)
(*   hosts    what Hosts() returns: RoundRobin.hosts, ConsistenceHash.list *)
(*   keys     ConsistenceHash.keys, the sorted slice of ring positions, as *)
(*            the number of times each position occurs in it               *)
(*   owner    ConsistenceHash.hosts: the host of a ring position, NoHost   *)
(*            where the Go map has no entry                                *)
(*   rlocked  a reader has taken the balancer's RWMutex and will never     *)
(*            give it back                                                 *)
(*                                                                         *)
(* RoundRobin.idx is left out: it is incremented under a read lock by      *)
(* concurrent requests, so any host of the list may be the next one.       *)
(***************************************************************************)
EXTENDS SequencesExt

CONSTANTS
    Hosts,      \* the addresses "ip:port" that can serve a prefix
    NoHost,     \* the empty string a Go map returns for a missing key
    Positions,  \* the positions of the hash ring (uint32 in the code)
    hash        \* hash[i][h]: the position of replica i of host h (crc32)

RR == "round-robin"
CH == "consistence-hash"

(* balancer.factories: the algorithms Build knows.                         *)
factories == {RR, CH}

(* NewConsistenceHash sets replicas: 3.                                    *)
Replicas == 0 .. 2

ASSUME BalancerAssumption ==
    /\ NoHost \notin Hosts
    /\ Positions \subseteq Nat
    /\ hash \in [Replicas -> [Hosts -> Positions]]

-----------------------------------------------------------------------------
NoKeys   == [x \in Positions |-> 0]
NoOwners == [x \in Positions |-> NoHost]

NewRoundRobin(hs) ==
    [mode |-> RR, hosts |-> hs, keys |-> NoKeys, owner |-> NoOwners,
     rlocked |-> FALSE]

(* The ring of a list of hosts: a position is owned by the last host that  *)
(* put a replica on it.                                                    *)
PlacedAt(hs, x) == {j \in DOMAIN hs : \E i \in Replicas : hash[i][hs[j]] = x}

NewConsistenceHash(hs) ==
    [mode |-> CH, hosts |-> hs,
     keys  |-> [x \in Positions |->
                  Cardinality({e \in Replicas \X DOMAIN hs :
                                 hash[e[1]][hs[e[2]]] = x})],
     owner |-> [x \in Positions |->
                  IF PlacedAt(hs, x) = {} THEN NoHost
                                          ELSE hs[Max(PlacedAt(hs, x))]],
     rlocked |-> FALSE]

(* Build, for an algorithm of factories.                                   *)
Build(algo, hs) ==
    IF algo = RR THEN NewRoundRobin(hs) ELSE NewConsistenceHash(hs)

-----------------------------------------------------------------------------
(* Mutant: a host that is listed is appended again.                        *)
RoundRobinAddRepeats(b, h) == [b EXCEPT !.hosts = Append(@, h)]

RoundRobinAdd(b, h) ==
    IF h \in ToSet(b.hosts) THEN b ELSE [b EXCEPT !.hosts = Append(@, h)]

WithRing(b, ks, os) == [b EXCEPT !.keys = ks, !.owner = os]

(* Add does not append to list, and adds the keys of a known host again.   *)
ConsistenceHashAdd(b, h) ==
    WithRing(b,
       [x \in Positions |->
          b.keys[x] + Cardinality({i \in Replicas : hash[i][h] = x})],
       [x \in Positions |->
          IF \E i \in Replicas : hash[i][h] = x THEN h ELSE b.owner[x]])

Add(b, h) == IF b.mode = RR THEN RoundRobinAdd(b, h)
                            ELSE ConsistenceHashAdd(b, h)

-----------------------------------------------------------------------------
(* One turn of the loop of ConsistenceHash.Remove. SearchInts returns the  *)
(* first position not below the searched one, whoever put it there; past   *)
(* the last one, slicing keys panics and the loop ends.                    *)
NotBelow(b, x) == {k \in Positions : k >= x /\ b.keys[k] > 0}

(* Mutant: the position itself is cut out, without a search.               *)
RemoveReplicaUnsearched(r, x) ==
    [b |-> WithRing(r.b, [r.b.keys EXCEPT ![x] = @ - 1],
                         [r.b.owner EXCEPT ![x] = NoHost]),
     panic |-> r.panic]

RemoveReplica(r, x) ==
    IF r.panic \/ NotBelow(r.b, x) = {} THEN [b |-> r.b, panic |-> TRUE]
    ELSE [b |-> WithRing(r.b, [r.b.keys EXCEPT ![Min(NotBelow(r.b, x))] = @ - 1],
                              [r.b.owner EXCEPT ![x] = NoHost]),
          panic |-> FALSE]

(* The first occurrence of the host is cut out of the list.                *)
Unlisted(b, h) == [b |-> [b EXCEPT !.hosts = RemoveFirst(@, h)], panic |-> FALSE]

ConsistenceHashRemove(b, h) ==
    LET r0 == [b |-> b, panic |-> FALSE]
        r1 == RemoveReplica(r0, hash[0][h])
        r2 == RemoveReplica(r1, hash[1][h])
        r3 == RemoveReplica(r2, hash[2][h])
    IN  IF r3.panic THEN r3 ELSE Unlisted(r3.b, h)

RoundRobinRemove(b, h) == Unlisted(b, h)

(* The balancer after Remove, and whether the call panicked on the way.    *)
RemoveResult(b, h) == IF b.mode = RR THEN RoundRobinRemove(b, h)
                                     ELSE ConsistenceHashRemove(b, h)

-----------------------------------------------------------------------------
(* The hosts Balance may return; it returns an error when there is none.   *)
Choosable(b) ==
    IF b.mode = RR THEN ToSet(b.hosts)
    ELSE {b.owner[x] : x \in {y \in Positions : b.keys[y] > 0}}

(* Mutant: RoundRobin.Balance does not unlock either.                      *)
AfterBalanceLeaks(b) == [b EXCEPT !.rlocked = TRUE]

(* ConsistenceHash.Balance takes the read lock and evaluates               *)
(* `defer c.RLocker()', which unlocks nothing.                             *)
AfterBalance(b) == IF b.mode = RR THEN b ELSE [b EXCEPT !.rlocked = TRUE]

Balancers == [mode : factories, hosts : Seq(Hosts),
              keys : [Positions -> Nat], owner : [Positions -> Hosts \cup {NoHost}],
              rlocked : BOOLEAN]
=============================================================================
