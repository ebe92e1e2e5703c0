----------------------------- MODULE HttpProxy ------------------------------
(***************************************************************************)
(* One HttpReverseProxy in stand mode: its routing tables and rate         *)
(* limiters, and the goroutines that use them concurrently.                *)
(*                                                                         *)
(* A goroutine runs one request at a time: an administration call of the   *)
(* HTTP server (checked by the state manager, then executed by a method of *)
(* the proxy), a call of the gRPC server, or a proxied HTTP request. The   *)
(* checks read the tables without the proxy's lock; each method of the     *)
(* proxy takes the lock once and is one step. A goroutine that blocks      *)
(* while it owns the lock never gives it back: `lock' is then its name.    *)
(*                                                                         *)
(* A panic releases the lock (every Unlock is deferred). net/http recovers *)
(* it and only ends the request; a panic of a gRPC handler ends the        *)
(* process.                                                                *)
(*                                                                         *)
(* Paths of URLs are sequences of segments, "/" is the empty one, so that  *)
(* prefix + apiPath is concatenation. The access control list has its own  *)
(* module, RadixTree: here a request may be forbidden at any time.         *)
(***************************************************************************)
EXTENDS Balancer

CONSTANTS
    Procs,      \* the goroutines
    NoProc,     \* the owner of a free lock
    Segments,   \* the segments of URL paths
    Rates,      \* the pairs (init, speed) of a rate limiter
    INF,        \* the rate of a limiter created by default: rate.INF
    ZeroSpeed,  \* a rate with speed 0, by which SetRate divides
    Algos,      \* the names of algorithms a request may carry, known or not
    Requests,   \* the requests a goroutine may receive
    MaxInfos,   \* bound on the limiter records kept for a prefix
    MaxKeys     \* bound on the times a position occurs in a hash ring

VARIABLES
    (* exported fields, written to snapshots *)
    Paths, BalancerType, RateLimiterType, StaticMapping, Available,
    (* unexported fields *)
    prefixMapping, rateLimiters, lock,
    (* the goroutines and the process *)
    pc, arg, crashed

config == <<Paths, BalancerType, RateLimiterType, StaticMapping, Available>>
routes == <<Paths, BalancerType, StaticMapping, prefixMapping>>
limits == <<RateLimiterType, rateLimiters>>
vars   == <<Paths, BalancerType, RateLimiterType, StaticMapping, Available,
            prefixMapping, rateLimiters, lock, pc, arg, crashed>>

-----------------------------------------------------------------------------
RpcOps  == {"RegisterToProxy", "Cancel", "LoadBalance"}
HttpOps == {"addHttpProxyPrefix", "removeHttpProxyPrefix", "addHttpProxyHost",
            "removeHttpProxyHost", "setRateLimiter", "changeStatic",
            "changeLb", "changeState", "ServeHTTP"}

(* The operations on one host of a prefix, the first of their `hosts'.     *)
HostOps == {"addHttpProxyHost", "removeHttpProxyHost", "RegisterToProxy", "Cancel"}

UrlPath == Seq(Segments)

(* A request and, while it runs, the local variables of its goroutine.     *)
RequestType ==
    [op : RpcOps \cup HttpOps, prefix : UrlPath, url : UrlPath,
     algo : Algos, hosts : Seq(Hosts), static : BOOLEAN, rate : Rates,
     state : BOOLEAN]

NoRequest ==
    [op |-> "ServeHTTP", prefix |-> <<>>, url |-> <<>>, algo |-> RR,
     hosts |-> <<>>, static |-> FALSE, rate |-> INF, state |-> TRUE]

(* Where the goroutine of a request starts, and where it may be later.     *)
Entry(op) == IF op = "Cancel" THEN "removeHttpProxyHost" ELSE op

Labels == {"idle", "AddPrefix", "RemovePrefix", "AddHost", "RemoveHost",
           "lbHosts", "lbRemove", "lbAdd", "GetHosts", "limit", "create",
           "createLocked", "forward"} \cup RpcOps \cup HttpOps

ASSUME ProxyAssumption ==
    /\ IsFiniteSet(Procs) /\ NoProc \notin Procs
    /\ {INF, ZeroSpeed} \subseteq Rates
    /\ INF # ZeroSpeed
    /\ factories \subseteq Algos
    /\ Requests \subseteq RequestType
    /\ \A r \in Requests : r.op \in HostOps => r.hosts # <<>>
    /\ MaxInfos \in Nat /\ MaxKeys \in Nat

(* Go maps: functions whose domain is the set of keys.                     *)
Put(f, k, v) == [x \in DOMAIN f \cup {k} |-> IF x = k THEN v ELSE f[x]]
Del(f, k)    == [x \in DOMAIN f \ {k} |-> f[x]]
Get(f, k, d) == IF k \in DOMAIN f THEN f[k] ELSE d

host(q) == arg[q].hosts[1]

PrefixExists(p)  == p \in DOMAIN Paths
HostExists(p, h) == h \in ToSet(Get(Paths, p, <<>>))
isStaticResource(p) == Get(StaticMapping, p, FALSE)

(* The key of a limiter: compeleteUrl, prefix + apiPath.                   *)
compeleteUrl(p, u) == p \o u

(* A goroutine owns the lock and waits for the write lock of p's balancer, *)
(* which also stops new readers of that balancer.                          *)
WriterWaits(p) == /\ lock # NoProc
                  /\ pc[lock] \in {"AddHost", "RemoveHost"}
                  /\ arg[lock].prefix = p

-----------------------------------------------------------------------------
At(q, label)   == ~crashed /\ pc[q] = label
LockFree       == lock = NoProc
Goto(q, label) == pc' = [pc EXCEPT ![q] = label]

Return(q) == /\ Goto(q, "idle")
             /\ arg' = [arg EXCEPT ![q] = NoRequest]
             /\ UNCHANGED crashed

Panic(q) == IF arg[q].op \in RpcOps
            THEN crashed' = TRUE /\ UNCHANGED <<pc, arg>>
            ELSE Return(q)

Init ==
    /\ Paths = <<>> /\ BalancerType = <<>> /\ StaticMapping = <<>>
    /\ RateLimiterType = <<>> /\ Available = TRUE
    /\ prefixMapping = <<>> /\ rateLimiters = <<>>
    /\ lock = NoProc
    /\ pc = [q \in Procs |-> "idle"]
    /\ arg = [q \in Procs |-> NoRequest]
    /\ crashed = FALSE

(* A request arrives at one of the servers.                                *)
Arrive(q) ==
    /\ At(q, "idle")
    /\ \E r \in Requests : /\ arg' = [arg EXCEPT ![q] = r]
                           /\ Goto(q, Entry(r.op))
    /\ UNCHANGED <<routes, limits, Available, lock, crashed>>

-----------------------------------------------------------------------------
(* The checks of the state manager. The tables are read without the lock.  *)

addHttpProxyPrefix(q) ==
    /\ At(q, "addHttpProxyPrefix")
    /\ IF PrefixExists(arg[q].prefix)
       THEN Return(q)
       ELSE Goto(q, "AddPrefix") /\ UNCHANGED <<arg, crashed>>
    /\ UNCHANGED <<routes, limits, Available, lock>>

(* Called by the HTTP server, and by Cancel for a prefix without hosts.    *)
removeHttpProxyPrefix(q) ==
    /\ At(q, "removeHttpProxyPrefix")
    /\ IF PrefixExists(arg[q].prefix)
       THEN Goto(q, "RemovePrefix") /\ UNCHANGED <<arg, crashed>>
       ELSE Return(q)
    /\ UNCHANGED <<routes, limits, Available, lock>>

addHttpProxyHost(q) ==
    /\ At(q, "addHttpProxyHost")
    /\ IF HostExists(arg[q].prefix, host(q))
       THEN Return(q)
       ELSE Goto(q, "AddHost") /\ UNCHANGED <<arg, crashed>>
    /\ UNCHANGED <<routes, limits, Available, lock>>

(* The check is the one of addHttpProxyHost: a host that exists is refused *)
(* with "host not exists".                                                 *)
removeHttpProxyHost(q) ==
    /\ At(q, "removeHttpProxyHost")
    /\ IF HostExists(arg[q].prefix, host(q))
       THEN Return(q)
       ELSE Goto(q, "RemoveHost") /\ UNCHANGED <<arg, crashed>>
    /\ UNCHANGED <<routes, limits, Available, lock>>

changeLb(q) ==
    /\ At(q, "changeLb")
    /\ LET p == arg[q].prefix IN
       IF p \in DOMAIN prefixMapping /\ prefixMapping[p].mode # arg[q].algo
       THEN Goto(q, "lbHosts") /\ UNCHANGED <<arg, crashed>>
       ELSE Return(q)
    /\ UNCHANGED <<routes, limits, Available, lock>>

-----------------------------------------------------------------------------
(* The methods of the proxy on its routing tables.                         *)

(* Mutant: the prefix is not looked up again under the lock.               *)
AddPrefixUnchecked(q) ==
    LET a == arg[q]  p == a.prefix IN
    /\ LockFree
    /\ StaticMapping' = Put(StaticMapping, p, a.static)
    /\ BalancerType' = Put(BalancerType, p, a.algo)
    /\ IF a.algo \in factories
       THEN /\ prefixMapping' = Put(prefixMapping, p, Build(a.algo, a.hosts))
            /\ Paths' = Put(Paths, p, Build(a.algo, a.hosts).hosts)
            /\ Return(q)
       ELSE Panic(q) /\ UNCHANGED <<prefixMapping, Paths>>
    /\ UNCHANGED <<limits, Available, lock>>

(* A known prefix is left alone. An unknown algorithm adds no balancer,    *)
(* and calling Hosts() on the missing one panics.                          *)
AddPrefixStep(q) ==
    LET a == arg[q]  p == a.prefix IN
    /\ LockFree
    /\ IF p \in DOMAIN prefixMapping
       THEN Return(q) /\ UNCHANGED routes
       ELSE /\ StaticMapping' = Put(StaticMapping, p, a.static)
            /\ BalancerType' = Put(BalancerType, p, a.algo)
            /\ IF a.algo \in factories
               THEN /\ prefixMapping' = Put(prefixMapping, p, Build(a.algo, a.hosts))
                    /\ Paths' = Put(Paths, p, Build(a.algo, a.hosts).hosts)
                    /\ Return(q)
               ELSE Panic(q) /\ UNCHANGED <<prefixMapping, Paths>>
    /\ UNCHANGED <<limits, Available, lock>>

AddPrefix(q) == At(q, "AddPrefix") /\ AddPrefixStep(q)

(* Mutant: the prefixer keeps the prefix.                                  *)
UnmapForgets(p) ==
    /\ Paths' = Del(Paths, p)
    /\ BalancerType' = Del(BalancerType, p)
    /\ rateLimiters' = Del(rateLimiters, p)
    /\ RateLimiterType' = Del(RateLimiterType, p)
    /\ UNCHANGED <<StaticMapping, prefixMapping>>

(* StaticMapping keeps the prefix; of the limiters only the one whose key  *)
(* is the prefix itself goes.                                              *)
Unmap(p) ==
    /\ Paths' = Del(Paths, p)
    /\ BalancerType' = Del(BalancerType, p)
    /\ rateLimiters' = Del(rateLimiters, p)
    /\ RateLimiterType' = Del(RateLimiterType, p)
    /\ prefixMapping' = Del(prefixMapping, p)
    /\ UNCHANGED StaticMapping

RemovePrefix(q) ==
    /\ At(q, "RemovePrefix")
    /\ LockFree
    /\ Unmap(arg[q].prefix)
    /\ Return(q)
    /\ UNCHANGED <<Available, lock>>

(* The balancer of a removed prefix is nil.                                *)
NilBalancer(q) ==
    /\ LockFree
    /\ arg[q].prefix \notin DOMAIN prefixMapping
    /\ Panic(q)
    /\ UNCHANGED <<routes, limits, Available, lock>>

(* The balancer's write lock is never free again: neither is the proxy's.  *)
BalancerBlocks(q) ==
    LET p == arg[q].prefix IN
    /\ LockFree
    /\ p \in DOMAIN prefixMapping
    /\ prefixMapping[p].rlocked
    /\ lock' = q
    /\ UNCHANGED <<routes, limits, Available, pc, arg, crashed>>

AddHost(q) ==
    /\ At(q, "AddHost")
    /\ \/ NilBalancer(q)
       \/ BalancerBlocks(q)
       \/ LET p == arg[q].prefix
              b == Add(prefixMapping[p], host(q)) IN
          /\ LockFree
          /\ p \in DOMAIN prefixMapping
          /\ ~prefixMapping[p].rlocked
          /\ \A x \in Positions : b.keys[x] <= MaxKeys
          /\ prefixMapping' = Put(prefixMapping, p, b)
          /\ Paths' = Put(Paths, p, b.hosts)
          /\ Return(q)
          /\ UNCHANGED <<BalancerType, StaticMapping, limits, Available, lock>>

(* Remove closes the gap in the array of the balancer's list. A goroutine  *)
(* of changeLb that holds a slice of that array sees it move; whether the  *)
(* array is still shared depends on the appends made in between.           *)
Moved(slice, hs, h) ==
    LET array == RemoveFirst(hs, h) \o <<Last(hs)>>
    IN  [i \in 1 .. Len(slice) |-> IF i <= Len(hs) THEN array[i] ELSE slice[i]]

Slices(p) == {r \in Procs : pc[r] \in {"lbRemove", "lbAdd"} /\ arg[r].prefix = p}

(* What follows RemoveHost: Cancel goes on, the HTTP handler returns.      *)
AfterRemoveHost(q, args) ==
    /\ UNCHANGED crashed
    /\ IF arg[q].op = "Cancel"
       THEN Goto(q, "GetHosts") /\ arg' = args
       ELSE Goto(q, "idle") /\ arg' = [args EXCEPT ![q] = NoRequest]

RemoveHost(q) ==
    /\ At(q, "RemoveHost")
    /\ \/ NilBalancer(q)
       \/ BalancerBlocks(q)
       \/ LET p == arg[q].prefix
              old == prefixMapping[p]
              new == RemoveResult(old, host(q)) IN
          /\ LockFree
          /\ p \in DOMAIN prefixMapping
          /\ ~old.rlocked
          /\ prefixMapping' = Put(prefixMapping, p, new.b)
          /\ IF new.panic
             THEN Panic(q) /\ UNCHANGED Paths
             ELSE /\ Paths' = Put(Paths, p, new.b.hosts)
                  /\ \E shared \in SUBSET Slices(p) :
                       AfterRemoveHost(q,
                         [r \in Procs |->
                            IF r \in shared /\ host(q) \in ToSet(old.hosts)
                            THEN [arg[r] EXCEPT !.hosts = Moved(@, old.hosts, host(q))]
                            ELSE arg[r]])
          /\ UNCHANGED <<BalancerType, StaticMapping, limits, Available, lock>>

(* Mutant: the host is removed once more instead.                          *)
GetHostsRetries(q) ==
    /\ At(q, "GetHosts")
    /\ LockFree
    /\ IF Get(Paths, arg[q].prefix, <<>>) = <<>>
       THEN Goto(q, "removeHttpProxyHost") /\ UNCHANGED <<arg, crashed>>
       ELSE Return(q)
    /\ UNCHANGED <<routes, limits, Available, lock>>

(* Cancel: the prefix is removed too when no host is left.                 *)
GetHosts(q) ==
    /\ At(q, "GetHosts")
    /\ LockFree
    /\ IF Get(Paths, arg[q].prefix, <<>>) = <<>>
       THEN Goto(q, "removeHttpProxyPrefix") /\ UNCHANGED <<arg, crashed>>
       ELSE Return(q)
    /\ UNCHANGED <<routes, limits, Available, lock>>

(* RegisterToProxy looks the prefix up under the lock, then lets go of it. *)
RegisterToProxy(q) ==
    /\ At(q, "RegisterToProxy")
    /\ LockFree
    /\ Goto(q, IF PrefixExists(arg[q].prefix) THEN "AddHost" ELSE "AddPrefix")
    /\ UNCHANGED <<routes, limits, Available, lock, arg, crashed>>

(* The flag of a prefix is inverted, also of one that is not mapped.       *)
Inverted(p) == Put(StaticMapping, p, ~isStaticResource(p))

changeStatic(q) ==
    /\ At(q, "changeStatic")
    /\ LockFree
    /\ StaticMapping' = Inverted(arg[q].prefix)
    /\ Return(q)
    /\ UNCHANGED <<Paths, BalancerType, prefixMapping, limits, Available, lock>>

changeState(q) ==
    /\ At(q, "changeState")
    /\ LockFree
    /\ Available' = arg[q].state
    /\ Return(q)
    /\ UNCHANGED <<routes, limits, lock>>

(* proxy.changeLb: the hosts are read without the lock, then the prefix is *)
(* removed and added again, each under the lock.                           *)
lbHosts(q) ==
    LET p == arg[q].prefix IN
    /\ At(q, "lbHosts")
    /\ IF p \in DOMAIN prefixMapping
       THEN /\ arg' = [arg EXCEPT ![q].hosts = prefixMapping[p].hosts,
                                  ![q].static = isStaticResource(p)]
            /\ Goto(q, "lbRemove")
            /\ UNCHANGED crashed
       ELSE Panic(q)
    /\ UNCHANGED <<routes, limits, Available, lock>>

lbRemove(q) ==
    /\ At(q, "lbRemove")
    /\ LockFree
    /\ Unmap(arg[q].prefix)
    /\ Goto(q, "lbAdd")
    /\ UNCHANGED <<Available, lock, arg, crashed>>

lbAdd(q) == At(q, "lbAdd") /\ AddPrefixStep(q)

-----------------------------------------------------------------------------
(* Proxied requests and rate limiters.                                     *)

(* Rejected: not available, forbidden, or no prefix matches.               *)
ServeRefused(q) ==
    /\ At(q, "ServeHTTP")
    /\ Return(q)
    /\ UNCHANGED <<routes, limits, Available, lock>>

(* MappingPath: the longest prefix that is mapped, "/" being the shortest. *)
Matches(path) == {n \in 0 .. Len(path) : SubSeq(path, 1, n) \in DOMAIN prefixMapping}

MappingPath(q) ==
    LET path == arg[q].url
        n == Max(Matches(path))
        p == SubSeq(path, 1, n)
        b == prefixMapping[p] IN
    /\ At(q, "ServeHTTP")
    /\ Available
    /\ Matches(path) # {}
    /\ ~WriterWaits(p)
    /\ prefixMapping' = Put(prefixMapping, p, AfterBalance(b))
    /\ IF Choosable(b) = {}
       THEN Return(q)
       ELSE /\ arg' = [arg EXCEPT ![q].prefix = p,
                                  ![q].url = SubSeq(path, n + 1, Len(path))]
            /\ Goto(q, "limit")
            /\ UNCHANGED crashed
    /\ UNCHANGED <<Paths, BalancerType, StaticMapping, limits, Available, lock>>

(* Mutant: a limiter is created without looking for one.                   *)
LimitUnchecked(q) ==
    /\ At(q, "limit")
    /\ Goto(q, "create")
    /\ UNCHANGED <<routes, limits, Available, lock, arg, crashed>>

Forward(q) == Goto(q, "forward") /\ UNCHANGED <<arg, crashed>>

(* limiter.Take: the request goes on, or is answered when no token is left.*)
Take(q) == Forward(q) \/ Return(q)

(* The limiter of the request is looked up without the lock, and one that  *)
(* is missing is created after that.                                       *)
Limit(q) ==
    LET a == arg[q] IN
    /\ At(q, "limit")
    /\ IF isStaticResource(a.prefix)
       THEN Forward(q)
       ELSE IF compeleteUrl(a.prefix, a.url) \in DOMAIN rateLimiters
       THEN Take(q)
       ELSE Goto(q, "create") /\ UNCHANGED <<arg, crashed>>
    /\ UNCHANGED <<routes, limits, Available, lock>>

(* The request is sent to the host, which answers or fails to in time. No  *)
(* lock is held; the state of the proxy may be another one by then.        *)
forwardToSpecficPath(q) ==
    /\ At(q, "forward")
    /\ Return(q)
    /\ UNCHANGED <<routes, limits, Available, lock>>

Infos(p) == Get(RateLimiterType, p, <<>>)

(* The rate of a limiter by default: it has a token for every request.     *)
NewQpsRateLimiter == INF

createRateLimiter(q) ==
    LET a == arg[q] IN
    /\ At(q, "create")
    /\ LockFree
    /\ Len(Infos(a.prefix)) < MaxInfos
    /\ rateLimiters' = Put(rateLimiters, compeleteUrl(a.prefix, a.url), NewQpsRateLimiter)
    /\ RateLimiterType' = Put(RateLimiterType, a.prefix,
                              Append(Infos(a.prefix),
                                     [url |-> a.url, rate |-> NewQpsRateLimiter]))
    /\ Forward(q)
    /\ UNCHANGED <<routes, Available, lock>>

(* The first record of the URL gets the new rate.                          *)
FirstInfo(infos, u) == SelectInSeq(infos, LAMBDA info : info.url = u)

WithRate(infos, u, r) ==
    IF FirstInfo(infos, u) = 0 THEN infos
    ELSE [infos EXCEPT ![FirstInfo(infos, u)].rate = r]

(* SetRate divides by the speed.                                           *)
SetRatePanics(r) == r = ZeroSpeed

(* Without a limiter, createRateLimiter is called with the lock held and   *)
(* locks it again. With one, the record is changed before SetRate.         *)
SetRateLimit(q) ==
    LET a == arg[q]
        key == compeleteUrl(a.prefix, a.url) IN
    /\ LockFree
    /\ IF key \notin DOMAIN rateLimiters
       THEN /\ lock' = q
            /\ Goto(q, "createLocked")
            /\ UNCHANGED <<limits, arg, crashed>>
       ELSE /\ RateLimiterType' =
                 IF a.prefix \in DOMAIN RateLimiterType
                 THEN Put(RateLimiterType, a.prefix,
                          WithRate(Infos(a.prefix), a.url, a.rate))
                 ELSE RateLimiterType
            /\ IF SetRatePanics(a.rate)
               THEN Panic(q) /\ UNCHANGED rateLimiters
               ELSE /\ rateLimiters' = Put(rateLimiters, key, a.rate)
                    /\ Return(q)
            /\ UNCHANGED lock
    /\ UNCHANGED <<routes, Available>>

(* The state manager checks nothing about the prefix or the URL.           *)
setRateLimiter(q) == At(q, "setRateLimiter") /\ SetRateLimit(q)

(* LoadBalance of the gRPC server.                                         *)
LoadBalance(q) ==
    LET p == arg[q].prefix IN
    /\ At(q, "LoadBalance")
    /\ LockFree
    /\ prefixMapping' = IF p \in DOMAIN prefixMapping
                        THEN Put(prefixMapping, p, AfterBalance(prefixMapping[p]))
                        ELSE prefixMapping
    /\ Return(q)
    /\ UNCHANGED <<Paths, BalancerType, StaticMapping, limits, Available, lock>>

-----------------------------------------------------------------------------
(* The step a goroutine with a request takes next.                         *)
Step(q) ==
    \/ addHttpProxyPrefix(q) \/ removeHttpProxyPrefix(q)
    \/ addHttpProxyHost(q) \/ removeHttpProxyHost(q)
    \/ changeLb(q) \/ lbHosts(q) \/ lbRemove(q) \/ lbAdd(q)
    \/ AddPrefix(q) \/ RemovePrefix(q) \/ AddHost(q) \/ RemoveHost(q)
    \/ GetHosts(q) \/ RegisterToProxy(q) \/ LoadBalance(q)
    \/ changeStatic(q) \/ changeState(q)
    \/ ServeRefused(q) \/ MappingPath(q) \/ Limit(q)
    \/ createRateLimiter(q) \/ forwardToSpecficPath(q) \/ setRateLimiter(q)

Next == \E q \in Procs : Arrive(q) \/ Step(q)

Spec == Init /\ [][Next]_vars

(* The Go scheduler runs every goroutine that can run.                     *)
FairSpec == Spec /\ \A q \in Procs : WF_vars(Step(q))

-----------------------------------------------------------------------------
(* Properties.                                                             *)

IsMap(f, S, T) == DOMAIN f \subseteq S /\ f \in [DOMAIN f -> T]

(* Every field has the type of its Go declaration, nil map values excluded.*)
TypeOK ==
    /\ IsMap(Paths, UrlPath, Seq(Hosts))
    /\ IsMap(BalancerType, UrlPath, Algos)
    /\ IsMap(StaticMapping, UrlPath, BOOLEAN)
    /\ IsMap(RateLimiterType, UrlPath, Seq([url : UrlPath, rate : Rates]))
    /\ IsMap(rateLimiters, UrlPath, Rates)
    /\ IsMap(prefixMapping, UrlPath, Balancers)
    /\ Available \in BOOLEAN /\ crashed \in BOOLEAN
    /\ lock \in Procs \cup {NoProc}
    /\ pc \in [Procs -> Labels]
    /\ arg \in [Procs -> RequestType]

(* What the snapshots persist of the routing is what the proxy routes by:  *)
(* Paths, BalancerType and the prefixer have the same prefixes, hosts and  *)
(* algorithms after every method, also one that panicked half way.         *)
RoutesAgree ==
    /\ DOMAIN Paths = DOMAIN prefixMapping
    /\ \A p \in DOMAIN prefixMapping :
         /\ Paths[p] = prefixMapping[p].hosts
         /\ p \in DOMAIN BalancerType /\ BalancerType[p] = prefixMapping[p].mode
         /\ p \in DOMAIN StaticMapping

(* A step leaves a host listed unless a RemoveHost call takes it away.     *)
KeepsHosts ==
    \A p \in DOMAIN prefixMapping \cap DOMAIN prefixMapping' :
      \A h \in ToSet(prefixMapping[p].hosts) \ ToSet(prefixMapping'[p].hosts) :
        \E q \in Procs : /\ pc[q] = "RemoveHost"
                         /\ arg[q].prefix = p
                         /\ host(q) = h

(* A prefix that stays mapped keeps its listed hosts, whatever AddPrefix   *)
(* calls race for it: only a RemoveHost call for that host takes it away.  *)
HostsKept == [][KeepsHosts]_vars

(* Lists without repetitions, and no changeLb beside a RemoveHost: Remove  *)
(* compacts the array changeLb reads, which then may list a host twice.    *)
Sends(ops) == \E r \in Requests : r.op \in ops

PlainRequests ==
    /\ \A r \in Requests : IsInjective(r.hosts)
    /\ ~(Sends({"changeLb"}) /\ Sends({"removeHttpProxyHost", "Cancel"}))

(* No balancer lists a host twice ("reject repeated adds", round_robin.go),*)
(* although the state manager checks before the lock is taken.             *)
NoDuplicateHosts ==
    PlainRequests =>
      \A p \in DOMAIN prefixMapping : IsInjective(prefixMapping[p].hosts)

(* A limiter is found by prefix + apiPath alone. Removing another prefix   *)
(* deletes it when its key is that prefix, and setting the rate of a URL   *)
(* under another prefix changes it when the key can be split there too.    *)
Named == {r.prefix : r \in {x \in Requests : x.op \notin {"ServeHTTP", "changeState"}}}

Kept(p, u) == compeleteUrl(p, u) \notin Named \ {p}
Sole(p, u) == \A other \in Named \ {p} : ~IsPrefix(other, compeleteUrl(p, u))

(* The records of a URL are as many as the requests that missed its        *)
(* limiter at the same time: at most one for each goroutine.               *)
Recorded(p, u) == {i \in DOMAIN Infos(p) : Infos(p)[i].url = u}

RecordsBounded ==
    \A p \in DOMAIN RateLimiterType :
      \A i \in DOMAIN Infos(p) :
        Kept(p, Infos(p)[i].url) =>
          Cardinality(Recorded(p, Infos(p)[i].url)) <= Cardinality(Procs)

(* The rate a URL is limited by is one that is recorded for it, and so can *)
(* come back after a restart, although SetRateLimit changes the first      *)
(* record, createRateLimiter appends one, and both race. A record with     *)
(* speed 0 stands for a SetRate that panicked. RemovePrefix deletes the    *)
(* records and leaves the limiter.                                         *)
RatesOf(p, u) == {Infos(p)[i].rate : i \in Recorded(p, u)}

RatesRecorded ==
    \A p \in DOMAIN RateLimiterType :
      \A i \in DOMAIN Infos(p) :
        LET u == Infos(p)[i].url  key == compeleteUrl(p, u) IN
        Sole(p, u) /\ key \in DOMAIN rateLimiters /\ ZeroSpeed \notin RatesOf(p, u)
          => rateLimiters[key] \in RatesOf(p, u)

(* The lock is kept for ever in two cases only: SetRateLimit without a     *)
(* limiter, and a change of the hosts of a consistent hash ring after its  *)
(* first Balance.                                                          *)
LockLost ==
    lock # NoProc =>
      \/ pc[lock] = "createLocked"
      \/ /\ pc[lock] \in {"AddHost", "RemoveHost"}
         /\ arg[lock].prefix \in DOMAIN prefixMapping
         /\ prefixMapping[arg[lock].prefix].mode = CH
         /\ prefixMapping[arg[lock].prefix].rlocked

(* Every request ends, unless the lock is lost, for which LockLost names   *)
(* the only reasons, or the process is.                                    *)
RequestsEnd ==
    \A q \in Procs : pc[q] # "idle" ~> pc[q] = "idle" \/ crashed \/ lock # NoProc

-----------------------------------------------------------------------------
(* The abstract table is what the snapshots persist.                       *)
Route(p) == [algo |-> BalancerType[p], hosts |-> Paths[p], static |-> StaticMapping[p]]
Table    == [p \in DOMAIN Paths |-> Route(p)]

Routing == INSTANCE RoutingTable WITH Algorithms <- factories, table <- Table

(* The proxy implements RoutingTable: however the checks, the methods and  *)
(* the three steps of changeLb interleave, and wherever one panics, each   *)
(* step of the program is one operation on one prefix, or none.            *)
ImplementsTable == Routing!Spec
=============================================================================
