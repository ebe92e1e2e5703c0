-------------------------- MODULE HttpProxyProofs ---------------------------
(***************************************************************************)
(* HttpProxy and StandMode for any number of goroutines, hosts, prefixes   *)
(* and requests. The tables of a proxy keep their types, the persisted     *)
(* ones agree with the one that is used for routing, no step loses a host, *)
(* and the tables implement RoutingTable. The lock is lost for the known   *)
(* reasons only. The records of a limiter are bounded, they include the    *)
(* rate in use, and hosts are not listed twice. A node in stand mode keeps *)
(* the types, the agreement and the rates across snapshots and restarts.   *)
(***************************************************************************)
EXTENDS StandMode, BalancerProofs

-----------------------------------------------------------------------------
(* The inductive invariant. Its first half is about the tables; the second *)
(* one says that a goroutine which is about to use its host has one, which *)
(* changeLb, the only one to replace its list of hosts, never takes away.  *)

HostLabels == {"addHttpProxyHost", "removeHttpProxyHost", "AddHost",
               "RemoveHost", "RegisterToProxy"}
LbLabels == {"changeLb", "lbHosts"}

DataInv ==
    /\ IsMap(Paths, UrlPath, Seq(Hosts))
    /\ IsMap(BalancerType, UrlPath, Algos)
    /\ IsMap(StaticMapping, UrlPath, BOOLEAN)
    /\ IsMap(RateLimiterType, UrlPath, Seq([url : UrlPath, rate : Rates]))
    /\ IsMap(rateLimiters, UrlPath, Rates)
    /\ IsMap(prefixMapping, UrlPath, Balancers)
    /\ Available \in BOOLEAN
    /\ RoutesAgree

CtrlInv ==
    /\ crashed \in BOOLEAN
    /\ lock \in Procs \cup {NoProc}
    /\ pc \in [Procs -> Labels]
    /\ arg \in [Procs -> RequestType]
    /\ \A q \in Procs : /\ pc[q] \in HostLabels => arg[q].op \in HostOps
                        /\ pc[q] \in LbLabels => arg[q].op \notin HostOps
                        /\ arg[q].op \in HostOps => arg[q].hosts # <<>>

IInv == DataInv /\ CtrlInv

(* The invariant gives the type invariant of the module.                   *)
LEMMA IInvType == IInv => TypeOK /\ RoutesAgree
  BY DEF IInv, DataInv, CtrlInv, TypeOK

-----------------------------------------------------------------------------
(* Control.                                                                *)

(* The local variables of a goroutine without a request.                   *)
LEMMA NoRequestType == NoRequest \in RequestType /\ NoRequest.op \notin HostOps
<1>1. INF \in Rates
  BY ProxyAssumption
<1>2. <<>> \in UrlPath /\ <<>> \in Seq(Hosts)
  BY DEF UrlPath
<1>3. RR \in Algos
  BY ProxyAssumption DEF factories
<1>4. "ServeHTTP" \in RpcOps \cup HttpOps /\ "ServeHTTP" \notin HostOps
  BY DEF RpcOps, HttpOps, HostOps
<1> QED BY <1>1, <1>2, <1>3, <1>4 DEF NoRequest, RequestType

(* The end of a request keeps the second half of the invariant.            *)
LEMMA ReturnCtrl ==
  ASSUME CtrlInv, NEW q \in Procs, Return(q), lock' \in Procs \cup {NoProc}
  PROVE  CtrlInv'
  BY NoRequestType DEF CtrlInv, Return, Goto, Labels, HostLabels, LbLabels

(* So does a panic.                                                        *)
LEMMA PanicCtrl ==
  ASSUME CtrlInv, NEW q \in Procs, Panic(q), lock' \in Procs \cup {NoProc}
  PROVE  CtrlInv'
<1>1. CASE arg[q].op \in RpcOps
  BY <1>1 DEF Panic, CtrlInv
<1>2. CASE arg[q].op \notin RpcOps
  BY <1>2, ReturnCtrl DEF Panic
<1> QED BY <1>1, <1>2

(* And moving on to a label, with a host where the label needs one.        *)
LEMMA GotoCtrl ==
  ASSUME CtrlInv, NEW q \in Procs, NEW label \in Labels, Goto(q, label),
         label \in HostLabels => arg[q].op \in HostOps,
         label \in LbLabels => arg[q].op \notin HostOps,
         UNCHANGED <<arg, crashed>>, lock' \in Procs \cup {NoProc}
  PROVE  CtrlInv'
  BY DEF CtrlInv, Goto

(* The host of a request on one host.                                      *)
LEMMA HostType ==
  ASSUME CtrlInv, NEW q \in Procs, pc[q] \in HostLabels
  PROVE  host(q) \in Hosts
  BY DEF CtrlInv, host, RequestType

-----------------------------------------------------------------------------
(* The tables.                                                             *)

(* What the steps that leave the tables alone keep.                        *)
LEMMA SameData ==
  ASSUME DataInv, UNCHANGED <<routes, limits, Available>>
  PROVE  DataInv' /\ KeepsHosts
  BY DEF DataInv, RoutesAgree, IsMap, routes, limits, KeepsHosts

(* A balancer of a mapped prefix is replaced, and its hosts stored.        *)
LEMMA ReplaceBalancer ==
  ASSUME DataInv, NEW p \in DOMAIN prefixMapping, NEW b \in Balancers,
         b.mode = prefixMapping[p].mode,
         prefixMapping' = Put(prefixMapping, p, b),
         Paths' = Put(Paths, p, b.hosts),
         UNCHANGED <<BalancerType, StaticMapping, limits, Available>>
  PROVE  DataInv'
<1>1. p \in UrlPath
  BY DEF DataInv, IsMap
<1>2. b.hosts \in Seq(Hosts)
  BY DEF Balancers
<1>3. /\ IsMap(prefixMapping', UrlPath, Balancers)
      /\ DOMAIN prefixMapping' = DOMAIN prefixMapping
      /\ prefixMapping'[p] = b
      /\ \A x \in DOMAIN prefixMapping : x # p => prefixMapping'[x] = prefixMapping[x]
  <2>1. IsMap(prefixMapping, UrlPath, Balancers)
    BY DEF DataInv
  <2> QED BY <1>1, <2>1 DEF IsMap, Put
<1>4. /\ IsMap(Paths', UrlPath, Seq(Hosts))
      /\ DOMAIN Paths' = DOMAIN Paths \cup {p}
      /\ Paths'[p] = b.hosts
      /\ \A x \in DOMAIN Paths : x # p => Paths'[x] = Paths[x]
  <2>1. IsMap(Paths, UrlPath, Seq(Hosts))
    BY DEF DataInv
  <2> QED BY <1>1, <1>2, <2>1 DEF IsMap, Put
<1>5. RoutesAgree'
  BY <1>3, <1>4 DEF DataInv, RoutesAgree
<1> QED BY <1>3, <1>4, <1>5 DEF DataInv, limits, IsMap

(* Balance changes no list of hosts.                                       *)
LEMMA BalanceData ==
  ASSUME DataInv, NEW p \in DOMAIN prefixMapping,
         prefixMapping' = Put(prefixMapping, p, AfterBalance(prefixMapping[p])),
         UNCHANGED <<Paths, BalancerType, StaticMapping, limits, Available>>
  PROVE  DataInv' /\ KeepsHosts
<1> DEFINE b == AfterBalance(prefixMapping[p])
<1>1. p \in UrlPath /\ prefixMapping[p] \in Balancers
  BY DEF DataInv, IsMap
<1>2. b \in Balancers /\ b.mode = prefixMapping[p].mode
      /\ b.hosts = prefixMapping[p].hosts
  BY <1>1, AfterBalanceType
<1> HIDE DEF b
<1>3. /\ IsMap(prefixMapping', UrlPath, Balancers)
      /\ DOMAIN prefixMapping' = DOMAIN prefixMapping
      /\ prefixMapping'[p] = b
      /\ \A x \in DOMAIN prefixMapping : x # p => prefixMapping'[x] = prefixMapping[x]
  <2>1. IsMap(prefixMapping, UrlPath, Balancers)
    BY DEF DataInv
  <2> QED BY <1>1, <1>2, <2>1 DEF IsMap, Put, b
<1>4. RoutesAgree'
  BY <1>2, <1>3 DEF DataInv, RoutesAgree
<1>5. DataInv'
  BY <1>3, <1>4 DEF DataInv, limits, IsMap
<1>6. KeepsHosts
  BY <1>2, <1>3 DEF KeepsHosts
<1> QED BY <1>5, <1>6

(* RemovePrefix takes the prefix out of every table at once.               *)
LEMMA UnmapData ==
  ASSUME DataInv, NEW p, Unmap(p), UNCHANGED Available
  PROVE  DataInv' /\ KeepsHosts
<1>1. /\ IsMap(prefixMapping', UrlPath, Balancers)
      /\ DOMAIN prefixMapping' = DOMAIN prefixMapping \ {p}
      /\ \A x \in DOMAIN prefixMapping : x # p => prefixMapping'[x] = prefixMapping[x]
  <2>1. IsMap(prefixMapping, UrlPath, Balancers) /\ prefixMapping' = Del(prefixMapping, p)
    BY DEF DataInv, Unmap
  <2> QED BY <2>1 DEF IsMap, Del
<1>2. /\ IsMap(Paths', UrlPath, Seq(Hosts))
      /\ DOMAIN Paths' = DOMAIN Paths \ {p}
      /\ \A x \in DOMAIN Paths : x # p => Paths'[x] = Paths[x]
  <2>1. IsMap(Paths, UrlPath, Seq(Hosts)) /\ Paths' = Del(Paths, p)
    BY DEF DataInv, Unmap
  <2> QED BY <2>1 DEF IsMap, Del
<1>3. /\ IsMap(BalancerType', UrlPath, Algos)
      /\ DOMAIN BalancerType' = DOMAIN BalancerType \ {p}
      /\ \A x \in DOMAIN BalancerType : x # p => BalancerType'[x] = BalancerType[x]
  <2>1. IsMap(BalancerType, UrlPath, Algos) /\ BalancerType' = Del(BalancerType, p)
    BY DEF DataInv, Unmap
  <2> QED BY <2>1 DEF IsMap, Del
<1>4. /\ IsMap(RateLimiterType', UrlPath, Seq([url : UrlPath, rate : Rates]))
      /\ IsMap(rateLimiters', UrlPath, Rates)
  <2>1. /\ IsMap(RateLimiterType, UrlPath, Seq([url : UrlPath, rate : Rates])) /\ RateLimiterType' = Del(RateLimiterType, p)
        /\ IsMap(rateLimiters, UrlPath, Rates) /\ rateLimiters' = Del(rateLimiters, p)
    BY DEF DataInv, Unmap
  <2> QED BY <2>1 DEF IsMap, Del
<1>5. StaticMapping' = StaticMapping
  BY DEF Unmap
<1>6. RoutesAgree'
  BY <1>1, <1>2, <1>3, <1>5 DEF DataInv, RoutesAgree
<1>7. DataInv'
  BY <1>1, <1>2, <1>3, <1>4, <1>5, <1>6 DEF DataInv, IsMap
<1>8. KeepsHosts
  BY <1>1 DEF KeepsHosts
<1> QED BY <1>7, <1>8

(* AddPrefix adds the prefix to every table, leaves them alone when it is  *)
(* mapped, or panics before it adds it to the two that agree.              *)
LEMMA AddPrefixData ==
  ASSUME DataInv, CtrlInv, NEW q \in Procs, AddPrefixStep(q)
  PROVE  DataInv' /\ KeepsHosts /\ CtrlInv'
<1> DEFINE a == arg[q]
           p == a.prefix
<1>0. a \in RequestType
  BY DEF CtrlInv
<1>1. p \in UrlPath /\ a.algo \in Algos /\ a.hosts \in Seq(Hosts) /\ a.static \in BOOLEAN
  BY <1>0 DEF RequestType
<1>2. lock' = lock /\ lock' \in Procs \cup {NoProc}
  BY DEF AddPrefixStep, CtrlInv
<1>3. CASE p \in DOMAIN prefixMapping
  <2>1. Return(q) /\ UNCHANGED <<routes, limits, Available>>
    BY <1>3 DEF AddPrefixStep
  <2> QED BY <1>2, <2>1, SameData, ReturnCtrl
<1>4. CASE p \notin DOMAIN prefixMapping
  <2>1. /\ StaticMapping' = Put(StaticMapping, p, a.static)
        /\ BalancerType' = Put(BalancerType, p, a.algo)
        /\ UNCHANGED <<limits, Available>>
    BY <1>4 DEF AddPrefixStep
  <2>2. /\ IsMap(StaticMapping', UrlPath, BOOLEAN)
        /\ DOMAIN StaticMapping' = DOMAIN StaticMapping \cup {p}
    <3>1. IsMap(StaticMapping, UrlPath, BOOLEAN)
      BY DEF DataInv
    <3> QED BY <1>1, <2>1, <3>1 DEF IsMap, Put
  <2>3. /\ IsMap(BalancerType', UrlPath, Algos)
        /\ DOMAIN BalancerType' = DOMAIN BalancerType \cup {p}
        /\ BalancerType'[p] = a.algo
        /\ \A x \in DOMAIN BalancerType : x # p => BalancerType'[x] = BalancerType[x]
    <3>1. IsMap(BalancerType, UrlPath, Algos)
      BY DEF DataInv
    <3> QED BY <1>1, <2>1, <3>1 DEF IsMap, Put
  <2>4. CASE a.algo \in factories
    <3> DEFINE b == Build(a.algo, a.hosts)
    <3>1. b \in Balancers /\ b.mode = a.algo /\ b.hosts = a.hosts
      BY <1>1, <2>4, BuildType
    <3>2. /\ prefixMapping' = Put(prefixMapping, p, b)
          /\ Paths' = Put(Paths, p, b.hosts)
          /\ Return(q)
      BY <1>4, <2>4 DEF AddPrefixStep
    <3> HIDE DEF b, p
    <3>3. /\ IsMap(prefixMapping', UrlPath, Balancers)
          /\ DOMAIN prefixMapping' = DOMAIN prefixMapping \cup {p}
          /\ prefixMapping'[p] = b
          /\ \A x \in DOMAIN prefixMapping : x # p => prefixMapping'[x] = prefixMapping[x]
      <4>1. IsMap(prefixMapping, UrlPath, Balancers)
        BY DEF DataInv
      <4> QED BY <1>1, <3>1, <3>2, <4>1 DEF IsMap, Put
    <3>4. /\ IsMap(Paths', UrlPath, Seq(Hosts))
          /\ DOMAIN Paths' = DOMAIN Paths \cup {p}
          /\ Paths'[p] = b.hosts
          /\ \A x \in DOMAIN Paths : x # p => Paths'[x] = Paths[x]
      <4>1. IsMap(Paths, UrlPath, Seq(Hosts))
        BY DEF DataInv
      <4> QED BY <1>1, <3>1, <3>2, <4>1 DEF IsMap, Put
    <3>5. RoutesAgree'
      BY <2>2, <2>3, <3>1, <3>3, <3>4 DEF DataInv, RoutesAgree
    <3>6. DataInv'
      BY <2>1, <2>2, <2>3, <3>3, <3>4, <3>5 DEF DataInv, limits, IsMap
    <3>7. KeepsHosts
      BY <1>4, <3>3 DEF KeepsHosts
    <3> QED BY <1>2, <3>2, <3>6, <3>7, ReturnCtrl
  <2>5. CASE a.algo \notin factories
    <3>1. UNCHANGED <<prefixMapping, Paths>> /\ Panic(q)
      BY <1>4, <2>5 DEF AddPrefixStep
    <3>2. RoutesAgree'
      BY <1>4, <2>2, <2>3, <3>1 DEF DataInv, RoutesAgree
    <3>3. DataInv'
      BY <2>1, <2>2, <2>3, <3>1, <3>2 DEF DataInv, limits, IsMap
    <3>4. KeepsHosts
      BY <3>1 DEF KeepsHosts
    <3> QED BY <1>2, <3>1, <3>3, <3>4, PanicCtrl
  <2> QED BY <2>4, <2>5
<1> QED BY <1>3, <1>4

-----------------------------------------------------------------------------
(* The actions that change the hosts of a prefix.                          *)

(* The two ways AddHost and RemoveHost end without touching the tables.    *)
LEMMA HostFails ==
  ASSUME DataInv, CtrlInv, NEW q \in Procs, NilBalancer(q) \/ BalancerBlocks(q)
  PROVE  DataInv' /\ KeepsHosts /\ CtrlInv'
<1>1. UNCHANGED <<routes, limits, Available>>
  BY DEF NilBalancer, BalancerBlocks
<1>2. CASE NilBalancer(q)
  <2>1. Panic(q) /\ lock' \in Procs \cup {NoProc}
    BY <1>2 DEF NilBalancer, CtrlInv
  <2> QED BY <1>1, <2>1, SameData, PanicCtrl
<1>3. CASE BalancerBlocks(q)
  <2>1. CtrlInv'
    BY <1>3 DEF BalancerBlocks, CtrlInv
  <2> QED BY <1>1, <2>1, SameData
<1> QED BY <1>2, <1>3

(* AddHost.                                                                *)
LEMMA AddHostKeeps ==
  ASSUME DataInv, CtrlInv, NEW q \in Procs, AddHost(q)
  PROVE  DataInv' /\ KeepsHosts /\ CtrlInv'
<1> DEFINE p == arg[q].prefix
           old == prefixMapping[p]
           b == Add(old, host(q))
<1>1. CASE NilBalancer(q) \/ BalancerBlocks(q)
  BY <1>1, HostFails
<1>2. CASE ~(NilBalancer(q) \/ BalancerBlocks(q))
  <2>1. /\ p \in DOMAIN prefixMapping
        /\ prefixMapping' = Put(prefixMapping, p, b)
        /\ Paths' = Put(Paths, p, b.hosts)
        /\ Return(q)
        /\ UNCHANGED <<BalancerType, StaticMapping, limits, Available, lock>>
    BY <1>2 DEF AddHost
  <2>2. host(q) \in Hosts
    BY HostType DEF AddHost, At, HostLabels
  <2>3. old \in Balancers
    BY <2>1 DEF DataInv, IsMap
  <2>4. b \in Balancers /\ b.mode = old.mode /\ ToSet(old.hosts) \subseteq ToSet(b.hosts)
    BY <2>2, <2>3, AddType
  <2>5. DOMAIN prefixMapping' = DOMAIN prefixMapping /\ prefixMapping'[p] = b
        /\ \A x \in DOMAIN prefixMapping : x # p => prefixMapping'[x] = prefixMapping[x]
    BY <2>1 DEF Put
  <2> HIDE DEF b
  <2>6. DataInv'
    BY <2>1, <2>4, ReplaceBalancer
  <2>7. KeepsHosts
    BY <2>4, <2>5 DEF KeepsHosts
  <2>8. CtrlInv'
    BY <2>1, ReturnCtrl DEF CtrlInv
  <2> QED BY <2>6, <2>7, <2>8
<1> QED BY <1>1, <1>2

(* A slice that moves keeps its length.                                    *)
LEMMA MovedType ==
  ASSUME NEW slice \in Seq(Hosts), NEW hs \in Seq(Hosts), NEW h \in ToSet(hs)
  PROVE  Moved(slice, hs, h) \in Seq(Hosts) /\ Len(Moved(slice, hs, h)) = Len(slice)
<1> DEFINE rest == RemoveFirst(hs, h)
           array == rest \o <<Last(hs)>>
<1>1. rest \in Seq(Hosts) /\ Len(rest) = Len(hs) - 1
  BY RemoveFirstType
<1>2. Len(hs) # 0
  BY DEF ToSet
<1>3. Last(hs) \in Hosts
  BY <1>2 DEF Last
<1> HIDE DEF rest
<1>4. array \in Seq(Hosts) /\ Len(array) = Len(hs)
  BY <1>1, <1>3
<1>5. Moved(slice, hs, h) =
        [i \in 1 .. Len(slice) |-> IF i <= Len(hs) THEN array[i] ELSE slice[i]]
  BY DEF Moved, rest
<1> HIDE DEF array
<1>6. \A i \in 1 .. Len(slice) : i <= Len(hs) => array[i] \in Hosts
  BY <1>4
<1>7. \A i \in 1 .. Len(slice) : slice[i] \in Hosts
  OBVIOUS
<1> QED BY <1>5, <1>6, <1>7

(* RemoveHost.                                                             *)
LEMMA RemoveHostKeeps ==
  ASSUME DataInv, CtrlInv, NEW q \in Procs, RemoveHost(q)
  PROVE  DataInv' /\ KeepsHosts /\ CtrlInv'
<1> DEFINE p == arg[q].prefix
           old == prefixMapping[p]
           new == RemoveResult(old, host(q))
<1>1. CASE NilBalancer(q) \/ BalancerBlocks(q)
  BY <1>1, HostFails
<1>2. CASE ~(NilBalancer(q) \/ BalancerBlocks(q))
  <2>1. /\ p \in DOMAIN prefixMapping
        /\ prefixMapping' = Put(prefixMapping, p, new.b)
        /\ UNCHANGED <<BalancerType, StaticMapping, limits, Available, lock>>
    BY <1>2 DEF RemoveHost
  <2>2. host(q) \in Hosts /\ pc[q] = "RemoveHost"
    BY HostType DEF RemoveHost, At, HostLabels
  <2>3. old \in Balancers /\ old.hosts \in Seq(Hosts) /\ p \in UrlPath
    BY <2>1 DEF DataInv, IsMap, Balancers
  <2>4. /\ new.b \in Balancers /\ new.b.mode = old.mode
        /\ new.b.hosts = IF new.panic THEN old.hosts ELSE RemoveFirst(old.hosts, host(q))
    BY <2>2, <2>3, RemoveType DEF Partial
  <2>5. /\ DOMAIN prefixMapping' = DOMAIN prefixMapping
        /\ prefixMapping'[p] = new.b
        /\ \A x \in DOMAIN prefixMapping : x # p => prefixMapping'[x] = prefixMapping[x]
    BY <2>1 DEF Put
  <2>6. \A h \in ToSet(old.hosts) : h # host(q) => h \in ToSet(RemoveFirst(old.hosts, host(q)))
    BY <2>3, RemoveFirstType
  <2>7. lock' \in Procs \cup {NoProc}
    BY <2>1 DEF CtrlInv
  <2>8. CASE new.panic
    <3>1. Panic(q) /\ UNCHANGED Paths
      BY <1>2, <2>8 DEF RemoveHost
    <3>2. CtrlInv'
      BY <2>7, <3>1, PanicCtrl
    <3> HIDE DEF new
    <3>3. IsMap(prefixMapping, UrlPath, Balancers)
      BY DEF DataInv
    <3>4. IsMap(prefixMapping', UrlPath, Balancers)
      BY <2>1, <2>3, <2>4, <3>3 DEF IsMap, Put
    <3>5. RoutesAgree'
      BY <2>1, <2>4, <2>5, <2>8, <3>1 DEF DataInv, RoutesAgree
    <3>6. DataInv'
      BY <2>1, <3>1, <3>4, <3>5 DEF DataInv, limits, IsMap
    <3>7. KeepsHosts
      BY <2>4, <2>5, <2>8 DEF KeepsHosts
    <3> QED BY <3>2, <3>6, <3>7
  <2>9. CASE ~new.panic
    <3>1. Paths' = Put(Paths, p, new.b.hosts)
      BY <1>2, <2>9 DEF RemoveHost
    <3>2. PICK shared \in SUBSET Slices(p) :
            AfterRemoveHost(q,
              [r \in Procs |->
                 IF r \in shared /\ host(q) \in ToSet(old.hosts)
                 THEN [arg[r] EXCEPT !.hosts = Moved(@, old.hosts, host(q))]
                 ELSE arg[r]])
      BY <1>2, <2>9 DEF RemoveHost
    <3> DEFINE args == [r \in Procs |->
                          IF r \in shared /\ host(q) \in ToSet(old.hosts)
                          THEN [arg[r] EXCEPT !.hosts = Moved(@, old.hosts, host(q))]
                          ELSE arg[r]]
    <3>3. AfterRemoveHost(q, args)
      BY <3>2
    <3>4. \A r \in Procs : /\ args[r] \in RequestType
                           /\ args[r].op = arg[r].op
                           /\ Len(args[r].hosts) = Len(arg[r].hosts)
      <4>1. SUFFICES ASSUME NEW r \in Procs
                     PROVE  /\ args[r] \in RequestType
                            /\ args[r].op = arg[r].op
                            /\ Len(args[r].hosts) = Len(arg[r].hosts)
        OBVIOUS
      <4>2. arg[r] \in RequestType /\ arg[r].hosts \in Seq(Hosts)
        BY DEF CtrlInv, RequestType
      <4>3. CASE r \in shared /\ host(q) \in ToSet(old.hosts)
        <5> DEFINE m == Moved(arg[r].hosts, old.hosts, host(q))
        <5>1. m \in Seq(Hosts) /\ Len(m) = Len(arg[r].hosts)
          BY <2>3, <4>2, <4>3, MovedType
        <5>2. args[r] = [arg[r] EXCEPT !.hosts = m]
          BY <4>3
        <5> HIDE DEF m, args
        <5> QED BY <4>2, <5>1, <5>2 DEF RequestType
      <4>4. CASE ~(r \in shared /\ host(q) \in ToSet(old.hosts))
        BY <4>2, <4>4
      <4> QED BY <4>3, <4>4
    <3>5. args \in [Procs -> RequestType]
      BY <3>4
    <3> HIDE DEF args, new
    <3>6. DataInv'
      BY <2>1, <2>4, <3>1, ReplaceBalancer
    <3>7. KeepsHosts
      BY <2>2, <2>4, <2>5, <2>6, <2>9 DEF KeepsHosts
    <3>8. CtrlInv'
      <4>1. \A r \in Procs : arg[r].op \in HostOps => args[r].hosts # <<>>
        <5>1. \A r \in Procs : arg[r].hosts \in Seq(Hosts) /\ args[r].hosts \in Seq(Hosts)
          BY <3>4 DEF CtrlInv, RequestType
        <5> QED BY <3>4, <5>1 DEF CtrlInv
      <4>2. CASE arg[q].op = "Cancel"
        BY <2>7, <3>3, <3>4, <3>5, <4>1, <4>2
           DEF AfterRemoveHost, Goto, CtrlInv, Labels, HostLabels, LbLabels, HostOps
      <4>3. CASE arg[q].op # "Cancel"
        BY <2>7, <3>3, <3>4, <3>5, <4>1, <4>3, NoRequestType
           DEF AfterRemoveHost, Goto, CtrlInv, Labels, HostLabels, LbLabels
      <4> QED BY <4>2, <4>3
    <3> QED BY <3>6, <3>7, <3>8
  <2> QED BY <2>8, <2>9
<1> QED BY <1>1, <1>2

-----------------------------------------------------------------------------
(* The other actions.                                                      *)

(* The arrival of a request.                                               *)
LEMMA ArriveKeeps ==
  ASSUME DataInv, CtrlInv, NEW q \in Procs, Arrive(q)
  PROVE  DataInv' /\ KeepsHosts /\ CtrlInv'
<1>1. PICK r \in Requests : arg' = [arg EXCEPT ![q] = r] /\ Goto(q, Entry(r.op))
  BY DEF Arrive
<1>2. r \in RequestType /\ (r.op \in HostOps => r.hosts # <<>>)
  BY ProxyAssumption
<1>3. r.op \in RpcOps \cup HttpOps
  BY <1>2 DEF RequestType
<1>4. /\ Entry(r.op) \in Labels
      /\ Entry(r.op) \in HostLabels => r.op \in HostOps
      /\ Entry(r.op) \in LbLabels => r.op \notin HostOps
  BY <1>3 DEF Entry, Labels, RpcOps, HttpOps, HostLabels, LbLabels, HostOps
<1>5. CtrlInv'
  BY <1>1, <1>2, <1>4 DEF CtrlInv, Goto, Arrive
<1>6. UNCHANGED <<routes, limits, Available>>
  BY DEF Arrive
<1> QED BY <1>5, <1>6, SameData

(* The checks of the state manager and the other steps that only read.     *)
LEMMA ReadsKeep ==
  ASSUME DataInv, CtrlInv, NEW q \in Procs,
         \/ addHttpProxyPrefix(q) \/ removeHttpProxyPrefix(q)
         \/ addHttpProxyHost(q) \/ removeHttpProxyHost(q) \/ changeLb(q)
         \/ GetHosts(q) \/ RegisterToProxy(q) \/ ServeRefused(q) \/ Limit(q)
         \/ forwardToSpecficPath(q)
  PROVE  DataInv' /\ KeepsHosts /\ CtrlInv'
<1>1. UNCHANGED <<routes, limits, Available, lock>>
  BY DEF addHttpProxyPrefix, removeHttpProxyPrefix, addHttpProxyHost,
         removeHttpProxyHost, changeLb, GetHosts, RegisterToProxy, ServeRefused, Limit,
         forwardToSpecficPath
<1>2. lock' \in Procs \cup {NoProc}
  BY <1>1 DEF CtrlInv
<1>3. /\ pc[q] \in HostLabels => arg[q].op \in HostOps
      /\ pc[q] \in LbLabels => arg[q].op \notin HostOps
  BY DEF CtrlInv
<1>4. \/ Return(q)
      \/ \E label \in Labels :
           /\ Goto(q, label) /\ UNCHANGED <<arg, crashed>>
           /\ label \in HostLabels => pc[q] \in HostLabels
           /\ label \in LbLabels => pc[q] \in LbLabels
  BY DEF addHttpProxyPrefix, removeHttpProxyPrefix, addHttpProxyHost,
         removeHttpProxyHost, changeLb, GetHosts, RegisterToProxy, ServeRefused,
         Limit, forwardToSpecficPath, Forward, Take, At, Labels, HttpOps, HostLabels, LbLabels
<1>5. CtrlInv'
  BY <1>2, <1>3, <1>4, ReturnCtrl, GotoCtrl
<1> QED BY <1>1, <1>5, SameData

(* The end of RemovePrefix and the first half of changeLb.                 *)
LEMMA RemovesKeep ==
  ASSUME DataInv, CtrlInv, NEW q \in Procs, RemovePrefix(q) \/ lbRemove(q)
  PROVE  DataInv' /\ KeepsHosts /\ CtrlInv'
<1>1. Unmap(arg[q].prefix) /\ UNCHANGED Available /\ lock' \in Procs \cup {NoProc}
  BY DEF RemovePrefix, lbRemove, CtrlInv
<1>2. CASE RemovePrefix(q)
  BY <1>1, <1>2, UnmapData, ReturnCtrl DEF RemovePrefix
<1>3. CASE lbRemove(q)
  <2>1. "lbAdd" \in Labels /\ "lbAdd" \notin HostLabels \cup LbLabels
    BY DEF Labels, HostLabels, LbLabels
  <2>2. Goto(q, "lbAdd") /\ UNCHANGED <<arg, crashed>>
    BY <1>3 DEF lbRemove
  <2>3. CtrlInv'
    BY <1>1, <2>1, <2>2, GotoCtrl
  <2> QED BY <1>1, <2>3, UnmapData
<1> QED BY <1>2, <1>3

(* changeLb reads the hosts into the goroutine.                            *)
LEMMA lbHostsKeeps ==
  ASSUME DataInv, CtrlInv, NEW q \in Procs, lbHosts(q)
  PROVE  DataInv' /\ KeepsHosts /\ CtrlInv'
<1> DEFINE p == arg[q].prefix
<1>1. UNCHANGED <<routes, limits, Available, lock>> /\ pc[q] = "lbHosts"
  BY DEF lbHosts, At
<1>2. lock' \in Procs \cup {NoProc}
  BY <1>1 DEF CtrlInv
<1>3. CASE p \in DOMAIN prefixMapping
  <2> DEFINE hs == prefixMapping[p].hosts
             st == isStaticResource(p)
             a  == [arg[q] EXCEPT !.hosts = hs, !.static = st]
  <2>1. /\ arg' = [arg EXCEPT ![q].hosts = hs, ![q].static = st]
        /\ Goto(q, "lbRemove") /\ UNCHANGED crashed
    BY <1>3 DEF lbHosts
  <2>2. hs \in Seq(Hosts)
    BY <1>3 DEF DataInv, IsMap, Balancers
  <2>3. st \in BOOLEAN
    BY DEF isStaticResource, Get, DataInv, IsMap
  <2>4. arg \in [Procs -> RequestType] /\ arg[q] \in RequestType
    BY DEF CtrlInv
  <2> HIDE DEF hs, st
  <2>5. arg' = [arg EXCEPT ![q] = a]
    BY <2>1, <2>4 DEF RequestType
  <2>6. a \in RequestType /\ a.op = arg[q].op
    BY <2>2, <2>3, <2>4 DEF RequestType
  <2>7. \A r \in Procs : arg'[r].op = arg[r].op /\ (r # q => arg'[r] = arg[r])
    BY <2>4, <2>5, <2>6
  <2>8. arg[q].op \notin HostOps
    BY <1>1 DEF CtrlInv, LbLabels
  <2>9. \A r \in Procs : arg'[r].op \in HostOps => arg'[r].hosts # <<>>
    BY <2>7, <2>8 DEF CtrlInv
  <2>10. arg' \in [Procs -> RequestType]
    BY <2>4, <2>5, <2>6
  <2>11. pc' = [pc EXCEPT ![q] = "lbRemove"]
    BY <2>1 DEF Goto
  <2>12. CtrlInv'
    BY <1>2, <2>1, <2>7, <2>9, <2>10, <2>11 DEF CtrlInv, Labels, HostLabels, LbLabels
  <2> QED BY <1>1, <2>12, SameData
<1>4. CASE p \notin DOMAIN prefixMapping
  <2>1. Panic(q)
    BY <1>4 DEF lbHosts
  <2> QED BY <1>1, <1>2, <2>1, SameData, PanicCtrl
<1> QED BY <1>3, <1>4

(* MappingPath balances on the longest prefix of the path that is mapped.  *)
LEMMA MappingPathKeeps ==
  ASSUME DataInv, CtrlInv, NEW q \in Procs, MappingPath(q)
  PROVE  DataInv' /\ KeepsHosts /\ CtrlInv'
<1> DEFINE path == arg[q].url
           n == Max(Matches(path))
           p == SubSeq(path, 1, n)
           rest == SubSeq(path, n + 1, Len(path))
           b == prefixMapping[p]
<1>1. arg \in [Procs -> RequestType] /\ arg[q] \in RequestType
  BY DEF CtrlInv
<1>2. path \in Seq(Segments) /\ Len(path) \in Nat
  BY <1>1 DEF RequestType, UrlPath
<1> HIDE DEF path
<1>3. Matches(path) \subseteq 0 .. Len(path) /\ Matches(path) # {}
  BY DEF MappingPath, Matches, path
<1>4. n \in Matches(path)
  BY <1>2, <1>3, MaxIsGreatest
<1>5. n \in 0 .. Len(path) /\ p \in DOMAIN prefixMapping
  BY <1>4 DEF Matches
<1> HIDE DEF n
<1>6. p \in UrlPath /\ rest \in UrlPath
  BY <1>2, <1>5 DEF UrlPath
<1> HIDE DEF p, rest
<1>7. /\ prefixMapping' = Put(prefixMapping, p, AfterBalance(b))
      /\ UNCHANGED <<Paths, BalancerType, StaticMapping, limits, Available, lock>>
  BY DEF MappingPath, p, n, path
<1>8. DataInv' /\ KeepsHosts
  BY <1>5, <1>7, BalanceData
<1>9. lock' \in Procs \cup {NoProc}
  BY <1>7 DEF CtrlInv
<1>10. CASE Choosable(b) = {}
  BY <1>8, <1>9, <1>10, ReturnCtrl DEF MappingPath, p, n, path
<1>11. CASE Choosable(b) # {}
  <2> DEFINE a == [arg[q] EXCEPT !.prefix = p, !.url = rest]
  <2>1. /\ arg' = [arg EXCEPT ![q].prefix = p, ![q].url = rest]
        /\ Goto(q, "limit") /\ UNCHANGED crashed
    BY <1>11 DEF MappingPath, p, rest, n, path
  <2>2. arg' = [arg EXCEPT ![q] = a]
    BY <1>1, <2>1 DEF RequestType
  <2>3. a \in RequestType /\ a.op = arg[q].op /\ a.hosts = arg[q].hosts
    BY <1>1, <1>6 DEF RequestType
  <2> HIDE DEF a
  <2>4. \A r \in Procs : arg'[r].op = arg[r].op /\ arg'[r].hosts = arg[r].hosts
    BY <1>1, <2>2, <2>3
  <2>5. arg' \in [Procs -> RequestType]
    BY <1>1, <2>2, <2>3
  <2>6. pc' = [pc EXCEPT ![q] = "limit"]
    BY <2>1 DEF Goto
  <2>7. CtrlInv'
    BY <1>9, <2>1, <2>4, <2>5, <2>6 DEF CtrlInv, Labels, HostLabels, LbLabels
  <2> QED BY <1>8, <2>7
<1> QED BY <1>10, <1>11

(* LoadBalance of the gRPC server.                                         *)
LEMMA LoadBalanceKeeps ==
  ASSUME DataInv, CtrlInv, NEW q \in Procs, LoadBalance(q)
  PROVE  DataInv' /\ KeepsHosts /\ CtrlInv'
<1> DEFINE p == arg[q].prefix
<1>1. /\ Return(q)
      /\ UNCHANGED <<Paths, BalancerType, StaticMapping, limits, Available, lock>>
  BY DEF LoadBalance
<1>2. CtrlInv'
  BY <1>1, ReturnCtrl DEF CtrlInv
<1>3. CASE p \in DOMAIN prefixMapping
  <2>1. prefixMapping' = Put(prefixMapping, p, AfterBalance(prefixMapping[p]))
    BY <1>3 DEF LoadBalance
  <2> QED BY <1>1, <1>2, <1>3, <2>1, BalanceData
<1>4. CASE p \notin DOMAIN prefixMapping
  <2>1. UNCHANGED <<routes, limits, Available>>
    BY <1>1, <1>4 DEF LoadBalance, routes
  <2> QED BY <1>2, <2>1, SameData
<1> QED BY <1>3, <1>4

(* changeStatic and changeState.                                           *)
LEMMA FlagsKeep ==
  ASSUME DataInv, CtrlInv, NEW q \in Procs, changeStatic(q) \/ changeState(q)
  PROVE  DataInv' /\ KeepsHosts /\ CtrlInv'
<1>0. arg[q] \in RequestType
  BY DEF CtrlInv
<1>1. Return(q) /\ lock' \in Procs \cup {NoProc} /\ UNCHANGED <<limits, prefixMapping>>
  BY DEF changeStatic, changeState, CtrlInv, routes
<1>2. CtrlInv' /\ KeepsHosts
  BY <1>1, ReturnCtrl DEF KeepsHosts
<1>3. CASE changeStatic(q)
  <2> DEFINE p == arg[q].prefix
             st == ~isStaticResource(p)
  <2>1. p \in UrlPath
    BY <1>0 DEF RequestType
  <2>2. st \in BOOLEAN
    OBVIOUS
  <2>3. /\ StaticMapping' = Put(StaticMapping, p, st)
        /\ UNCHANGED <<Paths, BalancerType, prefixMapping, limits, Available>>
    BY <1>3 DEF changeStatic, Inverted
  <2> HIDE DEF p, st
  <2>4. IsMap(StaticMapping, UrlPath, BOOLEAN)
    BY DEF DataInv
  <2>5. /\ IsMap(StaticMapping', UrlPath, BOOLEAN)
        /\ DOMAIN StaticMapping' = DOMAIN StaticMapping \cup {p}
    BY <2>1, <2>2, <2>3, <2>4 DEF IsMap, Put
  <2>6. RoutesAgree'
    BY <2>3, <2>5 DEF DataInv, RoutesAgree
  <2>7. DataInv'
    BY <2>3, <2>5, <2>6 DEF DataInv, IsMap, limits
  <2> QED BY <1>2, <2>7
<1>4. CASE changeState(q)
  <2>1. Available' \in BOOLEAN /\ UNCHANGED <<routes, limits>>
    BY <1>0, <1>4 DEF changeState, RequestType
  <2>2. DataInv'
    BY <2>1 DEF DataInv, RoutesAgree, IsMap, routes, limits
  <2> QED BY <1>2, <2>2
<1> QED BY <1>3, <1>4

-----------------------------------------------------------------------------
(* The rate limiters.                                                      *)

Info == [url : UrlPath, rate : Rates]

(* New limiters and records of the right types are all the tables need.    *)
LEMMA LimitsData ==
  ASSUME DataInv, UNCHANGED <<routes, Available>>,
         IsMap(RateLimiterType', UrlPath, Seq(Info)),
         IsMap(rateLimiters', UrlPath, Rates)
  PROVE  DataInv' /\ KeepsHosts
  BY DEF DataInv, RoutesAgree, IsMap, routes, KeepsHosts, Info

(* The records of a prefix, those of an unknown one being none.            *)
LEMMA InfosType ==
  ASSUME DataInv, NEW p
  PROVE  Infos(p) \in Seq(Info)
<1>1. IsMap(RateLimiterType, UrlPath, Seq(Info))
  BY DEF DataInv, Info
<1>2. <<>> \in Seq(Info)
  OBVIOUS
<1> QED BY <1>1, <1>2 DEF Infos, Get, IsMap

(* The search for the first record of a URL.                               *)
LEMMA FirstInfoType ==
  ASSUME NEW infos \in Seq(Info), NEW u
  PROVE  FirstInfo(infos, u) \in 0 .. Len(infos)
<1> DEFINE I == {i \in 1 .. Len(infos) : infos[i].url = u}
<1>1. FirstInfo(infos, u) = IF I = {} THEN 0 ELSE Min(I)
  BY DEF FirstInfo, SelectInSeq
<1>2. I \in SUBSET Nat /\ I \subseteq 0 .. Len(infos)
  OBVIOUS
<1> HIDE DEF I
<1>3. I # {} => Min(I) \in I
  BY <1>2, MinIsLeast
<1>4. I # {} => Min(I) \in 0 .. Len(infos)
  BY <1>2, <1>3
<1>5. 0 \in 0 .. Len(infos)
  OBVIOUS
<1> QED BY <1>1, <1>4, <1>5

(* Changing the rate of a record leaves a list of records.                 *)
LEMMA WithRateType ==
  ASSUME NEW infos \in Seq(Info), NEW u, NEW r \in Rates
  PROVE  WithRate(infos, u, r) \in Seq(Info)
<1> DEFINE k == FirstInfo(infos, u)
<1>1. k \in 0 .. Len(infos)
  BY FirstInfoType
<1>2. WithRate(infos, u, r) = IF k = 0 THEN infos ELSE [infos EXCEPT ![k].rate = r]
  BY DEF WithRate
<1> HIDE DEF k
<1>3. CASE k # 0
  <2>1. k \in 1 .. Len(infos) /\ infos[k] \in Info
    BY <1>1, <1>3
  <2>2. [infos[k] EXCEPT !.rate = r] \in Info
    BY <2>1 DEF Info
  <2>3. WithRate(infos, u, r) = [infos EXCEPT ![k] = [infos[k] EXCEPT !.rate = r]]
    BY <1>2, <1>3, <2>1
  <2> QED BY <2>1, <2>2, <2>3
<1> QED BY <1>2, <1>3

(* createRateLimiter.                                                      *)
LEMMA CreateKeeps ==
  ASSUME DataInv, CtrlInv, NEW q \in Procs, createRateLimiter(q)
  PROVE  DataInv' /\ KeepsHosts /\ CtrlInv'
<1> DEFINE a == arg[q]
           key == compeleteUrl(a.prefix, a.url)
           infos == Append(Infos(a.prefix), [url |-> a.url, rate |-> INF])
<1>1. a.prefix \in UrlPath /\ a.url \in UrlPath
  BY DEF CtrlInv, RequestType
<1>2. key \in UrlPath
  BY <1>1 DEF compeleteUrl, UrlPath
<1>3. INF \in Rates
  BY ProxyAssumption
<1>4. infos \in Seq(Info)
  <2>1. Infos(a.prefix) \in Seq(Info)
    BY InfosType
  <2>2. [url |-> a.url, rate |-> INF] \in Info
    BY <1>1, <1>3 DEF Info
  <2> QED BY <2>1, <2>2
<1>5. /\ rateLimiters' = Put(rateLimiters, key, INF)
      /\ RateLimiterType' = Put(RateLimiterType, a.prefix, infos)
      /\ Forward(q) /\ UNCHANGED <<routes, Available, lock>>
  BY DEF createRateLimiter, NewQpsRateLimiter
<1>6. /\ IsMap(RateLimiterType, UrlPath, Seq(Info))
      /\ IsMap(rateLimiters, UrlPath, Rates)
  BY DEF DataInv, Info
<1> HIDE DEF key, infos, a
<1>7. IsMap(RateLimiterType', UrlPath, Seq(Info))
  BY <1>1, <1>4, <1>5, <1>6 DEF IsMap, Put
<1>8. IsMap(rateLimiters', UrlPath, Rates)
  BY <1>2, <1>3, <1>5, <1>6 DEF IsMap, Put
<1>9. CtrlInv'
  <2>1. lock' \in Procs \cup {NoProc}
    BY <1>5 DEF CtrlInv
  <2>2. "forward" \in Labels /\ "forward" \notin HostLabels \cup LbLabels
    BY DEF Labels, HostLabels, LbLabels
  <2> QED BY <1>5, <2>1, <2>2, GotoCtrl DEF Forward
<1> QED BY <1>5, <1>7, <1>8, <1>9, LimitsData

(* SetRateLimit.                                                           *)
LEMMA SetRateKeeps ==
  ASSUME DataInv, CtrlInv, NEW q \in Procs, SetRateLimit(q)
  PROVE  DataInv' /\ KeepsHosts /\ CtrlInv'
<1> DEFINE a == arg[q]
           key == compeleteUrl(a.prefix, a.url)
           infos == WithRate(Infos(a.prefix), a.url, a.rate)
<1>1. a.prefix \in UrlPath /\ a.url \in UrlPath /\ a.rate \in Rates
  BY DEF CtrlInv, RequestType
<1>2. key \in UrlPath
  BY <1>1 DEF compeleteUrl, UrlPath
<1>3. UNCHANGED <<routes, Available>>
  BY DEF SetRateLimit
<1>4. CASE key \notin DOMAIN rateLimiters
  <2>1. lock' = q /\ Goto(q, "createLocked") /\ UNCHANGED <<limits, arg, crashed>>
    BY <1>4 DEF SetRateLimit
  <2>2. "createLocked" \in Labels /\ "createLocked" \notin HostLabels \cup LbLabels
    BY DEF Labels, HostLabels, LbLabels
  <2>3. CtrlInv'
    BY <2>1, <2>2, GotoCtrl
  <2> QED BY <1>3, <2>1, <2>3, SameData
<1>5. CASE key \in DOMAIN rateLimiters
  <2>1. /\ RateLimiterType' = IF a.prefix \in DOMAIN RateLimiterType
                              THEN Put(RateLimiterType, a.prefix, infos)
                              ELSE RateLimiterType
        /\ \/ Panic(q) /\ UNCHANGED rateLimiters
           \/ rateLimiters' = Put(rateLimiters, key, a.rate) /\ Return(q)
        /\ UNCHANGED lock
    BY <1>5 DEF SetRateLimit
  <2>2. infos \in Seq(Info)
    BY <1>1, InfosType, WithRateType
  <2>3. /\ IsMap(RateLimiterType, UrlPath, Seq(Info))
        /\ IsMap(rateLimiters, UrlPath, Rates)
    BY DEF DataInv, Info
  <2> HIDE DEF key, infos, a
  <2>4. IsMap(RateLimiterType', UrlPath, Seq(Info))
    BY <1>1, <2>1, <2>2, <2>3 DEF IsMap, Put
  <2>5. IsMap(rateLimiters', UrlPath, Rates)
    BY <1>1, <1>2, <2>1, <2>3 DEF IsMap, Put
  <2>6. CtrlInv'
    <3>1. lock' \in Procs \cup {NoProc}
      BY <2>1 DEF CtrlInv
    <3> QED BY <2>1, <3>1, ReturnCtrl, PanicCtrl
  <2> QED BY <1>3, <2>4, <2>5, <2>6, LimitsData
<1> QED BY <1>4, <1>5

-----------------------------------------------------------------------------
(* The theorems.                                                           *)

(* A new proxy satisfies the invariant.                                    *)
LEMMA InitIInv == Init => IInv
<1> SUFFICES ASSUME Init PROVE IInv
  OBVIOUS
<1>1. \A S, T : IsMap(<<>>, S, T)
  BY DEF IsMap
<1>2. DataInv
  BY <1>1 DEF Init, DataInv, RoutesAgree
<1>3. CtrlInv
  BY NoRequestType DEF Init, CtrlInv, Labels, HostLabels, LbLabels
<1> QED BY <1>2, <1>3 DEF IInv

(* Every step keeps the invariant and the hosts.                           *)
LEMMA NextIInv == IInv /\ [Next]_vars => IInv' /\ KeepsHosts
<1> SUFFICES ASSUME DataInv, CtrlInv, [Next]_vars
             PROVE  DataInv' /\ KeepsHosts /\ CtrlInv'
  BY DEF IInv
<1>1. CASE UNCHANGED vars
  <2>1. UNCHANGED <<routes, limits, Available>>
    BY <1>1 DEF vars, routes, limits
  <2>2. CtrlInv'
    BY <1>1 DEF vars, CtrlInv
  <2> QED BY <2>1, <2>2, SameData
<1>2. ASSUME NEW q \in Procs, Arrive(q) \/ Step(q)
      PROVE  DataInv' /\ KeepsHosts /\ CtrlInv'
  <2>1. CASE Arrive(q)
    BY <2>1, ArriveKeeps
  <2>2. CASE \/ addHttpProxyPrefix(q) \/ removeHttpProxyPrefix(q)
             \/ addHttpProxyHost(q) \/ removeHttpProxyHost(q) \/ changeLb(q)
             \/ GetHosts(q) \/ RegisterToProxy(q) \/ ServeRefused(q) \/ Limit(q)
             \/ forwardToSpecficPath(q)
    BY <2>2, ReadsKeep
  <2>3. CASE AddPrefix(q) \/ lbAdd(q)
    BY <2>3, AddPrefixData DEF AddPrefix, lbAdd
  <2>4. CASE RemovePrefix(q) \/ lbRemove(q)
    BY <2>4, RemovesKeep
  <2>5. CASE lbHosts(q)
    BY <2>5, lbHostsKeeps
  <2>6. CASE AddHost(q)
    BY <2>6, AddHostKeeps
  <2>7. CASE RemoveHost(q)
    BY <2>7, RemoveHostKeeps
  <2>8. CASE LoadBalance(q)
    BY <2>8, LoadBalanceKeeps
  <2>9. CASE changeStatic(q) \/ changeState(q)
    BY <2>9, FlagsKeep
  <2>10. CASE MappingPath(q)
    BY <2>10, MappingPathKeeps
  <2>11. CASE createRateLimiter(q)
    BY <2>11, CreateKeeps
  <2>12. CASE setRateLimiter(q)
    BY <2>12, SetRateKeeps DEF setRateLimiter
  <2> QED BY <1>2, <2>1, <2>2, <2>3, <2>4, <2>5, <2>6, <2>7, <2>8, <2>9,
             <2>10, <2>11, <2>12 DEF Step
<1> QED BY <1>1, <1>2 DEF Next

(* The inductive invariant holds in every state of the proxy.              *)
THEOREM IInvHolds == Spec => []IInv
<1>1. IInv /\ [Next]_vars => IInv'
  BY NextIInv
<1> QED BY <1>1, InitIInv, PTL DEF Spec

(* The tables and the goroutines keep their types, for any number of       *)
(* goroutines and any interleaving of their unlocked checks.               *)
THEOREM TypeCorrect == Spec => []TypeOK
<1>1. IInv => TypeOK
  BY IInvType
<1> QED BY <1>1, IInvHolds, PTL

(* Paths and BalancerType, which snapshots persist, agree with the         *)
(* prefixer that routes requests, after every method and every panic.      *)
THEOREM RoutesAgreeHolds == Spec => []RoutesAgree
<1>1. IInv => RoutesAgree
  BY IInvType
<1> QED BY <1>1, IInvHolds, PTL

(* No step of any goroutine drops a host of a prefix that stays mapped,    *)
(* but RemoveHost for that host.                                           *)
THEOREM HostsKeptHolds == Spec => HostsKept
<1>1. IInv /\ [Next]_vars => [KeepsHosts]_vars
  BY NextIInv
<1> QED BY <1>1, IInvHolds, PTL DEF Spec, HostsKept

-----------------------------------------------------------------------------
(* The proxy implements RoutingTable.                                      *)

(* The routes of the other prefixes stay, and so does the one of p.        *)
OtherRoutes(p) ==
    \A x \in DOMAIN Paths \cup DOMAIN Paths' :
      x # p => x \in DOMAIN Paths /\ x \in DOMAIN Paths' /\ Route(x)' = Route(x)

SameRoute(p) ==
    /\ p \in DOMAIN Paths <=> p \in DOMAIN Paths'
    /\ p \in DOMAIN Paths => Route(p)' = Route(p)

(* The invariant makes every route after a step one of the abstract table. *)
LEMMA RouteTypeNext ==
  ASSUME DataInv', NEW p \in DOMAIN Paths'
  PROVE  Route(p)' \in Routing!Routes
<1>1. /\ p \in DOMAIN prefixMapping' /\ p \in DOMAIN StaticMapping'
      /\ BalancerType'[p] = prefixMapping'[p].mode
  BY DEF DataInv, RoutesAgree
<1>2. BalancerType'[p] \in factories
  BY <1>1 DEF DataInv, IsMap, Balancers
<1>3. Paths'[p] \in Seq(Hosts) /\ StaticMapping'[p] \in BOOLEAN
  BY <1>1 DEF DataInv, IsMap
<1> QED BY <1>2, <1>3 DEF Route, Routing!Routes

(* A step that changes no route changes nothing of the table.              *)
LEMMA SameTable ==
  ASSUME NEW p, OtherRoutes(p), SameRoute(p)
  PROVE  UNCHANGED Table
<1>1. DOMAIN Paths' = DOMAIN Paths
  BY DEF OtherRoutes, SameRoute
<1>2. \A x \in DOMAIN Paths : Route(x)' = Route(x)
  BY DEF OtherRoutes, SameRoute
<1> QED BY <1>1, <1>2 DEF Table

(* The abstract table uses the operators on sequences of the balancers.    *)
LEMMA SameOperators ==
  ASSUME NEW s
  PROVE  /\ Routing!ToSet(s) = ToSet(s)
         /\ \A e : Routing!RemoveFirst(s, e) = RemoveFirst(s, e)
<1>1. Routing!ToSet(s) = ToSet(s)
  BY DEF ToSet, Routing!ToSet
<1>2. ASSUME NEW e
      PROVE  Routing!RemoveFirst(s, e) = RemoveFirst(s, e)
  BY DEF RemoveFirst, SelectInSeq, RemoveAt, Min, Routing!RemoveFirst,
         Routing!SelectInSeq, Routing!RemoveAt, Routing!Min
<1> QED BY <1>1, <1>2

(* A step that changes the route of one prefix by an operation of the      *)
(* abstract table is a step of it.                                         *)
LEMMA TableStep ==
  ASSUME NEW p, OtherRoutes(p), p \in DOMAIN Paths \cup DOMAIN Paths',
         \/ /\ p \notin DOMAIN Paths /\ p \in DOMAIN Paths'
            /\ Route(p)' \in Routing!Routes
         \/ p \in DOMAIN Paths /\ p \notin DOMAIN Paths'
         \/ /\ p \in DOMAIN Paths /\ p \in DOMAIN Paths'
            /\ \/ \E h \in Hosts \ ToSet(Route(p).hosts) :
                    Route(p)' = [Route(p) EXCEPT !.hosts = Append(@, h)]
               \/ \E h \in ToSet(Route(p).hosts) :
                    Route(p)' = [Route(p) EXCEPT !.hosts = RemoveFirst(@, h)]
               \/ Route(p)' = [Route(p) EXCEPT !.static = ~@]
  PROVE  Routing!Next
<1>1. /\ DOMAIN Table = DOMAIN Paths /\ \A x \in DOMAIN Paths : Table[x] = Route(x)
      /\ DOMAIN Table' = DOMAIN Paths' /\ \A x \in DOMAIN Paths' : Table'[x] = Route(x)'
  BY DEF Table
<1> HIDE DEF Table, Route
<1>2. Routing!Only(p)
  BY <1>1 DEF Routing!Only, OtherRoutes
<1>3. p \in DOMAIN Table \cup DOMAIN Table'
  BY <1>1
<1>4. \A u : /\ Routing!ToSet(u) = ToSet(u)
             /\ \A e : Routing!RemoveFirst(u, e) = RemoveFirst(u, e)
  BY SameOperators
<1>5. \/ Routing!AddPrefix(p) \/ Routing!RemovePrefix(p)
      \/ Routing!AddHost(p) \/ Routing!RemoveHost(p) \/ Routing!ChangeStatic(p)
  <2>1. CASE p \notin DOMAIN Paths \/ p \notin DOMAIN Paths'
    BY <1>1, <2>1 DEF Routing!AddPrefix, Routing!RemovePrefix
  <2>2. CASE p \in DOMAIN Paths /\ p \in DOMAIN Paths'
    <3>1. Routing!Stays(p) /\ Table[p] = Route(p) /\ Table'[p] = Route(p)'
      BY <1>1, <2>2 DEF Routing!Stays
    <3>2. ASSUME NEW h \in Hosts \ ToSet(Route(p).hosts),
                 Route(p)' = [Route(p) EXCEPT !.hosts = Append(@, h)]
          PROVE  Routing!AddHost(p)
      BY <1>4, <3>1, <3>2 DEF Routing!AddHost
    <3>3. ASSUME NEW h \in ToSet(Route(p).hosts),
                 Route(p)' = [Route(p) EXCEPT !.hosts = RemoveFirst(@, h)]
          PROVE  Routing!RemoveHost(p)
      BY <1>4, <3>1, <3>3 DEF Routing!RemoveHost
    <3>4. ASSUME Route(p)' = [Route(p) EXCEPT !.static = ~@]
          PROVE  Routing!ChangeStatic(p)
      BY <3>1, <3>4 DEF Routing!ChangeStatic
    <3> QED BY <2>2, <3>2, <3>3, <3>4
  <2> QED BY <2>1, <2>2
<1> QED BY <1>2, <1>3, <1>5 DEF Routing!Next

(* AddPrefix adds a route, or none when the prefix is mapped or the        *)
(* algorithm unknown: what it writes then belongs to no route.             *)
LEMMA AddPrefixMaps ==
  ASSUME DataInv, CtrlInv, NEW q \in Procs, AddPrefixStep(q)
  PROVE  [Routing!Next]_Table
<1> DEFINE a == arg[q]
<1>0. PICK p : p = a.prefix
  OBVIOUS
<1>1. DOMAIN Paths = DOMAIN prefixMapping
  BY DEF DataInv, RoutesAgree
<1>2. CASE p \in DOMAIN prefixMapping
  BY <1>0, <1>2 DEF AddPrefixStep, routes, Table, Route
<1>3. CASE p \notin DOMAIN prefixMapping
  <2>1. /\ StaticMapping' = Put(StaticMapping, p, a.static)
        /\ BalancerType' = Put(BalancerType, p, a.algo)
    BY <1>0, <1>3 DEF AddPrefixStep
  <2>2. \A x \in DOMAIN Paths : /\ x # p
                                /\ StaticMapping'[x] = StaticMapping[x]
                                /\ BalancerType'[x] = BalancerType[x]
    BY <1>1, <1>3, <2>1 DEF Put, DataInv, RoutesAgree
  <2>3. CASE a.algo \in factories
    <3> DEFINE b == Build(a.algo, a.hosts)
    <3>1. Paths' = Put(Paths, p, b.hosts)
      BY <1>0, <1>3, <2>3 DEF AddPrefixStep
    <3> HIDE DEF b
    <3>2. /\ DOMAIN Paths' = DOMAIN Paths \cup {p}
          /\ \A x \in DOMAIN Paths : Paths'[x] = Paths[x]
      BY <2>2, <3>1 DEF Put
    <3>3. OtherRoutes(p)
      BY <2>2, <3>2 DEF OtherRoutes, Route
    <3>4. DataInv'
      BY AddPrefixData
    <3>5. Route(p)' \in Routing!Routes
      <4>1. p \in DOMAIN Paths'
        BY <3>2
      <4> QED BY <3>4, <4>1, RouteTypeNext
    <3> QED BY <1>1, <1>3, <3>2, <3>3, <3>5, TableStep
  <2>4. CASE a.algo \notin factories
    <3>1. UNCHANGED Paths
      BY <1>0, <1>3, <2>4 DEF AddPrefixStep
    <3> QED BY <2>2, <3>1 DEF Table, Route
  <2> QED BY <2>3, <2>4
<1> QED BY <1>2, <1>3

(* Unmap takes the route of the prefix away.                               *)
LEMMA UnmapMaps ==
  ASSUME DataInv, NEW p, Unmap(p)
  PROVE  [Routing!Next]_Table
<1>1. /\ Paths' = Del(Paths, p) /\ BalancerType' = Del(BalancerType, p)
      /\ UNCHANGED StaticMapping
  BY DEF Unmap
<1>2. \A x \in DOMAIN Paths : x \in DOMAIN BalancerType
  BY DEF DataInv, RoutesAgree
<1>3. /\ DOMAIN Paths' = DOMAIN Paths \ {p}
      /\ \A x \in DOMAIN Paths : x # p => Paths'[x] = Paths[x]
      /\ \A x \in DOMAIN Paths : x # p => BalancerType'[x] = BalancerType[x]
  BY <1>1, <1>2 DEF Del
<1>4. OtherRoutes(p)
  BY <1>1, <1>3 DEF OtherRoutes, Route
<1>5. CASE p \in DOMAIN Paths
  BY <1>3, <1>4, <1>5, TableStep
<1>6. CASE p \notin DOMAIN Paths
  BY <1>3, <1>4, <1>6, SameTable DEF SameRoute
<1> QED BY <1>5, <1>6

(* The list of one mapped prefix is replaced.                              *)
LEMMA HostsMap ==
  ASSUME DataInv, NEW p \in DOMAIN Paths, NEW hs,
         Paths' = Put(Paths, p, hs), UNCHANGED <<BalancerType, StaticMapping>>
  PROVE  /\ OtherRoutes(p)
         /\ p \in DOMAIN Paths'
         /\ Route(p)' = [Route(p) EXCEPT !.hosts = hs]
         /\ hs = Paths[p] => UNCHANGED Table
<1>1. /\ DOMAIN Paths' = DOMAIN Paths /\ Paths'[p] = hs
      /\ \A x \in DOMAIN Paths : x # p => Paths'[x] = Paths[x]
  BY DEF Put
<1>2. OtherRoutes(p)
  BY <1>1 DEF OtherRoutes, Route
<1>3. Route(p)' = [Route(p) EXCEPT !.hosts = hs]
  BY <1>1 DEF Route
<1>4. ASSUME hs = Paths[p]
      PROVE  UNCHANGED Table
  <2>1. SameRoute(p)
    BY <1>1, <1>4 DEF SameRoute, Route
  <2> QED BY <1>2, <2>1, SameTable
<1> QED BY <1>1, <1>2, <1>3, <1>4

(* AddHost appends a host that is not listed, or changes no list.          *)
LEMMA AddHostMaps ==
  ASSUME DataInv, CtrlInv, NEW q \in Procs, AddHost(q)
  PROVE  [Routing!Next]_Table
<1>0. PICK p, h : p = arg[q].prefix /\ h = host(q)
  OBVIOUS
<1> DEFINE old == prefixMapping[p]
           b == Add(old, h)
<1>1. CASE NilBalancer(q) \/ BalancerBlocks(q)
  BY <1>1 DEF NilBalancer, BalancerBlocks, routes, Table, Route
<1>2. CASE ~(NilBalancer(q) \/ BalancerBlocks(q))
  <2>1. /\ p \in DOMAIN prefixMapping
        /\ Paths' = Put(Paths, p, b.hosts)
        /\ UNCHANGED <<BalancerType, StaticMapping>>
    BY <1>0, <1>2 DEF AddHost
  <2>2. h \in Hosts
    BY <1>0, HostType DEF AddHost, At, HostLabels
  <2>3. /\ p \in DOMAIN Paths /\ old.hosts = Paths[p] /\ old \in Balancers
    BY <2>1 DEF DataInv, IsMap, RoutesAgree
  <2>4. b.hosts = IF old.mode = RR /\ h \notin ToSet(old.hosts)
                  THEN Append(old.hosts, h) ELSE old.hosts
    BY <2>2, <2>3, AddType
  <2>5. Route(p).hosts = Paths[p]
    BY DEF Route
  <2> HIDE DEF old, b
  <2>6. CASE b.hosts = old.hosts
    BY <2>1, <2>3, <2>6, HostsMap
  <2>7. CASE b.hosts # old.hosts
    <3>1. h \notin ToSet(Route(p).hosts) /\ b.hosts = Append(Route(p).hosts, h)
      BY <2>3, <2>4, <2>5, <2>7
    <3>2. OtherRoutes(p) /\ p \in DOMAIN Paths'
          /\ Route(p)' = [Route(p) EXCEPT !.hosts = Append(@, h)]
      BY <2>1, <2>3, <3>1, HostsMap
    <3> QED BY <2>2, <2>3, <3>1, <3>2, TableStep
  <2> QED BY <2>6, <2>7
<1> QED BY <1>1, <1>2

(* RemoveHost takes a listed host away, or changes no list.                *)
LEMMA RemoveHostMaps ==
  ASSUME DataInv, CtrlInv, NEW q \in Procs, RemoveHost(q)
  PROVE  [Routing!Next]_Table
<1>0. PICK p, h : p = arg[q].prefix /\ h = host(q)
  OBVIOUS
<1> DEFINE old == prefixMapping[p]
           new == RemoveResult(old, h)
<1>1. CASE NilBalancer(q) \/ BalancerBlocks(q)
  BY <1>1 DEF NilBalancer, BalancerBlocks, routes, Table, Route
<1>2. CASE ~(NilBalancer(q) \/ BalancerBlocks(q))
  <2>1. /\ p \in DOMAIN prefixMapping
        /\ IF new.panic THEN UNCHANGED Paths ELSE Paths' = Put(Paths, p, new.b.hosts)
        /\ UNCHANGED <<BalancerType, StaticMapping>>
    BY <1>0, <1>2 DEF RemoveHost
  <2>2. h \in Hosts
    BY <1>0, HostType DEF RemoveHost, At, HostLabels
  <2>3. /\ p \in DOMAIN Paths /\ old.hosts = Paths[p] /\ old \in Balancers
        /\ old.hosts \in Seq(Hosts)
    BY <2>1 DEF DataInv, IsMap, RoutesAgree, Balancers
  <2>4. new.b.hosts = IF new.panic THEN old.hosts ELSE RemoveFirst(old.hosts, h)
    BY <2>2, <2>3, RemoveType
  <2>5. Route(p).hosts = Paths[p]
    BY DEF Route
  <2>6. h \notin ToSet(old.hosts) => RemoveFirst(old.hosts, h) = old.hosts
    BY <2>3, RemoveFirstType
  <2> HIDE DEF old, new
  <2>7. CASE new.panic
    BY <2>1, <2>7 DEF Table, Route
  <2>8. CASE ~new.panic /\ h \notin ToSet(old.hosts)
    BY <2>1, <2>3, <2>4, <2>6, <2>8, HostsMap
  <2>9. CASE ~new.panic /\ h \in ToSet(old.hosts)
    <3>1. h \in ToSet(Route(p).hosts) /\ new.b.hosts = RemoveFirst(Route(p).hosts, h)
      BY <2>3, <2>4, <2>5, <2>9
    <3>2. OtherRoutes(p) /\ p \in DOMAIN Paths'
          /\ Route(p)' = [Route(p) EXCEPT !.hosts = RemoveFirst(@, h)]
      BY <2>1, <2>3, <2>9, <3>1, HostsMap
    <3> QED BY <2>3, <3>1, <3>2, TableStep
  <2> QED BY <2>7, <2>8, <2>9
<1> QED BY <1>1, <1>2

(* changeStatic inverts the flag of a route, or of a prefix without one.   *)
LEMMA changeStaticMaps ==
  ASSUME DataInv, NEW q \in Procs, changeStatic(q)
  PROVE  [Routing!Next]_Table
<1>0. PICK p : p = arg[q].prefix
  OBVIOUS
<1>1. /\ StaticMapping' = Put(StaticMapping, p, ~isStaticResource(p))
      /\ UNCHANGED <<Paths, BalancerType>>
  BY <1>0 DEF changeStatic, Inverted
<1>2. \A x \in DOMAIN Paths : x \in DOMAIN StaticMapping
  BY DEF DataInv, RoutesAgree
<1>3. \A x \in DOMAIN Paths : x # p => StaticMapping'[x] = StaticMapping[x]
  BY <1>1, <1>2 DEF Put
<1>4. OtherRoutes(p)
  BY <1>1, <1>3 DEF OtherRoutes, Route
<1>5. CASE p \in DOMAIN Paths
  <2>1. StaticMapping'[p] = ~StaticMapping[p]
    BY <1>1, <1>2, <1>5 DEF Put, isStaticResource, Get
  <2>2. Route(p)' = [Route(p) EXCEPT !.static = ~@]
    BY <1>1, <2>1 DEF Route
  <2> QED BY <1>1, <1>4, <1>5, <2>2, TableStep
<1>6. CASE p \notin DOMAIN Paths
  BY <1>1, <1>4, <1>6, SameTable DEF SameRoute
<1> QED BY <1>5, <1>6

(* Every step of the proxy is a step of the abstract table or leaves it    *)
(* alone.                                                                  *)
LEMMA NextMaps == IInv /\ [Next]_vars => [Routing!Next]_Table
<1> SUFFICES ASSUME DataInv, CtrlInv, [Next]_vars
             PROVE  [Routing!Next]_Table
  BY DEF IInv
<1>1. ASSUME UNCHANGED <<Paths, BalancerType, StaticMapping>>
      PROVE  [Routing!Next]_Table
  BY <1>1 DEF Table, Route
<1>2. CASE UNCHANGED vars
  BY <1>1, <1>2 DEF vars
<1>3. ASSUME NEW q \in Procs, Arrive(q) \/ Step(q)
      PROVE  [Routing!Next]_Table
  <2>1. CASE \/ Arrive(q) \/ addHttpProxyPrefix(q) \/ removeHttpProxyPrefix(q)
             \/ addHttpProxyHost(q) \/ removeHttpProxyHost(q) \/ changeLb(q)
             \/ GetHosts(q) \/ RegisterToProxy(q) \/ ServeRefused(q) \/ Limit(q)
             \/ forwardToSpecficPath(q) \/ lbHosts(q) \/ LoadBalance(q)
             \/ changeState(q) \/ MappingPath(q) \/ createRateLimiter(q)
             \/ setRateLimiter(q)
    <3>1. UNCHANGED <<Paths, BalancerType, StaticMapping>>
      BY <2>1 DEF Arrive, addHttpProxyPrefix, removeHttpProxyPrefix,
         addHttpProxyHost, removeHttpProxyHost, changeLb, GetHosts, RegisterToProxy,
         ServeRefused, Limit, forwardToSpecficPath, lbHosts, LoadBalance, changeState,
         MappingPath, createRateLimiter, setRateLimiter, SetRateLimit, routes
    <3> QED BY <1>1, <3>1
  <2>2. CASE AddPrefix(q) \/ lbAdd(q)
    BY <2>2, AddPrefixMaps DEF AddPrefix, lbAdd
  <2>3. CASE RemovePrefix(q) \/ lbRemove(q)
    BY <2>3, UnmapMaps DEF RemovePrefix, lbRemove
  <2>4. CASE AddHost(q)
    BY <2>4, AddHostMaps
  <2>5. CASE RemoveHost(q)
    BY <2>5, RemoveHostMaps
  <2>6. CASE changeStatic(q)
    BY <2>6, changeStaticMaps
  <2> QED BY <1>3, <2>1, <2>2, <2>3, <2>4, <2>5, <2>6 DEF Step
<1> QED BY <1>2, <1>3 DEF Next

(* Whatever the goroutines do, a client that reads the persisted tables    *)
(* sees routes that change by one operation on one prefix at a time.       *)
THEOREM ImplementsTableHolds == Spec => ImplementsTable
<1>1. Init => Routing!Init
  <2>1. Init => DOMAIN Paths = {}
    BY DEF Init
  <2> QED BY <2>1 DEF Init, Routing!Init, Table
<1>2. IInv /\ [Next]_vars => [Routing!Next]_Table
  BY NextMaps
<1> QED BY <1>1, <1>2, IInvHolds, PTL DEF Spec, ImplementsTable, Routing!Spec

-----------------------------------------------------------------------------
(* The lock.                                                               *)

(* Only the ring of a consistent hash has a reader that stays. That, and   *)
(* that the owner of a lost lock takes no further step, make LockLost      *)
(* inductive.                                                              *)
RingsLocked ==
    \A p \in DOMAIN prefixMapping :
      prefixMapping[p].rlocked => prefixMapping[p].mode = CH

LockInv == RingsLocked /\ LockLost

(* A balancer put for a prefix needs to be unlocked or a ring.             *)
LEMMA PutRing ==
  ASSUME RingsLocked, NEW p, NEW b, prefixMapping' = Put(prefixMapping, p, b),
         b.rlocked => b.mode = CH
  PROVE  RingsLocked'
  BY DEF RingsLocked, Put

(* Balance locks rings only, and unlocks none.                             *)
LEMMA BalanceRing ==
  ASSUME DataInv, RingsLocked, NEW p \in DOMAIN prefixMapping,
         prefixMapping' = Put(prefixMapping, p, AfterBalance(prefixMapping[p]))
  PROVE  /\ RingsLocked'
         /\ \A x \in DOMAIN prefixMapping :
              /\ x \in DOMAIN prefixMapping'
              /\ prefixMapping'[x].mode = prefixMapping[x].mode
              /\ prefixMapping[x].rlocked => prefixMapping'[x].rlocked
<1> DEFINE old == prefixMapping[p]
           b == AfterBalance(old)
<1>1. old \in Balancers
  BY DEF DataInv, IsMap
<1>2. /\ b.mode = old.mode
      /\ old.rlocked => b.rlocked
      /\ b.rlocked => old.rlocked \/ old.mode = CH
  BY <1>1, AfterBalanceType
<1> HIDE DEF b
<1>3. prefixMapping' = Put(prefixMapping, p, b)
  BY DEF b
<1>4. b.rlocked => b.mode = CH
  BY <1>2 DEF RingsLocked
<1>5. RingsLocked'
  BY <1>3, <1>4, PutRing
<1>6. /\ DOMAIN prefixMapping' = DOMAIN prefixMapping /\ prefixMapping'[p] = b
      /\ \A x \in DOMAIN prefixMapping : x # p => prefixMapping'[x] = prefixMapping[x]
  BY <1>3 DEF Put
<1> QED BY <1>2, <1>5, <1>6

(* The prefix MappingPath balances on is mapped.                           *)
LEMMA MappingPathPrefix ==
  ASSUME CtrlInv, NEW q \in Procs, MappingPath(q)
  PROVE  \E p \in DOMAIN prefixMapping :
           prefixMapping' = Put(prefixMapping, p, AfterBalance(prefixMapping[p]))
<1> DEFINE path == arg[q].url
           n == Max(Matches(path))
           p == SubSeq(path, 1, n)
<1>1. path \in Seq(Segments) /\ Len(path) \in Nat
  BY DEF CtrlInv, RequestType, UrlPath
<1> HIDE DEF path
<1>2. Matches(path) \subseteq 0 .. Len(path) /\ Matches(path) # {}
  BY DEF MappingPath, Matches, path
<1>3. n \in Matches(path)
  BY <1>1, <1>2, MaxIsGreatest
<1>4. p \in DOMAIN prefixMapping
  BY <1>3 DEF Matches
<1>5. prefixMapping' = Put(prefixMapping, p, AfterBalance(prefixMapping[p]))
  BY DEF MappingPath, path
<1> HIDE DEF p
<1> QED BY <1>4, <1>5

(* No step leaves a reader in a balancer that is not a ring.               *)
LEMMA RingsKept ==
  ASSUME DataInv, CtrlInv, RingsLocked, NEW q \in Procs, Arrive(q) \/ Step(q)
  PROVE  RingsLocked'
<1> DEFINE p == arg[q].prefix
<1>1. CASE UNCHANGED prefixMapping
  BY <1>1 DEF RingsLocked
<1>2. CASE AddPrefixStep(q)
  <2>1. CASE p \notin DOMAIN prefixMapping /\ arg[q].algo \in factories
    <3> DEFINE b == Build(arg[q].algo, arg[q].hosts)
    <3>1. prefixMapping' = Put(prefixMapping, p, b)
      BY <1>2, <2>1 DEF AddPrefixStep
    <3>2. ~b.rlocked
      BY <2>1, BuildType DEF CtrlInv, RequestType
    <3> HIDE DEF b, p
    <3> QED BY <3>1, <3>2, PutRing
  <2>2. CASE ~(p \notin DOMAIN prefixMapping /\ arg[q].algo \in factories)
    BY <1>1, <1>2, <2>2 DEF AddPrefixStep, routes
  <2> QED BY <2>1, <2>2
<1>3. CASE Unmap(p)
  BY <1>3 DEF Unmap, Del, RingsLocked
<1>4. CASE AddHost(q)
  <2> DEFINE b == Add(prefixMapping[p], host(q))
  <2>1. CASE p \in DOMAIN prefixMapping /\ prefixMapping' = Put(prefixMapping, p, b)
    <3>1. host(q) \in Hosts
      BY <1>4, HostType DEF AddHost, At, HostLabels
    <3>2. prefixMapping[p] \in Balancers
      BY <2>1 DEF DataInv, IsMap
    <3>3. b.mode = prefixMapping[p].mode /\ b.rlocked = prefixMapping[p].rlocked
      BY <3>1, <3>2, AddType
    <3> HIDE DEF b, p
    <3> QED BY <2>1, <3>3, PutRing DEF RingsLocked
  <2> QED BY <1>1, <1>4, <2>1 DEF AddHost, NilBalancer, BalancerBlocks, routes
<1>5. CASE RemoveHost(q)
  <2> DEFINE new == RemoveResult(prefixMapping[p], host(q))
  <2>1. CASE p \in DOMAIN prefixMapping /\ prefixMapping' = Put(prefixMapping, p, new.b)
    <3>1. host(q) \in Hosts
      BY <1>5, HostType DEF RemoveHost, At, HostLabels
    <3>2. prefixMapping[p] \in Balancers
      BY <2>1 DEF DataInv, IsMap
    <3>3. new.b.mode = prefixMapping[p].mode /\ new.b.rlocked = prefixMapping[p].rlocked
      BY <3>1, <3>2, RemoveType
    <3> HIDE DEF new, p
    <3> QED BY <2>1, <3>3, PutRing DEF RingsLocked
  <2> QED BY <1>1, <1>5, <2>1 DEF RemoveHost, NilBalancer, BalancerBlocks, routes
<1>6. CASE MappingPath(q)
  BY <1>6, MappingPathPrefix, BalanceRing
<1>7. CASE LoadBalance(q)
  <2>1. CASE p \in DOMAIN prefixMapping
    BY <1>7, <2>1, BalanceRing DEF LoadBalance
  <2>2. CASE p \notin DOMAIN prefixMapping
    BY <1>1, <1>7, <2>2 DEF LoadBalance
  <2> QED BY <2>1, <2>2
<1>8. CASE \/ Arrive(q) \/ addHttpProxyPrefix(q) \/ removeHttpProxyPrefix(q)
           \/ addHttpProxyHost(q) \/ removeHttpProxyHost(q) \/ changeLb(q)
           \/ GetHosts(q) \/ RegisterToProxy(q) \/ ServeRefused(q) \/ Limit(q)
           \/ forwardToSpecficPath(q) \/ lbHosts(q) \/ changeStatic(q)
           \/ changeState(q) \/ createRateLimiter(q) \/ setRateLimiter(q)
  BY <1>1, <1>8 DEF Arrive, addHttpProxyPrefix, removeHttpProxyPrefix, addHttpProxyHost,
     removeHttpProxyHost, changeLb, GetHosts, RegisterToProxy, ServeRefused, Limit,
     forwardToSpecficPath, lbHosts, changeStatic, changeState, createRateLimiter,
     setRateLimiter, SetRateLimit, routes
<1> QED BY <1>2, <1>3, <1>4, <1>5, <1>6, <1>7, <1>8
        DEF Step, AddPrefix, lbAdd, RemovePrefix, lbRemove

(* While the lock is lost no step needs it, so that its owner stays where  *)
(* it is and no prefix is unmapped.                                        *)
LEMMA OwnerStays ==
  ASSUME DataInv, CtrlInv, LockInv, lock # NoProc,
         NEW q \in Procs, Arrive(q) \/ Step(q)
  PROVE  LockLost'
<1>1. /\ \/ Arrive(q) \/ addHttpProxyPrefix(q) \/ removeHttpProxyPrefix(q)
         \/ addHttpProxyHost(q) \/ removeHttpProxyHost(q) \/ changeLb(q)
         \/ ServeRefused(q) \/ Limit(q) \/ forwardToSpecficPath(q) \/ lbHosts(q)
         \/ MappingPath(q)
  BY DEF Step, GetHosts, RegisterToProxy, lbRemove, lbAdd, AddPrefix, AddPrefixStep,
     RemovePrefix, AddHost, RemoveHost, NilBalancer, BalancerBlocks, LoadBalance,
     changeStatic, changeState, createRateLimiter, setRateLimiter, SetRateLimit, LockFree
<1>2. lock \in Procs /\ pc[lock] \in {"createLocked", "AddHost", "RemoveHost"}
  BY DEF CtrlInv, LockInv, LockLost
<1>3. lock' = lock
  BY <1>1 DEF Arrive, addHttpProxyPrefix, removeHttpProxyPrefix, addHttpProxyHost,
     removeHttpProxyHost, changeLb, ServeRefused, Limit, forwardToSpecficPath, lbHosts,
     MappingPath
<1>4. q # lock
  BY <1>1, <1>2 DEF Arrive, addHttpProxyPrefix, removeHttpProxyPrefix, addHttpProxyHost,
     removeHttpProxyHost, changeLb, ServeRefused, Limit, forwardToSpecficPath, lbHosts,
     MappingPath, At
<1>5. pc'[lock] = pc[lock] /\ arg'[lock] = arg[lock]
  <2>1. pc \in [Procs -> Labels] /\ arg \in [Procs -> RequestType]
    BY DEF CtrlInv
  <2>2. \A r \in Procs : r # q => pc'[r] = pc[r] /\ arg'[r] = arg[r]
    BY <1>1, <2>1 DEF Arrive, addHttpProxyPrefix, removeHttpProxyPrefix,
       addHttpProxyHost, removeHttpProxyHost, changeLb, ServeRefused, Limit,
       forwardToSpecficPath, lbHosts, MappingPath, Goto, Return, Panic, Forward, Take
  <2> QED BY <1>2, <1>4, <2>2
<1>6. \A x \in DOMAIN prefixMapping :
        /\ x \in DOMAIN prefixMapping'
        /\ prefixMapping'[x].mode = prefixMapping[x].mode
        /\ prefixMapping[x].rlocked => prefixMapping'[x].rlocked
  <2>1. CASE MappingPath(q)
    BY <2>1, MappingPathPrefix, BalanceRing DEF LockInv
  <2>2. CASE ~MappingPath(q)
    <3>1. UNCHANGED prefixMapping
      BY <1>1, <2>2 DEF Arrive, addHttpProxyPrefix, removeHttpProxyPrefix,
         addHttpProxyHost, removeHttpProxyHost, changeLb, ServeRefused, Limit,
         forwardToSpecficPath, lbHosts, routes
    <3> QED BY <3>1
  <2> QED BY <2>1, <2>2
<1> QED BY <1>3, <1>5, <1>6 DEF LockInv, LockLost

(* The steps that lose a free lock.                                        *)
LEMMA LockTaken ==
  ASSUME DataInv, CtrlInv, LockInv, lock = NoProc,
         NEW q \in Procs, Arrive(q) \/ Step(q)
  PROVE  LockLost'
<1>1. CASE lock' = NoProc
  BY <1>1 DEF LockLost
<1>2. CASE lock' # NoProc
  <2>1. \/ /\ pc[q] \in {"AddHost", "RemoveHost"}
           /\ BalancerBlocks(q)
        \/ setRateLimiter(q)
    BY <1>2 DEF Step, Arrive, addHttpProxyPrefix, removeHttpProxyPrefix, addHttpProxyHost,
       removeHttpProxyHost, changeLb, GetHosts, RegisterToProxy, ServeRefused, Limit,
       forwardToSpecficPath, lbHosts, lbRemove, lbAdd, AddPrefix, AddPrefixStep,
       RemovePrefix, AddHost, RemoveHost, NilBalancer, LoadBalance, changeStatic,
       changeState, MappingPath, createRateLimiter, At
  <2>2. CASE pc[q] \in {"AddHost", "RemoveHost"} /\ BalancerBlocks(q)
    BY <2>2 DEF BalancerBlocks, LockInv, RingsLocked, LockLost, routes
  <2>3. CASE setRateLimiter(q)
    <3>1. lock' = q /\ Goto(q, "createLocked")
      BY <1>2, <2>3 DEF setRateLimiter, SetRateLimit
    <3> QED BY <3>1 DEF Goto, CtrlInv, LockLost
  <2> QED BY <2>1, <2>2, <2>3
<1> QED BY <1>1, <1>2

(* A proxy whose lock is never given back got there by SetRateLimit for a  *)
(* URL without a limiter, or by changing the hosts of a hash ring after    *)
(* its first Balance: nothing else loses the lock, and the reason lasts.   *)
THEOREM LockLostHolds == Spec => []LockLost
<1>1. Init => LockInv
  BY DEF Init, LockInv, RingsLocked, LockLost
<1>2. IInv /\ LockInv /\ [Next]_vars => LockInv'
  <2> SUFFICES ASSUME DataInv, CtrlInv, LockInv, [Next]_vars
               PROVE  LockInv'
    BY DEF IInv
  <2>1. CASE UNCHANGED vars
    BY <2>1 DEF vars, LockInv, RingsLocked, LockLost
  <2>2. ASSUME NEW q \in Procs, Arrive(q) \/ Step(q)
        PROVE  LockInv'
    <3>1. RingsLocked'
      BY <2>2, RingsKept DEF LockInv
    <3>2. LockLost'
      BY <2>2, OwnerStays, LockTaken
    <3> QED BY <3>1, <3>2 DEF LockInv
  <2> QED BY <2>1, <2>2 DEF Next
<1>3. LockInv => LockLost
  BY DEF LockInv
<1> QED BY <1>1, <1>2, <1>3, IInvHolds, PTL DEF Spec

-----------------------------------------------------------------------------
(* How the goroutines move on: what the limiters and the hosts need.       *)

(* The labels of requests whose prefix no check or method has used.        *)
Unnamed == {"idle", "ServeHTTP", "changeState"}

(* The other goroutines stay where they are, with their prefix and URL.    *)
Others(q) ==
    \A r \in Procs \ {q} : /\ pc'[r] = pc[r]
                           /\ arg'[r].prefix = arg[r].prefix
                           /\ arg'[r].url = arg[r].url

(* q ends its request or goes on with its prefix, and creates no limiter.  *)
Moves(q) ==
    /\ Others(q)
    /\ pc[q] # "create" /\ pc'[q] # "create"
    /\ pc'[q] # "idle" => pc[q] \notin Unnamed /\ arg'[q].prefix = arg[q].prefix

(* The end of a request.                                                   *)
LEMMA ReturnMoves ==
  ASSUME CtrlInv, NEW q \in Procs, pc[q] # "create", Return(q)
  PROVE  Moves(q)
  BY DEF CtrlInv, Return, Goto, Moves, Others

(* A panic.                                                                *)
LEMMA PanicMoves ==
  ASSUME CtrlInv, NEW q \in Procs, pc[q] \notin Unnamed \cup {"create"}, Panic(q)
  PROVE  Moves(q)
<1>1. CASE arg[q].op \in RpcOps
  BY <1>1 DEF CtrlInv, Panic, Moves, Others
<1>2. CASE arg[q].op \notin RpcOps
  BY <1>2, ReturnMoves DEF Panic
<1> QED BY <1>1, <1>2

(* Going on with the same request.                                         *)
LEMMA GotoMoves ==
  ASSUME CtrlInv, NEW q \in Procs, NEW label,
         pc[q] \notin Unnamed \cup {"create"}, label # "create",
         Goto(q, label), UNCHANGED arg
  PROVE  Moves(q)
  BY DEF CtrlInv, Goto, Moves, Others

(* RemoveHost, which may move the hosts in the slices of others.           *)
LEMMA RemoveHostMoves ==
  ASSUME CtrlInv, NEW q \in Procs, RemoveHost(q)
  PROVE  Moves(q)
<1> DEFINE p == arg[q].prefix
           old == prefixMapping[p]
           new == RemoveResult(old, host(q))
<1>1. pc[q] \notin Unnamed \cup {"create"}
  BY DEF RemoveHost, At, Unnamed
<1>2. CASE NilBalancer(q)
  BY <1>1, <1>2, PanicMoves DEF NilBalancer
<1>3. CASE BalancerBlocks(q)
  BY <1>1, <1>3 DEF BalancerBlocks, Moves, Others
<1>4. CASE ~NilBalancer(q) /\ ~BalancerBlocks(q) /\ new.panic
  <2>1. Panic(q)
    BY <1>4 DEF RemoveHost
  <2> QED BY <1>1, <2>1, PanicMoves
<1>5. CASE ~NilBalancer(q) /\ ~BalancerBlocks(q) /\ ~new.panic
  <2>1. PICK shared \in SUBSET Slices(p) :
          AfterRemoveHost(q,
            [r \in Procs |->
               IF r \in shared /\ host(q) \in ToSet(old.hosts)
               THEN [arg[r] EXCEPT !.hosts = Moved(@, old.hosts, host(q))]
               ELSE arg[r]])
    BY <1>5 DEF RemoveHost
  <2> DEFINE args == [r \in Procs |->
                        IF r \in shared /\ host(q) \in ToSet(old.hosts)
                        THEN [arg[r] EXCEPT !.hosts = Moved(@, old.hosts, host(q))]
                        ELSE arg[r]]
  <2>2. AfterRemoveHost(q, args)
    BY <2>1
  <2>3. ASSUME NEW r \in Procs
        PROVE  args[r].prefix = arg[r].prefix /\ args[r].url = arg[r].url
    <3>1. arg[r] \in RequestType
      BY DEF CtrlInv
    <3> QED BY <3>1 DEF RequestType
  <2>4. DOMAIN args = Procs
    OBVIOUS
  <2> HIDE DEF args
  <2> QED BY <1>1, <2>2, <2>3, <2>4 DEF AfterRemoveHost, Goto, CtrlInv, Moves, Others
<1> QED BY <1>2, <1>3, <1>4, <1>5

(* All the steps that neither bring a request its prefix nor create a      *)
(* limiter.                                                                *)
LEMMA StepMoves ==
  ASSUME CtrlInv, NEW q \in Procs, Step(q), ~MappingPath(q), pc[q] # "create",
         ~(Limit(q) /\ Goto(q, "create"))
  PROVE  Moves(q)
<1>1. CASE RemoveHost(q)
  BY <1>1, RemoveHostMoves
<1>2. CASE lbHosts(q)
  <2>1. CASE arg[q].prefix \in DOMAIN prefixMapping
    <3> DEFINE hs == prefixMapping[arg[q].prefix].hosts
               st == isStaticResource(arg[q].prefix)
    <3>1. /\ arg' = [arg EXCEPT ![q].hosts = hs, ![q].static = st]
          /\ Goto(q, "lbRemove") /\ pc[q] = "lbHosts"
      BY <1>2, <2>1 DEF lbHosts, At
    <3> HIDE DEF hs, st
    <3>2. arg \in [Procs -> RequestType] /\ arg[q] \in RequestType
      BY DEF CtrlInv
    <3> QED BY <3>1, <3>2 DEF CtrlInv, RequestType, Goto, Moves, Others, Unnamed
  <2>2. CASE arg[q].prefix \notin DOMAIN prefixMapping
    <3>1. Panic(q) /\ pc[q] \notin Unnamed
      BY <1>2, <2>2 DEF lbHosts, At, Unnamed
    <3> QED BY <3>1, PanicMoves
  <2> QED BY <2>1, <2>2
<1>3. CASE BalancerBlocks(q) /\ AddHost(q)
  BY <1>3 DEF BalancerBlocks, AddHost, At, Unnamed, Moves, Others
<1>4. ASSUME ~RemoveHost(q), ~lbHosts(q), ~(BalancerBlocks(q) /\ AddHost(q))
      PROVE  \/ Return(q)
             \/ Panic(q) /\ pc[q] \notin Unnamed
             \/ \E label \in {"AddPrefix", "RemovePrefix", "AddHost", "RemoveHost",
                              "lbHosts", "lbAdd", "removeHttpProxyPrefix", "forward",
                              "createLocked"} :
                  pc[q] \notin Unnamed /\ Goto(q, label) /\ UNCHANGED arg
  BY <1>4 DEF Step, addHttpProxyPrefix, removeHttpProxyPrefix, addHttpProxyHost,
     removeHttpProxyHost, changeLb, GetHosts, RegisterToProxy, ServeRefused, Limit,
     forwardToSpecficPath, lbRemove, lbAdd, AddPrefix, AddPrefixStep, RemovePrefix,
     AddHost, NilBalancer, LoadBalance, changeStatic, changeState, createRateLimiter,
     setRateLimiter, SetRateLimit, Forward, Take, At, Unnamed
<1>5. CASE ~RemoveHost(q) /\ ~lbHosts(q) /\ ~(BalancerBlocks(q) /\ AddHost(q))
  <2>1. CASE Return(q)
    BY <2>1, ReturnMoves
  <2>2. CASE Panic(q) /\ pc[q] \notin Unnamed
    BY <2>2, PanicMoves
  <2>3. CASE \E label \in {"AddPrefix", "RemovePrefix", "AddHost", "RemoveHost",
                           "lbHosts", "lbAdd", "removeHttpProxyPrefix", "forward",
                           "createLocked"} :
               pc[q] \notin Unnamed /\ Goto(q, label) /\ UNCHANGED arg
    <3>1. PICK label : label # "create" /\ Goto(q, label) /\ UNCHANGED arg
                       /\ pc[q] \notin Unnamed
      BY <2>3
    <3> QED BY <3>1, GotoMoves
  <2> QED BY <1>4, <1>5, <2>1, <2>2, <2>3
<1> QED BY <1>1, <1>2, <1>3, <1>5

(* A proxied request gets the prefix MappingPath has found.                *)
LEMMA MappingPathMoves ==
  ASSUME CtrlInv, NEW q \in Procs, MappingPath(q)
  PROVE  /\ Others(q) /\ pc[q] = "ServeHTTP" /\ pc'[q] \in {"idle", "limit"}
         /\ pc'[q] # "idle" => arg'[q].prefix \in DOMAIN prefixMapping
         /\ DOMAIN prefixMapping' = DOMAIN prefixMapping
         /\ UNCHANGED limits
<1> DEFINE path == arg[q].url
           n == Max(Matches(path))
           p == SubSeq(path, 1, n)
           rest == SubSeq(path, n + 1, Len(path))
           b == prefixMapping[p]
<1>1. arg \in [Procs -> RequestType] /\ arg[q] \in RequestType
  BY DEF CtrlInv
<1>2. path \in Seq(Segments) /\ Len(path) \in Nat
  BY <1>1 DEF RequestType, UrlPath
<1> HIDE DEF path
<1>3. Matches(path) \subseteq 0 .. Len(path) /\ Matches(path) # {}
  BY DEF MappingPath, Matches, path
<1>4. n \in Matches(path)
  BY <1>2, <1>3, MaxIsGreatest
<1>5. p \in DOMAIN prefixMapping
  BY <1>4 DEF Matches
<1> HIDE DEF n, p, rest
<1>6. /\ prefixMapping' = Put(prefixMapping, p, AfterBalance(b))
      /\ UNCHANGED limits /\ pc[q] = "ServeHTTP"
      /\ \/ Return(q)
         \/ /\ arg' = [arg EXCEPT ![q].prefix = p, ![q].url = rest]
            /\ Goto(q, "limit")
  BY DEF MappingPath, At, p, rest, n, path
<1>7. DOMAIN prefixMapping' = DOMAIN prefixMapping
  BY <1>5, <1>6 DEF Put
<1>8. CASE Return(q)
  BY <1>6, <1>7, <1>8 DEF CtrlInv, Return, Goto, Others
<1>9. CASE /\ arg' = [arg EXCEPT ![q].prefix = p, ![q].url = rest]
           /\ Goto(q, "limit")
  BY <1>1, <1>5, <1>6, <1>7, <1>9 DEF CtrlInv, RequestType, Goto, Others
<1> QED BY <1>6, <1>8, <1>9

-----------------------------------------------------------------------------
(* The prefixes in use are named by the calls.                             *)

PrefixInv ==
    /\ DOMAIN prefixMapping \subseteq Named
    /\ DOMAIN RateLimiterType \subseteq Named
    /\ \A q \in Procs : pc[q] \notin Unnamed => arg[q].prefix \in Named

(* The goroutines keep to them.                                            *)
LEMMA ArgsNamed ==
  ASSUME CtrlInv, PrefixInv, NEW q \in Procs, Arrive(q) \/ Step(q)
  PROVE  \A r \in Procs : pc'[r] \notin Unnamed => arg'[r].prefix \in Named
<1>1. CASE Arrive(q)
  <2>1. PICK a \in Requests : arg' = [arg EXCEPT ![q] = a] /\ Goto(q, Entry(a.op))
    BY <1>1 DEF Arrive
  <2>2. Entry(a.op) \notin Unnamed => a.prefix \in Named
    BY DEF Entry, Unnamed, Named
  <2> QED BY <2>1, <2>2 DEF CtrlInv, PrefixInv, Goto
<1>2. CASE MappingPath(q)
  BY <1>2, MappingPathMoves DEF PrefixInv, Others, Unnamed
<1>3. CASE Limit(q) /\ Goto(q, "create")
  BY <1>3 DEF Limit, Forward, Take, Return, At, Goto, CtrlInv, PrefixInv, Unnamed
<1>4. CASE pc[q] = "create" /\ Step(q)
  <2>1. createRateLimiter(q)
    BY <1>4 DEF Step, addHttpProxyPrefix, removeHttpProxyPrefix, addHttpProxyHost,
     removeHttpProxyHost, changeLb, GetHosts, RegisterToProxy, ServeRefused, Limit,
     forwardToSpecficPath, lbHosts, lbRemove, lbAdd, AddPrefix, RemovePrefix, AddHost,
     RemoveHost, LoadBalance, changeStatic, changeState, MappingPath, setRateLimiter, At
  <2> QED BY <2>1 DEF createRateLimiter, Forward, At, Goto, CtrlInv, PrefixInv, Unnamed
<1>5. CASE Moves(q)
  BY <1>5 DEF Moves, Others, PrefixInv, Unnamed
<1> QED BY <1>1, <1>2, <1>3, <1>4, <1>5, StepMoves

(* And so do the tables: a prefix is added by the call that names it.      *)
LEMMA TablesNamed ==
  ASSUME DataInv, CtrlInv, PrefixInv, NEW q \in Procs, Arrive(q) \/ Step(q)
  PROVE  DOMAIN prefixMapping' \subseteq Named /\ DOMAIN RateLimiterType' \subseteq Named
<1>1. CASE MappingPath(q)
  BY <1>1, MappingPathMoves DEF PrefixInv, limits
<1>2. CASE ~MappingPath(q)
  <2>1. /\ DOMAIN prefixMapping' \subseteq DOMAIN prefixMapping \cup {arg[q].prefix}
        /\ DOMAIN RateLimiterType' \subseteq DOMAIN RateLimiterType \cup {arg[q].prefix}
        /\ \/ pc[q] \notin Unnamed
           \/ UNCHANGED <<prefixMapping, RateLimiterType>>
    BY <1>2 DEF Step, Arrive, addHttpProxyPrefix, removeHttpProxyPrefix, addHttpProxyHost,
     removeHttpProxyHost, changeLb, GetHosts, RegisterToProxy, ServeRefused, Limit,
     forwardToSpecficPath, lbHosts, lbRemove, lbAdd, AddPrefix, AddPrefixStep, RemovePrefix,
     AddHost, RemoveHost, NilBalancer, BalancerBlocks, LoadBalance, changeStatic,
     changeState, createRateLimiter, setRateLimiter, SetRateLimit, Unmap, Put, Del, At,
     Unnamed, routes, limits
  <2> QED BY <2>1 DEF PrefixInv
<1> QED BY <1>1, <1>2

(* So every step keeps to them.                                           *)
LEMMA PrefixesNamed == IInv /\ PrefixInv /\ [Next]_vars => PrefixInv'
<1> SUFFICES ASSUME DataInv, CtrlInv, PrefixInv, [Next]_vars
             PROVE  PrefixInv'
  BY DEF IInv
<1>1. CASE UNCHANGED vars
  BY <1>1 DEF vars, PrefixInv
<1>2. ASSUME NEW q \in Procs, Arrive(q) \/ Step(q)
      PROVE  PrefixInv'
  BY <1>2, ArgsNamed, TablesNamed DEF PrefixInv
<1> QED BY <1>1, <1>2 DEF Next

-----------------------------------------------------------------------------
(* Limiters and their records.                                             *)

(* The goroutines that have missed the limiter of a URL.                   *)
Missed(p, u) == {q \in Procs : /\ pc[q] = "create"
                               /\ arg[q].prefix = p /\ arg[q].url = u}

(* A limiter that is missing has no records: the ones there can be once    *)
(* it is back are those of the goroutines that have missed it.             *)
CountInv(p, u) ==
    /\ compeleteUrl(p, u) \notin DOMAIN rateLimiters => Recorded(p, u) = {}
    /\ Cardinality(Recorded(p, u)) + Cardinality(Missed(p, u)) <= Cardinality(Procs)

(* The rate of a limiter is recorded.                                      *)
RateInv(p, u) ==
    ( /\ Recorded(p, u) # {} /\ ZeroSpeed \notin RatesOf(p, u)
      /\ compeleteUrl(p, u) \in DOMAIN rateLimiters )
    => rateLimiters[compeleteUrl(p, u)] \in RatesOf(p, u)

(* A key with one split only belongs to one prefix and one URL.            *)
LEMMA SoleKey ==
  ASSUME NEW p \in UrlPath, NEW u \in UrlPath, Sole(p, u),
         NEW p1 \in Named, NEW u1 \in UrlPath, p1 \in UrlPath,
         compeleteUrl(p1, u1) = compeleteUrl(p, u)
  PROVE  p1 = p /\ u1 = u
<1>1. \A s, t \in Seq(Segments) :
        /\ s \o t \in Seq(Segments) /\ Len(s \o t) = Len(s) + Len(t)
        /\ \A i \in 1 .. Len(s) : (s \o t)[i] = s[i]
        /\ \A i \in 1 .. Len(t) : (s \o t)[Len(s) + i] = t[i]
  OBVIOUS
<1>2. p1 = p
  <2>1. Len(p1) <= Len(p1 \o u1)
    BY DEF UrlPath
  <2>2. SubSeq(p1, 1, Len(p1)) = SubSeq(p1 \o u1, 1, Len(p1))
    BY DEF UrlPath
  <2>3. IsPrefix(p1, compeleteUrl(p, u))
    BY <2>1, <2>2 DEF IsPrefix, compeleteUrl
  <2> QED BY <2>3 DEF Sole
<1>3. u1 = u
  <2>1. p \o u1 = p \o u
    BY <1>2 DEF compeleteUrl
  <2>2. p \in Seq(Segments) /\ u \in Seq(Segments) /\ u1 \in Seq(Segments)
    BY DEF UrlPath
  <2>3. Len(u1) = Len(u)
    <3>1. Len(p \o u1) = Len(p) + Len(u1) /\ Len(p \o u) = Len(p) + Len(u)
      BY <1>1, <2>2
    <3> QED BY <2>1, <2>2, <3>1
  <2>4. \A i \in 1 .. Len(u) : u1[i] = u[i]
    <3>1. ASSUME NEW i \in 1 .. Len(u) PROVE u1[i] = u[i]
      <4>1. (p \o u1)[Len(p) + i] = u1[i]
        BY <1>1, <2>2, <2>3
      <4>2. (p \o u)[Len(p) + i] = u[i]
        BY <1>1, <2>2
      <4> QED BY <2>1, <4>1, <4>2
    <3> QED BY <3>1
  <2> QED BY <2>2, <2>3, <2>4, SeqEqual
<1> QED BY <1>2, <1>3

(* It is not a prefix that a call names, which could delete its limiter.   *)
LEMMA SoleKept ==
  ASSUME NEW p \in UrlPath, NEW u \in UrlPath, Sole(p, u)
  PROVE  Kept(p, u)
<1>1. p \o u \in Seq(Segments)
  BY DEF UrlPath
<1>2. IsPrefix(p \o u, p \o u)
  BY <1>1 DEF IsPrefix
<1> QED BY <1>2 DEF Kept, Sole, compeleteUrl

(* Changing the rate of a URL changes the rate of one of its records, and  *)
(* nothing else.                                                           *)
LEMMA WithRateInfos ==
  ASSUME NEW infos \in Seq(Info), NEW u, NEW r \in Rates
  PROVE  /\ DOMAIN WithRate(infos, u, r) = DOMAIN infos
         /\ \A i \in DOMAIN infos : WithRate(infos, u, r)[i].url = infos[i].url
         /\ \A i \in DOMAIN infos :
              infos[i].url # u => WithRate(infos, u, r)[i] = infos[i]
         /\ \A i \in DOMAIN infos : infos[i].url = u =>
              \E j \in DOMAIN infos : /\ infos[j].url = u
                                      /\ WithRate(infos, u, r)[j].rate = r
<1> DEFINE I == {i \in 1 .. Len(infos) : infos[i].url = u}
           k == FirstInfo(infos, u)
<1>1. DOMAIN infos = 1 .. Len(infos) /\ \A i \in DOMAIN infos : infos[i] \in Info
  OBVIOUS
<1>2. k = IF I = {} THEN 0 ELSE Min(I)
  BY DEF FirstInfo, SelectInSeq
<1>3. WithRate(infos, u, r) = IF k = 0 THEN infos ELSE [infos EXCEPT ![k].rate = r]
  BY DEF WithRate
<1>4. CASE I = {}
  <2>1. WithRate(infos, u, r) = infos
    BY <1>2, <1>3, <1>4
  <2>2. \A i \in DOMAIN infos : infos[i].url # u
    BY <1>1, <1>4
  <2> QED BY <2>1, <2>2
<1>5. CASE I # {}
  <2>1. I \in SUBSET Nat
    OBVIOUS
  <2>2. k \in I
    <3> HIDE DEF I, k
    <3> QED BY <1>2, <1>5, <2>1, MinIsLeast
  <2>3. k \in DOMAIN infos /\ k # 0 /\ infos[k].url = u
    BY <2>2
  <2> HIDE DEF I, k
  <2>4. WithRate(infos, u, r) = [infos EXCEPT ![k].rate = r]
    BY <1>3, <2>3
  <2>5. /\ DOMAIN WithRate(infos, u, r) = DOMAIN infos
        /\ \A i \in DOMAIN infos : i # k => WithRate(infos, u, r)[i] = infos[i]
        /\ WithRate(infos, u, r)[k] = [infos[k] EXCEPT !.rate = r]
    BY <2>3, <2>4
  <2>6. infos[k] \in Info
    BY <1>1, <2>3
  <2>7. WithRate(infos, u, r)[k].url = u /\ WithRate(infos, u, r)[k].rate = r
    BY <2>3, <2>5, <2>6 DEF Info
  <2> QED BY <2>3, <2>5, <2>7
<1> QED BY <1>4, <1>5

(* Records and waiting goroutines are finitely many.                       *)
LEMMA RecordedFinite ==
  ASSUME DataInv, NEW p, NEW u
  PROVE  /\ IsFiniteSet(Recorded(p, u)) /\ Cardinality(Recorded(p, u)) \in Nat
         /\ IsFiniteSet(Missed(p, u)) /\ Cardinality(Missed(p, u)) \in Nat
         /\ Cardinality(Procs) \in Nat
<1>1. Infos(p) \in Seq(Info)
  BY InfosType
<1>2. DOMAIN Infos(p) = 1 .. Len(Infos(p)) /\ Len(Infos(p)) \in Int
  BY <1>1
<1>3. IsFiniteSet(DOMAIN Infos(p))
  <2>1. \A a, c \in Int : IsFiniteSet(a .. c)
    BY FS_Interval
  <2> QED BY <1>2, <2>1
<1>4. IsFiniteSet(Recorded(p, u))
  BY <1>3, FS_Subset DEF Recorded
<1>5. IsFiniteSet(Procs)
  BY ProxyAssumption
<1>6. IsFiniteSet(Missed(p, u))
  BY <1>5, FS_Subset DEF Missed
<1> QED BY <1>4, <1>5, <1>6, FS_CardinalityType

(* The goroutines that wait are the same unless one comes or goes.         *)
LEMMA MissedSame ==
  ASSUME NEW q \in Procs, Others(q), pc[q] # "create", pc'[q] # "create", NEW p, NEW u
  PROVE  Missed(p, u)' = Missed(p, u)
<1>1. \A r \in Procs : r \in Missed(p, u)' <=> r \in Missed(p, u)
  BY DEF Missed, Others
<1> QED BY <1>1 DEF Missed

(* The records of a prefix whose list is left alone.                       *)
LEMMA RecordsSame ==
  ASSUME NEW p, NEW u, Infos(p)' = Infos(p)
  PROVE  Recorded(p, u)' = Recorded(p, u) /\ RatesOf(p, u)' = RatesOf(p, u)
  BY DEF Recorded, RatesOf

(* A step that leaves the limiters and the waiting goroutines alone.       *)
LEMMA LimitsSame ==
  ASSUME NEW p, NEW u, UNCHANGED limits, Missed(p, u)' = Missed(p, u)
  PROVE  (CountInv(p, u) => CountInv(p, u)') /\ (RateInv(p, u) => RateInv(p, u)')
<1>1. Infos(p)' = Infos(p)
  BY DEF limits, Infos
<1>2. Recorded(p, u)' = Recorded(p, u) /\ RatesOf(p, u)' = RatesOf(p, u)
  BY <1>1, RecordsSame
<1> QED BY <1>2 DEF CountInv, RateInv, limits

(* Limit misses the limiter: its URL has no records yet.                   *)
LEMMA MissCounts ==
  ASSUME DataInv, CtrlInv, NEW q \in Procs, Limit(q), Goto(q, "create"),
         NEW p, NEW u
  PROVE  (CountInv(p, u) => CountInv(p, u)') /\ (RateInv(p, u) => RateInv(p, u)')
<1>1. pc[q] = "limit" /\ UNCHANGED limits /\ pc' = [pc EXCEPT ![q] = "create"]
  BY DEF Limit, At, Goto
<1>2. pc'[q] = "create" /\ \A r \in Procs \ {q} : pc'[r] = pc[r]
  BY <1>1 DEF CtrlInv
<1>3. UNCHANGED arg /\ compeleteUrl(arg[q].prefix, arg[q].url) \notin DOMAIN rateLimiters
  BY <1>2 DEF Limit, Forward, Take, Return, Goto, CtrlInv
<1>4. Infos(p)' = Infos(p)
  BY <1>1 DEF limits, Infos
<1>5. Recorded(p, u)' = Recorded(p, u) /\ RatesOf(p, u)' = RatesOf(p, u)
  BY <1>4, RecordsSame
<1>6. RateInv(p, u) => RateInv(p, u)'
  BY <1>1, <1>5 DEF RateInv, limits
<1>7. CASE arg[q].prefix = p /\ arg[q].url = u
  <2>1. CountInv(p, u) => Recorded(p, u)' = {}
    BY <1>3, <1>5, <1>7 DEF CountInv
  <2>2. Missed(p, u)' \subseteq Procs
    BY DEF Missed
  <2>3. Cardinality(Missed(p, u)') \in Nat /\ Cardinality(Missed(p, u)') <= Cardinality(Procs)
    BY <2>2, ProxyAssumption, FS_Subset, FS_CardinalityType
  <2>4. CountInv(p, u) =>
          Cardinality(Recorded(p, u)') + Cardinality(Missed(p, u)') <= Cardinality(Procs)
    <3>1. Cardinality({}) = 0
      BY FS_EmptySet
    <3> QED BY <2>1, <2>3, <3>1
  <2> QED BY <1>6, <2>1, <2>4 DEF CountInv
<1>8. CASE ~(arg[q].prefix = p /\ arg[q].url = u)
  <2>1. \A r \in Procs : r \in Missed(p, u)' <=> r \in Missed(p, u)
    BY <1>1, <1>2, <1>3, <1>8 DEF Missed
  <2>2. Missed(p, u)' = Missed(p, u)
    BY <2>1 DEF Missed
  <2> QED BY <1>1, <2>2, LimitsSame
<1> QED BY <1>7, <1>8

(* RemovePrefix of a prefix deletes its records, and no limiter of another *)
(* prefix whose key it is not.                                             *)
LEMMA UnmapCounts ==
  ASSUME NEW p1 \in Named, Unmap(p1), NEW p, NEW u, Missed(p, u)' = Missed(p, u)
  PROVE  /\ DataInv /\ Kept(p, u) /\ CountInv(p, u) => CountInv(p, u)'
         /\ Kept(p, u) /\ RateInv(p, u) => RateInv(p, u)'
<1> DEFINE key == compeleteUrl(p, u)
<1>1. rateLimiters' = Del(rateLimiters, p1) /\ RateLimiterType' = Del(RateLimiterType, p1)
  BY DEF Unmap
<1>2. CASE p = p1
  <2>1. Infos(p)' = <<>>
    BY <1>1, <1>2 DEF Infos, Get, Del
  <2>2. Recorded(p, u)' = {}
    BY <2>1 DEF Recorded
  <2>3. ASSUME DataInv, CountInv(p, u)
        PROVE  CountInv(p, u)'
    <3>1. Cardinality({}) = 0
      BY FS_EmptySet
    <3>2. /\ Cardinality(Recorded(p, u)) \in Nat /\ Cardinality(Missed(p, u)) \in Nat
          /\ Cardinality(Procs) \in Nat
      BY <2>3, RecordedFinite
    <3>3. Cardinality(Recorded(p, u)) + Cardinality(Missed(p, u)) <= Cardinality(Procs)
      BY <2>3 DEF CountInv
    <3>4. Cardinality(Recorded(p, u)') + Cardinality(Missed(p, u)') <= Cardinality(Procs)
      BY <2>2, <3>1, <3>2, <3>3
    <3> QED BY <2>2, <3>4 DEF CountInv
  <2>4. RateInv(p, u)'
    BY <2>2 DEF RateInv
  <2> QED BY <2>3, <2>4
<1>3. CASE p # p1 /\ Kept(p, u)
  <2>1. Infos(p)' = Infos(p)
    BY <1>1, <1>3 DEF Infos, Get, Del
  <2>2. Recorded(p, u)' = Recorded(p, u) /\ RatesOf(p, u)' = RatesOf(p, u)
    BY <2>1, RecordsSame
  <2>3. key # p1
    BY <1>3 DEF Kept
  <2>4. /\ key \in DOMAIN rateLimiters' <=> key \in DOMAIN rateLimiters
        /\ key \in DOMAIN rateLimiters => rateLimiters'[key] = rateLimiters[key]
    BY <1>1, <2>3 DEF Del
  <2> QED BY <2>2, <2>4 DEF CountInv, RateInv
<1> QED BY <1>2, <1>3

(* createRateLimiter appends a record for a goroutine that had missed the  *)
(* limiter, and no longer waits for it.                                    *)
LEMMA CreateCounts ==
  ASSUME DataInv, CtrlInv, PrefixInv, NEW q \in Procs, createRateLimiter(q),
         NEW p \in UrlPath, NEW u \in UrlPath
  PROVE  /\ CountInv(p, u) => CountInv(p, u)'
         /\ Sole(p, u) /\ RateInv(p, u) => RateInv(p, u)'
<1>0. PICK p1 \in UrlPath, u1 \in UrlPath : p1 = arg[q].prefix /\ u1 = arg[q].url
  BY DEF CtrlInv, RequestType
<1> DEFINE key == compeleteUrl(p, u)
           key1 == compeleteUrl(p1, u1)
           info == [url |-> u1, rate |-> INF]
           n == Len(Infos(p1))
<1>1. /\ rateLimiters' = Put(rateLimiters, key1, INF)
      /\ RateLimiterType' = Put(RateLimiterType, p1, Append(Infos(p1), info))
      /\ pc[q] = "create" /\ pc' = [pc EXCEPT ![q] = "forward"] /\ UNCHANGED arg
  BY <1>0 DEF createRateLimiter, NewQpsRateLimiter, At, Forward, Goto
<1>2. p1 \in Named
  BY <1>0, <1>1 DEF PrefixInv, Unnamed
<1>3. pc'[q] = "forward" /\ \A r \in Procs \ {q} : pc'[r] = pc[r]
  BY <1>1 DEF CtrlInv
<1>4. /\ DOMAIN rateLimiters' = DOMAIN rateLimiters \cup {key1}
      /\ rateLimiters'[key1] = INF
      /\ \A x \in DOMAIN rateLimiters : x # key1 => rateLimiters'[x] = rateLimiters[x]
  BY <1>1 DEF Put
<1>5. Infos(p1)' = Append(Infos(p1), info) /\ (p # p1 => Infos(p)' = Infos(p))
  BY <1>1 DEF Infos, Get, Put
<1>6. /\ Infos(p1) \in Seq(Info) /\ n \in Nat
      /\ DOMAIN Infos(p1) = 1 .. n
  BY InfosType
<1>7. /\ DOMAIN Infos(p1)' = 1 .. n + 1
      /\ \A i \in 1 .. n : Infos(p1)'[i] = Infos(p1)[i]
      /\ Infos(p1)'[n + 1] = info
  BY <1>5, <1>6
<1> HIDE DEF key, key1, n
<1>8. CASE p = p1 /\ u = u1
  <2>1. Recorded(p, u)' = Recorded(p, u) \cup {n + 1} /\ n + 1 \notin Recorded(p, u)
    BY <1>6, <1>7, <1>8 DEF Recorded
  <2>2. INF \in RatesOf(p, u)'
    BY <1>7, <1>8, <2>1 DEF RatesOf
  <2>3. Missed(p, u)' = Missed(p, u) \ {q} /\ q \in Missed(p, u)
    BY <1>0, <1>1, <1>3, <1>8 DEF Missed
  <2>4. /\ Cardinality(Recorded(p, u)') = Cardinality(Recorded(p, u)) + 1
        /\ Cardinality(Missed(p, u)') = Cardinality(Missed(p, u)) - 1
        /\ Cardinality(Recorded(p, u)) \in Nat /\ Cardinality(Missed(p, u)) \in Nat
    <3>1. IsFiniteSet(Recorded(p, u)) /\ IsFiniteSet(Missed(p, u))
          /\ Cardinality(Recorded(p, u)) \in Nat /\ Cardinality(Missed(p, u)) \in Nat
      BY RecordedFinite
    <3>2. Cardinality(Recorded(p, u) \cup {n + 1}) = Cardinality(Recorded(p, u)) + 1
      BY <2>1, <3>1, FS_AddElement
    <3>3. Cardinality(Missed(p, u) \ {q}) = Cardinality(Missed(p, u)) - 1
      BY <2>3, <3>1, FS_RemoveElement
    <3> QED BY <2>1, <2>3, <3>1, <3>2, <3>3
  <2>5. key \in DOMAIN rateLimiters' /\ rateLimiters'[key] = INF
    BY <1>4, <1>8 DEF key, key1
  <2>6. CountInv(p, u) => CountInv(p, u)'
    <3>1. Cardinality(Procs) \in Nat
      BY RecordedFinite
    <3>2. CountInv(p, u) =>
            Cardinality(Recorded(p, u)) + Cardinality(Missed(p, u)) <= Cardinality(Procs)
      BY DEF CountInv
    <3>3. CountInv(p, u) =>
            Cardinality(Recorded(p, u)') + Cardinality(Missed(p, u)') <= Cardinality(Procs)
      BY <2>4, <3>1, <3>2
    <3> QED BY <2>5, <3>3 DEF CountInv, key
  <2> QED BY <2>2, <2>5, <2>6 DEF RateInv, key
<1>9. CASE ~(p = p1 /\ u = u1)
  <2>1. Recorded(p, u)' = Recorded(p, u) /\ RatesOf(p, u)' = RatesOf(p, u)
    <3>1. CASE p # p1
      BY <1>5, <3>1, RecordsSame
    <3>2. CASE p = p1 /\ u # u1
      <4>1. Recorded(p, u)' = Recorded(p, u)
        BY <1>6, <1>7, <3>2 DEF Recorded
      <4>2. \A i \in Recorded(p, u) : Infos(p)'[i] = Infos(p)[i]
        BY <1>6, <1>7, <3>2 DEF Recorded
      <4> QED BY <4>1, <4>2 DEF RatesOf
    <3> QED BY <1>9, <3>1, <3>2
  <2>2. Missed(p, u)' = Missed(p, u)
    <3>1. \A r \in Procs : r \in Missed(p, u)' <=> r \in Missed(p, u)
      BY <1>0, <1>1, <1>3, <1>9 DEF Missed
    <3> QED BY <3>1 DEF Missed
  <2>3. CountInv(p, u) => CountInv(p, u)'
    BY <1>4, <2>1, <2>2 DEF CountInv
  <2>4. Sole(p, u) => key # key1
    BY <1>2, <1>9, SoleKey DEF key, key1
  <2>5. Sole(p, u) /\ RateInv(p, u) => RateInv(p, u)'
    BY <1>4, <2>1, <2>4 DEF RateInv, key
  <2> QED BY <2>3, <2>5
<1> QED BY <1>8, <1>9

(* SetRateLimit with a limiter: the first record of the URL gets the rate  *)
(* of the limiter, or speed 0 when SetRate panics.                         *)
LEMMA SetRateCounts ==
  ASSUME DataInv, CtrlInv, PrefixInv, NEW q \in Procs, setRateLimiter(q),
         NEW p \in UrlPath, NEW u \in UrlPath, Missed(p, u)' = Missed(p, u)
  PROVE  /\ CountInv(p, u) => CountInv(p, u)'
         /\ Sole(p, u) /\ RateInv(p, u) => RateInv(p, u)'
<1>0. PICK p1 \in UrlPath, u1 \in UrlPath, rate \in Rates :
        p1 = arg[q].prefix /\ u1 = arg[q].url /\ rate = arg[q].rate
  BY DEF CtrlInv, RequestType
<1> DEFINE key == compeleteUrl(p, u)
           key1 == compeleteUrl(p1, u1)
           w == WithRate(Infos(p1), u1, rate)
<1>1. p1 \in Named
  BY <1>0 DEF setRateLimiter, At, PrefixInv, Unnamed
<1>2. CASE key1 \notin DOMAIN rateLimiters
  <2>1. UNCHANGED limits
    BY <1>0, <1>2 DEF setRateLimiter, SetRateLimit
  <2> QED BY <2>1, LimitsSame
<1>3. CASE key1 \in DOMAIN rateLimiters
  <2>1. /\ RateLimiterType' = IF p1 \in DOMAIN RateLimiterType
                              THEN Put(RateLimiterType, p1, w) ELSE RateLimiterType
        /\ IF rate = ZeroSpeed THEN UNCHANGED rateLimiters
           ELSE rateLimiters' = Put(rateLimiters, key1, rate)
    BY <1>0, <1>3 DEF setRateLimiter, SetRateLimit, SetRatePanics
  <2>2. /\ DOMAIN rateLimiters' = DOMAIN rateLimiters
        /\ rate # ZeroSpeed => rateLimiters'[key1] = rate
        /\ \A x \in DOMAIN rateLimiters : x # key1 => rateLimiters'[x] = rateLimiters[x]
    <3> HIDE DEF key1
    <3> QED BY <1>3, <2>1 DEF Put
  <2>3. Infos(p1) \in Seq(Info)
    BY InfosType
  <2>4. /\ DOMAIN w = DOMAIN Infos(p1)
        /\ \A i \in DOMAIN Infos(p1) : w[i].url = Infos(p1)[i].url
        /\ \A i \in DOMAIN Infos(p1) : Infos(p1)[i].url # u1 => w[i] = Infos(p1)[i]
        /\ \A i \in DOMAIN Infos(p1) : Infos(p1)[i].url = u1 =>
             \E j \in DOMAIN Infos(p1) : Infos(p1)[j].url = u1 /\ w[j].rate = rate
    BY <2>3, WithRateInfos
  <2>5. /\ Infos(p1)' = IF p1 \in DOMAIN RateLimiterType THEN w ELSE Infos(p1)
        /\ p # p1 => Infos(p)' = Infos(p)
        /\ p1 \notin DOMAIN RateLimiterType => Infos(p1) = <<>>
    <3> HIDE DEF w
    <3> QED BY <2>1 DEF Infos, Get, Put
  <2> HIDE DEF key, key1, w
  <2>6. Recorded(p, u)' = Recorded(p, u)
    <3>1. CASE p = p1 /\ p1 \in DOMAIN RateLimiterType
      BY <2>4, <2>5, <3>1 DEF Recorded
    <3>2. CASE ~(p = p1 /\ p1 \in DOMAIN RateLimiterType)
      <4>1. Infos(p)' = Infos(p)
        BY <2>5, <3>2
      <4> QED BY <4>1, RecordsSame
    <3> QED BY <3>1, <3>2
  <2>7. CountInv(p, u) => CountInv(p, u)'
    BY <2>2, <2>6 DEF CountInv
  <2>8. CASE p = p1 /\ u = u1
    <3>1. ASSUME Recorded(p, u)' # {}
          PROVE  rate \in RatesOf(p, u)'
      <4>1. p1 \in DOMAIN RateLimiterType
        BY <2>5, <2>6, <2>8, <3>1 DEF Recorded
      <4>2. PICK i \in DOMAIN Infos(p1) : Infos(p1)[i].url = u1
        BY <2>6, <2>8, <3>1 DEF Recorded
      <4>3. PICK j \in DOMAIN Infos(p1) : Infos(p1)[j].url = u1 /\ w[j].rate = rate
        BY <2>4, <4>2
      <4>4. j \in Recorded(p, u)' /\ Infos(p)'[j].rate = rate
        BY <2>5, <2>6, <2>8, <4>1, <4>3 DEF Recorded
      <4> QED BY <4>4 DEF RatesOf
    <3>2. rate # ZeroSpeed => rateLimiters'[key] = rate
      BY <2>2, <2>8 DEF key, key1
    <3>3. RateInv(p, u)'
      BY <3>1, <3>2 DEF RateInv, key
    <3> QED BY <2>7, <3>3
  <2>9. CASE ~(p = p1 /\ u = u1)
    <3>1. RatesOf(p, u)' = RatesOf(p, u)
      <4>1. CASE p = p1 /\ p1 \in DOMAIN RateLimiterType
        <5>1. \A i \in Recorded(p, u) : Infos(p)'[i] = Infos(p)[i]
          BY <2>4, <2>5, <2>9, <4>1 DEF Recorded
        <5> QED BY <2>6, <5>1 DEF RatesOf
      <4>2. CASE ~(p = p1 /\ p1 \in DOMAIN RateLimiterType)
        <5>1. Infos(p)' = Infos(p)
          BY <2>5, <4>2
        <5> QED BY <5>1, RecordsSame
      <4> QED BY <4>1, <4>2
    <3>2. Sole(p, u) => key # key1
      BY <1>1, <2>9, SoleKey DEF key, key1
    <3>3. Sole(p, u) /\ RateInv(p, u) => RateInv(p, u)'
      BY <2>2, <2>6, <3>1, <3>2 DEF RateInv, key
    <3> QED BY <2>7, <3>3
  <2> QED BY <2>8, <2>9
<1> QED BY <1>2, <1>3

(* What no step breaks for one URL of a prefix.                            *)
LEMMA LimitsKept ==
  ASSUME DataInv, CtrlInv, PrefixInv, [Next]_vars, NEW p \in UrlPath, NEW u \in UrlPath
  PROVE  /\ Kept(p, u) /\ CountInv(p, u) => CountInv(p, u)'
         /\ Sole(p, u) /\ RateInv(p, u) => RateInv(p, u)'
<1>1. CASE UNCHANGED vars
  <2>1. UNCHANGED limits /\ Missed(p, u)' = Missed(p, u)
    BY <1>1 DEF vars, limits, Missed
  <2> QED BY <2>1, LimitsSame
<1>2. ASSUME NEW q \in Procs, Arrive(q) \/ Step(q)
      PROVE  /\ Kept(p, u) /\ CountInv(p, u) => CountInv(p, u)'
             /\ Sole(p, u) /\ RateInv(p, u) => RateInv(p, u)'
  <2>1. CASE Arrive(q)
    <3>1. Others(q) /\ pc[q] # "create" /\ pc'[q] # "create"
      <4>1. PICK a \in Requests : arg' = [arg EXCEPT ![q] = a] /\ Goto(q, Entry(a.op))
        BY <2>1 DEF Arrive
      <4>2. Entry(a.op) # "create"
        BY ProxyAssumption DEF Entry, RequestType, RpcOps, HttpOps
      <4> QED BY <2>1, <4>1, <4>2 DEF Arrive, At, Goto, CtrlInv, Others
    <3>2. UNCHANGED limits
      BY <2>1 DEF Arrive
    <3> QED BY <3>1, <3>2, MissedSame, LimitsSame
  <2>2. CASE MappingPath(q)
    <3>1. Others(q) /\ pc[q] # "create" /\ pc'[q] # "create" /\ UNCHANGED limits
      BY <2>2, MappingPathMoves
    <3> QED BY <3>1, MissedSame, LimitsSame
  <2>3. CASE Limit(q) /\ Goto(q, "create")
    BY <2>3, MissCounts
  <2>4. CASE createRateLimiter(q)
    BY <2>4, CreateCounts
  <2>5. CASE /\ Step(q) /\ ~MappingPath(q) /\ ~createRateLimiter(q)
             /\ ~(Limit(q) /\ Goto(q, "create"))
    <3>1. pc[q] # "create"
      BY <2>5 DEF Step, addHttpProxyPrefix, removeHttpProxyPrefix, addHttpProxyHost,
     removeHttpProxyHost, changeLb, GetHosts, RegisterToProxy, ServeRefused, Limit,
     forwardToSpecficPath, lbHosts, lbRemove, lbAdd, AddPrefix, RemovePrefix, AddHost,
     RemoveHost, LoadBalance, changeStatic, changeState, MappingPath, setRateLimiter, At
    <3>2. Moves(q)
      BY <2>5, <3>1, StepMoves
    <3>3. Missed(p, u)' = Missed(p, u)
      BY <3>2, MissedSame DEF Moves
    <3>4. CASE setRateLimiter(q)
      BY <3>3, <3>4, SetRateCounts
    <3>5. CASE RemovePrefix(q) \/ lbRemove(q)
      <4>1. PICK p1 \in Named : Unmap(p1)
        BY <3>5 DEF RemovePrefix, lbRemove, At, PrefixInv, Unnamed
      <4> QED BY <3>3, <4>1, UnmapCounts, SoleKept
    <3>6. CASE ~setRateLimiter(q) /\ ~RemovePrefix(q) /\ ~lbRemove(q)
      <4>1. UNCHANGED limits
        BY <2>5, <3>6 DEF Step, addHttpProxyPrefix, removeHttpProxyPrefix, addHttpProxyHost,
         removeHttpProxyHost, changeLb, GetHosts, RegisterToProxy, ServeRefused, Limit,
         forwardToSpecficPath, lbHosts, lbAdd, AddPrefix, AddPrefixStep, AddHost,
         RemoveHost, NilBalancer, BalancerBlocks, LoadBalance, changeStatic, changeState
      <4> QED BY <3>3, <4>1, LimitsSame
    <3> QED BY <3>4, <3>5, <3>6
  <2> QED BY <1>2, <2>1, <2>2, <2>3, <2>4, <2>5
<1> QED BY <1>1, <1>2 DEF Next

(* The invariant of the limiters: for every URL of every prefix.           *)
LimitInv ==
    /\ PrefixInv
    /\ \A p, u \in UrlPath : /\ Kept(p, u) => CountInv(p, u)
                             /\ Sole(p, u) => RateInv(p, u)

(* A new proxy has no records and nobody waits.                            *)
LEMMA InitLimits == Init => LimitInv
<1> SUFFICES ASSUME Init PROVE LimitInv
  OBVIOUS
<1>1. PrefixInv
  BY DEF Init, PrefixInv, Unnamed
<1>2. ASSUME NEW p, NEW u
      PROVE  CountInv(p, u) /\ RateInv(p, u)
  <2>1. Infos(p) = <<>>
    BY DEF Init, Infos, Get
  <2>2. Recorded(p, u) = {}
    BY <2>1 DEF Recorded
  <2>3. Missed(p, u) = {}
    BY DEF Init, Missed
  <2>4. Cardinality({}) = 0 /\ Cardinality(Procs) \in Nat
    BY ProxyAssumption, FS_EmptySet, FS_CardinalityType
  <2> QED BY <2>2, <2>3, <2>4 DEF CountInv, RateInv
<1> QED BY <1>1, <1>2 DEF LimitInv

(* The URL of a record is a path.                                          *)
LEMMA InfoUrl ==
  ASSUME DataInv, NEW p \in DOMAIN RateLimiterType, NEW i \in DOMAIN Infos(p)
  PROVE  p \in UrlPath /\ Infos(p)[i].url \in UrlPath
<1>1. p \in UrlPath
  BY DEF DataInv, IsMap
<1>2. Infos(p) \in Seq(Info)
  BY InfosType
<1>3. Infos(p)[i] \in Info
  BY <1>2
<1> QED BY <1>1, <1>3 DEF Info

(* Every reachable state satisfies it.                                     *)
LEMMA LimitInvHolds == Spec => []LimitInv
<1>1. IInv /\ LimitInv /\ [Next]_vars => LimitInv'
  <2> SUFFICES ASSUME DataInv, CtrlInv, LimitInv, [Next]_vars
               PROVE  LimitInv'
    BY DEF IInv
  <2>1. PrefixInv'
    BY PrefixesNamed DEF IInv, LimitInv
  <2>2. ASSUME NEW p \in UrlPath, NEW u \in UrlPath
        PROVE  (Kept(p, u) => CountInv(p, u)') /\ (Sole(p, u) => RateInv(p, u)')
    BY LimitsKept DEF LimitInv
  <2> QED BY <2>1, <2>2 DEF LimitInv, Kept, Sole, compeleteUrl, Named
<1> QED BY <1>1, InitLimits, IInvHolds, PTL DEF Spec

(* However many requests miss the limiter of a URL before one creates it,  *)
(* and whatever calls remove the prefix or set the rate meanwhile, the URL *)
(* gets at most one record for each goroutine.                             *)
THEOREM RecordsBoundedHolds == Spec => []RecordsBounded
<1>1. IInv /\ LimitInv => RecordsBounded
  <2> SUFFICES ASSUME DataInv, LimitInv, NEW p \in DOMAIN RateLimiterType,
                      NEW i \in DOMAIN Infos(p), Kept(p, Infos(p)[i].url)
               PROVE  Cardinality(Recorded(p, Infos(p)[i].url)) <= Cardinality(Procs)
    BY DEF RecordsBounded, IInv
  <2> DEFINE u == Infos(p)[i].url
  <2>1. p \in UrlPath /\ u \in UrlPath
    BY InfoUrl
  <2> HIDE DEF u
  <2>2. CountInv(p, u)
    BY <2>1 DEF LimitInv, u
  <2>3. Cardinality(Recorded(p, u)) + Cardinality(Missed(p, u)) <= Cardinality(Procs)
    BY <2>2 DEF CountInv
  <2>4. /\ Cardinality(Recorded(p, u)) \in Nat /\ Cardinality(Missed(p, u)) \in Nat
        /\ Cardinality(Procs) \in Nat
    BY RecordedFinite
  <2>5. Cardinality(Recorded(p, u)) <= Cardinality(Procs)
    BY <2>3, <2>4
  <2> QED BY <2>5 DEF u
<1> QED BY <1>1, IInvHolds, LimitInvHolds, PTL

(* What the invariant says of a record is what RatesRecorded does.         *)
LEMMA RatesInv ==
  ASSUME DataInv, \A p, u \in UrlPath : Sole(p, u) => RateInv(p, u)
  PROVE  RatesRecorded
<1> SUFFICES ASSUME NEW p \in DOMAIN RateLimiterType, NEW i \in DOMAIN Infos(p),
                    NEW u, u = Infos(p)[i].url,
                    Sole(p, u), compeleteUrl(p, u) \in DOMAIN rateLimiters,
                    ZeroSpeed \notin RatesOf(p, u)
             PROVE  rateLimiters[compeleteUrl(p, u)] \in RatesOf(p, u)
  BY DEF RatesRecorded
<1>1. p \in UrlPath /\ u \in UrlPath
  BY InfoUrl
<1>2. RateInv(p, u)
  BY <1>1
<1>3. i \in Recorded(p, u)
  BY DEF Recorded
<1> QED BY <1>2, <1>3 DEF RateInv

(* While no restart intervenes a URL is limited by a recorded rate, though *)
(* setting the rate and creating the limiter race without the lock.        *)
THEOREM RatesRecordedHolds == Spec => []RatesRecorded
<1>1. IInv /\ LimitInv => RatesRecorded
  BY RatesInv DEF IInv, LimitInv
<1> QED BY <1>1, IInvHolds, LimitInvHolds, PTL

-----------------------------------------------------------------------------
(* The hosts of a prefix, when no request lists one twice and no changeLb  *)
(* runs beside a RemoveHost.                                               *)

LbSteps     == {"changeLb", "lbHosts", "lbRemove", "lbAdd"}
RemoveSteps == {"removeHttpProxyHost", "RemoveHost"}

OnceInv ==
    /\ \A p \in DOMAIN prefixMapping : IsInjective(prefixMapping[p].hosts)
    /\ \A q \in Procs :
         /\ IsInjective(arg[q].hosts)
         /\ pc[q] \in LbSteps => Sends({"changeLb"})
         /\ pc[q] \in RemoveSteps => Sends({"removeHttpProxyHost", "Cancel"})

(* Adding a host that is not listed keeps the hosts apart.                 *)
LEMMA AppendOnce ==
  ASSUME NEW hs \in Seq(Hosts), IsInjective(hs), NEW h, h \notin ToSet(hs)
  PROVE  IsInjective(Append(hs, h))
<1>1. /\ DOMAIN Append(hs, h) = 1 .. Len(hs) + 1 /\ DOMAIN hs = 1 .. Len(hs)
      /\ \A i \in 1 .. Len(hs) : Append(hs, h)[i] = hs[i]
      /\ Append(hs, h)[Len(hs) + 1] = h
  OBVIOUS
<1>2. \A i \in 1 .. Len(hs) : hs[i] # h
  BY <1>1 DEF ToSet
<1> QED BY <1>1, <1>2 DEF IsInjective

(* So does taking one away.                                                *)
LEMMA RemoveFirstOnce ==
  ASSUME NEW hs \in Seq(Hosts), IsInjective(hs), NEW h
  PROVE  IsInjective(RemoveFirst(hs, h))
<1> DEFINE I == {i \in 1 .. Len(hs) : hs[i] = h}
           k == Min(I)
<1>1. CASE I = {}
  <2>1. RemoveFirst(hs, h) = hs
    BY <1>1 DEF RemoveFirst
  <2> QED BY <2>1
<1>2. CASE I # {}
  <2>1. k \in I
    <3>1. I \in SUBSET Nat
      OBVIOUS
    <3> HIDE DEF I
    <3> QED BY <1>2, <3>1, MinIsLeast
  <2>2. SelectInSeq(hs, LAMBDA v : v = h) = k
    BY <1>2 DEF SelectInSeq
  <2>3. RemoveFirst(hs, h) = SubSeq(hs, 1, k - 1) \o SubSeq(hs, k + 1, Len(hs))
    BY <1>2, <2>2 DEF RemoveFirst, RemoveAt
  <2>4. k \in 1 .. Len(hs)
    BY <2>1
  <2> HIDE DEF k
  <2> DEFINE a == SubSeq(hs, 1, k - 1)
             b == SubSeq(hs, k + 1, Len(hs))
  <2>5. a \in Seq(Hosts) /\ Len(a) = k - 1 /\ \A i \in 1 .. k - 1 : a[i] = hs[i]
    BY <2>4
  <2>6. /\ b \in Seq(Hosts) /\ Len(b) = Len(hs) - k
        /\ \A i \in 1 .. Len(hs) - k : b[i] = hs[k + i]
    BY <2>4
  <2> HIDE DEF a, b
  <2>7. DOMAIN (a \o b) = 1 .. Len(hs) - 1
    BY <2>4, <2>5, <2>6
  <2>8. ASSUME NEW i \in 1 .. Len(hs) - 1
        PROVE  (a \o b)[i] = hs[IF i < k THEN i ELSE i + 1]
    <3>1. CASE i < k
      BY <2>4, <2>5, <2>6, <3>1
    <3>2. CASE ~(i < k)
      <4>1. i - (k - 1) \in 1 .. Len(hs) - k
        BY <2>4, <3>2
      <4>2. (a \o b)[i] = b[i - (k - 1)]
        BY <2>4, <2>5, <2>6, <3>2
      <4>3. b[i - (k - 1)] = hs[k + (i - (k - 1))]
        BY <2>6, <4>1
      <4>4. k + (i - (k - 1)) = i + 1
        BY <2>4
      <4> QED BY <3>2, <4>2, <4>3, <4>4
    <3> QED BY <3>1, <3>2
  <2>9. \A i \in 1 .. Len(hs) - 1 : (IF i < k THEN i ELSE i + 1) \in DOMAIN hs
    BY <2>4
  <2>10. ASSUME NEW i \in 1 .. Len(hs) - 1, NEW j \in 1 .. Len(hs) - 1,
                (a \o b)[i] = (a \o b)[j]
         PROVE  i = j
    <3>1. (IF i < k THEN i ELSE i + 1) = (IF j < k THEN j ELSE j + 1)
      BY <2>8, <2>9, <2>10 DEF IsInjective
    <3> QED BY <2>4, <3>1
  <2> QED BY <2>3, <2>7, <2>10 DEF IsInjective, a, b
<1> QED BY <1>1, <1>2

(* A balancer put for a prefix needs a list without repetitions.           *)
LEMMA PutOnce ==
  ASSUME \A p \in DOMAIN prefixMapping : IsInjective(prefixMapping[p].hosts),
         NEW p, NEW b, prefixMapping' = Put(prefixMapping, p, b), IsInjective(b.hosts)
  PROVE  \A x \in DOMAIN prefixMapping' : IsInjective(prefixMapping'[x].hosts)
  BY DEF Put

(* No step lists a host of a prefix twice.                                 *)
LEMMA HostsOnceKept ==
  ASSUME DataInv, CtrlInv, OnceInv, NEW q \in Procs, Arrive(q) \/ Step(q)
  PROVE  \A x \in DOMAIN prefixMapping' : IsInjective(prefixMapping'[x].hosts)
<1> DEFINE p == arg[q].prefix
<1>0. \A x \in DOMAIN prefixMapping : IsInjective(prefixMapping[x].hosts)
  BY DEF OnceInv
<1>1. CASE UNCHANGED prefixMapping
  BY <1>0, <1>1
<1>2. CASE AddPrefixStep(q)
  <2>1. CASE p \notin DOMAIN prefixMapping /\ arg[q].algo \in factories
    <3> DEFINE b == Build(arg[q].algo, arg[q].hosts)
    <3>1. prefixMapping' = Put(prefixMapping, p, b)
      BY <1>2, <2>1 DEF AddPrefixStep
    <3>2. b.hosts = arg[q].hosts
      BY <2>1, BuildType DEF CtrlInv, RequestType
    <3>3. IsInjective(b.hosts)
      BY <3>2 DEF OnceInv
    <3> HIDE DEF b, p
    <3> QED BY <1>0, <3>1, <3>3, PutOnce
  <2>2. CASE ~(p \notin DOMAIN prefixMapping /\ arg[q].algo \in factories)
    BY <1>1, <1>2, <2>2 DEF AddPrefixStep, routes
  <2> QED BY <2>1, <2>2
<1>3. CASE Unmap(p)
  BY <1>0, <1>3 DEF Unmap, Del
<1>4. CASE AddHost(q)
  <2> DEFINE old == prefixMapping[p]
             b == Add(old, host(q))
  <2>1. CASE p \in DOMAIN prefixMapping /\ prefixMapping' = Put(prefixMapping, p, b)
    <3>1. host(q) \in Hosts
      BY <1>4, HostType DEF AddHost, At, HostLabels
    <3>2. old \in Balancers /\ old.hosts \in Seq(Hosts)
      BY <2>1 DEF DataInv, IsMap, Balancers
    <3>3. b.hosts = IF old.mode = RR /\ host(q) \notin ToSet(old.hosts)
                    THEN Append(old.hosts, host(q)) ELSE old.hosts
      BY <3>1, <3>2, AddType
    <3>4. IsInjective(old.hosts)
      BY <1>0, <2>1
    <3> HIDE DEF b, p, old
    <3>5. IsInjective(b.hosts)
      BY <3>2, <3>3, <3>4, AppendOnce
    <3> QED BY <1>0, <2>1, <3>5, PutOnce
  <2> QED BY <1>1, <1>4, <2>1 DEF AddHost, NilBalancer, BalancerBlocks, routes
<1>5. CASE RemoveHost(q)
  <2> DEFINE old == prefixMapping[p]
             new == RemoveResult(old, host(q))
  <2>1. CASE p \in DOMAIN prefixMapping /\ prefixMapping' = Put(prefixMapping, p, new.b)
    <3>1. host(q) \in Hosts
      BY <1>5, HostType DEF RemoveHost, At, HostLabels
    <3>2. old \in Balancers /\ old.hosts \in Seq(Hosts)
      BY <2>1 DEF DataInv, IsMap, Balancers
    <3>3. new.b.hosts = IF new.panic THEN old.hosts ELSE RemoveFirst(old.hosts, host(q))
      BY <3>1, <3>2, RemoveType
    <3>4. IsInjective(old.hosts)
      BY <1>0, <2>1
    <3> HIDE DEF new, p, old
    <3>5. IsInjective(new.b.hosts)
      BY <3>2, <3>3, <3>4, RemoveFirstOnce
    <3> QED BY <1>0, <2>1, <3>5, PutOnce
  <2> QED BY <1>1, <1>5, <2>1 DEF RemoveHost, NilBalancer, BalancerBlocks, routes
<1>6. ASSUME NEW x \in DOMAIN prefixMapping,
             prefixMapping' = Put(prefixMapping, x, AfterBalance(prefixMapping[x]))
      PROVE  \A y \in DOMAIN prefixMapping' : IsInjective(prefixMapping'[y].hosts)
  <2> DEFINE b == AfterBalance(prefixMapping[x])
  <2>1. prefixMapping[x] \in Balancers
    BY DEF DataInv, IsMap
  <2>2. b.hosts = prefixMapping[x].hosts
    BY <2>1, AfterBalanceType
  <2>3. IsInjective(b.hosts)
    BY <1>0, <2>2
  <2> HIDE DEF b
  <2>4. prefixMapping' = Put(prefixMapping, x, b)
    BY <1>6 DEF b
  <2> QED BY <1>0, <2>3, <2>4, PutOnce
<1>7. CASE MappingPath(q)
  <2>1. PICK x \in DOMAIN prefixMapping :
          prefixMapping' = Put(prefixMapping, x, AfterBalance(prefixMapping[x]))
    BY <1>7, MappingPathPrefix
  <2> QED BY <1>6, <2>1
<1>8. CASE LoadBalance(q)
  <2>1. CASE p \in DOMAIN prefixMapping
    BY <1>6, <1>8, <2>1 DEF LoadBalance
  <2>2. CASE p \notin DOMAIN prefixMapping
    BY <1>1, <1>8, <2>2 DEF LoadBalance
  <2> QED BY <2>1, <2>2
<1>9. CASE \/ Arrive(q) \/ addHttpProxyPrefix(q) \/ removeHttpProxyPrefix(q)
           \/ addHttpProxyHost(q) \/ removeHttpProxyHost(q) \/ changeLb(q)
           \/ GetHosts(q) \/ RegisterToProxy(q) \/ ServeRefused(q) \/ Limit(q)
           \/ forwardToSpecficPath(q) \/ lbHosts(q) \/ changeStatic(q)
           \/ changeState(q) \/ createRateLimiter(q) \/ setRateLimiter(q)
  BY <1>1, <1>9 DEF Arrive, addHttpProxyPrefix, removeHttpProxyPrefix, addHttpProxyHost,
     removeHttpProxyHost, changeLb, GetHosts, RegisterToProxy, ServeRefused, Limit,
     forwardToSpecficPath, lbHosts, changeStatic, changeState, createRateLimiter,
     setRateLimiter, SetRateLimit, routes
<1> QED BY <1>2, <1>3, <1>4, <1>5, <1>7, <1>8, <1>9
        DEF Step, AddPrefix, lbAdd, RemovePrefix, lbRemove

(* Without changeLb no goroutine holds a slice that RemoveHost could move. *)
LEMMA RemoveHostSlices ==
  ASSUME PlainRequests, CtrlInv, OnceInv, NEW q \in Procs, RemoveHost(q)
  PROVE  /\ \A r \in Procs \ {q} : arg'[r] = arg[r] /\ pc'[r] = pc[r]
         /\ arg'[q] \in {arg[q], NoRequest}
         /\ pc'[q] \in {"idle", "GetHosts", "RemoveHost"}
<1> DEFINE p == arg[q].prefix
           old == prefixMapping[p]
           new == RemoveResult(old, host(q))
<1>1. pc[q] = "RemoveHost"
  BY DEF RemoveHost, At
<1>2. Slices(p) = {}
  BY <1>1 DEF Slices, OnceInv, PlainRequests, LbSteps, RemoveSteps
<1>3. arg \in [Procs -> RequestType] /\ pc \in [Procs -> Labels]
  BY DEF CtrlInv
<1>4. CASE NilBalancer(q) \/ BalancerBlocks(q)
  BY <1>1, <1>3, <1>4 DEF NilBalancer, BalancerBlocks, Panic, Return, Goto
<1>5. CASE ~(NilBalancer(q) \/ BalancerBlocks(q)) /\ new.panic
  BY <1>1, <1>3, <1>5 DEF RemoveHost, Panic, Return, Goto
<1>6. CASE ~(NilBalancer(q) \/ BalancerBlocks(q)) /\ ~new.panic
  <2>1. PICK shared \in SUBSET Slices(p) :
          AfterRemoveHost(q,
            [r \in Procs |->
               IF r \in shared /\ host(q) \in ToSet(old.hosts)
               THEN [arg[r] EXCEPT !.hosts = Moved(@, old.hosts, host(q))]
               ELSE arg[r]])
    BY <1>6 DEF RemoveHost
  <2>2. shared = {}
    BY <1>2, <2>1
  <2> DEFINE args == [r \in Procs |->
                        IF r \in shared /\ host(q) \in ToSet(old.hosts)
                        THEN [arg[r] EXCEPT !.hosts = Moved(@, old.hosts, host(q))]
                        ELSE arg[r]]
  <2>3. DOMAIN args = Procs /\ \A r \in Procs : args[r] = arg[r]
    BY <2>2
  <2>4. AfterRemoveHost(q, args)
    BY <2>1
  <2> HIDE DEF args
  <2> QED BY <1>3, <2>3, <2>4 DEF AfterRemoveHost, Goto
<1> QED BY <1>4, <1>5, <1>6

(* What an end, a panic or going on leaves of the requests.                *)
LEMMA OwnStep ==
  ASSUME CtrlInv, NEW q \in Procs, Step(q),
         ~RemoveHost(q), ~lbHosts(q), ~MappingPath(q)
  PROVE  /\ \A r \in Procs \ {q} : arg'[r] = arg[r] /\ pc'[r] = pc[r]
         /\ arg'[q] \in {arg[q], NoRequest}
         /\ pc'[q] \in LbSteps => pc[q] \in LbSteps
         /\ pc'[q] \in RemoveSteps => pc[q] \in RemoveSteps
<1>1. \/ Return(q) \/ Panic(q) \/ UNCHANGED <<pc, arg>>
      \/ \E label \in {"AddPrefix", "RemovePrefix", "AddHost", "RemoveHost",
                       "lbHosts", "lbAdd", "removeHttpProxyPrefix", "create", "forward",
                       "createLocked"} :
           /\ Goto(q, label) /\ UNCHANGED arg
           /\ label \in LbSteps => pc[q] \in LbSteps
           /\ label \in RemoveSteps => pc[q] \in RemoveSteps
  BY DEF Step, addHttpProxyPrefix, removeHttpProxyPrefix, addHttpProxyHost,
     removeHttpProxyHost, changeLb, GetHosts, RegisterToProxy, ServeRefused, Limit,
     forwardToSpecficPath, lbRemove, lbAdd, AddPrefix, AddPrefixStep, RemovePrefix,
     AddHost, NilBalancer, BalancerBlocks, LoadBalance, changeStatic, changeState,
     createRateLimiter, setRateLimiter, SetRateLimit, Forward, Take, At, LbSteps, RemoveSteps
<1>2. CASE Return(q) \/ Panic(q) \/ UNCHANGED <<pc, arg>>
  BY <1>2 DEF Return, Panic, Goto, CtrlInv, LbSteps, RemoveSteps
<1>3. CASE \E label \in {"AddPrefix", "RemovePrefix", "AddHost", "RemoveHost",
                         "lbHosts", "lbAdd", "removeHttpProxyPrefix", "create", "forward",
                         "createLocked"} :
             /\ Goto(q, label) /\ UNCHANGED arg
             /\ label \in LbSteps => pc[q] \in LbSteps
             /\ label \in RemoveSteps => pc[q] \in RemoveSteps
  BY <1>3 DEF Goto, CtrlInv
<1> QED BY <1>1, <1>2, <1>3

(* No step gives a goroutine a list with repetitions, or brings it to a    *)
(* label that the requests do not allow.                                   *)
LEMMA ArgsOnceKept ==
  ASSUME PlainRequests, DataInv, CtrlInv, OnceInv, NEW q \in Procs, Arrive(q) \/ Step(q),
         NEW r \in Procs
  PROVE  /\ IsInjective(arg'[r].hosts)
         /\ pc'[r] \in LbSteps => Sends({"changeLb"})
         /\ pc'[r] \in RemoveSteps => Sends({"removeHttpProxyHost", "Cancel"})
<1>0. /\ IsInjective(arg[r].hosts)
      /\ pc[r] \in LbSteps => Sends({"changeLb"})
      /\ pc[r] \in RemoveSteps => Sends({"removeHttpProxyHost", "Cancel"})
  BY DEF OnceInv
<1>1. IsInjective(NoRequest.hosts)
  BY DEF NoRequest, IsInjective
<1>2. arg \in [Procs -> RequestType] /\ pc \in [Procs -> Labels]
  BY DEF CtrlInv
<1>3. CASE Arrive(q)
  <2>1. PICK a \in Requests : arg' = [arg EXCEPT ![q] = a] /\ Goto(q, Entry(a.op))
    BY <1>3 DEF Arrive
  <2>2. IsInjective(a.hosts)
    BY DEF PlainRequests
  <2>3. /\ Entry(a.op) \in LbSteps => Sends({"changeLb"})
        /\ Entry(a.op) \in RemoveSteps => Sends({"removeHttpProxyHost", "Cancel"})
    <3>1. a.op \in RpcOps \cup HttpOps
      BY ProxyAssumption DEF RequestType
    <3> QED BY <3>1 DEF Entry, RpcOps, HttpOps, LbSteps, RemoveSteps, Sends
  <2> QED BY <1>0, <1>2, <2>1, <2>2, <2>3 DEF Goto
<1>4. CASE RemoveHost(q)
  <2>1. /\ r # q => arg'[r] = arg[r] /\ pc'[r] = pc[r]
        /\ arg'[q] \in {arg[q], NoRequest}
        /\ pc'[q] \in {"idle", "GetHosts", "RemoveHost"}
    BY <1>4, RemoveHostSlices
  <2>2. pc[q] = "RemoveHost"
    BY <1>4 DEF RemoveHost, At
  <2> QED BY <1>0, <1>1, <2>1, <2>2 DEF LbSteps, RemoveSteps
<1>5. CASE lbHosts(q)
  <2> DEFINE p == arg[q].prefix
             hs == prefixMapping[p].hosts
             st == isStaticResource(p)
  <2>1. pc[q] = "lbHosts"
    BY <1>5 DEF lbHosts, At
  <2>2. CASE p \in DOMAIN prefixMapping
    <3>1. arg' = [arg EXCEPT ![q].hosts = hs, ![q].static = st] /\ Goto(q, "lbRemove")
      BY <1>5, <2>2 DEF lbHosts
    <3>2. IsInjective(hs)
      BY <2>2 DEF OnceInv
    <3> HIDE DEF hs, st
    <3>3. arg'[r].hosts = IF r = q THEN hs ELSE arg[r].hosts
      BY <1>2, <3>1 DEF RequestType
    <3> QED BY <1>0, <1>2, <2>1, <3>1, <3>2, <3>3 DEF Goto, LbSteps, RemoveSteps
  <2>3. CASE p \notin DOMAIN prefixMapping
    <3>1. Panic(q)
      BY <1>5, <2>3 DEF lbHosts
    <3> QED BY <1>0, <1>1, <1>2, <3>1 DEF Panic, Return, Goto, LbSteps, RemoveSteps
  <2> QED BY <2>2, <2>3
<1>6. CASE MappingPath(q)
  <2>1. Others(q) /\ pc'[q] \in {"idle", "limit"}
    BY <1>6, MappingPathMoves
  <2>2. arg'[r].hosts = arg[r].hosts \/ arg'[r] = NoRequest
    <3> DEFINE pfx == SubSeq(arg[q].url, 1, Max(Matches(arg[q].url)))
               rest == SubSeq(arg[q].url, Max(Matches(arg[q].url)) + 1, Len(arg[q].url))
    <3>1. \/ arg' = [arg EXCEPT ![q] = NoRequest]
          \/ arg' = [arg EXCEPT ![q].prefix = pfx, ![q].url = rest]
      BY <1>6 DEF MappingPath, Return
    <3> HIDE DEF pfx, rest
    <3> QED BY <1>2, <3>1 DEF RequestType
  <2> QED BY <1>0, <1>1, <2>1, <2>2 DEF Others, LbSteps, RemoveSteps
<1>7. CASE Step(q) /\ ~RemoveHost(q) /\ ~lbHosts(q) /\ ~MappingPath(q)
  <2>1. /\ r # q => arg'[r] = arg[r] /\ pc'[r] = pc[r]
        /\ arg'[q] \in {arg[q], NoRequest}
        /\ pc'[q] \in LbSteps => pc[q] \in LbSteps
        /\ pc'[q] \in RemoveSteps => pc[q] \in RemoveSteps
    BY <1>7, OwnStep
  <2> QED BY <1>0, <1>1, <2>1
<1> QED BY <1>3, <1>4, <1>5, <1>6, <1>7

(* However the checks of the state manager, which are made without the     *)
(* lock, interleave with the methods that add hosts, no host of a prefix   *)
(* is listed twice; only changeLb beside a removal, or a request that      *)
(* lists a host twice, can do it.                                          *)
THEOREM NoDuplicateHostsHolds == Spec => []NoDuplicateHosts
<1> DEFINE Once == PlainRequests => OnceInv
<1>1. Init => Once
  <2>1. IsInjective(<<>>)
    BY DEF IsInjective
  <2> QED BY <2>1 DEF Init, OnceInv, NoRequest, LbSteps, RemoveSteps
<1>2. IInv /\ Once /\ [Next]_vars => Once'
  <2> SUFFICES ASSUME DataInv, CtrlInv, OnceInv, PlainRequests, [Next]_vars
               PROVE  OnceInv'
    BY DEF IInv
  <2>1. CASE UNCHANGED vars
    BY <2>1 DEF vars, OnceInv
  <2>2. ASSUME NEW q \in Procs, Arrive(q) \/ Step(q)
        PROVE  OnceInv'
    <3>1. \A x \in DOMAIN prefixMapping' : IsInjective(prefixMapping'[x].hosts)
      BY <2>2, HostsOnceKept
    <3>2. ASSUME NEW r \in Procs
          PROVE  /\ IsInjective(arg'[r].hosts)
                 /\ pc'[r] \in LbSteps => Sends({"changeLb"})
                 /\ pc'[r] \in RemoveSteps => Sends({"removeHttpProxyHost", "Cancel"})
      BY <2>2, ArgsOnceKept
    <3> QED BY <3>1, <3>2 DEF OnceInv, Sends
  <2> QED BY <2>1, <2>2 DEF Next
<1>3. Once => NoDuplicateHosts
  BY DEF OnceInv, NoDuplicateHosts
<1> HIDE DEF Once
<1> QED BY <1>1, <1>2, <1>3, IInvHolds, PTL DEF Spec
-----------------------------------------------------------------------------
(* Stand mode: the cron job of the snapshots, kills and restarts.          *)

(* The value of an exported field, as the encoder writes it.               *)
FieldType(name, v) ==
    /\ name = "Paths"           => IsMap(v, UrlPath, Seq(Hosts))
    /\ name = "BalancerType"    => IsMap(v, UrlPath, Algos)
    /\ name = "RateLimiterType" => IsMap(v, UrlPath, Seq(Info))
    /\ name = "StaticMapping"   => IsMap(v, UrlPath, BOOLEAN)
    /\ name = "Available"       => v \in BOOLEAN

FieldsRead == {FieldOrder[i] : i \in 1 .. field - 1}

(* The encoder has read the fields before the next one, each a value of    *)
(* its type, though not of the same moment.                                *)
JobInv ==
    /\ field \in 0 .. 6
    /\ field # 0 => /\ DOMAIN snap = FieldsRead
                    /\ \A name \in FieldsRead : FieldType(name, snap[name])
    /\ disk \notin {NoFile, Truncated} => Snapshot(disk)

SInv == DataInv /\ CtrlInv /\ JobInv

(* What the encoder reads of a proxy has the type of the field.            *)
LEMMA ValueType ==
  ASSUME DataInv, NEW i \in 1 .. 5
  PROVE  FieldType(FieldOrder[i], Value(FieldOrder[i]))
  BY DEF DataInv, FieldType, FieldOrder, Value, Info

(* The first field is read after the file has been truncated.              *)
LEMMA OpenKeeps ==
  ASSUME JobInv, Open
  PROVE  JobInv'
<1>1. field' = 1 /\ snap' = <<>> /\ disk' = Truncated
  BY DEF Open
<1>2. FieldsRead' = {} /\ DOMAIN snap' = {}
  BY <1>1 DEF FieldsRead
<1> QED BY <1>1, <1>2 DEF JobInv

(* The encoder reads the next field.                                       *)
LEMMA EncodeKeeps ==
  ASSUME DataInv, JobInv, Encode
  PROVE  JobInv'
<1>0. PICK i \in 1 .. 5 : i = field
  BY DEF Encode, FieldOrder
<1> DEFINE name == FieldOrder[i]
<1>1. /\ snap' = Put(snap, name, Value(name))
      /\ field' = i + 1 /\ disk' = disk
  BY <1>0 DEF Encode
<1>2. FieldType(name, Value(name))
  BY ValueType
<1>3. FieldsRead' = FieldsRead \cup {name}
  BY <1>0, <1>1 DEF FieldsRead
<1>4. DOMAIN snap = FieldsRead /\ \A x \in FieldsRead : FieldType(x, snap[x])
  BY <1>0 DEF JobInv
<1> HIDE DEF name
<1>5. /\ DOMAIN snap' = FieldsRead \cup {name}
      /\ snap'[name] = Value(name)
      /\ \A x \in FieldsRead : x # name => snap'[x] = snap[x]
  BY <1>1, <1>4 DEF Put
<1>6. \A x \in FieldsRead' : FieldType(x, snap'[x])
  BY <1>2, <1>3, <1>4, <1>5
<1> QED BY <1>1, <1>3, <1>5, <1>6 DEF JobInv, Snapshot

(* The file gets all fields at once.                                       *)
LEMMA WriteKeeps ==
  ASSUME JobInv, Write
  PROVE  JobInv'
<1>1. disk' = snap /\ field' = 0 /\ field = 6
  BY DEF Write, JobInv, FieldOrder
<1>2. FieldsRead = {"Paths", "BalancerType", "RateLimiterType", "StaticMapping",
                    "Available"}
  BY <1>1 DEF FieldsRead, FieldOrder
<1>3. DOMAIN snap = FieldsRead /\ \A x \in FieldsRead : FieldType(x, snap[x])
  BY <1>1 DEF JobInv
<1>4. Snapshot(snap)
  BY <1>2, <1>3 DEF Snapshot, FieldType, Info
<1> QED BY <1>1, <1>4 DEF JobInv, Snapshot

(* A new process has no requests, and its job does not run.                *)
LEMMA FreshKeeps ==
  ASSUME JobInv, FreshProcess
  PROVE  CtrlInv' /\ JobInv'
<1>1. CtrlInv'
  BY NoRequestType DEF FreshProcess, CtrlInv, Labels, HostLabels, LbLabels
<1>2. JobInv'
  BY DEF FreshProcess, JobInv, Snapshot
<1> QED BY <1>1, <1>2

(* Restore rebuilds tables that agree from any file that does not make it  *)
(* panic, also from one whose fields are of different moments.             *)
LEMMA RestoreKeeps ==
  ASSUME JobInv, Restore
  PROVE  DataInv'
<1>1. Snapshot(disk)
  BY DEF Restore, JobInv
<1>2. /\ IsMap(disk.Paths, UrlPath, Seq(Hosts))
      /\ IsMap(disk.BalancerType, UrlPath, Algos)
      /\ IsMap(disk.StaticMapping, UrlPath, BOOLEAN)
      /\ IsMap(disk.RateLimiterType, UrlPath, Seq(Info))
      /\ disk.Available \in BOOLEAN
  BY <1>1 DEF Snapshot, Info
<1>3. /\ Paths' = disk.Paths /\ BalancerType' = disk.BalancerType
      /\ StaticMapping' = RestoredStatic(disk) /\ Available' = disk.Available
      /\ prefixMapping' = RestoredMapping(disk)
      /\ RateLimiterType' = RestoredInfos(disk)
      /\ rateLimiters' \in [RestoredKeys(disk) -> Rates]
  BY DEF Restore
<1>4. ASSUME NEW p \in DOMAIN disk.Paths
      PROVE  /\ p \in DOMAIN disk.BalancerType /\ disk.BalancerType[p] \in factories
             /\ prefixMapping'[p] \in Balancers
             /\ prefixMapping'[p].mode = disk.BalancerType[p]
             /\ prefixMapping'[p].hosts = disk.Paths[p]
  <2>1. Algo(disk, p) \in factories
    BY DEF Restore, RestorePanics
  <2>2. "" \notin factories
    BY DEF factories, RR, CH
  <2>3. p \in DOMAIN disk.BalancerType /\ disk.BalancerType[p] = Algo(disk, p)
    BY <2>1, <2>2 DEF Algo, Get
  <2>4. prefixMapping'[p] = Build(Algo(disk, p), disk.Paths[p])
    BY <1>3 DEF RestoredMapping
  <2>5. disk.Paths[p] \in Seq(Hosts)
    BY <1>2 DEF IsMap
  <2> QED BY <2>1, <2>3, <2>4, <2>5, BuildType
<1>5. DOMAIN prefixMapping' = DOMAIN disk.Paths
  BY <1>3 DEF RestoredMapping
<1>6. IsMap(prefixMapping', UrlPath, Balancers)
  <2>1. prefixMapping' = [p \in DOMAIN disk.Paths |-> prefixMapping'[p]]
    BY <1>3 DEF RestoredMapping
  <2> QED BY <1>2, <1>4, <2>1 DEF IsMap
<1>7. /\ IsMap(StaticMapping', UrlPath, BOOLEAN)
      /\ DOMAIN disk.Paths \subseteq DOMAIN StaticMapping'
  BY <1>2, <1>3 DEF RestoredStatic, IsMap, Get
<1>8. IsMap(RateLimiterType', UrlPath, Seq(Info))
  <2>1. \A p \in DOMAIN disk.RateLimiterType :
          disk.RateLimiterType[p] \o disk.RateLimiterType[p] \in Seq(Info)
    BY <1>2 DEF IsMap
  <2> QED BY <1>2, <1>3, <2>1 DEF RestoredInfos, IsMap
<1>9. IsMap(rateLimiters', UrlPath, Rates)
  <2>1. ASSUME NEW p \in DOMAIN disk.RateLimiterType,
               NEW i \in DOMAIN disk.RateLimiterType[p]
        PROVE  p \in UrlPath /\ disk.RateLimiterType[p][i].url \in UrlPath
    <3>1. p \in UrlPath /\ disk.RateLimiterType[p] \in Seq(Info)
      BY <1>2 DEF IsMap
    <3>2. disk.RateLimiterType[p][i] \in Info
      BY <3>1
    <3> QED BY <3>1, <3>2 DEF Info
  <2>2. \A p, u \in UrlPath : compeleteUrl(p, u) \in UrlPath
    BY DEF compeleteUrl, UrlPath
  <2>3. ASSUME NEW e \in RecordedUrls(disk)
        PROVE  e[1] \in UrlPath /\ e[2] \in UrlPath
    BY <2>1 DEF RecordedUrls
  <2>4. RestoredKeys(disk) \subseteq UrlPath
    BY <2>2, <2>3 DEF RestoredKeys
  <2> QED BY <1>3, <2>4 DEF IsMap
<1>10. RoutesAgree'
  BY <1>3, <1>4, <1>5, <1>7 DEF RoutesAgree
<1> QED BY <1>2, <1>3, <1>6, <1>7, <1>8, <1>9, <1>10 DEF DataInv, Info

(* A node starts with an empty proxy when there is nothing to restore.     *)
LEMMA StartEmptyKeeps ==
  ASSUME StartEmpty
  PROVE  DataInv'
<1>1. \A S, T : IsMap(<<>>, S, T)
  BY DEF IsMap
<1> QED BY <1>1 DEF StartEmpty, DataInv, RoutesAgree

(* Every step of a node in stand mode keeps the invariant.                 *)
LEMMA StandNextSInv == SInv /\ [StandNext]_standVars => SInv'
<1> SUFFICES ASSUME DataInv, CtrlInv, JobInv, [StandNext]_standVars
             PROVE  DataInv' /\ CtrlInv' /\ JobInv'
  BY DEF SInv
<1>1. UNCHANGED job => JobInv'
  BY DEF job, JobInv, FieldsRead, Snapshot
<1>2. UNCHANGED vars => DataInv' /\ CtrlInv'
  BY NextIInv DEF IInv
<1>3. CASE UNCHANGED standVars \/ RestoreFails
  BY <1>1, <1>2, <1>3 DEF standVars, RestoreFails
<1>4. CASE Next /\ UNCHANGED job
  BY <1>1, <1>4, NextIInv DEF IInv
<1>5. CASE Open
  BY <1>2, <1>5, OpenKeeps DEF Open
<1>6. CASE Encode
  BY <1>2, <1>6, EncodeKeeps DEF Encode
<1>7. CASE Write
  BY <1>2, <1>7, WriteKeeps DEF Write
<1>8. CASE Kill
  <2>1. UNCHANGED <<routes, limits, Available>> /\ UNCHANGED job
    BY <1>8 DEF Kill
  <2>2. CtrlInv'
    BY <1>8 DEF Kill, CtrlInv
  <2> QED BY <1>1, <2>1, <2>2, SameData
<1>9. CASE StartEmpty
  BY <1>9, StartEmptyKeeps, FreshKeeps DEF StartEmpty
<1>10. CASE Restore
  BY <1>10, RestoreKeeps, FreshKeeps DEF Restore
<1> QED BY <1>3, <1>4, <1>5, <1>6, <1>7, <1>8, <1>9, <1>10 DEF StandNext

(* The invariant holds across snapshots, kills and restarts.               *)
THEOREM SInvHolds == StandSpec => []SInv
<1>1. StandInit => SInv
  <2>1. StandInit => JobInv
    BY DEF StandInit, JobInv
  <2> QED BY <2>1, InitIInv DEF StandInit, SInv, IInv
<1> QED BY <1>1, StandNextSInv, PTL DEF StandSpec

(* The tables keep their types across restarts, and a file that has been   *)
(* written has every exported field, whenever the process is killed.       *)
THEOREM StandTypeCorrect == StandSpec => []StandTypeOK
<1>1. SInv => StandTypeOK
  BY IInvType DEF SInv, IInv, JobInv, StandTypeOK, FieldOrder
<1> QED BY <1>1, SInvHolds, PTL

(* The persisted tables agree with the prefixer after every restart too,   *)
(* although the encoder reads them one after the other without the lock.   *)
THEOREM StandRoutesAgree == StandSpec => []RoutesAgree
<1>1. SInv => RoutesAgree
  BY DEF SInv, DataInv
<1> QED BY <1>1, SInvHolds, PTL

-----------------------------------------------------------------------------
(* Rates across restarts.                                                  *)

(* The prefixes in a table of the file, or in one the encoder has read.    *)
FieldNamed(name, v) ==
    name \in {"Paths", "RateLimiterType"} => DOMAIN v \subseteq Named

FilesNamed ==
    /\ field # 0 => \A name \in FieldsRead : FieldNamed(name, snap[name])
    /\ disk \notin {NoFile, Truncated} =>
         DOMAIN disk.Paths \subseteq Named /\ DOMAIN disk.RateLimiterType \subseteq Named

RestartInv ==
    /\ PrefixInv /\ FilesNamed
    /\ \A p, u \in UrlPath : Sole(p, u) => RateInv(p, u)

(* What the encoder reads names the prefixes of the proxy.                 *)
LEMMA ValueNamed ==
  ASSUME DataInv, PrefixInv, NEW i \in 1 .. 5
  PROVE  FieldNamed(FieldOrder[i], Value(FieldOrder[i]))
  BY DEF DataInv, RoutesAgree, PrefixInv, FieldNamed, FieldOrder, Value

(* The encoder reads the next field.                                       *)
LEMMA EncodeNamed ==
  ASSUME DataInv, JobInv, PrefixInv, FilesNamed, Encode
  PROVE  FilesNamed'
<1>0. PICK i \in 1 .. 5 : i = field
  BY DEF Encode, FieldOrder
<1> DEFINE name == FieldOrder[i]
<1>1. /\ snap' = Put(snap, name, Value(name))
      /\ field' = i + 1 /\ disk' = disk
  BY <1>0 DEF Encode
<1>2. FieldNamed(name, Value(name))
  BY ValueNamed
<1>3. FieldsRead' = FieldsRead \cup {name}
  BY <1>0, <1>1 DEF FieldsRead
<1>4. DOMAIN snap = FieldsRead /\ \A x \in FieldsRead : FieldNamed(x, snap[x])
  BY <1>0 DEF JobInv, FilesNamed
<1> HIDE DEF name
<1>5. /\ snap'[name] = Value(name)
      /\ \A x \in FieldsRead : x # name => snap'[x] = snap[x]
  BY <1>1, <1>4 DEF Put
<1>6. \A x \in FieldsRead' : FieldNamed(x, snap'[x])
  BY <1>2, <1>3, <1>4, <1>5
<1> QED BY <1>1, <1>6 DEF FilesNamed, Named

(* The file gets all fields at once.                                       *)
LEMMA WriteNamed ==
  ASSUME JobInv, FilesNamed, Write
  PROVE  FilesNamed'
<1>1. disk' = snap /\ field' = 0 /\ field = 6
  BY DEF Write, JobInv, FieldOrder
<1>2. "Paths" \in FieldsRead /\ "RateLimiterType" \in FieldsRead
  BY <1>1 DEF FieldsRead, FieldOrder
<1>3. \A x \in FieldsRead : FieldNamed(x, snap[x])
  BY <1>1 DEF FilesNamed
<1>4. DOMAIN snap["Paths"] \subseteq Named /\ DOMAIN snap["RateLimiterType"] \subseteq Named
  BY <1>2, <1>3 DEF FieldNamed
<1> QED BY <1>1, <1>4 DEF FilesNamed, Named

(* LastRate is the rate of a record of the URL.                            *)
LEMMA LastRateRecorded ==
  ASSUME NEW infos \in Seq(Info), NEW u, \E i \in DOMAIN infos : infos[i].url = u
  PROVE  \E i \in DOMAIN infos : infos[i].url = u /\ LastRate(infos, u) = infos[i].rate
<1> DEFINE I == {i \in DOMAIN infos : infos[i].url = u}
<1>1. DOMAIN infos = 1 .. Len(infos) /\ Len(infos) \in Nat
  OBVIOUS
<1>2. I \subseteq 0 .. Len(infos) /\ I # {}
  BY <1>1
<1>3. LastRate(infos, u) = infos[Max(I)].rate
  BY DEF LastRate
<1>4. Max(I) \in I
  <2> HIDE DEF I
  <2> QED BY <1>1, <1>2, MaxIsGreatest
<1> QED BY <1>3, <1>4

(* Restore installs the rate of the last record of a URL, and every record *)
(* it appends again keeps its rate: the file has one for the limiter.      *)
LEMMA RestoreRates ==
  ASSUME JobInv, FilesNamed, Restore, NEW p \in UrlPath, NEW u \in UrlPath, Sole(p, u)
  PROVE  RateInv(p, u)'
<1> DEFINE key == compeleteUrl(p, u)
<1>1. PICK file : file = disk.RateLimiterType
  OBVIOUS
<1>2. IsMap(file, UrlPath, Seq(Info)) /\ DOMAIN file \subseteq Named
  BY <1>1 DEF Restore, JobInv, Snapshot, FilesNamed, Info
<1>3. RateLimiterType' = [x \in DOMAIN file |-> file[x] \o file[x]]
  BY <1>1 DEF Restore, RestoredInfos
<1> SUFFICES ASSUME Recorded(p, u)' # {}, key \in DOMAIN rateLimiters'
             PROVE  rateLimiters'[key] \in RatesOf(p, u)'
  BY DEF RateInv
<1>4. p \in DOMAIN file /\ Infos(p)' = file[p] \o file[p]
  BY <1>3 DEF Recorded, Infos, Get
<1>5. file[p] \in Seq(Info)
  BY <1>2, <1>4 DEF IsMap
<1>6. /\ DOMAIN file[p] = 1 .. Len(file[p]) /\ Len(file[p]) \in Nat
      /\ DOMAIN (file[p] \o file[p]) = 1 .. Len(file[p]) + Len(file[p])
      /\ \A i \in 1 .. Len(file[p]) : (file[p] \o file[p])[i] = file[p][i]
  BY <1>5
<1>7. rateLimiters'[key] \in RestoredRates(disk, key)
  <2>1. PICK f \in [RestoredKeys(disk) -> Rates] :
          /\ \A x \in RestoredKeys(disk) : f[x] \in RestoredRates(disk, x)
          /\ rateLimiters' = f
    BY DEF Restore
  <2>2. DOMAIN f = RestoredKeys(disk)
    BY <2>1
  <2> HIDE DEF key
  <2> QED BY <2>1, <2>2
<1>8. PICK e \in RecordedUrls(disk) :
        /\ compeleteUrl(e[1], e[2]) = key
        /\ rateLimiters'[key] = LastRate(file[e[1]], e[2])
  BY <1>1, <1>7 DEF RestoredRates
<1>9. PICK x \in DOMAIN file : \E i \in DOMAIN file[x] : e = <<x, file[x][i].url>>
  BY <1>1 DEF RecordedUrls
<1>10. PICK i \in DOMAIN file[x] : e = <<x, file[x][i].url>>
  BY <1>9
<1>11. e[1] = p /\ e[2] = u
  <2>1. x \in UrlPath /\ x \in Named /\ file[x] \in Seq(Info)
    BY <1>2 DEF IsMap
  <2>2. file[x][i] \in Info
    BY <2>1
  <2>3. e[1] = x /\ e[2] = file[x][i].url /\ e[2] \in UrlPath
    BY <1>10, <2>2 DEF Info
  <2> QED BY <1>8, <2>1, <2>3, SoleKey
<1>12. \E j \in DOMAIN file[p] : file[p][j].url = u
  BY <1>10, <1>11
<1>13. PICK j \in DOMAIN file[p] :
         file[p][j].url = u /\ LastRate(file[p], u) = file[p][j].rate
  BY <1>5, <1>12, LastRateRecorded
<1>14. j \in DOMAIN Infos(p)' /\ Infos(p)'[j] = file[p][j]
  BY <1>4, <1>6
<1>15. j \in Recorded(p, u)' /\ Infos(p)'[j].rate = file[p][j].rate
  BY <1>13, <1>14 DEF Recorded
<1> QED BY <1>8, <1>11, <1>13, <1>15 DEF RatesOf

(* The prefixes and the rates of a process that has just started.          *)
LEMMA StartNamed ==
  ASSUME FilesNamed, FreshProcess,
         DOMAIN prefixMapping' \subseteq Named, DOMAIN RateLimiterType' \subseteq Named
  PROVE  PrefixInv' /\ FilesNamed'
<1>1. PrefixInv'
  BY DEF FreshProcess, PrefixInv, Unnamed, Named
<1>2. FilesNamed'
  BY DEF FreshProcess, FilesNamed, Named
<1> QED BY <1>1, <1>2

(* What does not touch the limiters touches no rate.                       *)
LEMMA RatesSame ==
  ASSUME UNCHANGED limits, NEW p, NEW u, RateInv(p, u)
  PROVE  RateInv(p, u)'
<1>1. Infos(p)' = Infos(p)
  BY DEF limits, Infos
<1> QED BY <1>1, RecordsSame DEF RateInv, limits

(* Every step of a node in stand mode keeps the prefixes and the rates.    *)
LEMMA StandNextRestart == SInv /\ RestartInv /\ [StandNext]_standVars => RestartInv'
<1> SUFFICES ASSUME DataInv, CtrlInv, JobInv, PrefixInv, FilesNamed,
                    \A p, u \in UrlPath : Sole(p, u) => RateInv(p, u),
                    [StandNext]_standVars
             PROVE  /\ PrefixInv' /\ FilesNamed'
                    /\ \A p, u \in UrlPath : Sole(p, u) => RateInv(p, u)'
  BY DEF SInv, RestartInv, Sole, Named, compeleteUrl
<1>1. UNCHANGED job => FilesNamed'
  BY DEF job, FilesNamed, FieldsRead, Named
<1>2. ASSUME [Next]_vars
      PROVE  /\ PrefixInv'
             /\ \A p, u \in UrlPath : Sole(p, u) => RateInv(p, u)'
  <2>1. PrefixInv'
    BY <1>2, PrefixesNamed DEF IInv
  <2>2. ASSUME NEW p \in UrlPath, NEW u \in UrlPath, Sole(p, u)
        PROVE  RateInv(p, u)'
    <3>1. RateInv(p, u)
      BY <2>2
    <3> QED BY <1>2, <2>2, <3>1, LimitsKept
  <2> QED BY <2>1, <2>2
<1>3. CASE UNCHANGED standVars \/ RestoreFails
  BY <1>1, <1>2, <1>3 DEF standVars, RestoreFails
<1>4. CASE Next /\ UNCHANGED job
  BY <1>1, <1>2, <1>4
<1>5. CASE Open
  <2>1. FieldsRead' = {}
    BY <1>5 DEF Open, FieldsRead
  <2>2. FilesNamed'
    BY <1>5, <2>1 DEF Open, FilesNamed
  <2> QED BY <1>2, <1>5, <2>2 DEF Open
<1>6. CASE Encode
  BY <1>2, <1>6, EncodeNamed DEF Encode
<1>7. CASE Write
  BY <1>2, <1>7, WriteNamed DEF Write
<1>8. CASE Kill
  <2>1. UNCHANGED <<prefixMapping, limits, pc, arg, job>>
    BY <1>8 DEF Kill, routes
  <2>2. PrefixInv'
    BY <2>1 DEF PrefixInv, limits, Named
  <2>3. ASSUME NEW p \in UrlPath, NEW u \in UrlPath, Sole(p, u)
        PROVE  RateInv(p, u)'
    <3>1. RateInv(p, u)
      BY <2>3
    <3> QED BY <2>1, <3>1, RatesSame
  <2> QED BY <1>1, <2>1, <2>2, <2>3
<1>9. CASE StartEmpty
  <2>1. FreshProcess /\ prefixMapping' = <<>> /\ RateLimiterType' = <<>>
    BY <1>9 DEF StartEmpty
  <2>2. PrefixInv' /\ FilesNamed'
    BY <2>1, StartNamed
  <2>3. ASSUME NEW p, NEW u
        PROVE  RateInv(p, u)'
    <3>1. Infos(p)' = <<>>
      BY <2>1 DEF Infos, Get
    <3> QED BY <3>1 DEF RateInv, Recorded
  <2> QED BY <2>2, <2>3
<1>10. CASE Restore
  <2>1. /\ DOMAIN prefixMapping' = DOMAIN disk.Paths
        /\ DOMAIN RateLimiterType' = DOMAIN disk.RateLimiterType
        /\ FreshProcess /\ disk \notin {NoFile, Truncated}
    BY <1>10 DEF Restore, RestoredMapping, RestoredInfos
  <2>2. PrefixInv' /\ FilesNamed'
    BY <2>1, StartNamed DEF FilesNamed
  <2> QED BY <1>10, <2>2, RestoreRates
<1> QED BY <1>3, <1>4, <1>5, <1>6, <1>7, <1>8, <1>9, <1>10 DEF StandNext

(* A URL is limited by a rate that is recorded for it, across kills and    *)
(* restarts: Restore installs the last record of the URL, SetRateLimit     *)
(* changes the first, and the limiter always has the rate of one of them.  *)
THEOREM StandRatesRecorded == StandSpec => []RatesRecorded
<1>1. StandInit => RestartInv
  <2>1. StandInit => FilesNamed
    BY DEF StandInit, FilesNamed
  <2>2. StandInit => PrefixInv /\ \A p, u \in UrlPath : Sole(p, u) => RateInv(p, u)
    BY InitLimits DEF StandInit, LimitInv
  <2> QED BY <2>1, <2>2 DEF RestartInv
<1>2. SInv /\ RestartInv => RatesRecorded
  BY RatesInv DEF SInv, RestartInv
<1> QED BY <1>1, <1>2, StandNextRestart, SInvHolds, PTL DEF StandSpec
=============================================================================
