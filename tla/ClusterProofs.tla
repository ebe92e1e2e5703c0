--------------------------- MODULE ClusterProofs ----------------------------
(***************************************************************************)
(* The safety of Cluster for any number of nodes, proxies, prefixes and    *)
(* hosts, any log of commands, and snapshots, kills and restarts at any    *)
(* moment.                                                                 *)
(*                                                                         *)
(* A node that has been restored from an image applies again entries whose *)
(* effects the image holds in part. What makes it converge is that most of *)
(* what the proofs call registers - is a port there, the algorithm and the *)
(* hosts of a prefix, a network, a static flag - depend on the last entry  *)
(* that writes them. So the invariant says of a register of a node that    *)
(* has applied a entries, and holds effects of at most h: as long as no    *)
(* entry after a and up to h resets it, it already has the value the log   *)
(* gives it at h, or the entry that gives it that value is still to come.  *)
(*                                                                         *)
(* Most of what follows is about values: a log l, the tables s after each  *)
(* prefix of it (s[i + 1] after i entries), a table t, a proxy x, an entry *)
(* e. The invariant of the module's variables comes after that.            *)
(***************************************************************************)
EXTENDS Cluster, BalancerProofs

-----------------------------------------------------------------------------
(* The registers of a proxy and of a table. A port that is not there has   *)
(* those of a new proxy.                                                   *)

NilBalancer == [mode |-> "", hosts |-> <<>>, rlocked |-> FALSE]
BalOf(x, p) == IF PrefixExists(x, p) THEN x.mapping[p] ELSE NilBalancer

FlagOf(f, p) == IF p \notin DOMAIN f THEN "none" ELSE IF f[p] THEN "on" ELSE "off"

At(t, port)         == Get(t, port, NewHttpReverseProxy)
Bal(t, port, p)     == BalOf(At(t, port), p)
Flag(t, port, p)    == FlagOf(At(t, port).static, p)
Banned(t, port, x)  == x \in At(t, port).acl

-----------------------------------------------------------------------------
(* What an entry does to the registers of its proxy, and what it needs     *)
(* not to panic, but for a speed of 0, of which no register decides.       *)

Passes(b, e) ==
    /\ e.op = "ADD_HTTP_PROXY" => e.legal
    /\ e.op = "ADD_HTTP_PROXY_PREFIX" => b.mode # "" \/ e.algo \in factories
    /\ e.op \in {"CHG_LB", "ADD_HTTP_PROXY_HOST", "RMV_HTTP_PROXY_HOST"} => b.mode # ""
    /\ e.op = "RMV_HTTP_PROXY_HOST" => RemoveResult(b, e.hosts[1]).panic = FALSE

NewBal(b, e) ==
    CASE e.op = "ADD_HTTP_PROXY_PREFIX" -> IF b.mode = "" THEN Build(e.algo, e.hosts) ELSE b
      [] e.op = "RMV_HTTP_PROXY_PREFIX" -> NilBalancer
      [] e.op = "CHG_LB"                -> NilBalancer
      [] e.op = "ADD_HTTP_PROXY_HOST"   -> Add(b, e.hosts[1])
      [] e.op = "RMV_HTTP_PROXY_HOST"   -> RemoveResult(b, e.hosts[1]).b
      [] OTHER -> b

(* With both halves of a change of algorithm.                              *)
IdealBal(b, e) ==
    IF e.op # "CHG_LB" THEN NewBal(b, e)
    ELSE IF e.algo \in factories THEN Build(e.algo, b.hosts) ELSE NilBalancer

NewFlag(f, b, e) ==
    CASE e.op = "CHG_STATIC" -> IF f = "on" THEN "off" ELSE "on"
      [] e.op = "ADD_HTTP_PROXY_PREFIX" /\ b.mode = ""
           -> IF e.static = TRUE THEN "on" ELSE "off"
      [] OTHER -> f

NewAcl(acl, e) ==
    CASE e.op = "ADD_HTTP_BLACK_LIST" -> acl \cup {e.net}
      [] e.op = "RMV_HTTP_BLACK_LIST" -> acl \ {e.net}
      [] OTHER -> acl

NewAvailable(available, e) ==
    CASE e.op = "START" -> TRUE
      [] e.op = "STOP" -> FALSE
      [] OTHER -> available

(* A proxy x becomes y by the entry e, its balancer becomes b.             *)
Becomes(x, e, y, b) ==
    /\ IsProxy(y)
    /\ BalOf(y, e.prefix) = b
    /\ FlagOf(y.static, e.prefix) = NewFlag(FlagOf(x.static, e.prefix),
                                            BalOf(x, e.prefix), e)
    /\ \A p : p # e.prefix => /\ BalOf(y, p) = BalOf(x, p)
                              /\ FlagOf(y.static, p) = FlagOf(x.static, p)
    /\ y.acl = NewAcl(x.acl, e)
    /\ y.available = NewAvailable(x.available, e)
    /\ e.op # "CLOSE" => y.shutdown = x.shutdown

Changes(x, e, y) == Becomes(x, e, y, NewBal(BalOf(x, e.prefix), e))

-----------------------------------------------------------------------------
(* Go maps and proxies.                                                    *)

LEMMA EntryFields ==
    ASSUME NEW e \in EntryType
    PROVE  /\ e.op \in Ops /\ e.port \in Ports /\ e.prefix \in UrlPrefixes
           /\ e.algo \in Algos /\ e.hosts \in Seq(Hosts) /\ e.static \in BOOLEAN
           /\ e.net \in Networks /\ e.legal \in BOOLEAN /\ e.fresh \in BOOLEAN
    BY DEF EntryType

(* The host of an entry for one host.                                      *)
LEMMA FirstHost ==
    ASSUME NEW e \in EntryType, e.hosts # <<>>
    PROVE  e.hosts[1] \in Hosts
<1>1. e.hosts \in Seq(Hosts) /\ Len(e.hosts) \in Nat \ {0}
      BY EntryFields, EmptySeq
<1>2. 1 \in 1 .. Len(e.hosts)
      BY <1>1
<1> QED
      BY <1>1, <1>2, ElementOfSeq

LEMMA NewProxy ==
    /\ IsProxy(NewHttpReverseProxy)
    /\ NewHttpReverseProxy.shutdown = "open"
    /\ NewHttpReverseProxy.acl = {} /\ NewHttpReverseProxy.available = TRUE
    /\ \A p : FlagOf(NewHttpReverseProxy.static, p) = "none"
    /\ \A p : BalOf(NewHttpReverseProxy, p) = NilBalancer
<1>1. DOMAIN <<>> = {} /\ \A S : <<>> \in [{} -> S]
      OBVIOUS
<1>2. /\ NewHttpReverseProxy.mapping = <<>> /\ NewHttpReverseProxy.static = <<>>
      /\ NewHttpReverseProxy.acl = {} /\ NewHttpReverseProxy.available = TRUE
      /\ NewHttpReverseProxy.limiters = {} /\ NewHttpReverseProxy.records = {}
      /\ NewHttpReverseProxy.shutdown = "open"
      BY DEF NewHttpReverseProxy
<1>3. \A S : IsMap(<<>>, S)
      BY <1>1 DEF IsMap
<1> QED
      BY <1>1, <1>2, <1>3 DEF IsProxy, FlagOf, PrefixExists, BalOf

LEMMA ProxyDomain ==
    /\ DOMAIN NewHttpReverseProxy = {"mapping", "static", "acl", "available",
                                     "limiters", "records", "shutdown"}
    /\ \A x : IsProxy(x) => DOMAIN x = {"mapping", "static", "acl", "available",
                                        "limiters", "records", "shutdown"}
    BY DEF NewHttpReverseProxy, IsProxy

LEMMA AtProxy ==
    ASSUME NEW t, IsTable(t), NEW port
    PROVE  /\ IsProxy(At(t, port))
           /\ port \in DOMAIN t => At(t, port) = t[port]
    BY NewProxy DEF IsTable, At, Get

LEMMA NilFields ==
    NilBalancer.mode = "" /\ NilBalancer.hosts = <<>> /\ NilBalancer.rlocked = FALSE
    BY DEF NilBalancer

(* A prefix that is mapped has a balancer, and a balancer has an           *)
(* algorithm.                                                              *)
LEMMA BalType ==
    ASSUME NEW x, IsProxy(x), NEW p
    PROVE  /\ PrefixExists(x, p) => /\ BalOf(x, p) = x.mapping[p]
                                    /\ p \in UrlPrefixes
                                    /\ BalOf(x, p) \in Balancers
                                    /\ BalOf(x, p).mode \in factories
                                    /\ BalOf(x, p).hosts \in Seq(Hosts)
                                    /\ BalOf(x, p).mode # ""
                                    /\ p \in DOMAIN x.static
           /\ ~PrefixExists(x, p) => /\ BalOf(x, p) = NilBalancer
                                     /\ BalOf(x, p).mode = ""
                                     /\ BalOf(x, p).hosts = <<>>
                                     /\ BalOf(x, p).rlocked = FALSE
<1>1. CASE PrefixExists(x, p)
  <2>1. p \in DOMAIN x.mapping /\ x.mapping \in [DOMAIN x.mapping -> Balancers]
        /\ p \in UrlPrefixes /\ p \in DOMAIN x.static
        BY <1>1 DEF PrefixExists, IsProxy, IsMap
  <2>2. x.mapping[p] \in Balancers
        BY <2>1
  <2>3. x.mapping[p].mode \in factories /\ x.mapping[p].hosts \in Seq(Hosts)
        BY <2>2 DEF Balancers
  <2>4. x.mapping[p].mode # ""
        BY <2>3 DEF factories, RR, CH
  <2> QED
        BY <1>1, <2>1, <2>2, <2>3, <2>4 DEF BalOf
<1>2. CASE ~PrefixExists(x, p)
      BY <1>2 DEF BalOf, NilBalancer
<1> QED
      BY <1>1, <1>2

-----------------------------------------------------------------------------
(* The handlers.                                                           *)

(* The calls that leave the proxy as it is.                                *)
LEMMA SameProxy ==
    ASSUME NEW x, IsProxy(x), NEW e \in EntryType,
           \/ e.op \in {"ADD_HTTP_PROXY", "SET_RATE_LIMITER", "CLOSE"}
           \/ e.op = "ADD_HTTP_PROXY_PREFIX" /\ PrefixExists(x, e.prefix)
    PROVE  Changes(x, e, x)
    BY BalType DEF Changes, Becomes, NewBal, NewFlag, NewAcl, NewAvailable

LEMMA AddPrefixChanges ==
    ASSUME NEW x, IsProxy(x), NEW e \in EntryType, e.op = "ADD_HTTP_PROXY_PREFIX",
           ~PrefixExists(x, e.prefix), e.algo \in factories
    PROVE  /\ AddPrefix(x, e).end = "ok"
           /\ Changes(x, e, AddPrefix(x, e).x)
<1> DEFINE y == AddPrefix(x, e).x
           m == Put(x.mapping, e.prefix, Build(e.algo, e.hosts))
           s == Put(x.static, e.prefix, e.static)
<1>1. AddPrefix(x, e).end = "ok" /\ y = [x EXCEPT !.static = s, !.mapping = m]
      BY DEF AddPrefix, Ok
<1> HIDE DEF y
<1>2. /\ DOMAIN y = DOMAIN x /\ y.mapping = m /\ y.static = s
      /\ y.acl = x.acl /\ y.available = x.available /\ y.limiters = x.limiters
      /\ y.records = x.records /\ y.shutdown = x.shutdown
      BY <1>1, ProxyDomain
<1>3. /\ e.prefix \in UrlPrefixes /\ e.static \in BOOLEAN
      /\ Build(e.algo, e.hosts) \in Balancers
      BY EntryFields, BuildType
<1>4. IsMap(x.mapping, Balancers) /\ IsMap(x.static, BOOLEAN)
      BY DEF IsProxy
<1>5. /\ IsMap(m, Balancers) /\ DOMAIN m = DOMAIN x.mapping \cup {e.prefix}
      /\ m[e.prefix] = Build(e.algo, e.hosts)
      /\ \A p \in DOMAIN x.mapping : p # e.prefix => m[p] = x.mapping[p]
      BY <1>3, <1>4 DEF IsMap, Put
<1>6. /\ IsMap(s, BOOLEAN) /\ DOMAIN s = DOMAIN x.static \cup {e.prefix}
      /\ s[e.prefix] = e.static
      /\ \A p \in DOMAIN x.static : p # e.prefix => s[p] = x.static[p]
      BY <1>3, <1>4 DEF IsMap, Put
<1> HIDE DEF m, s
<1>7. IsProxy(y)
      BY <1>2, <1>5, <1>6 DEF IsProxy
<1>8. BalOf(x, e.prefix).mode = ""
      BY BalType
<1>9. BalOf(y, e.prefix) = NewBal(BalOf(x, e.prefix), e)
      BY <1>2, <1>5, <1>8 DEF BalOf, PrefixExists, NewBal
<1>10. \A p : p # e.prefix =>
         BalOf(y, p) = BalOf(x, p) /\ FlagOf(y.static, p) = FlagOf(x.static, p)
      BY <1>2, <1>5, <1>6 DEF BalOf, PrefixExists, FlagOf
<1>11. FlagOf(y.static, e.prefix)
         = NewFlag(FlagOf(x.static, e.prefix), BalOf(x, e.prefix), e)
      BY <1>2, <1>3, <1>6, <1>8 DEF NewFlag, FlagOf
<1>12. y.acl = NewAcl(x.acl, e) /\ y.available = NewAvailable(x.available, e)
      BY <1>2 DEF NewAcl, NewAvailable
<1>13. Changes(x, e, y)
      BY <1>2, <1>7, <1>9, <1>10, <1>11, <1>12 DEF Changes, Becomes
<1> QED
      BY <1>1, <1>13 DEF y

LEMMA RemovePrefixChanges ==
    ASSUME NEW x, IsProxy(x), NEW e \in EntryType,
           e.op \in {"RMV_HTTP_PROXY_PREFIX", "CHG_LB"}
    PROVE  Changes(x, e, RemovePrefix(x, e.prefix))
<1> DEFINE y == RemovePrefix(x, e.prefix)
           m == Del(x.mapping, e.prefix)
<1>1. y = [x EXCEPT !.mapping = m, !.records = x.records \ {e.prefix}]
      BY DEF RemovePrefix
<1> HIDE DEF y
<1>2. /\ DOMAIN y = DOMAIN x /\ y.mapping = m /\ y.static = x.static
      /\ y.acl = x.acl /\ y.available = x.available /\ y.limiters = x.limiters
      /\ y.records = x.records \ {e.prefix} /\ y.shutdown = x.shutdown
      BY <1>1, ProxyDomain
<1>3. IsMap(x.mapping, Balancers)
      BY DEF IsProxy
<1>4. /\ IsMap(m, Balancers) /\ DOMAIN m = DOMAIN x.mapping \ {e.prefix}
      /\ \A p \in DOMAIN x.mapping : p # e.prefix => m[p] = x.mapping[p]
      BY <1>3 DEF IsMap, Del
<1> HIDE DEF m
<1>5. IsProxy(y)
      BY <1>2, <1>4 DEF IsProxy
<1>6. BalOf(y, e.prefix) = NewBal(BalOf(x, e.prefix), e)
      BY <1>2, <1>4 DEF BalOf, PrefixExists, NewBal
<1>7. \A p : p # e.prefix => BalOf(y, p) = BalOf(x, p)
      BY <1>2, <1>4 DEF BalOf, PrefixExists
<1>8. FlagOf(y.static, e.prefix)
        = NewFlag(FlagOf(x.static, e.prefix), BalOf(x, e.prefix), e)
      BY <1>2 DEF NewFlag
<1>9. y.acl = NewAcl(x.acl, e) /\ y.available = NewAvailable(x.available, e)
      BY <1>2 DEF NewAcl, NewAvailable
<1>10. Changes(x, e, y)
      BY <1>2, <1>5, <1>6, <1>7, <1>8, <1>9 DEF Changes, Becomes
<1> QED
      BY <1>10 DEF y

(* AddHost and RemoveHost put a new value for a balancer, as a request     *)
(* does.                                                                   *)
LEMMA NewBalancer ==
    ASSUME NEW x, IsProxy(x), NEW p, PrefixExists(x, p), NEW b \in Balancers
    PROVE  LET y == [x EXCEPT !.mapping[p] = b] IN
           /\ IsProxy(y)
           /\ BalOf(y, p) = b
           /\ \A q : q # p => BalOf(y, q) = BalOf(x, q)
           /\ y.static = x.static /\ y.acl = x.acl /\ y.available = x.available
           /\ y.limiters = x.limiters /\ y.records = x.records
           /\ y.shutdown = x.shutdown
<1> DEFINE y == [x EXCEPT !.mapping[p] = b]
<1>1. /\ DOMAIN y = DOMAIN x /\ y.mapping = [x.mapping EXCEPT ![p] = b]
      /\ y.static = x.static
      /\ y.acl = x.acl /\ y.available = x.available /\ y.limiters = x.limiters
      /\ y.records = x.records /\ y.shutdown = x.shutdown
      BY ProxyDomain
<1>2. x.mapping \in [DOMAIN x.mapping -> Balancers] /\ DOMAIN x.mapping \subseteq UrlPrefixes
      BY DEF IsProxy, IsMap
<1>3. p \in DOMAIN x.mapping
      BY DEF PrefixExists
<1> HIDE DEF y
<1>4. /\ DOMAIN y.mapping = DOMAIN x.mapping
      /\ y.mapping \in [DOMAIN x.mapping -> Balancers] /\ y.mapping[p] = b
      /\ \A q \in DOMAIN x.mapping : q # p => y.mapping[q] = x.mapping[q]
      BY <1>1, <1>2, <1>3
<1>5. IsMap(y.mapping, Balancers)
      BY <1>2, <1>4 DEF IsMap
<1>6. IsProxy(y)
      BY <1>1, <1>4, <1>5 DEF IsProxy
<1>7. BalOf(y, p) = b /\ \A q : q # p => BalOf(y, q) = BalOf(x, q)
      BY <1>3, <1>4 DEF BalOf, PrefixExists
<1> QED
      BY <1>1, <1>6, <1>7 DEF y

LEMMA HostChanges ==
    ASSUME NEW x, IsProxy(x), NEW e \in EntryType, e.hosts # <<>>,
           e.op \in {"ADD_HTTP_PROXY_HOST", "RMV_HTTP_PROXY_HOST"},
           PrefixExists(x, e.prefix)
    PROVE  LET b == NewBal(BalOf(x, e.prefix), e) IN
           /\ b \in Balancers /\ b.mode = BalOf(x, e.prefix).mode
           /\ b.rlocked = BalOf(x, e.prefix).rlocked
           /\ Changes(x, e, [x EXCEPT !.mapping[e.prefix] = b])
<1> DEFINE b == NewBal(BalOf(x, e.prefix), e)
           y == [x EXCEPT !.mapping[e.prefix] = b]
<1>1. BalOf(x, e.prefix) \in Balancers /\ e.hosts[1] \in Hosts
      BY BalType, FirstHost
<1>2. b \in Balancers /\ b.mode = BalOf(x, e.prefix).mode
      /\ b.rlocked = BalOf(x, e.prefix).rlocked
  <2>1. CASE e.op = "ADD_HTTP_PROXY_HOST"
        BY <1>1, <2>1, AddType DEF NewBal
  <2>2. CASE e.op = "RMV_HTTP_PROXY_HOST"
    <3>1. RemoveResult(BalOf(x, e.prefix), e.hosts[1]) \in Partial
          BY <1>1, RemoveType
    <3> QED
          BY <1>1, <2>2, <3>1, RemoveType DEF NewBal, Partial
  <2> QED
        BY <2>1, <2>2
<1> HIDE DEF b
<1>3. /\ IsProxy(y) /\ BalOf(y, e.prefix) = b
      /\ \A q : q # e.prefix => BalOf(y, q) = BalOf(x, q)
      /\ y.static = x.static /\ y.acl = x.acl /\ y.available = x.available
      /\ y.shutdown = x.shutdown
      BY <1>2, NewBalancer
<1> HIDE DEF y
<1>4. /\ NewFlag(FlagOf(x.static, e.prefix), BalOf(x, e.prefix), e)
           = FlagOf(x.static, e.prefix)
      /\ NewAcl(x.acl, e) = x.acl /\ NewAvailable(x.available, e) = x.available
      BY DEF NewFlag, NewAcl, NewAvailable
<1>5. Becomes(x, e, y, b)
      BY <1>3, <1>4 DEF Becomes
<1> QED
      BY <1>2, <1>5 DEF Changes, b, y

LEMMA StaticChanges ==
    ASSUME NEW x, IsProxy(x), NEW e \in EntryType, e.op = "CHG_STATIC"
    PROVE  Changes(x, e, changeStatic(x, e).x)
<1> DEFINE y == changeStatic(x, e).x
           v == ~Get(x.static, e.prefix, FALSE)
           s == Put(x.static, e.prefix, v)
<1>1. y = [x EXCEPT !.static = s]
      BY DEF changeStatic, Ok
<1> HIDE DEF y
<1>2. /\ DOMAIN y = DOMAIN x /\ y.mapping = x.mapping /\ y.static = s
      /\ y.acl = x.acl /\ y.available = x.available /\ y.limiters = x.limiters
      /\ y.records = x.records /\ y.shutdown = x.shutdown
      BY <1>1, ProxyDomain
<1>3. e.prefix \in UrlPrefixes /\ v \in BOOLEAN /\ IsMap(x.static, BOOLEAN)
      BY EntryFields DEF IsProxy
<1>4. v = TRUE <=> FlagOf(x.static, e.prefix) # "on"
      BY <1>3 DEF FlagOf, Get, IsMap
<1> HIDE DEF v
<1>5. /\ IsMap(s, BOOLEAN) /\ DOMAIN s = DOMAIN x.static \cup {e.prefix}
      /\ s[e.prefix] = v
      /\ \A p \in DOMAIN x.static : p # e.prefix => s[p] = x.static[p]
      BY <1>3 DEF IsMap, Put
<1> HIDE DEF s
<1>6. IsProxy(y)
      BY <1>2, <1>5 DEF IsProxy
<1>7. \A p : BalOf(y, p) = BalOf(x, p)
      BY <1>2 DEF BalOf, PrefixExists
<1>8. \A p : p # e.prefix => FlagOf(y.static, p) = FlagOf(x.static, p)
      BY <1>2, <1>5 DEF FlagOf
<1>9. FlagOf(y.static, e.prefix)
        = NewFlag(FlagOf(x.static, e.prefix), BalOf(x, e.prefix), e)
  <2>1. FlagOf(y.static, e.prefix) = IF v = TRUE THEN "on" ELSE "off"
        BY <1>2, <1>3, <1>5 DEF FlagOf
  <2> QED
        BY <1>4, <2>1 DEF NewFlag
<1>10. /\ NewBal(BalOf(x, e.prefix), e) = BalOf(x, e.prefix)
       /\ NewAcl(x.acl, e) = x.acl /\ NewAvailable(x.available, e) = x.available
      BY DEF NewBal, NewAcl, NewAvailable
<1>11. Changes(x, e, y)
      BY <1>2, <1>6, <1>7, <1>8, <1>9, <1>10 DEF Changes, Becomes
<1> QED
      BY <1>11 DEF y

LEMMA FieldChanges ==
    ASSUME NEW x, IsProxy(x), NEW e \in EntryType
    PROVE  /\ e.op = "ADD_HTTP_BLACK_LIST"
                => Changes(x, e, [x EXCEPT !.acl = @ \cup {e.net}])
           /\ e.op = "RMV_HTTP_BLACK_LIST" => Changes(x, e, [x EXCEPT !.acl = @ \ {e.net}])
           /\ e.op = "START" => Changes(x, e, [x EXCEPT !.available = TRUE])
           /\ e.op = "STOP" => Changes(x, e, [x EXCEPT !.available = FALSE])
           /\ e.op = "CLOSE" => Changes(x, e, [x EXCEPT !.shutdown = "taken"])
<1>1. ASSUME NEW y, DOMAIN y = DOMAIN x, y.mapping = x.mapping, y.static = x.static,
             y.limiters = x.limiters, y.records = x.records,
             e.op \in {"ADD_HTTP_BLACK_LIST", "RMV_HTTP_BLACK_LIST", "START", "STOP", "CLOSE"},
             y.acl = NewAcl(x.acl, e), y.available = NewAvailable(x.available, e),
             y.shutdown = IF e.op = "CLOSE" THEN "taken" ELSE x.shutdown
      PROVE  Changes(x, e, y)
  <2>1. y.acl \subseteq Networks
        BY <1>1, EntryFields DEF IsProxy, NewAcl
  <2>2. y.available \in BOOLEAN
        BY <1>1 DEF IsProxy, NewAvailable
  <2>3. IsProxy(y)
        BY <1>1, <2>1, <2>2 DEF IsProxy
  <2>4. \A p : BalOf(y, p) = BalOf(x, p)
        BY <1>1 DEF BalOf, PrefixExists
  <2>5. /\ NewBal(BalOf(x, e.prefix), e) = BalOf(x, e.prefix)
        /\ NewFlag(FlagOf(x.static, e.prefix), BalOf(x, e.prefix), e)
             = FlagOf(x.static, e.prefix)
        BY <1>1 DEF NewBal, NewFlag
  <2> QED
        BY <1>1, <2>3, <2>4, <2>5 DEF Changes, Becomes
<1>2. e.op = "ADD_HTTP_BLACK_LIST" => Changes(x, e, [x EXCEPT !.acl = @ \cup {e.net}])
  <2> DEFINE y == [x EXCEPT !.acl = @ \cup {e.net}]
  <2>1. /\ DOMAIN y = DOMAIN x /\ y.mapping = x.mapping /\ y.static = x.static
        /\ y.limiters = x.limiters /\ y.records = x.records
        /\ y.acl = x.acl \cup {e.net} /\ y.available = x.available
        /\ y.shutdown = x.shutdown
        BY ProxyDomain
  <2> HIDE DEF y
  <2>2. e.op = "ADD_HTTP_BLACK_LIST" => Changes(x, e, y)
        BY <1>1, <2>1 DEF NewAcl, NewAvailable
  <2> QED
        BY <2>2 DEF y
<1>3. e.op = "RMV_HTTP_BLACK_LIST" => Changes(x, e, [x EXCEPT !.acl = @ \ {e.net}])
  <2> DEFINE y == [x EXCEPT !.acl = @ \ {e.net}]
  <2>1. /\ DOMAIN y = DOMAIN x /\ y.mapping = x.mapping /\ y.static = x.static
        /\ y.limiters = x.limiters /\ y.records = x.records
        /\ y.acl = x.acl \ {e.net} /\ y.available = x.available
        /\ y.shutdown = x.shutdown
        BY ProxyDomain
  <2> HIDE DEF y
  <2>2. e.op = "RMV_HTTP_BLACK_LIST" => Changes(x, e, y)
        BY <1>1, <2>1 DEF NewAcl, NewAvailable
  <2> QED
        BY <2>2 DEF y
<1>4. /\ e.op = "START" => Changes(x, e, [x EXCEPT !.available = TRUE])
      /\ e.op = "STOP" => Changes(x, e, [x EXCEPT !.available = FALSE])
  <2>1. ASSUME NEW v \in BOOLEAN, v = NewAvailable(x.available, e),
               e.op \in {"START", "STOP"}
        PROVE  Changes(x, e, [x EXCEPT !.available = v])
    <3> DEFINE y == [x EXCEPT !.available = v]
    <3>1. /\ DOMAIN y = DOMAIN x /\ y.mapping = x.mapping /\ y.static = x.static
          /\ y.limiters = x.limiters /\ y.records = x.records
          /\ y.acl = x.acl /\ y.available = v /\ y.shutdown = x.shutdown
          BY ProxyDomain
    <3> HIDE DEF y
    <3>2. Changes(x, e, y)
          BY <1>1, <2>1, <3>1 DEF NewAcl
    <3> QED
          BY <3>2 DEF y
  <2>2. /\ e.op = "START" => NewAvailable(x.available, e) = TRUE
        /\ e.op = "STOP" => NewAvailable(x.available, e) = FALSE
        BY DEF NewAvailable
  <2> QED
        BY <2>1, <2>2
<1>5. e.op = "CLOSE" => Changes(x, e, [x EXCEPT !.shutdown = "taken"])
  <2> DEFINE y == [x EXCEPT !.shutdown = "taken"]
  <2>1. /\ DOMAIN y = DOMAIN x /\ y.mapping = x.mapping /\ y.static = x.static
        /\ y.limiters = x.limiters /\ y.records = x.records
        /\ y.acl = x.acl /\ y.available = x.available /\ y.shutdown = "taken"
        BY ProxyDomain
  <2> HIDE DEF y
  <2>2. e.op = "CLOSE" => Changes(x, e, y)
        BY <1>1, <2>1 DEF NewAcl, NewAvailable
  <2> QED
        BY <2>2 DEF y
<1> QED
      BY <1>2, <1>3, <1>4, <1>5

LEMMA Ends3 ==
    \A z : /\ Ok(z).end = "ok" /\ Ok(z).x = z
           /\ Panics(z).end = "panic" /\ Blocks(z).end = "blocks" /\ Blocks(z).x = z
    BY DEF Ok, Panics, Blocks

(* How the call for an entry ends, and what it does when it ends.          *)
Handled(x, e) ==
    LET b == BalOf(x, e.prefix)
        r == Handle(x, e) IN
    /\ r.end \in {"ok", "panic", "blocks"}
    /\ r.end = "panic" => ~Passes(b, e) \/ (e.op = "SET_RATE_LIMITER" /\ ~e.legal)
    /\ r.end = "blocks" => /\ r.x = x
                           /\ \/ b.rlocked = TRUE
                              \/ e.op \in {"SET_RATE_LIMITER", "CLOSE"}
    /\ r.end = "ok" => /\ Passes(b, e) /\ Changes(x, e, r.x)
                       /\ e.op \in {"ADD_HTTP_PROXY_HOST", "RMV_HTTP_PROXY_HOST"}
                          => b.rlocked = FALSE

LEMMA HandleOutcome ==
    ASSUME NEW x, IsProxy(x), NEW e \in EntryType, e.hosts # <<>>
    PROVE  Handled(x, e)
<1> DEFINE b == BalOf(x, e.prefix)
           r == Handle(x, e)
<1>0. e.op \in Ops
      BY EntryFields
<1>1. CASE e.op = "SET_RATE_LIMITER"
  <2>1. /\ r.x = x /\ r.end \in {"ok", "blocks", "panic"}
        /\ r.end = "panic" => ~e.legal
        BY <1>1 DEF Handle, SetRateLimit, Ok, Blocks, Panics
  <2>2. Passes(b, e) /\ Changes(x, e, x)
        BY <1>1, SameProxy DEF Passes
  <2> QED
        BY <1>1, <2>1, <2>2 DEF Handled
<1>9. CASE e.op = "ADD_HTTP_PROXY"
  <2>1. /\ r.x = x
        /\ e.legal => r.end = "ok"
        /\ ~e.legal => r.end = "panic"
        BY <1>9 DEF Handle, AddHttpProxy, Ok, Panics
  <2>2. Changes(x, e, x)
        BY <1>9, SameProxy
  <2>3. Passes(b, e) <=> e.legal
        BY <1>9 DEF Passes
  <2> QED
        BY <1>9, <2>1, <2>2, <2>3 DEF Handled
<1>2. CASE e.op = "ADD_HTTP_PROXY_PREFIX"
  <2>0. r = AddPrefix(x, e)
        BY <1>2 DEF Handle
  <2>1. CASE PrefixExists(x, e.prefix)
    <3>1. r.x = x /\ r.end = "ok"
          BY <2>0, <2>1 DEF AddPrefix, Ok
    <3>2. Passes(b, e) /\ Changes(x, e, x)
          BY <1>2, <2>1, SameProxy, BalType DEF Passes
    <3> QED
          BY <1>2, <3>1, <3>2 DEF Handled
  <2>2. CASE ~PrefixExists(x, e.prefix) /\ e.algo \notin factories
    <3>1. r.end = "panic"
          BY <2>0, <2>2 DEF AddPrefix, Panics
    <3>2. ~Passes(b, e)
          BY <1>2, <2>2, BalType DEF Passes
    <3> QED
          BY <3>1, <3>2 DEF Handled
  <2>3. CASE ~PrefixExists(x, e.prefix) /\ e.algo \in factories
    <3>1. r.end = "ok" /\ Changes(x, e, r.x)
          BY <1>2, <2>0, <2>3, AddPrefixChanges
    <3>2. Passes(b, e)
          BY <1>2, <2>3 DEF Passes
    <3> QED
          BY <1>2, <3>1, <3>2 DEF Handled
  <2> QED
        BY <2>1, <2>2, <2>3
<1>3. CASE \/ e.op = "RMV_HTTP_PROXY_PREFIX"
           \/ e.op = "CHG_LB" /\ PrefixExists(x, e.prefix)
  <2>1. r.x = RemovePrefix(x, e.prefix) /\ r.end = "ok"
        BY <1>3 DEF Handle, changeLb, Ok
  <2>2. Changes(x, e, r.x)
        BY <1>3, <2>1, RemovePrefixChanges
  <2>3. Passes(b, e)
        BY <1>3, BalType DEF Passes
  <2> QED
        BY <1>3, <2>1, <2>2, <2>3 DEF Handled
<1>4. CASE /\ e.op \in {"ADD_HTTP_PROXY_HOST", "RMV_HTTP_PROXY_HOST", "CHG_LB"}
           /\ ~PrefixExists(x, e.prefix)
  <2>1. r.end = "panic"
        BY <1>4 DEF Handle, AddHost, RemoveHost, changeLb, Panics
  <2>2. ~Passes(b, e)
        BY <1>4, BalType DEF Passes
  <2> QED
        BY <2>1, <2>2 DEF Handled
<1>5. CASE /\ e.op \in {"ADD_HTTP_PROXY_HOST", "RMV_HTTP_PROXY_HOST"}
           /\ PrefixExists(x, e.prefix)
  <2>0. b = x.mapping[e.prefix] /\ b \in Balancers /\ b.mode # "" /\ b.rlocked \in BOOLEAN
        BY <1>5, BalType DEF Balancers
  <2>1. CASE b.rlocked = TRUE
    <3>1. r.end = "blocks" /\ r.x = x
          BY <1>5, <2>0, <2>1 DEF Handle, AddHost, RemoveHost, Blocks
    <3> QED
          BY <2>1, <3>1 DEF Handled
  <2>2. CASE b.rlocked = FALSE /\ e.op = "ADD_HTTP_PROXY_HOST"
    <3>1. r = Ok([x EXCEPT !.mapping[e.prefix] = Add(@, e.hosts[1])])
          BY <1>5, <2>0, <2>2 DEF Handle, AddHost
    <3>2. r.end = "ok" /\ r.x = [x EXCEPT !.mapping[e.prefix] = NewBal(b, e)]
      <4>1. NewBal(b, e) = Add(x.mapping[e.prefix], e.hosts[1])
            BY <2>0, <2>2 DEF NewBal
      <4> QED
            BY <3>1, <4>1, Ends3
    <3>3. Changes(x, e, r.x)
          BY <1>5, <3>2, HostChanges
    <3>4. Passes(b, e)
          BY <2>0, <2>2 DEF Passes
    <3> QED
          BY <2>2, <3>2, <3>3, <3>4 DEF Handled
  <2>3. CASE b.rlocked = FALSE /\ e.op = "RMV_HTTP_PROXY_HOST"
    <3> DEFINE q == RemoveResult(b, e.hosts[1])
    <3>0. e.hosts[1] \in Hosts
          BY FirstHost
    <3>1. q.panic \in BOOLEAN
          BY <2>0, <3>0, RemoveType DEF Partial
    <3>2. r = IF q.panic THEN Panics(x) ELSE Ok([x EXCEPT !.mapping[e.prefix] = q.b])
          BY <1>5, <2>0, <2>3 DEF Handle, RemoveHost
    <3>3. CASE q.panic = TRUE
      <4>1. r.end = "panic" /\ ~Passes(b, e)
        <5>1. r = Panics(x)
              BY <3>2, <3>3
        <5>2. ~Passes(b, e)
              BY <2>3, <3>3 DEF Passes
        <5> QED
              BY <5>1, <5>2, Ends3
      <4> QED
            BY <4>1 DEF Handled
    <3>4. CASE q.panic = FALSE
      <4>1. r.end = "ok" /\ r.x = [x EXCEPT !.mapping[e.prefix] = NewBal(b, e)]
        <5>1. NewBal(b, e) = q.b
              BY <2>3 DEF NewBal
        <5>2. r = Ok([x EXCEPT !.mapping[e.prefix] = NewBal(b, e)])
              BY <3>2, <3>4, <5>1
        <5> QED
              BY <5>2, Ends3
      <4>2. Changes(x, e, r.x)
            BY <1>5, <4>1, HostChanges
      <4>3. Passes(b, e)
            BY <2>0, <2>3, <3>4 DEF Passes
      <4> QED
            BY <2>3, <4>1, <4>2, <4>3 DEF Handled
    <3> QED
          BY <3>1, <3>3, <3>4
  <2> QED
        BY <1>5, <2>0, <2>1, <2>2, <2>3
<1>6. CASE e.op \in {"ADD_HTTP_BLACK_LIST", "RMV_HTTP_BLACK_LIST", "START", "STOP"}
  <2>1. r.end = "ok" /\ Changes(x, e, r.x)
        BY <1>6, FieldChanges DEF Handle, Ok
  <2>2. Passes(b, e)
        BY <1>6 DEF Passes
  <2> QED
        BY <1>6, <2>1, <2>2 DEF Handled
<1>7. CASE e.op = "CHG_STATIC"
  <2>1. r.end = "ok" /\ Changes(x, e, r.x)
        BY <1>7, StaticChanges DEF Handle, changeStatic, Ok
  <2>2. Passes(b, e)
        BY <1>7 DEF Passes
  <2> QED
        BY <1>7, <2>1, <2>2 DEF Handled
<1>8. CASE e.op = "CLOSE"
  <2>1. r = Close(x) /\ Passes(b, e)
        BY <1>8 DEF Handle, Passes
  <2>2. CASE x.shutdown = "open"
    <3>0. r = Ok([x EXCEPT !.shutdown = "taken"])
          BY <2>1, <2>2 DEF Close
    <3>1. r.end = "ok" /\ Changes(x, e, r.x)
      <4> DEFINE z == [x EXCEPT !.shutdown = "taken"]
      <4>1. Changes(x, e, z) /\ r = Ok(z)
            BY <1>8, <3>0, FieldChanges
      <4> HIDE DEF z
      <4> QED
            BY <4>1, Ends3
    <3> QED
          BY <1>8, <2>1, <3>1 DEF Handled
  <2>3. CASE x.shutdown # "open"
    <3>1. r.end = "blocks" /\ r.x = x
          BY <2>1, <2>3 DEF Close, Blocks
    <3> QED
          BY <1>8, <3>1 DEF Handled
  <2> QED
        BY <2>2, <2>3
<1> QED
      BY <1>0, <1>1, <1>2, <1>3, <1>4, <1>5, <1>6, <1>7, <1>8, <1>9 DEF Ops

-----------------------------------------------------------------------------
(* Tables.                                                                 *)

(* The table u is t with the proxy y for a port.                           *)
Puts(t, port, y, u) ==
    /\ IsTable(u) /\ DOMAIN u = DOMAIN t \cup {port}
    /\ At(u, port) = y
    /\ \A q : q # port => At(u, q) = At(t, q)

LEMMA PutAt ==
    ASSUME NEW t, IsTable(t), NEW port \in Ports, NEW y, IsProxy(y)
    PROVE  Puts(t, port, y, Put(t, port, y))
<1> DEFINE u == Put(t, port, y)
<1>1. /\ DOMAIN u = DOMAIN t \cup {port} /\ u[port] = y
      /\ \A q \in DOMAIN t : q # port => u[q] = t[q]
      BY DEF Put
<1> HIDE DEF u
<1>2. IsTable(u)
      BY <1>1 DEF IsTable
<1>3. At(u, port) = y /\ \A q : q # port => At(u, q) = At(t, q)
      BY <1>1 DEF At, Get
<1>4. Puts(t, port, y, u)
      BY <1>1, <1>2, <1>3 DEF Puts
<1> QED
      BY <1>4 DEF u

LEMMA PutSame ==
    ASSUME NEW t, IsTable(t), NEW port \in DOMAIN t
    PROVE  /\ DOMAIN Put(t, port, At(t, port)) = DOMAIN t
           /\ \A q : At(Put(t, port, At(t, port)), q) = At(t, q)
    BY DEF Put, At, Get

LEMMA DelAt ==
    ASSUME NEW t, IsTable(t), NEW port, NEW u, u = Del(t, port)
    PROVE  /\ IsTable(u)
           /\ DOMAIN u = DOMAIN t \ {port}
           /\ \A q : q # port => At(u, q) = At(t, q)
<1>1. DOMAIN u = DOMAIN t \ {port} /\ \A q \in DOMAIN t \ {port} : u[q] = t[q]
      BY DEF Del
<1> QED
      BY <1>1 DEF IsTable, At, Get

(* No ring of the tables of the log ever loses a read lock.                *)
Unlocked(t) == \A port, p : Bal(t, port, p).rlocked = FALSE

(* A step of the log from t to u.                                          *)
StepOf(t, e, u) ==
    LET b == Bal(t, e.port, e.prefix)
        passes == ~NilProxy(t, e) /\ Passes(b, e) IN
    /\ IsTable(u) /\ Unlocked(u)
    /\ DOMAIN u = DOMAIN t \cup (IF passes THEN {e.port} ELSE {})
    /\ \A port : port # e.port => At(u, port) = At(t, port)
    /\ ~passes => u = t
    /\ passes => Becomes(At(t, e.port), e, At(u, e.port), IdealBal(b, e))

LEMMA OutcomePanics ==
    ASSUME NEW t, IsTable(t), Unlocked(t), NEW e \in EntryType, e.hosts # <<>>
    PROVE  /\ ~Passes(Bal(t, e.port, e.prefix), e) => Outcome(t, e).end = "panic"
           /\ Outcome(t, e).end = "panic" /\ e.op # "SET_RATE_LIMITER"
              => ~Passes(Bal(t, e.port, e.prefix), e)
<1>1. Handled(At(t, e.port), e)
      BY AtProxy, HandleOutcome
<1>2. Bal(t, e.port, e.prefix).rlocked = FALSE
      BY DEF Unlocked
<1>3. e.op \in {"SET_RATE_LIMITER", "CLOSE"} => Passes(Bal(t, e.port, e.prefix), e)
      BY DEF Passes
<1> QED
      BY <1>1, <1>2, <1>3 DEF Handled, Outcome, At, Bal

(* Both halves of a change of algorithm.                                   *)
LEMMA LbStep ==
    ASSUME NEW x, IsProxy(x), NEW e \in EntryType, e.op = "CHG_LB",
           PrefixExists(x, e.prefix), NEW y, Changes(x, e, y)
    PROVE  LET r == LbRest(x, e) IN
           /\ r \in EntryType /\ r.op = "ADD_HTTP_PROXY_PREFIX"
           /\ r.port = e.port /\ r.prefix = e.prefix /\ r.algo = e.algo
           /\ r.hosts = BalOf(x, e.prefix).hosts
           /\ r.static = x.static[e.prefix] /\ e.prefix \in DOMAIN x.static
           /\ ~PrefixExists(y, e.prefix)
           /\ e.algo \notin factories
              => /\ AddPrefix(y, r).end = "panic"
                 /\ Becomes(x, e, y, IdealBal(BalOf(x, e.prefix), e))
           /\ e.algo \in factories
              => /\ AddPrefix(y, r).end = "ok"
                 /\ Becomes(x, e, AddPrefix(y, r).x, IdealBal(BalOf(x, e.prefix), e))
<1> DEFINE r == LbRest(x, e)
           b == BalOf(x, e.prefix)
<1>1. /\ b = x.mapping[e.prefix] /\ b.hosts \in Seq(Hosts) /\ b.mode # ""
      /\ e.prefix \in DOMAIN x.static /\ x.static[e.prefix] \in BOOLEAN
      BY BalType DEF IsProxy, IsMap
<1>2. /\ r \in EntryType /\ r.op = "ADD_HTTP_PROXY_PREFIX"
      /\ r.port = e.port /\ r.prefix = e.prefix /\ r.algo = e.algo
      /\ r.hosts = b.hosts /\ r.static = x.static[e.prefix]
      BY <1>1 DEF LbRest, Get, EntryType, Ops
<1> HIDE DEF r
<1>3. IsProxy(y) /\ BalOf(y, e.prefix) = NilBalancer
      BY DEF Changes, Becomes, NewBal
<1>4. ~PrefixExists(y, e.prefix) /\ BalOf(y, e.prefix).mode = ""
      BY <1>3, BalType, NilFields
<1>5. e.algo \notin factories => /\ AddPrefix(y, r).end = "panic"
                                 /\ Becomes(x, e, y, IdealBal(b, e))
      BY <1>2, <1>4 DEF AddPrefix, Panics, Changes, IdealBal, NewBal
<1>6. ASSUME e.algo \in factories
      PROVE  /\ AddPrefix(y, r).end = "ok"
             /\ Becomes(x, e, AddPrefix(y, r).x, IdealBal(b, e))
  <2> DEFINE z == AddPrefix(y, r).x
  <2>1. AddPrefix(y, r).end = "ok" /\ Changes(y, r, z)
        BY <1>2, <1>3, <1>4, <1>6, AddPrefixChanges
  <2> HIDE DEF z
  <2>2. /\ IsProxy(z) /\ BalOf(z, e.prefix) = Build(e.algo, b.hosts)
        /\ z.acl = y.acl /\ z.available = y.available /\ z.shutdown = y.shutdown
        /\ \A p : p # e.prefix => /\ BalOf(z, p) = BalOf(y, p)
                                  /\ FlagOf(z.static, p) = FlagOf(y.static, p)
        BY <1>2, <1>4, <2>1 DEF Changes, Becomes, NewBal, NewAcl, NewAvailable
  <2>3. FlagOf(z.static, e.prefix) = IF x.static[e.prefix] = TRUE THEN "on" ELSE "off"
        BY <1>2, <1>4, <2>1 DEF Changes, Becomes, NewFlag
  <2>4. FlagOf(z.static, e.prefix) = NewFlag(FlagOf(x.static, e.prefix), b, e)
        BY <1>1, <2>3 DEF FlagOf, NewFlag
  <2>5. Becomes(x, e, z, IdealBal(b, e))
        BY <1>6, <2>2, <2>4 DEF Becomes, Changes, IdealBal, NewAcl, NewAvailable
  <2> QED
        BY <2>1, <2>5 DEF z
<1> QED
      BY <1>1, <1>2, <1>4, <1>5, <1>6 DEF r

LEMMA IdealUnlocked ==
    ASSUME NEW x, IsProxy(x), NEW e \in EntryType, e.hosts # <<>>,
           BalOf(x, e.prefix).rlocked = FALSE, Passes(BalOf(x, e.prefix), e)
    PROVE  IdealBal(BalOf(x, e.prefix), e).rlocked = FALSE
<1> DEFINE b == BalOf(x, e.prefix)
<1>1. e.op \in Ops /\ e.hosts \in Seq(Hosts) /\ NilBalancer.rlocked = FALSE
      BY EntryFields, NilFields
<1>2. b.hosts \in Seq(Hosts)
      BY BalType, EmptySeq
<1>3. \A a \in factories, hs \in Seq(Hosts) : Build(a, hs).rlocked = FALSE
  <2> TAKE a \in factories, hs \in Seq(Hosts)
  <2>1. ~Build(a, hs).rlocked /\ Build(a, hs) \in Balancers
        BY BuildType
  <2>2. Build(a, hs).rlocked \in BOOLEAN
        BY <2>1 DEF Balancers
  <2> QED
        BY <2>1, <2>2
<1>4. CASE e.op = "CHG_LB"
      BY <1>1, <1>2, <1>3, <1>4 DEF IdealBal
<1>5. CASE e.op = "ADD_HTTP_PROXY_PREFIX"
      BY <1>1, <1>3, <1>5 DEF IdealBal, NewBal, Passes
<1>6. CASE e.op \in {"ADD_HTTP_PROXY_HOST", "RMV_HTTP_PROXY_HOST"}
  <2>1. PrefixExists(x, e.prefix)
        BY <1>6, BalType DEF Passes
  <2>2. NewBal(b, e).rlocked = FALSE
        BY <1>6, <2>1, HostChanges
  <2> QED
        BY <1>6, <2>2 DEF IdealBal
<1>7. CASE e.op \notin {"CHG_LB", "ADD_HTTP_PROXY_PREFIX", "ADD_HTTP_PROXY_HOST",
                        "RMV_HTTP_PROXY_HOST"}
      BY <1>1, <1>7 DEF IdealBal, NewBal
<1> QED
      BY <1>4, <1>5, <1>6, <1>7

LEMMA IdealStep ==
    ASSUME NEW t, IsTable(t), Unlocked(t), NEW e \in EntryType, e.hosts # <<>>
    PROVE  StepOf(t, e, IdealNext(t, e))
<1> DEFINE x == At(t, e.port)
           b == Bal(t, e.port, e.prefix)
           r == Outcome(t, e)
           u == IdealNext(t, e)
           passes == ~NilProxy(t, e) /\ Passes(b, e)
<1>1. /\ IsProxy(x) /\ Handled(x, e) /\ r = Handle(x, e)
      /\ b = BalOf(x, e.prefix) /\ b.rlocked = FALSE
      BY AtProxy, HandleOutcome DEF Outcome, At, Bal, Unlocked
<1>2. e.port \in Ports
      BY EntryFields
<1>0. CASE e.op = "SET_RATE_LIMITER"
  <2>1. Passes(b, e) /\ IdealBal(b, e) = b
        BY <1>0 DEF Passes, IdealBal, NewBal
  <2>2. passes => e.port \in DOMAIN t
        BY <1>0 DEF NilProxy
  <2>3. Changes(x, e, x)
        BY <1>0, <1>1, SameProxy
  <2>4. r.x = x
        BY <1>0, <1>1 DEF Handle, SetRateLimit, Ok, Blocks, Panics
  <2>5. u = t \/ (passes /\ u = Put(t, e.port, x))
    <3>1. u = Next1(t, e)
          BY <1>0 DEF IdealNext
    <3> HIDE DEF u, x, b
    <3>2. CASE NilProxy(t, e) \/ r.end = "panic"
      <4>1. Next1(t, e) = t
            BY <3>2 DEF Next1
      <4> QED
            BY <3>1, <4>1
    <3>3. CASE ~(NilProxy(t, e) \/ r.end = "panic")
      <4>1. Next1(t, e) = Put(t, e.port, r.x)
            BY <3>3 DEF Next1
      <4> QED
            BY <2>1, <2>4, <3>1, <3>3, <4>1
    <3> QED
          BY <3>2, <3>3
  <2>6. DOMAIN u = DOMAIN t /\ \A q : At(u, q) = At(t, q)
    <3>1. CASE u = t
          BY <3>1
    <3>2. CASE passes /\ u = Put(t, e.port, x)
          BY <2>2, <3>2, PutSame
    <3> QED
          BY <2>5, <3>1, <3>2
  <2>7. IsTable(u)
    <3>1. CASE passes /\ u = Put(t, e.port, x)
      <4>1. Puts(t, e.port, x, Put(t, e.port, x))
            BY <1>1, <1>2, PutAt
      <4> QED
            BY <3>1, <4>1 DEF Puts
    <3> QED
          BY <2>5, <3>1
  <2>8. ~passes => u = t
        BY <2>5
  <2> HIDE DEF u
  <2>9. Unlocked(u)
        BY <2>6 DEF Unlocked, Bal
  <2>10. Becomes(x, e, At(u, e.port), IdealBal(b, e))
    <3>1. NewBal(BalOf(x, e.prefix), e) = IdealBal(b, e)
          BY <1>0, <1>1 DEF IdealBal
    <3>2. At(u, e.port) = x
          BY <2>6
    <3> QED
          BY <2>3, <3>1, <3>2 DEF Changes
  <2>11. DOMAIN u = DOMAIN t \cup (IF passes THEN {e.port} ELSE {})
         BY <2>2, <2>6
  <2> HIDE DEF x
  <2>12. StepOf(t, e, u)
         BY ONLY <2>6, <2>7, <2>8, <2>9, <2>10, <2>11 DEF StepOf, x
  <2> QED
        BY <2>12 DEF u
<1> SUFFICES ASSUME e.op # "SET_RATE_LIMITER"
             PROVE  StepOf(t, e, u)
    BY <1>0
<1>3. Next1(t, e) = IF passes THEN Put(t, e.port, r.x) ELSE t
      BY OutcomePanics DEF Next1
<1>4. passes => Changes(x, e, r.x)
  <2> SUFFICES ASSUME passes
               PROVE  Changes(x, e, r.x)
      OBVIOUS
  <2>1. r.end # "panic"
        BY OutcomePanics
  <2>2. CASE r.end = "ok"
        BY <1>1, <2>2 DEF Handled
  <2>3. CASE r.end = "blocks"
    <3>1. r.x = x /\ e.op \in {"SET_RATE_LIMITER", "CLOSE"}
          BY <1>1, <2>3 DEF Handled
    <3> QED
          BY <1>1, <3>1, SameProxy
  <2> QED
        BY <1>1, <2>1, <2>2, <2>3 DEF Handled
<1>5. e.op = "CHG_LB" => (passes <=> (~NilProxy(t, e) /\ PrefixExists(t[e.port], e.prefix)))
  <2> SUFFICES ASSUME e.op = "CHG_LB", ~NilProxy(t, e)
               PROVE  Passes(b, e) <=> PrefixExists(t[e.port], e.prefix)
      OBVIOUS
  <2>1. e.port \in DOMAIN t
        BY DEF NilProxy
  <2>2. x = t[e.port]
        BY <2>1 DEF At, Get
  <2>3. Passes(b, e) <=> b.mode # ""
        BY DEF Passes
  <2> HIDE DEF x, b
  <2>4. b.mode # "" <=> PrefixExists(x, e.prefix)
        BY <1>1, BalType
  <2> QED
        BY <2>2, <2>3, <2>4
<1>6. /\ IsTable(u)
      /\ DOMAIN u = DOMAIN t \cup (IF passes THEN {e.port} ELSE {})
      /\ \A port : port # e.port => At(u, port) = At(t, port)
      /\ ~passes => u = t
      /\ passes => Becomes(x, e, At(u, e.port), IdealBal(b, e))
  <2>1. CASE ~passes
        BY <1>3, <1>5, <2>1 DEF IdealNext
  <2>2. CASE passes /\ e.op # "CHG_LB"
    <3>1. u = Put(t, e.port, r.x) /\ IsProxy(r.x)
          BY <1>3, <1>4, <2>2 DEF IdealNext, Changes, Becomes
    <3>2. Puts(t, e.port, r.x, u)
          BY <1>2, <3>1, PutAt
    <3> HIDE DEF u
    <3> QED
          BY <1>1, <1>4, <2>2, <3>2 DEF Puts, Changes, IdealBal
  <2>3. CASE passes /\ e.op = "CHG_LB"
    <3> DEFINE v == Put(t, e.port, r.x)
               h == LbRest(x, e)
    <3>1. /\ e.port \in DOMAIN t /\ x = t[e.port] /\ PrefixExists(x, e.prefix)
          BY <1>1, <1>5, <2>3 DEF NilProxy, At, Get
    <3>2. /\ IsTable(v) /\ DOMAIN v = DOMAIN t /\ At(v, e.port) = r.x
          /\ \A port : port # e.port => At(v, port) = At(t, port)
      <4>1. IsProxy(r.x)
            BY <1>4, <2>3 DEF Changes, Becomes
      <4>2. Puts(t, e.port, r.x, v)
            BY <1>2, <4>1, PutAt
      <4> HIDE DEF v
      <4> QED
            BY <3>1, <4>2 DEF Puts
    <3>3. u = Next1(v, h)
          BY <1>3, <2>3, <3>1 DEF IdealNext
    <3>4. /\ h \in EntryType /\ h.op = "ADD_HTTP_PROXY_PREFIX" /\ h.port = e.port
          BY <1>1, <1>4, <2>3, <3>1, LbStep
    <3> HIDE DEF v, h
    <3>5. ~NilProxy(v, h) /\ Outcome(v, h) = AddPrefix(r.x, h)
          BY <3>1, <3>2, <3>4 DEF NilProxy, Outcome, Handle, At
    <3>6. CASE e.algo \notin factories
      <4>1. /\ AddPrefix(r.x, h).end = "panic"
            /\ Becomes(x, e, r.x, IdealBal(b, e))
            BY <1>1, <1>4, <2>3, <3>1, <3>6, LbStep DEF h
      <4>2. u = v
            BY <3>3, <3>5, <4>1 DEF Next1
      <4> QED
            BY <2>3, <3>1, <3>2, <4>1, <4>2
    <3>7. CASE e.algo \in factories
      <4>1. /\ AddPrefix(r.x, h).end = "ok"
            /\ Becomes(x, e, AddPrefix(r.x, h).x, IdealBal(b, e))
            BY <1>1, <1>4, <2>3, <3>1, <3>7, LbStep DEF h
      <4>2. u = Put(v, e.port, AddPrefix(r.x, h).x)
            BY <3>3, <3>4, <3>5, <4>1 DEF Next1
      <4>3. IsProxy(AddPrefix(r.x, h).x)
            BY <4>1 DEF Becomes
      <4>4. /\ IsTable(u) /\ DOMAIN u = DOMAIN t /\ At(u, e.port) = AddPrefix(r.x, h).x
            /\ \A port : port # e.port => At(u, port) = At(t, port)
        <5>1. Puts(v, e.port, AddPrefix(r.x, h).x, u)
              BY <1>2, <3>2, <4>2, <4>3, PutAt
        <5> HIDE DEF u
        <5> QED
              BY <3>1, <3>2, <5>1 DEF Puts
      <4> QED
            BY <2>3, <3>1, <4>1, <4>4
    <3> QED
          BY <3>6, <3>7
  <2> QED
        BY <2>1, <2>2, <2>3
<1> HIDE DEF u
<1>7. Unlocked(u)
  <2> SUFFICES ASSUME NEW port, NEW p
               PROVE  Bal(u, port, p).rlocked = FALSE
      BY DEF Unlocked
  <2>1. Bal(t, port, p).rlocked = FALSE
        BY DEF Unlocked
  <2>2. CASE port # e.port \/ ~passes
        BY <1>6, <2>1, <2>2 DEF Bal
  <2>3. CASE port = e.port /\ passes /\ p # e.prefix
        BY <1>6, <2>1, <2>3 DEF Bal, Becomes
  <2>4. CASE port = e.port /\ passes /\ p = e.prefix
        BY <1>1, <1>6, <2>4, IdealUnlocked DEF Bal, Becomes
  <2> QED
        BY <2>2, <2>3, <2>4
<1> QED
      BY <1>6, <1>7 DEF StepOf, u

-----------------------------------------------------------------------------
(* Entries that write a register, in a log l.                              *)

Mode(t, port, p)    == Bal(t, port, p).mode
HostsOf(t, port, p) == Bal(t, port, p).hosts

Resets(e, port, p) ==
    /\ e.op \in {"RMV_HTTP_PROXY_PREFIX", "CHG_LB"}
    /\ e.port = port /\ e.prefix = p
Unlists(e, port, p) ==
    e.op = "RMV_HTTP_PROXY_HOST" /\ e.port = port /\ e.prefix = p
Bans(e, port, x) ==
    /\ e.op \in {"ADD_HTTP_BLACK_LIST", "RMV_HTTP_BLACK_LIST"}
    /\ e.port = port /\ e.net = x
Flags(e, port, p) ==
    /\ e.op \in {"CHG_STATIC", "ADD_HTTP_PROXY_PREFIX"}
    /\ e.port = port /\ e.prefix = p

NoReset(l, port, p, a, h)  == \A i \in a + 1 .. h : ~Resets(l[i], port, p)
NoUnlist(l, port, p, a, h) == \A i \in a + 1 .. h : ~Unlists(l[i], port, p)
NoBan(l, port, x, a, h)    == \A i \in a + 1 .. h : ~Bans(l[i], port, x)
NoFlag(l, port, p, a, h)   == \A i \in a + 1 .. h : ~Flags(l[i], port, p)

OpsIn(l, a, h) == {l[i].op : i \in a + 1 .. h}

-----------------------------------------------------------------------------
(* A log l, and the tables s after each prefix of it.                      *)

IsHistory(l, s) ==
    /\ l \in Seq(EntryType)
    /\ \A i \in 1 .. Len(l) : l[i].hosts # <<>>
    /\ (\E S : s \in Seq(S)) /\ Len(s) = Len(l) + 1
    /\ s[1] = <<>>
    /\ \A i \in 1 .. Len(s) : IsTable(s[i]) /\ Unlocked(s[i])
    /\ \A i \in 1 .. Len(l) : StepOf(s[i], l[i], s[i + 1])

(* A register keeps its value from t to u, when no entry writes it.        *)
KeepsMode(t, u, port, p) ==
    Mode(t, port, p) # "" => Mode(u, port, p) = Mode(t, port, p)
KeepsHosts(t, u, port, p) ==
    Mode(t, port, p) # "" => ToSet(HostsOf(t, port, p)) \subseteq ToSet(HostsOf(u, port, p))

Kept(l, s, i, j) ==
    LET t == s[i + 1]
        u == s[j + 1] IN
    /\ DOMAIN t \subseteq DOMAIN u
    /\ \A port, p : NoReset(l, port, p, i, j) => KeepsMode(t, u, port, p)
    /\ \A port, p : NoReset(l, port, p, i, j) /\ NoUnlist(l, port, p, i, j)
                    => KeepsHosts(t, u, port, p)
    /\ \A port, x : NoBan(l, port, x, i, j) => (Banned(t, port, x) <=> Banned(u, port, x))
    /\ \A port, p : NoFlag(l, port, p, i, j) => Flag(t, port, p) = Flag(u, port, p)

Keeps(l, s) == \A i, j \in 0 .. Len(l) : i <= j => Kept(l, s, i, j)

LEMMA StepKeeps ==
    ASSUME NEW t, IsTable(t), NEW e \in EntryType, e.hosts # <<>>, NEW u, StepOf(t, e, u)
    PROVE  /\ DOMAIN t \subseteq DOMAIN u
           /\ \A port, p : ~Resets(e, port, p) => KeepsMode(t, u, port, p)
           /\ \A port, p : ~Resets(e, port, p) /\ ~Unlists(e, port, p)
                           => KeepsHosts(t, u, port, p)
           /\ \A port, x : ~Bans(e, port, x) => (Banned(t, port, x) <=> Banned(u, port, x))
           /\ \A port, p : ~Flags(e, port, p) => Flag(t, port, p) = Flag(u, port, p)
<1> DEFINE b == Bal(t, e.port, e.prefix)
           x == At(t, e.port)
           y == At(u, e.port)
           passes == ~NilProxy(t, e) /\ Passes(b, e)
<1>1. /\ DOMAIN t \subseteq DOMAIN u
      /\ \A port : port # e.port \/ ~passes => At(u, port) = At(t, port)
      /\ passes => Becomes(x, e, y, IdealBal(b, e))
      BY DEF StepOf
<1>2. e.op \in Ops /\ e.hosts[1] \in Hosts /\ IsProxy(x) /\ b = BalOf(x, e.prefix)
      BY EntryFields, FirstHost, AtProxy DEF Bal
<1>3. ASSUME passes, NEW p, ~Resets(e, e.port, p), b.mode # "", p = e.prefix
      PROVE  /\ IdealBal(b, e).mode = b.mode
             /\ ~Unlists(e, e.port, p) => ToSet(b.hosts) \subseteq ToSet(IdealBal(b, e).hosts)
  <2>1. b \in Balancers
        BY <1>2, <1>3, BalType
  <2>2. CASE e.op = "ADD_HTTP_PROXY_HOST"
        BY <1>2, <2>1, <2>2, AddType DEF IdealBal, NewBal
  <2>3. CASE e.op = "RMV_HTTP_PROXY_HOST"
    <3>1. RemoveResult(b, e.hosts[1]).b.mode = b.mode
          BY <1>2, <2>1, RemoveType
    <3> QED
          BY <1>3, <2>3, <3>1 DEF IdealBal, NewBal, Unlists
  <2>4. CASE e.op \notin {"ADD_HTTP_PROXY_HOST", "RMV_HTTP_PROXY_HOST"}
        BY <1>3, <2>4 DEF IdealBal, NewBal, Resets
  <2> QED
        BY <2>2, <2>3, <2>4
<1>4. ASSUME NEW port, NEW p, ~Resets(e, port, p)
      PROVE  /\ KeepsMode(t, u, port, p)
             /\ ~Unlists(e, port, p) => KeepsHosts(t, u, port, p)
  <2>1. CASE port # e.port \/ ~passes
        BY <1>1, <2>1 DEF KeepsMode, KeepsHosts, Mode, HostsOf, Bal
  <2>2. CASE port = e.port /\ passes /\ p # e.prefix
        BY <1>1, <2>2 DEF KeepsMode, KeepsHosts, Mode, HostsOf, Bal, Becomes
  <2>3. CASE port = e.port /\ passes /\ p = e.prefix
    <3>1. Bal(t, port, p) = b /\ Bal(u, port, p) = IdealBal(b, e)
          BY <1>1, <2>3 DEF Bal, Becomes
    <3> QED
          BY <1>3, <1>4, <2>3, <3>1 DEF KeepsMode, KeepsHosts, Mode, HostsOf
  <2> QED
        BY <2>1, <2>2, <2>3
<1>5. ASSUME NEW port, NEW n, ~Bans(e, port, n)
      PROVE  Banned(t, port, n) <=> Banned(u, port, n)
      BY <1>1, <1>5 DEF Bans, Banned, Becomes, NewAcl
<1>6. ASSUME NEW port, NEW p, ~Flags(e, port, p)
      PROVE  Flag(t, port, p) = Flag(u, port, p)
      BY <1>1, <1>6 DEF Flags, Flag, Becomes, NewFlag
<1> QED
      BY <1>1, <1>4, <1>5, <1>6

LEMMA KeptStep ==
    ASSUME NEW l, NEW s, NEW i \in Nat, NEW j \in Nat, i <= j,
           l[j + 1] \in EntryType, l[j + 1].hosts # <<>>,
           IsTable(s[j + 1]), StepOf(s[j + 1], l[j + 1], s[j + 1 + 1]),
           Kept(l, s, i, j)
    PROVE  Kept(l, s, i, j + 1)
<1> DEFINE t == s[i + 1]
           u == s[j + 1]
           v == s[j + 1 + 1]
           e == l[j + 1]
<1>1. /\ DOMAIN u \subseteq DOMAIN v
      /\ \A port, p : ~Resets(e, port, p) => KeepsMode(u, v, port, p)
      /\ \A port, p : ~Resets(e, port, p) /\ ~Unlists(e, port, p)
                      => KeepsHosts(u, v, port, p)
      /\ \A port, x : ~Bans(e, port, x) => (Banned(u, port, x) <=> Banned(v, port, x))
      /\ \A port, p : ~Flags(e, port, p) => Flag(u, port, p) = Flag(v, port, p)
      BY StepKeeps
<1>2. i + 1 .. j + 1 = (i + 1 .. j) \cup {j + 1}
      OBVIOUS
<1>3. \A port, p : NoReset(l, port, p, i, j + 1) => NoReset(l, port, p, i, j) /\ ~Resets(e, port, p)
      BY <1>2 DEF NoReset
<1>4. \A port, p : NoUnlist(l, port, p, i, j + 1) => NoUnlist(l, port, p, i, j) /\ ~Unlists(e, port, p)
      BY <1>2 DEF NoUnlist
<1>5. \A port, x : NoBan(l, port, x, i, j + 1) => NoBan(l, port, x, i, j) /\ ~Bans(e, port, x)
      BY <1>2 DEF NoBan
<1>6. \A port, p : NoFlag(l, port, p, i, j + 1) => NoFlag(l, port, p, i, j) /\ ~Flags(e, port, p)
      BY <1>2 DEF NoFlag
<1>7. /\ DOMAIN t \subseteq DOMAIN u
      /\ \A port, p : NoReset(l, port, p, i, j) => KeepsMode(t, u, port, p)
      /\ \A port, p : NoReset(l, port, p, i, j) /\ NoUnlist(l, port, p, i, j)
                      => KeepsHosts(t, u, port, p)
      /\ \A port, x : NoBan(l, port, x, i, j) => (Banned(t, port, x) <=> Banned(u, port, x))
      /\ \A port, p : NoFlag(l, port, p, i, j) => Flag(t, port, p) = Flag(u, port, p)
      BY DEF Kept
<1> HIDE DEF t, u, v, e
<1>8. \A port, p : NoReset(l, port, p, i, j + 1) => KeepsMode(t, v, port, p)
      BY <1>1, <1>3, <1>7 DEF KeepsMode
<1>9. \A port, p : NoReset(l, port, p, i, j + 1) /\ NoUnlist(l, port, p, i, j + 1)
                   => KeepsHosts(t, v, port, p)
  <2> SUFFICES ASSUME NEW port, NEW p, NoReset(l, port, p, i, j + 1),
                      NoUnlist(l, port, p, i, j + 1)
               PROVE  KeepsHosts(t, v, port, p)
      OBVIOUS
  <2>1. KeepsMode(t, u, port, p) /\ KeepsHosts(t, u, port, p) /\ KeepsHosts(u, v, port, p)
        BY <1>1, <1>3, <1>4, <1>7
  <2> QED
        BY <2>1 DEF KeepsMode, KeepsHosts
<1>10. /\ \A port, x : NoBan(l, port, x, i, j + 1)
                       => (Banned(t, port, x) <=> Banned(v, port, x))
       /\ \A port, p : NoFlag(l, port, p, i, j + 1) => Flag(t, port, p) = Flag(v, port, p)
       BY <1>1, <1>5, <1>6, <1>7
<1> QED
      BY <1>1, <1>7, <1>8, <1>9, <1>10 DEF Kept, t, v

LEMMA KeptSelf ==
    ASSUME NEW l, NEW s, NEW i
    PROVE  Kept(l, s, i, i)
    BY DEF Kept, KeepsMode, KeepsHosts

(* The log l2 and its tables s2 begin with l and s.                        *)
Begins(l, s, l2, s2) ==
    /\ Len(l) \in Nat /\ Len(l2) \in Nat /\ Len(l) <= Len(l2)
    /\ \A i \in 1 .. Len(l) : l2[i] = l[i]
    /\ \A i \in 0 .. Len(l) : s2[i + 1] = s[i + 1]

LEMMA WindowSame ==
    ASSUME NEW l, NEW s, NEW l2, NEW s2, Begins(l, s, l2, s2),
           NEW i \in Nat, NEW j \in Nat, j <= Len(l)
    PROVE  /\ \A port, p : NoReset(l2, port, p, i, j) <=> NoReset(l, port, p, i, j)
           /\ \A port, p : NoUnlist(l2, port, p, i, j) <=> NoUnlist(l, port, p, i, j)
           /\ \A port, x : NoBan(l2, port, x, i, j) <=> NoBan(l, port, x, i, j)
           /\ \A port, p : NoFlag(l2, port, p, i, j) <=> NoFlag(l, port, p, i, j)
           /\ OpsIn(l2, i, j) = OpsIn(l, i, j)
<1>1. \A k \in i + 1 .. j : l2[k] = l[k]
      BY DEF Begins
<1> QED
      BY <1>1 DEF NoReset, NoUnlist, NoBan, NoFlag, OpsIn

LEMMA AppendHistory ==
    ASSUME NEW l, NEW s, IsHistory(l, s), Keeps(l, s),
           NEW e \in EntryType, e.hosts # <<>>,
           NEW l2, l2 = Append(l, e), NEW s2, s2 = Append(s, IdealNext(Last(s), e))
    PROVE  /\ Begins(l, s, l2, s2) /\ Len(l2) = Len(l) + 1 /\ l2[Len(l) + 1] = e
           /\ IsHistory(l2, s2) /\ Keeps(l2, s2)
<1> DEFINE u == IdealNext(Last(s), e)
           k == Len(l)
<1>1. /\ l2 \in Seq(EntryType) /\ Len(l2) = k + 1 /\ k \in Nat
      /\ l2[k + 1] = e /\ \A i \in 1 .. k : l2[i] = l[i]
      BY DEF IsHistory
<1>2. Len(s) = k + 1 /\ Last(s) = s[k + 1] /\ IsTable(s[k + 1]) /\ Unlocked(s[k + 1])
      BY <1>1 DEF IsHistory, Last
<1>3. StepOf(s[k + 1], e, u) /\ IsTable(u) /\ Unlocked(u)
  <2>1. StepOf(s[k + 1], e, u)
        BY <1>2, IdealStep
  <2> QED
        BY <2>1 DEF StepOf
<1> HIDE DEF u
<1>4. /\ \E S : s2 \in Seq(S)
      /\ Len(s2) = k + 2 /\ s2[k + 2] = u
      /\ \A i \in 1 .. k + 1 : s2[i] = s[i]
  <2>1. PICK S : s \in Seq(S)
        BY DEF IsHistory
  <2>2. s \in Seq(S \cup {u})
        BY <2>1
  <2>3. s2 = Append(s, u)
        BY DEF u
  <2>4. s2 \in Seq(S \cup {u})
        BY <2>2, <2>3
  <2> QED
        BY <1>1, <1>2, <2>2, <2>3, <2>4
<1>5. Begins(l, s, l2, s2)
      BY <1>1, <1>4 DEF Begins
<1>6. IsHistory(l2, s2)
  <2>1. \A i \in 1 .. Len(l2) : l2[i].hosts # <<>>
        BY <1>1 DEF IsHistory
  <2>2. s2[1] = <<>>
        BY <1>1, <1>4 DEF IsHistory
  <2>3. \A i \in 1 .. Len(s2) : IsTable(s2[i]) /\ Unlocked(s2[i])
        BY <1>1, <1>2, <1>3, <1>4 DEF IsHistory
  <2>4. \A i \in 1 .. Len(l2) : StepOf(s2[i], l2[i], s2[i + 1])
    <3> TAKE i \in 1 .. Len(l2)
    <3>1. CASE i \in 1 .. k
      <4>1. StepOf(s[i], l[i], s[i + 1])
            BY <3>1 DEF IsHistory
      <4>2. s2[i] = s[i] /\ s2[i + 1] = s[i + 1] /\ l2[i] = l[i]
            BY <1>1, <1>4, <3>1
      <4> QED
            BY <4>1, <4>2
    <3>2. CASE i = k + 1
      <4>1. s2[i] = s[k + 1] /\ s2[i + 1] = u /\ l2[i] = e
            BY <1>1, <1>4, <3>2
      <4> QED
            BY <1>3, <4>1
    <3>3. i \in 1 .. k \/ i = k + 1
          BY <1>1
    <3> QED
          BY <3>1, <3>2, <3>3
  <2> QED
        BY <1>1, <1>2, <1>4, <2>1, <2>2, <2>3, <2>4 DEF IsHistory
<1>7. Keeps(l2, s2)
  <2> SUFFICES ASSUME NEW i \in 0 .. Len(l2), NEW j \in 0 .. Len(l2), i <= j
               PROVE  Kept(l2, s2, i, j)
      BY DEF Keeps
  <2>1. ASSUME NEW m \in 0 .. k, i <= m
        PROVE  Kept(l2, s2, i, m)
    <3>1. Kept(l, s, i, m)
          BY <1>1, <2>1 DEF Keeps
    <3>2. s2[i + 1] = s[i + 1] /\ s2[m + 1] = s[m + 1]
          BY <1>1, <1>4, <2>1
    <3>3. /\ \A port, p : NoReset(l2, port, p, i, m) <=> NoReset(l, port, p, i, m)
          /\ \A port, p : NoUnlist(l2, port, p, i, m) <=> NoUnlist(l, port, p, i, m)
          /\ \A port, x : NoBan(l2, port, x, i, m) <=> NoBan(l, port, x, i, m)
          /\ \A port, p : NoFlag(l2, port, p, i, m) <=> NoFlag(l, port, p, i, m)
          BY <1>1, <1>5, WindowSame
    <3> QED
          BY <3>1, <3>2, <3>3 DEF Kept
  <2>2. CASE j <= k
        BY <1>1, <2>1, <2>2
  <2>3. CASE i = k + 1
    <3>1. j = i
          BY <1>1, <2>3
    <3> QED
          BY <3>1, KeptSelf
  <2>4. CASE i <= k /\ j = k + 1
    <3>1. Kept(l2, s2, i, k)
          BY <1>1, <2>1, <2>4
    <3>2. /\ l2[k + 1] \in EntryType /\ l2[k + 1].hosts # <<>>
          /\ IsTable(s2[k + 1]) /\ StepOf(s2[k + 1], l2[k + 1], s2[k + 1 + 1])
      <4>1. s2[k + 1] = s[k + 1] /\ s2[k + 1 + 1] = u
            BY <1>1, <1>4
      <4> QED
            BY <1>1, <1>2, <1>3, <4>1
    <3>3. Kept(l2, s2, i, k + 1)
      <4>1. i \in Nat /\ k \in Nat /\ i <= k
            BY <1>1, <2>4
      <4> QED
            BY ONLY <3>1, <3>2, <4>1, KeptStep
    <3> QED
          BY <2>4, <3>3
  <2> QED
        BY <1>1, <2>2, <2>3, <2>4
<1> QED
      BY <1>1, <1>5, <1>6, <1>7

-----------------------------------------------------------------------------
(* What a table t has of a port, or of a prefix of it, after a entries,    *)
(* when it may have effects of entries up to h.                            *)

(* Replicated of Cluster, and Sound, of a log as a value.                  *)
ReplicatedIn(l) ==
    {port \in Ports :
       /\ \A n \in Nodes : port \notin DOMAIN Config[n]
       /\ \A i \in DOMAIN l : l[i].op = "CLOSE" => l[i].port # port}

SoundIn(l, s, port, i) ==
    \A j \in 1 .. i :
      l[j].port = port => /\ ~NilProxy(s[j], l[j])
                          /\ Passes(Bal(s[j], l[j].port, l[j].prefix), l[j])

(* The entry e has not ended a process that had the table t for its port.  *)
NotEnded(t, e) ==
    /\ ~NilProxy(t, e)
    /\ e.op = "CHG_LB" => Mode(t, e.port, e.prefix) # ""

(* Some node has got past the first k entries.                             *)
Passed(l, s, k) ==
    \A i \in 1 .. k : l[i].port \in ReplicatedIn(l) => NotEnded(s[i], l[i])

(* What the entries applied twice must not be for the claims on hosts, and *)
(* for the ones on static flags.                                           *)
HostsOnce(ops) == ops \cap {"CHG_LB", "RMV_HTTP_PROXY_HOST"} = {}
FlagsOnce(ops) == ops \cap {"CHG_STATIC", "ADD_HTTP_PROXY_PREFIX"} = {}

PortAgrees(s, t, port, a, h) ==
    /\ port \in DOMAIN t => port \in DOMAIN s[h + 1]
    /\ port \notin DOMAIN t => port \notin DOMAIN s[a + 1]

(* The algorithm m: if there is none, an entry that adds the prefix is     *)
(* still to come, or there shall be none.                                  *)
ModeAgrees(l, s, m, port, p, a, h) ==
    NoReset(l, port, p, a, h) =>
      IF m = "" THEN Mode(s[a + 1], port, p) = ""
                ELSE Mode(s[h + 1], port, p) = m

(* The hosts hs: those of some moment j, and all that has been added since *)
(* a is in that list.                                                      *)
HostsOfMoment(l, s, hs, port, p, a, j) ==
    /\ NoUnlist(l, port, p, a, j)
    /\ Mode(s[j + 1], port, p) # ""
    /\ HostsOf(s[j + 1], port, p) = hs

HostsAgree(l, s, hs, port, p, a, h) ==
    NoReset(l, port, p, a, h) /\ SoundIn(l, s, port, h)
    => \E j \in a .. h : HostsOfMoment(l, s, hs, port, p, a, j)

BanAgrees(l, s, banned, port, x, a, h) ==
    NoBan(l, port, x, a, h) => (banned <=> Banned(s[h + 1], port, x))

Agrees(l, s, t, port, a, h, ops) ==
    /\ PortAgrees(s, t, port, a, h)
    /\ \A p : ModeAgrees(l, s, Mode(t, port, p), port, p, a, h)
    /\ \A p : Mode(t, port, p) # "" /\ HostsOnce(ops)
              => HostsAgree(l, s, HostsOf(t, port, p), port, p, a, h)
    /\ \A x : BanAgrees(l, s, Banned(t, port, x), port, x, a, h)

FlagsAgree(s, t, port, h, ops) ==
    FlagsOnce(ops) => \A p : Flag(t, port, p) = Flag(s[h + 1], port, p)

-----------------------------------------------------------------------------
(* What one entry does to the registers.                                   *)

(* The table t becomes u when the FSM handles the entry e.                 *)
Moves(t, e, u) ==
    LET b == Bal(t, e.port, e.prefix) IN
    /\ ~NilProxy(t, e) /\ Passes(b, e)
    /\ IsTable(u) /\ DOMAIN u = DOMAIN t \cup {e.port}
    /\ \A port : port # e.port => At(u, port) = At(t, port)
    /\ Changes(At(t, e.port), e, At(u, e.port))
    /\ e.op \in {"ADD_HTTP_PROXY_HOST", "RMV_HTTP_PROXY_HOST"} => b.rlocked = FALSE

LEMMA HandleMoves ==
    ASSUME NEW t, IsTable(t), NEW e \in EntryType, e.hosts # <<>>,
           ~NilProxy(t, e), Outcome(t, e).end = "ok",
           NEW u, u = Put(t, e.port, Outcome(t, e).x)
    PROVE  Moves(t, e, u)
<1> DEFINE x == At(t, e.port)
           y == Outcome(t, e).x
<1>1. Handled(x, e) /\ Outcome(t, e) = Handle(x, e)
      BY AtProxy, HandleOutcome DEF Outcome, At
<1>2. /\ Changes(x, e, y) /\ Passes(BalOf(x, e.prefix), e)
      /\ e.op \in {"ADD_HTTP_PROXY_HOST", "RMV_HTTP_PROXY_HOST"}
         => BalOf(x, e.prefix).rlocked = FALSE
      BY <1>1 DEF Handled
<1>3. IsProxy(y) /\ e.port \in Ports
      BY <1>2, EntryFields DEF Changes, Becomes
<1>4. Puts(t, e.port, y, u)
      BY <1>3, PutAt
<1> HIDE DEF y
<1> QED
      BY <1>2, <1>4 DEF Moves, Puts, Bal

LEMMA MovesRegisters ==
    ASSUME NEW t, NEW e, NEW u, Moves(t, e, u), NEW port
    PROVE  /\ \A p : Bal(u, port, p) = IF port = e.port /\ p = e.prefix
                                       THEN NewBal(Bal(t, port, p), e)
                                       ELSE Bal(t, port, p)
           /\ \A p : Flag(u, port, p) = IF port = e.port /\ p = e.prefix
                                        THEN NewFlag(Flag(t, port, p), Bal(t, port, p), e)
                                        ELSE Flag(t, port, p)
           /\ \A x : Banned(u, port, x) <=> IF port = e.port
                                            THEN x \in NewAcl(At(t, port).acl, e)
                                            ELSE Banned(t, port, x)
    BY DEF Moves, Changes, Becomes, Bal, Flag, Banned

LEMMA StepRegisters ==
    ASSUME NEW t, NEW e, NEW u, StepOf(t, e, u), NEW port
    PROVE  LET here == /\ port = e.port /\ ~NilProxy(t, e)
                       /\ Passes(Bal(t, e.port, e.prefix), e) IN
           /\ \A p : Bal(u, port, p) = IF here /\ p = e.prefix
                                       THEN IdealBal(Bal(t, port, p), e)
                                       ELSE Bal(t, port, p)
           /\ \A p : Flag(u, port, p) = IF here /\ p = e.prefix
                                        THEN NewFlag(Flag(t, port, p), Bal(t, port, p), e)
                                        ELSE Flag(t, port, p)
           /\ \A x : Banned(u, port, x) <=> IF here THEN x \in NewAcl(At(t, port).acl, e)
                                                    ELSE Banned(t, port, x)
    BY DEF StepOf, Becomes, Bal, Flag, Banned

(* The algorithm and the hosts of a balancer, or of none, after an entry   *)
(* that passes.                                                            *)
BalChange(b, e, c) ==
    /\ e.op = "ADD_HTTP_PROXY_PREFIX" /\ b.mode = ""
       => c.mode = e.algo /\ c.hosts = e.hosts /\ e.algo # ""
    /\ e.op \in {"RMV_HTTP_PROXY_PREFIX", "CHG_LB"} => c.mode = ""
    /\ e.op \notin {"RMV_HTTP_PROXY_PREFIX", "CHG_LB"} /\ b.mode # ""
       => c.mode = b.mode
    /\ e.op # "ADD_HTTP_PROXY_PREFIX" /\ b.mode = "" => c.mode = ""
    /\ e.op = "ADD_HTTP_PROXY_HOST"
       => c.hosts = IF b.mode = RR /\ e.hosts[1] \notin ToSet(b.hosts)
                    THEN Append(b.hosts, e.hosts[1]) ELSE b.hosts
    /\ e.op = "RMV_HTTP_PROXY_HOST" => c.hosts = RemoveFirst(b.hosts, e.hosts[1])
    /\ e.op \notin {"RMV_HTTP_PROXY_PREFIX", "CHG_LB", "ADD_HTTP_PROXY_HOST",
                    "RMV_HTTP_PROXY_HOST"} /\ b.mode # ""
       => c = b

LEMMA NewBalFields ==
    ASSUME NEW x, IsProxy(x), NEW e \in EntryType, e.hosts # <<>>,
           NEW b, b = BalOf(x, e.prefix), Passes(b, e)
    PROVE  BalChange(b, e, NewBal(b, e))
<1> DEFINE c == NewBal(b, e)
<1>1. e.hosts \in Seq(Hosts) /\ e.hosts[1] \in Hosts
      BY EntryFields, FirstHost
<1>2. b.mode # "" => b \in Balancers
      BY BalType
<1>3. CASE e.op = "ADD_HTTP_PROXY_PREFIX"
  <2>1. CASE b.mode = ""
    <3>1. e.algo \in factories /\ c = Build(e.algo, e.hosts)
          BY <1>3, <2>1 DEF Passes, NewBal
    <3>2. c.mode = e.algo /\ c.hosts = e.hosts
          BY <1>1, <3>1, BuildType
    <3>3. e.algo # ""
          BY <3>1 DEF factories, RR, CH
    <3> QED
          BY <1>3, <2>1, <3>2, <3>3 DEF BalChange
  <2>2. CASE b.mode # ""
        BY <1>3, <2>2 DEF NewBal, BalChange
  <2> QED
        BY <2>1, <2>2
<1>4. CASE e.op \in {"RMV_HTTP_PROXY_PREFIX", "CHG_LB"}
  <2>1. c = NilBalancer
        BY <1>4 DEF NewBal
  <2> QED
        BY <1>4, <2>1, NilFields DEF BalChange
<1>5. CASE e.op = "ADD_HTTP_PROXY_HOST"
  <2>1. b.mode # "" /\ c = Add(b, e.hosts[1])
        BY <1>5 DEF Passes, NewBal
  <2>2. /\ c.mode = b.mode
        /\ c.hosts = IF b.mode = RR /\ e.hosts[1] \notin ToSet(b.hosts)
                     THEN Append(b.hosts, e.hosts[1]) ELSE b.hosts
    <3>1. b \in Balancers /\ e.hosts[1] \in Hosts
          BY <1>1, <1>2, <2>1
    <3>2. /\ Add(b, e.hosts[1]).mode = b.mode
          /\ Add(b, e.hosts[1]).hosts = IF b.mode = RR /\ e.hosts[1] \notin ToSet(b.hosts)
                                        THEN Append(b.hosts, e.hosts[1]) ELSE b.hosts
          BY ONLY <3>1, AddType
    <3> QED
          BY <2>1, <3>2
  <2> QED
        BY <1>5, <2>1, <2>2 DEF BalChange
<1>6. CASE e.op = "RMV_HTTP_PROXY_HOST"
  <2> DEFINE r == RemoveResult(b, e.hosts[1])
  <2>1. b.mode # "" /\ c = r.b /\ r.panic = FALSE
        BY <1>6 DEF Passes, NewBal
  <2>2. r.b.mode = b.mode /\ r.b.hosts = IF r.panic THEN b.hosts
                                         ELSE RemoveFirst(b.hosts, e.hosts[1])
        BY <1>1, <1>2, <2>1, RemoveType
  <2> QED
        BY <1>6, <2>1, <2>2 DEF BalChange
<1>7. CASE e.op \notin {"ADD_HTTP_PROXY_PREFIX", "RMV_HTTP_PROXY_PREFIX", "CHG_LB",
                        "ADD_HTTP_PROXY_HOST", "RMV_HTTP_PROXY_HOST"}
  <2>1. c = b
        BY <1>7 DEF NewBal
  <2> QED
        BY <1>7, <2>1 DEF BalChange
<1> QED
      BY <1>3, <1>4, <1>5, <1>6, <1>7

LEMMA MovesBal ==
    ASSUME NEW t, IsTable(t), NEW e \in EntryType, e.hosts # <<>>, NEW u, Moves(t, e, u)
    PROVE  /\ Passes(Bal(t, e.port, e.prefix), e)
           /\ BalChange(Bal(t, e.port, e.prefix), e, Bal(u, e.port, e.prefix))
<1>1. /\ Passes(Bal(t, e.port, e.prefix), e)
      /\ Bal(u, e.port, e.prefix) = NewBal(Bal(t, e.port, e.prefix), e)
  <2>1. Passes(Bal(t, e.port, e.prefix), e)
        BY DEF Moves
  <2> QED
        BY <2>1, MovesRegisters
<1>2. IsProxy(At(t, e.port)) /\ Bal(t, e.port, e.prefix) = BalOf(At(t, e.port), e.prefix)
      BY AtProxy DEF Bal
<1> QED
      BY <1>1, <1>2, NewBalFields

LEMMA StepBal ==
    ASSUME NEW t, IsTable(t), NEW e \in EntryType, e.hosts # <<>>, NEW u, StepOf(t, e, u),
           e.op # "CHG_LB"
    PROVE  IF ~NilProxy(t, e) /\ Passes(Bal(t, e.port, e.prefix), e)
           THEN BalChange(Bal(t, e.port, e.prefix), e, Bal(u, e.port, e.prefix))
           ELSE Bal(u, e.port, e.prefix) = Bal(t, e.port, e.prefix)
<1> DEFINE b == Bal(t, e.port, e.prefix)
<1>1. CASE ~NilProxy(t, e) /\ Passes(b, e)
  <2>1. Bal(u, e.port, e.prefix) = NewBal(b, e)
        BY <1>1, StepRegisters DEF IdealBal
  <2>2. IsProxy(At(t, e.port)) /\ b = BalOf(At(t, e.port), e.prefix)
        BY AtProxy DEF Bal
  <2> QED
        BY <1>1, <2>1, <2>2, NewBalFields
<1>2. CASE ~(~NilProxy(t, e) /\ Passes(b, e))
      BY <1>2, StepRegisters
<1> QED
      BY <1>1, <1>2

-----------------------------------------------------------------------------
(* A node that has applied a entries handles the next one.                 *)

Replays(l, s, a, h) ==
    /\ IsHistory(l, s) /\ Keeps(l, s) /\ Passed(l, s, h)
    /\ a \in Nat /\ h \in Nat /\ a + 1 <= h /\ h <= Len(l)

LEMMA ReplayContext ==
    ASSUME NEW l, NEW s, NEW a, NEW h, Replays(l, s, a, h)
    PROVE  /\ l[a + 1] \in EntryType /\ l[a + 1].hosts # <<>>
           /\ IsTable(s[a + 1]) /\ Unlocked(s[a + 1])
           /\ StepOf(s[a + 1], l[a + 1], s[a + 1 + 1])
           /\ l[a + 1].port \in ReplicatedIn(l) => NotEnded(s[a + 1], l[a + 1])
           /\ Kept(l, s, a, h) /\ Kept(l, s, a + 1, h)
           /\ \A port, p : NoReset(l, port, p, a, h)
                <=> NoReset(l, port, p, a + 1, h) /\ ~Resets(l[a + 1], port, p)
           /\ \A port, x : NoBan(l, port, x, a, h)
                <=> NoBan(l, port, x, a + 1, h) /\ ~Bans(l[a + 1], port, x)
<1>1. /\ a + 1 \in 1 .. Len(l) /\ a \in 0 .. Len(l) /\ a + 1 \in 0 .. Len(l)
      /\ h \in 0 .. Len(l) /\ a <= h /\ a + 1 <= h /\ a + 1 \in 1 .. h
      /\ a + 1 \in 1 .. Len(s)
      BY DEF Replays, IsHistory
<1>2. /\ l[a + 1] \in EntryType /\ l[a + 1].hosts # <<>>
      /\ IsTable(s[a + 1]) /\ Unlocked(s[a + 1])
      /\ StepOf(s[a + 1], l[a + 1], s[a + 1 + 1])
  <2>1. l \in Seq(EntryType)
        BY DEF Replays, IsHistory
  <2>2. l[a + 1] \in EntryType
        BY <1>1, <2>1, ElementOfSeq
  <2> QED
        BY <1>1, <2>2 DEF Replays, IsHistory
<1>3. l[a + 1].port \in ReplicatedIn(l) => NotEnded(s[a + 1], l[a + 1])
      BY <1>1 DEF Replays, Passed
<1>4. Kept(l, s, a, h) /\ Kept(l, s, a + 1, h)
      BY <1>1 DEF Replays, Keeps
<1>5. a + 1 .. h = {a + 1} \cup (a + 1 + 1 .. h)
      BY <1>1
<1>6. /\ \A port, p : NoReset(l, port, p, a, h)
           <=> NoReset(l, port, p, a + 1, h) /\ ~Resets(l[a + 1], port, p)
      /\ \A port, x : NoBan(l, port, x, a, h)
           <=> NoBan(l, port, x, a + 1, h) /\ ~Bans(l[a + 1], port, x)
      BY <1>5 DEF NoReset, NoBan
<1> QED
      BY <1>2, <1>3, <1>4, <1>6

(* A register the entry does not touch.                                    *)
LEMMA ModeOther ==
    ASSUME NEW l, NEW s, NEW a, NEW h, Replays(l, s, a, h),
           NEW port, NEW p, ~(port = l[a + 1].port /\ p = l[a + 1].prefix), NEW m,
           ModeAgrees(l, s, m, port, p, a, h)
    PROVE  ModeAgrees(l, s, m, port, p, a + 1, h)
<1>1. Bal(s[a + 1 + 1], port, p) = Bal(s[a + 1], port, p)
      BY ReplayContext, StepRegisters
<1>2. NoReset(l, port, p, a + 1, h) => NoReset(l, port, p, a, h)
      BY ReplayContext DEF Resets
<1> QED
      BY <1>1, <1>2 DEF ModeAgrees, Mode

LEMMA HostsOther ==
    ASSUME NEW l, NEW s, NEW a, NEW h, Replays(l, s, a, h),
           NEW port, NEW p, ~(port = l[a + 1].port /\ p = l[a + 1].prefix), NEW hs,
           HostsAgree(l, s, hs, port, p, a, h)
    PROVE  HostsAgree(l, s, hs, port, p, a + 1, h)
<1> SUFFICES ASSUME NoReset(l, port, p, a + 1, h), SoundIn(l, s, port, h)
             PROVE  \E j \in a + 1 .. h : HostsOfMoment(l, s, hs, port, p, a + 1, j)
    BY DEF HostsAgree
<1>1. Bal(s[a + 1 + 1], port, p) = Bal(s[a + 1], port, p)
      BY ReplayContext, StepRegisters
<1>2. NoReset(l, port, p, a, h)
      BY ReplayContext DEF Resets
<1>3. PICK j \in a .. h : HostsOfMoment(l, s, hs, port, p, a, j)
      BY <1>2 DEF HostsAgree
<1>4. a \in Nat /\ h \in Nat /\ a + 1 <= h
      BY DEF Replays
<1>5. CASE j = a
  <2>0. NoUnlist(l, port, p, a + 1, a + 1)
        BY <1>4 DEF NoUnlist
  <2>1. HostsOfMoment(l, s, hs, port, p, a + 1, a + 1)
        BY <1>1, <1>3, <1>5, <2>0 DEF HostsOfMoment, Mode, HostsOf
  <2>2. a + 1 \in a + 1 .. h
        BY <1>4
  <2> QED
        BY <2>1, <2>2
<1>6. CASE j # a
  <2>1. j \in a + 1 .. h
        BY <1>4, <1>6
  <2>2. a + 1 + 1 .. j \subseteq a + 1 .. j
        BY <1>4, <2>1
  <2>3. HostsOfMoment(l, s, hs, port, p, a + 1, j)
        BY <1>3, <2>2 DEF HostsOfMoment, NoUnlist
  <2> QED
        BY <2>1, <2>3
<1> QED
      BY <1>5, <1>6

(* The register of the entry.                                              *)
LEMMA ModeTouched ==
    ASSUME NEW l, NEW s, NEW a, NEW h, Replays(l, s, a, h),
           NEW e, e = l[a + 1], e.op # "CHG_LB", e.port \in ReplicatedIn(l),
           NEW t, IsTable(t), NEW u, Moves(t, e, u),
           ModeAgrees(l, s, Mode(t, e.port, e.prefix), e.port, e.prefix, a, h)
    PROVE  ModeAgrees(l, s, Mode(u, e.port, e.prefix), e.port, e.prefix, a + 1, h)
<1> DEFINE v0 == s[a + 1]
           v1 == s[a + 1 + 1]
           bt == Bal(t, e.port, e.prefix)
           bu == Bal(u, e.port, e.prefix)
           b0 == Bal(v0, e.port, e.prefix)
           b1 == Bal(v1, e.port, e.prefix)
<1>1. /\ e \in EntryType /\ e.hosts # <<>> /\ IsTable(v0) /\ StepOf(v0, e, v1)
      /\ NotEnded(v0, e) /\ Kept(l, s, a + 1, h)
      /\ NoReset(l, e.port, e.prefix, a, h)
           <=> NoReset(l, e.port, e.prefix, a + 1, h) /\ ~Resets(e, e.port, e.prefix)
      BY ReplayContext
<1>2. Passes(bt, e) /\ BalChange(bt, e, bu)
      BY <1>1, MovesBal
<1>3. IF Passes(b0, e) THEN BalChange(b0, e, b1) ELSE b1 = b0
  <2>1. ~NilProxy(v0, e)
        BY <1>1 DEF NotEnded
  <2> QED
        BY <1>1, <2>1, StepBal
<1>4. NoReset(l, e.port, e.prefix, a + 1, h) => KeepsMode(v1, s[h + 1], e.port, e.prefix)
      BY <1>1 DEF Kept
<1>5. ~Resets(e, e.port, e.prefix) <=> e.op # "RMV_HTTP_PROXY_PREFIX"
      BY DEF Resets
<1> SUFFICES ASSUME NoReset(l, e.port, e.prefix, a + 1, h)
             PROVE  IF bu.mode = "" THEN b1.mode = ""
                    ELSE Mode(s[h + 1], e.port, e.prefix) = bu.mode
    BY DEF ModeAgrees, Mode
<1>6. b1.mode # "" => Mode(s[h + 1], e.port, e.prefix) = b1.mode
      BY <1>4 DEF KeepsMode, Mode
<1>7. e.op # "RMV_HTTP_PROXY_PREFIX" =>
        IF bt.mode = "" THEN b0.mode = "" ELSE Mode(s[h + 1], e.port, e.prefix) = bt.mode
      BY <1>1, <1>5 DEF ModeAgrees, Mode
<1> HIDE DEF v0, v1, bt, bu, b0, b1
<1>8. CASE e.op = "RMV_HTTP_PROXY_PREFIX"
  <2>1. bu.mode = "" /\ Passes(b0, e)
        BY <1>2, <1>8 DEF BalChange, Passes
  <2> QED
        BY <1>3, <1>8, <2>1 DEF BalChange
<1>9. CASE e.op # "RMV_HTTP_PROXY_PREFIX" /\ bt.mode # ""
      BY <1>2, <1>7, <1>9 DEF BalChange
<1>10. CASE e.op = "ADD_HTTP_PROXY_PREFIX" /\ bt.mode = ""
  <2>1. bu.mode = e.algo /\ bu.mode # "" /\ b0.mode = "" /\ Passes(b0, e)
        BY <1>2, <1>7, <1>10 DEF BalChange, Passes
  <2>2. b1.mode = e.algo
        BY <1>3, <1>10, <2>1 DEF BalChange
  <2> QED
        BY <1>6, <2>1, <2>2
<1>11. CASE e.op \notin {"RMV_HTTP_PROXY_PREFIX", "ADD_HTTP_PROXY_PREFIX"} /\ bt.mode = ""
  <2>1. bu.mode = "" /\ b0.mode = ""
        BY <1>2, <1>7, <1>11 DEF BalChange
  <2>2. b1.mode = ""
        BY <1>3, <1>11, <2>1 DEF BalChange
  <2> QED
        BY <2>1, <2>2
<1> QED
      BY <1>8, <1>9, <1>10, <1>11
(* Entries a + 1 .. h, of which the first is handled.                       *)
LEMMA Windows ==
    ASSUME NEW a \in Nat, NEW h \in Nat, a + 1 <= h
    PROVE  /\ a \in 0 .. h /\ a + 1 \in 0 .. h /\ a + 1 \in 1 .. h /\ a + 1 \in a + 1 .. h
           /\ a + 1 + 1 .. a + 1 = {}
           /\ \A j \in a .. h : j # a => j \in a + 1 .. h
           /\ \A j \in a + 1 .. h : /\ j \in Nat /\ j <= h /\ a + 1 <= j
                                    /\ a + 1 \in a + 1 .. j
                                    /\ a + 1 + 1 .. j \subseteq a + 1 .. j
                                    /\ a + 1 + 1 .. j \subseteq a + 1 + 1 .. h
    OBVIOUS

LEMMA Appended ==
    ASSUME NEW T, NEW hs \in Seq(T), NEW x \in T
    PROVE  x \in ToSet(Append(hs, x))
<1>1. /\ Len(hs) + 1 \in DOMAIN Append(hs, x)
      /\ Append(hs, x)[Len(hs) + 1] = x
      OBVIOUS
<1> QED
      BY <1>1 DEF ToSet


LEMMA KeptInside ==
    ASSUME NEW l, NEW s, NEW a, NEW h, Replays(l, s, a, h), NEW j \in a + 1 .. h
    PROVE  Kept(l, s, a + 1, j)
<1>1. l \in Seq(EntryType) /\ a \in Nat /\ h \in Nat /\ a + 1 <= h /\ h <= Len(l)
      BY DEF Replays, IsHistory
<1>2. Len(l) \in Nat
      BY <1>1
<1>3. a + 1 \in 0 .. Len(l) /\ j \in 0 .. Len(l) /\ a + 1 <= j
      BY ONLY <1>1, <1>2, j \in a + 1 .. h
<1> QED
      BY <1>3 DEF Replays, Keeps

LEMMA HostsTouched ==
    ASSUME NEW l, NEW s, NEW a, NEW h, Replays(l, s, a, h),
           NEW e, e = l[a + 1], e.op # "CHG_LB",
           NEW t, IsTable(t), NEW u, Moves(t, e, u),
           ModeAgrees(l, s, Mode(t, e.port, e.prefix), e.port, e.prefix, a, h),
           Mode(t, e.port, e.prefix) # "" =>
             HostsAgree(l, s, HostsOf(t, e.port, e.prefix), e.port, e.prefix, a, h),
           Mode(u, e.port, e.prefix) # ""
    PROVE  HostsAgree(l, s, HostsOf(u, e.port, e.prefix), e.port, e.prefix, a + 1, h)
<1> DEFINE v0 == s[a + 1]
           v1 == s[a + 1 + 1]
           bt == Bal(t, e.port, e.prefix)
           bu == Bal(u, e.port, e.prefix)
           b0 == Bal(v0, e.port, e.prefix)
           b1 == Bal(v1, e.port, e.prefix)
<1>1. /\ e \in EntryType /\ e.hosts # <<>> /\ IsTable(v0) /\ StepOf(v0, e, v1)
      /\ Kept(l, s, a, h) /\ Kept(l, s, a + 1, h)
      /\ NoReset(l, e.port, e.prefix, a, h)
           <=> NoReset(l, e.port, e.prefix, a + 1, h) /\ ~Resets(e, e.port, e.prefix)
      BY ReplayContext
<1>2. Passes(bt, e) /\ BalChange(bt, e, bu)
      BY <1>1, MovesBal
<1> SUFFICES ASSUME NoReset(l, e.port, e.prefix, a + 1, h), SoundIn(l, s, e.port, h)
             PROVE  \E j \in a + 1 .. h :
                      HostsOfMoment(l, s, bu.hosts, e.port, e.prefix, a + 1, j)
    BY DEF HostsAgree, HostsOf
<1>3. a \in Nat /\ h \in Nat /\ a + 1 <= h /\ h <= Len(l)
      BY DEF Replays
<1>4. ~NilProxy(v0, e) /\ Passes(b0, e)
  <2>1. a + 1 \in 1 .. h
        BY ONLY <1>3, Windows
  <2> QED
        BY <2>1 DEF SoundIn
<1>5. BalChange(b0, e, b1)
      BY <1>1, <1>4, StepBal
<1>6. e.op # "RMV_HTTP_PROXY_PREFIX" /\ NoReset(l, e.port, e.prefix, a, h)
      BY <1>1, <1>2 DEF BalChange, Resets, Mode
<1>7. /\ bt.mode = "" => b0.mode = ""
      /\ bt.mode # "" => Mode(s[h + 1], e.port, e.prefix) = bt.mode
      /\ b0.mode # "" => Mode(s[h + 1], e.port, e.prefix) = b0.mode
      /\ bt.mode # "" => HostsAgree(l, s, bt.hosts, e.port, e.prefix, a, h)
  <2>1. KeepsMode(v0, s[h + 1], e.port, e.prefix)
        BY <1>1, <1>6 DEF Kept
  <2> QED
        BY <1>6, <2>1 DEF ModeAgrees, Mode, KeepsMode, HostsOf
<1>8. ASSUME b1.mode # "", b1.hosts = bu.hosts
      PROVE  \E j \in a + 1 .. h :
               HostsOfMoment(l, s, bu.hosts, e.port, e.prefix, a + 1, j)
  <2>1. a + 1 + 1 .. a + 1 = {} /\ a + 1 \in a + 1 .. h
        BY ONLY <1>3, Windows
  <2>2. NoUnlist(l, e.port, e.prefix, a + 1, a + 1)
        BY <2>1 DEF NoUnlist
  <2>3. HostsOfMoment(l, s, bu.hosts, e.port, e.prefix, a + 1, a + 1)
        BY <1>8, <2>2 DEF HostsOfMoment, Mode, HostsOf
  <2> QED
        BY <2>1, <2>3
<1>9. CASE bt.mode = ""
  <2>1. e.op = "ADD_HTTP_PROXY_PREFIX" /\ bu.hosts = e.hosts
        BY <1>2, <1>9 DEF BalChange, Mode
  <2>2. b1.mode # "" /\ b1.hosts = e.hosts
        BY <1>5, <1>7, <1>9, <2>1 DEF BalChange
  <2> QED
        BY <1>8, <2>1, <2>2
<1>10. CASE bt.mode # ""
  <2>1. PICK j \in a .. h : HostsOfMoment(l, s, bt.hosts, e.port, e.prefix, a, j)
        BY <1>6, <1>7, <1>10 DEF HostsAgree
  <2>2. CASE j = a
    <3>1. b0.mode = bt.mode /\ b0.hosts = bt.hosts
          BY <1>7, <1>10, <2>1, <2>2 DEF HostsOfMoment, Mode, HostsOf
    <3> HIDE DEF bt, bu, b0, b1
    <3>2. b1.mode # ""
          BY <1>5, <1>6, <1>10, <3>1 DEF BalChange
    <3>3. b1.hosts = bu.hosts
      <4>1. CASE e.op = "ADD_HTTP_PROXY_HOST"
            BY <1>2, <1>5, <3>1, <4>1 DEF BalChange
      <4>2. CASE e.op = "RMV_HTTP_PROXY_HOST"
            BY <1>2, <1>5, <3>1, <4>2 DEF BalChange
      <4>3. CASE e.op \notin {"ADD_HTTP_PROXY_HOST", "RMV_HTTP_PROXY_HOST"}
            BY <1>2, <1>5, <1>6, <1>10, <3>1, <4>3 DEF BalChange
      <4> QED
            BY <4>1, <4>2, <4>3
    <3> QED
          BY <1>8, <3>2, <3>3
  <2>3. CASE j # a
    <3>0. j \in a + 1 .. h
          BY ONLY <1>3, <2>3, Windows
    <3>1. /\ a + 1 \in a + 1 .. j /\ a + 1 + 1 .. j \subseteq a + 1 .. j
          /\ a + 1 + 1 .. j \subseteq a + 1 + 1 .. h
          /\ j \in Nat /\ a + 1 <= j /\ j <= h
          BY ONLY <1>3, <3>0, Windows
    <3>2. /\ ~Unlists(e, e.port, e.prefix)
          /\ NoUnlist(l, e.port, e.prefix, a + 1, j)
          /\ Mode(s[j + 1], e.port, e.prefix) # ""
          /\ HostsOf(s[j + 1], e.port, e.prefix) = bt.hosts
          BY <2>1, <3>1 DEF HostsOfMoment, NoUnlist
    <3>3. e.op # "RMV_HTTP_PROXY_HOST"
          BY <3>2 DEF Unlists
    <3>4. b1.mode # "" => ToSet(b1.hosts) \subseteq ToSet(bt.hosts)
      <4>1. NoReset(l, e.port, e.prefix, a + 1, j)
            BY <3>1 DEF NoReset
      <4>2. Kept(l, s, a + 1, j)
            BY <3>0, KeptInside
      <4>3. KeepsHosts(v1, s[j + 1], e.port, e.prefix)
            BY <3>2, <4>1, <4>2 DEF Kept
      <4> QED
            BY <3>2, <4>3 DEF KeepsHosts, Mode, HostsOf
    <3>5. bu.hosts = bt.hosts
      <4>1. CASE e.op = "ADD_HTTP_PROXY_HOST" /\ bt.mode = RR
        <5>1. b0.mode # ""
              BY <1>4, <4>1 DEF Passes
        <5>2. b0.mode = RR
              BY <1>7, <1>10, <4>1, <5>1
        <5>3. b1.mode # ""
              BY <1>5, <4>1, <5>1 DEF BalChange
        <5>4. e.hosts[1] \in ToSet(b1.hosts)
          <6>1. b1.hosts = IF e.hosts[1] \notin ToSet(b0.hosts)
                           THEN Append(b0.hosts, e.hosts[1]) ELSE b0.hosts
                BY <1>5, <4>1, <5>2 DEF BalChange
          <6>2. b0.hosts \in Seq(Hosts) /\ e.hosts[1] \in Hosts
            <7>1. IsProxy(At(v0, e.port)) /\ b0 = BalOf(At(v0, e.port), e.prefix)
                  BY <1>1, AtProxy DEF Bal
            <7> QED
                  BY <1>1, <5>1, <7>1, BalType, FirstHost
          <6>3. e.hosts[1] \in ToSet(Append(b0.hosts, e.hosts[1]))
                BY ONLY <6>2, Appended
          <6> QED
                BY <6>1, <6>3
        <5>5. e.hosts[1] \in ToSet(bt.hosts)
              BY <3>4, <5>3, <5>4
        <5> QED
              BY <1>2, <4>1, <5>5 DEF BalChange
      <4>2. CASE e.op = "ADD_HTTP_PROXY_HOST" /\ bt.mode # RR
            BY <1>2, <4>2 DEF BalChange
      <4>3. CASE e.op # "ADD_HTTP_PROXY_HOST"
            BY <1>2, <1>6, <1>10, <3>3, <4>3 DEF BalChange
      <4> QED
            BY <4>1, <4>2, <4>3
    <3>6. HostsOfMoment(l, s, bu.hosts, e.port, e.prefix, a + 1, j)
          BY <3>2, <3>5 DEF HostsOfMoment
    <3> QED
          BY <3>0, <3>6
  <2> QED
        BY <2>2, <2>3
<1> QED
      BY <1>9, <1>10

LEMMA BanReplays ==
    ASSUME NEW l, NEW s, NEW a, NEW h, Replays(l, s, a, h),
           NEW e, e = l[a + 1], NEW port \in ReplicatedIn(l),
           NEW t, IsTable(t), NEW u, Moves(t, e, u), NEW x,
           BanAgrees(l, s, Banned(t, port, x), port, x, a, h)
    PROVE  BanAgrees(l, s, Banned(u, port, x), port, x, a + 1, h)
<1> DEFINE v0 == s[a + 1]
           v1 == s[a + 1 + 1]
<1>1. /\ StepOf(v0, e, v1) /\ Kept(l, s, a + 1, h)
      /\ e.port \in ReplicatedIn(l) => NotEnded(v0, e)
      /\ NoBan(l, port, x, a, h) <=> NoBan(l, port, x, a + 1, h) /\ ~Bans(e, port, x)
      BY ReplayContext
<1>2. /\ Banned(u, port, x) <=> IF port = e.port THEN x \in NewAcl(At(t, port).acl, e)
                                                 ELSE Banned(t, port, x)
      BY MovesRegisters
<1>3. /\ port # e.port => (Banned(v1, port, x) <=> Banned(v0, port, x))
      /\ port = e.port /\ Bans(e, port, x)
         => (Banned(v1, port, x) <=> x \in NewAcl(At(v0, port).acl, e))
  <2>1. Bans(e, port, x) => Passes(Bal(v0, e.port, e.prefix), e)
        BY DEF Bans, Passes
  <2>2. port = e.port => ~NilProxy(v0, e)
        BY <1>1 DEF NotEnded
  <2> QED
        BY <1>1, <2>1, <2>2, StepRegisters
<1> SUFFICES ASSUME NoBan(l, port, x, a + 1, h)
             PROVE  Banned(u, port, x) <=> Banned(s[h + 1], port, x)
    BY DEF BanAgrees
<1>4. Banned(v1, port, x) <=> Banned(s[h + 1], port, x)
      BY <1>1 DEF Kept
<1>5. CASE Bans(e, port, x)
  <2>1. port = e.port /\ (Banned(u, port, x) <=> e.op = "ADD_HTTP_BLACK_LIST")
        BY <1>2, <1>5 DEF Bans, NewAcl
  <2>2. Banned(v1, port, x) <=> e.op = "ADD_HTTP_BLACK_LIST"
        BY <1>3, <1>5, <2>1 DEF Bans, NewAcl
  <2> QED
        BY <1>4, <2>1, <2>2
<1>6. CASE ~Bans(e, port, x)
  <2>1. Banned(u, port, x) <=> Banned(t, port, x)
        BY <1>2, <1>6 DEF Bans, NewAcl, Banned
  <2> QED
        BY <1>1, <1>6, <2>1 DEF BanAgrees
<1> QED
      BY <1>5, <1>6

LEMMA PortReplays ==
    ASSUME NEW l, NEW s, NEW a, NEW h, Replays(l, s, a, h),
           NEW e, e = l[a + 1], NEW port \in ReplicatedIn(l),
           NEW t, NEW u, DOMAIN u = DOMAIN t \cup {e.port},
           e.op = "ADD_HTTP_PROXY" => e.legal,
           PortAgrees(s, t, port, a, h)
    PROVE  PortAgrees(s, u, port, a + 1, h)
<1>1. /\ StepOf(s[a + 1], e, s[a + 1 + 1]) /\ Kept(l, s, a + 1, h)
      /\ e.port \in ReplicatedIn(l) => NotEnded(s[a + 1], e)
      BY ReplayContext
<1>2. DOMAIN u = DOMAIN t \cup {e.port} /\ DOMAIN s[a + 1 + 1] \subseteq DOMAIN s[h + 1]
      BY <1>1 DEF Kept
<1>3. /\ port # e.port => (port \in DOMAIN s[a + 1 + 1] <=> port \in DOMAIN s[a + 1])
      /\ port = e.port => port \in DOMAIN s[a + 1 + 1]
  <2>1. port = e.port /\ e.op = "ADD_HTTP_PROXY" => Passes(Bal(s[a + 1], e.port, e.prefix), e)
        BY DEF Passes
  <2>2. port = e.port => port \in DOMAIN s[a + 1] \/ e.op = "ADD_HTTP_PROXY"
        BY <1>1 DEF NotEnded, NilProxy
  <2> QED
        BY <1>1, <2>1, <2>2 DEF StepOf, NotEnded
<1> QED
      BY <1>2, <1>3 DEF PortAgrees

-----------------------------------------------------------------------------
(* All the registers of a port.                                            *)

LEMMA ReplayAgrees ==
    ASSUME NEW l, NEW s, NEW a, NEW h, Replays(l, s, a, h),
           NEW e, e = l[a + 1], e.op # "CHG_LB", NEW port \in ReplicatedIn(l),
           NEW t, IsTable(t), NEW u, Moves(t, e, u), NEW ops,
           Agrees(l, s, t, port, a, h, ops)
    PROVE  Agrees(l, s, u, port, a + 1, h, ops)
<1>1. PortAgrees(s, u, port, a + 1, h)
  <2>1. DOMAIN u = DOMAIN t \cup {e.port} /\ (e.op = "ADD_HTTP_PROXY" => e.legal)
        BY DEF Moves, Passes
  <2>2. PortAgrees(s, t, port, a, h)
        BY DEF Agrees
  <2> QED
        BY <2>1, <2>2, PortReplays
<1>2. ASSUME NEW x
      PROVE  BanAgrees(l, s, Banned(u, port, x), port, x, a + 1, h)
  <2>1. BanAgrees(l, s, Banned(t, port, x), port, x, a, h)
        BY DEF Agrees
  <2> QED
        BY <2>1, BanReplays
<1>3. ASSUME NEW p
      PROVE  /\ ModeAgrees(l, s, Mode(t, port, p), port, p, a, h)
             /\ Mode(t, port, p) # "" /\ HostsOnce(ops)
                => HostsAgree(l, s, HostsOf(t, port, p), port, p, a, h)
      BY DEF Agrees
<1>4. ASSUME NEW p
      PROVE  /\ ModeAgrees(l, s, Mode(u, port, p), port, p, a + 1, h)
             /\ Mode(u, port, p) # "" /\ HostsOnce(ops)
                => HostsAgree(l, s, HostsOf(u, port, p), port, p, a + 1, h)
  <2>1. CASE port = e.port /\ p = e.prefix
        BY <1>3, <2>1, ModeTouched, HostsTouched
  <2>2. CASE ~(port = e.port /\ p = e.prefix)
    <3>1. Mode(u, port, p) = Mode(t, port, p) /\ HostsOf(u, port, p) = HostsOf(t, port, p)
          BY <2>2, MovesRegisters DEF Mode, HostsOf
    <3> QED
          BY <1>3, <2>2, <3>1, ModeOther, HostsOther
  <2> QED
        BY <2>1, <2>2
<1> QED
      BY <1>1, <1>2, <1>4 DEF Agrees

(* The static flags, of an entry that is applied again, and of a new one.  *)
LEMMA FlagsAgain ==
    ASSUME NEW s, NEW t, NEW e, NEW u, Moves(t, e, u), NEW ops, e.op \in ops,
           NEW port, NEW h, FlagsAgree(s, t, port, h, ops)
    PROVE  FlagsAgree(s, u, port, h, ops)
<1>1. FlagsOnce(ops) => \A p : Flag(u, port, p) = Flag(t, port, p)
  <2> SUFFICES ASSUME FlagsOnce(ops), NEW p
               PROVE  Flag(u, port, p) = Flag(t, port, p)
      OBVIOUS
  <2>1. e.op \notin {"CHG_STATIC", "ADD_HTTP_PROXY_PREFIX"}
        BY DEF FlagsOnce
  <2>2. NewFlag(Flag(t, port, p), Bal(t, port, p), e) = Flag(t, port, p)
        BY <2>1 DEF NewFlag
  <2> QED
        BY <2>2, MovesRegisters
<1> QED
      BY <1>1 DEF FlagsAgree

LEMMA FlagsNew ==
    ASSUME NEW t, NEW e, NEW u, Moves(t, e, u), NEW v, NEW w, StepOf(v, e, w), NEW port,
           port = e.port => ~NilProxy(v, e),
           \A p : Flag(t, port, p) = Flag(v, port, p),
           \A p : Mode(t, port, p) = Mode(v, port, p)
    PROVE  \A p : Flag(u, port, p) = Flag(w, port, p)
<1> TAKE p
<1>1. CASE ~(port = e.port /\ p = e.prefix)
      BY <1>1, MovesRegisters, StepRegisters
<1>2. CASE port = e.port /\ p = e.prefix
  <2>1. Flag(u, port, p) = NewFlag(Flag(t, port, p), Bal(t, port, p), e)
        BY <1>2, MovesRegisters
  <2>2. NewFlag(Flag(t, port, p), Bal(t, port, p), e)
          = NewFlag(Flag(v, port, p), Bal(v, port, p), e)
    <3>1. /\ Flag(t, port, p) = Flag(v, port, p)
          /\ Bal(t, port, p).mode = Bal(v, port, p).mode
          BY DEF Mode
    <3> QED
          BY ONLY <3>1 DEF NewFlag
  <2>3. CASE e.op \in {"CHG_STATIC", "ADD_HTTP_PROXY_PREFIX"}
    <3>1. Passes(Bal(t, e.port, e.prefix), e)
          BY DEF Moves
    <3>2. Passes(Bal(v, e.port, e.prefix), e)
          BY <1>2, <2>3, <3>1 DEF Passes, Mode
    <3>3. Flag(w, port, p) = NewFlag(Flag(v, port, p), Bal(v, port, p), e)
          BY <1>2, <3>2, StepRegisters
    <3> QED
          BY <2>1, <2>2, <3>3
  <2>4. CASE e.op \notin {"CHG_STATIC", "ADD_HTTP_PROXY_PREFIX"}
    <3>1. NewFlag(Flag(v, port, p), Bal(v, port, p), e) = Flag(v, port, p)
          BY <2>4 DEF NewFlag
    <3>2. Flag(w, port, p) = Flag(v, port, p)
          BY <3>1, StepRegisters
    <3> QED
          BY <2>1, <2>2, <3>1, <3>2
  <2> QED
        BY <2>3, <2>4
<1> QED
      BY <1>1, <1>2

(* A node that has all that it has applied, and no more: what it holds may *)
(* be compared with the log one entry later.                               *)
LEMMA ExtendAgrees ==
    ASSUME NEW l, NEW s, Keeps(l, s), NEW a \in Nat, Len(l) \in Nat, a + 1 <= Len(l),
           NEW t, NEW port, NEW ops, Agrees(l, s, t, port, a, a, ops)
    PROVE  Agrees(l, s, t, port, a, a + 1, ops)
<1>1. Kept(l, s, a, a + 1)
  <2>1. a \in 0 .. Len(l) /\ a + 1 \in 0 .. Len(l) /\ a <= a + 1
        BY ONLY a \in Nat, Len(l) \in Nat, a + 1 <= Len(l)
  <2> QED
        BY <2>1 DEF Keeps
<1>2. /\ a + 1 .. a = {} /\ a .. a = {a} /\ a \in a .. a + 1
      /\ 1 .. a \subseteq 1 .. a + 1
      BY ONLY a \in Nat
<1>3. PortAgrees(s, t, port, a, a + 1)
      BY <1>1 DEF Agrees, PortAgrees, Kept
<1>4. ASSUME NEW p
      PROVE  ModeAgrees(l, s, Mode(t, port, p), port, p, a, a + 1)
  <2>1. Mode(s[a + 1], port, p) = Mode(t, port, p)
        BY <1>2 DEF Agrees, ModeAgrees, NoReset
  <2> QED
        BY <1>1, <2>1 DEF ModeAgrees, Kept, KeepsMode
<1>5. ASSUME NEW p, Mode(t, port, p) # "", HostsOnce(ops)
      PROVE  HostsAgree(l, s, HostsOf(t, port, p), port, p, a, a + 1)
  <2>1. HostsAgree(l, s, HostsOf(t, port, p), port, p, a, a)
        BY <1>5 DEF Agrees
  <2>2. NoReset(l, port, p, a, a) /\ (SoundIn(l, s, port, a + 1) => SoundIn(l, s, port, a))
        BY <1>2 DEF NoReset, SoundIn
  <2>3. SoundIn(l, s, port, a + 1)
        => HostsOfMoment(l, s, HostsOf(t, port, p), port, p, a, a)
        BY <1>2, <2>1, <2>2 DEF HostsAgree
  <2> QED
        BY <1>2, <2>3 DEF HostsAgree
<1>6. ASSUME NEW x
      PROVE  BanAgrees(l, s, Banned(t, port, x), port, x, a, a + 1)
  <2>1. Banned(t, port, x) <=> Banned(s[a + 1], port, x)
        BY <1>2 DEF Agrees, BanAgrees, NoBan
  <2> QED
        BY <1>1, <2>1 DEF BanAgrees, Kept
<1> QED
      BY <1>3, <1>4, <1>5, <1>6 DEF Agrees

-----------------------------------------------------------------------------
(* The two halves of a change of algorithm.                                *)

LEMMA LbFirst ==
    ASSUME NEW l, NEW s, NEW a, NEW h, Replays(l, s, a, h),
           NEW e, e = l[a + 1], e.op = "CHG_LB", NEW port,
           NEW t, NEW u, Moves(t, e, u), NEW ops,
           Agrees(l, s, t, port, a, h, ops)
    PROVE  Agrees(l, s, u, port, a, h, ops)
<1>1. PortAgrees(s, u, port, a, h)
  <2>1. DOMAIN u = DOMAIN t
        BY DEF Moves, NilProxy
  <2> QED
        BY <2>1 DEF Agrees, PortAgrees
<1>2. ASSUME NEW x
      PROVE  BanAgrees(l, s, Banned(u, port, x), port, x, a, h)
  <2>1. Banned(u, port, x) <=> Banned(t, port, x)
    <3>1. NewAcl(At(t, port).acl, e) = At(t, port).acl
          BY DEF NewAcl
    <3> QED
          BY <3>1, MovesRegisters DEF Banned
  <2>2. BanAgrees(l, s, Banned(t, port, x), port, x, a, h)
        BY DEF Agrees
  <2> QED
        BY <2>1, <2>2 DEF BanAgrees
<1>3. ASSUME NEW p
      PROVE  /\ ModeAgrees(l, s, Mode(u, port, p), port, p, a, h)
             /\ Mode(u, port, p) # "" /\ HostsOnce(ops)
                => HostsAgree(l, s, HostsOf(u, port, p), port, p, a, h)
  <2>1. CASE port = e.port /\ p = e.prefix
    <3>1. ~NoReset(l, port, p, a, h)
          BY <2>1, ReplayContext DEF Resets
    <3> QED
          BY <3>1 DEF ModeAgrees, HostsAgree
  <2>2. CASE ~(port = e.port /\ p = e.prefix)
    <3>1. Mode(u, port, p) = Mode(t, port, p) /\ HostsOf(u, port, p) = HostsOf(t, port, p)
          BY <2>2, MovesRegisters DEF Mode, HostsOf
    <3> QED
          BY <3>1 DEF Agrees
  <2> QED
        BY <2>1, <2>2
<1> QED
      BY <1>1, <1>2, <1>3 DEF Agrees

FlagsKept(t, u, port) == \A p : Flag(u, port, p) = Flag(t, port, p)

LEMMA FlagsSame ==
    ASSUME NEW t, NEW e, NEW u, Moves(t, e, u),
           \/ e.op \notin {"CHG_STATIC", "ADD_HTTP_PROXY_PREFIX"}
           \/ /\ e.op = "ADD_HTTP_PROXY_PREFIX"
              /\ Flag(t, e.port, e.prefix) = IF e.static = TRUE THEN "on" ELSE "off",
           NEW port
    PROVE  FlagsKept(t, u, port)
<1>1. NewFlag(Flag(t, e.port, e.prefix), Bal(t, e.port, e.prefix), e)
        = Flag(t, e.port, e.prefix)
      BY DEF NewFlag
<1>2. \A p : Flag(u, port, p) = IF port = e.port /\ p = e.prefix
                                THEN NewFlag(Flag(t, port, p), Bal(t, port, p), e)
                                ELSE Flag(t, port, p)
      BY ONLY Moves(t, e, u), MovesRegisters
<1> QED
      BY <1>1, <1>2 DEF FlagsKept

(* r is the second half of the change e.                                   *)
SecondHalf(e, r) ==
    /\ r \in EntryType /\ r.op = "ADD_HTTP_PROXY_PREFIX"
    /\ r.port = e.port /\ r.prefix = e.prefix /\ r.algo = e.algo

LEMMA LbSecondBal ==
    ASSUME NEW v, IsTable(v), NEW e \in EntryType, e.op = "CHG_LB", NEW w, StepOf(v, e, w),
           NotEnded(v, e),
           NEW t, NEW r, SecondHalf(e, r), NEW u, Moves(t, r, u),
           Mode(t, e.port, e.prefix) = ""
    PROVE  /\ Mode(u, e.port, e.prefix) = e.algo /\ e.algo # ""
           /\ HostsOf(u, e.port, e.prefix) = r.hosts
           /\ Mode(w, e.port, e.prefix) = e.algo
           /\ HostsOf(w, e.port, e.prefix) = HostsOf(v, e.port, e.prefix)
<1> DEFINE b == Bal(v, e.port, e.prefix)
<1>1. e.algo \in factories
      BY DEF Moves, Passes, SecondHalf, Mode
<1>2. e.algo # ""
      BY <1>1 DEF factories, RR, CH
<1>3. r.hosts \in Seq(Hosts)
      BY EntryFields DEF SecondHalf
<1>4. b.hosts \in Seq(Hosts) /\ b.mode # ""
  <2>1. b.mode # ""
        BY DEF NotEnded, Mode
  <2>2. IsProxy(At(v, e.port)) /\ b = BalOf(At(v, e.port), e.prefix)
        BY AtProxy DEF Bal
  <2> QED
        BY <2>1, <2>2, BalType
<1>5. Bal(u, e.port, e.prefix) = Build(e.algo, r.hosts)
  <2>0. /\ r.op = "ADD_HTTP_PROXY_PREFIX" /\ r.port = e.port /\ r.prefix = e.prefix
        /\ r.algo = e.algo
        BY DEF SecondHalf
  <2>1. Bal(u, e.port, e.prefix) = NewBal(Bal(t, e.port, e.prefix), r)
        BY ONLY <2>0, Moves(t, r, u), MovesRegisters
  <2> QED
        BY <2>0, <2>1 DEF NewBal, Mode
<1>6. Bal(w, e.port, e.prefix) = Build(e.algo, b.hosts)
  <2>1. ~NilProxy(v, e) /\ Passes(b, e)
        BY <1>4 DEF NotEnded, Passes
  <2>2. Bal(w, e.port, e.prefix) = IdealBal(b, e)
        BY <2>1, StepRegisters
  <2> QED
        BY <1>1, <2>2 DEF IdealBal
<1>7. \A hs \in Seq(Hosts) : Build(e.algo, hs).mode = e.algo /\ Build(e.algo, hs).hosts = hs
      BY <1>1, BuildType
<1> HIDE DEF b
<1>8. /\ Build(e.algo, r.hosts).mode = e.algo /\ Build(e.algo, r.hosts).hosts = r.hosts
      /\ Build(e.algo, b.hosts).mode = e.algo /\ Build(e.algo, b.hosts).hosts = b.hosts
      BY ONLY <1>3, <1>4, <1>7
<1> QED
      BY <1>2, <1>5, <1>6, <1>8 DEF Mode, HostsOf, b

LEMMA LbSecond ==
    ASSUME NEW l, NEW s, NEW a, NEW h, Replays(l, s, a, h),
           NEW e, e = l[a + 1], e.op = "CHG_LB", NEW port \in ReplicatedIn(l),
           NEW t, IsTable(t), NEW r, SecondHalf(e, r), NEW u, Moves(t, r, u), NEW ops,
           port = e.port => Mode(t, e.port, e.prefix) = "",
           port = e.port /\ HostsOnce(ops) /\ SoundIn(l, s, port, a)
             => r.hosts = HostsOf(s[a + 1], e.port, e.prefix),
           Agrees(l, s, t, port, a, h, ops)
    PROVE  Agrees(l, s, u, port, a + 1, h, ops)
<1> DEFINE v == s[a + 1]
           w == s[a + 1 + 1]
<1>0. r.op = "ADD_HTTP_PROXY_PREFIX" /\ r.port = e.port /\ r.prefix = e.prefix
      BY DEF SecondHalf
<1>1. /\ e \in EntryType /\ IsTable(v) /\ StepOf(v, e, w) /\ Kept(l, s, a + 1, h)
      /\ port = e.port => NotEnded(v, e)
      BY ReplayContext
<1>2. a \in Nat /\ h \in Nat /\ a + 1 <= h
      BY DEF Replays
<1>3. PortAgrees(s, u, port, a + 1, h)
  <2>1. DOMAIN u = DOMAIN t \cup {e.port} /\ e.op # "ADD_HTTP_PROXY"
        BY DEF Moves, SecondHalf
  <2>2. PortAgrees(s, t, port, a, h)
        BY DEF Agrees
  <2> QED
        BY <2>1, <2>2, PortReplays
<1>4. ASSUME NEW x
      PROVE  BanAgrees(l, s, Banned(u, port, x), port, x, a + 1, h)
  <2>1. Banned(u, port, x) <=> Banned(t, port, x)
    <3>1. NewAcl(At(t, port).acl, r) = At(t, port).acl
          BY DEF NewAcl, SecondHalf
    <3> QED
          BY ONLY <1>0, <3>1, Moves(t, r, u), MovesRegisters DEF Banned
  <2>2. BanAgrees(l, s, Banned(t, port, x), port, x, a, h)
        BY DEF Agrees
  <2>3. NoBan(l, port, x, a + 1, h) => NoBan(l, port, x, a, h)
        BY ReplayContext DEF Bans
  <2> QED
        BY <2>1, <2>2, <2>3 DEF BanAgrees
<1>5. ASSUME NEW p
      PROVE  /\ ModeAgrees(l, s, Mode(u, port, p), port, p, a + 1, h)
             /\ Mode(u, port, p) # "" /\ HostsOnce(ops)
                => HostsAgree(l, s, HostsOf(u, port, p), port, p, a + 1, h)
  <2>1. CASE port = e.port /\ p = e.prefix
    <3>1. /\ Mode(u, port, p) = e.algo /\ e.algo # "" /\ HostsOf(u, port, p) = r.hosts
          /\ Mode(w, port, p) = e.algo /\ HostsOf(w, port, p) = HostsOf(v, port, p)
      <4>1. /\ e \in EntryType /\ e.op = "CHG_LB" /\ IsTable(v) /\ StepOf(v, e, w)
            /\ NotEnded(v, e) /\ Mode(t, e.port, e.prefix) = ""
            /\ SecondHalf(e, r) /\ Moves(t, r, u)
            BY <1>1, <2>1
      <4> HIDE DEF v, w
      <4>2. /\ Mode(u, e.port, e.prefix) = e.algo /\ e.algo # ""
            /\ HostsOf(u, e.port, e.prefix) = r.hosts
            /\ Mode(w, e.port, e.prefix) = e.algo
            /\ HostsOf(w, e.port, e.prefix) = HostsOf(v, e.port, e.prefix)
            BY ONLY <4>1, LbSecondBal
      <4> QED
            BY ONLY <2>1, <4>2
    <3>2. ModeAgrees(l, s, Mode(u, port, p), port, p, a + 1, h)
          BY <1>1, <3>1 DEF ModeAgrees, Kept, KeepsMode
    <3>3. ASSUME HostsOnce(ops)
          PROVE  HostsAgree(l, s, HostsOf(u, port, p), port, p, a + 1, h)
      <4>1. /\ a + 1 + 1 .. a + 1 = {} /\ a + 1 \in a + 1 .. h
            /\ 1 .. a \subseteq 1 .. h
        <5>1. 1 .. a \subseteq 1 .. h
              BY ONLY <1>2
        <5> QED
              BY ONLY <1>2, <5>1, Windows
      <4>2. SoundIn(l, s, port, h) => SoundIn(l, s, port, a)
            BY <4>1 DEF SoundIn
      <4>3. SoundIn(l, s, port, h) => r.hosts = HostsOf(v, port, p)
            BY <2>1, <3>3, <4>2
      <4>4. NoUnlist(l, port, p, a + 1, a + 1)
            BY <4>1 DEF NoUnlist
      <4>5. SoundIn(l, s, port, h)
            => HostsOfMoment(l, s, HostsOf(u, port, p), port, p, a + 1, a + 1)
            BY <3>1, <4>3, <4>4 DEF HostsOfMoment
      <4> QED
            BY <4>1, <4>5 DEF HostsAgree
    <3> QED
          BY <3>2, <3>3
  <2>2. CASE ~(port = e.port /\ p = e.prefix)
    <3>1. Mode(u, port, p) = Mode(t, port, p) /\ HostsOf(u, port, p) = HostsOf(t, port, p)
      <4>1. Bal(u, port, p) = Bal(t, port, p)
            BY ONLY <1>0, <2>2, Moves(t, r, u), MovesRegisters
      <4> QED
            BY <4>1 DEF Mode, HostsOf
    <3>2. /\ ModeAgrees(l, s, Mode(t, port, p), port, p, a, h)
          /\ Mode(t, port, p) # "" /\ HostsOnce(ops)
             => HostsAgree(l, s, HostsOf(t, port, p), port, p, a, h)
          BY DEF Agrees
    <3> QED
          BY <2>2, <3>1, <3>2, ModeOther, HostsOther
  <2> QED
        BY <2>1, <2>2
<1> QED
      BY <1>3, <1>4, <1>5 DEF Agrees

-----------------------------------------------------------------------------
(* Types, of a node and of what it has on disk.                            *)

ImageType(i) ==
    /\ DOMAIN i = {"paths", "algo", "static", "acl", "available", "records"}
    /\ IsMap(i.paths, Seq(Hosts)) /\ IsMap(i.algo, factories)
    /\ IsMap(i.static, BOOLEAN) /\ i.acl \subseteq Networks
    /\ i.available \in BOOLEAN /\ i.records \subseteq UrlPrefixes
    /\ DOMAIN i.algo \subseteq DOMAIN i.static

EncType(c, a) ==
    c # NoImage =>
      /\ DOMAIN c = {"from", "image", "ports", "open"}
      /\ c.from \in Nat /\ c.from <= a
      /\ c.ports \subseteq Ports /\ DOMAIN c.image \subseteq Ports
      /\ c.open \subseteq DOMAIN c.image /\ \A q, r \in c.open : q = r
      /\ \A port \in DOMAIN c.image \ c.open : ImageType(c.image[port])
      /\ \A port \in c.open : IsMap(c.image[port].paths, Seq(Hosts))

(* A proxy that is half encoded has not been deleted.                      *)
OpenThere(c, t) == c # NoImage => c.open \subseteq DOMAIN t

SnapType(i, k) ==
    i # NoImage =>
      /\ i.from \in Nat /\ i.to \in Nat /\ i.from <= i.to /\ i.to <= k
      /\ DOMAIN i.image \subseteq Ports
      /\ \A port \in DOMAIN i.image : ImageType(i.image[port])

BaseType(b, a, k) ==
    b # NoImage => b.from \in Nat /\ b.to \in Nat /\ b.from <= a /\ b.to <= k

(* A process that does not run has nothing but its disk.                   *)
IdleType(st, t, a, hf, sk, sg, c, b) ==
    st \notin Running =>
      /\ t = <<>> /\ a = 0 /\ hf = NoEntry /\ sk = FALSE /\ sg = {}
      /\ c = NoImage /\ b = NoImage

NodeType(k, st, t, a, hf, sk, sg, c, i, b) ==
    /\ IsTable(t) /\ a \in Nat /\ a <= k
    /\ hf \in EntryType \cup {NoEntry}
    /\ hf # NoEntry => a + 1 <= k /\ hf.op = "ADD_HTTP_PROXY_PREFIX"
    /\ EncType(c, a) /\ OpenThere(c, t) /\ SnapType(i, k) /\ BaseType(b, a, k)
    /\ IdleType(st, t, a, hf, sk, sg, c, b)

NodeTypes ==
    \A n \in Nodes :
      NodeType(Len(log), status[n], table[n], applied[n], half[n], stuck[n],
               starting[n], enc[n], snap[n], base[n])

Domains ==
    /\ status \in [Nodes -> Statuses]
    /\ applied \in [Nodes -> Nat] /\ stuck \in [Nodes -> BOOLEAN]
    /\ starting \in [Nodes -> SUBSET Ports]
    /\ DOMAIN table = Nodes /\ DOMAIN half = Nodes /\ DOMAIN enc = Nodes
    /\ DOMAIN snap = Nodes /\ DOMAIN base = Nodes

TypeInv ==
    /\ log \in Seq(EntryType) /\ \A i \in 1 .. Len(log) : log[i].hosts # <<>>
    /\ Domains /\ NodeTypes

(* A step of one node leaves the other ones alone.                         *)
Others(n) ==
    \A m \in Nodes \ {n} :
      /\ status'[m] = status[m] /\ table'[m] = table[m] /\ applied'[m] = applied[m]
      /\ half'[m] = half[m] /\ stuck'[m] = stuck[m] /\ starting'[m] = starting[m]
      /\ enc'[m] = enc[m] /\ snap'[m] = snap[m] /\ base'[m] = base[m]

(* The servers of the raft configuration.                                  *)
Members == members \subseteq Nodes

LEMMA TypeInvImplies == TypeInv /\ Members => TypeOK
<1> SUFFICES ASSUME TypeInv, Members
             PROVE  TypeOK
    OBVIOUS
<1>1. /\ log \in Seq(EntryType)
      /\ status \in [Nodes -> Statuses]
      /\ stuck \in [Nodes -> BOOLEAN] /\ starting \in [Nodes -> SUBSET Ports]
      BY DEF TypeInv, Domains
<1>2. applied \in [Nodes -> 0 .. Len(log)]
  <2>1. applied \in [Nodes -> Nat]
        BY DEF TypeInv, Domains
  <2>2. \A n \in Nodes : applied[n] <= Len(log)
        BY DEF TypeInv, NodeTypes, NodeType
  <2>3. Len(log) \in Nat
        BY <1>1
  <2>4. \A n \in Nodes : applied[n] \in 0 .. Len(log)
        BY <2>1, <2>2, <2>3
  <2> QED
        BY <2>1, <2>4
<1>3. \A n \in Nodes : IsTable(table[n]) /\ half[n] \in EntryType \cup {NoEntry}
      BY DEF TypeInv, NodeTypes, NodeType
<1> QED
      BY <1>1, <1>2, <1>3 DEF TypeOK, Members

LEMMA EmptyTable == IsTable(<<>>) /\ DOMAIN <<>> = {} /\ Unlocked(<<>>)
<1>1. DOMAIN <<>> = {}
      OBVIOUS
<1>2. \A port : At(<<>>, port) = NewHttpReverseProxy
      BY <1>1 DEF At, Get
<1>3. Unlocked(<<>>)
      BY <1>2, NewProxy, NilFields DEF Unlocked, Bal
<1> QED
      BY <1>1, <1>3 DEF IsTable

LEMMA TypeInit == Init => TypeInv
<1> SUFFICES ASSUME Init
             PROVE  TypeInv
    OBVIOUS
<1>1. log = <<>> /\ log \in Seq(EntryType) /\ Len(log) = 0 /\ 1 .. Len(log) = {}
      BY DEF Init
<1>2. Domains
      BY DEF Init, Domains, Statuses
<1>3. ASSUME NEW n \in Nodes
      PROVE  NodeType(Len(log), status[n], table[n], applied[n], half[n], stuck[n],
                      starting[n], enc[n], snap[n], base[n])
  <2>1. /\ table[n] = <<>> /\ applied[n] = 0 /\ half[n] = NoEntry /\ stuck[n] = FALSE
        /\ starting[n] = {} /\ enc[n] = NoImage /\ snap[n] = NoImage /\ base[n] = NoImage
        BY DEF Init
  <2> QED
        BY <1>1, <2>1, EmptyTable DEF NodeType, EncType, OpenThere, SnapType, BaseType, IdleType
<1> QED
      BY <1>1, <1>2, <1>3 DEF TypeInv, NodeTypes

(* The steps of a node that leave the log alone.                           *)
Local(n) ==
    \/ Fsm(n) \/ Boot(n) \/ Kill(n)
    \/ Snapshot(n) \/ Persist(n) \/ PersistFails(n)
    \/ \E port \in Ports :
         \/ Closed(n, port) \/ Start(n, port)
         \/ EncodePaths(n, port) \/ EncodeRest(n, port)
         \/ \E p \in UrlPrefixes : ServeHTTP(n, port, p)

LEMMA NextSteps ==
    ASSUME Next
    PROVE  \E n \in Nodes :
             \/ \E c \in Commands : AppendLogEntry(n, c)
                                    /\ (Checked(table[n], c) \/ c.op \in Unchecked)
             \/ Local(n)
    BY DEF Next, Local, Propose, RegisterToProxy, Unchecked

-----------------------------------------------------------------------------
(* What each step of a node assigns.                                       *)

(* The function g is f with v for n.                                       *)
Sets(f, g, n, v) == g = [f EXCEPT ![n] = v] \/ (g = f /\ v = f[n])

Assigns(n, st, t, a, hf, sk, sg, c, i, b) ==
    /\ log' = log /\ ideal' = ideal
    /\ Sets(status, status', n, st) /\ Sets(table, table', n, t)
    /\ Sets(applied, applied', n, a) /\ Sets(half, half', n, hf)
    /\ Sets(stuck, stuck', n, sk) /\ Sets(starting, starting', n, sg)
    /\ Sets(enc, enc', n, c) /\ Sets(snap, snap', n, i) /\ Sets(base, base', n, b)

Values(n, st, t, a, hf, sk, sg, c, i, b) ==
    /\ log' = log /\ ideal' = ideal /\ Domains' /\ Others(n)
    /\ status'[n] = st /\ table'[n] = t /\ applied'[n] = a /\ half'[n] = hf
    /\ stuck'[n] = sk /\ starting'[n] = sg /\ enc'[n] = c /\ snap'[n] = i
    /\ base'[n] = b

LEMMA AssignsValues ==
    ASSUME TypeInv, NEW n \in Nodes, NEW st, NEW t, NEW a, NEW hf, NEW sk, NEW sg,
           NEW c, NEW i, NEW b, Assigns(n, st, t, a, hf, sk, sg, c, i, b),
           st \in Statuses, a \in Nat, sk \in BOOLEAN,
           sg \in SUBSET Ports
    PROVE  Values(n, st, t, a, hf, sk, sg, c, i, b)
<1>1. Domains
      BY DEF TypeInv
<1>2. /\ DOMAIN status = Nodes /\ DOMAIN table = Nodes /\ DOMAIN applied = Nodes
      /\ DOMAIN half = Nodes /\ DOMAIN stuck = Nodes /\ DOMAIN starting = Nodes
      /\ DOMAIN enc = Nodes /\ DOMAIN snap = Nodes /\ DOMAIN base = Nodes
      BY <1>1 DEF Domains
<1>3. /\ status' \in [Nodes -> Statuses] /\ status'[n] = st
      /\ \A m \in Nodes \ {n} : status'[m] = status[m]
      BY <1>1, <1>2 DEF Assigns, Sets, Domains
<1>4. /\ applied' \in [Nodes -> Nat] /\ applied'[n] = a
      /\ \A m \in Nodes \ {n} : applied'[m] = applied[m]
      BY <1>1, <1>2 DEF Assigns, Sets, Domains
<1>5. /\ stuck' \in [Nodes -> BOOLEAN] /\ stuck'[n] = sk
      /\ \A m \in Nodes \ {n} : stuck'[m] = stuck[m]
      BY <1>1, <1>2 DEF Assigns, Sets, Domains
<1>6. /\ starting' \in [Nodes -> SUBSET Ports] /\ starting'[n] = sg
      /\ \A m \in Nodes \ {n} : starting'[m] = starting[m]
      BY <1>1, <1>2 DEF Assigns, Sets, Domains
<1>7. /\ DOMAIN table' = Nodes /\ table'[n] = t
      /\ \A m \in Nodes \ {n} : table'[m] = table[m]
      BY <1>2 DEF Assigns, Sets
<1>8. /\ DOMAIN half' = Nodes /\ half'[n] = hf
      /\ \A m \in Nodes \ {n} : half'[m] = half[m]
      BY <1>2 DEF Assigns, Sets
<1>9. /\ DOMAIN enc' = Nodes /\ enc'[n] = c
      /\ \A m \in Nodes \ {n} : enc'[m] = enc[m]
      BY <1>2 DEF Assigns, Sets
<1>10. /\ DOMAIN snap' = Nodes /\ snap'[n] = i
       /\ \A m \in Nodes \ {n} : snap'[m] = snap[m]
       BY <1>2 DEF Assigns, Sets
<1>11. /\ DOMAIN base' = Nodes /\ base'[n] = b
       /\ \A m \in Nodes \ {n} : base'[m] = base[m]
       BY <1>2 DEF Assigns, Sets
<1>12. Domains'
       BY <1>3, <1>4, <1>5, <1>6, <1>7, <1>8, <1>9, <1>10, <1>11 DEF Domains
<1> QED
      BY <1>3, <1>4, <1>5, <1>6, <1>7, <1>8, <1>9, <1>10, <1>11, <1>12
         DEF Values, Others, Assigns

(* What a node has before a step.                                          *)
LEMMA NodeFacts ==
    ASSUME TypeInv, NEW n \in Nodes
    PROVE  /\ status[n] \in Statuses /\ applied[n] \in Nat
           /\ stuck[n] \in BOOLEAN /\ starting[n] \in SUBSET Ports
           /\ IsTable(table[n]) /\ applied[n] <= Len(log) /\ Len(log) \in Nat
           /\ half[n] \in EntryType \cup {NoEntry}
           /\ half[n] # NoEntry => /\ applied[n] + 1 <= Len(log)
                                   /\ half[n].op = "ADD_HTTP_PROXY_PREFIX"
           /\ EncType(enc[n], applied[n]) /\ OpenThere(enc[n], table[n])
           /\ SnapType(snap[n], Len(log))
           /\ BaseType(base[n], applied[n], Len(log))
           /\ IdleType(status[n], table[n], applied[n], half[n], stuck[n], starting[n],
                       enc[n], base[n])
    BY DEF TypeInv, Domains, NodeTypes, NodeType

LEMMA TypeStep ==
    ASSUME TypeInv, NEW n \in Nodes, NEW st, NEW t, NEW a, NEW hf, NEW sk, NEW sg,
           NEW c, NEW i, NEW b, Values(n, st, t, a, hf, sk, sg, c, i, b),
           NodeType(Len(log), st, t, a, hf, sk, sg, c, i, b)
    PROVE  TypeInv'
<1>1. /\ log' = log /\ Domains' /\ Others(n)
      /\ status'[n] = st /\ table'[n] = t /\ applied'[n] = a /\ half'[n] = hf
      /\ stuck'[n] = sk /\ starting'[n] = sg /\ enc'[n] = c /\ snap'[n] = i
      /\ base'[n] = b
      BY DEF Values
<1>2. NodeTypes'
  <2> SUFFICES ASSUME NEW m \in Nodes
               PROVE  NodeType(Len(log'), status'[m], table'[m], applied'[m], half'[m],
                               stuck'[m], starting'[m], enc'[m], snap'[m], base'[m])
      BY DEF NodeTypes
  <2>1. CASE m = n
        BY <1>1, <2>1
  <2>2. CASE m # n
    <3>1. NodeType(Len(log), status[m], table[m], applied[m], half[m],
                   stuck[m], starting[m], enc[m], snap[m], base[m])
          BY DEF TypeInv, NodeTypes
    <3> QED
          BY <1>1, <2>2, <3>1 DEF Others
  <2> QED
        BY <2>1, <2>2
<1> QED
      BY <1>1, <1>2 DEF TypeInv

-----------------------------------------------------------------------------
(* What else changes a proxy, or makes one: requests, Start, the           *)
(* configuration file, Restore.                                            *)

Unlock(b) == [b EXCEPT !.rlocked = FALSE]

(* The proxy y has the registers of x, though it may have lost read locks. *)
SameRegisters(x, y) ==
    /\ IsProxy(y)
    /\ \A p : /\ BalOf(y, p).mode = BalOf(x, p).mode
              /\ BalOf(y, p).hosts = BalOf(x, p).hosts
              /\ Unlock(BalOf(y, p)) = Unlock(BalOf(x, p))
    /\ y.static = x.static /\ y.acl = x.acl /\ y.shutdown = x.shutdown

LEMMA ServedSame ==
    ASSUME NEW x, IsProxy(x), NEW p \in UrlPrefixes, PrefixExists(x, p)
    PROVE  \A locked : /\ SameRegisters(x, Served(x, p, locked))
                       /\ Served(x, p, locked).available = x.available
<1> TAKE locked
<1> DEFINE y == Served(x, p, locked)
           b == AfterBalance(x.mapping[p])
<1>1. x.mapping[p] \in Balancers /\ p \in DOMAIN x.mapping
      BY DEF PrefixExists, IsProxy, IsMap
<1>2. /\ b \in Balancers /\ b.mode = x.mapping[p].mode /\ b.hosts = x.mapping[p].hosts
      /\ Unlock(b) = Unlock(x.mapping[p])
      BY <1>1, AfterBalanceType DEF Unlock, AfterBalance
<1>3. /\ DOMAIN y = DOMAIN x /\ y.mapping = [x.mapping EXCEPT ![p] = b]
      /\ y.static = x.static /\ y.acl = x.acl /\ y.available = x.available
      /\ y.shutdown = x.shutdown
      /\ y.limiters \subseteq x.limiters \cup {p} /\ y.records \subseteq x.records \cup {p}
      BY ProxyDomain DEF Served
<1> HIDE DEF y, b
<1>4. IsMap(x.mapping, Balancers)
      BY DEF IsProxy
<1>5. /\ IsMap(y.mapping, Balancers) /\ DOMAIN y.mapping = DOMAIN x.mapping
      /\ y.mapping[p] = b /\ \A q \in DOMAIN x.mapping : q # p => y.mapping[q] = x.mapping[q]
      BY <1>1, <1>2, <1>3, <1>4 DEF IsMap
<1>6. IsProxy(y)
      BY <1>3, <1>5 DEF IsProxy
<1>7. ASSUME NEW q
      PROVE  /\ BalOf(y, q).mode = BalOf(x, q).mode
             /\ BalOf(y, q).hosts = BalOf(x, q).hosts
             /\ Unlock(BalOf(y, q)) = Unlock(BalOf(x, q))
  <2>1. CASE q = p
    <3>1. BalOf(y, q) = b /\ BalOf(x, q) = x.mapping[p]
          BY <1>1, <1>5, <2>1 DEF BalOf, PrefixExists
    <3> QED
          BY <1>2, <3>1
  <2>2. CASE q # p
    <3>1. BalOf(y, q) = BalOf(x, q)
          BY <1>5, <2>2 DEF BalOf, PrefixExists
    <3> QED
          BY <3>1
  <2> QED
        BY <2>1, <2>2
<1>8. SameRegisters(x, y) /\ y.available = x.available
      BY <1>3, <1>6, <1>7 DEF SameRegisters
<1> QED
      BY <1>8 DEF y

LEMMA StartedSame ==
    ASSUME NEW x, IsProxy(x)
    PROVE  SameRegisters(x, [x EXCEPT !.available = TRUE])
<1> DEFINE y == [x EXCEPT !.available = TRUE]
<1>1. /\ DOMAIN y = DOMAIN x /\ y.mapping = x.mapping /\ y.static = x.static
      /\ y.limiters = x.limiters /\ y.records = x.records
      /\ y.acl = x.acl /\ y.available = TRUE /\ y.shutdown = x.shutdown
      BY ProxyDomain
<1> HIDE DEF y
<1>2. IsProxy(y)
      BY <1>1 DEF IsProxy
<1>3. \A p : BalOf(y, p) = BalOf(x, p)
      BY <1>1 DEF BalOf, PrefixExists
<1>4. SameRegisters(x, y)
      BY <1>1, <1>2, <1>3 DEF SameRegisters
<1> QED
      BY <1>4 DEF y

LEMMA ConfigProxy ==
    ASSUME NEW c, IsMap(c, [algo : factories, hosts : Seq(Hosts), static : BOOLEAN])
    PROVE  IsProxy(BuildHttpReverseProxyFromConfig(c))
<1> DEFINE y == BuildHttpReverseProxyFromConfig(c)
           m == [p \in DOMAIN c |-> Build(c[p].algo, c[p].hosts)]
           s == [p \in DOMAIN c |-> c[p].static]
<1>1. /\ DOMAIN y = DOMAIN NewHttpReverseProxy /\ y.mapping = m /\ y.static = s
      /\ y.acl = NewHttpReverseProxy.acl /\ y.available = NewHttpReverseProxy.available
      /\ y.limiters = NewHttpReverseProxy.limiters
      /\ y.records = NewHttpReverseProxy.records
      /\ y.shutdown = NewHttpReverseProxy.shutdown
      BY ProxyDomain DEF BuildHttpReverseProxyFromConfig
<1>2. DOMAIN c \subseteq UrlPrefixes
      BY DEF IsMap
<1>3. ASSUME NEW p \in DOMAIN c
      PROVE  Build(c[p].algo, c[p].hosts) \in Balancers /\ c[p].static \in BOOLEAN
  <2>1. c[p].algo \in factories /\ c[p].hosts \in Seq(Hosts) /\ c[p].static \in BOOLEAN
        BY <1>3 DEF IsMap
  <2> QED
        BY <2>1, BuildType
<1>4. IsMap(m, Balancers) /\ IsMap(s, BOOLEAN)
      BY <1>2, <1>3 DEF IsMap
<1>5. DOMAIN m \subseteq DOMAIN s
      OBVIOUS
<1> HIDE DEF y, m, s
<1>6. IsProxy(y)
      BY <1>1, <1>4, <1>5, NewProxy DEF IsProxy
<1> QED
      BY <1>6 DEF y

ConfigTable(n, t) ==
    [port \in DOMAIN Config[n] \cup DOMAIN t |->
       IF port \in DOMAIN t THEN t[port]
       ELSE BuildHttpReverseProxyFromConfig(Config[n][port])]

LEMMA ConfigTableType ==
    ASSUME NEW n \in Nodes, NEW t, IsTable(t)
    PROVE  /\ IsTable(ConfigTable(n, t))
           /\ DOMAIN ConfigTable(n, t) = DOMAIN Config[n] \cup DOMAIN t
           /\ \A port : port \notin DOMAIN Config[n] =>
                At(ConfigTable(n, t), port) = At(t, port)
<1> DEFINE u == ConfigTable(n, t)
<1>1. /\ DOMAIN u = DOMAIN Config[n] \cup DOMAIN t
      /\ \A port \in DOMAIN t : u[port] = t[port]
      /\ \A port \in DOMAIN Config[n] \ DOMAIN t :
           u[port] = BuildHttpReverseProxyFromConfig(Config[n][port])
      BY DEF ConfigTable
<1> HIDE DEF u
<1>2. DOMAIN Config[n] \subseteq Ports
      BY ClusterAssumption
<1>3. ASSUME NEW port \in DOMAIN Config[n]
      PROVE  IsProxy(BuildHttpReverseProxyFromConfig(Config[n][port]))
  <2>1. IsMap(Config[n][port], [algo : factories, hosts : Seq(Hosts), static : BOOLEAN])
        BY <1>3, ClusterAssumption
  <2> QED
        BY <2>1, ConfigProxy
<1>4. IsTable(u)
      BY <1>1, <1>2, <1>3 DEF IsTable
<1>5. \A port : port \notin DOMAIN Config[n] => At(u, port) = At(t, port)
      BY <1>1 DEF At, Get
<1> QED
      BY <1>1, <1>4, <1>5 DEF u

(* A proxy that is restored has the algorithms, the hosts and the static   *)
(* flags of the image.                                                     *)
Known(i) == i.acl = {} /\ \A p \in DOMAIN i.paths : Get(i.algo, p, "") \in factories

LEMMA RestoreProxy ==
    ASSUME NEW i, ImageType(i), Known(i)
    PROVE  /\ IsProxy(Restore(i))
           /\ \A p \in DOMAIN i.paths : /\ p \in DOMAIN i.algo
                                        /\ BalOf(Restore(i), p).mode = i.algo[p]
                                        /\ BalOf(Restore(i), p).hosts = i.paths[p]
           /\ \A p : p \notin DOMAIN i.paths => BalOf(Restore(i), p) = NilBalancer
           /\ \A p : FlagOf(Restore(i).static, p) = FlagOf(i.static, p)
           /\ Restore(i).acl = i.acl /\ Restore(i).shutdown = "nil"
<1> DEFINE y == Restore(i)
           m == [p \in DOMAIN i.paths |-> Build(i.algo[p], i.paths[p])]
           s == [p \in DOMAIN i.paths \cup DOMAIN i.static |-> Get(i.static, p, FALSE)]
<1>1. ASSUME NEW p \in DOMAIN i.paths
      PROVE  /\ p \in DOMAIN i.algo /\ i.algo[p] \in factories /\ p \in DOMAIN i.static
             /\ i.paths[p] \in Seq(Hosts)
  <2>1. p \in DOMAIN i.algo
        BY <1>1 DEF Known, Get, factories, RR, CH
  <2> QED
        BY <1>1, <2>1 DEF ImageType, IsMap
<1>2. ASSUME NEW p \in DOMAIN i.paths
      PROVE  /\ m[p] \in Balancers /\ m[p].mode = i.algo[p] /\ m[p].hosts = i.paths[p]
  <2>1. m[p] = Build(i.algo[p], i.paths[p])
        OBVIOUS
  <2> QED
        BY <1>1, <2>1, BuildType
<1>3. DOMAIN m = DOMAIN i.paths /\ DOMAIN i.paths \subseteq UrlPrefixes
      BY DEF ImageType, IsMap
<1>4. /\ DOMAIN s = DOMAIN i.static /\ \A p \in DOMAIN i.static : s[p] = i.static[p]
      /\ IsMap(s, BOOLEAN)
  <2>1. DOMAIN s = DOMAIN i.static
        BY <1>1
  <2>2. \A p \in DOMAIN i.static : s[p] = i.static[p]
        BY DEF Get
  <2>3. IsMap(i.static, BOOLEAN)
        BY DEF ImageType
  <2> QED
        BY <2>1, <2>2, <2>3 DEF IsMap
<1>5. /\ DOMAIN y = DOMAIN NewHttpReverseProxy /\ y.mapping = m /\ y.static = s
      /\ y.acl = i.acl /\ y.available = i.available /\ y.limiters = i.records
      /\ y.records = i.records /\ y.shutdown = "nil"
      BY ProxyDomain DEF Restore
<1>6. IsMap(m, Balancers)
  <2>1. m \in [DOMAIN m -> Balancers]
        BY <1>2, <1>3
  <2> QED
        BY <1>3, <2>1 DEF IsMap
<1> HIDE DEF y, m, s
<1>7. IsProxy(y)
  <2>1. DOMAIN m \subseteq DOMAIN s
        BY <1>1, <1>3, <1>4
  <2> QED
        BY <1>4, <1>5, <1>6, <2>1 DEF IsProxy, ImageType
<1>8. \A p \in DOMAIN i.paths : /\ p \in DOMAIN i.algo
                                /\ BalOf(y, p).mode = i.algo[p]
                                /\ BalOf(y, p).hosts = i.paths[p]
      BY <1>1, <1>2, <1>3, <1>5 DEF BalOf, PrefixExists
<1>9. \A p : p \notin DOMAIN i.paths => BalOf(y, p) = NilBalancer
      BY <1>3, <1>5 DEF BalOf, PrefixExists
<1>10. \A p : FlagOf(y.static, p) = FlagOf(i.static, p)
      BY <1>4, <1>5 DEF FlagOf
<1> QED
      BY <1>5, <1>7, <1>8, <1>9, <1>10 DEF y

RestoredTable(image) == [port \in DOMAIN image |-> Restore(image[port])]

LEMMA RestoredTableType ==
    ASSUME NEW c, NEW k, SnapType(c, k), c # NoImage, ~RestorePanics(c.image)
    PROVE  /\ IsTable(RestoredTable(c.image))
           /\ DOMAIN RestoredTable(c.image) = DOMAIN c.image
           /\ \A port \in DOMAIN c.image :
                /\ Known(c.image[port]) /\ ImageType(c.image[port])
                /\ At(RestoredTable(c.image), port) = Restore(c.image[port])
           /\ \A port : port \notin DOMAIN c.image =>
                At(RestoredTable(c.image), port) = NewHttpReverseProxy
<1> DEFINE u == RestoredTable(c.image)
<1>1. /\ DOMAIN u = DOMAIN c.image
      /\ \A port \in DOMAIN c.image : u[port] = Restore(c.image[port])
      BY DEF RestoredTable
<1> HIDE DEF u
<1>2. \A port \in DOMAIN c.image : Known(c.image[port]) /\ ImageType(c.image[port])
      BY DEF RestorePanics, Known, SnapType
<1>3. IsTable(u)
  <2>1. \A port \in DOMAIN c.image : IsProxy(Restore(c.image[port]))
        BY <1>2, RestoreProxy
  <2>2. DOMAIN c.image \subseteq Ports
        BY DEF SnapType
  <2> QED
        BY <1>1, <2>1, <2>2 DEF IsTable
<1>4. /\ \A port \in DOMAIN c.image : At(u, port) = Restore(c.image[port])
      /\ \A port : port \notin DOMAIN c.image => At(u, port) = NewHttpReverseProxy
      BY <1>1 DEF At, Get
<1> QED
      BY <1>1, <1>2, <1>3, <1>4 DEF u

-----------------------------------------------------------------------------
(* The values after each step.                                             *)

Ended(n) ==
    Values(n, "down", <<>>, 0, NoEntry, FALSE, {}, NoImage, snap[n], NoImage)

(* The table of the node becomes u, and the rest stays.                    *)
NewTable(n, u) ==
    Values(n, status[n], u, applied[n], half[n], stuck[n], starting[n], enc[n], snap[n],
           base[n])

LEMMA EndsValues ==
    ASSUME TypeInv, NEW n \in Nodes, Ends(n), log' = log, ideal' = ideal
    PROVE  Ended(n)
<1>1. Assigns(n, "down", <<>>, 0, NoEntry, FALSE, {}, NoImage, snap[n], NoImage)
      BY DEF Ends, Assigns, Sets
<1> QED
      BY <1>1, AssignsValues DEF Ended, Statuses

LEMMA KillValues ==
    ASSUME TypeInv, NEW n \in Nodes, Kill(n)
    PROVE  Ended(n)
    BY EndsValues DEF Kill, raftVars

(* The entry e is handled, with the table u, while the node runs.          *)
ApplyBlocks(n, e, u) ==
    /\ Outcome(table[n], e).end = "blocks"
    /\ Values(n, status[n], u, applied[n], half[n], TRUE, starting[n], enc[n], snap[n],
              base[n])
ApplyFirst(n, e, u) ==
    /\ Outcome(table[n], e).end = "ok" /\ e.op = "CHG_LB"
    /\ Values(n, status[n], u, applied[n], LbRest(table[n][e.port], e), stuck[n],
              starting[n], enc[n], snap[n], base[n])
ApplyAll(n, e, u) ==
    /\ Outcome(table[n], e).end = "ok" /\ e.op # "CHG_LB"
    /\ Values(n, status[n], u, applied[n] + 1, half[n], stuck[n], starting[n], enc[n],
              snap[n], base[n])

LEMMA EntryAt ==
    ASSUME TypeInv, NEW a \in Nat, a + 1 <= Len(log)
    PROVE  log[a + 1] \in EntryType /\ log[a + 1].hosts # <<>>
<1>1. log \in Seq(EntryType) /\ \A i \in 1 .. Len(log) : log[i].hosts # <<>>
      BY DEF TypeInv
<1>2. Len(log) \in Nat
      BY <1>1
<1>3. a + 1 \in 1 .. Len(log)
      BY ONLY <1>2, a \in Nat, a + 1 <= Len(log)
<1> QED
      BY <1>1, <1>3, ElementOfSeq

LEMMA ApplyValues ==
    ASSUME TypeInv, NEW n \in Nodes, Apply(n), NEW e, e = log[applied[n] + 1],
           NEW u, u = Put(table[n], e.port, Outcome(table[n], e).x)
    PROVE  /\ Runs(n) /\ half[n] = NoEntry /\ applied[n] + 1 <= Len(log)
           /\ e \in EntryType /\ e.hosts # <<>>
           /\ \/ Ended(n)
              \/ /\ ~NilProxy(table[n], e)
                 /\ ApplyBlocks(n, e, u) \/ ApplyFirst(n, e, u) \/ ApplyAll(n, e, u)
<1>1. Runs(n) /\ half[n] = NoEntry /\ applied[n] < Len(log)
      BY DEF Apply, Idle
<1>2. applied[n] + 1 <= Len(log) /\ applied[n] \in Nat
      BY <1>1, NodeFacts
<1>3. e \in EntryType /\ e.hosts # <<>>
      BY <1>2, EntryAt
<1>4. IsTable(table[n]) /\ status[n] \in Statuses
      /\ stuck[n] \in BOOLEAN /\ starting[n] \in SUBSET Ports
      BY NodeFacts
<1>5. Outcome(table[n], e).end \in {"ok", "panic", "blocks"}
  <2>1. Handled(At(table[n], e.port), e)
        BY <1>3, <1>4, AtProxy, HandleOutcome
  <2> QED
        BY <2>1 DEF Handled, Outcome, At
<1>6. CASE NilProxy(table[n], e) \/ Outcome(table[n], e).end = "panic"
  <2>1. Ends(n) /\ log' = log /\ ideal' = ideal
        BY <1>6 DEF Apply, raftVars
  <2> QED
        BY <1>1, <1>2, <1>3, <2>1, EndsValues
<1>7. CASE ~(NilProxy(table[n], e) \/ Outcome(table[n], e).end = "panic")
  <2>1. /\ log' = log /\ ideal' = ideal
        /\ table' = [table EXCEPT ![n] = u]
        /\ status' = status /\ starting' = starting /\ enc' = enc /\ snap' = snap
        /\ base' = base
        /\ CASE Outcome(table[n], e).end = "blocks" ->
                  stuck' = [stuck EXCEPT ![n] = TRUE] /\ UNCHANGED <<applied, half>>
             [] Outcome(table[n], e).end = "ok" /\ e.op = "CHG_LB" ->
                  /\ half' = [half EXCEPT ![n] = LbRest(table[n][e.port], e)]
                  /\ UNCHANGED <<applied, stuck>>
             [] OTHER -> Applied(n) /\ UNCHANGED <<half, stuck>>
        BY <1>7 DEF Apply, raftVars, disk
  <2>2. CASE Outcome(table[n], e).end = "blocks"
    <3>1. Assigns(n, status[n], u, applied[n], half[n], TRUE, starting[n], enc[n], snap[n],
                  base[n])
          BY <2>1, <2>2 DEF Assigns, Sets
    <3>2. ApplyBlocks(n, e, u)
          BY <1>2, <1>4, <2>2, <3>1, AssignsValues DEF ApplyBlocks
    <3> QED
          BY <1>1, <1>2, <1>3, <1>7, <3>2
  <2>3. CASE Outcome(table[n], e).end = "ok" /\ e.op = "CHG_LB"
    <3>1. Assigns(n, status[n], u, applied[n], LbRest(table[n][e.port], e), stuck[n],
                  starting[n], enc[n], snap[n], base[n])
          BY <2>1, <2>3 DEF Assigns, Sets
    <3>2. ApplyFirst(n, e, u)
          BY <1>2, <1>4, <2>3, <3>1, AssignsValues DEF ApplyFirst
    <3> QED
          BY <1>1, <1>2, <1>3, <1>7, <3>2
  <2>4. CASE Outcome(table[n], e).end = "ok" /\ e.op # "CHG_LB"
    <3>1. applied' = [applied EXCEPT ![n] = applied[n] + 1] /\ half' = half /\ stuck' = stuck
          BY <2>1, <2>4 DEF Applied
    <3>2. Assigns(n, status[n], u, applied[n] + 1, half[n], stuck[n], starting[n], enc[n],
                  snap[n], base[n])
          BY <2>1, <3>1 DEF Assigns, Sets
    <3>3. ApplyAll(n, e, u)
          BY <1>2, <1>4, <2>4, <3>2, AssignsValues DEF ApplyAll
    <3> QED
          BY <1>1, <1>2, <1>3, <1>7, <3>3
  <2> QED
        BY <1>5, <1>7, <2>2, <2>3, <2>4
<1> QED
      BY <1>6, <1>7

LEMMA ApplyHalfValues ==
    ASSUME TypeInv, NEW n \in Nodes, ApplyHalf(n), NEW r, r = half[n],
           NEW u, u = IF r.port \in DOMAIN table[n]
                      THEN Put(table[n], r.port, Outcome(table[n], r).x) ELSE table[n]
    PROVE  /\ Runs(n) /\ r # NoEntry /\ r \in EntryType /\ r.op = "ADD_HTTP_PROXY_PREFIX"
           /\ applied[n] + 1 <= Len(log)
           /\ \/ Ended(n)
              \/ /\ Outcome(table[n], r).end # "panic"
                 /\ Values(n, status[n], u, applied[n] + 1, NoEntry, stuck[n], starting[n],
                           enc[n], snap[n], base[n])
<1>1. Runs(n) /\ r # NoEntry
      BY DEF ApplyHalf
<1>2. /\ r \in EntryType /\ applied[n] \in Nat /\ applied[n] + 1 <= Len(log)
      /\ r.op = "ADD_HTTP_PROXY_PREFIX"
      /\ status[n] \in Statuses
      /\ stuck[n] \in BOOLEAN /\ starting[n] \in SUBSET Ports
      BY <1>1, NodeFacts
<1>3. CASE Outcome(table[n], r).end = "panic"
  <2>1. Ends(n) /\ log' = log /\ ideal' = ideal
        BY <1>3 DEF ApplyHalf, raftVars
  <2> QED
        BY <1>1, <1>2, <2>1, EndsValues
<1>4. CASE Outcome(table[n], r).end # "panic"
  <2>1. /\ log' = log /\ ideal' = ideal
        /\ table' = [table EXCEPT ![n] = u] /\ half' = [half EXCEPT ![n] = NoEntry]
        /\ applied' = [applied EXCEPT ![n] = applied[n] + 1]
        /\ status' = status /\ stuck' = stuck /\ starting' = starting /\ enc' = enc
        /\ snap' = snap /\ base' = base
        BY <1>4 DEF ApplyHalf, raftVars, disk, Applied
  <2>2. Assigns(n, status[n], u, applied[n] + 1, NoEntry, stuck[n], starting[n], enc[n],
                snap[n], base[n])
        BY <2>1 DEF Assigns, Sets
  <2> QED
        BY <1>1, <1>2, <1>4, <2>2, AssignsValues
<1> QED
      BY <1>3, <1>4

(* The image of an encoder with what it reads of the proxy x.              *)
WithPaths(c, port, x) ==
    [c EXCEPT !.image = Put(@, port, [paths |-> Paths(x)]), !.open = {port}]
WithRest(c, port, x) ==
    [c EXCEPT !.image = Put(@, port, Fields(x, @[port].paths)), !.open = {}]

LEMMA PathsSets ==
    ASSUME NEW n, NEW port
    PROVE  [enc EXCEPT ![n].image = Put(@, port, [paths |-> Paths(table[n][port])]),
                       ![n].open = {port}]
             = [enc EXCEPT ![n] = WithPaths(enc[n], port, table[n][port])]
    BY DEF WithPaths

LEMMA EncodedSets ==
    ASSUME NEW n, NEW port
    PROVE  Encoded(n, port) = [enc EXCEPT ![n] = WithRest(enc[n], port, table[n][port])]
    BY DEF WithRest, Encoded

LEMMA TableSets ==
    ASSUME DOMAIN table = Nodes, NEW n \in Nodes, NEW port \in DOMAIN table[n]
    PROVE  [table EXCEPT ![n][port].available = TRUE]
             = [table EXCEPT ![n] = Put(table[n], port,
                                        [table[n][port] EXCEPT !.available = TRUE])]
    BY DEF Put

NewEnc(n, c) ==
    Values(n, status[n], table[n], applied[n], half[n], stuck[n], starting[n], c, snap[n],
           base[n])

LEMMA FirstStartValues ==
    ASSUME TypeInv, NEW n \in Nodes, FirstStart(n), NEW st,
           st = IF n = Seed THEN "config" ELSE "first"
    PROVE  /\ ~Runs(n) /\ st \in Running
           /\ Values(n, st, table[n], applied[n], half[n], stuck[n], starting[n], enc[n],
                     snap[n], base[n])
<1>1. Assigns(n, st, table[n], applied[n], half[n], stuck[n], starting[n], enc[n], snap[n],
              base[n])
      BY DEF FirstStart, Assigns, Sets, fsm, disk
<1>2. st \in Running /\ ~Runs(n)
      BY DEF Running, FirstStart, Runs
<1>3. st \in Statuses
      BY <1>2 DEF Statuses
<1> QED
      BY <1>1, <1>2, <1>3, NodeFacts, AssignsValues

LEMMA JoinValues ==
    ASSUME TypeInv, NEW n \in Nodes, Join(n), NEW st,
           st = IF status[n] = "first" THEN "config" ELSE "up"
    PROVE  /\ Runs(n) /\ st \in Running
           /\ Values(n, st, table[n], applied[n], half[n], stuck[n], starting[n], enc[n],
                     snap[n], base[n])
<1>1. Assigns(n, st, table[n], applied[n], half[n], stuck[n], starting[n], enc[n], snap[n],
              base[n])
  <2>1. DOMAIN status = Nodes
        BY DEF TypeInv, Domains
  <2> QED
        BY <2>1 DEF Join, Assigns, Sets, fsm, disk
<1>2. st \in Running /\ Runs(n)
      BY DEF Running, Join, Joining, Runs
<1>3. st \in Statuses
      BY <1>2 DEF Statuses
<1> QED
      BY <1>1, <1>2, <1>3, NodeFacts, AssignsValues

LEMMA JoinFailsValues ==
    ASSUME TypeInv, NEW n \in Nodes, JoinFails(n)
    PROVE  Ended(n)
    BY EndsValues DEF JoinFails

LEMMA AddConfigValues ==
    ASSUME TypeInv, NEW n \in Nodes, AddConfig(n), NEW st,
           st = IF RunReturns(n) THEN "up" ELSE "config"
    PROVE  /\ Runs(n) /\ st \in Running
           /\ Values(n, st, ConfigTable(n, table[n]), applied[n], half[n], stuck[n],
                     starting[n], enc[n], snap[n], base[n])
<1>1. Assigns(n, st, ConfigTable(n, table[n]), applied[n], half[n], stuck[n],
              starting[n], enc[n], snap[n], base[n])
  <2>1. DOMAIN table = Nodes
        BY DEF TypeInv, Domains
  <2> QED
        BY <2>1 DEF AddConfig, Assigns, Sets, raftVars, disk, ConfigTable
<1>2. st \in Running /\ Runs(n)
      BY DEF Running, AddConfig, Runs
<1>3. st \in Statuses
      BY <1>2 DEF Statuses
<1> QED
      BY <1>1, <1>2, <1>3, NodeFacts, AssignsValues

LEMMA RestartEmptyValues ==
    ASSUME TypeInv, NEW n \in Nodes, RestartEmpty(n), NEW st, st = Restarted(n)
    PROVE  /\ ~Runs(n) /\ st \in Running
           /\ Values(n, st, table[n], applied[n], half[n], stuck[n], starting[n],
                     enc[n], snap[n], base[n])
<1>1. Assigns(n, st, table[n], applied[n], half[n], stuck[n], starting[n],
              enc[n], snap[n], base[n])
      BY DEF RestartEmpty, Assigns, Sets, raftVars, fsm, disk
<1>2. st \in Running /\ ~Runs(n)
      BY DEF Running, Restarted, RestartEmpty, Runs
<1>3. st \in Statuses
      BY <1>2 DEF Statuses
<1> QED
      BY <1>1, <1>2, <1>3, NodeFacts, AssignsValues

LEMMA RestartValues ==
    ASSUME TypeInv, NEW n \in Nodes, Restart(n), NEW st, st = Restarted(n)
    PROVE  /\ ~Runs(n) /\ st \in Running
           /\ snap[n] # NoImage /\ ~RestorePanics(snap[n].image)
           /\ Values(n, st, RestoredTable(snap[n].image), snap[n].from, half[n],
                     stuck[n], DOMAIN snap[n].image, enc[n], snap[n], snap[n])
<1>1. Assigns(n, st, RestoredTable(snap[n].image), snap[n].from, half[n],
              stuck[n], DOMAIN snap[n].image, enc[n], snap[n], snap[n])
      BY DEF Restart, Assigns, Sets, raftVars, disk, RestoredTable
<1>2. /\ ~Runs(n) /\ snap[n] # NoImage /\ ~RestorePanics(snap[n].image)
      BY DEF Restart, Running, Runs
<1>3. snap[n].from \in Nat /\ DOMAIN snap[n].image \in SUBSET Ports
      BY <1>2, NodeFacts DEF SnapType
<1>4. st \in Running
      BY DEF Running, Restarted
<1>5. st \in Statuses
      BY <1>4 DEF Statuses
<1> QED
      BY <1>1, <1>2, <1>3, <1>4, <1>5, NodeFacts, AssignsValues

LEMMA ClosedValues ==
    ASSUME TypeInv, NEW n \in Nodes, NEW port \in Ports, Closed(n, port)
    PROVE  LET c == IF enc[n] # NoImage /\ port \in enc[n].open
                    THEN WithRest(enc[n], port, table[n][port]) ELSE enc[n] IN
           /\ Runs(n) /\ port \in DOMAIN table[n] /\ table[n][port].shutdown = "taken"
           /\ Values(n, status[n], Del(table[n], port), applied[n], half[n], stuck[n],
                     starting[n], c, snap[n], base[n])
<1> DEFINE c == IF enc[n] # NoImage /\ port \in enc[n].open
                THEN WithRest(enc[n], port, table[n][port]) ELSE enc[n]
<1>1. /\ log' = log /\ ideal' = ideal /\ table' = [table EXCEPT ![n] = Del(table[n], port)]
      /\ enc' = IF enc[n] # NoImage /\ port \in enc[n].open THEN Encoded(n, port) ELSE enc
      /\ status' = status /\ applied' = applied /\ half' = half /\ stuck' = stuck
      /\ starting' = starting /\ snap' = snap /\ base' = base
      /\ Runs(n) /\ port \in DOMAIN table[n] /\ table[n][port].shutdown = "taken"
  <2>1. DOMAIN table = Nodes
        BY DEF TypeInv, Domains
  <2> QED
        BY <2>1 DEF Closed, raftVars
<1>2. Encoded(n, port) = [enc EXCEPT ![n] = WithRest(enc[n], port, table[n][port])]
      BY EncodedSets
<1>3. Sets(enc, enc', n, c)
      BY <1>1, <1>2 DEF Sets
<1> HIDE DEF c
<1>4. Assigns(n, status[n], Del(table[n], port), applied[n], half[n], stuck[n],
              starting[n], c, snap[n], base[n])
      BY <1>1, <1>3 DEF Assigns, Sets
<1>5. Values(n, status[n], Del(table[n], port), applied[n], half[n], stuck[n],
             starting[n], c, snap[n], base[n])
      BY <1>4, NodeFacts, AssignsValues
<1> QED
      BY <1>1, <1>5 DEF c

LEMMA ServeValues ==
    ASSUME TypeInv, NEW n \in Nodes, NEW port \in Ports, NEW p \in UrlPrefixes,
           ServeHTTP(n, port, p)
    PROVE  /\ Runs(n) /\ port \in DOMAIN table[n] /\ PrefixExists(table[n][port], p)
           /\ NewTable(n, Put(table[n], port, Served(table[n][port], p, Locked(n, port))))
<1> DEFINE u == Put(table[n], port, Served(table[n][port], p, Locked(n, port)))
<1>1. Runs(n) /\ port \in DOMAIN table[n] /\ PrefixExists(table[n][port], p)
      BY DEF ServeHTTP
<1>2. DOMAIN table = Nodes /\ IsTable(table[n])
      BY NodeFacts DEF TypeInv, Domains
<1>3. [table EXCEPT ![n][port] = Served(@, p, Locked(n, port))] = [table EXCEPT ![n] = u]
      BY <1>1, <1>2 DEF Put
<1>4. Assigns(n, status[n], u, applied[n], half[n], stuck[n], starting[n], enc[n], snap[n],
              base[n])
      BY <1>3 DEF ServeHTTP, Assigns, Sets, raftVars, disk
<1> QED
      BY <1>1, <1>4, NodeFacts, AssignsValues DEF NewTable

LEMMA StartValues ==
    ASSUME TypeInv, NEW n \in Nodes, NEW port \in Ports, Start(n, port)
    PROVE  LET u == IF port \in DOMAIN table[n]
                    THEN Put(table[n], port, [table[n][port] EXCEPT !.available = TRUE])
                    ELSE table[n] IN
           /\ Runs(n) /\ port \in starting[n]
           /\ Values(n, status[n], u, applied[n], half[n], stuck[n], starting[n] \ {port},
                     enc[n], snap[n], base[n])
<1> DEFINE u == IF port \in DOMAIN table[n]
                THEN Put(table[n], port, [table[n][port] EXCEPT !.available = TRUE])
                ELSE table[n]
<1>1. /\ Runs(n) /\ port \in starting[n]
      /\ table' = IF port \in DOMAIN table[n]
                  THEN [table EXCEPT ![n][port].available = TRUE] ELSE table
      BY DEF Start
<1>2. DOMAIN table = Nodes /\ DOMAIN starting = Nodes /\ IsTable(table[n])
      BY NodeFacts DEF TypeInv, Domains
<1>3. port \in DOMAIN table[n] =>
        [table EXCEPT ![n][port].available = TRUE] = [table EXCEPT ![n] = u]
      BY <1>2, TableSets
<1>4. Sets(table, table', n, u)
      BY <1>1, <1>3 DEF Sets
<1>5. Sets(starting, starting', n, starting[n] \ {port})
      BY <1>2 DEF Start, Sets
<1> HIDE DEF u
<1>6. Assigns(n, status[n], u, applied[n], half[n], stuck[n], starting[n] \ {port}, enc[n],
              snap[n], base[n])
      BY <1>4, <1>5 DEF Start, Assigns, Sets, raftVars, disk
<1>7. starting[n] \ {port} \in SUBSET Ports
      BY NodeFacts
<1>8. Values(n, status[n], u, applied[n], half[n], stuck[n], starting[n] \ {port}, enc[n],
             snap[n], base[n])
      BY <1>6, <1>7, NodeFacts, AssignsValues
<1> QED
      BY <1>1, <1>8 DEF u

LEMMA SnapshotValues ==
    ASSUME TypeInv, NEW n \in Nodes, Snapshot(n)
    PROVE  /\ Runs(n) /\ half[n] = NoEntry /\ enc[n] = NoImage
           /\ NewEnc(n, [from |-> applied[n], image |-> <<>>, ports |-> DOMAIN table[n],
                         open |-> {}])
<1>1. Assigns(n, status[n], table[n], applied[n], half[n], stuck[n], starting[n],
              [from |-> applied[n], image |-> <<>>, ports |-> DOMAIN table[n],
               open |-> {}], snap[n], base[n])
      BY DEF Snapshot, Assigns, Sets, raftVars, fsm
<1> QED
      BY <1>1, NodeFacts, AssignsValues DEF Snapshot, Idle, NewEnc

LEMMA EncodePathsValues ==
    ASSUME TypeInv, NEW n \in Nodes, NEW port \in Ports, EncodePaths(n, port)
    PROVE  /\ Runs(n) /\ enc[n] # NoImage /\ enc[n].open = {}
           /\ port \in DOMAIN table[n] \ DOMAIN enc[n].image
           /\ NewEnc(n, WithPaths(enc[n], port, table[n][port]))
<1>1. /\ Runs(n) /\ enc[n] # NoImage /\ enc[n].open = {}
      /\ port \in DOMAIN table[n] \ DOMAIN enc[n].image
      /\ enc' = [enc EXCEPT ![n].image = Put(@, port, [paths |-> Paths(table[n][port])]),
                            ![n].open = {port}]
      BY DEF EncodePaths
<1>2. enc' = [enc EXCEPT ![n] = WithPaths(enc[n], port, table[n][port])]
      BY <1>1, PathsSets
<1>3. Assigns(n, status[n], table[n], applied[n], half[n], stuck[n], starting[n],
              WithPaths(enc[n], port, table[n][port]), snap[n], base[n])
      BY <1>2 DEF EncodePaths, Assigns, Sets, raftVars, fsm
<1> QED
      BY <1>1, <1>3, NodeFacts, AssignsValues DEF NewEnc

LEMMA EncodeRestValues ==
    ASSUME TypeInv, NEW n \in Nodes, NEW port \in Ports, EncodeRest(n, port)
    PROVE  /\ Runs(n) /\ enc[n] # NoImage /\ port \in enc[n].open
           /\ NewEnc(n, WithRest(enc[n], port, table[n][port]))
<1>1. Runs(n) /\ enc[n] # NoImage /\ port \in enc[n].open /\ enc' = Encoded(n, port)
      BY DEF EncodeRest
<1>2. enc' = [enc EXCEPT ![n] = WithRest(enc[n], port, table[n][port])]
      BY <1>1, EncodedSets
<1>3. Assigns(n, status[n], table[n], applied[n], half[n], stuck[n], starting[n],
              WithRest(enc[n], port, table[n][port]), snap[n], base[n])
      BY <1>2 DEF EncodeRest, Assigns, Sets, raftVars, fsm
<1> QED
      BY <1>1, <1>3, NodeFacts, AssignsValues DEF NewEnc

LEMMA PersistValues ==
    ASSUME TypeInv, NEW n \in Nodes, Persist(n)
    PROVE  /\ Runs(n) /\ enc[n] # NoImage /\ enc[n].open = {}
           /\ enc[n].ports \cap DOMAIN table[n] \subseteq DOMAIN enc[n].image
           /\ Values(n, status[n], table[n], applied[n], half[n], stuck[n], starting[n],
                     NoImage,
                     [from |-> enc[n].from, image |-> enc[n].image, to |-> HeldTo(n),
                      twice |-> Twice(n) \cup {log[i].op : i \in enc[n].from + 1 .. HeldTo(n)}],
                     base[n])
<1> DEFINE i == [from |-> enc[n].from, image |-> enc[n].image, to |-> HeldTo(n),
                 twice |-> Twice(n) \cup {log[j].op : j \in enc[n].from + 1 .. HeldTo(n)}]
<1>1. Assigns(n, status[n], table[n], applied[n], half[n], stuck[n], starting[n],
              NoImage, i, base[n])
      BY DEF Persist, Assigns, Sets, raftVars, fsm
<1>2. /\ Runs(n) /\ enc[n] # NoImage /\ enc[n].open = {}
      /\ enc[n].ports \cap DOMAIN table[n] \subseteq DOMAIN enc[n].image
      BY DEF Persist
<1>3. Values(n, status[n], table[n], applied[n], half[n], stuck[n], starting[n], NoImage, i,
             base[n])
      BY <1>1, NodeFacts, AssignsValues
<1> QED
      BY <1>2, <1>3

LEMMA PersistFailsValues ==
    ASSUME TypeInv, NEW n \in Nodes, PersistFails(n)
    PROVE  Runs(n) /\ NewEnc(n, NoImage)
<1>1. Assigns(n, status[n], table[n], applied[n], half[n], stuck[n], starting[n],
              NoImage, snap[n], base[n])
      BY DEF PersistFails, Assigns, Sets, raftVars, fsm
<1> QED
      BY <1>1, NodeFacts, AssignsValues DEF PersistFails, NewEnc

-----------------------------------------------------------------------------
(* The types after each step.                                              *)

Hold(a, hf)    == IF hf = NoEntry THEN a ELSE a + 1
Held(a, hf, b) == IF b = NoImage THEN Hold(a, hf)
                  ELSE IF b.to <= Hold(a, hf) THEN Hold(a, hf) ELSE b.to

LEMMA HeldIs ==
    ASSUME TypeInv, NEW n \in Nodes
    PROVE  /\ HeldTo(n) = Held(applied[n], half[n], base[n])
           /\ HeldTo(n) \in Nat /\ applied[n] <= HeldTo(n) /\ HeldTo(n) <= Len(log)
<1> DEFINE k == Hold(applied[n], half[n])
           S == {k} \cup (IF base[n] = NoImage THEN {} ELSE {base[n].to})
           m == Held(applied[n], half[n], base[n])
<1>1. /\ applied[n] \in Nat /\ applied[n] <= Len(log) /\ Len(log) \in Nat
      /\ half[n] # NoEntry => applied[n] + 1 <= Len(log)
      /\ BaseType(base[n], applied[n], Len(log))
      BY NodeFacts
<1>2. k \in Nat /\ applied[n] <= k /\ k <= Len(log)
      BY <1>1 DEF Hold
<1>3. base[n] # NoImage => base[n].to \in Nat /\ base[n].to <= Len(log)
      BY <1>1 DEF BaseType
<1>4. HeldTo(n) = Max(S)
      BY DEF HeldTo, Hold
<1> HIDE DEF k
<1>5. m \in S /\ m \in Nat /\ applied[n] <= m /\ m <= Len(log) /\ \A y \in S : m >= y /\ y \in Nat
      BY <1>1, <1>2, <1>3 DEF Held, k
<1> HIDE DEF S, m
<1>6. \A x \in S : (\A y \in S : x >= y) => x = m
      BY ONLY <1>5
<1>7. Max(S) = m
      BY <1>5, <1>6 DEF Max
<1> QED
      BY <1>4, <1>5, <1>7 DEF m

(* The second half of a change of algorithm is an AddPrefix.               *)
LEMMA HalfMoves ==
    ASSUME NEW t, IsTable(t), NEW r \in EntryType, r.op = "ADD_HTTP_PROXY_PREFIX",
           r.port \in DOMAIN t, Outcome(t, r).end # "panic",
           NEW u, u = Put(t, r.port, Outcome(t, r).x)
    PROVE  Moves(t, r, u)
<1> DEFINE x == At(t, r.port)
           y == Outcome(t, r).x
<1>1. IsProxy(x) /\ x = t[r.port] /\ r.port \in Ports
      BY AtProxy DEF IsTable
<1>2. Outcome(t, r) = AddPrefix(x, r)
      BY DEF Outcome, Handle, At
<1> HIDE DEF x
<1>3. Changes(x, r, y) /\ Passes(BalOf(x, r.prefix), r)
  <2>1. CASE PrefixExists(x, r.prefix)
    <3>1. y = x
          BY <1>2, <2>1, Ends3 DEF AddPrefix
    <3>2. Changes(x, r, x)
          BY <1>1, <2>1, SameProxy
    <3>3. BalOf(x, r.prefix).mode # ""
          BY <1>1, <2>1, BalType
    <3> HIDE DEF y
    <3>4. Passes(BalOf(x, r.prefix), r)
          BY <3>3 DEF Passes
    <3> QED
          BY <3>1, <3>2, <3>4
  <2>2. CASE ~PrefixExists(x, r.prefix)
    <3>1. r.algo \in factories
          BY <1>2, <2>2, Ends3 DEF AddPrefix
    <3>2. Changes(x, r, AddPrefix(x, r).x)
          BY <1>1, <2>2, <3>1, AddPrefixChanges
    <3>3. Passes(BalOf(x, r.prefix), r)
          BY <3>1 DEF Passes
    <3> QED
          BY <1>2, <3>2, <3>3
  <2> QED
        BY <2>1, <2>2
<1> HIDE DEF y
<1>4. IsProxy(y)
      BY <1>3 DEF Changes, Becomes
<1>5. u = Put(t, r.port, y)
      BY DEF y
<1>6. Puts(t, r.port, y, u)
      BY <1>1, <1>4, <1>5, PutAt
<1>7. ~NilProxy(t, r)
      BY DEF NilProxy
<1>8. Bal(t, r.port, r.prefix) = BalOf(x, r.prefix)
      BY DEF Bal, x
<1> QED
      BY <1>3, <1>6, <1>7, <1>8 DEF Moves, Puts, x

LEMMA EndedType ==
    ASSUME TypeInv, NEW n \in Nodes, Ended(n)
    PROVE  TypeInv'
<1>1. SnapType(snap[n], Len(log)) /\ Len(log) \in Nat
      BY NodeFacts
<1>2. NodeType(Len(log), "down", <<>>, 0, NoEntry, FALSE, {}, NoImage, snap[n], NoImage)
      BY <1>1, EmptyTable DEF NodeType, EncType, OpenThere, BaseType, IdleType
<1> QED
      BY <1>2, TypeStep DEF Ended

LEMMA ApplyType ==
    ASSUME TypeInv, NEW n \in Nodes, Apply(n)
    PROVE  TypeInv'
<1> DEFINE e == log[applied[n] + 1]
           t == table[n]
           u == Put(t, e.port, Outcome(t, e).x)
           x == At(t, e.port)
<1>1. /\ Runs(n) /\ half[n] = NoEntry /\ applied[n] + 1 <= Len(log)
      /\ e \in EntryType /\ e.hosts # <<>>
      /\ \/ Ended(n)
         \/ /\ ~NilProxy(t, e)
            /\ ApplyBlocks(n, e, u) \/ ApplyFirst(n, e, u) \/ ApplyAll(n, e, u)
      BY ApplyValues
<1>2. /\ IsTable(t) /\ applied[n] \in Nat /\ applied[n] <= Len(log) /\ Len(log) \in Nat
      /\ EncType(enc[n], applied[n]) /\ SnapType(snap[n], Len(log))
      /\ BaseType(base[n], applied[n], Len(log)) /\ OpenThere(enc[n], t)
      BY NodeFacts
<1>3. status[n] \in Running
      BY <1>1 DEF Runs
<1>4. Handled(x, e) /\ IsProxy(x) /\ Outcome(t, e) = Handle(x, e)
  <2>1. IsProxy(x)
        BY <1>2, AtProxy
  <2>2. Handled(x, e)
        BY <1>1, <2>1, HandleOutcome
  <2> QED
        BY <2>1, <2>2 DEF Outcome, At
<1> HIDE DEF e, x
<1>5. ASSUME Outcome(t, e).end \in {"ok", "blocks"}
      PROVE  IsTable(u)
  <2>1. IsProxy(Outcome(t, e).x)
        BY <1>4, <1>5 DEF Handled, Changes, Becomes
  <2>2. e.port \in Ports
        BY <1>1, EntryFields
  <2>3. Puts(t, e.port, Outcome(t, e).x, u)
        BY <1>2, <2>1, <2>2, PutAt
  <2> QED
        BY <2>3 DEF Puts
<1>6. EncType(enc[n], applied[n] + 1) /\ BaseType(base[n], applied[n] + 1, Len(log))
      BY <1>2 DEF EncType, BaseType
<1>10. OpenThere(enc[n], u)
       BY <1>2 DEF OpenThere, Put
<1> HIDE DEF u
<1>7. CASE ApplyBlocks(n, e, u)
  <2>1. NodeType(Len(log), status[n], u, applied[n], half[n], TRUE, starting[n], enc[n],
                 snap[n], base[n])
        BY <1>1, <1>2, <1>3, <1>5, <1>7, <1>10 DEF NodeType, IdleType, ApplyBlocks
  <2> QED
        BY <1>7, <2>1, TypeStep DEF ApplyBlocks
<1>8. CASE ApplyAll(n, e, u)
  <2>1. NodeType(Len(log), status[n], u, applied[n] + 1, half[n], stuck[n], starting[n],
                 enc[n], snap[n], base[n])
        BY <1>1, <1>2, <1>3, <1>5, <1>6, <1>8, <1>10 DEF NodeType, IdleType, ApplyAll
  <2> QED
        BY <1>8, <2>1, TypeStep DEF ApplyAll
<1>9. CASE ~NilProxy(t, e) /\ ApplyFirst(n, e, u)
  <2>1. e.op = "CHG_LB" /\ Outcome(t, e).end = "ok" /\ e.port \in DOMAIN t
        BY <1>9 DEF ApplyFirst, NilProxy
  <2>2. Passes(BalOf(x, e.prefix), e) /\ Changes(x, e, Outcome(t, e).x)
        BY <1>4, <2>1 DEF Handled
  <2>3. BalOf(x, e.prefix).mode # ""
        BY <2>1, <2>2 DEF Passes
  <2>4. PrefixExists(x, e.prefix)
        BY <1>4, <2>3, BalType
  <2>5. x = t[e.port]
        BY <1>2, <2>1, AtProxy DEF x
  <2>6. LbRest(x, e) \in EntryType /\ LbRest(x, e).op = "ADD_HTTP_PROXY_PREFIX"
        BY <1>1, <1>4, <2>1, <2>2, <2>4, LbStep
  <2>7. NodeType(Len(log), status[n], u, applied[n], LbRest(t[e.port], e), stuck[n],
                 starting[n], enc[n], snap[n], base[n])
        BY <1>1, <1>2, <1>3, <1>5, <1>10, <2>1, <2>5, <2>6 DEF NodeType, IdleType
  <2> QED
        BY <1>9, <2>7, TypeStep DEF ApplyFirst
<1> QED
      BY <1>1, <1>7, <1>8, <1>9, EndedType DEF u

LEMMA ApplyHalfType ==
    ASSUME TypeInv, NEW n \in Nodes, ApplyHalf(n)
    PROVE  TypeInv'
<1> DEFINE r == half[n]
           t == table[n]
           u == IF r.port \in DOMAIN t THEN Put(t, r.port, Outcome(t, r).x) ELSE t
<1>1. /\ Runs(n) /\ r \in EntryType /\ r.op = "ADD_HTTP_PROXY_PREFIX"
      /\ applied[n] + 1 <= Len(log)
      /\ \/ Ended(n)
         \/ /\ Outcome(t, r).end # "panic"
            /\ Values(n, status[n], u, applied[n] + 1, NoEntry, stuck[n], starting[n],
                      enc[n], snap[n], base[n])
      BY ApplyHalfValues
<1>2. /\ IsTable(t) /\ applied[n] \in Nat /\ Len(log) \in Nat
      /\ EncType(enc[n], applied[n]) /\ SnapType(snap[n], Len(log))
      /\ BaseType(base[n], applied[n], Len(log)) /\ OpenThere(enc[n], t)
      BY NodeFacts
<1>3. status[n] \in Running
      BY <1>1 DEF Runs
<1>4. EncType(enc[n], applied[n] + 1) /\ BaseType(base[n], applied[n] + 1, Len(log))
      BY <1>2 DEF EncType, BaseType
<1>5. ASSUME Outcome(t, r).end # "panic"
      PROVE  IsTable(u)
  <2>1. CASE r.port \in DOMAIN t
    <3>1. Moves(t, r, u)
          BY <1>1, <1>2, <1>5, <2>1, HalfMoves
    <3> QED
          BY <3>1 DEF Moves
  <2>2. CASE r.port \notin DOMAIN t
        BY <1>2, <2>2
  <2> QED
        BY <2>1, <2>2
<1>7. OpenThere(enc[n], u)
      BY <1>2 DEF OpenThere, Put
<1> HIDE DEF u
<1>6. CASE ~Ended(n)
  <2>1. NodeType(Len(log), status[n], u, applied[n] + 1, NoEntry, stuck[n], starting[n],
                 enc[n], snap[n], base[n])
        BY <1>1, <1>2, <1>3, <1>4, <1>5, <1>6, <1>7 DEF NodeType, IdleType
  <2> QED
        BY <1>1, <1>6, <2>1, TypeStep
<1> QED
      BY <1>6, EndedType

(* A new table alone.                                                      *)
LEMMA TableType ==
    ASSUME TypeInv, NEW n \in Nodes, Runs(n), NEW u, IsTable(u), NEW c, EncType(c, applied[n]),
           OpenThere(c, u), NEW sg,
           Values(n, status[n], u, applied[n], half[n], stuck[n], sg, c, snap[n], base[n])
    PROVE  TypeInv'
<1>1. /\ applied[n] \in Nat /\ applied[n] <= Len(log) /\ Len(log) \in Nat
      /\ half[n] \in EntryType \cup {NoEntry}
      /\ half[n] # NoEntry => /\ applied[n] + 1 <= Len(log)
                              /\ half[n].op = "ADD_HTTP_PROXY_PREFIX"
      /\ SnapType(snap[n], Len(log)) /\ BaseType(base[n], applied[n], Len(log))
      BY NodeFacts
<1>2. NodeType(Len(log), status[n], u, applied[n], half[n], stuck[n], sg, c, snap[n], base[n])
      BY <1>1 DEF NodeType, IdleType, Runs
<1> QED
      BY <1>2, TypeStep

(* What an encoder reads.                                                  *)
LEMMA FieldsType ==
    ASSUME NEW x, IsProxy(x)
    PROVE  /\ IsMap(Paths(x), Seq(Hosts)) /\ DOMAIN Paths(x) = DOMAIN x.mapping
           /\ \A p \in DOMAIN x.mapping : Paths(x)[p] = x.mapping[p].hosts
           /\ \A paths : IsMap(paths, Seq(Hosts)) => ImageType(Fields(x, paths))
<1>1. \A p \in DOMAIN x.mapping : x.mapping[p].hosts \in Seq(Hosts)
                                  /\ x.mapping[p].mode \in factories
                                  /\ p \in DOMAIN x.static
  <2> SUFFICES ASSUME NEW p \in DOMAIN x.mapping
               PROVE  x.mapping[p].hosts \in Seq(Hosts) /\ x.mapping[p].mode \in factories
                      /\ p \in DOMAIN x.static
      OBVIOUS
  <2>1. PrefixExists(x, p)
        BY DEF PrefixExists
  <2> QED
        BY <2>1, BalType
<1>2. DOMAIN x.mapping \subseteq UrlPrefixes
      BY DEF IsProxy, IsMap
<1>3. IsMap(Paths(x), Seq(Hosts)) /\ IsMap(BalancerType(x), factories)
      BY <1>1, <1>2 DEF IsMap, Paths, BalancerType
<1>4. DOMAIN BalancerType(x) = DOMAIN x.mapping
      BY DEF BalancerType
<1>5. ASSUME NEW paths, IsMap(paths, Seq(Hosts))
      PROVE  ImageType(Fields(x, paths))
  <2> DEFINE i == Fields(x, paths)
  <2>1. /\ DOMAIN i = {"paths", "algo", "static", "acl", "available", "records"}
        /\ i.paths = paths /\ i.algo = BalancerType(x) /\ i.static = x.static
        /\ i.acl = x.acl /\ i.available = x.available /\ i.records = x.records
        BY DEF Fields
  <2> HIDE DEF i
  <2>2. ImageType(i)
        BY <1>1, <1>3, <1>4, <1>5, <2>1 DEF ImageType, IsProxy
  <2> QED
        BY <2>2 DEF i
<1> QED
      BY <1>3, <1>5 DEF Paths

LEMMA WithPathsIs ==
    ASSUME NEW c, NEW a, EncType(c, a), c # NoImage, c.open = {}, NEW port \in Ports,
           NEW x, IsProxy(x)
    PROVE  LET d == WithPaths(c, port, x) IN
           /\ EncType(d, a) /\ d.from = c.from /\ d.ports = c.ports /\ d.open = {port}
           /\ DOMAIN d.image = DOMAIN c.image \cup {port}
           /\ d.image[port].paths = Paths(x)
           /\ \A q \in DOMAIN c.image : q # port => d.image[q] = c.image[q]
<1> DEFINE d == WithPaths(c, port, x)
           i == Put(c.image, port, [paths |-> Paths(x)])
<1>1. DOMAIN c = {"from", "image", "ports", "open"}
      BY DEF EncType
<1>2. /\ DOMAIN d = {"from", "image", "ports", "open"} /\ d.from = c.from
      /\ d.ports = c.ports /\ d.open = {port} /\ d.image = i
      BY <1>1 DEF WithPaths
<1>3. /\ DOMAIN i = DOMAIN c.image \cup {port} /\ i[port] = [paths |-> Paths(x)]
      /\ \A q \in DOMAIN c.image : q # port => i[q] = c.image[q]
      BY DEF Put
<1>4. i[port].paths = Paths(x) /\ IsMap(i[port].paths, Seq(Hosts))
      BY <1>3, FieldsType
<1> HIDE DEF d, i
<1>5. EncType(d, a)
      BY <1>2, <1>3, <1>4 DEF EncType
<1> QED
      BY <1>2, <1>3, <1>4, <1>5 DEF d

LEMMA WithRestIs ==
    ASSUME NEW c, NEW a, EncType(c, a), c # NoImage, NEW port \in c.open,
           NEW x, IsProxy(x)
    PROVE  LET d == WithRest(c, port, x) IN
           /\ EncType(d, a) /\ d.from = c.from /\ d.ports = c.ports /\ d.open = {}
           /\ DOMAIN d.image = DOMAIN c.image /\ port \in DOMAIN c.image
           /\ c.open = {port}
           /\ d.image[port] = Fields(x, c.image[port].paths)
           /\ \A q \in DOMAIN c.image : q # port => d.image[q] = c.image[q]
<1> DEFINE d == WithRest(c, port, x)
           i == Put(c.image, port, Fields(x, c.image[port].paths))
<1>1. /\ DOMAIN c = {"from", "image", "ports", "open"} /\ port \in DOMAIN c.image
      /\ c.open = {port} /\ IsMap(c.image[port].paths, Seq(Hosts))
      BY DEF EncType
<1>2. /\ DOMAIN d = {"from", "image", "ports", "open"} /\ d.from = c.from
      /\ d.ports = c.ports /\ d.open = {} /\ d.image = i
      BY <1>1 DEF WithRest
<1>3. /\ DOMAIN i = DOMAIN c.image /\ i[port] = Fields(x, c.image[port].paths)
      /\ \A q \in DOMAIN c.image : q # port => i[q] = c.image[q]
      BY <1>1 DEF Put
<1>4. ImageType(i[port])
      BY <1>1, <1>3, FieldsType
<1> HIDE DEF d, i
<1>5. EncType(d, a)
      BY <1>1, <1>2, <1>3, <1>4 DEF EncType
<1> QED
      BY <1>1, <1>2, <1>3, <1>5 DEF d

LEMMA TableStepType ==
    ASSUME TypeInv, NEW n \in Nodes, NEW port \in Ports,
           \/ Closed(n, port) \/ Start(n, port)
           \/ \E p \in UrlPrefixes : ServeHTTP(n, port, p)
    PROVE  TypeInv'
<1> DEFINE t == table[n]
<1>1. IsTable(t) /\ EncType(enc[n], applied[n]) /\ OpenThere(enc[n], t)
      BY NodeFacts
<1>2. CASE Closed(n, port)
  <2> DEFINE c == IF enc[n] # NoImage /\ port \in enc[n].open
                  THEN WithRest(enc[n], port, t[port]) ELSE enc[n]
  <2>1. /\ Runs(n) /\ port \in DOMAIN t
        /\ Values(n, status[n], Del(t, port), applied[n], half[n], stuck[n],
                  starting[n], c, snap[n], base[n])
        BY <1>2, ClosedValues
  <2>2. IsTable(Del(t, port))
        BY <1>1, DelAt
  <2>3. IsProxy(t[port])
        BY <1>1, <2>1 DEF IsTable
  <2>4. EncType(c, applied[n])
        BY <1>1, <2>3, WithRestIs
  <2>5. CASE enc[n] # NoImage /\ port \in enc[n].open
    <3>1. c.open = {}
          BY <1>1, <2>3, <2>5, WithRestIs
    <3> QED
          BY <2>1, <2>2, <2>4, <3>1, TableType DEF OpenThere
  <2>6. CASE ~(enc[n] # NoImage /\ port \in enc[n].open)
    <3>1. OpenThere(c, Del(t, port))
          BY <1>1, <2>6 DEF OpenThere, Del
    <3> HIDE DEF c
    <3> QED
          BY <2>1, <2>2, <2>4, <3>1, TableType
  <2> QED
        BY <2>5, <2>6
<1>5. \A y : OpenThere(enc[n], Put(t, port, y))
      BY <1>1 DEF OpenThere, Put
<1>3. CASE Start(n, port)
  <2> DEFINE y == [t[port] EXCEPT !.available = TRUE]
             u == IF port \in DOMAIN t THEN Put(t, port, y) ELSE t
  <2>1. /\ Runs(n)
        /\ Values(n, status[n], u, applied[n], half[n], stuck[n], starting[n] \ {port},
                  enc[n], snap[n], base[n])
        BY <1>3, StartValues
  <2>2. CASE port \in DOMAIN t
    <3>1. IsProxy(t[port])
          BY <1>1, <2>2 DEF IsTable
    <3>2. IsProxy(y)
          BY <3>1, StartedSame DEF SameRegisters
    <3> HIDE DEF y
    <3>3. IsTable(Put(t, port, y))
          BY <1>1, <3>2, PutAt DEF Puts
    <3> QED
          BY <1>1, <1>5, <2>1, <2>2, <3>3, TableType
  <2>3. CASE port \notin DOMAIN t
        BY <1>1, <2>1, <2>3, TableType
  <2> QED
        BY <2>2, <2>3
<1>4. CASE \E p \in UrlPrefixes : ServeHTTP(n, port, p)
  <2>1. PICK p \in UrlPrefixes : ServeHTTP(n, port, p)
        BY <1>4
  <2> DEFINE y == Served(t[port], p, Locked(n, port))
  <2>2. Runs(n) /\ port \in DOMAIN t /\ PrefixExists(t[port], p) /\ NewTable(n, Put(t, port, y))
        BY <2>1, ServeValues
  <2>3. IsProxy(t[port])
        BY <1>1, <2>2 DEF IsTable
  <2>4. IsProxy(y)
        BY <2>2, <2>3, ServedSame DEF SameRegisters
  <2> HIDE DEF y
  <2>5. IsTable(Put(t, port, y))
        BY <1>1, <2>4, PutAt DEF Puts
  <2> QED
        BY <1>1, <1>5, <2>2, <2>5, TableType DEF NewTable
<1> QED
      BY <1>2, <1>3, <1>4

LEMMA EncoderType ==
    ASSUME TypeInv, NEW n \in Nodes,
           \/ Snapshot(n) \/ Persist(n) \/ PersistFails(n)
           \/ \E port \in Ports : EncodePaths(n, port) \/ EncodeRest(n, port)
    PROVE  TypeInv'
<1> DEFINE t == table[n]
           k == Len(log)
<1>1. /\ IsTable(t) /\ DOMAIN t \subseteq Ports /\ applied[n] \in Nat
      /\ applied[n] <= k /\ k \in Nat
      /\ EncType(enc[n], applied[n]) /\ SnapType(snap[n], k) /\ BaseType(base[n], applied[n], k)
      /\ half[n] \in EntryType \cup {NoEntry}
      /\ half[n] # NoEntry => /\ applied[n] + 1 <= k
                              /\ half[n].op = "ADD_HTTP_PROXY_PREFIX"
      /\ OpenThere(enc[n], t)
      BY NodeFacts DEF IsTable
<1>2. \A c : Runs(n) /\ EncType(c, applied[n]) /\ OpenThere(c, t) /\ NewEnc(n, c) => TypeInv'
      BY <1>1, TableType DEF NewEnc
<1>3. CASE Snapshot(n)
  <2> DEFINE c == [from |-> applied[n], image |-> <<>>, ports |-> DOMAIN t, open |-> {}]
  <2>1. Runs(n) /\ NewEnc(n, c)
        BY <1>3, SnapshotValues
  <2>2. /\ DOMAIN c = {"from", "image", "ports", "open"} /\ c.from = applied[n]
        /\ c.ports = DOMAIN t /\ DOMAIN c.image = {} /\ c.open = {}
        OBVIOUS
  <2> HIDE DEF c
  <2>3. EncType(c, applied[n]) /\ OpenThere(c, t)
        BY <1>1, <2>2 DEF EncType, OpenThere
  <2> QED
        BY <1>2, <2>1, <2>3
<1>4. CASE PersistFails(n)
  <2>1. Runs(n) /\ NewEnc(n, NoImage)
        BY <1>4, PersistFailsValues
  <2> QED
        BY <1>2, <2>1 DEF EncType, OpenThere
<1>5. ASSUME NEW port \in Ports, EncodePaths(n, port)
      PROVE  TypeInv'
  <2> DEFINE c == WithPaths(enc[n], port, t[port])
  <2>1. /\ Runs(n) /\ enc[n] # NoImage /\ enc[n].open = {} /\ port \in DOMAIN t
        /\ NewEnc(n, c)
        BY <1>5, EncodePathsValues
  <2>2. IsProxy(t[port])
        BY <1>1, <2>1 DEF IsTable
  <2>3. EncType(c, applied[n]) /\ c.open = {port}
        BY <1>1, <2>1, <2>2, WithPathsIs
  <2>4. OpenThere(c, t)
        BY <2>1, <2>3 DEF OpenThere
  <2> HIDE DEF c
  <2> QED
        BY <1>2, <2>1, <2>3, <2>4
<1>6. ASSUME NEW port \in Ports, EncodeRest(n, port)
      PROVE  TypeInv'
  <2> DEFINE c == WithRest(enc[n], port, t[port])
  <2>1. Runs(n) /\ enc[n] # NoImage /\ port \in enc[n].open /\ NewEnc(n, c)
        BY <1>6, EncodeRestValues
  <2>2. IsProxy(t[port])
        BY <1>1, <2>1 DEF IsTable, OpenThere
  <2>3. EncType(c, applied[n]) /\ c.open = {}
        BY <1>1, <2>1, <2>2, WithRestIs
  <2>4. OpenThere(c, t)
        BY <2>3 DEF OpenThere
  <2> HIDE DEF c
  <2> QED
        BY <1>2, <2>1, <2>3, <2>4
<1>7. ASSUME Persist(n)
      PROVE  TypeInv'
  <2> DEFINE a == enc[n].from
             i == [from |-> a, image |-> enc[n].image, to |-> HeldTo(n),
                   twice |-> Twice(n) \cup {log[j].op : j \in a + 1 .. HeldTo(n)}]
  <2>1. /\ Runs(n) /\ enc[n] # NoImage /\ enc[n].open = {}
        /\ Values(n, status[n], t, applied[n], half[n], stuck[n], starting[n], NoImage, i,
                  base[n])
        BY <1>7, PersistValues
  <2>2. HeldTo(n) \in Nat /\ applied[n] <= HeldTo(n) /\ HeldTo(n) <= k
        BY HeldIs
  <2>3. i.from = a /\ i.image = enc[n].image /\ i.to = HeldTo(n)
        OBVIOUS
  <2> HIDE DEF i
  <2>4. /\ a \in Nat /\ a <= applied[n] /\ DOMAIN enc[n].image \subseteq Ports
        /\ \A port \in DOMAIN enc[n].image : ImageType(enc[n].image[port])
        BY <1>1, <2>1 DEF EncType
  <2>5. a <= HeldTo(n)
        BY ONLY <1>1, <2>2, <2>4
  <2>6. SnapType(i, k)
        BY <2>2, <2>3, <2>4, <2>5 DEF SnapType
  <2>7. NodeType(k, status[n], t, applied[n], half[n], stuck[n], starting[n], NoImage, i,
                 base[n])
        BY <1>1, <2>1, <2>6 DEF NodeType, EncType, OpenThere, IdleType, Runs
  <2> QED
        BY <2>1, <2>7, TypeStep
<1> QED
      BY <1>3, <1>4, <1>5, <1>6, <1>7

LEMMA BootType ==
    ASSUME TypeInv, NEW n \in Nodes, Boot(n)
    PROVE  TypeInv'
<1> DEFINE t == table[n]
           k == Len(log)
<1>1. /\ IsTable(t) /\ applied[n] \in Nat /\ applied[n] <= k /\ k \in Nat
      /\ EncType(enc[n], applied[n]) /\ SnapType(snap[n], k) /\ BaseType(base[n], applied[n], k)
      /\ half[n] \in EntryType \cup {NoEntry}
      /\ half[n] # NoEntry => /\ applied[n] + 1 <= k
                              /\ half[n].op = "ADD_HTTP_PROXY_PREFIX"
      /\ OpenThere(enc[n], t)
      BY NodeFacts
<1>2. ~Runs(n) => half[n] = NoEntry /\ enc[n] = NoImage
      BY NodeFacts DEF IdleType, Runs
<1>3. \A st : st \in Running =>
        NodeType(k, st, t, applied[n], half[n], stuck[n], starting[n], enc[n], snap[n],
                 base[n])
      BY <1>1 DEF NodeType, IdleType
<1>4. ASSUME NEW st \in Running,
             Values(n, st, t, applied[n], half[n], stuck[n], starting[n], enc[n], snap[n],
                    base[n])
      PROVE  TypeInv'
      BY <1>3, <1>4, TypeStep
<1>5. CASE FirstStart(n) \/ Join(n) \/ RestartEmpty(n)
      BY <1>4, <1>5, FirstStartValues, JoinValues, RestartEmptyValues
<1>6. CASE AddConfig(n)
  <2> DEFINE u == ConfigTable(n, t)
  <2>1. PICK st \in Running :
          Values(n, st, u, applied[n], half[n], stuck[n], starting[n], enc[n], snap[n],
                 base[n])
        BY <1>6, AddConfigValues
  <2>2. IsTable(u) /\ DOMAIN u = DOMAIN Config[n] \cup DOMAIN t
        BY <1>1, ConfigTableType
  <2> HIDE DEF u
  <2>3. NodeType(k, st, u, applied[n], half[n], stuck[n], starting[n], enc[n], snap[n],
                 base[n])
        BY <1>1, <2>2 DEF NodeType, IdleType, OpenThere
  <2> QED
        BY <2>1, <2>3, TypeStep
<1>7. CASE Restart(n)
  <2> DEFINE c == snap[n]
             u == RestoredTable(c.image)
  <2>1. PICK st \in Running :
          /\ ~Runs(n) /\ c # NoImage /\ ~RestorePanics(c.image)
          /\ Values(n, st, u, c.from, half[n], stuck[n], DOMAIN c.image, enc[n], c, c)
        BY <1>7, RestartValues
  <2>2. IsTable(u)
        BY <1>1, <2>1, RestoredTableType
  <2> HIDE DEF u
  <2>3. c.from \in Nat /\ c.to \in Nat /\ c.from <= c.to /\ c.to <= k /\ c.from <= k
        BY <1>1, <2>1 DEF SnapType
  <2>4. half[n] = NoEntry /\ enc[n] = NoImage
        BY <1>2, <2>1
  <2>5. NodeType(k, st, u, c.from, half[n], stuck[n], DOMAIN c.image, enc[n], c, c)
        BY <1>1, <2>2, <2>3, <2>4 DEF NodeType, IdleType, OpenThere, EncType, BaseType
  <2> QED
        BY <2>1, <2>5, TypeStep
<1> QED
      BY <1>5, <1>6, <1>7, JoinFailsValues, EndedType DEF Boot

LEMMA LocalType ==
    ASSUME TypeInv, NEW n \in Nodes, Local(n)
    PROVE  TypeInv'
<1>1. CASE Kill(n)
      BY <1>1, KillValues, EndedType
<1> QED
      BY <1>1, ApplyType, ApplyHalfType, BootType, TableStepType, EncoderType DEF Local, Fsm

(* An entry is appended as the state manager has built it, but for `fresh'.*)
Fresh(n, c) == [c EXCEPT !.fresh = applied[n] = Len(log)]

LEMMA AppendValues ==
    ASSUME NEW n \in Nodes, NEW c \in Commands, AppendLogEntry(n, c)
    PROVE  LET e == Fresh(n, c) IN
           /\ e \in EntryType /\ e.hosts # <<>>
           /\ e.fresh = (applied[n] = Len(log))
           /\ e.op = c.op /\ e.port = c.port /\ e.prefix = c.prefix
           /\ status[n] = "up"
           /\ log' = Append(log, e) /\ ideal' = Append(ideal, IdealNext(Last(ideal), e))
           /\ UNCHANGED <<status, table, applied, half, stuck, starting, enc, snap, base>>
<1> DEFINE e == Fresh(n, c)
<1>1. c \in EntryType /\ c.hosts # <<>>
      BY ClusterAssumption
<1>2. (applied[n] = Len(log)) \in BOOLEAN
      OBVIOUS
<1>3. /\ e \in EntryType /\ e.hosts # <<>> /\ e.fresh = (applied[n] = Len(log))
      /\ e.op = c.op /\ e.port = c.port /\ e.prefix = c.prefix
      BY <1>1, <1>2 DEF EntryType, Fresh
<1>4. log' = Append(log, e) /\ ideal' = Append(ideal, IdealNext(Last(ideal), e))
      BY DEF AppendLogEntry, Fresh
<1> QED
      BY <1>3, <1>4 DEF AppendLogEntry, fsm, disk

LEMMA AppendType ==
    ASSUME TypeInv, NEW n \in Nodes, NEW c \in Commands, AppendLogEntry(n, c)
    PROVE  TypeInv'
<1> DEFINE e == Fresh(n, c)
<1>1. /\ e \in EntryType /\ e.hosts # <<>> /\ log' = Append(log, e)
      /\ UNCHANGED <<status, table, applied, half, stuck, starting, enc, snap, base>>
      BY AppendValues
<1> HIDE DEF e
<1>2. /\ log \in Seq(EntryType) /\ \A i \in 1 .. Len(log) : log[i].hosts # <<>>
      BY DEF TypeInv
<1>3. /\ log' \in Seq(EntryType) /\ Len(log') = Len(log) + 1 /\ Len(log) \in Nat
      /\ \A i \in 1 .. Len(log) : log'[i] = log[i] /\ log'[Len(log) + 1] = e
      BY <1>1, <1>2
<1>4. \A i \in 1 .. Len(log') : log'[i].hosts # <<>>
  <2>1. \A i \in 1 .. Len(log') : i \in 1 .. Len(log) \/ i = Len(log) + 1
        BY <1>3
  <2>2. log'[Len(log) + 1] = e
        BY <1>1, <1>2
  <2> QED
        BY <1>1, <1>2, <1>3, <2>1, <2>2
<1>5. NodeTypes'
  <2> SUFFICES ASSUME NEW m \in Nodes
               PROVE  NodeType(Len(log'), status'[m], table'[m], applied'[m], half'[m],
                               stuck'[m], starting'[m], enc'[m], snap'[m], base'[m])
      BY DEF NodeTypes
  <2>1. NodeType(Len(log), status[m], table[m], applied[m], half[m],
                 stuck[m], starting[m], enc[m], snap[m], base[m])
        BY DEF TypeInv, NodeTypes
  <2>2. NodeType(Len(log'), status[m], table[m], applied[m], half[m],
                 stuck[m], starting[m], enc[m], snap[m], base[m])
        BY <1>3, <2>1 DEF NodeType, SnapType, BaseType
  <2> QED
        BY <1>1, <2>2
<1>6. Domains'
      BY <1>1 DEF TypeInv, Domains
<1> QED
      BY <1>3, <1>4, <1>5, <1>6 DEF TypeInv

LEMMA TypeNext == TypeInv /\ [Next]_vars => TypeInv'
<1> SUFFICES ASSUME TypeInv, [Next]_vars
             PROVE  TypeInv'
    OBVIOUS
<1>1. CASE Next
      BY <1>1, NextSteps, AppendType, LocalType
<1>2. CASE UNCHANGED vars
      BY <1>2 DEF vars, TypeInv, Domains, NodeTypes
<1> QED
      BY <1>1, <1>2

(* A node joins, or founds the cluster; nothing else changes the servers.  *)
LEMMA MembersNext == Members /\ [Next]_vars => Members'
<1> SUFFICES ASSUME Members, [Next]_vars
             PROVE  Members'
    OBVIOUS
<1>1. ASSUME NEW n \in Nodes, Boot(n)
      PROVE  Members'
  <2>1. members' = members \/ members' = members \cup {n} \/ members' = {n}
        BY <1>1 DEF Boot, FirstStart, Join, JoinFails, AddVoter, AddConfig, RestartEmpty,
                    Restart, raftVars
  <2> QED
        BY <2>1 DEF Members
<1>2. ASSUME NEW n \in Nodes, Local(n), ~Boot(n)
      PROVE  members' = members
      BY <1>2 DEF Local, Fsm, Apply, ApplyHalf, Kill, Snapshot, Persist, PersistFails, Closed,
                  Start, EncodePaths, EncodeRest, ServeHTTP, raftVars
<1>3. ASSUME NEW n, NEW c, AppendLogEntry(n, c)
      PROVE  members' = members
      BY <1>3 DEF AppendLogEntry
<1>4. CASE Next
      BY <1>1, <1>2, <1>3, <1>4, NextSteps DEF Members
<1>5. CASE UNCHANGED vars
      BY <1>5 DEF vars, Members
<1> QED
      BY <1>4, <1>5

(* TypeOK of Cluster: the log has entries of the state manager's, the      *)
(* tables of every node have the types of the Go structures - every prefix *)
(* that is mapped has a balancer of a known algorithm and a static flag -, *)
(* and no node has applied more than there is, with requests, snapshots,   *)
(* kills and restarts from any image at any moment.                        *)
THEOREM TypeCorrect == Spec => []TypeOK
<1>1. Init => TypeInv /\ Members
      BY TypeInit DEF Init, Members
<1>2. TypeInv /\ Members /\ [Next]_vars => (TypeInv /\ Members)'
      BY TypeNext, MembersNext
<1> QED
      BY <1>1, <1>2, TypeInvImplies, PTL DEF Spec

-----------------------------------------------------------------------------
(* The invariant of a node, as a relation of what it has with the log.     *)

TwiceOf(b) == IF b = NoImage THEN {} ELSE b.twice

(* Between the two halves of a change of algorithm the prefix is not       *)
(* mapped, and the FSM goroutine has its hosts and its static flag.        *)
HalfAgrees(l, s, t, a, hf, ops) ==
    hf # NoEntry =>
      LET e == l[a + 1] IN
      /\ e.op = "CHG_LB" /\ SecondHalf(e, hf)
      /\ e.port \in ReplicatedIn(l) =>
           /\ e.port \in DOMAIN t /\ Mode(t, e.port, e.prefix) = ""
           /\ Flag(t, e.port, e.prefix) = IF hf.static = TRUE THEN "on" ELSE "off"
           /\ HostsOnce(ops) /\ SoundIn(l, s, e.port, a)
              => hf.hosts = HostsOf(s[a + 1], e.port, e.prefix)

(* A node that has never been restored has the balancers of the log, but   *)
(* for the lost read locks, so it panics where the log says.               *)
FirstAgrees(l, s, t, port, a) ==
    /\ SoundIn(l, s, port, a)
    /\ At(t, port).available = At(s[a + 1], port).available
    /\ \A p : Mode(t, port, p) # "" => Unlock(Bal(t, port, p)) = Unlock(Bal(s[a + 1], port, p))

ProxyAgrees(l, s, t, port, a, h, ops) ==
    /\ Agrees(l, s, t, port, a, h, ops) /\ FlagsAgree(s, t, port, h, ops)
    /\ At(t, port).shutdown # "taken"

NodeAgrees(l, s, t, a, hf, sg, b) ==
    /\ Passed(l, s, Held(a, hf, b))
    /\ \A port \in ReplicatedIn(l) :
         ProxyAgrees(l, s, t, port, a, Held(a, hf, b), TwiceOf(b))
    /\ HalfAgrees(l, s, t, a, hf, TwiceOf(b))
    /\ b = NoImage => /\ sg = {}
                      /\ \A port \in ReplicatedIn(l) : FirstAgrees(l, s, t, port, a)
    /\ b # NoImage => OpsIn(l, b.from, b.to) \subseteq b.twice

(* The last entry a node may hold effects of, before it handles the next   *)
(* entry, between the halves and after it.                                 *)
HeldStep(a, b, k) ==
    /\ \A hf : hf # NoEntry => Held(a, hf, b) = Held(a + 1, NoEntry, b)
    /\ Held(a + 1, NoEntry, b) \in Nat /\ a + 1 <= Held(a + 1, NoEntry, b)
    /\ Held(a + 1, NoEntry, b) <= k
    /\ \/ /\ b # NoImage /\ b.from \in Nat /\ b.to \in Nat
          /\ b.from <= a /\ a + 1 <= b.to
          /\ Held(a, NoEntry, b) = b.to /\ Held(a + 1, NoEntry, b) = b.to
       \/ /\ b # NoImage => b.to <= a
          /\ Held(a, NoEntry, b) = a /\ Held(a + 1, NoEntry, b) = a + 1

LEMMA HeldSteps ==
    ASSUME NEW a \in Nat, NEW b, NEW k \in Nat, BaseType(b, a, k), a + 1 <= k
    PROVE  HeldStep(a, b, k)
<1>1. CASE b = NoImage
      BY <1>1 DEF Held, Hold, HeldStep
<1>2. CASE b # NoImage
  <2>1. b.from \in Nat /\ b.to \in Nat /\ b.from <= a /\ b.to <= k
        BY <1>2 DEF BaseType
  <2>2. /\ \A hf : hf # NoEntry => Hold(a, hf) = a + 1
        /\ Hold(a, NoEntry) = a /\ Hold(a + 1, NoEntry) = a + 1
        BY DEF Hold
  <2>3. CASE a + 1 <= b.to
    <3>1. Held(a, NoEntry, b) = b.to /\ Held(a + 1, NoEntry, b) = b.to
          BY <1>2, <2>1, <2>2, <2>3 DEF Held
    <3>2. \A hf : hf # NoEntry => Held(a, hf, b) = b.to
          BY <1>2, <2>1, <2>2, <2>3 DEF Held
    <3> QED
          BY <1>2, <2>1, <2>3, <3>1, <3>2 DEF HeldStep
  <2>4. CASE b.to <= a
    <3>1. Held(a, NoEntry, b) = a /\ Held(a + 1, NoEntry, b) = a + 1
          BY <1>2, <2>1, <2>2, <2>4 DEF Held
    <3>2. \A hf : hf # NoEntry => Held(a, hf, b) = a + 1
          BY <1>2, <2>1, <2>2, <2>4 DEF Held
    <3> QED
          BY <1>2, <2>1, <2>4, <3>1, <3>2 DEF HeldStep
  <2> QED
        BY <2>1, <2>3, <2>4
<1> QED
      BY <1>1, <1>2

(* A table that agrees with the log at a, and with nothing after it.       *)
SameAs(l, s, t, port, a, ops) ==
    /\ port \in DOMAIN t <=> port \in DOMAIN s[a + 1]
    /\ \A p : Mode(t, port, p) = Mode(s[a + 1], port, p)
    /\ \A x : Banned(t, port, x) <=> Banned(s[a + 1], port, x)
    /\ \A p : Mode(t, port, p) # "" /\ HostsOnce(ops) /\ SoundIn(l, s, port, a)
              => HostsOf(t, port, p) = HostsOf(s[a + 1], port, p)

LEMMA Exact ==
    ASSUME NEW l, NEW s, NEW t, NEW port, NEW a \in Nat, NEW ops,
           Agrees(l, s, t, port, a, a, ops)
    PROVE  SameAs(l, s, t, port, a, ops)
<1>1. a + 1 .. a = {} /\ a .. a = {a}
      OBVIOUS
<1>2. port \in DOMAIN t <=> port \in DOMAIN s[a + 1]
      BY DEF Agrees, PortAgrees
<1>3. ASSUME NEW p
      PROVE  Mode(t, port, p) = Mode(s[a + 1], port, p)
  <2>1. ModeAgrees(l, s, Mode(t, port, p), port, p, a, a)
        BY DEF Agrees
  <2>2. NoReset(l, port, p, a, a)
        BY <1>1 DEF NoReset
  <2> QED
        BY <2>1, <2>2 DEF ModeAgrees
<1>4. ASSUME NEW x
      PROVE  Banned(t, port, x) <=> Banned(s[a + 1], port, x)
  <2>1. BanAgrees(l, s, Banned(t, port, x), port, x, a, a)
        BY DEF Agrees
  <2>2. NoBan(l, port, x, a, a)
        BY <1>1 DEF NoBan
  <2> QED
        BY <2>1, <2>2 DEF BanAgrees
<1>5. ASSUME NEW p, Mode(t, port, p) # "", HostsOnce(ops), SoundIn(l, s, port, a)
      PROVE  HostsOf(t, port, p) = HostsOf(s[a + 1], port, p)
  <2>1. HostsAgree(l, s, HostsOf(t, port, p), port, p, a, a)
        BY <1>5 DEF Agrees
  <2>2. NoReset(l, port, p, a, a)
        BY <1>1 DEF NoReset
  <2>3. PICK j \in a .. a : HostsOfMoment(l, s, HostsOf(t, port, p), port, p, a, j)
        BY <1>5, <2>1, <2>2 DEF HostsAgree
  <2> QED
        BY <1>1, <2>3 DEF HostsOfMoment
<1> QED
      BY <1>2, <1>3, <1>4, <1>5 DEF SameAs

LEMMA HistoryAt ==
    ASSUME NEW l, NEW s, IsHistory(l, s), NEW a \in Nat, a + 1 <= Len(l)
    PROVE  /\ l[a + 1] \in EntryType /\ l[a + 1].hosts # <<>> /\ Len(l) \in Nat
           /\ IsTable(s[a + 1]) /\ Unlocked(s[a + 1])
           /\ IsTable(s[a + 1 + 1]) /\ Unlocked(s[a + 1 + 1])
           /\ StepOf(s[a + 1], l[a + 1], s[a + 1 + 1])
<1>1. /\ l \in Seq(EntryType) /\ Len(s) = Len(l) + 1
      /\ \A i \in 1 .. Len(l) : l[i].hosts # <<>>
      /\ \A i \in 1 .. Len(s) : IsTable(s[i]) /\ Unlocked(s[i])
      /\ \A i \in 1 .. Len(l) : StepOf(s[i], l[i], s[i + 1])
      BY DEF IsHistory
<1>2. Len(l) \in Nat
      BY <1>1
<1>3. a + 1 \in 1 .. Len(l) /\ a + 1 \in 1 .. Len(s) /\ a + 1 + 1 \in 1 .. Len(s)
      BY ONLY <1>1, <1>2, a \in Nat, a + 1 <= Len(l)
<1>4. l[a + 1] \in EntryType
      BY <1>1, <1>3, ElementOfSeq
<1> QED
      BY <1>1, <1>2, <1>3, <1>4

(* An entry that the FSM handles without a panic has not ended a process   *)
(* that had the tables of the log.                                         *)
LEMMA ExactPasses ==
    ASSUME NEW l, NEW s, NEW t, NEW e, NEW a \in Nat, NEW ops,
           Agrees(l, s, t, e.port, a, a, ops), ~NilProxy(t, e),
           e.op = "CHG_LB" => Mode(t, e.port, e.prefix) # ""
    PROVE  NotEnded(s[a + 1], e)
<1>1. SameAs(l, s, t, e.port, a, ops)
      BY Exact
<1>2. /\ e.port \in DOMAIN t <=> e.port \in DOMAIN s[a + 1]
      /\ Mode(t, e.port, e.prefix) = Mode(s[a + 1], e.port, e.prefix)
      BY <1>1 DEF SameAs
<1> QED
      BY <1>2 DEF NotEnded, NilProxy

LEMMA Advances ==
    ASSUME NEW l, NEW s, IsHistory(l, s), Keeps(l, s), NEW a \in Nat, a + 1 <= Len(l),
           NEW b, BaseType(b, a, Len(l)), NEW e, e = l[a + 1],
           NEW t, IsTable(t), NEW sg, NodeAgrees(l, s, t, a, NoEntry, sg, b),
           NEW u, Moves(t, e, u), NEW h, h = Held(a + 1, NoEntry, b)
    PROVE  /\ Replays(l, s, a, h)
           /\ \A port \in ReplicatedIn(l) : /\ Agrees(l, s, t, port, a, h, TwiceOf(b))
                                            /\ FlagsAgree(s, u, port, h, TwiceOf(b))
<1> DEFINE ops == TwiceOf(b)
           k == Held(a, NoEntry, b)
<1>1. Len(l) \in Nat /\ StepOf(s[a + 1], e, s[a + 1 + 1])
      BY HistoryAt
<1>2. /\ Passed(l, s, k) /\ (b # NoImage => OpsIn(l, b.from, b.to) \subseteq ops)
      /\ \A port \in ReplicatedIn(l) : /\ Agrees(l, s, t, port, a, k, ops)
                                       /\ FlagsAgree(s, t, port, k, ops)
      BY DEF NodeAgrees, ProxyAgrees, TwiceOf
<1>3. /\ h \in Nat /\ a + 1 <= h /\ h <= Len(l)
      /\ \/ /\ b # NoImage /\ b.from \in Nat /\ b.to \in Nat
            /\ b.from <= a /\ a + 1 <= b.to /\ k = b.to /\ h = b.to
         \/ k = a /\ h = a + 1
  <2>1. HeldStep(a, b, Len(l))
        BY <1>1, HeldSteps
  <2> QED
        BY <2>1 DEF HeldStep
<1>4. ~NilProxy(t, e) /\ Passes(Bal(t, e.port, e.prefix), e)
      BY DEF Moves
<1> HIDE DEF ops, k
<1>5. CASE k = h
  <2>1. a + 1 \in b.from + 1 .. b.to /\ b # NoImage
        BY ONLY <1>3, <1>5, a \in Nat
  <2>2. e.op \in ops
        BY <1>2, <2>1 DEF OpsIn
  <2>3. \A port \in ReplicatedIn(l) : FlagsAgree(s, u, port, h, ops)
        BY <1>2, <1>5, <2>2, FlagsAgain
  <2>4. Replays(l, s, a, h)
        BY <1>2, <1>3, <1>5 DEF Replays
  <2> QED
        BY <1>2, <1>5, <2>3, <2>4 DEF ops
<1>6. CASE k = a /\ h = a + 1
  <2>1. e.op = "CHG_LB" => Mode(t, e.port, e.prefix) # ""
        BY <1>4 DEF Passes, Mode
  <2>2. ASSUME e.port \in ReplicatedIn(l)
        PROVE  NotEnded(s[a + 1], e)
    <3>1. Agrees(l, s, t, e.port, a, a, ops)
          BY <1>2, <1>6, <2>2
    <3> QED
          BY <1>4, <2>1, <3>1, ExactPasses
  <2>3. Passed(l, s, h)
    <3>1. \A i \in 1 .. h : i \in 1 .. a \/ i = a + 1
          BY <1>6
    <3> QED
          BY <1>2, <1>6, <2>2, <3>1 DEF Passed
  <2>4. Replays(l, s, a, h)
        BY <1>3, <2>3 DEF Replays
  <2>5. \A port \in ReplicatedIn(l) : Agrees(l, s, t, port, a, h, ops)
        BY <1>1, <1>2, <1>3, <1>6, ExtendAgrees
  <2>6. ASSUME NEW port \in ReplicatedIn(l), FlagsOnce(ops)
        PROVE  \A p : Flag(u, port, p) = Flag(s[h + 1], port, p)
    <3>1. Agrees(l, s, t, port, a, a, ops) /\ FlagsAgree(s, t, port, a, ops)
          BY <1>2, <1>6
    <3>0. SameAs(l, s, t, port, a, ops)
          BY <3>1, Exact
    <3>2. \A p : Mode(t, port, p) = Mode(s[a + 1], port, p)
          BY <3>0 DEF SameAs
    <3>3. \A p : Flag(t, port, p) = Flag(s[a + 1], port, p)
          BY <2>6, <3>1 DEF FlagsAgree
    <3>4. port = e.port => ~NilProxy(s[a + 1], e)
          BY <2>2 DEF NotEnded
    <3>5. \A p : Flag(u, port, p) = Flag(s[a + 1 + 1], port, p)
          BY ONLY <1>1, <3>2, <3>3, <3>4, Moves(t, e, u), FlagsNew
    <3> QED
          BY <1>6, <3>5
  <2>7. \A port \in ReplicatedIn(l) : FlagsAgree(s, u, port, h, ops)
        BY <2>6 DEF FlagsAgree
  <2> QED
        BY <2>4, <2>5, <2>7 DEF ops
<1> QED
      BY <1>3, <1>5, <1>6

-----------------------------------------------------------------------------
(* A node that has never been restored.                                    *)

LEMMA UnlockIs ==
    ASSUME NEW b \in Balancers, NEW c \in Balancers, b.rlocked = FALSE, c.rlocked = FALSE,
           Unlock(b) = Unlock(c)
    PROVE  b = c
<1>1. \A d \in Balancers : d.rlocked = FALSE => [d EXCEPT !.rlocked = FALSE] = d
      BY DEF Balancers
<1> QED
      BY <1>1 DEF Unlock

(* What its table t has in common with the one of the log, v.              *)
FirstSame(t, v, port) ==
    /\ At(t, port).available = At(v, port).available
    /\ \A p : Mode(t, port, p) # "" => Unlock(Bal(t, port, p)) = Unlock(Bal(v, port, p))

MovesTo(t, e, u, port) ==
    /\ At(u, port).available = IF port = e.port
                               THEN NewAvailable(At(t, port).available, e)
                               ELSE At(t, port).available
    /\ \A p : Bal(u, port, p) = IF port = e.port /\ p = e.prefix
                                THEN NewBal(Bal(t, port, p), e) ELSE Bal(t, port, p)

StepsTo(v, e, w, port) ==
    /\ At(w, port).available = IF port = e.port
                               THEN NewAvailable(At(v, port).available, e)
                               ELSE At(v, port).available
    /\ \A p : Bal(w, port, p) = IF port = e.port /\ p = e.prefix
                                THEN IdealBal(Bal(v, port, p), e) ELSE Bal(v, port, p)

LEMMA TableMoves ==
    ASSUME NEW t, NEW e, NEW u, Moves(t, e, u), NEW port
    PROVE  MovesTo(t, e, u, port)
<1>1. At(u, port).available = IF port = e.port
                              THEN NewAvailable(At(t, port).available, e)
                              ELSE At(t, port).available
      BY DEF Moves, Changes, Becomes
<1>2. \A p : Bal(u, port, p) = IF port = e.port /\ p = e.prefix
                               THEN NewBal(Bal(t, port, p), e) ELSE Bal(t, port, p)
      BY ONLY Moves(t, e, u), MovesRegisters
<1> QED
      BY <1>1, <1>2 DEF MovesTo

LEMMA TableSteps ==
    ASSUME NEW v, NEW e, NEW w, StepOf(v, e, w), NEW port,
           port = e.port => ~NilProxy(v, e) /\ Passes(Bal(v, e.port, e.prefix), e)
    PROVE  StepsTo(v, e, w, port)
<1>1. At(w, port).available = IF port = e.port
                              THEN NewAvailable(At(v, port).available, e)
                              ELSE At(v, port).available
      BY DEF StepOf, Becomes
<1>2. \A p : Bal(w, port, p) = IF port = e.port /\ p = e.prefix
                               THEN IdealBal(Bal(v, port, p), e) ELSE Bal(v, port, p)
      BY ONLY StepOf(v, e, w), StepRegisters,
              port = e.port => ~NilProxy(v, e) /\ Passes(Bal(v, e.port, e.prefix), e)
<1> QED
      BY <1>1, <1>2 DEF StepsTo

(* The balancer of the prefix of an entry.                                 *)
LEMMA FirstBal ==
    ASSUME NEW b, NEW c, NEW e, b.mode = c.mode, e.op # "CHG_LB", c.rlocked = FALSE,
           b.mode # "" => b \in Balancers /\ c \in Balancers /\ Unlock(b) = Unlock(c),
           Passes(b, e),
           e.op \in {"ADD_HTTP_PROXY_HOST", "RMV_HTTP_PROXY_HOST"} => b.rlocked = FALSE
    PROVE  /\ Passes(c, e)
           /\ NewBal(b, e).mode # "" => Unlock(NewBal(b, e)) = Unlock(IdealBal(c, e))
<1>1. CASE b.mode = ""
  <2>1. /\ e.op = "ADD_HTTP_PROXY_PREFIX" => e.algo \in factories
        /\ e.op \notin {"CHG_LB", "ADD_HTTP_PROXY_HOST", "RMV_HTTP_PROXY_HOST"}
        BY <1>1 DEF Passes
  <2>2. Passes(c, e)
        BY <2>1 DEF Passes
  <2>3. CASE e.op = "ADD_HTTP_PROXY_PREFIX"
    <3>1. NewBal(b, e) = Build(e.algo, e.hosts) /\ IdealBal(c, e) = Build(e.algo, e.hosts)
          BY <1>1, <2>3 DEF NewBal, IdealBal
    <3> QED
          BY <2>2, <3>1
  <2>4. CASE e.op = "RMV_HTTP_PROXY_PREFIX"
    <3>1. NewBal(b, e) = NilBalancer
          BY <2>4 DEF NewBal
    <3> QED
          BY <2>2, <3>1, NilFields
  <2>5. CASE e.op \notin {"ADD_HTTP_PROXY_PREFIX", "RMV_HTTP_PROXY_PREFIX"}
    <3>1. NewBal(b, e) = b
          BY <2>1, <2>5 DEF NewBal
    <3> QED
          BY <1>1, <2>2, <3>1
  <2> QED
        BY <2>3, <2>4, <2>5
<1>2. CASE b.mode # ""
  <2>1. b \in Balancers /\ c \in Balancers /\ Unlock(b) = Unlock(c)
        BY <1>2
  <2>2. CASE e.op \in {"ADD_HTTP_PROXY_HOST", "RMV_HTTP_PROXY_HOST"}
    <3>1. b = c
          BY <2>1, <2>2, UnlockIs
    <3>2. IdealBal(c, e) = NewBal(c, e)
          BY DEF IdealBal
    <3> QED
          BY <3>1, <3>2
  <2>3. CASE e.op \notin {"ADD_HTTP_PROXY_HOST", "RMV_HTTP_PROXY_HOST"}
    <3>1. Passes(c, e)
          BY <1>2, <2>3 DEF Passes
    <3>2. CASE e.op = "RMV_HTTP_PROXY_PREFIX"
      <4>1. NewBal(b, e) = NilBalancer
            BY <3>2 DEF NewBal
      <4> QED
            BY <3>1, <4>1, NilFields
    <3>3. CASE e.op # "RMV_HTTP_PROXY_PREFIX"
      <4>1. NewBal(b, e) = b /\ IdealBal(c, e) = c
            BY <1>2, <2>3, <3>3 DEF NewBal, IdealBal
      <4> QED
            BY <2>1, <3>1, <4>1
    <3> QED
          BY <3>2, <3>3
  <2> QED
        BY <2>2, <2>3
<1> QED
      BY <1>1, <1>2

LEMMA BalIn ==
    ASSUME NEW t, IsTable(t), NEW port, NEW p, Mode(t, port, p) # ""
    PROVE  Bal(t, port, p) \in Balancers
<1>1. IsProxy(At(t, port))
      BY AtProxy
<1> QED
      BY <1>1, BalType DEF Bal, Mode

FirstMoves(v, e, u, w, port) ==
    /\ port = e.port => Passes(Bal(v, e.port, e.prefix), e)
    /\ FirstSame(u, w, port)

LEMMA FirstAll ==
    ASSUME NEW t, IsTable(t), NEW e, e.op # "CHG_LB", NEW u, Moves(t, e, u),
           NEW v, IsTable(v), Unlocked(v), NEW w, StepOf(v, e, w), NEW port,
           port = e.port => ~NilProxy(v, e),
           \A p : Mode(t, port, p) = Mode(v, port, p), FirstSame(t, v, port)
    PROVE  FirstMoves(v, e, u, w, port)
<1> DEFINE b == Bal(t, e.port, e.prefix)
           c == Bal(v, e.port, e.prefix)
<1>1. /\ Passes(b, e)
      /\ e.op \in {"ADD_HTTP_PROXY_HOST", "RMV_HTTP_PROXY_HOST"} => b.rlocked = FALSE
      BY DEF Moves
<1>2. c.rlocked = FALSE
      BY DEF Unlocked
<1>3. ASSUME port = e.port
      PROVE  /\ Passes(c, e)
             /\ NewBal(b, e).mode # "" => Unlock(NewBal(b, e)) = Unlock(IdealBal(c, e))
  <2>1. b.mode = c.mode
        BY <1>3 DEF Mode
  <2>2. ASSUME b.mode # ""
        PROVE  b \in Balancers /\ c \in Balancers /\ Unlock(b) = Unlock(c)
    <3>1. Mode(t, e.port, e.prefix) # "" /\ Mode(v, e.port, e.prefix) # ""
          BY <2>1, <2>2 DEF Mode
    <3>2. b \in Balancers /\ c \in Balancers
          BY <3>1, BalIn
    <3> QED
          BY <1>3, <3>1, <3>2 DEF FirstSame
  <2> HIDE DEF b, c
  <2> QED
        BY <1>1, <1>2, <2>1, <2>2, FirstBal
<1>4. MovesTo(t, e, u, port) /\ StepsTo(v, e, w, port)
      BY <1>3, TableMoves, TableSteps
<1>5. At(u, port).available = At(w, port).available
      BY <1>4 DEF FirstSame, MovesTo, StepsTo
<1>6. ASSUME NEW p, Mode(u, port, p) # ""
      PROVE  Unlock(Bal(u, port, p)) = Unlock(Bal(w, port, p))
  <2>1. CASE port = e.port /\ p = e.prefix
    <3>1. Bal(u, port, p) = NewBal(b, e) /\ Bal(w, port, p) = IdealBal(c, e)
          BY <1>4, <2>1 DEF MovesTo, StepsTo
    <3> QED
          BY <1>3, <1>6, <2>1, <3>1 DEF Mode
  <2>2. CASE ~(port = e.port /\ p = e.prefix)
    <3>1. Bal(u, port, p) = Bal(t, port, p) /\ Bal(w, port, p) = Bal(v, port, p)
          BY <1>4, <2>2 DEF MovesTo, StepsTo
    <3> QED
          BY <1>6, <3>1 DEF Mode, FirstSame
  <2> QED
        BY <2>1, <2>2
<1> QED
      BY <1>3, <1>5, <1>6 DEF FirstSame, FirstMoves

LEMMA FirstHalf ==
    ASSUME NEW t, NEW e, e.op = "CHG_LB", NEW u, Moves(t, e, u), NEW v, NEW port,
           FirstSame(t, v, port)
    PROVE  FirstSame(u, v, port)
<1>1. MovesTo(t, e, u, port)
      BY TableMoves
<1>2. \A b : NewBal(b, e).mode = ""
      BY NilFields DEF NewBal
<1>3. At(u, port).available = At(t, port).available
      BY <1>1 DEF MovesTo, NewAvailable
<1>4. \A p : Mode(u, port, p) # "" => Bal(u, port, p) = Bal(t, port, p)
      BY <1>1, <1>2 DEF Mode, MovesTo
<1> QED
      BY <1>3, <1>4 DEF FirstSame, Mode

LEMMA FirstSecond ==
    ASSUME NEW t, NEW e, e.op = "CHG_LB", NEW r, SecondHalf(e, r), NEW u, Moves(t, r, u),
           NEW v, NEW w, StepOf(v, e, w), NEW port, FirstSame(t, v, port),
           port = e.port => /\ NotEnded(v, e) /\ Mode(t, e.port, e.prefix) = ""
                            /\ r.hosts = HostsOf(v, e.port, e.prefix)
    PROVE  FirstMoves(v, e, u, w, port)
<1>1. /\ r.op = "ADD_HTTP_PROXY_PREFIX" /\ r.port = e.port /\ r.prefix = e.prefix
      /\ r.algo = e.algo
      BY DEF SecondHalf
<1>2. port = e.port => ~NilProxy(v, e) /\ Passes(Bal(v, e.port, e.prefix), e)
      BY DEF NotEnded, Passes, Mode
<1>3. MovesTo(t, r, u, port) /\ StepsTo(v, e, w, port)
      BY <1>2, TableMoves, TableSteps
<1>4. At(u, port).available = At(w, port).available
  <2>1. At(u, port).available = At(t, port).available
        BY <1>1, <1>3 DEF MovesTo, NewAvailable
  <2>2. At(w, port).available = At(v, port).available
        BY <1>3 DEF StepsTo, NewAvailable
  <2> QED
        BY <2>1, <2>2 DEF FirstSame
<1>5. ASSUME NEW p, Mode(u, port, p) # ""
      PROVE  Unlock(Bal(u, port, p)) = Unlock(Bal(w, port, p))
  <2>1. CASE port = e.port /\ p = e.prefix
    <3>1. Bal(t, port, p).mode = "" /\ r.hosts = Bal(v, port, p).hosts
          BY <2>1 DEF Mode, HostsOf
    <3>2. Passes(Bal(t, port, p), r)
          BY <1>1, <2>1 DEF Moves
    <3>3. r.algo \in factories
          BY <1>1, <3>1, <3>2 DEF Passes
    <3>4. NewBal(Bal(t, port, p), r) = Build(r.algo, r.hosts)
          BY <1>1, <3>1 DEF NewBal
    <3>5. IdealBal(Bal(v, port, p), e) = Build(e.algo, r.hosts)
          BY <1>1, <3>1, <3>3 DEF IdealBal
    <3>6. Bal(u, port, p) = NewBal(Bal(t, port, p), r)
          BY <1>1, <1>3, <2>1 DEF MovesTo
    <3>7. Bal(w, port, p) = IdealBal(Bal(v, port, p), e)
          BY <1>3, <2>1 DEF StepsTo
    <3> QED
          BY <1>1, <3>4, <3>5, <3>6, <3>7
  <2>2. CASE ~(port = e.port /\ p = e.prefix)
    <3>1. Bal(u, port, p) = Bal(t, port, p) /\ Bal(w, port, p) = Bal(v, port, p)
          BY <1>1, <1>3, <2>2 DEF MovesTo, StepsTo
    <3> QED
          BY <1>5, <3>1 DEF Mode, FirstSame
  <2> QED
        BY <2>1, <2>2
<1> QED
      BY <1>2, <1>4, <1>5 DEF FirstSame, FirstMoves

-----------------------------------------------------------------------------
(* The FSM handles an entry.                                               *)

InLog(l, s, a, b) ==
    /\ IsHistory(l, s) /\ Keeps(l, s) /\ a \in Nat /\ a + 1 <= Len(l)
    /\ BaseType(b, a, Len(l))

(* A port the log decides of is never closed.                              *)
LEMMA NoClose ==
    ASSUME NEW l, NEW s, IsHistory(l, s), NEW a \in Nat, a + 1 <= Len(l),
           NEW e, e = l[a + 1], e.port \in ReplicatedIn(l)
    PROVE  e.op # "CLOSE"
<1>1. Len(l) \in Nat /\ l \in Seq(EntryType)
      BY HistoryAt DEF IsHistory
<1>2. a + 1 \in DOMAIN l
      BY <1>1
<1> QED
      BY <1>2 DEF ReplicatedIn

LEMMA ShutdownMoves ==
    ASSUME NEW t, NEW e, NEW u, Moves(t, e, u), NEW port, port = e.port => e.op # "CLOSE"
    PROVE  At(u, port).shutdown = At(t, port).shutdown
    BY DEF Moves, Changes, Becomes

(* One more entry of a sound log.                                          *)
LEMMA SoundMore ==
    ASSUME NEW l, NEW s, NEW a \in Nat, NEW e, e = l[a + 1], NEW port,
           SoundIn(l, s, port, a),
           port = e.port => /\ ~NilProxy(s[a + 1], e)
                            /\ Passes(Bal(s[a + 1], e.port, e.prefix), e)
    PROVE  SoundIn(l, s, port, a + 1)
<1>1. \A i \in 1 .. a + 1 : i \in 1 .. a \/ i = a + 1
      OBVIOUS
<1> QED
      BY <1>1 DEF SoundIn

LEMMA NodeAll ==
    ASSUME NEW l, NEW s, NEW a, NEW b, InLog(l, s, a, b), NEW e, e = l[a + 1],
           e.op # "CHG_LB", NEW t, IsTable(t), NEW sg,
           NodeAgrees(l, s, t, a, NoEntry, sg, b), NEW u, Moves(t, e, u)
    PROVE  NodeAgrees(l, s, u, a + 1, NoEntry, sg, b)
<1> DEFINE h == Held(a + 1, NoEntry, b)
           ops == TwiceOf(b)
<1>1. /\ IsHistory(l, s) /\ Keeps(l, s) /\ a \in Nat /\ a + 1 <= Len(l)
      /\ BaseType(b, a, Len(l))
      BY DEF InLog
<1> HIDE DEF h, ops
<1>2. /\ Replays(l, s, a, h)
      /\ \A port \in ReplicatedIn(l) : /\ Agrees(l, s, t, port, a, h, ops)
                                       /\ FlagsAgree(s, u, port, h, ops)
      BY <1>1, Advances DEF h, ops
<1>3. Passed(l, s, h)
      BY <1>2 DEF Replays
<1>4. /\ IsTable(s[a + 1]) /\ Unlocked(s[a + 1]) /\ StepOf(s[a + 1], e, s[a + 1 + 1])
      /\ e \in EntryType
      BY <1>1, HistoryAt
<1>5. e.port \in ReplicatedIn(l) => NotEnded(s[a + 1], e)
      BY <1>2, ReplayContext
<1>6. ASSUME NEW port \in ReplicatedIn(l)
      PROVE  ProxyAgrees(l, s, u, port, a + 1, h, ops)
  <2>1. Agrees(l, s, u, port, a + 1, h, ops)
        BY <1>2, ReplayAgrees
  <2>2. At(u, port).shutdown # "taken"
    <3>1. port = e.port => e.op # "CLOSE"
          BY <1>1, NoClose
    <3>2. At(u, port).shutdown = At(t, port).shutdown
          BY <3>1, ShutdownMoves
    <3> QED
          BY <3>2 DEF NodeAgrees, ProxyAgrees
  <2> QED
        BY <1>2, <2>1, <2>2 DEF ProxyAgrees
<1>7. ASSUME b = NoImage, NEW port \in ReplicatedIn(l)
      PROVE  FirstAgrees(l, s, u, port, a + 1)
  <2>1. /\ FirstAgrees(l, s, t, port, a)
        /\ Agrees(l, s, t, port, a, a, ops)
    <3>1. Held(a, NoEntry, b) = a
          BY <1>7 DEF Held, Hold
    <3> QED
          BY <1>7, <3>1 DEF NodeAgrees, ProxyAgrees, ops
  <2>2. \A p : Mode(t, port, p) = Mode(s[a + 1], port, p)
    <3>1. SameAs(l, s, t, port, a, ops)
          BY <1>1, <2>1, Exact
    <3> QED
          BY <3>1 DEF SameAs
  <2>3. port = e.port => ~NilProxy(s[a + 1], e)
        BY <1>5 DEF NotEnded
  <2>4. FirstSame(t, s[a + 1], port)
        BY <2>1 DEF FirstAgrees, FirstSame
  <2>7. FirstMoves(s[a + 1], e, u, s[a + 1 + 1], port)
        BY ONLY <1>4, <2>2, <2>3, <2>4, FirstAll, IsTable(t), e.op # "CHG_LB", Moves(t, e, u)
  <2>5. /\ port = e.port => Passes(Bal(s[a + 1], e.port, e.prefix), e)
        /\ FirstSame(u, s[a + 1 + 1], port)
        BY <2>7 DEF FirstMoves
  <2>6. SoundIn(l, s, port, a + 1)
        BY <1>1, <2>1, <2>3, <2>5, SoundMore DEF FirstAgrees
  <2> QED
        BY <2>5, <2>6 DEF FirstAgrees, FirstSame
<1> QED
      BY <1>3, <1>6, <1>7 DEF NodeAgrees, HalfAgrees, h, ops

(* The proxy of an entry for a port that the second half is not for.       *)
LEMMA OtherAgrees ==
    ASSUME NEW l, NEW s, NEW a, NEW h, Replays(l, s, a, h), NEW port, port # l[a + 1].port,
           NEW t, NEW ops, Agrees(l, s, t, port, a, h, ops)
    PROVE  Agrees(l, s, t, port, a + 1, h, ops)
<1> DEFINE e == l[a + 1]
<1>1. /\ StepOf(s[a + 1], e, s[a + 1 + 1])
      /\ \A x : NoBan(l, port, x, a, h)
           <=> NoBan(l, port, x, a + 1, h) /\ ~Bans(e, port, x)
      BY ReplayContext
<1>2. PortAgrees(s, t, port, a + 1, h)
      BY <1>1 DEF Agrees, PortAgrees, StepOf
<1>3. \A p : ModeAgrees(l, s, Mode(t, port, p), port, p, a + 1, h)
      BY ModeOther DEF Agrees
<1>4. \A p : Mode(t, port, p) # "" /\ HostsOnce(ops)
             => HostsAgree(l, s, HostsOf(t, port, p), port, p, a + 1, h)
      BY HostsOther DEF Agrees
<1>5. \A x : BanAgrees(l, s, Banned(t, port, x), port, x, a + 1, h)
      BY <1>1 DEF Agrees, BanAgrees, Bans
<1> QED
      BY <1>2, <1>3, <1>4, <1>5 DEF Agrees

(* The first half of a change of algorithm.                                *)
LEMMA HalfFlag ==
    ASSUME NEW x, IsProxy(x), NEW p, p \in DOMAIN x.static
    PROVE  FlagOf(x.static, p) = IF x.static[p] = TRUE THEN "on" ELSE "off"
<1>1. x.static[p] \in BOOLEAN
      BY DEF IsProxy, IsMap
<1> QED
      BY <1>1 DEF FlagOf

HalfOf(t, e, u, r) ==
    /\ SecondHalf(e, r) /\ r # NoEntry
    /\ e.port \in DOMAIN u /\ Mode(u, e.port, e.prefix) = ""
    /\ Mode(t, e.port, e.prefix) # ""
    /\ Flag(u, e.port, e.prefix) = IF r.static = TRUE THEN "on" ELSE "off"
    /\ r.hosts = HostsOf(t, e.port, e.prefix)

LEMMA HalfMade ==
    ASSUME NEW t, IsTable(t), NEW e \in EntryType, e.op = "CHG_LB", NEW u, Moves(t, e, u),
           NEW r, r = LbRest(t[e.port], e)
    PROVE  HalfOf(t, e, u, r)
<1> DEFINE x == At(t, e.port)
           y == At(u, e.port)
<1>1. /\ Passes(Bal(t, e.port, e.prefix), e) /\ Changes(x, e, y)
      /\ e.port \in DOMAIN t /\ e.port \in DOMAIN u
      BY DEF Moves, NilProxy
<1>2. IsProxy(x) /\ x = t[e.port]
      BY <1>1, AtProxy
<1>3. Mode(t, e.port, e.prefix) # ""
      BY <1>1 DEF Passes, Mode
<1>4. PrefixExists(x, e.prefix)
      BY <1>2, <1>3, BalType DEF Mode, Bal
<1> HIDE DEF x, y
<1>5. /\ r \in EntryType /\ r.op = "ADD_HTTP_PROXY_PREFIX"
      /\ r.port = e.port /\ r.prefix = e.prefix /\ r.algo = e.algo
      /\ r.hosts = BalOf(x, e.prefix).hosts
      /\ r.static = x.static[e.prefix] /\ e.prefix \in DOMAIN x.static
  <2>1. r = LbRest(x, e)
        BY <1>2
  <2>2. LET q == LbRest(x, e) IN
        /\ q \in EntryType /\ q.op = "ADD_HTTP_PROXY_PREFIX"
        /\ q.port = e.port /\ q.prefix = e.prefix /\ q.algo = e.algo
        /\ q.hosts = BalOf(x, e.prefix).hosts
        /\ q.static = x.static[e.prefix] /\ e.prefix \in DOMAIN x.static
        BY <1>1, <1>2, <1>4, LbStep
  <2> QED
        BY <2>1, <2>2
<1>6. r # NoEntry
      BY <1>5, ClusterAssumption
<1>7. Mode(u, e.port, e.prefix) = ""
  <2>1. BalOf(y, e.prefix) = NewBal(BalOf(x, e.prefix), e)
        BY <1>1 DEF Changes, Becomes
  <2>2. NewBal(BalOf(x, e.prefix), e) = NilBalancer
        BY DEF NewBal
  <2> QED
        BY <2>1, <2>2, NilFields DEF Mode, Bal, y
<1>8. Flag(u, e.port, e.prefix) = IF r.static = TRUE THEN "on" ELSE "off"
  <2>3. FlagsKept(t, u, e.port)
        BY FlagsSame
  <2>1. Flag(u, e.port, e.prefix) = Flag(t, e.port, e.prefix)
        BY <2>3 DEF FlagsKept
  <2>2. FlagOf(x.static, e.prefix) = IF r.static = TRUE THEN "on" ELSE "off"
        BY <1>2, <1>5, HalfFlag
  <2> QED
        BY <2>1, <2>2 DEF Flag, x
<1> QED
      BY <1>1, <1>3, <1>5, <1>6, <1>7, <1>8 DEF HalfOf, SecondHalf, HostsOf, Bal, x

LEMMA NodeFirst ==
    ASSUME NEW l, NEW s, NEW a, NEW b, InLog(l, s, a, b), NEW e, e = l[a + 1],
           e.op = "CHG_LB", NEW t, IsTable(t), NEW sg,
           NodeAgrees(l, s, t, a, NoEntry, sg, b), NEW u, Moves(t, e, u),
           NEW r, r = LbRest(t[e.port], e)
    PROVE  NodeAgrees(l, s, u, a, r, sg, b)
<1> DEFINE h == Held(a + 1, NoEntry, b)
           k == Held(a, NoEntry, b)
           ops == TwiceOf(b)
<1>1. /\ IsHistory(l, s) /\ Keeps(l, s) /\ a \in Nat /\ a + 1 <= Len(l)
      /\ BaseType(b, a, Len(l))
      BY DEF InLog
<1> HIDE DEF h, k, ops
<1>2. /\ Replays(l, s, a, h)
      /\ \A port \in ReplicatedIn(l) : /\ Agrees(l, s, t, port, a, h, ops)
                                       /\ FlagsAgree(s, u, port, h, ops)
      BY <1>1, Advances DEF h, ops
<1>3. e \in EntryType /\ Len(l) \in Nat
      BY <1>1, HistoryAt
<1>4. /\ SecondHalf(e, r) /\ r # NoEntry
      /\ e.port \in DOMAIN u /\ Mode(u, e.port, e.prefix) = ""
      /\ Mode(t, e.port, e.prefix) # ""
      /\ Flag(u, e.port, e.prefix) = IF r.static = TRUE THEN "on" ELSE "off"
      /\ r.hosts = HostsOf(t, e.port, e.prefix)
  <2>1. HalfOf(t, e, u, r)
        BY <1>3, HalfMade
  <2> QED
        BY <2>1 DEF HalfOf
<1>12. HeldStep(a, b, Len(l))
       BY <1>1, <1>3, HeldSteps
<1>5. Held(a, r, b) = h
      BY <1>4, <1>12 DEF h, HeldStep
<1>6. \/ /\ b # NoImage /\ b.from \in Nat /\ b.to \in Nat /\ b.from <= a /\ a + 1 <= b.to
      \/ k = a
      BY <1>12 DEF k, HeldStep
<1>7. ASSUME NEW port \in ReplicatedIn(l)
      PROVE  ProxyAgrees(l, s, u, port, a, h, ops)
  <2>1. Agrees(l, s, u, port, a, h, ops)
        BY <1>2, LbFirst
  <2>2. At(u, port).shutdown = At(t, port).shutdown
        BY ShutdownMoves
  <2>3. At(u, port).shutdown # "taken"
        BY <2>2 DEF NodeAgrees, ProxyAgrees
  <2> QED
        BY <1>2, <2>1, <2>3 DEF ProxyAgrees
<1>8. ASSUME e.port \in ReplicatedIn(l), HostsOnce(ops), SoundIn(l, s, e.port, a)
      PROVE  r.hosts = HostsOf(s[a + 1], e.port, e.prefix)
  <2>1. CASE b # NoImage /\ b.from \in Nat /\ b.to \in Nat /\ b.from <= a /\ a + 1 <= b.to
    <3>1. a + 1 \in b.from + 1 .. b.to
          BY ONLY <1>1, <2>1
    <3>2. e.op \in ops
          BY <2>1, <3>1 DEF NodeAgrees, OpsIn, TwiceOf, ops
    <3> QED
          BY <1>8, <3>2 DEF HostsOnce
  <2>2. CASE k = a
    <3>1. Agrees(l, s, t, e.port, a, a, ops)
          BY <1>8, <2>2 DEF NodeAgrees, ProxyAgrees, k, ops
    <3>2. SameAs(l, s, t, e.port, a, ops)
          BY <1>1, <3>1, Exact
    <3> QED
          BY <1>4, <1>8, <3>2 DEF SameAs
  <2> QED
        BY <1>6, <2>1, <2>2
<1>9. HalfAgrees(l, s, u, a, r, ops)
      BY <1>4, <1>8 DEF HalfAgrees
<1>10. ASSUME b = NoImage, NEW port \in ReplicatedIn(l)
       PROVE  FirstAgrees(l, s, u, port, a)
  <2>1. FirstAgrees(l, s, t, port, a)
        BY <1>10 DEF NodeAgrees
  <2>2. FirstSame(t, s[a + 1], port)
        BY <2>1 DEF FirstAgrees, FirstSame
  <2>3. FirstSame(u, s[a + 1], port)
        BY <2>2, FirstHalf
  <2> QED
        BY <2>1, <2>3 DEF FirstAgrees, FirstSame
<1>11. Passed(l, s, h)
       BY <1>2 DEF Replays
<1> QED
      BY <1>5, <1>7, <1>9, <1>10, <1>11 DEF NodeAgrees, ops

(* The second half, for a proxy that is there or for one that has gone.    *)
LEMMA NodeSecond ==
    ASSUME NEW l, NEW s, NEW a, NEW b, InLog(l, s, a, b), NEW r, r # NoEntry,
           NEW t, IsTable(t), NEW sg, NodeAgrees(l, s, t, a, r, sg, b),
           NEW u, IF r.port \in DOMAIN t THEN Moves(t, r, u) ELSE u = t
    PROVE  NodeAgrees(l, s, u, a + 1, NoEntry, sg, b)
<1> DEFINE e == l[a + 1]
           h == Held(a + 1, NoEntry, b)
           ops == TwiceOf(b)
<1>1. /\ IsHistory(l, s) /\ Keeps(l, s) /\ a \in Nat /\ a + 1 <= Len(l)
      /\ BaseType(b, a, Len(l))
      BY DEF InLog
<1>2. e \in EntryType /\ Len(l) \in Nat /\ StepOf(s[a + 1], e, s[a + 1 + 1])
      BY <1>1, HistoryAt
<1>3. Held(a, r, b) = h /\ h \in Nat /\ a + 1 <= h /\ h <= Len(l)
  <2>1. HeldStep(a, b, Len(l))
        BY <1>1, <1>2, HeldSteps
  <2> QED
        BY <2>1 DEF HeldStep
<1> HIDE DEF h, ops, e
<1>4. /\ Passed(l, s, h) /\ HalfAgrees(l, s, t, a, r, ops)
      /\ \A port \in ReplicatedIn(l) : ProxyAgrees(l, s, t, port, a, h, ops)
      BY <1>3 DEF NodeAgrees, ops
<1>5. Replays(l, s, a, h)
      BY <1>1, <1>3, <1>4 DEF Replays
<1>6. e.op = "CHG_LB" /\ SecondHalf(e, r) /\ r.port = e.port /\ r.prefix = e.prefix
      /\ r.op = "ADD_HTTP_PROXY_PREFIX"
      BY <1>4 DEF HalfAgrees, SecondHalf, e
<1>7. e.port \in ReplicatedIn(l) =>
        /\ e.port \in DOMAIN t /\ Mode(t, e.port, e.prefix) = ""
        /\ Flag(t, e.port, e.prefix) = IF r.static = TRUE THEN "on" ELSE "off"
        /\ HostsOnce(ops) /\ SoundIn(l, s, e.port, a)
           => r.hosts = HostsOf(s[a + 1], e.port, e.prefix)
      BY <1>4 DEF HalfAgrees, e
<1>8. ASSUME NEW port \in ReplicatedIn(l), Moves(t, r, u)
      PROVE  ProxyAgrees(l, s, u, port, a + 1, h, ops)
  <2>1. Agrees(l, s, t, port, a, h, ops) /\ FlagsAgree(s, t, port, h, ops)
        /\ At(t, port).shutdown # "taken"
        BY <1>4 DEF ProxyAgrees
  <2>2. /\ port = e.port => Mode(t, e.port, e.prefix) = ""
        /\ port = e.port /\ HostsOnce(ops) /\ SoundIn(l, s, port, a)
             => r.hosts = HostsOf(s[a + 1], e.port, e.prefix)
        BY <1>7
  <2>3. Agrees(l, s, u, port, a + 1, h, ops)
        BY <1>5, <1>6, <1>8, <2>1, <2>2, LbSecond DEF e
  <2>4. At(u, port).shutdown = At(t, port).shutdown
        BY <1>6, <1>8, ShutdownMoves
  <2>5. FlagsKept(t, u, port)
    <3>1. CASE port = e.port
          BY ONLY <1>6, <1>7, <1>8, <3>1, FlagsSame
    <3>2. CASE port # e.port
      <4>1. At(u, port) = At(t, port)
            BY <1>6, <1>8, <3>2 DEF Moves
      <4> QED
            BY <4>1 DEF Flag, FlagsKept
    <3> QED
          BY <3>1, <3>2
  <2>6. FlagsAgree(s, u, port, h, ops)
        BY <2>1, <2>5 DEF FlagsAgree, FlagsKept
  <2> QED
        BY <2>1, <2>3, <2>4, <2>6 DEF ProxyAgrees
<1>9. ASSUME NEW port \in ReplicatedIn(l), ~Moves(t, r, u)
      PROVE  port # e.port /\ ProxyAgrees(l, s, u, port, a + 1, h, ops)
  <2>1. r.port \notin DOMAIN t /\ u = t
        BY <1>9
  <2>2. port # e.port
        BY <1>6, <1>7, <2>1
  <2>3. Agrees(l, s, t, port, a, h, ops) /\ FlagsAgree(s, t, port, h, ops)
        /\ At(t, port).shutdown # "taken"
        BY <1>4 DEF ProxyAgrees
  <2>4. Agrees(l, s, t, port, a + 1, h, ops)
        BY <1>5, <2>2, <2>3, OtherAgrees DEF e
  <2> QED
        BY <2>1, <2>2, <2>3, <2>4 DEF ProxyAgrees
<1>10. ASSUME b = NoImage, NEW port \in ReplicatedIn(l)
       PROVE  FirstAgrees(l, s, u, port, a + 1)
  <2>1. FirstAgrees(l, s, t, port, a)
        BY <1>10 DEF NodeAgrees
  <2>2. FirstSame(t, s[a + 1], port) /\ SoundIn(l, s, port, a)
        BY <2>1 DEF FirstAgrees, FirstSame
  <2>3. HostsOnce(ops)
        BY <1>10 DEF HostsOnce, TwiceOf, ops
  <2>4. port = e.port => /\ NotEnded(s[a + 1], e) /\ Mode(t, e.port, e.prefix) = ""
                         /\ r.hosts = HostsOf(s[a + 1], e.port, e.prefix)
        BY <1>5, <1>7, <2>2, <2>3, ReplayContext DEF e
  <2>5. FirstMoves(s[a + 1], e, u, s[a + 1 + 1], port)
    <3>1. CASE Moves(t, r, u)
          BY ONLY <1>2, <1>6, <2>2, <2>4, <3>1, FirstSecond
    <3>2. CASE ~Moves(t, r, u)
      <4>1. port # e.port /\ u = t
            BY <1>9, <3>2
      <4>2. At(s[a + 1 + 1], port) = At(s[a + 1], port)
            BY <1>2, <4>1 DEF StepOf
      <4> QED
            BY <2>2, <4>1, <4>2 DEF FirstSame, Bal, FirstMoves
    <3> QED
          BY <3>1, <3>2
  <2>6. port = e.port => ~NilProxy(s[a + 1], e)
        BY <2>4 DEF NotEnded
  <2>8. /\ port = e.port => Passes(Bal(s[a + 1], e.port, e.prefix), e)
        /\ FirstSame(u, s[a + 1 + 1], port)
        BY <2>5 DEF FirstMoves
  <2>7. SoundIn(l, s, port, a + 1)
        BY <1>1, <2>2, <2>6, <2>8, SoundMore DEF e
  <2> QED
        BY <2>7, <2>8 DEF FirstAgrees, FirstSame
<1>11. \A port \in ReplicatedIn(l) : ProxyAgrees(l, s, u, port, a + 1, h, ops)
       BY <1>8, <1>9
<1> QED
      BY <1>4, <1>10, <1>11 DEF NodeAgrees, HalfAgrees, h, ops

-----------------------------------------------------------------------------
(* What is not the FSM's: requests, Start, the configuration file; a new   *)
(* process; a longer log.                                                  *)

Quiet(t, u, port, b) ==
    /\ port \in DOMAIN u <=> port \in DOMAIN t
    /\ SameRegisters(At(t, port), At(u, port))
    /\ b = NoImage => At(u, port).available = At(t, port).available

LEMMA QuietProxy ==
    ASSUME NEW l, NEW s, NEW t, NEW u, NEW port, NEW b, Quiet(t, u, port, b),
           NEW a, NEW h, NEW ops, ProxyAgrees(l, s, t, port, a, h, ops)
    PROVE  ProxyAgrees(l, s, u, port, a, h, ops)
<1>1. /\ \A p : Mode(u, port, p) = Mode(t, port, p) /\ HostsOf(u, port, p) = HostsOf(t, port, p)
      /\ \A p : Flag(u, port, p) = Flag(t, port, p)
      /\ \A x : Banned(u, port, x) = Banned(t, port, x)
      /\ At(u, port).shutdown = At(t, port).shutdown
      /\ port \in DOMAIN u <=> port \in DOMAIN t
      BY DEF Quiet, SameRegisters, Mode, HostsOf, Bal, Flag, Banned
<1>2. PortAgrees(s, u, port, a, h)
      BY <1>1 DEF ProxyAgrees, Agrees, PortAgrees
<1>3. \A p : ModeAgrees(l, s, Mode(u, port, p), port, p, a, h)
      BY <1>1 DEF ProxyAgrees, Agrees
<1>4. \A p : Mode(u, port, p) # "" /\ HostsOnce(ops)
             => HostsAgree(l, s, HostsOf(u, port, p), port, p, a, h)
      BY <1>1 DEF ProxyAgrees, Agrees
<1>5. \A x : BanAgrees(l, s, Banned(u, port, x), port, x, a, h)
      BY <1>1 DEF ProxyAgrees, Agrees
<1>6. FlagsAgree(s, u, port, h, ops)
      BY <1>1 DEF ProxyAgrees, FlagsAgree
<1> QED
      BY <1>1, <1>2, <1>3, <1>4, <1>5, <1>6 DEF ProxyAgrees, Agrees

LEMMA NodeQuiet ==
    ASSUME NEW l, NEW s, NEW t, NEW a, NEW hf, NEW sg, NEW b, NodeAgrees(l, s, t, a, hf, sg, b),
           NEW u, \A port \in ReplicatedIn(l) : Quiet(t, u, port, b), NEW sg2, sg2 \subseteq sg
    PROVE  NodeAgrees(l, s, u, a, hf, sg2, b)
<1>1. \A port \in ReplicatedIn(l) : ProxyAgrees(l, s, u, port, a, Held(a, hf, b), TwiceOf(b))
      BY QuietProxy DEF NodeAgrees
<1>2. HalfAgrees(l, s, u, a, hf, TwiceOf(b))
  <2>1. \A port \in ReplicatedIn(l) :
          /\ port \in DOMAIN t => port \in DOMAIN u
          /\ \A p : Mode(u, port, p) = Mode(t, port, p) /\ Flag(u, port, p) = Flag(t, port, p)
        BY DEF Quiet, SameRegisters, Mode, Bal, Flag
  <2>2. HalfAgrees(l, s, t, a, hf, TwiceOf(b))
        BY DEF NodeAgrees
  <2> QED
        BY <2>1, <2>2 DEF HalfAgrees
<1>3. ASSUME b = NoImage, NEW port \in ReplicatedIn(l)
      PROVE  FirstAgrees(l, s, u, port, a)
  <2>1. FirstAgrees(l, s, t, port, a) /\ Quiet(t, u, port, b)
        BY <1>3 DEF NodeAgrees
  <2>2. /\ At(u, port).available = At(t, port).available
        /\ \A p : Mode(u, port, p) = Mode(t, port, p)
                  /\ Unlock(Bal(u, port, p)) = Unlock(Bal(t, port, p))
        BY <1>3, <2>1 DEF Quiet, SameRegisters, Mode, Bal
  <2> QED
        BY <2>1, <2>2 DEF FirstAgrees
<1> QED
      BY <1>1, <1>2, <1>3 DEF NodeAgrees

(* A process that has ended, or is new.                                    *)
LEMMA NodeEmpty ==
    ASSUME NEW l, NEW s, IsHistory(l, s)
    PROVE  NodeAgrees(l, s, <<>>, 0, NoEntry, {}, NoImage)
<1>1. s[0 + 1] = <<>> /\ DOMAIN <<>> = {} /\ Held(0, NoEntry, NoImage) = 0
      BY EmptyTable DEF IsHistory, Held, Hold
<1>2. 0 + 1 .. 0 = {} /\ 1 .. 0 = {} /\ 0 \in 0 .. 0
      OBVIOUS
<1>3. \A port : At(<<>>, port) = NewHttpReverseProxy
      BY <1>1 DEF At, Get
<1>4. \A port, p : Mode(<<>>, port, p) = ""
      BY <1>3, NewProxy, NilFields DEF Mode, Bal
<1>5. \A port, ops : ProxyAgrees(l, s, <<>>, port, 0, 0, ops)
  <2> TAKE port, ops
  <2>1. PortAgrees(s, <<>>, port, 0, 0)
        BY <1>1 DEF PortAgrees
  <2>2. \A p : ModeAgrees(l, s, Mode(<<>>, port, p), port, p, 0, 0)
        BY <1>1, <1>4 DEF ModeAgrees
  <2>3. \A x : BanAgrees(l, s, Banned(<<>>, port, x), port, x, 0, 0)
        BY <1>1 DEF BanAgrees
  <2>4. FlagsAgree(s, <<>>, port, 0, ops)
        BY <1>1 DEF FlagsAgree
  <2>5. At(<<>>, port).shutdown # "taken"
        BY <1>3, NewProxy
  <2> QED
        BY <1>4, <2>1, <2>2, <2>3, <2>4, <2>5 DEF ProxyAgrees, Agrees
<1>6. Passed(l, s, 0)
      BY <1>2 DEF Passed
<1>7. \A port : FirstAgrees(l, s, <<>>, port, 0)
  <2>1. \A port : SoundIn(l, s, port, 0)
        BY <1>2 DEF SoundIn
  <2> QED
        BY <1>1, <1>4, <2>1 DEF FirstAgrees
<1> QED
      BY <1>1, <1>5, <1>6, <1>7 DEF NodeAgrees, HalfAgrees

(* The log has grown.                                                      *)
Grows(l, s, l2, s2) ==
    Begins(l, s, l2, s2) /\ ReplicatedIn(l2) \subseteq ReplicatedIn(l)

LEMMA TablesSame ==
    ASSUME NEW l, NEW s, NEW l2, NEW s2, Begins(l, s, l2, s2), NEW k \in Nat, k <= Len(l)
    PROVE  /\ \A j \in 1 .. k : l2[j] = l[j] /\ s2[j] = s[j]
           /\ \A j \in 0 .. k : s2[j + 1] = s[j + 1]
<1>1. Len(l) \in Nat
      BY DEF Begins
<1>2. \A j \in 0 .. k : j \in 0 .. Len(l)
      BY <1>1
<1>3. \A j \in 0 .. k : s2[j + 1] = s[j + 1]
      BY <1>2 DEF Begins
<1>4. ASSUME NEW j \in 1 .. k
      PROVE  l2[j] = l[j] /\ s2[j] = s[j]
  <2>1. j \in 1 .. Len(l) /\ j - 1 \in 0 .. k /\ (j - 1) + 1 = j
        BY <1>1
  <2>2. s2[(j - 1) + 1] = s[(j - 1) + 1]
        BY <1>3, <2>1
  <2> QED
        BY <2>1, <2>2 DEF Begins
<1> QED
      BY <1>3, <1>4

LEMMA SoundSame ==
    ASSUME NEW l, NEW s, NEW l2, NEW s2, Begins(l, s, l2, s2), NEW k \in Nat, k <= Len(l),
           NEW port
    PROVE  SoundIn(l2, s2, port, k) <=> SoundIn(l, s, port, k)
    BY TablesSame DEF SoundIn

LEMMA PassedSame ==
    ASSUME NEW l, NEW s, NEW l2, NEW s2, Grows(l, s, l2, s2), NEW k \in Nat, k <= Len(l),
           Passed(l, s, k)
    PROVE  Passed(l2, s2, k)
<1>1. \A j \in 1 .. k : l2[j] = l[j] /\ s2[j] = s[j]
      BY TablesSame DEF Grows
<1> QED
      BY <1>1 DEF Grows, Passed

LEMMA HostsSame ==
    ASSUME NEW l, NEW s, NEW l2, NEW s2, Begins(l, s, l2, s2),
           NEW a \in Nat, NEW h \in Nat, h <= Len(l), NEW hs, NEW port, NEW p,
           HostsAgree(l, s, hs, port, p, a, h)
    PROVE  HostsAgree(l2, s2, hs, port, p, a, h)
<1> SUFFICES ASSUME NoReset(l2, port, p, a, h), SoundIn(l2, s2, port, h)
             PROVE  \E j \in a .. h : HostsOfMoment(l2, s2, hs, port, p, a, j)
    BY DEF HostsAgree
<1>1. NoReset(l, port, p, a, h) /\ SoundIn(l, s, port, h)
      BY WindowSame, SoundSame
<1>2. PICK j \in a .. h : HostsOfMoment(l, s, hs, port, p, a, j)
      BY <1>1 DEF HostsAgree
<1>3. j \in Nat /\ j <= Len(l) /\ j \in 0 .. h
  <2>1. Len(l) \in Nat
        BY DEF Begins
  <2> QED
        BY ONLY <2>1, j \in a .. h, a \in Nat, h \in Nat, h <= Len(l)
<1>4. NoUnlist(l2, port, p, a, j) <=> NoUnlist(l, port, p, a, j)
      BY <1>3, WindowSame
<1>5. s2[j + 1] = s[j + 1]
      BY <1>3, TablesSame
<1>6. HostsOfMoment(l2, s2, hs, port, p, a, j)
      BY <1>2, <1>4, <1>5 DEF HostsOfMoment
<1> QED
      BY <1>6

LEMMA BanSame ==
    ASSUME NEW l, NEW s, NEW l2, NEW s2, Begins(l, s, l2, s2),
           NEW a \in Nat, NEW h \in Nat, h <= Len(l), NEW banned, NEW port, NEW x,
           BanAgrees(l, s, banned, port, x, a, h)
    PROVE  BanAgrees(l2, s2, banned, port, x, a, h)
<1>1. NoBan(l2, port, x, a, h) <=> NoBan(l, port, x, a, h)
      BY WindowSame
<1>2. h \in 0 .. h
      OBVIOUS
<1>3. s2[h + 1] = s[h + 1]
      BY <1>2, TablesSame
<1> QED
      BY <1>1, <1>3 DEF BanAgrees

LEMMA ProxySame ==
    ASSUME NEW l, NEW s, NEW l2, NEW s2, Begins(l, s, l2, s2),
           NEW a \in Nat, NEW h \in Nat, a <= h, h <= Len(l), NEW t, NEW port, NEW ops,
           ProxyAgrees(l, s, t, port, a, h, ops)
    PROVE  ProxyAgrees(l2, s2, t, port, a, h, ops)
<1>1. a \in 0 .. h /\ h \in 0 .. h
      OBVIOUS
<1>2. s2[a + 1] = s[a + 1] /\ s2[h + 1] = s[h + 1]
      BY <1>1, TablesSame
<1>3. PortAgrees(s2, t, port, a, h)
      BY <1>2 DEF ProxyAgrees, Agrees, PortAgrees
<1>4. ASSUME NEW p
      PROVE  ModeAgrees(l2, s2, Mode(t, port, p), port, p, a, h)
  <2>1. ModeAgrees(l, s, Mode(t, port, p), port, p, a, h)
        BY DEF ProxyAgrees, Agrees
  <2>2. NoReset(l2, port, p, a, h) <=> NoReset(l, port, p, a, h)
        BY WindowSame
  <2> QED
        BY <1>2, <2>1, <2>2 DEF ModeAgrees
<1>5. ASSUME NEW p, Mode(t, port, p) # "", HostsOnce(ops)
      PROVE  HostsAgree(l2, s2, HostsOf(t, port, p), port, p, a, h)
  <2>1. HostsAgree(l, s, HostsOf(t, port, p), port, p, a, h)
        BY <1>5 DEF ProxyAgrees, Agrees
  <2> QED
        BY <2>1, HostsSame
<1>6. ASSUME NEW x
      PROVE  BanAgrees(l2, s2, Banned(t, port, x), port, x, a, h)
  <2>1. BanAgrees(l, s, Banned(t, port, x), port, x, a, h)
        BY DEF ProxyAgrees, Agrees
  <2> QED
        BY <2>1, BanSame
<1>7. FlagsAgree(s2, t, port, h, ops)
      BY <1>2 DEF ProxyAgrees, FlagsAgree
<1> QED
      BY <1>3, <1>4, <1>5, <1>6, <1>7 DEF ProxyAgrees, Agrees

LEMMA NodeSame ==
    ASSUME NEW l, NEW s, NEW l2, NEW s2, Grows(l, s, l2, s2),
           NEW a \in Nat, a <= Len(l), NEW hf, hf # NoEntry => a + 1 <= Len(l),
           NEW b, BaseType(b, a, Len(l)), NEW t, NEW sg, NodeAgrees(l, s, t, a, hf, sg, b)
    PROVE  NodeAgrees(l2, s2, t, a, hf, sg, b)
<1> DEFINE h == Held(a, hf, b)
           ops == TwiceOf(b)
<1>1. Begins(l, s, l2, s2) /\ ReplicatedIn(l2) \subseteq ReplicatedIn(l) /\ Len(l) \in Nat
      BY DEF Grows, Begins
<1>2. h \in Nat /\ a <= h /\ h <= Len(l)
      BY <1>1 DEF Held, Hold, BaseType
<1>3. /\ Passed(l, s, h) /\ \A port \in ReplicatedIn(l) : ProxyAgrees(l, s, t, port, a, h, ops)
      /\ HalfAgrees(l, s, t, a, hf, ops)
      BY DEF NodeAgrees
<1> HIDE DEF h, ops
<1>4. Passed(l2, s2, h)
      BY <1>2, <1>3, PassedSame
<1>5. \A port \in ReplicatedIn(l2) : ProxyAgrees(l2, s2, t, port, a, h, ops)
      BY <1>1, <1>2, <1>3, ProxySame
<1>6. HalfAgrees(l2, s2, t, a, hf, ops)
  <2> SUFFICES ASSUME hf # NoEntry
               PROVE  HalfAgrees(l2, s2, t, a, hf, ops)
      BY DEF HalfAgrees
  <2>1. a + 1 \in 1 .. Len(l) /\ a \in 0 .. Len(l) /\ Len(l) <= Len(l)
        BY <1>1
  <2>2. l2[a + 1] = l[a + 1] /\ s2[a + 1] = s[a + 1]
        BY <1>1, <2>1, TablesSame
  <2>3. \A port : SoundIn(l2, s2, port, a) <=> SoundIn(l, s, port, a)
        BY <1>1, SoundSame
  <2> QED
        BY <1>1, <1>3, <2>2, <2>3 DEF HalfAgrees
<1>7. ASSUME b = NoImage, NEW port \in ReplicatedIn(l2)
      PROVE  FirstAgrees(l2, s2, t, port, a)
  <2>1. FirstAgrees(l, s, t, port, a)
        BY <1>1, <1>7 DEF NodeAgrees
  <2>2. a \in 0 .. a
        OBVIOUS
  <2>3. s2[a + 1] = s[a + 1]
        BY <1>1, <2>2, TablesSame
  <2>4. SoundIn(l2, s2, port, a) <=> SoundIn(l, s, port, a)
        BY <1>1, SoundSame
  <2> QED
        BY <2>1, <2>3, <2>4 DEF FirstAgrees
<1>8. ASSUME b # NoImage
      PROVE  OpsIn(l2, b.from, b.to) \subseteq b.twice
  <2>1. b.from \in Nat /\ b.to \in Nat /\ b.to <= Len(l)
        BY <1>8 DEF BaseType
  <2>2. OpsIn(l2, b.from, b.to) = OpsIn(l, b.from, b.to)
        BY <1>1, <2>1, WindowSame
  <2> QED
        BY <1>8, <2>2 DEF NodeAgrees
<1>9. b = NoImage => sg = {}
      BY DEF NodeAgrees
<1> QED
      BY <1>4, <1>5, <1>6, <1>7, <1>8, <1>9 DEF NodeAgrees, h, ops

-----------------------------------------------------------------------------
(* Images. What an encoder has read of a proxy, at some moment after the   *)
(* first a entries, when the table had effects of at most h.               *)

PathsAgree(l, s, paths, port, a, h, ops) ==
    /\ \A p : p \notin DOMAIN paths /\ NoReset(l, port, p, a, h)
              => Mode(s[a + 1], port, p) = ""
    /\ \A p \in DOMAIN paths :
         HostsOnce(ops) => HostsAgree(l, s, paths[p], port, p, a, h)

RestAgrees(l, s, i, port, a, h, ops) ==
    /\ \A p \in DOMAIN i.algo :
         NoReset(l, port, p, a, h) => Mode(s[h + 1], port, p) = i.algo[p]
    /\ FlagsOnce(ops) => \A p : FlagOf(i.static, p) = Flag(s[h + 1], port, p)
    /\ \A x : BanAgrees(l, s, x \in i.acl, port, x, a, h)

PortEncoded(l, s, t, port, a, h, ops, c) ==
    /\ port \in c.ports \cup DOMAIN c.image => port \in DOMAIN t
    /\ port \notin c.ports => port \notin DOMAIN s[a + 1]
    /\ port \in DOMAIN c.image => PathsAgree(l, s, c.image[port].paths, port, a, h, ops)
    /\ port \in DOMAIN c.image \ c.open => RestAgrees(l, s, c.image[port], port, a, h, ops)

EncAgrees(l, s, t, h, tw, c) ==
    c # NoImage =>
      \A port \in ReplicatedIn(l) :
        PortEncoded(l, s, t, port, c.from, h, tw \cup OpsIn(l, c.from, h), c)

PortSaved(l, s, port, i) ==
    /\ port \in DOMAIN i.image => port \in DOMAIN s[i.to + 1]
    /\ port \notin DOMAIN i.image => port \notin DOMAIN s[i.from + 1]
    /\ port \in DOMAIN i.image
       => /\ PathsAgree(l, s, i.image[port].paths, port, i.from, i.to, i.twice)
          /\ RestAgrees(l, s, i.image[port], port, i.from, i.to, i.twice)

SnapAgrees(l, s, i) ==
    i # NoImage =>
      /\ Passed(l, s, i.to) /\ OpsIn(l, i.from, i.to) \subseteq i.twice
      /\ \A port \in ReplicatedIn(l) : PortSaved(l, s, port, i)

(* The table may hold the effects of more entries.                         *)
LEMMA OpsGrow ==
    ASSUME NEW l, NEW a \in Nat, NEW h \in Nat, NEW h2 \in Nat, a <= h, h <= h2, NEW tw
    PROVE  LET ops == tw \cup OpsIn(l, a, h)
               ops2 == tw \cup OpsIn(l, a, h2) IN
           /\ HostsOnce(ops2) => HostsOnce(ops)
           /\ FlagsOnce(ops2) => FlagsOnce(ops) /\ \A port, p : NoFlag(l, port, p, h, h2)
           /\ \A port, p : NoReset(l, port, p, a, h2)
                           => NoReset(l, port, p, a, h) /\ NoReset(l, port, p, h, h2)
           /\ \A port, x : NoBan(l, port, x, a, h2)
                           => NoBan(l, port, x, a, h) /\ NoBan(l, port, x, h, h2)
<1>1. a + 1 .. h \subseteq a + 1 .. h2 /\ h + 1 .. h2 \subseteq a + 1 .. h2
      OBVIOUS
<1>2. OpsIn(l, a, h) \subseteq OpsIn(l, a, h2)
      BY <1>1 DEF OpsIn
<1>3. FlagsOnce(tw \cup OpsIn(l, a, h2)) => \A port, p : NoFlag(l, port, p, h, h2)
      BY <1>1 DEF FlagsOnce, OpsIn, NoFlag, Flags
<1> QED
      BY <1>1, <1>2, <1>3 DEF HostsOnce, FlagsOnce, NoReset, NoBan

LEMMA SoundLess ==
    ASSUME NEW l, NEW s, NEW port, NEW h \in Nat, NEW h2 \in Nat, h <= h2,
           SoundIn(l, s, port, h2)
    PROVE  SoundIn(l, s, port, h)
<1>1. 1 .. h \subseteq 1 .. h2
      OBVIOUS
<1> QED
      BY <1>1 DEF SoundIn

LEMMA PathsGrow ==
    ASSUME NEW l, NEW s, NEW a \in Nat, NEW h \in Nat, NEW h2 \in Nat, a <= h, h <= h2,
           NEW tw, NEW paths, NEW port,
           PathsAgree(l, s, paths, port, a, h, tw \cup OpsIn(l, a, h))
    PROVE  PathsAgree(l, s, paths, port, a, h2, tw \cup OpsIn(l, a, h2))
<1> DEFINE ops == tw \cup OpsIn(l, a, h)
           ops2 == tw \cup OpsIn(l, a, h2)
<1>1. /\ HostsOnce(ops2) => HostsOnce(ops)
      /\ \A p : NoReset(l, port, p, a, h2) => NoReset(l, port, p, a, h)
      BY OpsGrow
<1>2. PathsAgree(l, s, paths, port, a, h, ops)
      OBVIOUS
<1>3. SoundIn(l, s, port, h2) => SoundIn(l, s, port, h)
      BY SoundLess
<1>4. a .. h \subseteq a .. h2
      OBVIOUS
<1> HIDE DEF ops, ops2
<1>5. \A p : p \notin DOMAIN paths /\ NoReset(l, port, p, a, h2)
             => Mode(s[a + 1], port, p) = ""
      BY <1>1, <1>2 DEF PathsAgree
<1>6. ASSUME NEW p \in DOMAIN paths, HostsOnce(ops2)
      PROVE  HostsAgree(l, s, paths[p], port, p, a, h2)
  <2>1. HostsAgree(l, s, paths[p], port, p, a, h)
        BY <1>1, <1>2, <1>6 DEF PathsAgree
  <2> QED
        BY <1>1, <1>3, <1>4, <2>1 DEF HostsAgree
<1>7. PathsAgree(l, s, paths, port, a, h2, ops2)
      BY <1>5, <1>6 DEF PathsAgree
<1> QED
      BY <1>7 DEF ops2

LEMMA RestGrow ==
    ASSUME NEW l, NEW s, NEW a \in Nat, NEW h \in Nat, NEW h2 \in Nat, a <= h, h <= h2,
           Kept(l, s, h, h2), NEW tw, NEW i, ImageType(i), NEW port,
           RestAgrees(l, s, i, port, a, h, tw \cup OpsIn(l, a, h))
    PROVE  RestAgrees(l, s, i, port, a, h2, tw \cup OpsIn(l, a, h2))
<1> DEFINE ops == tw \cup OpsIn(l, a, h)
           ops2 == tw \cup OpsIn(l, a, h2)
<1>1. /\ FlagsOnce(ops2) => FlagsOnce(ops) /\ \A p : NoFlag(l, port, p, h, h2)
      /\ \A p : NoReset(l, port, p, a, h2)
                => NoReset(l, port, p, a, h) /\ NoReset(l, port, p, h, h2)
      /\ \A x : NoBan(l, port, x, a, h2) => NoBan(l, port, x, a, h) /\ NoBan(l, port, x, h, h2)
      BY OpsGrow
<1>2. RestAgrees(l, s, i, port, a, h, ops)
      OBVIOUS
<1>3. \A p \in DOMAIN i.algo : i.algo[p] # ""
      BY DEF ImageType, IsMap, factories, RR, CH
<1> HIDE DEF ops, ops2
<1>4. ASSUME NEW p \in DOMAIN i.algo, NoReset(l, port, p, a, h2)
      PROVE  Mode(s[h2 + 1], port, p) = i.algo[p]
  <2>1. Mode(s[h + 1], port, p) = i.algo[p]
        BY <1>1, <1>2, <1>4 DEF RestAgrees
  <2>2. KeepsMode(s[h + 1], s[h2 + 1], port, p)
        BY <1>1, <1>4 DEF Kept
  <2> QED
        BY <1>3, <2>1, <2>2 DEF KeepsMode
<1>5. ASSUME FlagsOnce(ops2), NEW p
      PROVE  FlagOf(i.static, p) = Flag(s[h2 + 1], port, p)
  <2>1. FlagOf(i.static, p) = Flag(s[h + 1], port, p)
        BY <1>1, <1>2, <1>5 DEF RestAgrees
  <2>2. Flag(s[h + 1], port, p) = Flag(s[h2 + 1], port, p)
        BY <1>1, <1>5 DEF Kept
  <2> QED
        BY <2>1, <2>2
<1>6. ASSUME NEW x
      PROVE  BanAgrees(l, s, x \in i.acl, port, x, a, h2)
  <2>1. BanAgrees(l, s, x \in i.acl, port, x, a, h)
        BY <1>2 DEF RestAgrees
  <2>2. NoBan(l, port, x, h, h2) =>
          (Banned(s[h + 1], port, x) <=> Banned(s[h2 + 1], port, x))
        BY DEF Kept
  <2> QED
        BY <1>1, <2>1, <2>2 DEF BanAgrees
<1>7. RestAgrees(l, s, i, port, a, h2, ops2)
      BY <1>4, <1>5, <1>6 DEF RestAgrees
<1> QED
      BY <1>7 DEF ops2

LEMMA EncGrow ==
    ASSUME NEW l, NEW s, NEW c, NEW a, EncType(c, a), a \in Nat,
           NEW h \in Nat, NEW h2 \in Nat, a <= h, h <= h2, Kept(l, s, h, h2),
           NEW tw, NEW t, EncAgrees(l, s, t, h, tw, c), NEW u, DOMAIN t \subseteq DOMAIN u
    PROVE  EncAgrees(l, s, u, h2, tw, c)
<1> SUFFICES ASSUME c # NoImage, NEW port \in ReplicatedIn(l)
             PROVE  PortEncoded(l, s, u, port, c.from, h2, tw \cup OpsIn(l, c.from, h2), c)
    BY DEF EncAgrees
<1>1. /\ c.from \in Nat /\ c.from <= h
      /\ \A q \in DOMAIN c.image \ c.open : ImageType(c.image[q])
      BY DEF EncType
<1>2. PortEncoded(l, s, t, port, c.from, h, tw \cup OpsIn(l, c.from, h), c)
      BY DEF EncAgrees
<1>3. port \in DOMAIN c.image =>
        PathsAgree(l, s, c.image[port].paths, port, c.from, h2, tw \cup OpsIn(l, c.from, h2))
  <2>1. SUFFICES ASSUME port \in DOMAIN c.image
                 PROVE  PathsAgree(l, s, c.image[port].paths, port, c.from, h2,
                                   tw \cup OpsIn(l, c.from, h2))
        OBVIOUS
  <2>2. PathsAgree(l, s, c.image[port].paths, port, c.from, h, tw \cup OpsIn(l, c.from, h))
        BY <1>2, <2>1 DEF PortEncoded
  <2> QED
        BY <1>1, <2>2, PathsGrow
<1>4. port \in DOMAIN c.image \ c.open =>
        RestAgrees(l, s, c.image[port], port, c.from, h2, tw \cup OpsIn(l, c.from, h2))
  <2>1. SUFFICES ASSUME port \in DOMAIN c.image \ c.open
                 PROVE  RestAgrees(l, s, c.image[port], port, c.from, h2,
                                   tw \cup OpsIn(l, c.from, h2))
        OBVIOUS
  <2>2. RestAgrees(l, s, c.image[port], port, c.from, h, tw \cup OpsIn(l, c.from, h))
        BY <1>2, <2>1 DEF PortEncoded
  <2>3. ImageType(c.image[port])
        BY <1>1, <2>1
  <2> QED
        BY <1>1, <2>2, <2>3, RestGrow
<1> QED
      BY <1>2, <1>3, <1>4 DEF PortEncoded

(* The encoder reads a proxy of a table that agrees with the log at a, for *)
(* the image of the index k.                                               *)
LEMMA WindowBack ==
    ASSUME NEW l, NEW k \in Nat, NEW a \in Nat, NEW h \in Nat, k <= a, a <= h
    PROVE  /\ \A port, p : NoReset(l, port, p, k, h)
                           => NoReset(l, port, p, k, a) /\ NoReset(l, port, p, a, h)
           /\ \A port, x : NoBan(l, port, x, k, h) => NoBan(l, port, x, a, h)
           /\ \A tw : HostsOnce(tw \cup OpsIn(l, k, h))
                      => /\ HostsOnce(tw)
                         /\ \A port, p : \A j \in a .. h : NoUnlist(l, port, p, k, j)
           /\ \A tw : FlagsOnce(tw \cup OpsIn(l, k, h)) => FlagsOnce(tw)
<1>1. k + 1 .. a \subseteq k + 1 .. h /\ a + 1 .. h \subseteq k + 1 .. h
      OBVIOUS
<1>2. \A j \in a .. h : k + 1 .. j \subseteq k + 1 .. h
      OBVIOUS
<1>3. ASSUME NEW tw, HostsOnce(tw \cup OpsIn(l, k, h)), NEW port, NEW p, NEW j \in a .. h
      PROVE  NoUnlist(l, port, p, k, j)
  <2>1. \A i \in k + 1 .. h : l[i].op # "RMV_HTTP_PROXY_HOST"
        BY <1>3 DEF HostsOnce, OpsIn
  <2> QED
        BY <1>2, <2>1 DEF NoUnlist, Unlists
<1>4. \A tw : HostsOnce(tw \cup OpsIn(l, k, h)) => HostsOnce(tw)
      BY DEF HostsOnce
<1>5. \A tw : FlagsOnce(tw \cup OpsIn(l, k, h)) => FlagsOnce(tw)
      BY DEF FlagsOnce
<1>6. \A port, p : NoReset(l, port, p, k, h)
                   => NoReset(l, port, p, k, a) /\ NoReset(l, port, p, a, h)
      BY <1>1 DEF NoReset
<1>7. \A port, x : NoBan(l, port, x, k, h) => NoBan(l, port, x, a, h)
      BY <1>1 DEF NoBan
<1> QED
      BY <1>3, <1>4, <1>5, <1>6, <1>7

(* The registers of a proxy x that is there.                               *)
There(t, port, x) ==
    /\ IsProxy(x) /\ At(t, port) = x
    /\ \A p : p \in DOMAIN x.mapping =>
         /\ Mode(t, port, p) = x.mapping[p].mode
         /\ HostsOf(t, port, p) = x.mapping[p].hosts
         /\ Mode(t, port, p) # ""
    /\ \A p : p \notin DOMAIN x.mapping => Mode(t, port, p) = ""
    /\ \A p : Flag(t, port, p) = FlagOf(x.static, p)
    /\ \A y : Banned(t, port, y) = (y \in x.acl)

LEMMA ThereIs ==
    ASSUME NEW t, IsTable(t), NEW port \in DOMAIN t, NEW x, x = t[port]
    PROVE  There(t, port, x)
<1>1. IsProxy(x) /\ At(t, port) = x
      BY AtProxy
<1>2. \A p : PrefixExists(x, p) <=> p \in DOMAIN x.mapping
      BY DEF PrefixExists
<1>3. \A p : Bal(t, port, p) = BalOf(x, p)
      BY <1>1 DEF Bal
<1>4. ASSUME NEW p, p \in DOMAIN x.mapping
      PROVE  /\ Mode(t, port, p) = x.mapping[p].mode
             /\ HostsOf(t, port, p) = x.mapping[p].hosts
             /\ Mode(t, port, p) # ""
  <2>1. BalOf(x, p) = x.mapping[p] /\ BalOf(x, p).mode # ""
        BY <1>1, <1>2, <1>4, BalType
  <2> QED
        BY <1>3, <2>1 DEF Mode, HostsOf
<1>5. \A p : p \notin DOMAIN x.mapping => Mode(t, port, p) = ""
  <2>1. \A p : p \notin DOMAIN x.mapping => BalOf(x, p).mode = ""
        BY <1>1, <1>2, BalType
  <2> QED
        BY <1>3, <2>1 DEF Mode
<1> QED
      BY <1>1, <1>4, <1>5 DEF There, Flag, Banned

LEMMA ReadsPaths ==
    ASSUME NEW l, NEW s, NEW k \in Nat, NEW a \in Nat, NEW h \in Nat, k <= a, a <= h,
           Kept(l, s, k, a), NEW t, IsTable(t), NEW port \in DOMAIN t, NEW tw,
           Agrees(l, s, t, port, a, h, tw)
    PROVE  PathsAgree(l, s, Paths(t[port]), port, k, h, tw \cup OpsIn(l, k, h))
<1> DEFINE x == t[port]
           paths == Paths(x)
           ops == tw \cup OpsIn(l, k, h)
<1>0. There(t, port, x)
      BY ThereIs
<1>1. /\ IsProxy(x)
      /\ \A p : p \in DOMAIN x.mapping =>
           /\ Mode(t, port, p) # "" /\ HostsOf(t, port, p) = x.mapping[p].hosts
      /\ \A p : p \notin DOMAIN x.mapping => Mode(t, port, p) = ""
      BY <1>0 DEF There
<1>2. DOMAIN paths = DOMAIN x.mapping /\ \A p \in DOMAIN paths : paths[p] = x.mapping[p].hosts
      BY DEF Paths
<1>3. HostsOnce(ops) => /\ HostsOnce(tw)
                        /\ \A p : \A j \in a .. h : NoUnlist(l, port, p, k, j)
      BY WindowBack
<1>4. \A p : NoReset(l, port, p, k, h)
             => NoReset(l, port, p, k, a) /\ NoReset(l, port, p, a, h)
      BY WindowBack
<1> HIDE DEF x, paths, ops
<1>5. ASSUME NEW p, p \notin DOMAIN paths, NoReset(l, port, p, k, h)
      PROVE  Mode(s[k + 1], port, p) = ""
  <2>1. ModeAgrees(l, s, Mode(t, port, p), port, p, a, h)
        BY DEF Agrees
  <2>2. Mode(s[a + 1], port, p) = ""
        BY <1>1, <1>2, <1>4, <1>5, <2>1 DEF ModeAgrees
  <2>3. KeepsMode(s[k + 1], s[a + 1], port, p)
        BY <1>4, <1>5 DEF Kept
  <2> QED
        BY <2>2, <2>3 DEF KeepsMode
<1>6. ASSUME NEW p \in DOMAIN paths, HostsOnce(ops)
      PROVE  HostsAgree(l, s, paths[p], port, p, k, h)
  <2>1. HostsAgree(l, s, HostsOf(t, port, p), port, p, a, h) /\ HostsOf(t, port, p) = paths[p]
        BY <1>1, <1>2, <1>3, <1>6 DEF Agrees
  <2> SUFFICES ASSUME NoReset(l, port, p, k, h), SoundIn(l, s, port, h)
               PROVE  \E j \in k .. h : HostsOfMoment(l, s, paths[p], port, p, k, j)
      BY DEF HostsAgree
  <2>2. PICK j \in a .. h : HostsOfMoment(l, s, paths[p], port, p, a, j)
        BY <1>4, <2>1 DEF HostsAgree
  <2>3. j \in k .. h
        OBVIOUS
  <2>4. HostsOfMoment(l, s, paths[p], port, p, k, j)
        BY <1>3, <1>6, <2>2 DEF HostsOfMoment
  <2> QED
        BY <2>3, <2>4
<1>7. PathsAgree(l, s, paths, port, k, h, ops)
      BY <1>5, <1>6 DEF PathsAgree
<1> QED
      BY <1>7 DEF x, paths, ops

LEMMA ReadsRest ==
    ASSUME NEW l, NEW s, NEW k \in Nat, NEW a \in Nat, NEW h \in Nat, k <= a, a <= h,
           NEW t, IsTable(t), NEW port \in DOMAIN t, NEW tw,
           Agrees(l, s, t, port, a, h, tw), FlagsAgree(s, t, port, h, tw), NEW paths
    PROVE  RestAgrees(l, s, Fields(t[port], paths), port, k, h, tw \cup OpsIn(l, k, h))
<1> DEFINE x == t[port]
           i == Fields(x, paths)
           ops == tw \cup OpsIn(l, k, h)
<1>0. There(t, port, x)
      BY ThereIs
<1>1. /\ \A p : p \in DOMAIN x.mapping =>
           /\ Mode(t, port, p) # "" /\ Mode(t, port, p) = x.mapping[p].mode
      /\ \A p : Flag(t, port, p) = FlagOf(x.static, p)
      /\ \A y : Banned(t, port, y) = (y \in x.acl)
      BY <1>0 DEF There
<1>2. /\ DOMAIN i.algo = DOMAIN x.mapping
      /\ \A p \in DOMAIN x.mapping : i.algo[p] = x.mapping[p].mode
      /\ i.static = x.static /\ i.acl = x.acl
      BY DEF Fields, BalancerType
<1>3. /\ FlagsOnce(ops) => FlagsOnce(tw)
      /\ \A p : NoReset(l, port, p, k, h) => NoReset(l, port, p, a, h)
      /\ \A y : NoBan(l, port, y, k, h) => NoBan(l, port, y, a, h)
      BY WindowBack
<1> HIDE DEF x, i, ops
<1>4. ASSUME NEW p \in DOMAIN i.algo, NoReset(l, port, p, k, h)
      PROVE  Mode(s[h + 1], port, p) = i.algo[p]
  <2>1. ModeAgrees(l, s, Mode(t, port, p), port, p, a, h)
        BY DEF Agrees
  <2>2. Mode(t, port, p) # "" /\ Mode(t, port, p) = i.algo[p]
        BY <1>1, <1>2
  <2> QED
        BY <1>3, <1>4, <2>1, <2>2 DEF ModeAgrees
<1>5. FlagsOnce(ops) => \A p : FlagOf(i.static, p) = Flag(s[h + 1], port, p)
      BY <1>1, <1>2, <1>3 DEF FlagsAgree
<1>6. ASSUME NEW y
      PROVE  BanAgrees(l, s, y \in i.acl, port, y, k, h)
  <2>1. BanAgrees(l, s, Banned(t, port, y), port, y, a, h)
        BY DEF Agrees
  <2> QED
        BY <1>1, <1>2, <1>3, <2>1 DEF BanAgrees
<1>7. RestAgrees(l, s, i, port, k, h, ops)
      BY <1>4, <1>5, <1>6 DEF RestAgrees
<1> QED
      BY <1>7 DEF x, i, ops

(* The steps of the encoder.                                               *)
LEMMA EncStarts ==
    ASSUME NEW l, NEW s, NEW t, NEW a, NEW h, NEW tw, NEW c,
           c.from = a, DOMAIN c.image = {}, c.ports = DOMAIN t,
           \A port \in ReplicatedIn(l) : PortAgrees(s, t, port, a, h)
    PROVE  EncAgrees(l, s, t, h, tw, c)
    BY DEF EncAgrees, PortEncoded, PortAgrees

Reads(c, q, d) ==
    /\ d.from = c.from /\ d.ports = c.ports
    /\ DOMAIN d.image = DOMAIN c.image \cup {q}
    /\ \A r : r # q => (r \in d.open <=> r \in c.open)
    /\ \A r \in DOMAIN c.image : r # q => d.image[r] = c.image[r]

LEMMA EncReads ==
    ASSUME NEW l, NEW s, NEW t, NEW h, NEW tw, NEW c, c # NoImage, EncAgrees(l, s, t, h, tw, c),
           NEW q, NEW d, Reads(c, q, d),
           NEW u, \A port \in ReplicatedIn(l) : port \in DOMAIN t => port \in DOMAIN u,
           q \in ReplicatedIn(l) =>
             PortEncoded(l, s, u, q, c.from, h, tw \cup OpsIn(l, c.from, h), d)
    PROVE  EncAgrees(l, s, u, h, tw, d)
<1> DEFINE ops == tw \cup OpsIn(l, c.from, h)
<1>1. /\ d.from = c.from /\ d.ports = c.ports
      /\ \A r : r # q => /\ r \in DOMAIN d.image <=> r \in DOMAIN c.image
                         /\ r \in d.open <=> r \in c.open
                         /\ r \in DOMAIN c.image => d.image[r] = c.image[r]
      BY DEF Reads
<1> HIDE DEF ops
<1>2. ASSUME NEW port \in ReplicatedIn(l), port # q
      PROVE  PortEncoded(l, s, u, port, c.from, h, ops, d)
  <2>1. PortEncoded(l, s, t, port, c.from, h, ops, c)
        BY DEF EncAgrees, ops
  <2> QED
        BY <1>1, <1>2, <2>1 DEF PortEncoded
<1>3. \A port \in ReplicatedIn(l) : PortEncoded(l, s, u, port, c.from, h, ops, d)
      BY <1>2 DEF ops
<1> QED
      BY <1>1, <1>3 DEF EncAgrees, ops

LEMMA EncPaths ==
    ASSUME NEW l, NEW s, NEW c, c # NoImage, c.open = {}, NEW a \in Nat, EncType(c, a),
           NEW h \in Nat, a <= h, Kept(l, s, c.from, a), NEW t, IsTable(t),
           NEW q \in DOMAIN t, NEW tw,
           q \in ReplicatedIn(l) => Agrees(l, s, t, q, a, h, tw),
           EncAgrees(l, s, t, h, tw, c)
    PROVE  EncAgrees(l, s, t, h, tw, WithPaths(c, q, t[q]))
<1> DEFINE d == WithPaths(c, q, t[q])
           ops == tw \cup OpsIn(l, c.from, h)
<1>1. c.from \in Nat /\ c.from <= a
      BY DEF EncType
<1>2. IsProxy(t[q]) /\ q \in Ports
      BY DEF IsTable
<1>3. /\ d.from = c.from /\ d.ports = c.ports /\ d.open = {q}
      /\ DOMAIN d.image = DOMAIN c.image \cup {q} /\ d.image[q].paths = Paths(t[q])
      /\ \A r \in DOMAIN c.image : r # q => d.image[r] = c.image[r]
      BY <1>2, WithPathsIs
<1> HIDE DEF d, ops
<1>4. Reads(c, q, d)
      BY <1>3 DEF Reads
<1>5. ASSUME q \in ReplicatedIn(l)
      PROVE  PortEncoded(l, s, t, q, c.from, h, ops, d)
  <2>1. PathsAgree(l, s, Paths(t[q]), q, c.from, h, ops)
        BY <1>1, <1>5, ReadsPaths DEF ops
  <2>2. PortEncoded(l, s, t, q, c.from, h, ops, c)
        BY <1>5 DEF EncAgrees, ops
  <2> QED
        BY <1>3, <2>1, <2>2 DEF PortEncoded
<1>6. EncAgrees(l, s, t, h, tw, d)
      BY <1>4, <1>5, EncReads DEF ops
<1> QED
      BY <1>6 DEF d

LEMMA EncRest ==
    ASSUME NEW l, NEW s, NEW c, c # NoImage, NEW a \in Nat, EncType(c, a),
           NEW h \in Nat, a <= h, NEW t, IsTable(t),
           NEW q \in c.open, q \in DOMAIN t, NEW tw,
           q \in ReplicatedIn(l) => /\ Agrees(l, s, t, q, a, h, tw)
                                    /\ FlagsAgree(s, t, q, h, tw),
           EncAgrees(l, s, t, h, tw, c),
           NEW u, \A port \in ReplicatedIn(l) : port \in DOMAIN t => port \in DOMAIN u
    PROVE  EncAgrees(l, s, u, h, tw, WithRest(c, q, t[q]))
<1> DEFINE d == WithRest(c, q, t[q])
           i == Fields(t[q], c.image[q].paths)
           ops == tw \cup OpsIn(l, c.from, h)
<1>1. c.from \in Nat /\ c.from <= a
      BY DEF EncType
<1>2. IsProxy(t[q])
      BY DEF IsTable
<1>3. /\ d.from = c.from /\ d.ports = c.ports /\ d.open = {}
      /\ DOMAIN d.image = DOMAIN c.image /\ q \in DOMAIN c.image /\ c.open = {q}
      /\ d.image[q] = i
      /\ \A r \in DOMAIN c.image : r # q => d.image[r] = c.image[r]
      BY <1>2, WithRestIs
<1>4. i.paths = c.image[q].paths
      BY DEF Fields
<1> HIDE DEF d, i, ops
<1>5. Reads(c, q, d)
      BY <1>3 DEF Reads
<1>6. ASSUME q \in ReplicatedIn(l)
      PROVE  PortEncoded(l, s, u, q, c.from, h, ops, d)
  <2>1. RestAgrees(l, s, i, q, c.from, h, ops)
        BY <1>1, <1>6, ReadsRest DEF ops, i
  <2>2. PortEncoded(l, s, t, q, c.from, h, ops, c)
        BY <1>6 DEF EncAgrees, ops
  <2>3. q \in DOMAIN u
        BY <1>6
  <2> QED
        BY <1>3, <1>4, <2>1, <2>2, <2>3 DEF PortEncoded
<1>7. EncAgrees(l, s, u, h, tw, d)
      BY <1>5, <1>6, EncReads DEF ops
<1> QED
      BY <1>7 DEF d

(* The image is on disk.                                                   *)
LEMMA Saves ==
    ASSUME NEW l, NEW s, NEW c, c # NoImage, c.open = {}, NEW t,
           c.ports \cap DOMAIN t \subseteq DOMAIN c.image, NEW a, NEW h, NEW tw,
           EncAgrees(l, s, t, h, tw, c), Passed(l, s, h),
           \A port \in ReplicatedIn(l) : PortAgrees(s, t, port, a, h),
           NEW i, i.from = c.from, i.image = c.image, i.to = h,
           i.twice = tw \cup OpsIn(l, c.from, h)
    PROVE  SnapAgrees(l, s, i)
<1>1. OpsIn(l, i.from, i.to) \subseteq i.twice
      OBVIOUS
<1>2. ASSUME NEW port \in ReplicatedIn(l)
      PROVE  PortSaved(l, s, port, i)
  <2>1. PortEncoded(l, s, t, port, c.from, h, tw \cup OpsIn(l, c.from, h), c)
        BY DEF EncAgrees
  <2>2. PortAgrees(s, t, port, a, h)
        OBVIOUS
  <2> QED
        BY <2>1, <2>2 DEF PortEncoded, PortSaved, PortAgrees
<1> QED
      BY <1>1, <1>2 DEF SnapAgrees

LEMMA PathsSame ==
    ASSUME NEW l, NEW s, NEW l2, NEW s2, Begins(l, s, l2, s2),
           NEW a \in Nat, NEW h \in Nat, a <= h, h <= Len(l), NEW paths, NEW port, NEW ops,
           PathsAgree(l, s, paths, port, a, h, ops)
    PROVE  PathsAgree(l2, s2, paths, port, a, h, ops)
<1>1. a \in 0 .. h
      OBVIOUS
<1>2. s2[a + 1] = s[a + 1]
      BY <1>1, TablesSame
<1>3. \A p : NoReset(l2, port, p, a, h) <=> NoReset(l, port, p, a, h)
      BY WindowSame
<1>4. ASSUME NEW p \in DOMAIN paths, HostsOnce(ops)
      PROVE  HostsAgree(l2, s2, paths[p], port, p, a, h)
  <2>1. HostsAgree(l, s, paths[p], port, p, a, h)
        BY <1>4 DEF PathsAgree
  <2> QED
        BY <2>1, HostsSame
<1> QED
      BY <1>2, <1>3, <1>4 DEF PathsAgree

LEMMA RestSame ==
    ASSUME NEW l, NEW s, NEW l2, NEW s2, Begins(l, s, l2, s2),
           NEW a \in Nat, NEW h \in Nat, a <= h, h <= Len(l), NEW i, NEW port, NEW ops,
           RestAgrees(l, s, i, port, a, h, ops)
    PROVE  RestAgrees(l2, s2, i, port, a, h, ops)
<1>1. h \in 0 .. h
      OBVIOUS
<1>2. s2[h + 1] = s[h + 1]
      BY <1>1, TablesSame
<1>3. \A p : NoReset(l2, port, p, a, h) <=> NoReset(l, port, p, a, h)
      BY WindowSame
<1>4. ASSUME NEW x
      PROVE  BanAgrees(l2, s2, x \in i.acl, port, x, a, h)
  <2>1. BanAgrees(l, s, x \in i.acl, port, x, a, h)
        BY DEF RestAgrees
  <2> QED
        BY <2>1, BanSame
<1> QED
      BY <1>2, <1>3, <1>4 DEF RestAgrees

LEMMA EncSame ==
    ASSUME NEW l, NEW s, NEW l2, NEW s2, Grows(l, s, l2, s2),
           NEW a, NEW h \in Nat, a \in Nat, a <= h, h <= Len(l), NEW c, EncType(c, a),
           NEW t, NEW tw, EncAgrees(l, s, t, h, tw, c)
    PROVE  EncAgrees(l2, s2, t, h, tw, c)
<1> SUFFICES ASSUME c # NoImage, NEW port \in ReplicatedIn(l2)
             PROVE  PortEncoded(l2, s2, t, port, c.from, h, tw \cup OpsIn(l2, c.from, h), c)
    BY DEF EncAgrees
<1>1. Begins(l, s, l2, s2) /\ port \in ReplicatedIn(l)
      BY DEF Grows
<1>2. c.from \in Nat /\ c.from <= h /\ c.from \in 0 .. h
      BY DEF EncType
<1>3. OpsIn(l2, c.from, h) = OpsIn(l, c.from, h)
      BY <1>1, <1>2, WindowSame
<1>4. s2[c.from + 1] = s[c.from + 1]
      BY <1>1, <1>2, TablesSame
<1> DEFINE ops == tw \cup OpsIn(l, c.from, h)
<1>5. PortEncoded(l, s, t, port, c.from, h, ops, c)
      BY <1>1 DEF EncAgrees
<1> HIDE DEF ops
<1>6. ASSUME port \in DOMAIN c.image
      PROVE  PathsAgree(l2, s2, c.image[port].paths, port, c.from, h, ops)
  <2>1. PathsAgree(l, s, c.image[port].paths, port, c.from, h, ops)
        BY <1>5, <1>6 DEF PortEncoded
  <2> QED
        BY <1>1, <1>2, <2>1, PathsSame
<1>7. ASSUME port \in DOMAIN c.image \ c.open
      PROVE  RestAgrees(l2, s2, c.image[port], port, c.from, h, ops)
  <2>1. RestAgrees(l, s, c.image[port], port, c.from, h, ops)
        BY <1>5, <1>7 DEF PortEncoded
  <2> QED
        BY <1>1, <1>2, <2>1, RestSame
<1>8. PortEncoded(l2, s2, t, port, c.from, h, ops, c)
      BY <1>4, <1>5, <1>6, <1>7 DEF PortEncoded
<1> QED
      BY <1>3, <1>8 DEF ops

LEMMA SnapSame ==
    ASSUME NEW l, NEW s, NEW l2, NEW s2, Grows(l, s, l2, s2),
           NEW i, SnapType(i, Len(l)), SnapAgrees(l, s, i)
    PROVE  SnapAgrees(l2, s2, i)
<1> SUFFICES ASSUME i # NoImage
             PROVE  SnapAgrees(l2, s2, i)
    BY DEF SnapAgrees
<1>1. Begins(l, s, l2, s2) /\ ReplicatedIn(l2) \subseteq ReplicatedIn(l)
      BY DEF Grows
<1>2. /\ i.from \in Nat /\ i.to \in Nat /\ i.from <= i.to /\ i.to <= Len(l)
      BY DEF SnapType
<1>3. OpsIn(l2, i.from, i.to) = OpsIn(l, i.from, i.to)
      BY <1>1, <1>2, WindowSame
<1>4. i.from \in 0 .. i.to /\ i.to \in 0 .. i.to
      BY ONLY <1>2
<1>5. s2[i.from + 1] = s[i.from + 1] /\ s2[i.to + 1] = s[i.to + 1]
      BY <1>1, <1>2, <1>4, TablesSame
<1>6. Passed(l2, s2, i.to)
      BY <1>2, PassedSame DEF SnapAgrees
<1>7. ASSUME NEW port \in ReplicatedIn(l2)
      PROVE  PortSaved(l2, s2, port, i)
  <2>1. PortSaved(l, s, port, i)
        BY <1>1 DEF SnapAgrees
  <2>2. ASSUME port \in DOMAIN i.image
        PROVE  /\ PathsAgree(l2, s2, i.image[port].paths, port, i.from, i.to, i.twice)
               /\ RestAgrees(l2, s2, i.image[port], port, i.from, i.to, i.twice)
    <3>1. /\ PathsAgree(l, s, i.image[port].paths, port, i.from, i.to, i.twice)
          /\ RestAgrees(l, s, i.image[port], port, i.from, i.to, i.twice)
          BY <2>1, <2>2 DEF PortSaved
    <3> QED
          BY <1>1, <1>2, <3>1, PathsSame, RestSame
  <2> QED
        BY <1>5, <2>1, <2>2 DEF PortSaved
<1>8. OpsIn(l2, i.from, i.to) \subseteq i.twice
      BY <1>3 DEF SnapAgrees
<1> QED
      BY <1>6, <1>7, <1>8 DEF SnapAgrees

(* A process that starts from an image.                                    *)
LEMMA RestoredMissing ==
    ASSUME NEW l, NEW s, NEW a \in Nat, NEW h \in Nat, a <= h, Kept(l, s, a, h),
           NEW ops, OpsIn(l, a, h) \subseteq ops, NEW t, NEW port, port \notin DOMAIN t,
           port \notin DOMAIN s[a + 1]
    PROVE  ProxyAgrees(l, s, t, port, a, h, ops)
<1>1. At(t, port) = NewHttpReverseProxy /\ At(s[a + 1], port) = NewHttpReverseProxy
      BY DEF At, Get
<1>2. /\ \A p : Mode(t, port, p) = "" /\ Mode(s[a + 1], port, p) = ""
      /\ \A p : Flag(t, port, p) = Flag(s[a + 1], port, p)
      /\ \A x : Banned(t, port, x) = Banned(s[a + 1], port, x)
      /\ At(t, port).shutdown # "taken"
      BY <1>1, NewProxy, NilFields DEF Mode, Bal, Flag, Banned
<1>3. PortAgrees(s, t, port, a, h)
      BY DEF PortAgrees
<1>4. \A p : ModeAgrees(l, s, Mode(t, port, p), port, p, a, h)
      BY <1>2 DEF ModeAgrees
<1>5. \A x : BanAgrees(l, s, Banned(t, port, x), port, x, a, h)
  <2>1. \A x : NoBan(l, port, x, a, h) =>
          (Banned(s[a + 1], port, x) <=> Banned(s[h + 1], port, x))
        BY DEF Kept
  <2> QED
        BY <1>2, <2>1 DEF BanAgrees
<1>6. FlagsAgree(s, t, port, h, ops)
  <2>1. \A p : NoFlag(l, port, p, a, h) => Flag(s[a + 1], port, p) = Flag(s[h + 1], port, p)
        BY DEF Kept
  <2>2. FlagsOnce(ops) => \A p : NoFlag(l, port, p, a, h)
        BY DEF FlagsOnce, OpsIn, NoFlag, Flags
  <2> QED
        BY <1>2, <2>1, <2>2 DEF FlagsAgree
<1> QED
      BY <1>2, <1>3, <1>4, <1>5, <1>6 DEF ProxyAgrees, Agrees

LEMMA RestoredThere ==
    ASSUME NEW l, NEW s, NEW a, NEW h, NEW ops, NEW t, NEW port, port \in DOMAIN t,
           NEW i, ImageType(i), Known(i), At(t, port) = Restore(i),
           port \in DOMAIN s[h + 1], PathsAgree(l, s, i.paths, port, a, h, ops),
           RestAgrees(l, s, i, port, a, h, ops)
    PROVE  ProxyAgrees(l, s, t, port, a, h, ops)
<1>0. /\ \A p \in DOMAIN i.paths : /\ p \in DOMAIN i.algo
                                   /\ BalOf(At(t, port), p).mode = i.algo[p]
                                   /\ BalOf(At(t, port), p).hosts = i.paths[p]
      /\ \A p : p \notin DOMAIN i.paths => BalOf(At(t, port), p) = NilBalancer
      BY RestoreProxy
<1>1. /\ \A p : p \in DOMAIN i.paths =>
           p \in DOMAIN i.algo /\ Mode(t, port, p) = i.algo[p] /\ HostsOf(t, port, p) = i.paths[p]
      /\ \A p : p \notin DOMAIN i.paths => Mode(t, port, p) = ""
      BY <1>0, NilFields DEF Mode, HostsOf, Bal
<1>2. /\ \A p : Flag(t, port, p) = FlagOf(i.static, p)
      /\ \A x : Banned(t, port, x) = (x \in i.acl)
      /\ At(t, port).shutdown = "nil"
      BY RestoreProxy DEF Flag, Banned
<1>3. \A p \in DOMAIN i.algo : i.algo[p] # ""
      BY DEF ImageType, IsMap, factories, RR, CH
<1>4. PortAgrees(s, t, port, a, h)
      BY DEF PortAgrees
<1>5. ASSUME NEW p
      PROVE  ModeAgrees(l, s, Mode(t, port, p), port, p, a, h)
  <2>1. CASE p \in DOMAIN i.paths
        BY <1>1, <1>3, <2>1 DEF ModeAgrees, RestAgrees
  <2>2. CASE p \notin DOMAIN i.paths
        BY <1>1, <2>2 DEF ModeAgrees, PathsAgree
  <2> QED
        BY <2>1, <2>2
<1>6. \A p : Mode(t, port, p) # "" /\ HostsOnce(ops)
             => HostsAgree(l, s, HostsOf(t, port, p), port, p, a, h)
      BY <1>1 DEF PathsAgree
<1>7. \A x : BanAgrees(l, s, Banned(t, port, x), port, x, a, h)
      BY <1>2 DEF RestAgrees
<1>8. FlagsAgree(s, t, port, h, ops)
      BY <1>2 DEF RestAgrees, FlagsAgree
<1> QED
      BY <1>2, <1>4, <1>5, <1>6, <1>7, <1>8 DEF ProxyAgrees, Agrees

LEMMA NodeRestored ==
    ASSUME NEW l, NEW s, IsHistory(l, s), Keeps(l, s),
           NEW i, i # NoImage, SnapType(i, Len(l)), SnapAgrees(l, s, i),
           ~RestorePanics(i.image)
    PROVE  NodeAgrees(l, s, RestoredTable(i.image), i.from, NoEntry, DOMAIN i.image, i)
<1> DEFINE t == RestoredTable(i.image)
<1>1. /\ DOMAIN t = DOMAIN i.image
      /\ \A port \in DOMAIN i.image : /\ Known(i.image[port]) /\ ImageType(i.image[port])
                                      /\ At(t, port) = Restore(i.image[port])
      BY RestoredTableType
<1>2. /\ i.from \in Nat /\ i.to \in Nat /\ i.from <= i.to /\ i.to <= Len(l)
      BY DEF SnapType
<1>3. Held(i.from, NoEntry, i) = i.to /\ TwiceOf(i) = i.twice
      BY <1>2 DEF Held, Hold, TwiceOf
<1>4. /\ Passed(l, s, i.to) /\ OpsIn(l, i.from, i.to) \subseteq i.twice
      /\ \A port \in ReplicatedIn(l) : PortSaved(l, s, port, i)
      BY DEF SnapAgrees
<1>5. Kept(l, s, i.from, i.to)
  <2>1. Len(l) \in Nat
        BY DEF IsHistory
  <2>2. i.from \in 0 .. Len(l) /\ i.to \in 0 .. Len(l)
        BY ONLY <1>2, <2>1
  <2> QED
        BY <1>2, <2>2 DEF Keeps
<1> HIDE DEF t
<1>6. ASSUME NEW port \in ReplicatedIn(l)
      PROVE  ProxyAgrees(l, s, t, port, i.from, i.to, i.twice)
  <2>1. PortSaved(l, s, port, i)
        BY <1>4
  <2>2. CASE port \in DOMAIN i.image
    <3>1. /\ port \in DOMAIN s[i.to + 1]
          /\ PathsAgree(l, s, i.image[port].paths, port, i.from, i.to, i.twice)
          /\ RestAgrees(l, s, i.image[port], port, i.from, i.to, i.twice)
          BY <2>1, <2>2 DEF PortSaved
    <3> QED
          BY <1>1, <2>2, <3>1, RestoredThere
  <2>3. CASE port \notin DOMAIN i.image
    <3>1. port \notin DOMAIN s[i.from + 1]
          BY <2>1, <2>3 DEF PortSaved
    <3> QED
          BY <1>1, <1>2, <1>4, <1>5, <2>3, <3>1, RestoredMissing
  <2> QED
        BY <2>2, <2>3
<1> QED
      BY <1>3, <1>4, <1>6 DEF NodeAgrees, HalfAgrees, t

-----------------------------------------------------------------------------
(* The inductive invariant.                                                *)

(* What the state manager has checked on tables that had all of the log    *)
(* does not end the process of a node.                                     *)
FreshPasses(l, s) ==
    \A i \in 1 .. Len(l) :
      l[i].fresh = TRUE /\ l[i].op \notin Unchecked /\ l[i].port \in ReplicatedIn(l)
      => NotEnded(s[i], l[i])

NodeInv(l, s, t, a, hf, sg, c, i, b) ==
    /\ NodeAgrees(l, s, t, a, hf, sg, b)
    /\ EncAgrees(l, s, t, Held(a, hf, b), TwiceOf(b), c)
    /\ SnapAgrees(l, s, i)

AgreeInv ==
    /\ IsHistory(log, ideal) /\ Keeps(log, ideal) /\ FreshPasses(log, ideal)
    /\ \A n \in Nodes :
         NodeInv(log, ideal, table[n], applied[n], half[n], starting[n], enc[n], snap[n],
                 base[n])

IInv == TypeInv /\ AgreeInv

LEMMA AgreeStep ==
    ASSUME AgreeInv, NEW n \in Nodes, NEW st, NEW t, NEW a, NEW hf, NEW sk, NEW sg,
           NEW c, NEW i, NEW b, Values(n, st, t, a, hf, sk, sg, c, i, b),
           NodeInv(log, ideal, t, a, hf, sg, c, i, b)
    PROVE  AgreeInv'
<1>1. log' = log /\ ideal' = ideal
      BY DEF Values
<1>2. ASSUME NEW m \in Nodes
      PROVE  NodeInv(log', ideal', table'[m], applied'[m], half'[m], starting'[m], enc'[m],
                     snap'[m], base'[m])
  <2>1. CASE m = n
    <3>1. /\ table'[m] = t /\ applied'[m] = a /\ half'[m] = hf /\ starting'[m] = sg
          /\ enc'[m] = c /\ snap'[m] = i /\ base'[m] = b
          BY <2>1 DEF Values
    <3> QED
          BY <1>1, <3>1
  <2>2. CASE m # n
    <3>1. /\ table'[m] = table[m] /\ applied'[m] = applied[m] /\ half'[m] = half[m]
          /\ starting'[m] = starting[m] /\ enc'[m] = enc[m] /\ snap'[m] = snap[m]
          /\ base'[m] = base[m]
          BY <2>2 DEF Values, Others
    <3> QED
          BY <1>1, <3>1 DEF AgreeInv
  <2> QED
        BY <2>1, <2>2
<1> QED
      BY <1>1, <1>2 DEF AgreeInv

(* What is known of a node before a step.                                  *)
LEMMA NodeHeld ==
    ASSUME IInv, NEW n \in Nodes, NEW h, h = Held(applied[n], half[n], base[n])
    PROVE  /\ h \in Nat /\ applied[n] <= h /\ h <= Len(log) /\ Len(log) \in Nat
           /\ applied[n] \in Nat
           /\ IsHistory(log, ideal) /\ Keeps(log, ideal)
           /\ NodeAgrees(log, ideal, table[n], applied[n], half[n], starting[n], base[n])
           /\ EncAgrees(log, ideal, table[n], h, TwiceOf(base[n]), enc[n])
           /\ SnapAgrees(log, ideal, snap[n])
           /\ Passed(log, ideal, h)
           /\ \A port \in ReplicatedIn(log) :
                ProxyAgrees(log, ideal, table[n], port, applied[n], h, TwiceOf(base[n]))
<1>1. TypeInv /\ AgreeInv
      BY DEF IInv
<1>2. HeldTo(n) = h /\ h \in Nat /\ applied[n] <= h /\ h <= Len(log)
      BY <1>1, HeldIs
<1>3. Len(log) \in Nat /\ applied[n] \in Nat
      BY <1>1, NodeFacts
<1> QED
      BY <1>1, <1>2, <1>3 DEF AgreeInv, NodeInv, NodeAgrees

LEMMA KeptUpTo ==
    ASSUME NEW l, NEW s, Keeps(l, s), Len(l) \in Nat, NEW i \in Nat, NEW j \in Nat,
           i <= j, j <= Len(l)
    PROVE  Kept(l, s, i, j)
<1>1. i \in 0 .. Len(l) /\ j \in 0 .. Len(l)
      OBVIOUS
<1> QED
      BY <1>1 DEF Keeps

LEMMA EndedAgrees ==
    ASSUME IInv, NEW n \in Nodes, Ended(n)
    PROVE  AgreeInv'
<1>1. AgreeInv /\ IsHistory(log, ideal) /\ SnapAgrees(log, ideal, snap[n])
      BY DEF IInv, AgreeInv, NodeInv
<1>2. NodeInv(log, ideal, <<>>, 0, NoEntry, {}, NoImage, snap[n], NoImage)
      BY <1>1, NodeEmpty DEF NodeInv, EncAgrees
<1> QED
      BY <1>1, <1>2, AgreeStep DEF Ended

(* The FSM has handled an entry, or a half of it: the table may hold       *)
(* effects of one more entry.                                              *)
LEMMA EncApplied ==
    ASSUME IInv, NEW n \in Nodes, applied[n] + 1 <= Len(log),
           NEW u, DOMAIN table[n] \subseteq DOMAIN u
    PROVE  EncAgrees(log, ideal, u, Held(applied[n] + 1, NoEntry, base[n]),
                     TwiceOf(base[n]), enc[n])
<1> DEFINE a == applied[n]
           h == Held(a, half[n], base[n])
           h2 == Held(a + 1, NoEntry, base[n])
<1>1. /\ h \in Nat /\ a <= h /\ h <= Len(log) /\ Len(log) \in Nat /\ a \in Nat
      /\ Keeps(log, ideal)
      /\ EncAgrees(log, ideal, table[n], h, TwiceOf(base[n]), enc[n])
      BY NodeHeld
<1>2. EncType(enc[n], a) /\ BaseType(base[n], a, Len(log))
      BY NodeFacts DEF IInv
<1>3. HeldStep(a, base[n], Len(log))
      BY <1>1, <1>2, HeldSteps
<1>4. h2 \in Nat /\ h2 <= Len(log) /\ h <= h2
  <2>1. /\ h2 \in Nat /\ h2 <= Len(log) /\ (half[n] # NoEntry => h = h2)
        /\ Held(a, NoEntry, base[n]) <= h2
        BY <1>1, <1>3 DEF HeldStep
  <2> QED
        BY <1>1, <2>1
<1> HIDE DEF a, h, h2
<1>5. Kept(log, ideal, h, h2)
      BY <1>1, <1>4, KeptUpTo
<1> QED
      BY <1>1, <1>2, <1>4, <1>5, EncGrow DEF a, h2

LEMMA ApplyAgrees ==
    ASSUME IInv, NEW n \in Nodes, Apply(n)
    PROVE  AgreeInv'
<1> DEFINE e == log[applied[n] + 1]
           t == table[n]
           u == Put(t, e.port, Outcome(t, e).x)
           x == At(t, e.port)
           b == base[n]
           h == Held(applied[n], half[n], b)
<1>0. TypeInv /\ AgreeInv
      BY DEF IInv
<1>1. /\ half[n] = NoEntry /\ applied[n] + 1 <= Len(log)
      /\ e \in EntryType /\ e.hosts # <<>>
      /\ \/ Ended(n)
         \/ /\ ~NilProxy(t, e)
            /\ ApplyBlocks(n, e, u) \/ ApplyFirst(n, e, u) \/ ApplyAll(n, e, u)
      BY <1>0, ApplyValues
<1>2. /\ IsTable(t) /\ BaseType(b, applied[n], Len(log))
      /\ EncType(enc[n], applied[n])
      BY <1>0, NodeFacts
<1>3. /\ applied[n] \in Nat /\ h \in Nat /\ applied[n] <= h /\ h <= Len(log)
      /\ Len(log) \in Nat
      /\ IsHistory(log, ideal) /\ Keeps(log, ideal)
      /\ NodeAgrees(log, ideal, t, applied[n], half[n], starting[n], b)
      /\ EncAgrees(log, ideal, t, h, TwiceOf(b), enc[n])
      /\ SnapAgrees(log, ideal, snap[n])
      BY NodeHeld
<1>4. InLog(log, ideal, applied[n], b)
      BY <1>1, <1>2, <1>3 DEF InLog
<1>5. Handled(x, e) /\ IsProxy(x) /\ Outcome(t, e) = Handle(x, e)
  <2>1. IsProxy(x)
        BY <1>2, AtProxy
  <2>2. Handled(x, e)
        BY <1>1, <2>1, HandleOutcome
  <2> QED
        BY <2>1, <2>2 DEF Outcome, At
<1>6. e.port \in Ports
      BY <1>1, EntryFields
<1> HIDE DEF e, x
<1>7. ASSUME ~NilProxy(t, e), ApplyBlocks(n, e, u)
      PROVE  AgreeInv'
  <2>1. Outcome(t, e).end = "blocks"
        BY <1>7 DEF ApplyBlocks
  <2>2. Outcome(t, e).x = x /\ (BalOf(x, e.prefix).rlocked = TRUE
                                \/ e.op \in {"SET_RATE_LIMITER", "CLOSE"})
        BY <1>5, <2>1 DEF Handled
  <2>3. e.port \in DOMAIN t
    <3>1. e.port \notin DOMAIN t => x = NewHttpReverseProxy
          BY DEF x, At, Get
    <3>2. BalOf(NewHttpReverseProxy, e.prefix).rlocked = FALSE
          BY NewProxy, NilFields
    <3> QED
          BY <1>7, <2>2, <3>1, <3>2 DEF NilProxy
  <2>4. DOMAIN u = DOMAIN t /\ \A q : At(u, q) = At(t, q)
    <3>1. u = Put(t, e.port, At(t, e.port))
          BY <2>2 DEF x
    <3> HIDE DEF u
    <3> QED
          BY <1>2, <2>3, <3>1, PutSame
  <2> HIDE DEF u
  <2>5. \A port : Quiet(t, u, port, b)
    <3>1. \A port : SameRegisters(At(t, port), At(t, port))
          BY <1>2, AtProxy DEF SameRegisters
    <3> QED
          BY <2>4, <3>1 DEF Quiet
  <2>6. NodeAgrees(log, ideal, u, applied[n], half[n], starting[n], b)
        BY <1>3, <2>5, NodeQuiet
  <2>7. EncAgrees(log, ideal, u, h, TwiceOf(b), enc[n])
    <3>1. Kept(log, ideal, h, h)
          BY KeptSelf
    <3> QED
          BY <1>2, <1>3, <2>4, <3>1, EncGrow
  <2>8. NodeInv(log, ideal, u, applied[n], half[n], starting[n], enc[n], snap[n], b)
        BY <1>3, <2>6, <2>7 DEF NodeInv
  <2> QED
        BY <1>0, <1>7, <2>8, AgreeStep DEF ApplyBlocks
<1>8. ASSUME ~NilProxy(t, e), Outcome(t, e).end = "ok"
      PROVE  /\ Moves(t, e, u)
             /\ EncAgrees(log, ideal, u, Held(applied[n] + 1, NoEntry, b), TwiceOf(b), enc[n])
  <2>1. Moves(t, e, u)
        BY <1>1, <1>2, <1>8, HandleMoves
  <2> HIDE DEF u
  <2>2. DOMAIN t \subseteq DOMAIN u
        BY <2>1 DEF Moves
  <2> QED
        BY <1>1, <2>1, <2>2, EncApplied
<1>9. ASSUME ~NilProxy(t, e), ApplyAll(n, e, u)
      PROVE  AgreeInv'
  <2>1. /\ Moves(t, e, u) /\ e.op # "CHG_LB"
        /\ EncAgrees(log, ideal, u, Held(applied[n] + 1, NoEntry, b), TwiceOf(b), enc[n])
        BY <1>8, <1>9 DEF ApplyAll
  <2> HIDE DEF u
  <2>2. NodeAgrees(log, ideal, u, applied[n] + 1, NoEntry, starting[n], b)
        BY <1>1, <1>2, <1>3, <1>4, <2>1, NodeAll DEF e
  <2>3. NodeInv(log, ideal, u, applied[n] + 1, half[n], starting[n], enc[n], snap[n], b)
        BY <1>1, <1>3, <2>1, <2>2 DEF NodeInv
  <2> QED
        BY <1>0, <1>9, <2>3, AgreeStep DEF ApplyAll
<1>10. ASSUME ~NilProxy(t, e), ApplyFirst(n, e, u)
       PROVE  AgreeInv'
  <2> DEFINE r == LbRest(t[e.port], e)
  <2>1. /\ Moves(t, e, u) /\ e.op = "CHG_LB"
        /\ EncAgrees(log, ideal, u, Held(applied[n] + 1, NoEntry, b), TwiceOf(b), enc[n])
        BY <1>8, <1>10 DEF ApplyFirst
  <2> HIDE DEF u
  <2>2. HalfOf(t, e, u, r)
        BY <1>1, <1>2, <2>1, HalfMade
  <2>3. r # NoEntry
        BY <2>2 DEF HalfOf
  <2> HIDE DEF r
  <2>4. NodeAgrees(log, ideal, u, applied[n], r, starting[n], b)
        BY <1>1, <1>2, <1>3, <1>4, <2>1, NodeFirst DEF e, r
  <2>5. Held(applied[n], r, b) = Held(applied[n] + 1, NoEntry, b)
    <3>1. HeldStep(applied[n], b, Len(log))
          BY <1>1, <1>2, <1>3, HeldSteps
    <3> QED
          BY <2>3, <3>1 DEF HeldStep
  <2>6. NodeInv(log, ideal, u, applied[n], r, starting[n], enc[n], snap[n], b)
        BY <1>3, <2>1, <2>4, <2>5 DEF NodeInv
  <2> QED
        BY <1>0, <1>10, <2>6, AgreeStep DEF ApplyFirst, r
<1> QED
      BY <1>1, <1>7, <1>9, <1>10, EndedAgrees DEF e

LEMMA ApplyHalfAgrees ==
    ASSUME IInv, NEW n \in Nodes, ApplyHalf(n)
    PROVE  AgreeInv'
<1> DEFINE r == half[n]
           t == table[n]
           u == IF r.port \in DOMAIN t THEN Put(t, r.port, Outcome(t, r).x) ELSE t
           b == base[n]
<1>0. TypeInv /\ AgreeInv
      BY DEF IInv
<1>1. /\ r # NoEntry /\ r \in EntryType /\ r.op = "ADD_HTTP_PROXY_PREFIX"
      /\ applied[n] + 1 <= Len(log)
      /\ \/ Ended(n)
         \/ /\ Outcome(t, r).end # "panic"
            /\ Values(n, status[n], u, applied[n] + 1, NoEntry, stuck[n], starting[n],
                      enc[n], snap[n], b)
      BY <1>0, ApplyHalfValues
<1>2. IsTable(t) /\ BaseType(b, applied[n], Len(log))
      BY <1>0, NodeFacts
<1>3. /\ applied[n] \in Nat
      /\ IsHistory(log, ideal) /\ Keeps(log, ideal)
      /\ NodeAgrees(log, ideal, t, applied[n], r, starting[n], b)
      /\ SnapAgrees(log, ideal, snap[n])
      BY NodeHeld
<1>4. InLog(log, ideal, applied[n], b)
      BY <1>1, <1>2, <1>3 DEF InLog
<1>5. ASSUME Outcome(t, r).end # "panic"
      PROVE  IF r.port \in DOMAIN t THEN Moves(t, r, u) ELSE u = t
  <2>1. CASE r.port \in DOMAIN t
    <3>1. Moves(t, r, u)
          BY <1>1, <1>2, <1>5, <2>1, HalfMoves
    <3> QED
          BY <2>1, <3>1
  <2>2. CASE r.port \notin DOMAIN t
        BY <2>2
  <2> QED
        BY <2>1, <2>2
<1> HIDE DEF u
<1>6. CASE ~Ended(n)
  <2>1. Outcome(t, r).end # "panic"
        BY <1>1, <1>6
  <2>2. NodeAgrees(log, ideal, u, applied[n] + 1, NoEntry, starting[n], b)
        BY <1>1, <1>2, <1>3, <1>4, <1>5, <2>1, NodeSecond
  <2>3. DOMAIN t \subseteq DOMAIN u
        BY <1>5, <2>1 DEF Moves
  <2>4. EncAgrees(log, ideal, u, Held(applied[n] + 1, NoEntry, b), TwiceOf(b), enc[n])
        BY <1>1, <2>3, EncApplied
  <2>5. NodeInv(log, ideal, u, applied[n] + 1, NoEntry, starting[n], enc[n], snap[n], b)
        BY <1>3, <2>2, <2>4 DEF NodeInv
  <2> QED
        BY <1>0, <1>1, <1>6, <2>5, AgreeStep
<1> QED
      BY <1>6, EndedAgrees

-----------------------------------------------------------------------------
(* The steps of the other goroutines of a node.                            *)

LEMMA EncQuiet ==
    ASSUME NEW l, NEW s, NEW t, NEW h, NEW tw, NEW c, EncAgrees(l, s, t, h, tw, c),
           NEW u, \A port \in ReplicatedIn(l) : port \in DOMAIN t => port \in DOMAIN u
    PROVE  EncAgrees(l, s, u, h, tw, c)
    BY DEF EncAgrees, PortEncoded

LEMMA QuietSelf ==
    ASSUME NEW t, IsTable(t), NEW u, NEW port, port \in DOMAIN u <=> port \in DOMAIN t,
           At(u, port) = At(t, port), NEW b
    PROVE  Quiet(t, u, port, b)
<1>1. IsProxy(At(t, port))
      BY AtProxy
<1>2. SameRegisters(At(t, port), At(u, port))
      BY <1>1 DEF SameRegisters
<1> QED
      BY <1>2 DEF Quiet

(* A proxy that is there becomes y.                                        *)
LEMMA QuietPut ==
    ASSUME NEW t, IsTable(t), NEW q \in Ports, q \in DOMAIN t, NEW y,
           SameRegisters(t[q], y), NEW b, b = NoImage => y.available = t[q].available
    PROVE  /\ DOMAIN Put(t, q, y) = DOMAIN t
           /\ \A port : Quiet(t, Put(t, q, y), port, b)
<1> DEFINE u == Put(t, q, y)
<1>1. IsProxy(y)
      BY DEF SameRegisters
<1>2. Puts(t, q, y, u)
      BY <1>1, PutAt
<1> HIDE DEF u
<1>3. At(t, q) = t[q]
      BY AtProxy
<1>4. DOMAIN u = DOMAIN t /\ At(u, q) = y /\ \A r : r # q => At(u, r) = At(t, r)
      BY <1>2 DEF Puts
<1>5. ASSUME NEW port
      PROVE  Quiet(t, u, port, b)
  <2>1. CASE port = q
        BY <1>3, <1>4, <2>1 DEF Quiet
  <2>2. CASE port # q
        BY <1>4, <2>2, QuietSelf
  <2> QED
        BY <2>1, <2>2
<1> QED
      BY <1>4, <1>5 DEF u

LEMMA QuietAgrees ==
    ASSUME IInv, NEW n \in Nodes,
           NEW u, \A port \in ReplicatedIn(log) : Quiet(table[n], u, port, base[n]),
           NEW sg, sg \subseteq starting[n], NEW c,
           EncAgrees(log, ideal, u, Held(applied[n], half[n], base[n]), TwiceOf(base[n]), c),
           NEW st, Values(n, st, u, applied[n], half[n], stuck[n], sg, c, snap[n], base[n])
    PROVE  AgreeInv'
<1>1. /\ NodeAgrees(log, ideal, table[n], applied[n], half[n], starting[n], base[n])
      /\ SnapAgrees(log, ideal, snap[n])
      BY NodeHeld
<1>2. NodeAgrees(log, ideal, u, applied[n], half[n], sg, base[n])
      BY <1>1, NodeQuiet
<1>3. NodeInv(log, ideal, u, applied[n], half[n], sg, c, snap[n], base[n])
      BY <1>1, <1>2 DEF NodeInv
<1> QED
      BY <1>3, AgreeStep DEF IInv

(* A table whose ports are the same, or more, but for the ones the log     *)
(* does not decide of.                                                     *)
LEMMA QuietTable ==
    ASSUME IInv, NEW n \in Nodes,
           NEW u, \A port \in ReplicatedIn(log) : Quiet(table[n], u, port, base[n]),
           NEW sg, sg \subseteq starting[n],
           NEW st, Values(n, st, u, applied[n], half[n], stuck[n], sg, enc[n], snap[n],
                          base[n])
    PROVE  AgreeInv'
<1>1. EncAgrees(log, ideal, table[n], Held(applied[n], half[n], base[n]),
                TwiceOf(base[n]), enc[n])
      BY NodeHeld
<1>2. \A port \in ReplicatedIn(log) : port \in DOMAIN table[n] => port \in DOMAIN u
      BY DEF Quiet
<1>3. EncAgrees(log, ideal, u, Held(applied[n], half[n], base[n]), TwiceOf(base[n]), enc[n])
      BY <1>1, <1>2, EncQuiet
<1> QED
      BY <1>3, QuietAgrees

LEMMA ServeAgrees ==
    ASSUME IInv, NEW n \in Nodes, NEW port \in Ports, NEW p \in UrlPrefixes,
           ServeHTTP(n, port, p)
    PROVE  AgreeInv'
<1> DEFINE t == table[n]
           y == Served(t[port], p, Locked(n, port))
           u == Put(t, port, y)
<1>1. TypeInv
      BY DEF IInv
<1>2. port \in DOMAIN t /\ PrefixExists(t[port], p) /\ NewTable(n, u)
      BY <1>1, ServeValues
<1>3. IsTable(t) /\ IsProxy(t[port])
      BY <1>1, <1>2, NodeFacts DEF IsTable
<1>4. SameRegisters(t[port], y) /\ y.available = t[port].available
      BY <1>2, <1>3, ServedSame
<1>5. \A q : Quiet(t, u, q, base[n])
      BY <1>2, <1>3, <1>4, QuietPut
<1> HIDE DEF u
<1>6. Values(n, status[n], u, applied[n], half[n], stuck[n], starting[n], enc[n], snap[n],
             base[n])
      BY <1>2 DEF NewTable
<1> QED
      BY <1>5, <1>6, QuietTable

LEMMA StartAgrees ==
    ASSUME IInv, NEW n \in Nodes, NEW port \in Ports, Start(n, port)
    PROVE  AgreeInv'
<1> DEFINE t == table[n]
           y == [t[port] EXCEPT !.available = TRUE]
           u == IF port \in DOMAIN t THEN Put(t, port, y) ELSE t
<1>1. TypeInv
      BY DEF IInv
<1>2. /\ port \in starting[n]
      /\ Values(n, status[n], u, applied[n], half[n], stuck[n], starting[n] \ {port},
                enc[n], snap[n], base[n])
      BY <1>1, StartValues
<1>3. IsTable(t)
      BY <1>1, NodeFacts
<1>4. NodeAgrees(log, ideal, t, applied[n], half[n], starting[n], base[n])
      BY NodeHeld
<1>5. base[n] # NoImage
      BY <1>2, <1>4 DEF NodeAgrees
<1>6. \A q : Quiet(t, u, q, base[n])
  <2>1. CASE port \in DOMAIN t
    <3>1. SameRegisters(t[port], y)
          BY <1>3, <2>1, StartedSame DEF IsTable
    <3> HIDE DEF y
    <3>2. \A q : Quiet(t, Put(t, port, y), q, base[n])
          BY <1>3, <1>5, <2>1, <3>1, QuietPut
    <3> QED
          BY <2>1, <3>2
  <2>2. CASE port \notin DOMAIN t
        BY <1>3, <2>2, QuietSelf
  <2> QED
        BY <2>1, <2>2
<1> HIDE DEF u
<1> QED
      BY <1>2, <1>6, QuietTable

(* A port that is deleted has been closed by an entry.                     *)
LEMMA ClosedAgrees ==
    ASSUME IInv, NEW n \in Nodes, NEW q \in Ports, Closed(n, q)
    PROVE  AgreeInv'
<1> DEFINE t == table[n]
           u == Del(t, q)
           h == Held(applied[n], half[n], base[n])
           d == WithRest(enc[n], q, t[q])
           c == IF enc[n] # NoImage /\ q \in enc[n].open THEN d ELSE enc[n]
<1>1. TypeInv
      BY DEF IInv
<1>2. /\ q \in DOMAIN t /\ t[q].shutdown = "taken"
      /\ Values(n, status[n], u, applied[n], half[n], stuck[n], starting[n], c, snap[n],
                base[n])
      BY <1>1, ClosedValues
<1>3. IsTable(t) /\ EncType(enc[n], applied[n])
      BY <1>1, NodeFacts
<1>4. /\ h \in Nat /\ applied[n] <= h /\ applied[n] \in Nat
      /\ EncAgrees(log, ideal, t, h, TwiceOf(base[n]), enc[n])
      /\ \A port \in ReplicatedIn(log) :
           ProxyAgrees(log, ideal, t, port, applied[n], h, TwiceOf(base[n]))
      BY NodeHeld
<1>5. q \notin ReplicatedIn(log)
  <2>1. At(t, q).shutdown = "taken"
        BY <1>2, <1>3, AtProxy
  <2> QED
        BY <1>4, <2>1 DEF ProxyAgrees
<1>6. DOMAIN u = DOMAIN t \ {q} /\ \A port : port # q => At(u, port) = At(t, port)
      BY <1>3, DelAt
<1> HIDE DEF u, h, d
<1>7. \A port \in ReplicatedIn(log) : Quiet(t, u, port, base[n])
  <2>1. ASSUME NEW port \in ReplicatedIn(log)
        PROVE  Quiet(t, u, port, base[n])
    <3>1. port # q
          BY <1>5
    <3>2. (port \in DOMAIN u <=> port \in DOMAIN t) /\ At(u, port) = At(t, port)
          BY <1>6, <3>1
    <3> QED
          BY <1>3, <3>2, QuietSelf
  <2> QED
        BY <2>1
<1>8. \A port \in ReplicatedIn(log) : port \in DOMAIN t => port \in DOMAIN u
      BY <1>7 DEF Quiet
<1>9. EncAgrees(log, ideal, u, h, TwiceOf(base[n]), c)
  <2>1. CASE enc[n] # NoImage /\ q \in enc[n].open
    <3>1. EncAgrees(log, ideal, u, h, TwiceOf(base[n]), d)
          BY <1>2, <1>3, <1>4, <1>5, <1>8, <2>1, EncRest DEF d
    <3> QED
          BY <2>1, <3>1
  <2>2. CASE ~(enc[n] # NoImage /\ q \in enc[n].open)
    <3>1. EncAgrees(log, ideal, u, h, TwiceOf(base[n]), enc[n])
          BY <1>4, <1>8, EncQuiet
    <3> QED
          BY <2>2, <3>1
  <2> QED
        BY <2>1, <2>2
<1> HIDE DEF c
<1> QED
      BY <1>2, <1>7, <1>9, QuietAgrees DEF h

-----------------------------------------------------------------------------
(* The steps of the encoder, and of a process that starts.                 *)

LEMMA EncAgreesStep ==
    ASSUME IInv, NEW n \in Nodes, NEW c,
           EncAgrees(log, ideal, table[n], Held(applied[n], half[n], base[n]),
                     TwiceOf(base[n]), c),
           NewEnc(n, c)
    PROVE  AgreeInv'
<1>1. /\ NodeAgrees(log, ideal, table[n], applied[n], half[n], starting[n], base[n])
      /\ SnapAgrees(log, ideal, snap[n])
      BY NodeHeld
<1>2. NodeInv(log, ideal, table[n], applied[n], half[n], starting[n], c, snap[n], base[n])
      BY <1>1 DEF NodeInv
<1> QED
      BY <1>2, AgreeStep DEF IInv, NewEnc

LEMMA SnapshotAgrees ==
    ASSUME IInv, NEW n \in Nodes, Snapshot(n) \/ PersistFails(n)
    PROVE  AgreeInv'
<1> DEFINE h == Held(applied[n], half[n], base[n])
           c == [from |-> applied[n], image |-> <<>>, ports |-> DOMAIN table[n],
                 open |-> {}]
<1>1. TypeInv
      BY DEF IInv
<1>2. CASE Snapshot(n)
  <2>1. NewEnc(n, c)
        BY <1>1, <1>2, SnapshotValues
  <2>2. \A port \in ReplicatedIn(log) : PortAgrees(ideal, table[n], port, applied[n], h)
        BY NodeHeld DEF ProxyAgrees, Agrees
  <2>3. c.from = applied[n] /\ DOMAIN c.image = {} /\ c.ports = DOMAIN table[n]
        BY EmptyTable
  <2> HIDE DEF c, h
  <2>4. EncAgrees(log, ideal, table[n], h, TwiceOf(base[n]), c)
        BY <2>2, <2>3, EncStarts
  <2> QED
        BY <2>1, <2>4, EncAgreesStep DEF h
<1>3. CASE PersistFails(n)
  <2>1. NewEnc(n, NoImage)
        BY <1>1, <1>3, PersistFailsValues
  <2>2. EncAgrees(log, ideal, table[n], h, TwiceOf(base[n]), NoImage)
        BY DEF EncAgrees
  <2> QED
        BY <2>1, <2>2, EncAgreesStep
<1> QED
      BY <1>2, <1>3

LEMMA EncodeAgrees ==
    ASSUME IInv, NEW n \in Nodes, NEW q \in Ports, EncodePaths(n, q) \/ EncodeRest(n, q)
    PROVE  AgreeInv'
<1> DEFINE t == table[n]
           h == Held(applied[n], half[n], base[n])
           tw == TwiceOf(base[n])
<1>1. TypeInv
      BY DEF IInv
<1>2. IsTable(t) /\ EncType(enc[n], applied[n]) /\ OpenThere(enc[n], t)
      /\ applied[n] <= Len(log)
      BY <1>1, NodeFacts
<1>3. /\ h \in Nat /\ applied[n] <= h /\ applied[n] \in Nat
      /\ Len(log) \in Nat /\ Keeps(log, ideal)
      /\ EncAgrees(log, ideal, t, h, tw, enc[n])
      /\ \A port \in ReplicatedIn(log) :
           ProxyAgrees(log, ideal, t, port, applied[n], h, tw)
      BY NodeHeld
<1>4. q \in ReplicatedIn(log) => /\ Agrees(log, ideal, t, q, applied[n], h, tw)
                                 /\ FlagsAgree(ideal, t, q, h, tw)
      BY <1>3 DEF ProxyAgrees
<1> HIDE DEF h, tw
<1>5. CASE EncodePaths(n, q)
  <2>1. /\ enc[n] # NoImage /\ enc[n].open = {} /\ q \in DOMAIN t
        /\ NewEnc(n, WithPaths(enc[n], q, t[q]))
        BY <1>1, <1>5, EncodePathsValues
  <2>2. enc[n].from \in Nat /\ enc[n].from <= applied[n]
        BY <1>2, <2>1 DEF EncType
  <2>3. Kept(log, ideal, enc[n].from, applied[n])
        BY <1>2, <1>3, <2>2, KeptUpTo
  <2>4. EncAgrees(log, ideal, t, h, tw, WithPaths(enc[n], q, t[q]))
        BY <1>2, <1>3, <1>4, <2>1, <2>3, EncPaths
  <2> QED
        BY <2>1, <2>4, EncAgreesStep DEF h, tw
<1>6. CASE EncodeRest(n, q)
  <2>1. /\ enc[n] # NoImage /\ q \in enc[n].open
        /\ NewEnc(n, WithRest(enc[n], q, t[q]))
        BY <1>1, <1>6, EncodeRestValues
  <2>2. q \in DOMAIN t
        BY <1>2, <2>1 DEF OpenThere
  <2>3. EncAgrees(log, ideal, t, h, tw, WithRest(enc[n], q, t[q]))
        BY <1>2, <1>3, <1>4, <2>1, <2>2, EncRest
  <2> QED
        BY <2>1, <2>3, EncAgreesStep DEF h, tw
<1> QED
      BY <1>5, <1>6

LEMMA PersistAgrees ==
    ASSUME IInv, NEW n \in Nodes, Persist(n)
    PROVE  AgreeInv'
<1> DEFINE t == table[n]
           c == enc[n]
           h == Held(applied[n], half[n], base[n])
           tw == TwiceOf(base[n])
           i == [from |-> c.from, image |-> c.image, to |-> HeldTo(n),
                 twice |-> Twice(n) \cup {log[k].op : k \in c.from + 1 .. HeldTo(n)}]
<1>1. TypeInv
      BY DEF IInv
<1>2. /\ c # NoImage /\ c.open = {} /\ c.ports \cap DOMAIN t \subseteq DOMAIN c.image
      /\ Values(n, status[n], t, applied[n], half[n], stuck[n], starting[n], NoImage, i,
                base[n])
      BY <1>1, PersistValues
<1>3. /\ EncAgrees(log, ideal, t, h, tw, c) /\ Passed(log, ideal, h)
      /\ NodeAgrees(log, ideal, t, applied[n], half[n], starting[n], base[n])
      /\ \A port \in ReplicatedIn(log) :
           ProxyAgrees(log, ideal, t, port, applied[n], h, tw)
      BY NodeHeld
<1>4. \A port \in ReplicatedIn(log) : PortAgrees(ideal, t, port, applied[n], h)
      BY <1>3 DEF ProxyAgrees, Agrees
<1>5. HeldTo(n) = h /\ Twice(n) = tw
      BY <1>1, HeldIs DEF Twice, TwiceOf
<1>6. i.from = c.from /\ i.image = c.image /\ i.to = h /\ i.twice = tw \cup OpsIn(log, c.from, h)
      BY <1>5 DEF OpsIn
<1> HIDE DEF h, tw, i
<1>7. SnapAgrees(log, ideal, i)
      BY <1>2, <1>3, <1>4, <1>6, Saves
<1>8. EncAgrees(log, ideal, t, h, tw, NoImage)
      BY DEF EncAgrees
<1>9. NodeInv(log, ideal, t, applied[n], half[n], starting[n], NoImage, i, base[n])
      BY <1>3, <1>7, <1>8 DEF NodeInv, h, tw
<1> QED
      BY <1>2, <1>9, AgreeStep DEF IInv

LEMMA BootAgrees ==
    ASSUME IInv, NEW n \in Nodes, Boot(n)
    PROVE  AgreeInv'
<1> DEFINE t == table[n]
<1>1. TypeInv /\ AgreeInv
      BY DEF IInv
<1>2. IsTable(t)
      BY <1>1, NodeFacts
<1>3. \A port : Quiet(t, t, port, base[n])
      BY <1>2, QuietSelf
<1>4. CASE FirstStart(n) \/ Join(n) \/ RestartEmpty(n)
  <2>1. \E st : Values(n, st, t, applied[n], half[n], stuck[n], starting[n], enc[n],
                       snap[n], base[n])
        BY <1>1, <1>4, FirstStartValues, JoinValues, RestartEmptyValues
  <2> QED
        BY <1>3, <2>1, QuietTable
<1>5. CASE AddConfig(n)
  <2> DEFINE u == ConfigTable(n, t)
  <2>1. \E st : Values(n, st, u, applied[n], half[n], stuck[n], starting[n], enc[n],
                       snap[n], base[n])
        BY <1>1, <1>5, AddConfigValues
  <2>2. /\ DOMAIN u = DOMAIN Config[n] \cup DOMAIN t
        /\ \A port : port \notin DOMAIN Config[n] => At(u, port) = At(t, port)
        BY <1>2, ConfigTableType
  <2> HIDE DEF u
  <2>3. \A port \in ReplicatedIn(log) : port \notin DOMAIN Config[n]
        BY DEF ReplicatedIn
  <2>4. \A port \in ReplicatedIn(log) : Quiet(t, u, port, base[n])
        BY <1>2, <2>2, <2>3, QuietSelf
  <2> QED
        BY <2>1, <2>4, QuietTable
<1>6. CASE Restart(n)
  <2> DEFINE i == snap[n]
  <2>1. PICK st \in Running :
          /\ ~Runs(n) /\ i # NoImage /\ ~RestorePanics(i.image)
          /\ Values(n, st, RestoredTable(i.image), i.from, half[n], stuck[n],
                    DOMAIN i.image, enc[n], i, i)
        BY <1>1, <1>6, RestartValues
  <2>2. half[n] = NoEntry /\ enc[n] = NoImage
        BY <1>1, <2>1, NodeFacts DEF IdleType, Runs
  <2>3. /\ IsHistory(log, ideal) /\ Keeps(log, ideal) /\ SnapAgrees(log, ideal, i)
        BY NodeHeld
  <2>4. SnapType(i, Len(log))
        BY <1>1, NodeFacts
  <2>5. NodeAgrees(log, ideal, RestoredTable(i.image), i.from, NoEntry, DOMAIN i.image, i)
        BY <2>1, <2>3, <2>4, NodeRestored
  <2>6. EncAgrees(log, ideal, RestoredTable(i.image), Held(i.from, NoEntry, i),
                  TwiceOf(i), NoImage)
        BY DEF EncAgrees
  <2>7. NodeInv(log, ideal, RestoredTable(i.image), i.from, half[n], DOMAIN i.image,
                enc[n], i, i)
        BY <2>2, <2>3, <2>5, <2>6 DEF NodeInv
  <2> QED
        BY <1>1, <2>1, <2>7, AgreeStep
<1> QED
      BY <1>4, <1>5, <1>6, <1>1, JoinFailsValues, EndedAgrees DEF Boot

LEMMA LocalAgrees ==
    ASSUME IInv, NEW n \in Nodes, Local(n)
    PROVE  AgreeInv'
<1>1. CASE Fsm(n)
      BY <1>1, ApplyAgrees, ApplyHalfAgrees DEF Fsm
<1>2. CASE Kill(n)
      BY <1>2, KillValues, EndedAgrees DEF IInv
<1>3. CASE \E port \in Ports :
             \/ Closed(n, port) \/ Start(n, port)
             \/ EncodePaths(n, port) \/ EncodeRest(n, port)
             \/ \E p \in UrlPrefixes : ServeHTTP(n, port, p)
      BY <1>3, ClosedAgrees, StartAgrees, EncodeAgrees, ServeAgrees
<1> QED
      BY <1>1, <1>2, <1>3, BootAgrees, SnapshotAgrees, PersistAgrees DEF Local

-----------------------------------------------------------------------------
(* A command is appended.                                                  *)

LEMMA ReplicatedLess ==
    ASSUME NEW l \in Seq(EntryType), NEW l2 \in Seq(EntryType), Len(l) <= Len(l2),
           \A i \in 1 .. Len(l) : l2[i] = l[i]
    PROVE  ReplicatedIn(l2) \subseteq ReplicatedIn(l)
<1>1. DOMAIN l = 1 .. Len(l) /\ DOMAIN l2 = 1 .. Len(l2)
      /\ Len(l) \in Nat /\ Len(l2) \in Nat
      OBVIOUS
<1>2. 1 .. Len(l) \subseteq 1 .. Len(l2)
      BY <1>1
<1> QED
      BY <1>1, <1>2 DEF ReplicatedIn

(* What has been checked on tables that had all of the log.                *)
LEMMA CheckedPasses ==
    ASSUME IInv, NEW n \in Nodes, applied[n] = Len(log), NEW c \in Commands,
           Checked(table[n], c), c.op \notin Unchecked, c.port \in ReplicatedIn(log),
           NEW e, e.op = c.op, e.port = c.port, e.prefix = c.prefix
    PROVE  NotEnded(ideal[applied[n] + 1], e)
<1> DEFINE t == table[n]
           a == applied[n]
           h == Held(a, half[n], base[n])
<1>1. /\ a \in Nat /\ IsTable(t)
      /\ (half[n] # NoEntry => a + 1 <= Len(log))
      /\ BaseType(base[n], a, Len(log))
      BY NodeFacts DEF IInv
<1>2. half[n] = NoEntry
      BY <1>1
<1>3. h = a
      BY <1>1, <1>2 DEF Held, Hold, BaseType
<1>4. Agrees(log, ideal, t, e.port, a, a, TwiceOf(base[n]))
  <2>1. \A port \in ReplicatedIn(log) :
          ProxyAgrees(log, ideal, t, port, a, h, TwiceOf(base[n]))
        BY NodeHeld
  <2> QED
        BY <1>3, <2>1 DEF ProxyAgrees
<1>5. /\ e.op # "ADD_HTTP_PROXY" => c.port \in DOMAIN t
      /\ e.op = "CHG_LB" => PrefixExists(t[c.port], c.prefix)
      BY DEF Checked, Unchecked
<1>6. ~NilProxy(t, e)
      BY <1>5 DEF NilProxy
<1>7. e.op = "CHG_LB" => Mode(t, e.port, e.prefix) # ""
  <2>1. ASSUME e.op = "CHG_LB"
        PROVE  Mode(t, e.port, e.prefix) # ""
    <3>1. c.port \in DOMAIN t /\ PrefixExists(t[c.port], c.prefix)
          BY <1>5, <2>1
    <3>2. At(t, c.port) = t[c.port] /\ IsProxy(At(t, c.port))
          BY <1>1, <3>1, AtProxy
    <3>3. BalOf(At(t, c.port), c.prefix).mode # ""
          BY <3>1, <3>2, BalType
    <3> QED
          BY <3>3 DEF Mode, Bal
  <2> QED
        BY <2>1
<1> QED
      BY <1>1, <1>4, <1>6, <1>7, ExactPasses

LEMMA AppendAgrees ==
    ASSUME IInv, NEW n \in Nodes, NEW c \in Commands, AppendLogEntry(n, c),
           Checked(table[n], c) \/ c.op \in Unchecked
    PROVE  AgreeInv'
<1> DEFINE e == Fresh(n, c)
           l == log
           s == ideal
           l2 == Append(log, e)
           s2 == Append(ideal, IdealNext(Last(ideal), e))
<1>1. /\ e \in EntryType /\ e.hosts # <<>>
      /\ e.fresh = (applied[n] = Len(log))
      /\ e.op = c.op /\ e.port = c.port /\ e.prefix = c.prefix
      /\ log' = l2 /\ ideal' = s2
      /\ UNCHANGED <<status, table, applied, half, stuck, starting, enc, snap, base>>
      BY AppendValues
<1>2. TypeInv /\ AgreeInv
      BY DEF IInv
<1>3. IsHistory(l, s) /\ Keeps(l, s) /\ FreshPasses(l, s)
      BY <1>2 DEF AgreeInv
<1> HIDE DEF e
<1>4. /\ Begins(l, s, l2, s2) /\ Len(l2) = Len(l) + 1 /\ l2[Len(l) + 1] = e
      /\ IsHistory(l2, s2) /\ Keeps(l2, s2)
      BY <1>1, <1>3, AppendHistory
<1> HIDE DEF l2, s2
<1>5. ReplicatedIn(l2) \subseteq ReplicatedIn(l)
  <2>1. l \in Seq(EntryType) /\ l2 \in Seq(EntryType)
        BY <1>3, <1>4 DEF IsHistory
  <2>2. Len(l) <= Len(l2) /\ \A i \in 1 .. Len(l) : l2[i] = l[i]
        BY <1>4 DEF Begins
  <2> HIDE DEF l
  <2> QED
        BY <2>1, <2>2, ReplicatedLess
<1>6. Grows(l, s, l2, s2)
      BY <1>4, <1>5 DEF Grows
<1>7. FreshPasses(l2, s2)
  <2>1. ASSUME NEW i \in 1 .. Len(l2), l2[i].fresh = TRUE, l2[i].op \notin Unchecked,
               l2[i].port \in ReplicatedIn(l2)
        PROVE  NotEnded(s2[i], l2[i])
    <3>1. Len(l) \in Nat /\ Len(l2) = Len(l) + 1
          BY <1>4 DEF Begins
    <3>2. CASE i \in 1 .. Len(l)
      <4>1. i - 1 \in 0 .. Len(l) /\ (i - 1) + 1 = i
            BY <3>1, <3>2
      <4>2. l2[i] = l[i] /\ s2[i] = s[i]
            BY <1>4, <3>2, <4>1 DEF Begins
      <4>3. l[i].port \in ReplicatedIn(l) /\ l[i].fresh = TRUE /\ l[i].op \notin Unchecked
            BY <1>5, <2>1, <4>2
      <4>4. NotEnded(s[i], l[i])
            BY <1>3, <3>2, <4>3 DEF FreshPasses
      <4> QED
            BY <4>2, <4>4
    <3>3. CASE i = Len(l) + 1
      <4>1. Len(l) \in 0 .. Len(l)
            BY <3>1
      <4>2. l2[i] = e /\ s2[i] = s[Len(l) + 1]
            BY <1>4, <3>3, <4>1 DEF Begins
      <4>3. applied[n] = Len(log)
            BY <1>1, <2>1, <4>2
      <4>4. /\ c.op \notin Unchecked /\ Checked(table[n], c)
            /\ c.port \in ReplicatedIn(l)
            BY <1>1, <1>5, <2>1, <4>2
      <4>5. NotEnded(ideal[applied[n] + 1], e)
            BY <1>1, <4>3, <4>4, CheckedPasses
      <4> QED
            BY <4>2, <4>3, <4>5
    <3>4. i \in 1 .. Len(l) \/ i = Len(l) + 1
          BY <3>1
    <3> QED
          BY <3>2, <3>3, <3>4
  <2> QED
        BY <2>1 DEF FreshPasses
<1>8. ASSUME NEW m \in Nodes
      PROVE  NodeInv(l2, s2, table[m], applied[m], half[m], starting[m], enc[m], snap[m],
                     base[m])
  <2> DEFINE h == Held(applied[m], half[m], base[m])
  <2>1. /\ h \in Nat /\ applied[m] <= h /\ h <= Len(l) /\ applied[m] \in Nat
        /\ NodeAgrees(l, s, table[m], applied[m], half[m], starting[m], base[m])
        /\ EncAgrees(l, s, table[m], h, TwiceOf(base[m]), enc[m])
        /\ SnapAgrees(l, s, snap[m])
        BY NodeHeld
  <2>2. /\ applied[m] <= Len(l) /\ BaseType(base[m], applied[m], Len(l))
        /\ (half[m] # NoEntry => applied[m] + 1 <= Len(l))
        /\ EncType(enc[m], applied[m]) /\ SnapType(snap[m], Len(l))
        BY <1>2, NodeFacts
  <2> HIDE DEF h, l, s
  <2>3. NodeAgrees(l2, s2, table[m], applied[m], half[m], starting[m], base[m])
        BY <1>6, <2>1, <2>2, NodeSame
  <2>4. EncAgrees(l2, s2, table[m], h, TwiceOf(base[m]), enc[m])
        BY <1>6, <2>1, <2>2, EncSame
  <2>5. SnapAgrees(l2, s2, snap[m])
        BY <1>6, <2>1, <2>2, SnapSame
  <2> QED
        BY <2>3, <2>4, <2>5 DEF NodeInv, h
<1> HIDE DEF l, s
<1> QED
      BY <1>1, <1>4, <1>7, <1>8 DEF AgreeInv

-----------------------------------------------------------------------------
(* The invariant holds.                                                    *)

LEMMA AgreeInit == Init => AgreeInv
<1> SUFFICES ASSUME Init PROVE AgreeInv
    OBVIOUS
<1>1. /\ log = <<>> /\ ideal = << <<>> >>
      /\ \A n \in Nodes : /\ table[n] = <<>> /\ applied[n] = 0 /\ half[n] = NoEntry
                          /\ starting[n] = {} /\ enc[n] = NoImage /\ snap[n] = NoImage
                          /\ base[n] = NoImage
      BY DEF Init
<1>2. /\ Len(log) = 0 /\ Len(ideal) = 1 /\ ideal[1] = <<>> /\ log \in Seq(EntryType)
      /\ ideal \in Seq({<<>>})
      BY <1>1
<1>3. IsHistory(log, ideal)
  <2>1. IsTable(<<>>) /\ Unlocked(<<>>)
        BY EmptyTable
  <2>2. 1 .. Len(ideal) = {1} /\ 1 .. Len(log) = {} /\ Len(ideal) = Len(log) + 1
        BY <1>2
  <2> QED
        BY <1>2, <2>1, <2>2 DEF IsHistory
<1>4. Keeps(log, ideal)
  <2>1. 0 .. Len(log) = {0}
        BY <1>2
  <2> QED
        BY <2>1, KeptSelf DEF Keeps
<1>5. FreshPasses(log, ideal)
  <2>1. 1 .. Len(log) = {}
        BY <1>2
  <2> QED
        BY <2>1 DEF FreshPasses
<1>6. ASSUME NEW n \in Nodes
      PROVE  NodeInv(log, ideal, table[n], applied[n], half[n], starting[n], enc[n],
                     snap[n], base[n])
  <2>1. NodeAgrees(log, ideal, <<>>, 0, NoEntry, {}, NoImage)
        BY <1>3, NodeEmpty
  <2>2. NodeInv(log, ideal, <<>>, 0, NoEntry, {}, NoImage, NoImage, NoImage)
        BY <2>1 DEF NodeInv, EncAgrees, SnapAgrees
  <2> QED
        BY <1>1, <2>2
<1> QED
      BY <1>3, <1>4, <1>5, <1>6 DEF AgreeInv

LEMMA AgreeNext == IInv /\ [Next]_vars => AgreeInv'
<1> SUFFICES ASSUME IInv, [Next]_vars PROVE AgreeInv'
    OBVIOUS
<1>1. CASE Next
  <2>1. PICK n \in Nodes :
          \/ \E c \in Commands : AppendLogEntry(n, c)
                                 /\ (Checked(table[n], c) \/ c.op \in Unchecked)
          \/ Local(n)
        BY <1>1, NextSteps
  <2> QED
        BY <2>1, AppendAgrees, LocalAgrees
<1>2. CASE UNCHANGED vars
  <2>1. /\ log' = log /\ ideal' = ideal /\ table' = table /\ applied' = applied
        /\ half' = half /\ starting' = starting /\ enc' = enc /\ snap' = snap
        /\ base' = base
        BY <1>2 DEF vars
  <2>2. AgreeInv
        BY DEF IInv
  <2> QED
        BY <2>1, <2>2 DEF AgreeInv
<1> QED
      BY <1>1, <1>2

(* The inductive invariant: the types, the history of the log, and for     *)
(* every node what its table, the image it encodes and the image it has on *)
(* disk have in common with the log - whatever requests, snapshots, kills  *)
(* and restarts come between the entries that Apply handles.               *)
THEOREM IInvHolds == Spec => []IInv
<1>1. Init => IInv
      BY TypeInit, AgreeInit DEF IInv
<1>2. IInv /\ [Next]_vars => IInv'
      BY TypeNext, AgreeNext DEF IInv
<1> QED
      BY <1>1, <1>2, PTL DEF Spec

-----------------------------------------------------------------------------
(* The nodes agree.                                                        *)

(* Proxies with the same registers.                                        *)
LEMMA SameFields ==
    ASSUME NEW x, IsProxy(x), NEW y, IsProxy(y),
           \A p : BalOf(x, p).mode = BalOf(y, p).mode
    PROVE  /\ BalancerType(x) = BalancerType(y)
           /\ (\A p : BalOf(x, p).mode # "" => BalOf(x, p).hosts = BalOf(y, p).hosts)
              => Paths(x) = Paths(y)
<1>1. \A p : p \in DOMAIN x.mapping <=> p \in DOMAIN y.mapping
  <2>1. ASSUME NEW z, IsProxy(z), NEW p
        PROVE  PrefixExists(z, p) <=> BalOf(z, p).mode # ""
        BY <2>1, BalType
  <2>2. \A p : PrefixExists(x, p) <=> PrefixExists(y, p)
        BY <2>1
  <2> QED
        BY <2>2 DEF PrefixExists
<1>2. DOMAIN x.mapping = DOMAIN y.mapping
      BY <1>1
<1>3. \A p \in DOMAIN x.mapping : /\ BalOf(x, p) = x.mapping[p] /\ BalOf(x, p).mode # ""
                                  /\ BalOf(y, p) = y.mapping[p]
      BY <1>1, BalType DEF PrefixExists
<1>4. BalancerType(x) = BalancerType(y)
  <2>1. \A p \in DOMAIN x.mapping : x.mapping[p].mode = y.mapping[p].mode
        BY <1>3
  <2> QED
        BY <1>2, <2>1 DEF BalancerType
<1>5. ASSUME \A p : BalOf(x, p).mode # "" => BalOf(x, p).hosts = BalOf(y, p).hosts
      PROVE  Paths(x) = Paths(y)
  <2>1. \A p \in DOMAIN x.mapping : x.mapping[p].hosts = y.mapping[p].hosts
        BY <1>3, <1>5
  <2> QED
        BY <1>2, <2>1 DEF Paths
<1> QED
      BY <1>4, <1>5

LEMMA SameFlags ==
    ASSUME NEW f, IsMap(f, BOOLEAN), NEW g, IsMap(g, BOOLEAN),
           \A p : FlagOf(f, p) = FlagOf(g, p)
    PROVE  f = g
<1>1. \A p : p \in DOMAIN f <=> p \in DOMAIN g
      BY DEF FlagOf
<1>2. DOMAIN f = DOMAIN g
      BY <1>1
<1>3. \A p \in DOMAIN f : f[p] = g[p]
      BY <1>1 DEF FlagOf, IsMap
<1>4. f = [p \in DOMAIN f |-> f[p]] /\ g = [p \in DOMAIN g |-> g[p]]
      BY DEF IsMap
<1> QED
      BY <1>2, <1>3, <1>4

LEMMA SoundIs ==
    ASSUME IsHistory(log, ideal), NEW a \in Nat, a <= Len(log), NEW port, Sound(port, a)
    PROVE  SoundIn(log, ideal, port, a)
<1>1. ASSUME NEW j \in 1 .. a, log[j].port = port
      PROVE  /\ ~NilProxy(ideal[j], log[j])
             /\ Passes(Bal(ideal[j], log[j].port, log[j].prefix), log[j])
  <2>1. Len(log) \in Nat /\ Len(ideal) = Len(log) + 1 /\ log \in Seq(EntryType)
        BY DEF IsHistory
  <2>2. j \in 1 .. Len(log) /\ j \in 1 .. Len(ideal)
        BY <2>1
  <2>3. log[j] \in EntryType /\ log[j].hosts # <<>> /\ IsTable(ideal[j])
        /\ Unlocked(ideal[j])
        BY <2>1, <2>2 DEF IsHistory
  <2>4. ~NilProxy(ideal[j], log[j]) /\ Outcome(ideal[j], log[j]).end # "panic"
        BY <1>1 DEF Sound
  <2> QED
        BY <2>3, <2>4, OutcomePanics
<1> QED
      BY <1>1 DEF SoundIn

(* A node that has caught up holds nothing of later entries.               *)
LEMMA CaughtUpExact ==
    ASSUME IInv, NEW n \in Nodes, CaughtUp(n), NEW a, a = applied[n]
    PROVE  /\ a \in Nat /\ a <= Len(log)
           /\ IsHistory(log, ideal) /\ FreshPasses(log, ideal)
           /\ NodeAgrees(log, ideal, table[n], a, half[n], starting[n], base[n])
           /\ \A port \in ReplicatedIn(log) :
                /\ SameAs(log, ideal, table[n], port, a, TwiceOf(base[n]))
                /\ FlagsAgree(ideal, table[n], port, a, TwiceOf(base[n]))
<1> DEFINE h == Held(a, half[n], base[n])
<1>1. /\ a \in Nat /\ a <= Len(log) /\ IsHistory(log, ideal)
      /\ NodeAgrees(log, ideal, table[n], a, half[n], starting[n], base[n])
      /\ \A port \in ReplicatedIn(log) :
           ProxyAgrees(log, ideal, table[n], port, a, h, TwiceOf(base[n]))
  <2>1. \A k : k = h =>
          /\ a \in Nat /\ a <= k /\ k <= Len(log) /\ k \in Nat /\ Len(log) \in Nat
          /\ IsHistory(log, ideal)
          /\ NodeAgrees(log, ideal, table[n], a, half[n], starting[n], base[n])
          /\ \A port \in ReplicatedIn(log) :
               ProxyAgrees(log, ideal, table[n], port, a, k, TwiceOf(base[n]))
        BY NodeHeld
  <2> QED
        BY <2>1
<1>2. BaseType(base[n], a, Len(log))
      BY NodeFacts DEF IInv
<1>3. h = a
      BY <1>1, <1>2 DEF CaughtUp, Held, Hold, BaseType
<1> HIDE DEF h
<1>4. ASSUME NEW port \in ReplicatedIn(log)
      PROVE  /\ SameAs(log, ideal, table[n], port, a, TwiceOf(base[n]))
             /\ FlagsAgree(ideal, table[n], port, a, TwiceOf(base[n]))
  <2>1. Agrees(log, ideal, table[n], port, a, a, TwiceOf(base[n]))
        /\ FlagsAgree(ideal, table[n], port, a, TwiceOf(base[n]))
        BY <1>1, <1>3 DEF ProxyAgrees
  <2> QED
        BY <1>1, <2>1, Exact
<1>5. FreshPasses(log, ideal)
      BY DEF IInv, AgreeInv
<1> QED
      BY <1>1, <1>4, <1>5

LEMMA ReplicasSame ==
    ASSUME IInv, NEW n \in Nodes, CaughtUp(n), NEW port \in Replicated,
           NEW t, t = ideal[applied[n] + 1]
    PROVE  /\ port \in DOMAIN table[n] <=> port \in DOMAIN t
           /\ port \in DOMAIN t => Same(n, port, table[n][port], t[port])
<1> DEFINE a == applied[n]
           u == table[n]
           x == u[port]
           y == t[port]
           tw == TwiceOf(base[n])
<1>1. port \in ReplicatedIn(log)
      BY DEF Replicated, ReplicatedIn
<1>2. /\ a \in Nat /\ a <= Len(log) /\ IsHistory(log, ideal)
      /\ NodeAgrees(log, ideal, u, a, half[n], starting[n], base[n])
      /\ SameAs(log, ideal, u, port, a, tw)
      /\ FlagsAgree(ideal, u, port, a, tw)
      BY <1>1, CaughtUpExact
<1>3. IsTable(u)
      BY NodeFacts DEF IInv
<1>4. IsTable(t)
  <2>1. a + 1 \in 1 .. Len(ideal)
        BY <1>2 DEF IsHistory
  <2> QED
        BY <1>2, <2>1 DEF IsHistory
<1>5. port \in DOMAIN u <=> port \in DOMAIN t
      BY <1>2 DEF SameAs
<1>6. base[n] = NoImage => FirstAgrees(log, ideal, u, port, a)
      BY <1>1, <1>2 DEF NodeAgrees
<1>7. ASSUME port \in DOMAIN t
      PROVE  Same(n, port, x, y)
  <2>1. At(u, port) = x /\ At(t, port) = y /\ IsProxy(x) /\ IsProxy(y)
        BY <1>3, <1>4, <1>5, <1>7, AtProxy
  <2>2. /\ \A p : Mode(u, port, p) = BalOf(x, p).mode /\ HostsOf(u, port, p) = BalOf(x, p).hosts
        /\ \A p : Mode(t, port, p) = BalOf(y, p).mode /\ HostsOf(t, port, p) = BalOf(y, p).hosts
        /\ \A p : Flag(u, port, p) = FlagOf(x.static, p) /\ Flag(t, port, p) = FlagOf(y.static, p)
        /\ \A z : Banned(u, port, z) = (z \in x.acl) /\ Banned(t, port, z) = (z \in y.acl)
        BY <2>1 DEF Mode, HostsOf, Bal, Flag, Banned
  <2> HIDE DEF x, y, u, a, tw
  <2>3. \A p : BalOf(x, p).mode = BalOf(y, p).mode
        BY <1>2, <2>2 DEF SameAs, a
  <2>4. BalancerType(x) = BalancerType(y)
        BY <2>1, <2>3, SameFields
  <2>5. x.acl = y.acl
    <3>1. \A z : z \in x.acl <=> z \in y.acl
          BY <1>2, <2>2 DEF SameAs, a
    <3> QED
          BY <3>1
  <2>6. ASSUME Twice(n) \cap {"CHG_LB", "RMV_HTTP_PROXY_HOST"} = {},
               base[n] # NoImage => Sound(port, applied[n])
        PROVE  Paths(x) = Paths(y)
    <3>1. HostsOnce(tw)
          BY <2>6 DEF HostsOnce, tw, TwiceOf, Twice
    <3>2. SoundIn(log, ideal, port, a)
      <4>1. CASE base[n] = NoImage
            BY <1>6, <4>1 DEF FirstAgrees
      <4>2. CASE base[n] # NoImage
            BY <1>2, <2>6, <4>2, SoundIs DEF a
      <4> QED
            BY <4>1, <4>2
    <3>3. \A p : BalOf(x, p).mode # "" => BalOf(x, p).hosts = BalOf(y, p).hosts
          BY <1>2, <2>2, <3>1, <3>2 DEF SameAs, a
    <3> QED
          BY <2>1, <2>3, <3>3, SameFields
  <2>7. ASSUME Twice(n) \cap {"CHG_STATIC", "ADD_HTTP_PROXY_PREFIX"} = {}
        PROVE  x.static = y.static
    <3>1. FlagsOnce(tw)
          BY <2>7 DEF FlagsOnce, tw, TwiceOf, Twice
    <3>2. \A p : FlagOf(x.static, p) = FlagOf(y.static, p)
          BY <1>2, <2>2, <3>1 DEF FlagsAgree, a
    <3>3. IsMap(x.static, BOOLEAN) /\ IsMap(y.static, BOOLEAN)
          BY <2>1 DEF IsProxy
    <3> QED
          BY <3>2, <3>3, SameFlags
  <2>8. base[n] = NoImage => x.available = y.available
        BY <1>6, <2>1 DEF FirstAgrees, a
  <2> QED
        BY <2>4, <2>5, <2>6, <2>7, <2>8 DEF Same
<1> QED
      BY <1>5, <1>7

(* A node that has caught up has, for the ports the log decides of, the    *)
(* algorithms and the black list that the committed entries give, and the  *)
(* hosts, static flags and the flag Available where Same claims them:      *)
(* however often the process has been killed, and whatever mixture of      *)
(* fields Persist has read beside the entries that Apply was handling.     *)
THEOREM ReplicasAgreeHolds == Spec => []ReplicasAgree
<1>1. IInv => ReplicasAgree
      BY ReplicasSame DEF ReplicasAgree
<1> QED
      BY <1>1, IInvHolds, PTL

-----------------------------------------------------------------------------
(* What ends a process.                                                    *)

LEMMA DoomedWhy ==
    ASSUME IInv, NEW n \in Nodes, Doomed(n), CaughtUp(n), NEW e, e = log[applied[n] + 1]
    PROVE  \/ e.op \in Unchecked \/ ~e.fresh
           \/ e.algo \notin factories \/ ~e.legal
           \/ e.port \notin Replicated
<1> SUFFICES ASSUME e.op \notin Unchecked, e.fresh, e.algo \in factories, e.legal,
                    e.port \in Replicated
             PROVE  FALSE
    OBVIOUS
<1> DEFINE a == applied[n]
           t == table[n]
           s == ideal[a + 1]
<1>1. e.port \in ReplicatedIn(log)
      BY DEF Replicated, ReplicatedIn
<1>2. /\ a \in Nat /\ FreshPasses(log, ideal) /\ IsHistory(log, ideal)
      /\ SameAs(log, ideal, t, e.port, a, TwiceOf(base[n]))
      BY <1>1, CaughtUpExact
<1>3. a < Len(log) /\ (NilProxy(t, e) \/ Outcome(t, e).end = "panic")
      BY DEF Doomed
<1>4. Len(log) \in Nat /\ a + 1 \in 1 .. Len(log)
      BY <1>2, <1>3 DEF IsHistory
<1>5. e \in EntryType /\ e.hosts # <<>>
      BY <1>2, <1>4 DEF IsHistory
<1>6. IsTable(t)
      BY NodeFacts DEF IInv
<1>7. NotEnded(s, e)
  <2>1. e.fresh = TRUE
        BY <1>5, EntryFields
  <2> QED
        BY <1>1, <1>2, <1>4, <2>1 DEF FreshPasses
<1>8. ~NilProxy(t, e)
      BY <1>2, <1>7 DEF NotEnded, NilProxy, SameAs
<1>9. Passes(Bal(t, e.port, e.prefix), e)
  <2>1. e.op = "CHG_LB" => Mode(t, e.port, e.prefix) # ""
        BY <1>2, <1>7 DEF NotEnded, SameAs
  <2> QED
        BY <2>1 DEF Passes, Mode, Unchecked
<1>10. Handled(At(t, e.port), e)
       BY <1>5, <1>6, AtProxy, HandleOutcome
<1>11. Outcome(t, e).end # "panic"
       BY <1>9, <1>10 DEF Handled, Outcome, At, Bal
<1> QED
      BY <1>3, <1>8, <1>11

(* What the state manager has checked on tables that had all of the log    *)
(* ends no process that has caught up, restored or not: the FSM panics     *)
(* only for an operation that is appended unchecked, an algorithm or a     *)
(* type of prefixer that does not exist, a speed of 0, tables that were    *)
(* behind when they were checked, or a proxy of a configuration file or    *)
(* one that a CLOSE takes away.                                            *)
THEOREM PanicCausesHolds == Spec => []PanicCauses
<1>1. IInv => PanicCauses
      BY DoomedWhy DEF PanicCauses
<1> QED
      BY <1>1, IInvHolds, PTL

-----------------------------------------------------------------------------
(* What stops the FSM goroutine of a node.                                 *)

HostOps == {"ADD_HTTP_PROXY_HOST", "RMV_HTTP_PROXY_HOST"}

(* The call for an entry blocks.                                           *)
Blocking(x, e) ==
    \/ e.op = "SET_RATE_LIMITER" /\ e.prefix \notin x.limiters
    \/ e.op = "CLOSE" /\ x.shutdown # "open"
    \/ e.op \in HostOps /\ PrefixExists(x, e.prefix) /\ x.mapping[e.prefix].rlocked

(* Which calls block, and that they leave the proxy alone.                 *)
LEMMA BlockingIs ==
    ASSUME NEW x, NEW e, e.op \in Ops
    PROVE  /\ Handle(x, e).end = "blocks" <=> Blocking(x, e)
           /\ Handle(x, e).end = "blocks" => Handle(x, e).x = x
<1> DEFINE r == Handle(x, e)
<1>1. CASE e.op \in {"ADD_HTTP_PROXY", "RMV_HTTP_PROXY_PREFIX", "ADD_HTTP_BLACK_LIST",
                     "RMV_HTTP_BLACK_LIST", "START", "STOP"}
  <2>1. r.end \in {"ok", "panic"}
        BY <1>1 DEF Handle, AddHttpProxy, Ok, Panics
  <2> QED
        BY <1>1, <2>1 DEF Blocking, HostOps
<1>2. CASE e.op = "ADD_HTTP_PROXY_PREFIX"
  <2>1. r = AddPrefix(x, e)
        BY <1>2 DEF Handle
  <2>2. r.end \in {"ok", "panic"}
        BY <2>1 DEF AddPrefix, Ok, Panics
  <2> QED
        BY <1>2, <2>2 DEF Blocking, HostOps
<1>3. CASE e.op \in {"CHG_STATIC", "CHG_LB"}
  <2>1. r = changeStatic(x, e) \/ r = changeLb(x, e)
        BY <1>3 DEF Handle
  <2>2. r.end \in {"ok", "panic"}
    <3>1. changeStatic(x, e).end = "ok"
          BY Ends3 DEF changeStatic
    <3>2. changeLb(x, e).end \in {"ok", "panic"}
          BY Ends3 DEF changeLb
    <3> HIDE DEF r
    <3> QED
          BY <2>1, <3>1, <3>2
  <2> QED
        BY <1>3, <2>2 DEF Blocking, HostOps
<1>4. CASE e.op = "SET_RATE_LIMITER"
  <2>1. r = SetRateLimit(x, e)
        BY <1>4 DEF Handle
  <2> QED
        BY <1>4, <2>1 DEF SetRateLimit, Ok, Panics, Blocks, Blocking, HostOps
<1>5. CASE e.op = "CLOSE"
  <2>1. r = Close(x)
        BY <1>5 DEF Handle
  <2>2. r.end = (IF x.shutdown = "open" THEN "ok" ELSE "blocks")
        BY <2>1, Ends3 DEF Close
  <2>3. x.shutdown # "open" => r.x = x
        BY <2>1, Ends3 DEF Close
  <2> QED
        BY <1>5, <2>2, <2>3 DEF Blocking, HostOps
<1>6. CASE e.op = "ADD_HTTP_PROXY_HOST"
  <2>1. r = AddHost(x, e)
        BY <1>6 DEF Handle
  <2>2. CASE PrefixExists(x, e.prefix) /\ x.mapping[e.prefix].rlocked
    <3>1. r = Blocks(x)
          BY <2>1, <2>2 DEF AddHost
    <3> QED
          BY <1>6, <2>2, <3>1, Ends3 DEF Blocking, HostOps
  <2>3. CASE ~(PrefixExists(x, e.prefix) /\ x.mapping[e.prefix].rlocked)
    <3>1. r.end \in {"ok", "panic"}
          BY <2>1, <2>3, Ends3 DEF AddHost
    <3> QED
          BY <1>6, <2>3, <3>1 DEF Blocking, HostOps
  <2> QED
        BY <2>2, <2>3
<1>7. CASE e.op = "RMV_HTTP_PROXY_HOST"
  <2>1. r = RemoveHost(x, e)
        BY <1>7 DEF Handle
  <2>2. CASE PrefixExists(x, e.prefix) /\ x.mapping[e.prefix].rlocked
    <3>1. r = Blocks(x)
          BY <2>1, <2>2 DEF RemoveHost
    <3> QED
          BY <1>7, <2>2, <3>1, Ends3 DEF Blocking, HostOps
  <2>3. CASE ~(PrefixExists(x, e.prefix) /\ x.mapping[e.prefix].rlocked)
    <3>1. r.end \in {"ok", "panic"}
          BY <2>1, <2>3, Ends3 DEF RemoveHost
    <3> QED
          BY <1>7, <2>3, <3>1 DEF Blocking, HostOps
  <2> QED
        BY <2>2, <2>3
<1> QED
      BY <1>1, <1>2, <1>3, <1>4, <1>5, <1>6, <1>7 DEF Ops

(* A ring of a node whose read lock is lost has been asked by the node's   *)
(* own clients.                                                            *)
Ring(n, t) == \A port, p : Bal(t, port, p).rlocked = TRUE => <<n, port, p>> \in Traffic

(* An entry that a node waits for.                                         *)
Waits(n, t, e) ==
    /\ \/ e.op \in {"SET_RATE_LIMITER", "CLOSE"}
       \/ e.op \in HostOps /\ <<n, e.port, e.prefix>> \in Traffic
    /\ e.port \in DOMAIN t \ DOMAIN Config[n] => Blocking(At(t, e.port), e)

Waiting(l, n, st, t, a, hf, sk) ==
    sk = TRUE => /\ st \in Running /\ hf = NoEntry /\ a + 1 <= Len(l)
                 /\ Waits(n, t, l[a + 1])

NodeBlock(l, n, st, t, a, hf, sk) == Ring(n, t) /\ Waiting(l, n, st, t, a, hf, sk)

BlockInv ==
    \A n \in Nodes :
      NodeBlock(log, n, status[n], table[n], applied[n], half[n], stuck[n])

LEMMA BlockStep ==
    ASSUME BlockInv, NEW n \in Nodes, NEW st, NEW t, NEW a, NEW hf, NEW sk, NEW sg,
           NEW c, NEW i, NEW b, Values(n, st, t, a, hf, sk, sg, c, i, b),
           NodeBlock(log, n, st, t, a, hf, sk)
    PROVE  BlockInv'
<1>1. /\ log' = log /\ Others(n)
      /\ status'[n] = st /\ table'[n] = t /\ applied'[n] = a /\ half'[n] = hf
      /\ stuck'[n] = sk
      BY DEF Values
<1> SUFFICES ASSUME NEW m \in Nodes
             PROVE  NodeBlock(log', m, status'[m], table'[m], applied'[m], half'[m],
                              stuck'[m])
    BY DEF BlockInv
<1>2. CASE m = n
      BY <1>1, <1>2
<1>3. CASE m # n
  <2>1. NodeBlock(log, m, status[m], table[m], applied[m], half[m], stuck[m])
        BY DEF BlockInv
  <2> QED
        BY <1>1, <1>3, <2>1 DEF Others
<1> QED
      BY <1>2, <1>3

-----------------------------------------------------------------------------
(* Rings.                                                                  *)

(* A balancer that is new is not locked, and an entry takes no read lock.  *)
LEMMA BuildUnlocked ==
    \A algo, hs : Build(algo, hs).rlocked = FALSE
    BY DEF Build, NewRoundRobin, NewConsistenceHash

LEMMA NewBalUnlocked ==
    ASSUME NEW x, IsProxy(x), NEW e \in EntryType, e.op \in HostOps => e.hosts # <<>>,
           NEW b, b = BalOf(x, e.prefix), Passes(b, e), NewBal(b, e).rlocked = TRUE
    PROVE  b.rlocked = TRUE
<1>1. e.op \in HostOps => e.hosts[1] \in Hosts
      BY FirstHost
<1>2. b.mode # "" => b \in Balancers
      BY BalType
<1>3. CASE e.op = "ADD_HTTP_PROXY_PREFIX"
  <2>1. CASE b.mode = ""
    <3>1. NewBal(b, e) = Build(e.algo, e.hosts)
          BY <1>3, <2>1 DEF NewBal
    <3> QED
          BY <3>1, BuildUnlocked
  <2>2. CASE b.mode # ""
        BY <1>3, <2>2 DEF NewBal
  <2> QED
        BY <2>1, <2>2
<1>4. CASE e.op \in {"RMV_HTTP_PROXY_PREFIX", "CHG_LB"}
  <2>1. NewBal(b, e) = NilBalancer
        BY <1>4 DEF NewBal
  <2> QED
        BY <2>1, NilFields
<1>5. CASE e.op = "ADD_HTTP_PROXY_HOST"
  <2>1. b.mode # "" /\ NewBal(b, e) = Add(b, e.hosts[1])
        BY <1>5 DEF Passes, NewBal
  <2>2. Add(b, e.hosts[1]).rlocked = b.rlocked
        BY <1>1, <1>2, <1>5, <2>1, AddType DEF HostOps
  <2> QED
        BY <2>1, <2>2
<1>6. CASE e.op = "RMV_HTTP_PROXY_HOST"
  <2>1. b.mode # "" /\ NewBal(b, e) = RemoveResult(b, e.hosts[1]).b
        BY <1>6 DEF Passes, NewBal
  <2>2. RemoveResult(b, e.hosts[1]).b.rlocked = b.rlocked
        BY <1>1, <1>2, <1>6, <2>1, RemoveType DEF HostOps
  <2> QED
        BY <2>1, <2>2
<1>7. CASE e.op \notin {"ADD_HTTP_PROXY_PREFIX", "RMV_HTTP_PROXY_PREFIX", "CHG_LB",
                        "ADD_HTTP_PROXY_HOST", "RMV_HTTP_PROXY_HOST"}
  <2>1. NewBal(b, e) = b
        BY <1>7 DEF NewBal
  <2> QED
        BY <2>1
<1> QED
      BY <1>3, <1>4, <1>5, <1>6, <1>7

LEMMA RingMoves ==
    ASSUME NEW n, NEW t, IsTable(t), Ring(n, t), NEW e \in EntryType,
           e.op \in HostOps => e.hosts # <<>>, NEW u, Moves(t, e, u)
    PROVE  Ring(n, u)
<1> SUFFICES ASSUME NEW port, NEW p, Bal(u, port, p).rlocked = TRUE
             PROVE  Bal(t, port, p).rlocked = TRUE
    BY DEF Ring
<1>1. Bal(u, port, p) = IF port = e.port /\ p = e.prefix
                        THEN NewBal(Bal(t, port, p), e) ELSE Bal(t, port, p)
      BY ONLY Moves(t, e, u), MovesRegisters
<1>2. CASE port = e.port /\ p = e.prefix
  <2>1. NewBal(Bal(t, port, p), e).rlocked = TRUE
        BY <1>1, <1>2
  <2>2. IsProxy(At(t, port)) /\ Bal(t, port, p) = BalOf(At(t, port), e.prefix)
        BY <1>2, AtProxy DEF Bal
  <2>3. Passes(Bal(t, port, p), e)
        BY <1>2 DEF Moves
  <2> HIDE DEF Bal
  <2> QED
        BY <2>1, <2>2, <2>3, NewBalUnlocked
<1>3. CASE ~(port = e.port /\ p = e.prefix)
      BY <1>1, <1>3
<1> QED
      BY <1>2, <1>3

LEMMA RingSame ==
    ASSUME NEW n, NEW t, Ring(n, t), NEW u, \A q : At(u, q) = At(t, q)
    PROVE  Ring(n, u)
    BY DEF Ring, Bal

(* A proxy of the configuration file, or of an image, has taken no lock.   *)
LEMMA ConfigUnlocked ==
    ASSUME NEW c, IsMap(c, [algo : factories, hosts : Seq(Hosts), static : BOOLEAN]), NEW p
    PROVE  BalOf(BuildHttpReverseProxyFromConfig(c), p).rlocked = FALSE
<1> DEFINE y == BuildHttpReverseProxyFromConfig(c)
           m == [q \in DOMAIN c |-> Build(c[q].algo, c[q].hosts)]
<1>1. y.mapping = m /\ DOMAIN m = DOMAIN c
      BY ProxyDomain DEF BuildHttpReverseProxyFromConfig
<1>2. CASE p \in DOMAIN c
  <2>1. c[p].algo \in factories /\ c[p].hosts \in Seq(Hosts)
        BY <1>2 DEF IsMap
  <2>2. m[p] = Build(c[p].algo, c[p].hosts)
        BY <1>2
  <2>3. m[p].rlocked = FALSE
        BY <2>1, <2>2, BuildUnlocked
  <2> HIDE DEF m, y
  <2>4. BalOf(y, p) = m[p]
        BY <1>1, <1>2 DEF BalOf, PrefixExists
  <2> QED
        BY <2>3, <2>4 DEF y
<1>3. CASE p \notin DOMAIN c
  <2> HIDE DEF m, y
  <2>1. BalOf(y, p) = NilBalancer
        BY <1>1, <1>3 DEF BalOf, PrefixExists
  <2> QED
        BY <2>1, NilFields DEF y
<1> QED
      BY <1>2, <1>3

LEMMA RingConfig ==
    ASSUME NEW n \in Nodes, NEW t, IsTable(t), Ring(n, t)
    PROVE  Ring(n, ConfigTable(n, t))
<1> DEFINE u == ConfigTable(n, t)
<1>1. /\ DOMAIN u = DOMAIN Config[n] \cup DOMAIN t
      /\ \A port \in DOMAIN t : u[port] = t[port]
      /\ \A port \in DOMAIN Config[n] \ DOMAIN t :
           u[port] = BuildHttpReverseProxyFromConfig(Config[n][port])
      BY DEF ConfigTable
<1> HIDE DEF u
<1> SUFFICES ASSUME NEW port, NEW p, Bal(u, port, p).rlocked = TRUE
             PROVE  <<n, port, p>> \in Traffic
    BY DEF Ring, u
<1>2. CASE port \in DOMAIN Config[n] \ DOMAIN t
  <2>1. IsMap(Config[n][port], [algo : factories, hosts : Seq(Hosts), static : BOOLEAN])
        BY <1>2, ClusterAssumption
  <2>2. At(u, port) = BuildHttpReverseProxyFromConfig(Config[n][port])
        BY <1>1, <1>2 DEF At, Get
  <2>3. Bal(u, port, p).rlocked = FALSE
        BY <2>1, <2>2, ConfigUnlocked DEF Bal
  <2> QED
        BY <2>3
<1>3. CASE port \notin DOMAIN Config[n] \ DOMAIN t
  <2>1. At(u, port) = At(t, port)
        BY <1>1, <1>3 DEF At, Get
  <2>2. Bal(t, port, p).rlocked = TRUE
        BY <2>1 DEF Bal
  <2> QED
        BY <2>2 DEF Ring
<1> QED
      BY <1>2, <1>3

LEMMA RingRestored ==
    ASSUME NEW n, NEW c, NEW k, SnapType(c, k), c # NoImage, ~RestorePanics(c.image)
    PROVE  Ring(n, RestoredTable(c.image))
<1> DEFINE u == RestoredTable(c.image)
<1> SUFFICES ASSUME NEW port, NEW p
             PROVE  Bal(u, port, p).rlocked = FALSE
    BY DEF Ring
<1>1. CASE port \in DOMAIN c.image
  <2> DEFINE i == c.image[port]
             y == Restore(i)
             m == [q \in DOMAIN i.paths |-> Build(i.algo[q], i.paths[q])]
  <2>1. At(u, port) = y
        BY <1>1, RestoredTableType
  <2>2. y.mapping = m
        BY DEF Restore
  <2>3. \A q \in DOMAIN i.paths : m[q].rlocked = FALSE
        BY BuildUnlocked
  <2>4. DOMAIN m = DOMAIN i.paths
        OBVIOUS
  <2> HIDE DEF i, y, m, u
  <2>5. BalOf(y, p).rlocked = FALSE
        BY <2>2, <2>3, <2>4, NilFields DEF BalOf, PrefixExists
  <2> QED
        BY <2>1, <2>5 DEF Bal
<1>2. CASE port \notin DOMAIN c.image
  <2>1. At(u, port) = NewHttpReverseProxy
        BY <1>2, RestoredTableType
  <2> HIDE DEF u
  <2> QED
        BY <2>1, NewProxy, NilFields DEF Bal
<1> QED
      BY <1>1, <1>2

(* A request takes the read lock of the ring it is for.                    *)
LEMMA RingServed ==
    ASSUME NEW n, NEW t, IsTable(t), Ring(n, t), NEW port \in DOMAIN t, NEW p \in UrlPrefixes,
           PrefixExists(t[port], p), <<n, port, p>> \in Traffic, NEW locked
    PROVE  Ring(n, Put(t, port, Served(t[port], p, locked)))
<1> DEFINE x == t[port]
           y == Served(x, p, locked)
           u == Put(t, port, y)
<1>1. IsProxy(x) /\ port \in Ports /\ At(t, port) = x
      BY AtProxy DEF IsTable
<1>2. y.mapping = [x.mapping EXCEPT ![p] = AfterBalance(x.mapping[p])]
      BY <1>1, ProxyDomain DEF Served
<1>3. \A q : q # p => BalOf(y, q) = BalOf(x, q)
      BY <1>2 DEF BalOf, PrefixExists
<1>4. IsProxy(y)
      BY <1>1, ServedSame DEF SameRegisters
<1> HIDE DEF y
<1>5. Puts(t, port, y, u)
      BY <1>1, <1>4, PutAt
<1> HIDE DEF u
<1>6. ASSUME NEW q, NEW r, Bal(u, q, r).rlocked = TRUE
      PROVE  <<n, q, r>> \in Traffic
  <2>1. CASE q = port /\ r = p
        BY <2>1
  <2>2. CASE q = port /\ r # p
    <3>1. Bal(u, q, r) = Bal(t, q, r)
          BY <1>1, <1>3, <1>5, <2>2 DEF Bal, Puts
    <3> QED
          BY <1>6, <3>1 DEF Ring
  <2>3. CASE q # port
    <3>1. Bal(u, q, r) = Bal(t, q, r)
          BY <1>5, <2>3 DEF Bal, Puts
    <3> QED
          BY <1>6, <3>1 DEF Ring
  <2> QED
        BY <2>1, <2>2, <2>3
<1> QED
      BY <1>6 DEF Ring, u, y

LEMMA RingStarted ==
    ASSUME NEW n, NEW t, IsTable(t), Ring(n, t), NEW port \in DOMAIN t
    PROVE  Ring(n, Put(t, port, [t[port] EXCEPT !.available = TRUE]))
<1> DEFINE x == t[port]
           y == [x EXCEPT !.available = TRUE]
           u == Put(t, port, y)
<1>1. IsProxy(x) /\ port \in Ports /\ At(t, port) = x
      BY AtProxy DEF IsTable
<1>2. IsProxy(y) /\ y.mapping = x.mapping
      BY <1>1, StartedSame, ProxyDomain DEF SameRegisters
<1> HIDE DEF y
<1>3. Puts(t, port, y, u)
      BY <1>1, <1>2, PutAt
<1> HIDE DEF u
<1>4. \A q, r : Bal(u, q, r) = Bal(t, q, r)
      BY <1>1, <1>2, <1>3 DEF Bal, BalOf, PrefixExists, Puts
<1>5. Ring(n, u)
      BY <1>4 DEF Ring
<1> QED
      BY <1>5 DEF u, y

LEMMA RingDel ==
    ASSUME NEW n, NEW t, IsTable(t), Ring(n, t), NEW port, NEW u, u = Del(t, port)
    PROVE  Ring(n, u)
<1>1. DOMAIN u = DOMAIN t \ {port} /\ \A q \in DOMAIN u : u[q] = t[q]
      BY DEF Del
<1>2. At(u, port) = NewHttpReverseProxy
      BY <1>1 DEF At, Get
<1>3. ASSUME NEW q, NEW r, Bal(u, q, r).rlocked = TRUE
      PROVE  <<n, q, r>> \in Traffic
  <2>1. q # port
        BY <1>2, <1>3, NewProxy, NilFields DEF Bal
  <2>2. Bal(t, q, r).rlocked = TRUE
        BY <1>1, <1>3, <2>1 DEF Bal, At, Get
  <2> QED
        BY <2>2 DEF Ring
<1> QED
      BY <1>3 DEF Ring

-----------------------------------------------------------------------------
(* The FSM goroutine.                                                      *)

LEMMA BlockFacts ==
    ASSUME TypeInv, BlockInv, NEW n \in Nodes
    PROVE  /\ IsTable(table[n]) /\ Ring(n, table[n])
           /\ Waiting(log, n, status[n], table[n], applied[n], half[n], stuck[n])
           /\ half[n] # NoEntry => stuck[n] = FALSE
           /\ ~Runs(n) => stuck[n] = FALSE
<1>1. NodeBlock(log, n, status[n], table[n], applied[n], half[n], stuck[n])
      BY DEF BlockInv
<1>2. IsTable(table[n]) /\ stuck[n] \in BOOLEAN
      /\ IdleType(status[n], table[n], applied[n], half[n], stuck[n], starting[n],
                  enc[n], base[n])
      BY NodeFacts
<1> QED
      BY <1>1, <1>2 DEF NodeBlock, Waiting, IdleType, Runs

LEMMA BlockEnded ==
    ASSUME BlockInv, NEW n \in Nodes, Ended(n)
    PROVE  BlockInv'
<1>1. Ring(n, <<>>)
      BY EmptyTable DEF Ring, Unlocked
<1>2. NodeBlock(log, n, "down", <<>>, 0, NoEntry, FALSE)
      BY <1>1 DEF NodeBlock, Waiting
<1> QED
      BY <1>2, BlockStep DEF Ended

(* A call that blocks has found its proxy, and leaves it as it was.        *)
LEMMA BlocksThere ==
    ASSUME NEW n, NEW t, IsTable(t), Ring(n, t), NEW e \in EntryType, ~NilProxy(t, e),
           Outcome(t, e).end = "blocks", NEW u, u = Put(t, e.port, Outcome(t, e).x)
    PROVE  Ring(n, u) /\ Waits(n, u, e)
<1> DEFINE x == At(t, e.port)
<1>1. e.op \in Ops /\ Outcome(t, e) = Handle(x, e)
      BY EntryFields DEF Outcome, At
<1>2. Blocking(x, e) /\ Outcome(t, e).x = x
      BY <1>1, BlockingIs
<1>3. e.port \in DOMAIN t
      BY <1>2 DEF Blocking, HostOps, NilProxy
<1>4. u = Put(t, e.port, x)
      BY <1>2
<1>5. IsProxy(x)
      BY AtProxy
<1>6. e.op \in HostOps => Bal(t, e.port, e.prefix).rlocked = TRUE
  <2>1. ASSUME e.op \in HostOps
        PROVE  BalOf(x, e.prefix).rlocked = TRUE
    <3>1. PrefixExists(x, e.prefix) /\ x.mapping[e.prefix].rlocked
          BY <1>2, <2>1 DEF Blocking, HostOps
    <3>2. x.mapping[e.prefix].rlocked \in BOOLEAN
          BY <1>5, <3>1, BalType DEF Balancers
    <3> HIDE DEF x
    <3> QED
          BY <3>1, <3>2 DEF BalOf
  <2> QED
        BY <2>1 DEF Bal
<1>7. \A q : At(u, q) = At(t, q)
      BY <1>3, <1>4, PutSame
<1>8. Ring(n, u)
      BY <1>7, RingSame
<1>9. \/ e.op \in {"SET_RATE_LIMITER", "CLOSE"}
      \/ e.op \in HostOps /\ <<n, e.port, e.prefix>> \in Traffic
      BY <1>2, <1>6 DEF Blocking, Ring
<1> QED
      BY <1>2, <1>7, <1>8, <1>9 DEF Waits

LEMMA BlockApply ==
    ASSUME TypeInv, BlockInv, NEW n \in Nodes, Apply(n)
    PROVE  BlockInv'
<1> DEFINE t == table[n]
           e == log[applied[n] + 1]
           u == Put(t, e.port, Outcome(t, e).x)
<1>1. /\ Runs(n) /\ half[n] = NoEntry /\ applied[n] + 1 <= Len(log)
      /\ e \in EntryType /\ e.hosts # <<>>
      /\ \/ Ended(n)
         \/ /\ ~NilProxy(t, e)
            /\ ApplyBlocks(n, e, u) \/ ApplyFirst(n, e, u) \/ ApplyAll(n, e, u)
      BY ApplyValues
<1>2. IsTable(t) /\ Ring(n, t)
      BY BlockFacts
<1>3. stuck[n] = FALSE
  <2>1. ~stuck[n]
        BY DEF Apply, Idle
  <2>2. stuck[n] \in BOOLEAN
        BY NodeFacts
  <2> QED
        BY <2>1, <2>2
<1> HIDE DEF u, e
<1>4. CASE Ended(n)
      BY <1>4, BlockEnded
<1>5. CASE ~NilProxy(t, e) /\ ApplyBlocks(n, e, u)
  <2>1. Ring(n, u) /\ Waits(n, u, e)
    <3>1. Outcome(t, e).end = "blocks"
          BY <1>5 DEF ApplyBlocks
    <3>2. u = Put(t, e.port, Outcome(t, e).x)
          BY DEF u
    <3> QED
          BY <1>1, <1>2, <1>5, <3>1, <3>2, BlocksThere
  <2>2. NodeBlock(log, n, status[n], u, applied[n], half[n], TRUE)
        BY <1>1, <2>1 DEF NodeBlock, Waiting, Runs, e
  <2> QED
        BY <1>5, <2>2, BlockStep DEF ApplyBlocks
<1>6. CASE ~NilProxy(t, e) /\ (ApplyFirst(n, e, u) \/ ApplyAll(n, e, u))
  <2>1. Moves(t, e, u)
    <3>1. Outcome(t, e).end = "ok"
          BY <1>6 DEF ApplyFirst, ApplyAll
    <3>2. u = Put(t, e.port, Outcome(t, e).x)
          BY DEF u
    <3> QED
          BY <1>1, <1>2, <1>6, <3>1, <3>2, HandleMoves
  <2>2. Ring(n, u)
        BY <1>1, <1>2, <2>1, RingMoves
  <2>3. \A a, hf : NodeBlock(log, n, status[n], u, a, hf, stuck[n])
        BY <1>3, <2>2 DEF NodeBlock, Waiting
  <2> QED
        BY <1>6, <2>3, BlockStep DEF ApplyFirst, ApplyAll
<1> QED
      BY <1>1, <1>4, <1>5, <1>6

LEMMA BlockHalf ==
    ASSUME TypeInv, BlockInv, NEW n \in Nodes, ApplyHalf(n)
    PROVE  BlockInv'
<1> DEFINE t == table[n]
           r == half[n]
           u == IF r.port \in DOMAIN t THEN Put(t, r.port, Outcome(t, r).x) ELSE t
<1>1. /\ r # NoEntry /\ r \in EntryType /\ r.op = "ADD_HTTP_PROXY_PREFIX"
      /\ \/ Ended(n)
         \/ /\ Outcome(t, r).end # "panic"
            /\ Values(n, status[n], u, applied[n] + 1, NoEntry, stuck[n], starting[n],
                      enc[n], snap[n], base[n])
      BY ApplyHalfValues
<1>2. IsTable(t) /\ Ring(n, t) /\ stuck[n] = FALSE
      BY <1>1, BlockFacts
<1>3. CASE Ended(n)
      BY <1>3, BlockEnded
<1>4. CASE ~Ended(n)
  <2>1. Ring(n, u)
    <3>1. CASE r.port \in DOMAIN t
      <4>1. Moves(t, r, Put(t, r.port, Outcome(t, r).x))
            BY <1>1, <1>2, <1>4, <3>1, HalfMoves
      <4>2. r.op \notin HostOps
            BY <1>1 DEF HostOps
      <4>3. Ring(n, Put(t, r.port, Outcome(t, r).x))
            BY <1>1, <1>2, <4>1, <4>2, RingMoves
      <4> QED
            BY <3>1, <4>3
    <3>2. CASE r.port \notin DOMAIN t
          BY <1>2, <3>2
    <3> QED
          BY <3>1, <3>2
  <2> HIDE DEF u
  <2>2. NodeBlock(log, n, status[n], u, applied[n] + 1, NoEntry, stuck[n])
        BY <1>2, <2>1 DEF NodeBlock, Waiting
  <2> QED
        BY <1>1, <1>4, <2>2, BlockStep
<1> QED
      BY <1>3, <1>4

-----------------------------------------------------------------------------
(* The other steps.                                                        *)

(* What a node waits for, it still waits for when its tables change, if    *)
(* the proxy of the entry, while it is there, blocks the call as before.   *)
LEMMA WaitingStays ==
    ASSUME TypeInv, BlockInv, NEW n \in Nodes,
           NEW st, st \in Running, NEW u,
           \A e : /\ stuck[n] = TRUE /\ e = log[applied[n] + 1]
                  /\ e.port \in DOMAIN u \ DOMAIN Config[n]
                  => /\ e.port \in DOMAIN table[n]
                     /\ Blocking(At(table[n], e.port), e) => Blocking(At(u, e.port), e)
    PROVE  Waiting(log, n, st, u, applied[n], half[n], stuck[n])
<1>1. Waiting(log, n, status[n], table[n], applied[n], half[n], stuck[n])
      BY BlockFacts
<1> QED
      BY <1>1 DEF Waiting, Waits

LEMMA BlockClosed ==
    ASSUME TypeInv, BlockInv, NEW n \in Nodes, NEW port \in Ports, Closed(n, port)
    PROVE  BlockInv'
<1> DEFINE t == table[n]
           u == Del(t, port)
           c == IF enc[n] # NoImage /\ port \in enc[n].open
                THEN WithRest(enc[n], port, t[port]) ELSE enc[n]
<1>1. /\ Runs(n)
      /\ Values(n, status[n], u, applied[n], half[n], stuck[n], starting[n], c, snap[n],
                base[n])
      BY ClosedValues
<1>2. IsTable(t) /\ Ring(n, t)
      BY BlockFacts
<1>3. DOMAIN u = DOMAIN t \ {port} /\ \A q : q # port => At(u, q) = At(t, q)
  <2>1. DOMAIN u = DOMAIN t \ {port} /\ \A q \in DOMAIN u : u[q] = t[q]
        BY DEF Del
  <2> HIDE DEF u
  <2> QED
        BY <2>1 DEF At, Get
<1>4. Ring(n, u)
      BY <1>2, RingDel
<1> HIDE DEF u, c
<1>5. Waiting(log, n, status[n], u, applied[n], half[n], stuck[n])
      BY <1>1, <1>3, WaitingStays DEF Runs
<1> QED
      BY <1>1, <1>4, <1>5, BlockStep DEF NodeBlock

(* A request creates no limiter while the FSM waits with the lock of its   *)
(* proxy, and a ring whose read lock it has found taken stays so.          *)
LEMMA ServedBlocks ==
    ASSUME NEW x, IsProxy(x), NEW p \in UrlPrefixes, PrefixExists(x, p), NEW e, NEW locked,
           e.op # "CLOSE" => locked, Blocking(x, e), NEW y, y = Served(x, p, locked)
    PROVE  Blocking(y, e)
<1>1. /\ y.mapping = [x.mapping EXCEPT ![p] = AfterBalance(x.mapping[p])]
      /\ y.shutdown = x.shutdown
      /\ locked => y.limiters = x.limiters
      BY ProxyDomain DEF Served
<1>2. p \in DOMAIN x.mapping /\ x.mapping[p] \in Balancers
      BY DEF PrefixExists, IsProxy, IsMap
<1>3. x.mapping[p].rlocked => AfterBalance(x.mapping[p]).rlocked
      BY <1>2, AfterBalanceType
<1>4. \A q : PrefixExists(x, q) /\ x.mapping[q].rlocked
               => PrefixExists(y, q) /\ y.mapping[q].rlocked
  <2>1. DOMAIN y.mapping = DOMAIN x.mapping
        BY <1>1
  <2>2. \A q \in DOMAIN x.mapping : q # p => y.mapping[q] = x.mapping[q]
        BY <1>1
  <2>3. y.mapping[p] = AfterBalance(x.mapping[p])
        BY <1>1, <1>2
  <2> QED
        BY <1>3, <2>1, <2>2, <2>3 DEF PrefixExists
<1>5. CASE e.op = "SET_RATE_LIMITER"
      BY <1>1, <1>5 DEF Blocking, HostOps
<1>6. CASE e.op = "CLOSE"
      BY <1>1, <1>6 DEF Blocking, HostOps
<1>7. CASE e.op \in HostOps
  <2>1. PrefixExists(x, e.prefix) /\ x.mapping[e.prefix].rlocked
        BY <1>7 DEF Blocking, HostOps
  <2> QED
        BY <1>4, <1>7, <2>1 DEF Blocking
<1> QED
      BY <1>5, <1>6, <1>7 DEF Blocking

LEMMA BlockServe ==
    ASSUME TypeInv, BlockInv, NEW n \in Nodes, NEW port \in Ports, NEW p \in UrlPrefixes,
           ServeHTTP(n, port, p)
    PROVE  BlockInv'
<1> DEFINE t == table[n]
           y == Served(t[port], p, Locked(n, port))
           u == Put(t, port, y)
<1>1. Runs(n) /\ port \in DOMAIN t /\ PrefixExists(t[port], p) /\ NewTable(n, u)
      BY ServeValues
<1>2. IsTable(t) /\ Ring(n, t) /\ IsProxy(t[port]) /\ At(t, port) = t[port]
      BY <1>1, BlockFacts, AtProxy DEF IsTable
<1>3. <<n, port, p>> \in Traffic
      BY DEF ServeHTTP
<1>4. IsProxy(y)
      BY <1>1, <1>2, ServedSame DEF SameRegisters
<1>5. Ring(n, u)
      BY <1>1, <1>2, <1>3, RingServed
<1>8. \A e : (e.op # "CLOSE" => Locked(n, port)) /\ Blocking(t[port], e) => Blocking(y, e)
      BY <1>1, <1>2, ServedBlocks
<1> HIDE DEF y
<1>6. Puts(t, port, y, u)
      BY <1>2, <1>4, PutAt
<1> HIDE DEF u
<1>7. Waiting(log, n, status[n], u, applied[n], half[n], stuck[n])
  <2>1. ASSUME NEW e, stuck[n] = TRUE, e = log[applied[n] + 1], e.port \in DOMAIN u
        PROVE  /\ e.port \in DOMAIN t
               /\ Blocking(At(t, e.port), e) => Blocking(At(u, e.port), e)
    <3>1. e.port = port /\ e.op # "CLOSE" => Locked(n, port)
          BY <2>1 DEF Locked
    <3>2. e.port \in DOMAIN t
          BY <1>1, <1>6, <2>1 DEF Puts
    <3>3. CASE e.port # port
          BY <1>6, <3>2, <3>3 DEF Puts
    <3>4. CASE e.port = port
      <4>1. Blocking(t[port], e) => Blocking(y, e)
            BY <1>8, <3>1, <3>4
      <4>2. At(t, e.port) = t[port] /\ At(u, e.port) = y
            BY <1>2, <1>6, <3>4 DEF Puts
      <4> QED
            BY <3>2, <4>1, <4>2
    <3> QED
          BY <3>3, <3>4
  <2> QED
        BY <1>1, <2>1, WaitingStays DEF Runs
<1> QED
      BY <1>1, <1>5, <1>7, BlockStep DEF NodeBlock, NewTable

LEMMA BlockStart ==
    ASSUME TypeInv, BlockInv, NEW n \in Nodes, NEW port \in Ports, Start(n, port)
    PROVE  BlockInv'
<1> DEFINE t == table[n]
           y == [t[port] EXCEPT !.available = TRUE]
           u == IF port \in DOMAIN t THEN Put(t, port, y) ELSE t
<1>1. /\ Runs(n) /\ Values(n, status[n], u, applied[n], half[n], stuck[n],
                           starting[n] \ {port}, enc[n], snap[n], base[n])
      BY StartValues
<1>2. IsTable(t) /\ Ring(n, t)
      BY BlockFacts
<1>3. ~Locked(n, port)
      BY DEF Start
<1>4. CASE port \notin DOMAIN t
  <2>1. u = t
        BY <1>4
  <2> HIDE DEF u
  <2>2. Waiting(log, n, status[n], u, applied[n], half[n], stuck[n])
        BY <2>1, BlockFacts
  <2> QED
        BY <1>1, <1>2, <2>1, <2>2, BlockStep DEF NodeBlock
<1>5. CASE port \in DOMAIN t
  <2>1. IsProxy(t[port]) /\ At(t, port) = t[port]
        BY <1>2, <1>5, AtProxy DEF IsTable
  <2>2. IsProxy(y) /\ y.shutdown = t[port].shutdown
        BY <2>1, StartedSame DEF SameRegisters
  <2>3. Ring(n, Put(t, port, y))
        BY <1>2, <1>5, RingStarted
  <2>4. Ring(n, u)
        BY <1>5, <2>3
  <2> HIDE DEF y
  <2>5. Puts(t, port, y, Put(t, port, y))
        BY <1>2, <2>2, PutAt
  <2>6. Puts(t, port, y, u)
        BY <1>5, <2>5
  <2> HIDE DEF u
  <2>7. Waiting(log, n, status[n], u, applied[n], half[n], stuck[n])
    <3>1. ASSUME NEW e, stuck[n] = TRUE, e = log[applied[n] + 1], e.port \in DOMAIN u
          PROVE  /\ e.port \in DOMAIN t
                 /\ Blocking(At(t, e.port), e) => Blocking(At(u, e.port), e)
      <4>1. e.port # port \/ e.op = "CLOSE"
            BY <1>3, <3>1 DEF Locked
      <4>2. e.port \in DOMAIN t
            BY <1>5, <2>6, <3>1 DEF Puts
      <4>3. CASE e.port # port
            BY <2>6, <4>2, <4>3 DEF Puts
      <4>4. CASE e.port = port /\ e.op = "CLOSE"
            BY <2>1, <2>2, <2>6, <4>2, <4>4 DEF Puts, Blocking, HostOps
      <4> QED
            BY <4>1, <4>3, <4>4
    <3> QED
          BY <1>1, <3>1, WaitingStays DEF Runs
  <2> QED
        BY <1>1, <2>4, <2>7, BlockStep DEF NodeBlock
<1> QED
      BY <1>4, <1>5

LEMMA BlockBoot ==
    ASSUME TypeInv, BlockInv, NEW n \in Nodes, Boot(n)
    PROVE  BlockInv'
<1> DEFINE t == table[n]
<1>1. /\ IsTable(t) /\ Ring(n, t)
      /\ ~Runs(n) => stuck[n] = FALSE
      /\ SnapType(snap[n], Len(log))
      BY BlockFacts, NodeFacts
<1>2. CASE FirstStart(n) \/ RestartEmpty(n)
  <2>1. PICK st : /\ ~Runs(n)
                  /\ Values(n, st, t, applied[n], half[n], stuck[n], starting[n], enc[n],
                            snap[n], base[n])
        BY <1>2, FirstStartValues, RestartEmptyValues
  <2>2. NodeBlock(log, n, st, t, applied[n], half[n], stuck[n])
        BY <1>1, <2>1 DEF NodeBlock, Waiting
  <2> QED
        BY <2>1, <2>2, BlockStep
<1>5. CASE Join(n)
  <2>1. PICK st \in Running :
          Values(n, st, t, applied[n], half[n], stuck[n], starting[n], enc[n], snap[n],
                 base[n])
        BY <1>5, JoinValues
  <2>2. Waiting(log, n, st, t, applied[n], half[n], stuck[n])
        BY WaitingStays
  <2> QED
        BY <1>1, <2>1, <2>2, BlockStep DEF NodeBlock
<1>3. CASE AddConfig(n)
  <2> DEFINE u == ConfigTable(n, t)
  <2>1. PICK st \in Running :
          Values(n, st, u, applied[n], half[n], stuck[n], starting[n], enc[n], snap[n],
                 base[n])
        BY <1>3, AddConfigValues
  <2>2. /\ DOMAIN u = DOMAIN Config[n] \cup DOMAIN t
        /\ \A port : port \notin DOMAIN Config[n] => At(u, port) = At(t, port)
        BY <1>1, ConfigTableType
  <2>3. Ring(n, u)
        BY <1>1, RingConfig
  <2> HIDE DEF u
  <2>4. Waiting(log, n, st, u, applied[n], half[n], stuck[n])
        BY <2>2, WaitingStays
  <2> QED
        BY <2>1, <2>3, <2>4, BlockStep DEF NodeBlock
<1>4. CASE Restart(n)
  <2> DEFINE c == snap[n]
             u == RestoredTable(c.image)
  <2>1. PICK st \in Running :
          /\ ~Runs(n) /\ c # NoImage /\ ~RestorePanics(c.image)
          /\ Values(n, st, u, c.from, half[n], stuck[n], DOMAIN c.image, enc[n], c, c)
        BY <1>4, RestartValues
  <2>2. Ring(n, u)
        BY <1>1, <2>1, RingRestored
  <2> HIDE DEF u
  <2>3. NodeBlock(log, n, st, u, c.from, half[n], stuck[n])
        BY <1>1, <2>1, <2>2 DEF NodeBlock, Waiting
  <2> QED
        BY <2>1, <2>3, BlockStep
<1> QED
      BY <1>2, <1>3, <1>4, <1>5, JoinFailsValues, BlockEnded DEF Boot

LEMMA BlockEncoder ==
    ASSUME BlockInv, NEW n \in Nodes,
           \/ Snapshot(n) \/ Persist(n) \/ PersistFails(n)
           \/ \E port \in Ports : EncodePaths(n, port) \/ EncodeRest(n, port)
    PROVE  BlockInv'
<1>1. UNCHANGED <<raftVars, status, fsm>>
      BY DEF Snapshot, Persist, PersistFails, EncodePaths, EncodeRest
<1> QED
      BY <1>1 DEF raftVars, fsm, BlockInv

LEMMA BlockAppend ==
    ASSUME TypeInv, BlockInv, NEW n \in Nodes, NEW c \in Commands, AppendLogEntry(n, c)
    PROVE  BlockInv'
<1> DEFINE e == Fresh(n, c)
<1>1. /\ e \in EntryType /\ log' = Append(log, e)
      /\ UNCHANGED <<status, table, applied, half, stuck>>
      BY AppendValues
<1> HIDE DEF e
<1>2. log \in Seq(EntryType)
      BY DEF TypeInv
<1>3. /\ Len(log') = Len(log) + 1 /\ Len(log) \in Nat
      /\ \A i \in 1 .. Len(log) : log'[i] = log[i]
      BY <1>1, <1>2
<1>4. ASSUME NEW m \in Nodes
      PROVE  Waiting(log', m, status[m], table[m], applied[m], half[m], stuck[m])
  <2>1. Waiting(log, m, status[m], table[m], applied[m], half[m], stuck[m])
        /\ applied[m] \in Nat
        BY BlockFacts, NodeFacts
  <2>2. applied[m] + 1 <= Len(log) => /\ applied[m] + 1 <= Len(log')
                                      /\ log'[applied[m] + 1] = log[applied[m] + 1]
        BY <1>3, <2>1
  <2> QED
        BY <2>1, <2>2 DEF Waiting
<1> QED
      BY <1>1, <1>4 DEF BlockInv, NodeBlock

LEMMA BlockInit == Init => BlockInv
<1> SUFFICES ASSUME Init, NEW n \in Nodes
             PROVE  NodeBlock(log, n, status[n], table[n], applied[n], half[n], stuck[n])
    BY DEF BlockInv
<1>1. table[n] = <<>> /\ stuck[n] = FALSE
      BY DEF Init
<1> QED
      BY <1>1, EmptyTable DEF NodeBlock, Ring, Waiting, Unlocked

LEMMA BlockNext == TypeInv /\ BlockInv /\ [Next]_vars => BlockInv'
<1> SUFFICES ASSUME TypeInv, BlockInv, [Next]_vars PROVE BlockInv'
    OBVIOUS
<1>1. CASE Next
  <2>1. PICK n \in Nodes : (\E c \in Commands : AppendLogEntry(n, c)) \/ Local(n)
        BY <1>1, NextSteps
  <2>2. CASE Kill(n)
        BY <2>2, KillValues, BlockEnded
  <2>3. CASE Local(n) /\ ~Kill(n)
        BY <2>3, BlockApply, BlockHalf, BlockBoot, BlockEncoder, BlockClosed, BlockStart,
           BlockServe DEF Local, Fsm
  <2> QED
        BY <2>1, <2>2, <2>3, BlockAppend
<1>2. CASE UNCHANGED vars
      BY <1>2 DEF vars, BlockInv
<1> QED
      BY <1>1, <1>2

LEMMA BlockedWhy == TypeInv /\ BlockInv => StuckForEver
<1> SUFFICES ASSUME TypeInv, BlockInv, NEW n \in Nodes, stuck[n], NEW e,
                    e = log[applied[n] + 1]
             PROVE  /\ Runs(n) /\ applied[n] < Len(log)
                    /\ \/ e.op \in {"SET_RATE_LIMITER", "CLOSE"}
                       \/ /\ e.op \in {"ADD_HTTP_PROXY_HOST", "RMV_HTTP_PROXY_HOST"}
                          /\ <<n, e.port, e.prefix>> \in Traffic
                    /\ e.port \in DOMAIN table[n] \ DOMAIN Config[n]
                       => Outcome(table[n], e).end = "blocks"
    BY DEF StuckForEver
<1>1. stuck[n] = TRUE
      BY NodeFacts
<1>2. /\ status[n] \in Running /\ applied[n] + 1 <= Len(log)
      /\ Waits(n, table[n], e)
      BY <1>1, BlockFacts DEF Waiting
<1>3. applied[n] \in Nat /\ Len(log) \in Nat
      BY NodeFacts
<1>4. e.op \in Ops
      BY <1>2, <1>3, EntryAt, EntryFields
<1>5. Outcome(table[n], e) = Handle(At(table[n], e.port), e)
      BY DEF Outcome, At
<1> QED
      BY <1>2, <1>3, <1>4, <1>5, BlockingIs DEF Waits, HostOps, Runs

(* What the FSM goroutine of a node waits for never comes: it waits for a  *)
(* lock its own call holds, a receiver that has gone or the read lock of a *)
(* ring that a request of this node has taken, and no request, Start,      *)
(* closing of a proxy, snapshot or later entry lets the call through.      *)
THEOREM StuckForEverHolds == Spec => []StuckForEver
<1>1. Init => TypeInv /\ BlockInv
      BY TypeInit, BlockInit
<1>2. TypeInv /\ BlockInv /\ [Next]_vars => (TypeInv /\ BlockInv)'
      BY TypeNext, BlockNext
<1> QED
      BY <1>1, <1>2, BlockedWhy, PTL DEF Spec
=============================================================================
