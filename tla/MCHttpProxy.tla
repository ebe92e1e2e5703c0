---------------------------- MODULE MCHttpProxy -----------------------------
(* Small instances of HttpProxy: which requests a run sends.               *)
EXTENDS HttpProxy

CONSTANTS h1, h2, slow, q1, q2

A  == <<"a">>
AB == <<"a", "b">>
B  == <<"b">>

(* Goroutines that run the same requests are interchangeable.               *)
Symmetry == Permutations(Procs)

(* The ring: the replicas of the two hosts alternate.                      *)
MCPositions == 0 .. 5
MCHash == [i \in Replicas |-> [h \in {h1, h2} |-> 2 * i + (IF h = h1 THEN 0 ELSE 1)]]

Req(op, p) == [NoRequest EXCEPT !.op = op, !.prefix = p]
ReqHost(op, p, h) == [Req(op, p) EXCEPT !.hosts = <<h>>]
ReqAdd(p, algo, hs) ==
    [Req("addHttpProxyPrefix", p) EXCEPT !.algo = algo, !.hosts = hs]
ReqLb(p, algo) == [Req("changeLb", p) EXCEPT !.algo = algo]
ReqServe(path) == [Req("ServeHTTP", <<>>) EXCEPT !.url = path]
ReqRate(p, u, r) == [Req("setRateLimiter", p) EXCEPT !.url = u, !.rate = r]

RoutingRequests ==
    {ReqAdd(A, RR, <<h1, h2>>), ReqAdd(A, "unknown", <<h1>>),
     Req("removeHttpProxyPrefix", A), ReqHost("addHttpProxyHost", A, h2),
     ReqHost("removeHttpProxyHost", A, h1),
     ReqHost("RegisterToProxy", A, h2), ReqHost("Cancel", A, h2),
     ReqLb(A, CH), ReqLb(A, RR), Req("changeStatic", A),
     [Req("changeState", <<>>) EXCEPT !.state = FALSE],
     Req("LoadBalance", A), ReqRate(A, B, slow)}

(* Proxied requests against administration of their prefix, its hosts and  *)
(* their limiters, with round-robin balancers only.                        *)
ProxiedRequests ==
    {ReqAdd(A, RR, <<h1>>), Req("removeHttpProxyPrefix", A),
     ReqHost("addHttpProxyHost", A, h2), ReqHost("RegisterToProxy", A, h1),
     ReqHost("Cancel", A, h2), ReqServe(A), ReqServe(AB), Req("changeStatic", A),
     ReqRate(A, B, slow), ReqRate(A, B, ZeroSpeed)}
=============================================================================
