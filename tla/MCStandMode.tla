---------------------------- MODULE MCStandMode -----------------------------
(* Small instances of StandMode: the requests served between snapshots.    *)
EXTENDS StandMode

CONSTANTS h1, h2, slow, q1, q2

A  == <<"a">>
AB == <<"a", "b">>
B  == <<"b">>

Symmetry == Permutations(Procs)

MCPositions == 0 .. 5
MCHash == [i \in Replicas |-> [h \in {h1, h2} |-> 2 * i + (IF h = h1 THEN 0 ELSE 1)]]

Req(op, p) == [NoRequest EXCEPT !.op = op, !.prefix = p]
ReqAdd(p, algo, hs) ==
    [Req("addHttpProxyPrefix", p) EXCEPT !.algo = algo, !.hosts = hs]
ReqServe(path) == [Req("ServeHTTP", <<>>) EXCEPT !.url = path]
ReqRate(p, u, r) == [Req("setRateLimiter", p) EXCEPT !.url = u, !.rate = r]

(* Everything a restart has to bring back, and what makes it fail.         *)
RestartRequests ==
    {ReqAdd(A, RR, <<h1>>), ReqAdd(A, "unknown", <<h1>>),
     Req("removeHttpProxyPrefix", A), ReqServe(AB), ReqRate(A, B, slow), ReqRate(A, B, ZeroSpeed),
     [Req("changeState", <<>>) EXCEPT !.state = FALSE]}

(* What tears a snapshot.                                                  *)
AddRemoveRequests == {ReqAdd(A, RR, <<h1>>), Req("removeHttpProxyPrefix", A)}
=============================================================================
