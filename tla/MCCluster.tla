----------------------------- MODULE MCCluster ------------------------------
(* Small instances of Cluster: the commands clients ask for.               *)
EXTENDS Cluster

CONSTANTS n1, n2, h1, h2, x1

MCPositions == 0 .. 5
MCHash == [i \in Replicas |-> [h \in {h1, h2} |-> 2 * i + (IF h = h1 THEN 0 ELSE 1)]]

Entry(op) ==
    [op |-> op, port |-> 1, prefix |-> "a", algo |-> RR, hosts |-> <<h1>>,
     static |-> FALSE, net |-> x1, legal |-> TRUE, fresh |-> TRUE]

(* Only the second node has a proxy in its configuration file.             *)
MCConfig ==
    [n \in Nodes |->
       IF n = n1 THEN <<>>
       ELSE 2 :> ("a" :> [algo |-> RR, hosts |-> <<h1>>, static |-> FALSE])]

MCLeaderAddress == [n \in {n2} |-> n1]
MCTraffic == {<<n1, 1, "a">>}
OnlyFirst(k) == [n \in Nodes |-> IF n = n1 THEN k ELSE 0]
MCMaxSnaps == OnlyFirst(1)
MCMaxKills == OnlyFirst(1)

AddProxy == Entry("ADD_HTTP_PROXY")
AddA     == [Entry("ADD_HTTP_PROXY_PREFIX") EXCEPT !.algo = CH]
AddH2    == [Entry("ADD_HTTP_PROXY_HOST") EXCEPT !.hosts = <<h2>>]

Illegal(e) == [e EXCEPT !.legal = FALSE]

MCCommands ==
    {AddProxy, AddA, AddH2, Entry("CHG_LB"), Entry("RMV_HTTP_PROXY_PREFIX"),
     Entry("CLOSE"), Entry("SET_RATE_LIMITER"), Entry("ADD_HTTP_BLACK_LIST"),
     Illegal(AddProxy), Illegal(Entry("SET_RATE_LIMITER"))}
=============================================================================
