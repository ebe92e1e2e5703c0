----------------------------- MODULE Discovery ------------------------------
(***************************************************************************)
(* Service discovery with ZooKeeper for one proxy in stand mode: the       *)
(* goroutine of watchServices, one goroutine of watchNode for each service *)
(* it finds, and the goroutine of HandleNamespaceEvent that receives their *)
(* events from an unbuffered channel and changes the proxy.                *)
(*                                                                         *)
(* ZooKeeper is external: a tree of services and nodes, one-shot watches   *)
(* on children, and reads that may fail. A node is the address it          *)
(* registers (an IPv4 address). Only discovery changes the proxy here, and *)
(* its balancers are round robin, so a prefix is a set of hosts.           *)
(***************************************************************************)
EXTENDS FiniteSets, Naturals

CONSTANTS
    ServiceNames, Hosts,
    NoEvent,        \* the handler waits at the channel
    Faults,         \* what may go wrong: "removal" of a service, read "error"
    MaxChanges      \* bound on the changes and faults of ZooKeeper

Event == [opt : {"ADD_SERVICE", "REMOVE_SERVICE", "ADD_HOST", "REMOVE_HOSTS"},
          service : ServiceNames, hosts : SUBSET Hosts]

(* The watch of /services is kept under a name that no service has.        *)
ASSUME DiscoveryAssumption ==
    /\ Faults \subseteq {"removal", "error"}
    /\ MaxChanges \in Nat
    /\ NoEvent \notin Event
    /\ "services" \notin ServiceNames

VARIABLES
    tree,           \* ZooKeeper: the nodes of each service that exists
    changes,        \* how often it has changed or failed
    watchers,       \* the watch of /services ("services") and of each service:
                    \* "armed", "fired" or "nil" (none)
    Services,       \* the services of the last turn of watchServices
    Shutdown,       \* the contexts: "live" or "cancelled" for each known service
    pc,             \* where watchServices is
    cur, todo,      \* curServices, and the part of a loop still to do
    turn,           \* the service whose event the loop is about to send
    node,           \* where the watchNode of a service is; "none": not running
    infos, left,    \* its infos, and the nodes a loop of it has still to do
    unread,         \* the nodes it has found in this turn and failed to read
                    \* (history)
    event,          \* the event the handler has received
    prefixes,       \* the proxy: the hosts of each prefix
    crashed

zookeeper == <<tree, changes>>
services  == <<Services, pc, cur, todo, turn>>
locals    == <<node, infos, left, unread>>
vars      == <<tree, changes, watchers, Services, Shutdown, pc, cur, todo,
               turn, node, infos, left, unread, event, prefixes, crashed>>

(* Go maps as functions.                                                   *)
Put(f, k, v) == [x \in DOMAIN f \cup {k} |-> IF x = k THEN v ELSE f[x]]
Del(f, k)    == [x \in DOMAIN f \ {k} |-> f[x]]
Get(f, k, d) == IF k \in DOMAIN f THEN f[k] ELSE d

Init ==
    /\ tree = <<>> /\ changes = 0
    /\ watchers = [w \in ServiceNames \cup {"services"} |-> "nil"]
    /\ Services = {} /\ Shutdown = <<>>
    /\ pc = "ChildrenW" /\ cur = {} /\ todo = {} /\ turn = {}
    /\ node = [s \in ServiceNames |-> "none"]
    /\ infos = [s \in ServiceNames |-> {}]
    /\ left = [s \in ServiceNames |-> {}] /\ unread = [s \in ServiceNames |-> {}]
    /\ event = NoEvent /\ prefixes = <<>>
    /\ crashed = FALSE

-----------------------------------------------------------------------------
(* ZooKeeper. A change fires the watches on the children it changes.       *)

Fire(S) == watchers' = [w \in DOMAIN watchers |->
                          IF w \in S /\ watchers[w] = "armed" THEN "fired"
                                                              ELSE watchers[w]]

Change(t, S) ==
    /\ ~crashed
    /\ changes < MaxChanges
    /\ changes' = changes + 1
    /\ tree' = t
    /\ Fire(S)
    /\ UNCHANGED <<services, Shutdown, locals, event, prefixes, crashed>>

CreateService(s) == s \notin DOMAIN tree /\ Change(Put(tree, s, {}), {"services"})

DeleteService(s) ==
    /\ "removal" \in Faults
    /\ s \in DOMAIN tree /\ tree[s] = {}
    /\ Change(Del(tree, s), {"services", s})

Register(s, h) ==
    /\ s \in DOMAIN tree /\ h \notin tree[s]
    /\ Change(Put(tree, s, tree[s] \cup {h}), {s})

Unregister(s, h) ==
    /\ s \in DOMAIN tree /\ h \in tree[s]
    /\ Change(Put(tree, s, tree[s] \ {h}), {s})

-----------------------------------------------------------------------------
(* An event is handed over when the handler is at the channel.             *)
Send(opt, s, hs) == /\ event = NoEvent
                    /\ event' = [opt |-> opt, service |-> s, hosts |-> hs]

(* watchServices                                                           *)

ListServices ==
    /\ ~crashed /\ pc = "ChildrenW"
    /\ cur' = DOMAIN tree
    /\ watchers' = [watchers EXCEPT !["services"] = "armed"]
    /\ todo' = Services \ DOMAIN tree
    /\ pc' = "remove"
    /\ UNCHANGED <<zookeeper, Services, Shutdown, turn, locals, event, prefixes, crashed>>

(* The missing context of a service has no cancel: calling it panics.      *)
Cancel(s) ==
    /\ ~crashed /\ pc = "remove"
    /\ s \in todo
    /\ IF s \in DOMAIN Shutdown
       THEN /\ Shutdown' = Put(Shutdown, s, "cancelled")
            /\ pc' = "removed" /\ turn' = {s}
            /\ UNCHANGED crashed
       ELSE crashed' = TRUE /\ UNCHANGED <<Shutdown, pc, turn>>
    /\ UNCHANGED <<zookeeper, watchers, Services, cur, todo, locals, event, prefixes>>

SendRemoved(s) ==
    /\ ~crashed /\ pc = "removed" /\ s \in turn
    /\ Send("REMOVE_SERVICE", s, {})
    /\ todo' = todo \ {s} /\ turn' = {}
    /\ pc' = "remove"
    /\ UNCHANGED <<zookeeper, watchers, Services, Shutdown, cur, locals, prefixes, crashed>>

AllRemoved ==
    /\ ~crashed /\ pc = "remove" /\ todo = {}
    /\ todo' = cur
    /\ pc' = "add"
    /\ UNCHANGED <<zookeeper, watchers, Services, Shutdown, cur, turn, locals, event,
                   prefixes, crashed>>

(* A service that has a context is being watched and is passed over.       *)
Look(s) ==
    /\ ~crashed /\ pc = "add"
    /\ s \in todo
    /\ IF s \in DOMAIN Shutdown
       THEN todo' = todo \ {s} /\ UNCHANGED <<Shutdown, pc, turn>>
       ELSE /\ Shutdown' = Put(Shutdown, s, "live")
            /\ pc' = "added" /\ turn' = {s}
            /\ UNCHANGED todo
    /\ UNCHANGED <<zookeeper, watchers, Services, cur, locals, event, prefixes, crashed>>

SendAdded(s) ==
    /\ ~crashed /\ pc = "added" /\ s \in turn
    /\ Send("ADD_SERVICE", s, {})
    /\ node' = [node EXCEPT ![s] = "ChildrenW"]
    /\ todo' = todo \ {s} /\ turn' = {}
    /\ pc' = "add"
    /\ UNCHANGED <<zookeeper, watchers, Services, Shutdown, cur, infos, unread, left,
                   prefixes, crashed>>

AllAdded ==
    /\ ~crashed /\ pc = "add" /\ todo = {}
    /\ Services' = cur
    /\ pc' = "notify"
    /\ UNCHANGED <<zookeeper, watchers, Shutdown, cur, todo, turn, locals, event, prefixes,
                   crashed>>

(* Mutant: the loop does not wait for the watch.                           *)
ServicesPoll ==
    /\ ~crashed /\ pc = "notify"
    /\ pc' = "ChildrenW"
    /\ UNCHANGED <<zookeeper, watchers, Services, Shutdown, cur, todo, turn, locals, event,
                   prefixes, crashed>>

ServicesNotify ==
    /\ ~crashed /\ pc = "notify"
    /\ watchers["services"] = "fired"
    /\ pc' = "ChildrenW"
    /\ UNCHANGED <<zookeeper, watchers, Services, Shutdown, cur, todo, turn, locals, event,
                   prefixes, crashed>>

(* The map Shutdown has no lock. Its writes by this goroutine and by a     *)
(* watchNode that returns may meet, which the Go runtime turns into a      *)
(* fatal error when it notices.                                            *)
ConcurrentMapWrites(s) ==
    /\ ~crashed /\ pc = "add"
    /\ \E t \in todo : t \notin DOMAIN Shutdown
    /\ node[s] = "select" /\ Get(Shutdown, s, "live") = "cancelled"
    /\ crashed' = TRUE
    /\ UNCHANGED <<zookeeper, watchers, services, Shutdown, locals, event, prefixes>>

-----------------------------------------------------------------------------
(* watchNode. A failed read of the children leaves no watch behind.        *)

ListNodes(s) ==
    /\ ~crashed /\ node[s] = "ChildrenW"
    /\ \/ /\ s \in DOMAIN tree
          /\ left' = [left EXCEPT ![s] = tree[s]]
          /\ watchers' = [watchers EXCEPT ![s] = "armed"]
          /\ UNCHANGED changes
       \/ /\ \/ s \notin DOMAIN tree /\ UNCHANGED changes
             \/ /\ "error" \in Faults /\ changes < MaxChanges
                /\ changes' = changes + 1
          /\ left' = [left EXCEPT ![s] = {}]
          /\ watchers' = [watchers EXCEPT ![s] = "nil"]
    /\ infos' = [infos EXCEPT ![s] = {}] /\ unread' = [unread EXCEPT ![s] = {}]
    /\ node' = [node EXCEPT ![s] = "Get"]
    /\ UNCHANGED <<tree, services, Shutdown, event, prefixes, crashed>>

(* Mutant: the nodes that could be read are skipped.                       *)
GetInfoInverted(s, h) ==
    /\ ~crashed /\ node[s] = "Get"
    /\ h \in left[s]
    /\ left' = [left EXCEPT ![s] = @ \ {h}]
    /\ infos' = IF h \in Get(tree, s, {}) THEN infos
                                          ELSE [infos EXCEPT ![s] = @ \cup {h}]
    /\ UNCHANGED <<zookeeper, watchers, services, Shutdown, node, unread, event,
                   prefixes, crashed>>

(* A node is skipped when it is gone by now, but also when it cannot be    *)
(* read although it is there, or its data cannot be parsed. The watch on   *)
(* the children stays, and nothing reads the node again before it fires.   *)
GetInfo(s, h) ==
    /\ ~crashed /\ node[s] = "Get"
    /\ h \in left[s]
    /\ left' = [left EXCEPT ![s] = @ \ {h}]
    /\ \/ /\ infos' = IF h \in Get(tree, s, {}) THEN [infos EXCEPT ![s] = @ \cup {h}]
                                                ELSE infos
          /\ UNCHANGED <<changes, unread>>
       \/ /\ "error" \in Faults /\ changes < MaxChanges
          /\ h \in Get(tree, s, {})
          /\ changes' = changes + 1
          /\ unread' = [unread EXCEPT ![s] = @ \cup {h}]
          /\ UNCHANGED infos
    /\ UNCHANGED <<tree, watchers, services, Shutdown, node, event, prefixes, crashed>>

SendNodes(s) ==
    /\ ~crashed /\ node[s] = "Get" /\ left[s] = {}
    /\ Send("REMOVE_HOSTS", s, infos[s])
    /\ left' = [left EXCEPT ![s] = infos[s]]
    /\ node' = [node EXCEPT ![s] = "add"]
    /\ UNCHANGED <<zookeeper, watchers, services, Shutdown, infos, unread, prefixes, crashed>>

SendNode(s, h) ==
    /\ ~crashed /\ node[s] = "add"
    /\ h \in left[s]
    /\ Send("ADD_HOST", s, {h})
    /\ left' = [left EXCEPT ![s] = @ \ {h}]
    /\ UNCHANGED <<zookeeper, watchers, services, Shutdown, node, infos, unread, prefixes,
                   crashed>>

AllSent(s) ==
    /\ ~crashed /\ node[s] = "add" /\ left[s] = {}
    /\ node' = [node EXCEPT ![s] = "select"]
    /\ UNCHANGED <<zookeeper, watchers, services, Shutdown, infos, unread, left, event,
                   prefixes, crashed>>

NodesNotify(s) ==
    /\ ~crashed /\ node[s] = "select"
    /\ watchers[s] = "fired"
    /\ node' = [node EXCEPT ![s] = "ChildrenW"]
    /\ UNCHANGED <<zookeeper, watchers, services, Shutdown, infos, unread, left, event,
                   prefixes, crashed>>

(* Mutant: the return is missing.                                          *)
DoneLoops(s) ==
    /\ ~crashed /\ node[s] = "select"
    /\ s \in DOMAIN Shutdown /\ Shutdown[s] = "cancelled"
    /\ Shutdown' = Del(Shutdown, s)
    /\ node' = [node EXCEPT ![s] = "ChildrenW"]
    /\ UNCHANGED <<zookeeper, watchers, services, infos, unread, left, event, prefixes, crashed>>

Done(s) ==
    /\ ~crashed /\ node[s] = "select"
    /\ s \in DOMAIN Shutdown /\ Shutdown[s] = "cancelled"
    /\ Shutdown' = Del(Shutdown, s)
    /\ node' = [node EXCEPT ![s] = "none"]
    /\ UNCHANGED <<zookeeper, watchers, services, infos, unread, left, event, prefixes,
                   crashed>>

-----------------------------------------------------------------------------
(* HandleNamespaceEvent, with the calls of the state manager it makes.     *)

HostExists(s, h) == h \in Get(prefixes, s, {})

(* The check is the one of addHttpProxyHost.                               *)
removeHttpProxyHost(s, h) == IF HostExists(s, h) THEN {} ELSE {h}

Handle(opt) == ~crashed /\ event # NoEvent /\ event.opt = opt /\ event' = NoEvent

AddService ==
    /\ Handle("ADD_SERVICE")
    /\ prefixes' = IF event.service \in DOMAIN prefixes THEN prefixes
                   ELSE Put(prefixes, event.service, {})
    /\ UNCHANGED <<zookeeper, watchers, services, Shutdown, locals, crashed>>

RemoveService ==
    /\ Handle("REMOVE_SERVICE")
    /\ prefixes' = Del(prefixes, event.service)
    /\ UNCHANGED <<zookeeper, watchers, services, Shutdown, locals, crashed>>

(* Mutant: the name of the service is taken for the host.                  *)
AddHostNamed ==
    /\ Handle("ADD_HOST")
    /\ prefixes' = Put(prefixes, event.service,
                       Get(prefixes, event.service, {}) \cup {event.service})
    /\ UNCHANGED <<zookeeper, watchers, services, Shutdown, locals, crashed>>

(* AddHost on a prefix that is not there panics in this goroutine.         *)
AddHost ==
    LET s == event.service IN
    /\ Handle("ADD_HOST")
    /\ IF s \in DOMAIN prefixes
       THEN prefixes' = Put(prefixes, s, prefixes[s] \cup event.hosts) /\ UNCHANGED crashed
       ELSE crashed' = TRUE /\ UNCHANGED prefixes
    /\ UNCHANGED <<zookeeper, watchers, services, Shutdown, locals>>

RemoveHosts ==
    LET s == event.service
        gone == Get(prefixes, s, {}) \ event.hosts IN
    /\ Handle("REMOVE_HOSTS")
    /\ prefixes' = IF s \in DOMAIN prefixes
                   THEN Put(prefixes, s, prefixes[s]
                                         \ UNION {removeHttpProxyHost(s, h) : h \in gone})
                   ELSE prefixes
    /\ UNCHANGED <<zookeeper, watchers, services, Shutdown, locals, crashed>>

-----------------------------------------------------------------------------
WatchServices ==
    \/ ListServices \/ AllRemoved \/ AllAdded \/ ServicesNotify
    \/ \E s \in ServiceNames : \/ Cancel(s) \/ SendRemoved(s)
                               \/ Look(s) \/ SendAdded(s)

WatchNode(s) ==
    \/ ListNodes(s) \/ SendNodes(s) \/ AllSent(s) \/ NodesNotify(s) \/ Done(s)
    \/ \E h \in Hosts : GetInfo(s, h) \/ SendNode(s, h)

HandleNamespaceEvent == AddService \/ RemoveService \/ AddHost \/ RemoveHosts

Next ==
    \/ \E s \in ServiceNames :
         \/ CreateService(s) \/ DeleteService(s)
         \/ \E h \in Hosts : Register(s, h) \/ Unregister(s, h)
         \/ WatchNode(s) \/ ConcurrentMapWrites(s)
    \/ WatchServices
    \/ HandleNamespaceEvent

Spec == Init /\ [][Next]_vars

(* Goroutines that can run do, and one that waits to send gets its turn.   *)
FairSpec == /\ Spec
            /\ SF_vars(WatchServices)
            /\ WF_vars(HandleNamespaceEvent)
            /\ \A s \in ServiceNames : SF_vars(WatchNode(s))

-----------------------------------------------------------------------------
(* Every variable has the type of its Go counterpart.                      *)
TypeOK ==
    /\ DOMAIN tree \subseteq ServiceNames /\ \A s \in DOMAIN tree : tree[s] \subseteq Hosts
    /\ changes \in 0 .. MaxChanges
    /\ watchers \in [ServiceNames \cup {"services"} -> {"nil", "armed", "fired"}]
    /\ DOMAIN Shutdown \subseteq ServiceNames
    /\ \A s \in DOMAIN Shutdown : Shutdown[s] \in {"live", "cancelled"}
    /\ UNION {Services, cur, todo, turn} \subseteq ServiceNames
    /\ pc \in {"ChildrenW", "remove", "removed", "add", "added", "notify"}
    /\ node \in [ServiceNames -> {"none", "ChildrenW", "Get", "add", "select"}]
    /\ infos \in [ServiceNames -> SUBSET Hosts]
    /\ left \in [ServiceNames -> SUBSET Hosts] /\ unread \in [ServiceNames -> SUBSET Hosts]
    /\ event \in Event \cup {NoEvent}
    /\ DOMAIN prefixes \subseteq ServiceNames
    /\ \A s \in DOMAIN prefixes : prefixes[s] \subseteq Hosts
    /\ crashed \in BOOLEAN

(* A watchNode that runs has its context in Shutdown, so that the select   *)
(* at the end of its turn has a Done channel: no other goroutine takes the *)
(* entry away, and no second one for the service is started beside it.     *)
ContextThere == \A s \in ServiceNames : node[s] # "none" => s \in DOMAIN Shutdown

(* Nothing is left to do until ZooKeeper changes again.                    *)
Quiescent ==
    /\ event = NoEvent
    /\ pc = "notify" /\ watchers["services"] # "fired"
    /\ \A s \in ServiceNames :
         \/ node[s] = "none"
         \/ node[s] = "select" /\ watchers[s] # "fired"
            /\ Get(Shutdown, s, "live") = "live"

(* When the goroutines have come to rest, every service whose children are *)
(* being watched has its prefix, whatever removals and failed reads came   *)
(* before, and all its nodes are hosts of it but those that the last turn  *)
(* found and could not read (zookeeper_client.go:174-182).                 *)
HostsFound ==
    Quiescent /\ ~crashed =>
      \A s \in DOMAIN tree :
        node[s] = "select" /\ watchers[s] = "armed"
        => s \in DOMAIN prefixes /\ tree[s] \ unread[s] \subseteq prefixes[s]

(* They do come to rest: no goroutine waits for another one for ever.      *)
ComesToRest == <>[](Quiescent \/ crashed)
=============================================================================
