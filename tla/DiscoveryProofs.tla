--------------------------- MODULE DiscoveryProofs ---------------------------
(***************************************************************************)
(* The safety of Discovery for every set of services and hosts, any number *)
(* of changes of ZooKeeper and either kind of fault.                       *)
(***************************************************************************)
EXTENDS Discovery, TLAPS

-----------------------------------------------------------------------------
(* The context of a watchNode.                                             *)

(* Between making the context and starting the goroutine, the loop of      *)
(* watchServices is the only one that knows the service.                   *)
AddedInv ==
    pc = "added" =>
      \A s \in turn : s \in DOMAIN Shutdown /\ node[s] = "none"

ContextInv == TypeOK /\ AddedInv /\ ContextThere

(* The goroutine whose context is live is not about to lose its prefix:    *)
(* REMOVE_SERVICE is neither on its way nor about to be sent, and the      *)
(* prefix is there or ADD_SERVICE is on its way.                           *)
Runs(s) == node[s] # "none" /\ s \in DOMAIN Shutdown /\ Shutdown[s] = "live"

OnItsWay(opt, s) == event # NoEvent /\ event.opt = opt /\ event.service = s

RemovedInv ==
    \A s \in ServiceNames : Runs(s) =>
      /\ ~OnItsWay("REMOVE_SERVICE", s)
      /\ ~(pc = "removed" /\ s \in turn)

PrefixInv ==
    ~crashed => \A s \in ServiceNames : Runs(s) =>
      s \in DOMAIN prefixes \/ OnItsWay("ADD_SERVICE", s)

(* A watch that has not fired is the watch of a service that exists.       *)
WatchInv == \A s \in ServiceNames : watchers[s] = "armed" => s \in DOMAIN tree

(* While the watch of a goroutine has not fired, every node of its service *)
(* that it did not fail to read is still to be read, has been read, is     *)
(* still to be sent, is on its way to the handler or is a host.            *)
Pending(s) == IF OnItsWay("ADD_HOST", s) THEN event.hosts ELSE {}
Found(s)   == Pending(s) \cup Get(prefixes, s, {})

Tracked(s) ==
    /\ node[s] = "Get"    => tree[s] \ unread[s] \subseteq left[s] \cup infos[s]
    /\ node[s] = "add"    => tree[s] \ unread[s] \subseteq left[s] \cup Found(s)
    /\ node[s] = "select" => tree[s] \ unread[s] \subseteq Found(s)

FoundInv ==
    ~crashed => \A s \in ServiceNames :
                  Runs(s) /\ watchers[s] = "armed" => Tracked(s)

IInv == ContextInv /\ RemovedInv /\ PrefixInv /\ WatchInv /\ FoundInv

-----------------------------------------------------------------------------
(* Type correctness.                                                       *)

(* A change of ZooKeeper to a well-typed tree keeps the types: it fires    *)
(* watches and touches nothing of the proxy.                               *)
LEMMA ChangeType ==
  ASSUME TypeOK, NEW t, NEW S, Change(t, S),
         DOMAIN t \subseteq ServiceNames, \A s \in DOMAIN t : t[s] \in SUBSET Hosts
  PROVE  TypeOK'
<1> USE DEF TypeOK
<1>1. DOMAIN tree' \subseteq ServiceNames /\ \A s \in DOMAIN tree' : tree'[s] \subseteq Hosts
  BY DEF Change
<1>2. changes' \in 0 .. MaxChanges
  BY DiscoveryAssumption DEF Change
<1>3. watchers' \in [ServiceNames \cup {"services"} -> {"nil", "armed", "fired"}]
  BY DEF Change, Fire
<1> QED BY <1>1, <1>2, <1>3 DEF Change, services, locals

(* So does each kind of change.                                            *)
LEMMA ZooKeeperType ==
  ASSUME TypeOK, NEW s \in ServiceNames, NEW h \in Hosts,
         CreateService(s) \/ DeleteService(s) \/ Register(s, h) \/ Unregister(s, h)
  PROVE  TypeOK'
<1>1. /\ DOMAIN tree \subseteq ServiceNames
      /\ \A x \in DOMAIN tree : tree[x] \in SUBSET Hosts
  BY DEF TypeOK
<1>2. CASE CreateService(s)
  <2>1. {} \in SUBSET Hosts
    OBVIOUS
  <2> QED BY <1>1, <1>2, <2>1, ChangeType DEF CreateService, Put
<1>3. CASE DeleteService(s)
  BY <1>1, <1>3, ChangeType DEF DeleteService, Del
<1>4. CASE Register(s, h)
  <2>1. tree[s] \cup {h} \in SUBSET Hosts
    BY <1>1, <1>4 DEF Register
  <2> QED BY <1>1, <1>4, <2>1, ChangeType DEF Register, Put
<1>5. CASE Unregister(s, h)
  <2>1. tree[s] \ {h} \in SUBSET Hosts
    BY <1>1, <1>5 DEF Unregister
  <2> QED BY <1>1, <1>5, <2>1, ChangeType DEF Unregister, Put
<1> QED BY <1>2, <1>3, <1>4, <1>5

(* So do the steps of watchServices.                                       *)
LEMMA WatchServicesType == TypeOK /\ WatchServices => TypeOK'
<1> SUFFICES ASSUME TypeOK, WatchServices PROVE TypeOK'
  OBVIOUS
<1> USE DEF TypeOK, zookeeper, services, locals
<1>1. CASE ListServices
  BY <1>1 DEF ListServices
<1>2. CASE AllRemoved
  BY <1>2 DEF AllRemoved
<1>3. CASE AllAdded
  BY <1>3 DEF AllAdded
<1>4. CASE ServicesNotify
  BY <1>4 DEF ServicesNotify
<1>5. ASSUME NEW s \in ServiceNames, Cancel(s)
      PROVE  TypeOK'
  <2>1. /\ DOMAIN Shutdown' \subseteq ServiceNames
        /\ \A x \in DOMAIN Shutdown' : Shutdown'[x] \in {"live", "cancelled"}
    BY <1>5 DEF Cancel, Put
  <2>2. crashed' \in BOOLEAN /\ turn' \subseteq ServiceNames
    BY <1>5 DEF Cancel
  <2>3. pc' \in {"ChildrenW", "remove", "removed", "add", "added", "notify"}
    BY <1>5 DEF Cancel
  <2> QED BY <1>5, <2>1, <2>2, <2>3 DEF Cancel
<1>6. ASSUME NEW s \in ServiceNames, SendRemoved(s)
      PROVE  TypeOK'
  <2>1. event' \in Event
    BY <1>6 DEF SendRemoved, Send, Event
  <2> QED BY <1>6, <2>1 DEF SendRemoved
<1>7. ASSUME NEW s \in ServiceNames, Look(s)
      PROVE  TypeOK'
  <2>1. /\ DOMAIN Shutdown' \subseteq ServiceNames
        /\ \A x \in DOMAIN Shutdown' : Shutdown'[x] \in {"live", "cancelled"}
    BY <1>7 DEF Look, Put
  <2>2. todo' \subseteq ServiceNames /\ turn' \subseteq ServiceNames
    BY <1>7 DEF Look
  <2>3. pc' \in {"ChildrenW", "remove", "removed", "add", "added", "notify"}
    BY <1>7 DEF Look
  <2> QED BY <1>7, <2>1, <2>2, <2>3 DEF Look
<1>8. ASSUME NEW s \in ServiceNames, SendAdded(s)
      PROVE  TypeOK'
  <2>1. event' \in Event
    BY <1>8 DEF SendAdded, Send, Event
  <2>2. node' \in [ServiceNames -> {"none", "ChildrenW", "Get", "add", "select"}]
    BY <1>8 DEF SendAdded
  <2> QED BY <1>8, <2>1, <2>2 DEF SendAdded
<1> QED BY <1>1, <1>2, <1>3, <1>4, <1>5, <1>6, <1>7, <1>8 DEF WatchServices

(* So do the steps of a watchNode.                                         *)
LEMMA WatchNodeType ==
  ASSUME TypeOK, NEW s \in ServiceNames, WatchNode(s)
  PROVE  TypeOK'
<1> USE DEF TypeOK, zookeeper, services, locals
<1>1. CASE ListNodes(s)
  <2>1. changes' \in 0 .. MaxChanges
    BY <1>1, DiscoveryAssumption DEF ListNodes
  <2>2. watchers' \in [ServiceNames \cup {"services"} -> {"nil", "armed", "fired"}]
    BY <1>1 DEF ListNodes
  <2>3. /\ left' \in [ServiceNames -> SUBSET Hosts]
        /\ infos' \in [ServiceNames -> SUBSET Hosts]
        /\ unread' \in [ServiceNames -> SUBSET Hosts]
    BY <1>1 DEF ListNodes
  <2>4. node' \in [ServiceNames -> {"none", "ChildrenW", "Get", "add", "select"}]
    BY <1>1 DEF ListNodes
  <2> QED BY <1>1, <2>1, <2>2, <2>3, <2>4 DEF ListNodes
<1>2. CASE SendNodes(s)
  <2>1. event' \in Event
    BY <1>2 DEF SendNodes, Send, Event
  <2> QED BY <1>2, <2>1 DEF SendNodes
<1>3. CASE AllSent(s)
  BY <1>3 DEF AllSent
<1>4. CASE NodesNotify(s)
  BY <1>4 DEF NodesNotify
<1>5. CASE Done(s)
  <2>1. /\ DOMAIN Shutdown' \subseteq ServiceNames
        /\ \A x \in DOMAIN Shutdown' : Shutdown'[x] \in {"live", "cancelled"}
    BY <1>5 DEF Done, Del
  <2> QED BY <1>5, <2>1 DEF Done
<1>6. ASSUME NEW h \in Hosts, GetInfo(s, h)
      PROVE  TypeOK'
  <2>1. changes' \in 0 .. MaxChanges
    BY <1>6, DiscoveryAssumption DEF GetInfo
  <2>2. /\ left' \in [ServiceNames -> SUBSET Hosts]
        /\ infos' \in [ServiceNames -> SUBSET Hosts]
        /\ unread' \in [ServiceNames -> SUBSET Hosts]
    BY <1>6 DEF GetInfo
  <2> QED BY <1>6, <2>1, <2>2 DEF GetInfo
<1>7. ASSUME NEW h \in Hosts, SendNode(s, h)
      PROVE  TypeOK'
  <2>1. event' \in Event
    BY <1>7 DEF SendNode, Send, Event
  <2> QED BY <1>7, <2>1 DEF SendNode
<1> QED BY <1>1, <1>2, <1>3, <1>4, <1>5, <1>6, <1>7 DEF WatchNode

(* So do the calls of the handler.                                         *)
LEMMA HandlerType == TypeOK /\ HandleNamespaceEvent => TypeOK'
<1> SUFFICES ASSUME TypeOK, HandleNamespaceEvent PROVE TypeOK'
  OBVIOUS
<1>1. event \in Event /\ event' = NoEvent
  BY DEF TypeOK, HandleNamespaceEvent, Handle, AddService, RemoveService, AddHost, RemoveHosts
<1>2. event.service \in ServiceNames /\ event.hosts \in SUBSET Hosts
  BY <1>1 DEF Event
<1>3. /\ DOMAIN prefixes \subseteq ServiceNames
      /\ \A s \in DOMAIN prefixes : prefixes[s] \in SUBSET Hosts
  BY DEF TypeOK
<1>4. SUFFICES /\ DOMAIN prefixes' \subseteq ServiceNames
               /\ \A s \in DOMAIN prefixes' : prefixes'[s] \in SUBSET Hosts
  <2>1. crashed' \in BOOLEAN
    BY DEF TypeOK, HandleNamespaceEvent, AddService, RemoveService, AddHost, RemoveHosts
  <2>2. UNCHANGED <<tree, changes, watchers, Services, Shutdown, pc, cur, todo, turn,
                    node, infos, left, unread>>
    BY DEF HandleNamespaceEvent, AddService, RemoveService, AddHost, RemoveHosts,
           zookeeper, services, locals
  <2> QED BY <1>1, <1>4, <2>1, <2>2 DEF TypeOK
<1>5. CASE AddService
  <2>1. {} \in SUBSET Hosts
    OBVIOUS
  <2> QED BY <1>2, <1>3, <1>5, <2>1 DEF AddService, Put
<1>6. CASE RemoveService
  BY <1>3, <1>6 DEF RemoveService, Del
<1>7. CASE AddHost
  <2>1. CASE event.service \in DOMAIN prefixes
    <3>1. prefixes[event.service] \cup event.hosts \in SUBSET Hosts
      BY <1>2, <1>3, <2>1
    <3> QED BY <1>2, <1>3, <1>7, <2>1, <3>1 DEF AddHost, Put
  <2> QED BY <1>3, <1>7, <2>1 DEF AddHost
<1>8. CASE RemoveHosts
  <2>1. CASE event.service \in DOMAIN prefixes
    <3> DEFINE gone == Get(prefixes, event.service, {}) \ event.hosts
               rest == prefixes[event.service]
                         \ UNION {removeHttpProxyHost(event.service, h) : h \in gone}
    <3>1. rest \in SUBSET Hosts
      BY <1>2, <1>3, <2>1
    <3>2. prefixes' = Put(prefixes, event.service, rest)
      BY <1>8, <2>1 DEF RemoveHosts
    <3> HIDE DEF rest
    <3> QED BY <1>2, <1>3, <3>1, <3>2 DEF Put
  <2> QED BY <1>3, <1>8, <2>1 DEF RemoveHosts
<1> QED BY <1>5, <1>6, <1>7, <1>8 DEF HandleNamespaceEvent

(* Every step keeps the types.                                             *)
LEMMA TypeNext == TypeOK /\ [Next]_vars => TypeOK'
<1> SUFFICES ASSUME TypeOK, [Next]_vars PROVE TypeOK'
  OBVIOUS
<1>1. ASSUME NEW s \in ServiceNames, CreateService(s) \/ DeleteService(s)
      PROVE  TypeOK'
  <2>1. /\ DOMAIN tree \subseteq ServiceNames
        /\ \A x \in DOMAIN tree : tree[x] \in SUBSET Hosts
        /\ {} \in SUBSET Hosts
    BY DEF TypeOK
  <2> QED BY <1>1, <2>1, ChangeType DEF CreateService, DeleteService, Put, Del
<1>2. ASSUME NEW s \in ServiceNames, ConcurrentMapWrites(s)
      PROVE  TypeOK'
  BY <1>2 DEF ConcurrentMapWrites, TypeOK, zookeeper, services, locals
<1>3. CASE UNCHANGED vars
  BY <1>3 DEF TypeOK, vars
<1> QED BY <1>1, <1>2, <1>3, ZooKeeperType, WatchNodeType, WatchServicesType, HandlerType
        DEF Next

-----------------------------------------------------------------------------
(* Contexts.                                                               *)

(* Steps that touch none of what the contexts are about.                   *)
LEMMA ContextKept ==
  ASSUME AddedInv, ContextThere, UNCHANGED <<pc, turn, Shutdown, node>>
  PROVE  AddedInv' /\ ContextThere'
BY DEF AddedInv, ContextThere

(* Every step keeps the context of a watchNode that runs, or is about to.  *)
LEMMA ContextNext == ContextInv /\ [Next]_vars => ContextInv'
<1> SUFFICES ASSUME ContextInv, [Next]_vars PROVE AddedInv' /\ ContextThere'
  BY TypeNext DEF ContextInv
<1> USE DEF zookeeper, services, locals
<1>0. TypeOK /\ AddedInv /\ ContextThere
  BY DEF ContextInv
<1>1. ASSUME NEW s \in ServiceNames, NEW h \in Hosts,
             CreateService(s) \/ DeleteService(s) \/ Register(s, h) \/ Unregister(s, h)
      PROVE  UNCHANGED <<pc, turn, Shutdown, node>>
  BY <1>1 DEF CreateService, DeleteService, Register, Unregister, Change
<1>2. ASSUME NEW s \in ServiceNames, CreateService(s) \/ DeleteService(s)
      PROVE  UNCHANGED <<pc, turn, Shutdown, node>>
  BY <1>2 DEF CreateService, DeleteService, Change
<1>3. ASSUME NEW s \in ServiceNames, ConcurrentMapWrites(s)
      PROVE  UNCHANGED <<pc, turn, Shutdown, node>>
  BY <1>3 DEF ConcurrentMapWrites
<1>4. CASE HandleNamespaceEvent
  BY <1>0, <1>4, ContextKept
     DEF HandleNamespaceEvent, AddService, RemoveService, AddHost, RemoveHosts
<1>5. CASE WatchServices
  <2>1. CASE ListServices \/ AllRemoved \/ AllAdded \/ ServicesNotify
    BY <1>0, <2>1 DEF ListServices, AllRemoved, AllAdded, ServicesNotify,
                      AddedInv, ContextThere
  <2>2. ASSUME NEW s \in ServiceNames, Cancel(s)
        PROVE  AddedInv' /\ ContextThere'
    BY <1>0, <2>2 DEF Cancel, Put, AddedInv, ContextThere
  <2>3. ASSUME NEW s \in ServiceNames, SendRemoved(s)
        PROVE  AddedInv' /\ ContextThere'
    BY <1>0, <2>3 DEF SendRemoved, AddedInv, ContextThere
  <2>4. ASSUME NEW s \in ServiceNames, Look(s)
        PROVE  AddedInv' /\ ContextThere'
    BY <1>0, <2>4 DEF Look, Put, AddedInv, ContextThere
  <2>5. ASSUME NEW s \in ServiceNames, SendAdded(s)
        PROVE  AddedInv' /\ ContextThere'
    BY <1>0, <2>5 DEF SendAdded, AddedInv, ContextThere, TypeOK
  <2> QED BY <1>5, <2>1, <2>2, <2>3, <2>4, <2>5 DEF WatchServices
<1>6. ASSUME NEW s \in ServiceNames, WatchNode(s)
      PROVE  AddedInv' /\ ContextThere'
  <2>1. CASE Done(s)
    BY <1>0, <2>1 DEF Done, Del, AddedInv, ContextThere, TypeOK
  <2>2. ASSUME NEW h \in Hosts, GetInfo(s, h) \/ SendNode(s, h)
        PROVE  AddedInv' /\ ContextThere'
    BY <1>0, <2>2, ContextKept DEF GetInfo, SendNode
  <2>3. CASE ListNodes(s) \/ SendNodes(s) \/ AllSent(s) \/ NodesNotify(s)
    <3>1. /\ UNCHANGED <<pc, turn, Shutdown>>
          /\ node[s] # "none"
          /\ \A x \in ServiceNames : x # s => node'[x] = node[x]
      BY <1>0, <2>3 DEF ListNodes, SendNodes, AllSent, NodesNotify, TypeOK
    <3>2. turn \subseteq ServiceNames
      BY <1>0 DEF TypeOK
    <3> QED BY <1>0, <3>1, <3>2 DEF AddedInv, ContextThere
  <2> QED BY <1>6, <2>1, <2>2, <2>3 DEF WatchNode
<1>7. CASE UNCHANGED vars
  BY <1>0, <1>7, ContextKept DEF vars
<1> QED BY <1>0, <1>1, <1>2, <1>3, <1>4, <1>5, <1>6, <1>7, ContextKept DEF Next

(* The initial state satisfies the invariants.                             *)
LEMMA InitIInv == Init => IInv
<1> SUFFICES ASSUME Init PROVE IInv
  OBVIOUS
<1> USE DEF Init
<1>1. TypeOK
  <2>1. DOMAIN tree = {} /\ DOMAIN Shutdown = {} /\ DOMAIN prefixes = {}
    OBVIOUS
  <2>2. UNION {Services, cur, todo, turn} = {}
    OBVIOUS
  <2>3. /\ infos \in [ServiceNames -> SUBSET Hosts]
        /\ left \in [ServiceNames -> SUBSET Hosts]
        /\ unread \in [ServiceNames -> SUBSET Hosts]
        /\ watchers \in [ServiceNames \cup {"services"} -> {"nil", "armed", "fired"}]
        /\ node \in [ServiceNames -> {"none", "ChildrenW", "Get", "add", "select"}]
    OBVIOUS
  <2>4. changes \in 0 .. MaxChanges
    BY DiscoveryAssumption
  <2> HIDE DEF Init
  <2>5. pc = "ChildrenW" /\ event = NoEvent /\ crashed = FALSE
    BY DEF Init
  <2> QED BY <2>1, <2>2, <2>3, <2>4, <2>5 DEF TypeOK
<1>2. AddedInv /\ ContextThere /\ RemovedInv /\ PrefixInv /\ WatchInv /\ FoundInv
  BY DEF AddedInv, ContextThere, RemovedInv, PrefixInv, WatchInv, FoundInv, Runs
<1> QED BY <1>1, <1>2 DEF IInv, ContextInv

(* The types hold in every state.                                          *)
THEOREM TypeCorrect == Spec => []TypeOK
<1>1. Init => TypeOK
  BY InitIInv DEF IInv, ContextInv
<1> QED BY <1>1, TypeNext, PTL DEF Spec

(* A watchNode that runs always has its context, so that the select at the *)
(* end of its turn has a Done channel, whichever services go and come back *)
(* beside it.                                                              *)
THEOREM ContextThereHolds == Spec => []ContextThere
<1>1. Init => ContextInv
  BY InitIInv DEF IInv
<1>2. ContextInv => ContextThere
  BY DEF ContextInv
<1> QED BY <1>1, <1>2, ContextNext, PTL DEF Spec

-----------------------------------------------------------------------------
(* Hosts.                                                                  *)

(* A change of ZooKeeper under a watch fires it: where the watch has not   *)
(* fired, nothing has changed.                                             *)
LEMMA ChangeFires ==
  ASSUME TypeOK, WatchInv, NEW x \in ServiceNames, NEW h,
         CreateService(x) \/ DeleteService(x) \/ Register(x, h) \/ Unregister(x, h)
  PROVE  \A s \in ServiceNames : watchers'[s] = "armed" =>
           watchers[s] = "armed" /\ s \in DOMAIN tree' /\ tree'[s] = tree[s]
<1> SUFFICES ASSUME NEW s \in ServiceNames, watchers'[s] = "armed"
             PROVE  watchers[s] = "armed" /\ s \in DOMAIN tree' /\ tree'[s] = tree[s]
  OBVIOUS
<1>1. DOMAIN watchers = ServiceNames \cup {"services"} /\ s # "services"
  BY DiscoveryAssumption DEF TypeOK
<1>2. ASSUME NEW S, Fire(S)
      PROVE  watchers[s] = "armed" /\ s \notin S
  BY <1>1, <1>2 DEF Fire
<1>3. CASE CreateService(x)
  BY <1>2, <1>3 DEF CreateService, Change, Put, WatchInv
<1>4. CASE DeleteService(x)
  BY <1>2, <1>4 DEF DeleteService, Change, Del, WatchInv
<1>5. CASE Register(x, h)
  BY <1>2, <1>5 DEF Register, Change, Put, WatchInv
<1>6. CASE Unregister(x, h)
  BY <1>2, <1>6 DEF Unregister, Change, Put, WatchInv
<1> QED BY <1>3, <1>4, <1>5, <1>6

(* A watch is armed only on a service that exists.                         *)
LEMMA WatchNext == TypeOK /\ WatchInv /\ [Next]_vars => WatchInv'
<1> SUFFICES ASSUME TypeOK, WatchInv, [Next]_vars PROVE WatchInv'
  OBVIOUS
<1> USE DEF zookeeper
<1>1. ASSUME UNCHANGED <<tree, watchers>>
      PROVE  WatchInv'
  BY <1>1 DEF WatchInv
<1>2. ASSUME NEW s \in ServiceNames, CreateService(s) \/ DeleteService(s)
      PROVE  WatchInv'
  BY <1>2, ChangeFires DEF WatchInv
<1>3. ASSUME NEW s \in ServiceNames, NEW h \in Hosts, Register(s, h) \/ Unregister(s, h)
      PROVE  WatchInv'
  BY <1>3, ChangeFires DEF WatchInv
<1>4. ASSUME NEW s \in ServiceNames, ListNodes(s)
      PROVE  WatchInv'
  BY <1>4 DEF ListNodes, WatchInv, TypeOK
<1>5. ASSUME NEW s \in ServiceNames, WatchNode(s), ~ListNodes(s)
      PROVE  UNCHANGED <<tree, watchers>>
  BY <1>5 DEF WatchNode, SendNodes, AllSent, NodesNotify, Done, GetInfo, SendNode
<1>6. CASE ListServices
  BY <1>6, DiscoveryAssumption DEF ListServices, WatchInv, TypeOK
<1>7. ASSUME WatchServices, ~ListServices
      PROVE  UNCHANGED <<tree, watchers>>
  BY <1>7 DEF WatchServices, AllRemoved, AllAdded, ServicesNotify,
              Cancel, SendRemoved, Look, SendAdded
<1>8. CASE HandleNamespaceEvent
  BY <1>1, <1>8 DEF HandleNamespaceEvent, AddService, RemoveService, AddHost, RemoveHosts
<1>9. ASSUME NEW s \in ServiceNames, ConcurrentMapWrites(s)
      PROVE  UNCHANGED <<tree, watchers>>
  BY <1>9 DEF ConcurrentMapWrites
<1>10. CASE UNCHANGED vars
  BY <1>1, <1>10 DEF vars
<1> QED BY <1>1, <1>2, <1>3, <1>4, <1>5, <1>6, <1>7, <1>8, <1>9, <1>10 DEF Next

(* What a step of a watchNode leaves alone: the other services, and its    *)
(* own context unless the goroutine ends.                                  *)
LEMMA WatchNodeRuns ==
  ASSUME TypeOK, NEW x \in ServiceNames, WatchNode(x)
  PROVE  /\ UNCHANGED <<pc, turn, prefixes, crashed, tree>>
         /\ \A s \in ServiceNames : Runs(s)' => Runs(s)
         /\ \A s \in ServiceNames \ {x} : /\ node'[s] = node[s]
                                          /\ left'[s] = left[s]
                                          /\ infos'[s] = infos[s]
                                          /\ unread'[s] = unread[s]
                                          /\ watchers'[s] = watchers[s]
         /\ \/ UNCHANGED event
            \/ /\ event = NoEvent /\ event' \in Event
               /\ event'.service = x
               /\ event'.opt \in {"REMOVE_HOSTS", "ADD_HOST"}
<1> USE DEF zookeeper, services, locals, TypeOK, Runs
<1>1. CASE ListNodes(x)
  BY <1>1 DEF ListNodes
<1>2. CASE SendNodes(x)
  BY <1>2 DEF SendNodes, Send, Event
<1>3. CASE AllSent(x)
  BY <1>3 DEF AllSent
<1>4. CASE NodesNotify(x)
  BY <1>4 DEF NodesNotify
<1>5. CASE Done(x)
  BY <1>5 DEF Done, Del
<1>6. ASSUME NEW h \in Hosts, GetInfo(x, h)
      PROVE  /\ UNCHANGED <<pc, turn, Shutdown, prefixes, crashed, tree, watchers, event, node>>
             /\ \A s \in ServiceNames \ {x} : /\ left'[s] = left[s] /\ infos'[s] = infos[s]
                                              /\ unread'[s] = unread[s]
  BY <1>6 DEF GetInfo
<1>7. ASSUME NEW h \in Hosts, SendNode(x, h)
      PROVE  /\ UNCHANGED <<pc, turn, Shutdown, prefixes, crashed, tree, watchers, infos, unread,
                            node>>
             /\ \A s \in ServiceNames \ {x} : left'[s] = left[s]
             /\ event = NoEvent /\ event' \in Event
             /\ event'.service = x /\ event'.opt = "ADD_HOST"
  BY <1>7 DEF SendNode, Send, Event
<1> QED BY <1>1, <1>2, <1>3, <1>4, <1>5, <1>6, <1>7 DEF WatchNode

(* A goroutine goes on while watchServices takes a step: an event that is  *)
(* sent is the one of this turn of the loop, and not for this service.     *)
GoesOn(s) ==
    /\ Runs(s) /\ node'[s] = node[s]
    /\ ~(pc' = "removed" /\ s \in turn')
    /\ \/ UNCHANGED event
       \/ /\ event = NoEvent /\ event' \in Event
          /\ event'.opt = "REMOVE_SERVICE"
          /\ event'.service \in turn /\ pc = "removed"
       \/ /\ event = NoEvent /\ event' \in Event
          /\ event'.opt = "ADD_SERVICE"
          /\ event'.service # s

(* Or it starts, with the event of its service.                            *)
Starts(s) ==
    /\ node'[s] = "ChildrenW" /\ pc' = "add"
    /\ OnItsWay("ADD_SERVICE", s)'

(* What a step of watchServices leaves alone, and how it comes to send.    *)
(* Only the start of a goroutine makes one run.                            *)
LEMMA WatchServicesRuns ==
  ASSUME ContextInv, WatchServices
  PROVE  /\ UNCHANGED <<prefixes, tree, left, infos, unread>>
         /\ \A s \in ServiceNames : /\ watchers'[s] = watchers[s]
                                    /\ Runs(s)' => GoesOn(s) \/ Starts(s)
<1> USE DEF zookeeper, services, locals
<1>0. TypeOK /\ AddedInv /\ ContextThere /\ turn \subseteq ServiceNames
  BY DEF ContextInv, TypeOK
<1> DEFINE Concl ==
         /\ UNCHANGED <<prefixes, tree, left, infos, unread>>
         /\ \A s \in ServiceNames : /\ watchers'[s] = watchers[s]
                                    /\ Runs(s)' => GoesOn(s) \/ Starts(s)
<1>1. CASE ListServices
  BY <1>0, <1>1, DiscoveryAssumption DEF ListServices, Runs, GoesOn, TypeOK
<1>2. CASE AllRemoved \/ AllAdded \/ ServicesNotify
  BY <1>2 DEF AllRemoved, AllAdded, ServicesNotify, Runs, GoesOn
<1>3. ASSUME NEW x \in ServiceNames, Cancel(x)
      PROVE  Concl
  BY <1>0, <1>3 DEF Cancel, Put, Runs, GoesOn
<1>4. ASSUME NEW x \in ServiceNames, SendRemoved(x)
      PROVE  Concl
  BY <1>0, <1>4 DEF SendRemoved, Send, Event, Runs, GoesOn
<1>5. ASSUME NEW x \in ServiceNames, Look(x)
      PROVE  Concl
  BY <1>0, <1>5 DEF Look, Put, Runs, GoesOn, ContextThere
<1>6. ASSUME NEW x \in ServiceNames, SendAdded(x)
      PROVE  Concl
  <2>1. event = NoEvent /\ event' \in Event /\ event' # NoEvent
        /\ event'.opt = "ADD_SERVICE" /\ event'.service = x
    BY <1>6, DiscoveryAssumption DEF SendAdded, Send, Event
  <2>2. UNCHANGED <<prefixes, tree, left, infos, unread, watchers, Shutdown, crashed>> /\ pc' = "add"
    BY <1>6 DEF SendAdded
  <2>3. node' = [node EXCEPT ![x] = "ChildrenW"] 
        /\ node \in [ServiceNames -> {"none", "ChildrenW", "Get", "add", "select"}]
    BY <1>0, <1>6 DEF SendAdded, TypeOK
  <2> QED BY <2>1, <2>2, <2>3 DEF Runs, GoesOn, Starts, OnItsWay
<1> QED BY <1>1, <1>2, <1>3, <1>4, <1>5, <1>6 DEF WatchServices

(* No REMOVE_SERVICE reaches a goroutine with a live context.              *)
LEMMA RemovedNext == IInv /\ [Next]_vars => RemovedInv'
<1> SUFFICES ASSUME IInv, [Next]_vars, NEW s \in ServiceNames, Runs(s)'
             PROVE  /\ ~OnItsWay("REMOVE_SERVICE", s)'
                    /\ ~(pc' = "removed" /\ s \in turn')
  BY DEF RemovedInv
<1> USE DEF zookeeper, services, locals
<1>0. /\ ContextInv /\ TypeOK
      /\ Runs(s) => ~OnItsWay("REMOVE_SERVICE", s) /\ ~(pc = "removed" /\ s \in turn)
  BY DEF IInv, ContextInv, RemovedInv
<1> DEFINE Concl == /\ ~OnItsWay("REMOVE_SERVICE", s)'
                    /\ ~(pc' = "removed" /\ s \in turn')
<1>1. ASSUME UNCHANGED <<pc, turn, Shutdown, node, event>>
      PROVE  Concl
  BY <1>0, <1>1 DEF Runs, OnItsWay
<1>2. ASSUME NEW x \in ServiceNames, CreateService(x) \/ DeleteService(x)
      PROVE  UNCHANGED <<pc, turn, Shutdown, node, event>>
  BY <1>2 DEF CreateService, DeleteService, Change
<1>3. ASSUME NEW x \in ServiceNames, NEW h \in Hosts, Register(x, h) \/ Unregister(x, h)
      PROVE  UNCHANGED <<pc, turn, Shutdown, node, event>>
  BY <1>3 DEF Register, Unregister, Change
<1>4. ASSUME NEW x \in ServiceNames, ConcurrentMapWrites(x)
      PROVE  UNCHANGED <<pc, turn, Shutdown, node, event>>
  BY <1>4 DEF ConcurrentMapWrites
<1>5. ASSUME NEW x \in ServiceNames, WatchNode(x)
      PROVE  Concl
  BY <1>0, <1>5, WatchNodeRuns DEF OnItsWay
<1>6. CASE WatchServices
  BY <1>0, <1>6, WatchServicesRuns DEF OnItsWay, GoesOn, Starts
<1>7. CASE HandleNamespaceEvent
  <2>1. event' = NoEvent /\ UNCHANGED <<pc, turn, Shutdown, node>>
    BY <1>7 DEF HandleNamespaceEvent, Handle, AddService, RemoveService, AddHost, RemoveHosts
  <2> QED BY <1>0, <2>1 DEF Runs, OnItsWay
<1>8. CASE UNCHANGED vars
  BY <1>1, <1>8 DEF vars
<1> QED BY <1>1, <1>2, <1>3, <1>4, <1>5, <1>6, <1>7, <1>8 DEF Next

(* The handler changes nothing but the prefix of its event, and takes from *)
(* that one nothing, unless the event is REMOVE_SERVICE.                   *)
LEMMA HandlerKeeps ==
  ASSUME TypeOK, HandleNamespaceEvent, ~crashed', NEW s \in ServiceNames,
         ~OnItsWay("REMOVE_SERVICE", s)
  PROVE  /\ event' = NoEvent
         /\ UNCHANGED <<tree, watchers, pc, turn, Shutdown, node, left, infos, unread>>
         /\ s \in DOMAIN prefixes => s \in DOMAIN prefixes'
         /\ OnItsWay("ADD_SERVICE", s) => s \in DOMAIN prefixes'
         /\ Get(prefixes, s, {}) \cup Pending(s) \subseteq Get(prefixes', s, {})
<1> USE DEF zookeeper, services, locals
<1>1. /\ event' = NoEvent /\ event # NoEvent /\ ~crashed
      /\ UNCHANGED <<tree, watchers, pc, turn, Shutdown, node, left, infos, unread>>
  BY DEF HandleNamespaceEvent, Handle, AddService, RemoveService, AddHost, RemoveHosts
<1>2. CASE AddService
  BY <1>1, <1>2 DEF AddService, Handle, OnItsWay, Pending, Put, Get
<1>3. CASE RemoveService
  BY <1>1, <1>3 DEF RemoveService, Handle, OnItsWay, Pending, Del, Get
<1>4. CASE AddHost
  BY <1>1, <1>4 DEF AddHost, Handle, OnItsWay, Pending, Put, Get
<1>5. CASE RemoveHosts
  <2>1. Pending(s) = {} /\ ~OnItsWay("ADD_SERVICE", s)
    BY <1>5 DEF RemoveHosts, Handle, OnItsWay, Pending
  <2>2. UNION {removeHttpProxyHost(event.service, h) :
                 h \in Get(prefixes, event.service, {}) \ event.hosts} = {}
    BY DEF removeHttpProxyHost, HostExists
  <2>3. CASE event.service \in DOMAIN prefixes
    <3>1. prefixes' = Put(prefixes, event.service, prefixes[event.service])
      BY <1>5, <2>2, <2>3 DEF RemoveHosts
    <3> QED BY <1>1, <2>1, <3>1 DEF Put, Get
  <2>4. CASE event.service \notin DOMAIN prefixes
    BY <1>1, <1>5, <2>1, <2>4 DEF RemoveHosts, Get
  <2> QED BY <2>3, <2>4
<1> QED BY <1>2, <1>3, <1>4, <1>5 DEF HandleNamespaceEvent

(* The prefix of a goroutine with a live context stays.                    *)
LEMMA PrefixNext == IInv /\ [Next]_vars => PrefixInv'
<1> SUFFICES ASSUME IInv, [Next]_vars, ~crashed', NEW s \in ServiceNames, Runs(s)'
             PROVE  s \in DOMAIN prefixes' \/ OnItsWay("ADD_SERVICE", s)'
  BY DEF PrefixInv
<1> USE DEF zookeeper, services, locals
<1>0. /\ ContextInv /\ TypeOK
      /\ Runs(s) => ~OnItsWay("REMOVE_SERVICE", s)
      /\ ~crashed /\ Runs(s) => s \in DOMAIN prefixes \/ OnItsWay("ADD_SERVICE", s)
  BY DEF IInv, ContextInv, RemovedInv, PrefixInv
<1> DEFINE Concl == s \in DOMAIN prefixes' \/ OnItsWay("ADD_SERVICE", s)'
<1>1. ASSUME UNCHANGED <<Shutdown, node, event, prefixes, crashed>>
      PROVE  Concl
  BY <1>0, <1>1 DEF Runs, OnItsWay
<1>2. ASSUME NEW x \in ServiceNames, CreateService(x) \/ DeleteService(x)
      PROVE  UNCHANGED <<Shutdown, node, event, prefixes, crashed>>
  BY <1>2 DEF CreateService, DeleteService, Change
<1>3. ASSUME NEW x \in ServiceNames, NEW h \in Hosts, Register(x, h) \/ Unregister(x, h)
      PROVE  UNCHANGED <<Shutdown, node, event, prefixes, crashed>>
  BY <1>3 DEF Register, Unregister, Change
<1>4. ASSUME NEW x \in ServiceNames, ConcurrentMapWrites(x)
      PROVE  crashed'
  BY <1>4 DEF ConcurrentMapWrites
<1>5. ASSUME NEW x \in ServiceNames, WatchNode(x)
      PROVE  Concl
  BY <1>0, <1>5, WatchNodeRuns DEF OnItsWay
<1>6. CASE WatchServices
  <2>1. ~crashed
    BY <1>6 DEF WatchServices, ListServices, AllRemoved, AllAdded, ServicesNotify,
                Cancel, SendRemoved, Look, SendAdded
  <2> QED BY <1>0, <1>6, <2>1, WatchServicesRuns DEF OnItsWay, GoesOn, Starts
<1>7. CASE HandleNamespaceEvent
  <2>1. ~crashed
    BY <1>7 DEF HandleNamespaceEvent, Handle, AddService, RemoveService, AddHost, RemoveHosts
  <2>2. UNCHANGED <<Shutdown, node>>
    BY <1>7 DEF HandleNamespaceEvent, AddService, RemoveService, AddHost, RemoveHosts
  <2>3. Runs(s)
    BY <2>2 DEF Runs
  <2> QED BY <1>0, <1>7, <2>1, <2>3, HandlerKeeps
<1>8. CASE UNCHANGED vars
  BY <1>1, <1>8 DEF vars
<1> QED BY <1>1, <1>2, <1>3, <1>4, <1>5, <1>6, <1>7, <1>8 DEF Next

(* The goroutine itself reads every node, keeps what it has read and sends *)
(* all of it.                                                              *)
LEMMA OwnStep ==
  ASSUME IInv, NEW s \in ServiceNames, WatchNode(s), Runs(s)', watchers'[s] = "armed",
         Runs(s) /\ watchers[s] = "armed" => Tracked(s)
  PROVE  Tracked(s)'
<1> USE DEF zookeeper, services, locals
<1>0. /\ TypeOK /\ Runs(s)
      /\ s \in DOMAIN node /\ s \in DOMAIN left /\ s \in DOMAIN infos /\ s \in DOMAIN watchers
  BY WatchNodeRuns DEF IInv, ContextInv, TypeOK
<1>1. CASE ListNodes(s)
  <2>1. tree' = tree /\ node'[s] = "Get" /\ left'[s] = tree[s]
    BY <1>0, <1>1 DEF ListNodes
  <2> QED BY <2>1 DEF Tracked
<1>2. CASE SendNodes(s)
  <2>1. /\ UNCHANGED <<watchers, tree, unread>> /\ node[s] = "Get" /\ left[s] = {}
        /\ node'[s] = "add" /\ left'[s] = infos[s]
    BY <1>0, <1>2 DEF SendNodes
  <2> QED BY <1>0, <2>1 DEF Tracked
<1>3. CASE AllSent(s)
  <2>1. /\ UNCHANGED <<watchers, tree, unread, event, prefixes>>
        /\ node[s] = "add" /\ left[s] = {} /\ node'[s] = "select"
    BY <1>0, <1>3 DEF AllSent
  <2>2. Found(s)' = Found(s)
    BY <2>1 DEF Found, Pending, OnItsWay
  <2> QED BY <1>0, <2>1, <2>2 DEF Tracked
<1>4. CASE NodesNotify(s)
  BY <1>0, <1>4 DEF NodesNotify, Tracked
<1>5. CASE Done(s)
  BY <1>0, <1>5 DEF Done, Runs
<1>6. ASSUME NEW h \in Hosts, GetInfo(s, h)
      PROVE  Tracked(s)'
  <2>1. /\ watchers' = watchers /\ tree' = tree /\ node[s] = "Get" /\ node' = node
        /\ left'[s] = left[s] \ {h}
        /\ \/ /\ infos'[s] = IF h \in Get(tree, s, {}) THEN infos[s] \cup {h} ELSE infos[s]
              /\ unread' = unread
           \/ unread'[s] = unread[s] \cup {h} /\ infos' = infos
    BY <1>0, <1>6 DEF GetInfo, TypeOK
  <2>2. s \in DOMAIN tree
    BY <2>1 DEF IInv, WatchInv
  <2> QED BY <1>0, <2>1, <2>2 DEF Tracked, Get
<1>7. ASSUME NEW h \in Hosts, SendNode(s, h)
      PROVE  Tracked(s)'
  <2>1. /\ UNCHANGED <<watchers, tree, prefixes, node, unread>> /\ node[s] = "add"
        /\ left'[s] = left[s] \ {h} /\ event = NoEvent
        /\ event' = [opt |-> "ADD_HOST", service |-> s, hosts |-> {h}]
    BY <1>0, <1>7 DEF SendNode, Send
  <2>2. event' # NoEvent
    BY <2>1, DiscoveryAssumption DEF Event
  <2>3. Found(s)' = Found(s) \cup {h}
    BY <2>1, <2>2 DEF Found, Pending, OnItsWay
  <2> QED BY <1>0, <2>1, <2>3 DEF Tracked
<1> QED BY <1>1, <1>2, <1>3, <1>4, <1>5, <1>6, <1>7 DEF WatchNode

(* No node is lost between its being read and its becoming a host.         *)
LEMMA FoundNext == IInv /\ [Next]_vars => FoundInv'
<1> SUFFICES ASSUME IInv, [Next]_vars, ~crashed', NEW s \in ServiceNames,
                    Runs(s)', watchers'[s] = "armed"
             PROVE  Tracked(s)'
  BY DEF FoundInv
<1> USE DEF zookeeper, services, locals
<1>0. /\ ContextInv /\ TypeOK /\ WatchInv
      /\ Runs(s) => ~OnItsWay("REMOVE_SERVICE", s)
      /\ ~crashed /\ Runs(s) /\ watchers[s] = "armed" => Tracked(s)
  BY DEF IInv, ContextInv, RemovedInv, FoundInv
<1>1. ASSUME UNCHANGED <<Shutdown, node, left, infos, unread, event, prefixes,
                       crashed>>,
             watchers[s] = "armed", tree'[s] = tree[s]
      PROVE  Tracked(s)'
  BY <1>0, <1>1 DEF Runs, Tracked, Found, Pending, OnItsWay
<1>2. ASSUME NEW x \in ServiceNames, CreateService(x) \/ DeleteService(x)
      PROVE  Tracked(s)'
  <2>1. UNCHANGED <<Shutdown, node, left, infos, unread, event, prefixes,
                       crashed>>
    BY <1>2 DEF CreateService, DeleteService, Change
  <2> QED BY <1>0, <1>1, <1>2, <2>1, ChangeFires
<1>3. ASSUME NEW x \in ServiceNames, NEW h \in Hosts, Register(x, h) \/ Unregister(x, h)
      PROVE  Tracked(s)'
  <2>1. UNCHANGED <<Shutdown, node, left, infos, unread, event, prefixes,
                       crashed>>
    BY <1>3 DEF Register, Unregister, Change
  <2> QED BY <1>0, <1>1, <1>3, <2>1, ChangeFires
<1>4. ASSUME NEW x \in ServiceNames, ConcurrentMapWrites(x)
      PROVE  crashed'
  BY <1>4 DEF ConcurrentMapWrites
<1>5. ASSUME NEW x \in ServiceNames, WatchNode(x)
      PROVE  Tracked(s)'
  <2>1. ~crashed
    BY <1>0, <1>5, WatchNodeRuns
  <2>2. CASE x = s
    BY <1>0, <1>5, <2>1, <2>2, OwnStep
  <2>3. CASE x # s
    <3>1. /\ Runs(s) /\ watchers[s] = "armed" /\ UNCHANGED <<tree, prefixes>>
          /\ node'[s] = node[s] /\ left'[s] = left[s]
          /\ infos'[s] = infos[s] /\ unread'[s] = unread[s]
          /\ UNCHANGED event \/ event = NoEvent
      BY <1>0, <1>5, <2>3, WatchNodeRuns
    <3>2. Found(s) \subseteq Found(s)'
      BY <3>1 DEF Found, Pending, OnItsWay
    <3> QED BY <1>0, <2>1, <3>1, <3>2 DEF Tracked
  <2> QED BY <2>2, <2>3
<1>6. CASE WatchServices
  <2>1. ~crashed
    BY <1>6 DEF WatchServices, ListServices, AllRemoved, AllAdded, ServicesNotify,
                Cancel, SendRemoved, Look, SendAdded
  <2>2. CASE Starts(s)
    BY <2>2 DEF Starts, Tracked
  <2>3. CASE GoesOn(s)
    <3>1. /\ Runs(s) /\ watchers[s] = "armed" /\ UNCHANGED <<tree, prefixes, left, infos, unread>>
          /\ node'[s] = node[s]
          /\ UNCHANGED event \/ event = NoEvent
      BY <1>0, <1>6, <2>3, WatchServicesRuns DEF GoesOn
    <3>2. Found(s) \subseteq Found(s)'
      BY <3>1 DEF Found, Pending, OnItsWay
    <3> QED BY <1>0, <2>1, <3>1, <3>2 DEF Tracked
  <2> QED BY <1>0, <1>6, <2>2, <2>3, WatchServicesRuns
<1>7. CASE HandleNamespaceEvent
  <2>1. ~crashed /\ UNCHANGED <<Shutdown, node>>
    BY <1>7 DEF HandleNamespaceEvent, Handle, AddService, RemoveService, AddHost, RemoveHosts
  <2>2. Runs(s)
    BY <2>1 DEF Runs
  <2>3. /\ UNCHANGED <<tree, watchers, node, left, infos, unread>>
        /\ Get(prefixes, s, {}) \cup Pending(s) \subseteq Get(prefixes', s, {})
    BY <1>0, <1>7, <2>2, HandlerKeeps
  <2>4. Found(s) \subseteq Found(s)'
    BY <2>3 DEF Found, Get
  <2> QED BY <1>0, <2>1, <2>2, <2>3, <2>4 DEF Tracked
<1>8. CASE UNCHANGED vars
  BY <1>1, <1>8 DEF vars
<1> QED BY <1>1, <1>2, <1>3, <1>4, <1>5, <1>6, <1>7, <1>8 DEF Next

(* The inductive invariant holds in every state.                           *)
THEOREM IInvHolds == Spec => []IInv
<1>1. IInv /\ [Next]_vars => IInv'
  BY ContextNext, WatchNext, RemovedNext, PrefixNext, FoundNext DEF IInv, ContextInv
<1> QED BY <1>1, InitIInv, PTL DEF Spec

(* At rest, a service whose children are watched has its prefix, with the  *)
(* nodes its last turn did not fail to read as hosts: the removals,        *)
(* re-creations and failed reads that came before, and the order in which  *)
(* the handler took the events of the goroutines, make no difference.      *)
THEOREM HostsFoundHolds == Spec => []HostsFound
<1>1. IInv => HostsFound
  <2> SUFFICES ASSUME IInv, Quiescent, ~crashed, NEW s \in DOMAIN tree,
                      node[s] = "select", watchers[s] = "armed"
               PROVE  s \in DOMAIN prefixes /\ tree[s] \ unread[s] \subseteq prefixes[s]
    BY DEF HostsFound
  <2>1. s \in ServiceNames /\ event = NoEvent
    BY DEF IInv, ContextInv, TypeOK, Quiescent
  <2>2. s \in DOMAIN Shutdown /\ Shutdown[s] = "live"
    BY <2>1 DEF IInv, ContextInv, ContextThere, Quiescent, Get
  <2>3. Runs(s)
    BY <2>2 DEF Runs
  <2>4. s \in DOMAIN prefixes
    BY <2>1, <2>3 DEF IInv, PrefixInv, OnItsWay
  <2>5. tree[s] \ unread[s] \subseteq Found(s)
    BY <2>1, <2>3 DEF IInv, FoundInv, Tracked
  <2> QED BY <2>1, <2>4, <2>5 DEF Found, Pending, OnItsWay, Get
<1> QED BY <1>1, IInvHolds, PTL
=============================================================================
