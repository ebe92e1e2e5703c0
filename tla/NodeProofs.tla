------------------------------ MODULE NodeProofs ------------------------------
(***************************************************************************)
(* The safety of the three small parts of a node that share no state: the  *)
(* notify goroutine of a cluster node (LeaderNotify), the table of proxies *)
(* (ProxyList) and the page of /403/ (ForbiddenPage). Each has its own     *)
(* inductive invariant.                                                    *)
(***************************************************************************)
EXTENDS LeaderNotify, ProxyList, ForbiddenPage, TLAPS

-----------------------------------------------------------------------------
(* LeaderNotify, for every number of leaderships and every configuration   *)
(* of the two servers.                                                     *)

(* The role that the loop has read last.                                   *)
LastRead == loop \in {"lead", "open"} \/ (loop = "range" /\ Leader)

(* A report is the opposite of what the loop has read last; Leader is set  *)
(* within a branch, and no call of Start is left in the branch of a new    *)
(* leader, where the next one is made.                                     *)
LoopInv ==
    ~crashed =>
      /\ LastRead <=> (report = "none" <=> role)
      /\ report = "leader" => role
      /\ report = "follower" => ~role
      /\ loop \in {"open", "follow"} => Leader
      /\ loop \in {"lead", "shut", "close"} => ~Leader
      /\ loop \in {"lead", "open"} => \A s \in Starts : ~Live(s)

(* The port belongs to the call that serves or stops, and a leadership has *)
(* at most one call that has not been told to stop.                        *)
PortInv == \A s \in Starts : start[s] \in {"serve", "stop"} <=> listener = s
LiveInv == \A s, t \in Starts : Live(s) /\ Live(t) => s = t

(* Without a gRPC server Start is never called.                            *)
UnusedInv == ~HasRpcServer => \A s \in Starts : start[s] = "unused"

IInv == TypeOK /\ LoopInv /\ PortInv /\ LiveInv /\ UnusedInv /\ RpcOnlyOnLeader

(* The initial states satisfy the inductive invariant.                     *)
LEMMA InitIInv == Init => IInv
<1> SUFFICES ASSUME Init PROVE IInv
  OBVIOUS
<1> USE DEF Init
<1>1. TypeOK
  BY DEF TypeOK, StartStates, LoopStates
<1>2. LoopInv
  BY DEF LoopInv, LastRead, Live
<1>3. PortInv /\ LiveInv /\ UnusedInv /\ RpcOnlyOnLeader
  BY NotifyAssumption DEF PortInv, LiveInv, UnusedInv, RpcOnlyOnLeader, Live
<1> QED BY <1>1, <1>2, <1>3 DEF IInv

(* Every step of raft, of the loop and of rpcServer.Start preserves it.    *)
LEMMA NextIInv == IInv /\ [Next]_vars => IInv'
<1> SUFFICES ASSUME IInv, [Next]_vars PROVE IInv'
  OBVIOUS
<1> USE NotifyAssumption
<1> USE DEF IInv, TypeOK, LoopInv, PortInv, LiveInv, UnusedInv, RpcOnlyOnLeader,
            Live, StartStates, LoopStates
<1>1. CASE Elected
  BY <1>1 DEF Elected, LastRead
<1>2. CASE Deposed
  BY <1>2 DEF Deposed, LastRead
<1>3. CASE Receive
  BY <1>3 DEF Receive, LastRead
<1>4. CASE BecomeLeader
  <2>1. consumers' \in Nat
    BY <1>4 DEF BecomeLeader, startDiscovery
  <2> QED BY <1>4, <2>1 DEF BecomeLeader, LastRead
<1>5. CASE OpenWrites
  <2>1. /\ \A s \in Starts : ~Live(s)
        /\ ~crashed /\ loop = "open" /\ loop' = "range" /\ Leader /\ Leader' = Leader
        /\ role' = role /\ report' = report /\ listener' = listener
        /\ consumers' = consumers
    BY <1>5 DEF OpenWrites
  <2>2. enableWrite' \in BOOLEAN /\ crashed' \in BOOLEAN
    BY <1>5 DEF OpenWrites, SetWriteFlag
  <2>3. start' \in [Starts -> StartStates] /\ TypeOK'
    BY <1>5, <2>1, <2>2 DEF OpenWrites
  <2>4. LoopInv'
    BY <2>1 DEF LastRead
  <2>5. PortInv' /\ LiveInv' /\ UnusedInv' /\ RpcOnlyOnLeader'
    BY <1>5, <2>1 DEF OpenWrites
  <2> QED BY <2>3, <2>4, <2>5
<1>6. CASE BecomeFollower
  BY <1>6 DEF BecomeFollower, LastRead
<1>7. CASE CloseWrites
  <2>1. /\ loop = "shut" /\ ~crashed
        /\ loop' \in {"range", "close"} /\ (loop' = "range" => ~HasRpcServer)
        /\ role' = role /\ report' = report /\ Leader' = Leader /\ start' = start
        /\ listener' = listener /\ consumers' = consumers
    BY <1>7 DEF CloseWrites
  <2>2. enableWrite' \in BOOLEAN /\ crashed' \in BOOLEAN
    BY <1>7 DEF CloseWrites, SetWriteFlag
  <2>3. TypeOK'
    BY <2>1, <2>2
  <2>4. LoopInv'
    BY <2>1 DEF LastRead
  <2>5. PortInv' /\ LiveInv' /\ UnusedInv' /\ RpcOnlyOnLeader'
    BY <2>1
  <2> QED BY <2>3, <2>4, <2>5
<1>8. CASE CloseRpc
  BY <1>8 DEF CloseRpc, LastRead
<1>9. ASSUME NEW s \in Starts, Listen(s) PROVE IInv'
  BY <1>9 DEF Listen, LastRead
<1>10. ASSUME NEW s \in Starts, Stop(s) PROVE IInv'
  BY <1>10 DEF Stop, LastRead
<1>11. CASE UNCHANGED vars
  BY <1>11 DEF vars, LastRead
<1> QED
  BY <1>1, <1>2, <1>3, <1>4, <1>5, <1>6, <1>7, <1>8, <1>9, <1>10, <1>11 DEF Next

(* The inductive invariant holds in every reachable state.                 *)
THEOREM IInvHolds == Spec => []IInv
  BY InitIInv, NextIInv, PTL DEF Spec

(* Type correctness of the loop, the flags and the calls of Start.         *)
THEOREM TypeCorrect == Spec => []TypeOK
<1>1. IInv => TypeOK BY DEF IInv
<1> QED BY <1>1, IInvHolds, PTL

(* A node that is not the leader and has sent the token serves no gRPC.    *)
THEOREM RpcOnlyOnLeaderHolds == Spec => []RpcOnlyOnLeader
<1>1. IInv => RpcOnlyOnLeader BY DEF IInv
<1> QED BY <1>1, IInvHolds, PTL

(* The gRPC server is never started twice.                                 *)
THEOREM OneServerHolds == Spec => []OneServer
<1>1. IInv => OneServer BY DEF IInv, PortInv, OneServer
<1> QED BY <1>1, IInvHolds, PTL

-----------------------------------------------------------------------------
(* ProxyList: OwnEntryDeleted for any ports, goroutines and bounds. The    *)
(* invariant that carries it says the same of a call that is about to      *)
(* close a proxy: as long as the waiter of the proxy has not returned, the *)
(* entry the call has read is still there, since only that waiter takes it *)
(* away. A waiter that has returned stays so because a proxy is run only   *)
(* once.                                                                   *)

StaleCallsHarmless ==
    \A q \in Admins :
      /\ pc[q] = "Close" => proxy[q] \in Proxies
      /\ pc[q] = "Close" /\ waiter[proxy[q]] # "returned"
         => HttpReverseProxyList[Port(proxy[q])] = proxy[q]

(* A proxy is run once, by the call that made it.                          *)
Making(q) == pc[q] \in {"AddHttpReverseProxy", "Run"}

NewProxies ==
    /\ \A x \in Proxies \ used : waiter[x] = "none"
    /\ \A q \in Admins : Making(q) => proxy[q] \in used /\ waiter[proxy[q]] = "none"
    /\ \A q, r \in Admins : Making(q) /\ Making(r) /\ proxy[q] = proxy[r] => q = r

ListIInv == ListTypeOK /\ OwnEntryDeleted /\ StaleCallsHarmless /\ NewProxies

(* A proxy has a port, and is not the value of an entry that is missing.   *)
LEMMA ProxyFacts == \A x \in Proxies : Port(x) \in Ports /\ x # None
  BY ProxyListAssumption DEF Proxies, Port

(* The proxy a restart makes for a port belongs to it.                     *)
LEMMA FirstProxy == \A p \in Ports : <<p, 1>> \in Proxies /\ Port(<<p, 1>>) = p
  BY ProxyListAssumption DEF Proxies, Port

(* The empty table satisfies the invariant.                                *)
LEMMA ListInitIInv == ListInit => ListIInv
  BY ProxyListAssumption DEF ListInit, ListIInv, ListTypeOK, OwnEntryDeleted, StaleCallsHarmless, Listed,
     NewProxies, Making

(* A step of any action preserves it.                                      *)
LEMMA ListNextIInv == ListIInv /\ [ListNext]_listVars => ListIInv'
<1> SUFFICES ASSUME ListIInv, [ListNext]_listVars PROVE ListIInv'
  OBVIOUS
<1> USE ProxyFacts
<1>1. ASSUME NEW q \in Admins, NEW x \in Proxies, addHttpProxy(q, x) PROVE ListIInv'
  <2>1. ListTypeOK'
    BY <1>1 DEF ListIInv, ListTypeOK, Listed, addHttpProxy, Call, disk
  <2>2. OwnEntryDeleted' /\ StaleCallsHarmless'
    BY <1>1 DEF ListIInv, ListTypeOK, OwnEntryDeleted, StaleCallsHarmless, NewProxies, Making,
       Listed, addHttpProxy, Call, disk
  <2>3. NewProxies'
    BY <1>1 DEF ListIInv, ListTypeOK, NewProxies, Making, addHttpProxy, Call, disk
  <2> QED BY <2>1, <2>2, <2>3 DEF ListIInv
<1>2. ASSUME NEW q \in Admins, NEW x \in Proxies, AddHttpReverseProxy(q, x) PROVE ListIInv'
  <2>1. ListTypeOK'
    BY <1>2 DEF ListIInv, ListTypeOK, Listed, AddHttpReverseProxy, Call, disk
  <2>2. OwnEntryDeleted' /\ StaleCallsHarmless'
    BY <1>2 DEF ListIInv, ListTypeOK, OwnEntryDeleted, StaleCallsHarmless, NewProxies, Making,
       Listed, AddHttpReverseProxy, Call, disk
  <2>3. NewProxies'
    BY <1>2 DEF ListIInv, ListTypeOK, NewProxies, Making, AddHttpReverseProxy, Call, disk
  <2> QED BY <2>1, <2>2, <2>3 DEF ListIInv
<1>3. ASSUME NEW q \in Admins, NEW x \in Proxies, Run(q, x) PROVE ListIInv'
  <2>1. ListTypeOK'
    BY <1>3 DEF ListIInv, ListTypeOK, Listed, Run, Call, disk
  <2>2. OwnEntryDeleted' /\ StaleCallsHarmless'
    BY <1>3 DEF ListIInv, ListTypeOK, OwnEntryDeleted, StaleCallsHarmless, NewProxies, Making,
       Listed, Run, Call, disk
  <2>3. NewProxies'
    BY <1>3 DEF ListIInv, ListTypeOK, NewProxies, Making, Run, Call, disk
  <2> QED BY <2>1, <2>2, <2>3 DEF ListIInv
<1>4. ASSUME NEW q \in Admins, NEW x \in Proxies, changeProxyAvailable(q, x) PROVE ListIInv'
  <2>1. ListTypeOK'
    BY <1>4 DEF ListIInv, ListTypeOK, Listed, changeProxyAvailable, Call, disk
  <2>2. OwnEntryDeleted' /\ StaleCallsHarmless'
    BY <1>4 DEF ListIInv, ListTypeOK, OwnEntryDeleted, StaleCallsHarmless, NewProxies, Making,
       Listed, changeProxyAvailable, Call, disk
  <2>3. NewProxies'
    BY <1>4 DEF ListIInv, ListTypeOK, NewProxies, Making, changeProxyAvailable, Call, disk
  <2> QED BY <2>1, <2>2, <2>3 DEF ListIInv
<1>5. ASSUME NEW q \in Admins, NEW x \in Proxies, Close(q, x) PROVE ListIInv'
  <2>1. ListTypeOK'
    BY <1>5 DEF ListIInv, ListTypeOK, Listed, Close, Call, disk
  <2>2. OwnEntryDeleted' /\ StaleCallsHarmless'
    BY <1>5 DEF ListIInv, ListTypeOK, OwnEntryDeleted, StaleCallsHarmless, NewProxies, Making,
       Listed, Close, Call, disk
  <2>3. NewProxies'
    BY <1>5 DEF ListIInv, ListTypeOK, NewProxies, Making, Close, Call, disk
  <2> QED BY <2>1, <2>2, <2>3 DEF ListIInv
<1>6. ASSUME NEW x \in Proxies, Shutdown(x) PROVE ListIInv'
  <2>1. ListTypeOK'
    BY <1>6 DEF ListIInv, ListTypeOK, Listed, Shutdown, calls, disk
  <2>2. OwnEntryDeleted' /\ StaleCallsHarmless'
    BY <1>6 DEF ListIInv, ListTypeOK, OwnEntryDeleted, StaleCallsHarmless, NewProxies, Making,
       Listed, Shutdown, calls, disk
  <2>3. NewProxies'
    BY <1>6 DEF ListIInv, ListTypeOK, NewProxies, Making, Shutdown, calls, disk
  <2> QED BY <2>1, <2>2, <2>3 DEF ListIInv
<1>7. ASSUME NEW x \in Proxies, delete(x) PROVE ListIInv'
  <2>1. ListTypeOK'
    BY <1>7 DEF ListIInv, ListTypeOK, Listed, delete, calls, disk
  <2>2. HttpReverseProxyList[Port(x)] = x
    BY <1>7 DEF ListIInv, OwnEntryDeleted, delete
  <2>3. OwnEntryDeleted'
    BY <1>7, <2>2 DEF ListIInv, ListTypeOK, OwnEntryDeleted, delete, calls, disk
  <2>4. StaleCallsHarmless'
    BY <1>7, <2>2 DEF ListIInv, ListTypeOK, StaleCallsHarmless, delete, calls, disk
  <2>5. NewProxies'
    BY <1>7 DEF ListIInv, ListTypeOK, NewProxies, Making, delete, calls, disk
  <2> QED BY <2>1, <2>3, <2>4, <2>5 DEF ListIInv
<1>8. CASE Snap
  BY <1>8 DEF ListIInv, ListTypeOK, OwnEntryDeleted, StaleCallsHarmless, NewProxies, Making,
     Listed, Snap, calls
<1>9. CASE Restart
  <2>1. ListTypeOK'
    BY <1>9, FirstProxy, ProxyListAssumption DEF ListIInv, ListTypeOK, Listed, Restart, Restored
  <2>2. OwnEntryDeleted' /\ StaleCallsHarmless'
    BY <1>9 DEF ListIInv, ListTypeOK, OwnEntryDeleted, StaleCallsHarmless, Restart
  <2>3. NewProxies'
    BY <1>9 DEF ListIInv, ListTypeOK, NewProxies, Making, Restart, Restored
  <2> QED BY <2>1, <2>2, <2>3 DEF ListIInv
<1>10. CASE UNCHANGED listVars
  BY <1>10 DEF ListIInv, ListTypeOK, OwnEntryDeleted, StaleCallsHarmless, NewProxies,
     Making, Listed, listVars
<1> QED
  BY <1>1, <1>2, <1>3, <1>4, <1>5, <1>6, <1>7, <1>8, <1>9, <1>10 DEF ListNext, Waiter

(* The invariant holds in every reachable state.                           *)
THEOREM ListIInvHolds == ListSpec => []ListIInv
  BY ListInitIInv, ListNextIInv, PTL DEF ListSpec

(* Entries, sockets and waiters keep their types: ListTypeOK.                  *)
THEOREM ListTypeCorrect == ListSpec => []ListTypeOK
<1>1. ListIInv => ListTypeOK
  BY DEF ListIInv
<1> QED BY <1>1, ListIInvHolds, PTL

(* delete(HttpReverseProxyList, proxy.Port) of a waiter never takes away   *)
(* the entry of another proxy, whatever calls race: OwnEntryDeleted.       *)
THEOREM OwnEntryDeletedHolds == ListSpec => []OwnEntryDeleted
<1>1. ListIInv => OwnEntryDeleted
  BY DEF ListIInv
<1> QED BY <1>1, ListIInvHolds, PTL

-----------------------------------------------------------------------------
(* ForbiddenPage: the counter keeps the word and its font together.        *)

(* The monitor is blank until the callback has run, and then shows one of  *)
(* two words; in each of the three states the counter and the class have   *)
(* one value.                                                              *)
Blank == scanned = FALSE /\ html = "" /\ counter = 0 /\ textClass = TRUE
Long  == scanned = TRUE /\ html = "Forbidden" /\ counter = 0 /\ textClass = TRUE
Short == scanned = TRUE /\ html = "403" /\ counter = 1 /\ textClass = FALSE

PageIInv == Blank \/ Long \/ Short

(* The page before its script satisfies it.                                *)
LEMMA PageInitIInv == PageInit => PageIInv
  BY DEF PageInit, PageIInv, Blank

(* The script, a frame and a tick of the timer preserve it.                *)
LEMMA PageNextIInv == PageIInv /\ [PageNext]_pageVars => PageIInv'
<1> SUFFICES ASSUME PageIInv, [PageNext]_pageVars PROVE PageIInv'
  OBVIOUS
<1>1. CASE Script
  BY <1>1 DEF PageIInv, Blank, Long, Short, Script
<1>2. CASE Frame
  <2>1. CASE Blank
    BY <1>2, <2>1 DEF Frame, scanning, PageIInv, Blank, Long
  <2>2. CASE Long
    BY <1>2, <2>2 DEF Frame, scanning, PageIInv, Long
  <2>3. CASE Short
    BY <1>2, <2>3 DEF Frame, scanning, PageIInv, Short
  <2> QED BY <2>1, <2>2, <2>3 DEF PageIInv
<1>3. CASE change
  <2>1. Len(text) = 2 /\ text[1] = "403" /\ text[2] = "Forbidden"
    BY DEF text
  <2>2. CASE Long
    <3>1. scanned' = TRUE /\ textClass' = FALSE
      BY <1>3, <2>2 DEF change, Long
    <3>2. html' = "403" /\ counter' = 1
      BY <1>3, <2>2, <2>1 DEF change, Long
    <3> QED BY <3>1, <3>2 DEF PageIInv, Short
  <2>3. CASE Short
    <3>1. scanned' = TRUE /\ textClass' = TRUE
      BY <1>3, <2>3 DEF change, Short
    <3>2. html' = "Forbidden" /\ counter' = 0
      BY <1>3, <2>3, <2>1 DEF change, Short
    <3> QED BY <3>1, <3>2 DEF PageIInv, Long
  <2> QED BY <1>3, <2>2, <2>3 DEF PageIInv, change, Blank
<1>4. CASE UNCHANGED pageVars
  BY <1>4 DEF PageIInv, Blank, Long, Short, pageVars
<1> QED BY <1>1, <1>2, <1>3, <1>4 DEF PageNext

(* The invariant of the page holds in every reachable state.               *)
THEOREM PageIInvHolds == PageSpec => []PageIInv
  BY PageInitIInv, PageNextIInv, PTL DEF PageSpec

(* The word of the monitor is always shown in its own font: FontFits.      *)
THEOREM FontFitsHolds == PageSpec => []FontFits
<1>1. PageIInv => FontFits
  BY DEF PageIInv, FontFits, Blank, Long, Short
<1> QED BY <1>1, PageIInvHolds, PTL

=============================================================================
