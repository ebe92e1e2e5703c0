----------------------------- MODULE ProxyList ------------------------------
(***************************************************************************)
(* The table of proxies of a node in stand mode, HttpReverseProxyList of   *)
(* StateContext, and the life of the proxies in it: created by             *)
(* addHttpProxy, listening after Run, closed by changeState.               *)
(*                                                                         *)
(* Run leaves a goroutine behind, the waiter, that receives from Shutdown, *)
(* shuts the server down, which gives the port back at once and then waits *)
(* for open connections, and deletes the entry of its port.                *)
(*                                                                         *)
(* A restart reads the table from the last snapshot. Shutdown is not in    *)
(* it: a restored proxy has a nil channel, on which sending and receiving  *)
(* block for ever.                                                         *)
(*                                                                         *)
(* A proxy is <<its port, a number>>.                                      *)
(***************************************************************************)
EXTENDS FiniteSets, Naturals

CONSTANTS
    Ports,
    None,           \* no proxy
    Admins,         \* the goroutines of administration calls
    MaxProxies,     \* bound on the proxies created for a port
    MaxRestarts     \* bound on the restarts

Proxies == Ports \X (1 .. MaxProxies)
Port(x) == x[1]

ASSUME ProxyListAssumption ==
    /\ None \notin Proxies
    /\ MaxProxies \in Nat \ {0} /\ MaxRestarts \in Nat

VARIABLES
    HttpReverseProxyList,   \* the proxy listed for a port
    socket,         \* the proxy whose server listens at a port
    waiter,         \* where the waiter of a proxy is
    used,           \* the proxies created by this process
    pc, proxy,      \* the goroutines, and the proxy of the call they run
    saved,          \* the ports of the last snapshot
    restarts

calls == <<pc, proxy>>
disk  == <<saved, restarts>>
listVars == <<HttpReverseProxyList, socket, waiter, used, pc, proxy, saved, restarts>>

Listed(p) == HttpReverseProxyList[p] # None

ListInit ==
    /\ HttpReverseProxyList = [p \in Ports |-> None]
    /\ socket = [p \in Ports |-> None]
    /\ waiter = [x \in Proxies |-> "none"]
    /\ used = {} /\ saved = {} /\ restarts = 0
    /\ pc = [q \in Admins |-> "idle"]
    /\ proxy = [q \in Admins |-> None]

Call(q, label, x) == /\ pc' = [pc EXCEPT ![q] = label]
                     /\ proxy' = [proxy EXCEPT ![q] = x]

-----------------------------------------------------------------------------
(* addHttpProxy: the table is read without its lock, the proxy is entered  *)
(* under it, and Run is called whether it was entered or not.              *)

addHttpProxy(q, x) ==
    /\ pc[q] = "idle"
    /\ ~Listed(Port(x))
    /\ x \notin used
    /\ used' = used \cup {x}
    /\ Call(q, "AddHttpReverseProxy", x)
    /\ UNCHANGED <<HttpReverseProxyList, socket, waiter, disk>>

(* Mutant: an entry is replaced.                                           *)
AddOverwrites(q, x) ==
    /\ pc[q] = "AddHttpReverseProxy" /\ proxy[q] = x
    /\ HttpReverseProxyList' = [HttpReverseProxyList EXCEPT ![Port(x)] = x]
    /\ Call(q, "Run", x)
    /\ UNCHANGED <<socket, waiter, used, disk>>

AddHttpReverseProxy(q, x) ==
    /\ pc[q] = "AddHttpReverseProxy" /\ proxy[q] = x
    /\ HttpReverseProxyList' =
         IF Listed(Port(x)) THEN HttpReverseProxyList
         ELSE [HttpReverseProxyList EXCEPT ![Port(x)] = x]
    /\ Call(q, "Run", x)
    /\ UNCHANGED <<socket, waiter, used, disk>>

(* Mutant: the server listens at a port that is free, not at its own.      *)
RunAnywhere(q, x) ==
    /\ pc[q] = "Run" /\ proxy[q] = x
    /\ \E p \in Ports : /\ socket[p] = None
                       /\ socket' = [socket EXCEPT ![p] = x]
                       /\ waiter' = [waiter EXCEPT ![x] = "receive"]
    /\ Call(q, "idle", None)
    /\ UNCHANGED <<HttpReverseProxyList, used, disk>>

(* net.Listen fails when the port is taken, by a proxy or by some other    *)
(* process; its error is dropped.                                          *)
Run(q, x) ==
    /\ pc[q] = "Run" /\ proxy[q] = x
    /\ \/ /\ socket[Port(x)] = None
          /\ socket' = [socket EXCEPT ![Port(x)] = x]
          /\ waiter' = [waiter EXCEPT ![x] = "receive"]
       \/ UNCHANGED <<socket, waiter>>
    /\ Call(q, "idle", None)
    /\ UNCHANGED <<HttpReverseProxyList, used, disk>>

-----------------------------------------------------------------------------
(* changeProxyAvailable with a state other than 1 and 2: the proxy is read *)
(* from the table, and Close sends to its waiter.                          *)

changeProxyAvailable(q, x) ==
    /\ pc[q] = "idle"
    /\ HttpReverseProxyList[Port(x)] = x
    /\ Call(q, "Close", x)
    /\ UNCHANGED <<HttpReverseProxyList, socket, waiter, used, disk>>

Close(q, x) ==
    /\ pc[q] = "Close" /\ proxy[q] = x
    /\ waiter[x] = "receive"
    /\ waiter' = [waiter EXCEPT ![x] = "Shutdown"]
    /\ Call(q, "idle", None)
    /\ UNCHANGED <<HttpReverseProxyList, socket, used, disk>>

(* hs.Shutdown                                                             *)
Shutdown(x) ==
    /\ waiter[x] = "Shutdown"
    /\ socket' = [socket EXCEPT ![Port(x)] = None]
    /\ waiter' = [waiter EXCEPT ![x] = "delete"]
    /\ UNCHANGED <<HttpReverseProxyList, used, calls, disk>>

(* Mutant: the entry stays.                                                *)
deleteNothing(x) ==
    /\ waiter[x] = "delete"
    /\ waiter' = [waiter EXCEPT ![x] = "returned"]
    /\ UNCHANGED <<HttpReverseProxyList, socket, used, calls, disk>>

delete(x) ==
    /\ waiter[x] = "delete"
    /\ HttpReverseProxyList' = [HttpReverseProxyList EXCEPT ![Port(x)] = None]
    /\ waiter' = [waiter EXCEPT ![x] = "returned"]
    /\ UNCHANGED <<socket, used, calls, disk>>

-----------------------------------------------------------------------------
(* The snapshot of StandMode, as far as it concerns the table.             *)
Snap ==
    /\ saved' = {p \in Ports : Listed(p)}
    /\ UNCHANGED <<HttpReverseProxyList, socket, waiter, used, calls, restarts>>

(* The process is killed, and started again from the snapshot: Ctx.Run     *)
(* runs every proxy of the table.                                          *)
Restored == saved \X {1}

Restart ==
    /\ restarts < MaxRestarts
    /\ restarts' = restarts + 1
    /\ HttpReverseProxyList' = [p \in Ports |-> IF p \in saved THEN <<p, 1>> ELSE None]
    /\ \E ok \in SUBSET saved :
         /\ socket' = [p \in Ports |-> IF p \in ok THEN <<p, 1>> ELSE None]
         /\ waiter' = [x \in Proxies |-> IF x \in ok \X {1} THEN "nil" ELSE "none"]
    /\ used' = Restored
    /\ pc' = [q \in Admins |-> "idle"]
    /\ proxy' = [q \in Admins |-> None]
    /\ UNCHANGED saved

-----------------------------------------------------------------------------
Waiter(x) == Shutdown(x) \/ delete(x)

ListNext ==
    \/ \E x \in Proxies :
         \/ Waiter(x)
         \/ \E q \in Admins :
              \/ addHttpProxy(q, x) \/ AddHttpReverseProxy(q, x) \/ Run(q, x)
              \/ changeProxyAvailable(q, x) \/ Close(q, x)
    \/ Snap \/ Restart

ListSpec == ListInit /\ [][ListNext]_listVars

(* The waiter runs when it can; Shutdown gives up after five seconds. A    *)
(* call whose send finds the waiter receiving goes on.                     *)
ListFairSpec ==
    /\ ListSpec
    /\ \A x \in Proxies : /\ WF_listVars(Waiter(x))
                          /\ \A q \in Admins : WF_listVars(Close(q, x))

-----------------------------------------------------------------------------
(* Entries, sockets and waiters belong to proxies of their own port.       *)
ListTypeOK ==
    /\ HttpReverseProxyList \in [Ports -> Proxies \cup {None}]
    /\ socket \in [Ports -> Proxies \cup {None}]
    /\ \A p \in Ports : /\ Listed(p) => Port(HttpReverseProxyList[p]) = p
                        /\ socket[p] # None => Port(socket[p]) = p
    /\ waiter \in [Proxies -> {"none", "nil", "receive", "Shutdown", "delete", "returned"}]
    /\ used \subseteq Proxies
    /\ pc \in [Admins -> {"idle", "AddHttpReverseProxy", "Run", "Close"}]
    /\ proxy \in [Admins -> Proxies \cup {None}]
    /\ saved \subseteq Ports
    /\ restarts \in 0 .. MaxRestarts

(* A waiter that is about to delete the entry of its port finds its own    *)
(* proxy there, also when the call that closed it had read the table long  *)
(* before and other proxies of the port have come and gone since.          *)
OwnEntryDeleted ==
    \A x \in Proxies : waiter[x] \in {"Shutdown", "delete"}
                       => HttpReverseProxyList[Port(x)] = x

(* A proxy whose waiter has been told to close leaves the table, unless    *)
(* the process is restarted before it does.                                *)
ClosedLeaves ==
    \A x \in Proxies :
      waiter[x] = "Shutdown"
        ~> HttpReverseProxyList[Port(x)] # x \/ waiter[x] \in {"nil", "none"}
=============================================================================
