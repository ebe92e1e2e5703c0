---------------------------- MODULE LeaderNotify ----------------------------
(***************************************************************************)
(* How a cluster node follows its leadership (start.go, runCluster): the   *)
(* raft library reports every change on an unbuffered channel, one         *)
(* goroutine reads it, opens or closes the node for writes, and starts or  *)
(* stops the gRPC server. Every leadership starts a new goroutine for      *)
(* rpcServer.Start; the end of a leadership hands that goroutine a token   *)
(* through the unbuffered rpcServerCloseChan.                              *)
(*                                                                         *)
(* The raft library is external: it elects and deposes the node at will,   *)
(* but its main loop waits until the report of a change has been read.     *)
(***************************************************************************)
EXTENDS Naturals, FiniteSets

CONSTANTS
    Starts,         \* the calls of rpcServer.Start, one for each leadership
    NoStart,        \* nobody listens on the port of the gRPC server
    HasHttpServer,  \* server.httpServer of the configuration
    HasRpcServer    \* server.rpcServer of the configuration

ASSUME NotifyAssumption ==
    /\ NoStart \notin Starts
    /\ HasHttpServer \in BOOLEAN /\ HasRpcServer \in BOOLEAN

VARIABLES
    role,         \* raft: is the node the leader
    report,       \* raft: the change it waits to report, or "none"
    loop,         \* where the notify goroutine is
    Leader,       \* vermouth.Leader
    enableWrite,  \* HttpServer.enableWrite
    start,        \* the state of each call of rpcServer.Start
    listener,     \* the call that holds the port
    consumers,    \* goroutines started for each discovery by startDiscovery
    crashed       \* a panic has ended the process

vars == <<role, report, loop, Leader, enableWrite, start, listener, consumers,
          crashed>>

(* A call of Start "failed" when it could not listen, and is at its "end"  *)
(* after the token and server.Stop().                                      *)
StartStates == {"unused", "listen", "failed", "serve", "stop", "end"}

(* The loop waits for a report at "range" and for the receiver of the      *)
(* token at "close"; the others lie within the two branches.               *)
LoopStates == {"range", "lead", "open", "follow", "shut", "close"}

(* Mutant: the zero value of a call instead of nobody.                     *)
InitZeroListener ==
    /\ role = FALSE /\ report = "none" /\ loop = "range"
    /\ Leader = FALSE /\ enableWrite = FALSE
    /\ start = [s \in Starts |-> "unused"] /\ listener = 0
    /\ consumers = 0 /\ crashed = FALSE

Init ==
    /\ role = FALSE /\ report = "none" /\ loop = "range"
    /\ Leader = FALSE /\ enableWrite = FALSE
    /\ start = [s \in Starts |-> "unused"] /\ listener = NoStart
    /\ consumers = 0 /\ crashed = FALSE

-----------------------------------------------------------------------------
(* raft: the node wins or loses an election; it can do neither before the  *)
(* last change has been read. A node without unused calls stays follower.  *)
Elected ==
    /\ ~crashed /\ report = "none" /\ ~role
    /\ \E s \in Starts : start[s] = "unused"
    /\ role' = TRUE /\ report' = "leader"
    /\ UNCHANGED <<loop, Leader, enableWrite, start, listener, consumers, crashed>>

Deposed ==
    /\ ~crashed /\ report = "none" /\ role
    /\ role' = FALSE /\ report' = "follower"
    /\ UNCHANGED <<loop, Leader, enableWrite, start, listener, consumers, crashed>>

(* SetWriteFlag on a node configured without an HTTP server: a nil pointer.*)
SetWriteFlag(flag) ==
    IF HasHttpServer THEN enableWrite' = flag /\ UNCHANGED crashed
                     ELSE crashed' = TRUE /\ UNCHANGED enableWrite

(* The goroutines of the discovery are started once more at each election. *)
startDiscovery == consumers' = consumers + 1

(* The loop takes the report, which lets raft go on while the branch is    *)
(* executed.                                                               *)
Receive ==
    /\ ~crashed /\ loop = "range" /\ report # "none"
    /\ report' = "none"
    /\ loop' = IF report = "leader" THEN "lead" ELSE "follow"
    /\ UNCHANGED <<role, Leader, enableWrite, start, listener, consumers, crashed>>

(* The branch of a new leader: it starts the discovery, then opens the     *)
(* node for writes and leaves a goroutine to call rpcServer.Start.         *)
BecomeLeader ==
    /\ ~crashed /\ loop = "lead"
    /\ Leader' = TRUE
    /\ startDiscovery
    /\ loop' = "open"
    /\ UNCHANGED <<role, report, enableWrite, start, listener, crashed>>

OpenWrites ==
    /\ ~crashed /\ loop = "open"
    /\ SetWriteFlag(TRUE)
    /\ IF HasRpcServer /\ HasHttpServer
       THEN \E s \in Starts : /\ start[s] = "unused"
                              /\ start' = [start EXCEPT ![s] = "listen"]
       ELSE UNCHANGED start
    /\ loop' = "range"
    /\ UNCHANGED <<role, report, Leader, listener, consumers>>

(* Mutant: the node stays open for writes.                                 *)
FollowWithWrites ==
    /\ ~crashed /\ loop = "follow"
    /\ Leader' = FALSE
    /\ loop' = IF HasRpcServer THEN "close" ELSE "range"
    /\ UNCHANGED <<role, report, enableWrite, start, listener, consumers, crashed>>

(* The branch of a follower: no longer the leader, closed for writes, and  *)
(* then, at "close", the token.                                            *)
BecomeFollower ==
    /\ ~crashed /\ loop = "follow"
    /\ Leader' = FALSE
    /\ loop' = "shut"
    /\ UNCHANGED <<role, report, enableWrite, start, listener, consumers, crashed>>

(* Mutant: the server is not told to stop.                                 *)
ShutWithoutClose ==
    /\ ~crashed /\ loop = "shut"
    /\ SetWriteFlag(FALSE)
    /\ loop' = "range"
    /\ UNCHANGED <<role, report, Leader, start, listener, consumers>>

CloseWrites ==
    /\ ~crashed /\ loop = "shut"
    /\ SetWriteFlag(FALSE)
    /\ loop' = IF HasRpcServer THEN "close" ELSE "range"
    /\ UNCHANGED <<role, report, Leader, start, listener, consumers>>

(* Mutant: one more token is sent.                                         *)
CloseRpcTwice ==
    /\ ~crashed /\ loop = "close"
    /\ \E s \in Starts : /\ start[s] = "serve"
                         /\ start' = [start EXCEPT ![s] = "stop"]
    /\ UNCHANGED <<role, report, loop, Leader, enableWrite, listener, consumers, crashed>>

(* rpcServerCloseChan <- struct{}{}: both sides of the channel must be     *)
(* there.                                                                  *)
CloseRpc ==
    /\ ~crashed /\ loop = "close"
    /\ \E s \in Starts : /\ start[s] = "serve"
                         /\ start' = [start EXCEPT ![s] = "stop"]
    /\ loop' = "range"
    /\ UNCHANGED <<role, report, Leader, enableWrite, listener, consumers, crashed>>

-----------------------------------------------------------------------------
(* Mutant: a listener that shares the port.                                *)
ListenShared(s) ==
    /\ ~crashed /\ start[s] = "listen"
    /\ listener' = s
    /\ start' = [start EXCEPT ![s] = "serve"]
    /\ UNCHANGED <<role, report, loop, Leader, enableWrite, consumers, crashed>>

(* rpcServer.Start: listen, or return when the port is taken.              *)
Listen(s) ==
    /\ ~crashed /\ start[s] = "listen"
    /\ IF listener = NoStart
       THEN listener' = s /\ start' = [start EXCEPT ![s] = "serve"]
       ELSE start' = [start EXCEPT ![s] = "failed"] /\ UNCHANGED listener
    /\ UNCHANGED <<role, report, loop, Leader, enableWrite, consumers, crashed>>

(* server.Stop() gives the port back, after the token has been received.   *)
Stop(s) ==
    /\ ~crashed /\ start[s] = "stop"
    /\ start' = [start EXCEPT ![s] = "end"]
    /\ listener' = NoStart
    /\ UNCHANGED <<role, report, loop, Leader, enableWrite, consumers, crashed>>

Next == \/ Elected \/ Deposed
        \/ Receive \/ BecomeLeader \/ OpenWrites
        \/ BecomeFollower \/ CloseWrites \/ CloseRpc
        \/ \E s \in Starts : Listen(s) \/ Stop(s)

Spec == Init /\ [][Next]_vars

(* The goroutines of the node run when they can; elections are up to raft. *)
FairSpec ==
    /\ Spec
    /\ WF_vars(Receive) /\ WF_vars(BecomeLeader) /\ WF_vars(OpenWrites)
    /\ WF_vars(BecomeFollower) /\ WF_vars(CloseWrites) /\ WF_vars(CloseRpc)
    /\ \A s \in Starts : WF_vars(Listen(s) \/ Stop(s))

-----------------------------------------------------------------------------
(* The roles, the calls of Start and the owner of the port stay in range.  *)
TypeOK ==
    /\ role \in BOOLEAN /\ Leader \in BOOLEAN /\ enableWrite \in BOOLEAN
    /\ crashed \in BOOLEAN
    /\ report \in {"none", "leader", "follower"}
    /\ loop \in LoopStates
    /\ start \in [Starts -> StartStates]
    /\ listener \in Starts \cup {NoStart}
    /\ consumers \in Nat

(* Calls that have not been told to stop.                                  *)
Live(s) == start[s] \in {"listen", "serve"}

(* Only the leader serves gRPC (vermouth.go:104): a node that has read the *)
(* end of its leadership and sent the token has no call left that listens, *)
(* or is about to, however elections, Listen and Stop interleave.          *)
RpcOnlyOnLeader ==
    ~crashed /\ loop = "range" /\ ~Leader => \A s \in Starts : ~Live(s)

(* The gRPC server is never started twice: two calls never serve at once,  *)
(* not even with the one that is stopping.                                 *)
OneServer ==
    \A s, t \in Starts :
      start[s] \in {"serve", "stop"} /\ start[t] \in {"serve", "stop"} => s = t

(* A deposed node stops taking writes, whatever raft reports while the     *)
(* loop is still at the last change, and although the loop may then wait   *)
(* for ever to hand over the token (start.go:86 comes before 89).          *)
DeposedStopsWriting == report = "follower" ~> ~enableWrite \/ crashed

(* Every change of leadership that raft reports is read, although the only *)
(* reader waits for the servers it starts, unless a call of Start has      *)
(* found the port still taken: then nobody takes the next token, and the   *)
(* reader stays at start.go:89 for ever.                                   *)
ChangesRead ==
    report # "none" ~> \/ report = "none" \/ crashed
                       \/ \E s \in Starts : start[s] = "failed"
=============================================================================
