------------------------------ MODULE Cluster -------------------------------
(***************************************************************************)
(* The nodes of a cluster: commands that the state manager checks on one   *)
(* node and appends to the raft log, the finite state machine (FSM) that   *)
(* applies the log to the tables of each node, its snapshots, and the      *)
(* restart of a node from its last snapshot and the log.                   *)
(*                                                                         *)
(* Raft is external: `log' is the sequence of committed entries, the same  *)
(* for all nodes, and a node applies it in order. A command is checked on  *)
(* the tables of the node that is leader at that moment, which may not     *)
(* have applied all of the log; any node may be that leader, as long as a  *)
(* majority runs. A node that restarts applies again what follows the      *)
(* index of its snapshot. A panic of the FSM goroutine ends the process.   *)
(* One node is configured to found the cluster; the other ones ask the     *)
(* node at their LeaderAddress to add them, at every start, and end when   *)
(* it does not.                                                            *)
(*                                                                         *)
(* Snapshot returns the live context, and Persist encodes it afterwards,   *)
(* beside the entries that are being applied: the image of index i may     *)
(* hold effects of later entries, of one field and not of another.         *)
(*                                                                         *)
(* A table maps the port of a proxy to the proxy's fields. Paths and       *)
(* BalancerType are functions of the prefixer (RoutesAgree of HttpProxy);  *)
(* each prefix has one URL that requests ask for; the black list is a set, *)
(* see RadixTree. That a port can be bound is assumed, see ProxyList.      *)
(***************************************************************************)
EXTENDS Balancer

CONSTANTS
    Nodes,      \* the nodes that may be servers of the raft configuration
    Seed,       \* the one whose configuration file says leader = true
    LeaderAddress, \* the node that each of the other ones asks
    Ports,      \* the ports of proxies
    UrlPrefixes,\* the URL prefixes
    Algos,      \* the names of algorithms a command may carry, known or not
    Networks,   \* the networks of black lists
    Config,     \* the proxies of each node's configuration file
    Commands,   \* the log entries a client may ask for
    NoEntry,    \* no rest of an entry
    NoImage,    \* no snapshot
    MaxLog,     \* bound on the length of the log
    Traffic,    \* the requests of clients: <<node, port, prefix>>
    MaxSnaps,   \* bound on the index of the last snapshot, of each node
    MaxKills    \* bound on the number of kills, of each node

VARIABLES
    log,        \* the committed entries
    ideal,      \* history: the tables after each prefix of the log
    members,    \* the servers of the raft configuration
    status,     \* where the process of each node is, see Statuses
    table,      \* HttpReverseProxyList of each node
    applied,    \* the index of the last entry each node has applied
    half,       \* the AddPrefix that changeLb has still to call, or NoEntry
    stuck,      \* the FSM goroutine waits for ever
    starting,   \* the proxies whose Start has been spawned by Restore
    enc,        \* the image Persist is encoding
    snap,       \* the last snapshot on disk
    base,       \* the image the process has been restored from
    kills

raftVars  == <<log, ideal, members>>
fsm       == <<table, applied, half, stuck>>
disk      == <<enc, snap>>
vars == <<log, ideal, members, status, table, applied, half, stuck, starting, enc, snap,
          base, kills>>

-----------------------------------------------------------------------------
(* runCluster waits for the answer to its join at the first start and at a *)
(* later one, has the proxies of the configuration file to add, and has    *)
(* returned.                                                               *)
Running  == {"first", "again", "config", "up"}
Statuses == Running \cup {"new", "down"}

(* The operations of log entries, as appended by the state manager; "CLOSE"*)
(* is CHG_STATE with a state that is neither 1 nor 2. Nothing appends      *)
(* RMV_HTTP_PROXY.                                                         *)
Ops == {"ADD_HTTP_PROXY", "ADD_HTTP_PROXY_PREFIX", "ADD_HTTP_PROXY_HOST",
        "ADD_HTTP_BLACK_LIST", "RMV_HTTP_PROXY_PREFIX", "RMV_HTTP_PROXY_HOST",
        "RMV_HTTP_BLACK_LIST", "SET_RATE_LIMITER", "CHG_STATIC", "CHG_LB",
        "START", "STOP", "CLOSE"}

(* The body of an entry. It is legal when the type of its prefixer is      *)
(* known and its speed is not 0; `fresh' is history, see AppendLogEntry.   *)
EntryType ==
    [op : Ops, port : Ports, prefix : UrlPrefixes, algo : Algos,
     hosts : Seq(Hosts), static : BOOLEAN, net : Networks, legal : BOOLEAN,
     fresh : BOOLEAN]

Put(f, k, v) == [x \in DOMAIN f \cup {k} |-> IF x = k THEN v ELSE f[x]]
Del(f, k)    == [x \in DOMAIN f \ {k} |-> f[x]]
Get(f, k, d) == IF k \in DOMAIN f THEN f[k] ELSE d

(* The Go maps with URL prefixes as keys.                                  *)
IsMap(f, S) == DOMAIN f \subseteq UrlPrefixes /\ f \in [DOMAIN f -> S]

(* A proxy: prefixMapping, StaticMapping, the networks of Acl, Available,  *)
(* the prefixes whose URL has a limiter and a limiter record, and whether  *)
(* Shutdown is a channel with its receiver, taken, or nil.                 *)
NewHttpReverseProxy ==
    [mapping |-> <<>>, static |-> <<>>, acl |-> {}, available |-> TRUE,
     limiters |-> {}, records |-> {}, shutdown |-> "open"]

Paths(x)        == [p \in DOMAIN x.mapping |-> x.mapping[p].hosts]
BalancerType(x) == [p \in DOMAIN x.mapping |-> x.mapping[p].mode]

PrefixExists(x, p)  == p \in DOMAIN x.mapping
HostExists(x, p, h) == PrefixExists(x, p) /\ h \in ToSet(x.mapping[p].hosts)

ASSUME ClusterAssumption ==
    /\ IsFiniteSet(Nodes) /\ Seed \in Nodes
    /\ LeaderAddress \in [Nodes \ {Seed} -> Nodes]
    /\ factories \subseteq Algos
    /\ Commands \subseteq EntryType
    /\ \A c \in Commands : c.hosts # <<>> /\ c.fresh
    /\ \A n \in Nodes : DOMAIN Config[n] \subseteq Ports
    /\ \A n \in Nodes : \A port \in DOMAIN Config[n] :
         IsMap(Config[n][port], [algo : factories, hosts : Seq(Hosts), static : BOOLEAN])
    /\ NoEntry \notin EntryType
    /\ MaxLog \in Nat /\ MaxSnaps \in [Nodes -> Nat] /\ MaxKills \in [Nodes -> Nat]
    /\ Traffic \subseteq Nodes \X Ports \X UrlPrefixes

-----------------------------------------------------------------------------
(* The methods of a proxy: the proxy after the call, and how it ends.      *)
Ok(x)     == [x |-> x, end |-> "ok"]
Panics(x) == [x |-> x, end |-> "panic"]
Blocks(x) == [x |-> x, end |-> "blocks"]

(* Mutant: the prefix is not looked up, its balancer is built again.       *)
AddPrefixAgain(x, e) ==
    IF e.algo \notin factories THEN Panics(x)
    ELSE Ok([x EXCEPT !.static = Put(@, e.prefix, e.static),
                      !.mapping = Put(@, e.prefix,
                                      Build(e.algo, Get(Paths(x), e.prefix, <<>>) \o e.hosts))])

AddPrefix(x, e) ==
    IF PrefixExists(x, e.prefix) THEN Ok(x)
    ELSE IF e.algo \notin factories THEN Panics(x)
    ELSE Ok([x EXCEPT !.static = Put(@, e.prefix, e.static),
                      !.mapping = Put(@, e.prefix, Build(e.algo, e.hosts))])

(* The limiter of the URL stays, its record goes.                          *)
RemovePrefix(x, p) == [x EXCEPT !.mapping = Del(@, p), !.records = @ \ {p}]

(* A ring whose read lock is lost never lets a writer in; the balancer of  *)
(* a prefix that is not mapped is nil.                                     *)
AddHost(x, e) ==
    IF ~PrefixExists(x, e.prefix) THEN Panics(x)
    ELSE IF x.mapping[e.prefix].rlocked THEN Blocks(x)
    ELSE Ok([x EXCEPT !.mapping[e.prefix] = Add(@, e.hosts[1])])

RemoveHost(x, e) ==
    IF ~PrefixExists(x, e.prefix) THEN Panics(x)
    ELSE IF x.mapping[e.prefix].rlocked THEN Blocks(x)
    ELSE LET r == RemoveResult(x.mapping[e.prefix], e.hosts[1])
         IN  IF r.panic THEN Panics(x) ELSE Ok([x EXCEPT !.mapping[e.prefix] = r.b])

(* Without a limiter, createRateLimiter locks the proxy a second time; a   *)
(* limiter divides by the speed. The rates themselves are in HttpProxy.    *)
SetRateLimit(x, e) ==
    IF e.prefix \notin x.limiters THEN Blocks(x)
    ELSE IF e.legal THEN Ok(x) ELSE Panics(x)

(* handleAddHttpProxy makes a proxy before it looks at the port.           *)
AddHttpProxy(x, e) == IF e.legal THEN Ok(x) ELSE Panics(x)

changeStatic(x, e) == Ok([x EXCEPT !.static = Put(@, e.prefix, ~Get(@, e.prefix, FALSE))])

(* The first half of changeLb; the other one is LbRest.                    *)
changeLb(x, e) ==
    IF ~PrefixExists(x, e.prefix) THEN Panics(x) ELSE Ok(RemovePrefix(x, e.prefix))

LbRest(x, e) == [e EXCEPT !.op = "ADD_HTTP_PROXY_PREFIX",
                          !.hosts = x.mapping[e.prefix].hosts,
                          !.static = Get(x.static, e.prefix, FALSE)]

(* A send on a nil channel, or on one whose receiver has gone, blocks.     *)
Close(x) == IF x.shutdown = "open" THEN Ok([x EXCEPT !.shutdown = "taken"])
                                   ELSE Blocks(x)

(* The handlers of log_entry_handler.go.                                   *)
Handle(x, e) ==
    CASE e.op = "ADD_HTTP_PROXY"        -> AddHttpProxy(x, e)
      [] e.op = "ADD_HTTP_PROXY_PREFIX" -> AddPrefix(x, e)
      [] e.op = "RMV_HTTP_PROXY_PREFIX" -> Ok(RemovePrefix(x, e.prefix))
      [] e.op = "ADD_HTTP_PROXY_HOST"   -> AddHost(x, e)
      [] e.op = "RMV_HTTP_PROXY_HOST"   -> RemoveHost(x, e)
      [] e.op = "ADD_HTTP_BLACK_LIST"   -> Ok([x EXCEPT !.acl = @ \cup {e.net}])
      [] e.op = "RMV_HTTP_BLACK_LIST"   -> Ok([x EXCEPT !.acl = @ \ {e.net}])
      [] e.op = "SET_RATE_LIMITER"      -> SetRateLimit(x, e)
      [] e.op = "CHG_STATIC"            -> changeStatic(x, e)
      [] e.op = "CHG_LB"                -> changeLb(x, e)
      [] e.op = "START"                 -> Ok([x EXCEPT !.available = TRUE])
      [] e.op = "STOP"                  -> Ok([x EXCEPT !.available = FALSE])
      [] e.op = "CLOSE"                 -> Close(x)

(* The proxy an entry is for: the one of the table, or the one that        *)
(* ADD_HTTP_PROXY enters when the port is not used. Other entries for a    *)
(* port that is not there dereference nil.                                 *)
NilProxy(t, e) == e.port \notin DOMAIN t /\ e.op # "ADD_HTTP_PROXY"

Outcome(t, e) == Handle(Get(t, e.port, NewHttpReverseProxy), e)

(* History: the tables when every call of the FSM returns at once.         *)
Next1(t, e) ==
    IF NilProxy(t, e) \/ Outcome(t, e).end = "panic" THEN t
    ELSE Put(t, e.port, Outcome(t, e).x)

IdealNext(t, e) ==
    IF e.op = "CHG_LB" /\ ~NilProxy(t, e) /\ PrefixExists(t[e.port], e.prefix)
    THEN Next1(Next1(t, e), LbRest(t[e.port], e))
    ELSE Next1(t, e)

-----------------------------------------------------------------------------
Init ==
    /\ log = <<>> /\ ideal = << <<>> >> /\ members = {}
    /\ status = [n \in Nodes |-> "new"]
    /\ table = [n \in Nodes |-> <<>>]
    /\ applied = [n \in Nodes |-> 0]
    /\ half = [n \in Nodes |-> NoEntry]
    /\ stuck = [n \in Nodes |-> FALSE]
    /\ starting = [n \in Nodes |-> {}]
    /\ enc = [n \in Nodes |-> NoImage]
    /\ snap = [n \in Nodes |-> NoImage]
    /\ base = [n \in Nodes |-> NoImage]
    /\ kills = [n \in Nodes |-> 0]

Runs(n) == status[n] \in Running
Majority(S) == 2 * Cardinality({n \in S : Runs(n)}) > Cardinality(S)

-----------------------------------------------------------------------------
(* Commands: the cluster branches of the state manager.                    *)

(* Mutant: changeLb does not look for the prefix.                          *)
CheckedLess(t, c) ==
    IF c.op = "ADD_HTTP_PROXY" THEN c.port \notin DOMAIN t
    ELSE /\ c.port \in DOMAIN t
         /\ c.op = "ADD_HTTP_PROXY_PREFIX" => ~PrefixExists(t[c.port], c.prefix)

(* The checks on the tables of the leader. Those of the black list are     *)
(* made in stand mode only; that of removeHttpProxyHost is inverted.       *)
Checked(t, c) ==
    CASE c.op = "ADD_HTTP_PROXY" -> c.port \notin DOMAIN t
      [] c.op \in {"ADD_HTTP_BLACK_LIST", "RMV_HTTP_BLACK_LIST"} -> TRUE
      [] OTHER ->
           /\ c.port \in DOMAIN t
           /\ c.op = "ADD_HTTP_PROXY_PREFIX" => ~PrefixExists(t[c.port], c.prefix)
           /\ c.op = "RMV_HTTP_PROXY_PREFIX" => PrefixExists(t[c.port], c.prefix)
           /\ c.op \in {"ADD_HTTP_PROXY_HOST", "RMV_HTTP_PROXY_HOST"}
                => ~HostExists(t[c.port], c.prefix, c.hosts[1])
           /\ c.op = "CHG_LB" => /\ PrefixExists(t[c.port], c.prefix)
                                 /\ t[c.port].mapping[c.prefix].mode # c.algo

(* AppendLogEntry. The servers take commands once runCluster has returned. *)
(* An entry is fresh when the tables it was checked on had all of the log. *)
AppendLogEntry(n, c) ==
    /\ status[n] = "up" /\ Majority(members)
    /\ Len(log) < MaxLog
    /\ LET e == [c EXCEPT !.fresh = applied[n] = Len(log)] IN
       /\ log' = Append(log, e)
       /\ ideal' = Append(ideal, IdealNext(Last(ideal), e))
    /\ UNCHANGED <<members, status, fsm, starting, disk, base, kills>>

Propose(n) == \E c \in Commands : Checked(table[n], c) /\ AppendLogEntry(n, c)

(* The entry RegisterToProxy appends for a proxy that is listed: a known   *)
(* prefix gets the host, without a look at the hosts it has.               *)
RegisterToProxy(n) ==
    \E c \in Commands :
      /\ c.op = "ADD_HTTP_PROXY_HOST"
      /\ c.port \in DOMAIN table[n] /\ PrefixExists(table[n][c.port], c.prefix)
      /\ AppendLogEntry(n, c)

-----------------------------------------------------------------------------
(* The FSM goroutine of a node.                                            *)

Idle(n) == n \in members /\ Runs(n) /\ ~stuck[n] /\ half[n] = NoEntry

(* A process that ends. The image that was being encoded is lost.          *)
Ends(n) ==
    /\ status' = [status EXCEPT ![n] = "down"]
    /\ table' = [table EXCEPT ![n] = <<>>]
    /\ applied' = [applied EXCEPT ![n] = 0]
    /\ half' = [half EXCEPT ![n] = NoEntry]
    /\ stuck' = [stuck EXCEPT ![n] = FALSE]
    /\ starting' = [starting EXCEPT ![n] = {}]
    /\ enc' = [enc EXCEPT ![n] = NoImage]
    /\ base' = [base EXCEPT ![n] = NoImage]
    /\ UNCHANGED snap

Applied(n) == applied' = [applied EXCEPT ![n] = @ + 1]

Apply(n) ==
    /\ Idle(n) /\ applied[n] < Len(log)
    /\ UNCHANGED <<raftVars, kills>>
    /\ LET e == log[applied[n] + 1]
           t == table[n]
           r == Outcome(t, e) IN
       IF NilProxy(t, e) \/ r.end = "panic" THEN Ends(n)
       ELSE /\ table' = [table EXCEPT ![n] = Put(t, e.port, r.x)]
            /\ CASE r.end = "blocks" ->
                      stuck' = [stuck EXCEPT ![n] = TRUE] /\ UNCHANGED <<applied, half>>
                 [] r.end = "ok" /\ e.op = "CHG_LB" ->
                      /\ half' = [half EXCEPT ![n] = LbRest(t[e.port], e)]
                      /\ UNCHANGED <<applied, stuck>>
                 [] OTHER -> Applied(n) /\ UNCHANGED <<half, stuck>>
            /\ UNCHANGED <<status, starting, disk, base>>

(* The AddPrefix of changeLb. A proxy that has been deleted meanwhile is   *)
(* changed all the same, and not seen any more.                            *)
ApplyHalf(n) ==
    /\ Runs(n) /\ half[n] # NoEntry
    /\ UNCHANGED <<raftVars, kills>>
    /\ LET e == half[n]
           t == table[n]
           r == Outcome(t, e) IN
       IF r.end = "panic" THEN Ends(n)
       ELSE /\ table' = [table EXCEPT ![n] =
                           IF e.port \in DOMAIN t THEN Put(t, e.port, r.x) ELSE t]
            /\ half' = [half EXCEPT ![n] = NoEntry]
            /\ Applied(n)
            /\ UNCHANGED <<status, stuck, starting, disk, base>>

-----------------------------------------------------------------------------
(* What other goroutines of a node do to its tables.                       *)

(* Mutant: the lock of the proxy is given back while a limiter is created. *)
LockedLess(n, port) == /\ stuck[n]
                       /\ log[applied[n] + 1].port = port
                       /\ log[applied[n] + 1].op \notin {"CLOSE", "SET_RATE_LIMITER"}

(* The FSM goroutine waits with the lock of the proxy.                     *)
Locked(n, port) == /\ stuck[n]
                   /\ log[applied[n] + 1].port = port
                   /\ log[applied[n] + 1].op # "CLOSE"

(* What Persist has of a proxy once it has read all fields.                *)
Fields(x, paths) ==
    [paths |-> paths, algo |-> BalancerType(x), static |-> x.static, acl |-> x.acl,
     available |-> x.available, records |-> x.records]

Encoded(n, port) ==
    [enc EXCEPT ![n].image = Put(@, port, Fields(table[n][port], @[port].paths)),
                ![n].open = {}]

(* The receiver of a closed proxy deletes the entry of its port. Nothing   *)
(* changes the proxy any more: an encoder that is half way through it will *)
(* read what it has now.                                                   *)
Closed(n, port) ==
    /\ Runs(n) /\ port \in DOMAIN table[n] /\ table[n][port].shutdown = "taken"
    /\ table' = [table EXCEPT ![n] = Del(@, port)]
    /\ enc' = IF enc[n] # NoImage /\ port \in enc[n].open THEN Encoded(n, port) ELSE enc
    /\ UNCHANGED <<raftVars, status, applied, half, stuck, starting, snap, base, kills>>

(* A request of this node's clients: a ring keeps its read lock, and a     *)
(* missing limiter is created, which takes the lock of the proxy.          *)
Served(x, p, locked) ==
    LET created == ~Get(x.static, p, FALSE) /\ p \notin x.limiters /\ ~locked IN
    [x EXCEPT !.mapping[p] = AfterBalance(@),
              !.limiters = IF created THEN @ \cup {p} ELSE @,
              !.records  = IF created THEN @ \cup {p} ELSE @]

(* A restored proxy listens once runCluster runs all proxies.              *)
ServeHTTP(n, port, p) ==
    /\ <<n, port, p>> \in Traffic
    /\ Runs(n) /\ port \in DOMAIN table[n]
    /\ status[n] # "again" \/ table[n][port].shutdown # "nil"
    /\ table[n][port].available
    /\ PrefixExists(table[n][port], p)
    /\ table' = [table EXCEPT ![n][port] = Served(@, p, Locked(n, port))]
    /\ UNCHANGED <<raftVars, status, applied, half, stuck, starting, disk, base, kills>>

(* `go hp.Start()' of Restore.                                             *)
Start(n, port) ==
    /\ Runs(n) /\ port \in starting[n] /\ ~Locked(n, port)
    /\ starting' = [starting EXCEPT ![n] = @ \ {port}]
    /\ table' = IF port \in DOMAIN table[n]
                THEN [table EXCEPT ![n][port].available = TRUE] ELSE table
    /\ UNCHANGED <<raftVars, status, applied, half, stuck, disk, base, kills>>

-----------------------------------------------------------------------------
(* Snapshots. `from' is the index raft gives the snapshot. `ports' are     *)
(* those the encoder has to visit; one that is entered later may be        *)
(* visited as well.                                                        *)

Snapshot(n) ==
    /\ Idle(n) /\ enc[n] = NoImage
    /\ applied[n] > (IF snap[n] = NoImage THEN 0 ELSE snap[n].from)
    /\ applied[n] <= MaxSnaps[n]
    /\ enc' = [enc EXCEPT ![n] = [from |-> applied[n], image |-> <<>>,
                                  ports |-> DOMAIN table[n], open |-> {}]]
    /\ UNCHANGED <<raftVars, status, fsm, starting, snap, base, kills>>

(* Persist encodes Paths first and the other fields after that.            *)
EncodePaths(n, port) ==
    /\ Runs(n) /\ enc[n] # NoImage
    /\ enc[n].open = {}
    /\ port \in DOMAIN table[n] \ DOMAIN enc[n].image
    /\ enc' = [enc EXCEPT ![n].image = Put(@, port, [paths |-> Paths(table[n][port])]),
                          ![n].open = {port}]
    /\ UNCHANGED <<raftVars, status, fsm, starting, snap, base, kills>>

EncodeRest(n, port) ==
    /\ Runs(n) /\ enc[n] # NoImage /\ port \in enc[n].open
    /\ enc' = Encoded(n, port)
    /\ UNCHANGED <<raftVars, status, fsm, starting, snap, base, kills>>

(* The last entry whose effects the tables of a node may have, and the     *)
(* operations that may have been applied twice to them.                    *)
HeldTo(n) == Max({IF half[n] = NoEntry THEN applied[n] ELSE applied[n] + 1}
                 \cup (IF base[n] = NoImage THEN {} ELSE {base[n].to}))

Twice(n) == IF base[n] = NoImage THEN {} ELSE base[n].twice

(* The sink is closed. `to' and `twice' are history: a node that starts    *)
(* from the image applies the entries from + 1 .. to a second time.        *)
Persist(n) ==
    /\ Runs(n) /\ enc[n] # NoImage
    /\ enc[n].open = {} /\ enc[n].ports \cap DOMAIN table[n] \subseteq DOMAIN enc[n].image
    /\ snap' = [snap EXCEPT ![n] =
                  [from |-> enc[n].from, image |-> enc[n].image, to |-> HeldTo(n),
                   twice |-> Twice(n) \cup {log[i].op : i \in enc[n].from + 1 .. HeldTo(n)}]]
    /\ enc' = [enc EXCEPT ![n] = NoImage]
    /\ UNCHANGED <<raftVars, status, fsm, starting, base, kills>>

(* The sink is cancelled after an error.                                   *)
PersistFails(n) ==
    /\ Runs(n) /\ enc[n] # NoImage
    /\ enc' = [enc EXCEPT ![n] = NoImage]
    /\ UNCHANGED <<raftVars, status, fsm, starting, snap, base, kills>>

-----------------------------------------------------------------------------
(* Processes.                                                              *)

(* The first start creates the directory and the raft node, and founds the *)
(* cluster on the node that is configured to.                              *)
FirstStart(n) ==
    /\ status[n] = "new"
    /\ status' = [status EXCEPT ![n] = IF n = Seed THEN "config" ELSE "first"]
    /\ members' = IF n = Seed THEN {n} ELSE members
    /\ UNCHANGED <<log, ideal, fsm, starting, disk, base, kills>>

(* The node that is asked adds the one that joins when its servers are     *)
(* open and it is the leader, with a majority that includes the new node.  *)
AddVoter(n) ==
    /\ status[LeaderAddress[n]] = "up"
    /\ Majority(members \cup {n})
    /\ members' = members \cup {n}

Joining(n) == status[n] \in {"first", "again"}

(* The deferred Ctx.Run locks every proxy. When the FSM keeps the lock of  *)
(* one, runCluster does not return, and a Fatalf does not end the process. *)
RunReturns(n) == \A port \in Ports : ~Locked(n, port)

Join(n) ==
    /\ Joining(n) /\ RunReturns(n)
    /\ AddVoter(n)
    /\ status' = [status EXCEPT ![n] = IF @ = "first" THEN "config" ELSE "up"]
    /\ UNCHANGED <<log, ideal, fsm, starting, disk, base, kills>>

(* The node that is asked does not run or is not the leader, or its answer *)
(* is lost.                                                                *)
JoinFails(n) ==
    /\ Joining(n) /\ RunReturns(n)
    /\ AddVoter(n) \/ UNCHANGED members
    /\ Ends(n)
    /\ UNCHANGED <<log, ideal, kills>>

BuildHttpReverseProxyFromConfig(c) ==
    [NewHttpReverseProxy EXCEPT
       !.mapping = [p \in DOMAIN c |-> Build(c[p].algo, c[p].hosts)],
       !.static = [p \in DOMAIN c |-> c[p].static]]

(* The proxies of the configuration file, beside the log: the FSM may have *)
(* applied entries by then, and a port that is used is left alone.         *)
AddConfig(n) ==
    /\ status[n] = "config"
    /\ status' = [status EXCEPT ![n] = IF RunReturns(n) THEN "up" ELSE "config"]
    /\ table' = [table EXCEPT ![n] =
                   [port \in DOMAIN Config[n] \cup DOMAIN table[n] |->
                      IF port \in DOMAIN table[n] THEN table[n][port]
                      ELSE BuildHttpReverseProxyFromConfig(Config[n][port])]]
    /\ UNCHANGED <<raftVars, applied, half, stuck, starting, disk, base, kills>>

Kill(n) ==
    /\ Runs(n) /\ kills[n] < MaxKills[n]
    /\ kills' = [kills EXCEPT ![n] = @ + 1]
    /\ Ends(n)
    /\ UNCHANGED raftVars

(* Restore adds the networks of Record to the decoded tree, whose root is  *)
(* nil, before it builds a new one; and AddPrefix panics for a prefix      *)
(* whose algorithm is not in the image. The process ends, at every start.  *)
RestorePanics(image) ==
    \E port \in DOMAIN image :
      \/ image[port].acl # {}
      \/ \E p \in DOMAIN image[port].paths :
           Get(image[port].algo, p, "") \notin factories

(* HttpReverseProxy.Restore. The channel Shutdown is not in the image.     *)
Restore(i) ==
    [mapping   |-> [p \in DOMAIN i.paths |-> Build(i.algo[p], i.paths[p])],
     static    |-> [p \in DOMAIN i.paths \cup DOMAIN i.static |-> Get(i.static, p, FALSE)],
     acl       |-> i.acl, available |-> i.available,
     limiters  |-> i.records, records |-> i.records, shutdown |-> "nil"]

Restarted(n) == IF n = Seed THEN "up" ELSE "again"

(* Mutant: the start gives up on a directory that is there.                *)
RestartEmptyFails(n) ==
    /\ status[n] = "down" /\ snap[n] = NoImage
    /\ UNCHANGED vars

(* The directory is there, so the configuration file is not read again.    *)
RestartEmpty(n) ==
    /\ status[n] = "down" /\ snap[n] = NoImage
    /\ status' = [status EXCEPT ![n] = Restarted(n)]
    /\ UNCHANGED <<raftVars, fsm, starting, disk, base, kills>>

(* Mutant: the entry after the snapshot is taken for applied.              *)
RestartSkips(n) ==
    /\ status[n] = "down" /\ snap[n] # NoImage
    /\ ~RestorePanics(snap[n].image)
    /\ status' = [status EXCEPT ![n] = Restarted(n)]
    /\ table' = [table EXCEPT ![n] = [port \in DOMAIN snap[n].image |->
                                         Restore(snap[n].image[port])]]
    /\ applied' = [applied EXCEPT ![n] = snap[n].from + 1]
    /\ starting' = [starting EXCEPT ![n] = DOMAIN snap[n].image]
    /\ base' = [base EXCEPT ![n] = snap[n]]
    /\ UNCHANGED <<raftVars, half, stuck, disk, kills>>

Restart(n) ==
    /\ status[n] = "down" /\ snap[n] # NoImage
    /\ ~RestorePanics(snap[n].image)
    /\ status' = [status EXCEPT ![n] = Restarted(n)]
    /\ table' = [table EXCEPT ![n] = [port \in DOMAIN snap[n].image |->
                                         Restore(snap[n].image[port])]]
    /\ applied' = [applied EXCEPT ![n] = snap[n].from]
    /\ starting' = [starting EXCEPT ![n] = DOMAIN snap[n].image]
    /\ base' = [base EXCEPT ![n] = snap[n]]
    /\ UNCHANGED <<raftVars, half, stuck, disk, kills>>

-----------------------------------------------------------------------------
Fsm(n) == Apply(n) \/ ApplyHalf(n)
Boot(n) ==
    \/ FirstStart(n) \/ Join(n) \/ JoinFails(n) \/ AddConfig(n)
    \/ RestartEmpty(n) \/ Restart(n)

Next ==
    \E n \in Nodes :
      \/ Propose(n) \/ RegisterToProxy(n)
      \/ Fsm(n) \/ Boot(n) \/ Kill(n)
      \/ Snapshot(n) \/ Persist(n) \/ PersistFails(n)
      \/ \E port \in Ports :
           \/ Closed(n, port) \/ Start(n, port)
           \/ EncodePaths(n, port) \/ EncodeRest(n, port)
           \/ \E p \in UrlPrefixes : ServeHTTP(n, port, p)

Spec == Init /\ [][Next]_vars

(* A node that runs applies what has been committed, and one that has      *)
(* ended is started again.                                                 *)
FairSpec == Spec /\ \A n \in Nodes : WF_vars(Fsm(n) \/ Boot(n))

-----------------------------------------------------------------------------
(* Properties.                                                             *)

IsProxy(x) ==
    /\ DOMAIN x = DOMAIN NewHttpReverseProxy
    /\ IsMap(x.mapping, Balancers) /\ IsMap(x.static, BOOLEAN)
    /\ DOMAIN x.mapping \subseteq DOMAIN x.static
    /\ x.acl \subseteq Networks /\ x.available \in BOOLEAN
    /\ x.limiters \subseteq UrlPrefixes /\ x.records \subseteq UrlPrefixes
    /\ x.shutdown \in {"open", "taken", "nil"}

IsTable(t) == DOMAIN t \subseteq Ports /\ \A port \in DOMAIN t : IsProxy(t[port])

(* The tables have the types of the Go structures, and no node has applied *)
(* more than there is, restarts included.                                  *)
TypeOK ==
    /\ log \in Seq(EntryType)
    /\ members \subseteq Nodes /\ status \in [Nodes -> Statuses]
    /\ applied \in [Nodes -> 0 .. Len(log)]
    /\ stuck \in [Nodes -> BOOLEAN]
    /\ starting \in [Nodes -> SUBSET Ports]
    /\ \A n \in Nodes : IsTable(table[n]) /\ half[n] \in EntryType \cup {NoEntry}

(* The ports of which the log alone decides: not those of the              *)
(* configuration files, and not those a CLOSE has been committed for.       *)
Replicated ==
    {port \in Ports :
       /\ \A n \in Nodes : port \notin DOMAIN Config[n]
       /\ \A i \in DOMAIN log : log[i].op = "CLOSE" => log[i].port # port}

(* The node has applied at least what its image held.                      *)
CaughtUp(n) == /\ Runs(n) /\ half[n] = NoEntry
               /\ base[n] # NoImage => applied[n] >= base[n].to

(* None of the first i entries, those for a port, ends a node that has     *)
(* never been restored.                                                    *)
Sound(port, i) ==
    \A j \in 1 .. i :
      log[j].port = port => /\ ~NilProxy(ideal[j], log[j])
                            /\ Outcome(ideal[j], log[j]).end # "panic"

(* What the nodes agree on: the algorithm of every prefix and the black    *)
(* list always; the hosts unless a change of algorithm is applied twice,   *)
(* which may meet the hosts of one moment with the algorithm of another,   *)
(* or a removal, which may change their order, or a restored node, whose   *)
(* rings are rebuilt, gets past an entry that ends the others; the static  *)
(* flags unless one is inverted twice, or a prefix is added that has been  *)
(* removed by the time of the image; and whether the proxy is available    *)
(* unless Restore has started it.                                          *)
Same(n, port, x, y) ==
    /\ BalancerType(x) = BalancerType(y)
    /\ x.acl = y.acl
    /\ /\ Twice(n) \cap {"CHG_LB", "RMV_HTTP_PROXY_HOST"} = {}
       /\ base[n] # NoImage => Sound(port, applied[n])
       => Paths(x) = Paths(y)
    /\ Twice(n) \cap {"CHG_STATIC", "ADD_HTTP_PROXY_PREFIX"} = {}
       => x.static = y.static
    /\ base[n] = NoImage => x.available = y.available

(* A node has the tables the log says, however often it has been killed    *)
(* and from whatever mixture of fields it has been restored, once it has   *)
(* applied what its image held (raft_test.go: leader and followers have    *)
(* the same hosts).                                                        *)
ReplicasAgree ==
    \A n \in Nodes : CaughtUp(n) =>
      LET t == ideal[applied[n] + 1] IN
      \A port \in Replicated :
        /\ port \in DOMAIN table[n] <=> port \in DOMAIN t
        /\ port \in DOMAIN t => Same(n, port, table[n][port], t[port])

(* The FSM of a node is about to panic.                                    *)
Doomed(n) ==
    /\ Idle(n) /\ applied[n] < Len(log)
    /\ LET e == log[applied[n] + 1] IN
       NilProxy(table[n], e) \/ Outcome(table[n], e).end = "panic"

(* The operations the state manager appends without the check they need.   *)
Unchecked == {"ADD_HTTP_BLACK_LIST", "RMV_HTTP_BLACK_LIST", "ADD_HTTP_PROXY_HOST",
              "RMV_HTTP_PROXY_HOST"}

(* What has been checked does not end the process of a node, restored or   *)
(* not, that has applied what its image held: there the FSM panics only    *)
(* for an operation that is not checked, an unknown algorithm or type of   *)
(* prefixer, a speed of 0, tables that had not caught up when they were    *)
(* checked, or a proxy that a committed CLOSE takes away.                  *)
PanicCauses ==
    \A n \in Nodes : Doomed(n) /\ CaughtUp(n) =>
      LET e == log[applied[n] + 1] IN
      \/ e.op \in Unchecked \/ ~e.fresh
      \/ e.algo \notin factories \/ ~e.legal
      \/ e.port \notin Replicated

(* What stops the FSM goroutine of a node, and that it stops for good: it  *)
(* waits for the lock of its own proxy (SET_RATE_LIMITER of a URL without  *)
(* limiter), for a receiver that has gone (CLOSE), or for a ring whose     *)
(* read lock a request of this node has taken; and whatever requests,      *)
(* Start and the closing of proxies do meanwhile, the call that waits      *)
(* would wait again, as long as its proxy is there (one of the             *)
(* configuration file may take the place of one that has been closed).     *)
StuckForEver ==
    \A n \in Nodes : stuck[n] =>
      /\ Runs(n) /\ applied[n] < Len(log)
      /\ LET e == log[applied[n] + 1] IN
         /\ \/ e.op \in {"SET_RATE_LIMITER", "CLOSE"}
            \/ /\ e.op \in {"ADD_HTTP_PROXY_HOST", "RMV_HTTP_PROXY_HOST"}
               /\ <<n, e.port, e.prefix>> \in Traffic
         /\ e.port \in DOMAIN table[n] \ DOMAIN Config[n]
              => Outcome(table[n], e).end = "blocks"

(* A node that cannot get on: its FSM waits for ever, the next entry ends  *)
(* its process, or the image it starts from does.                          *)
Blocked(n) == \/ stuck[n] \/ Doomed(n)
              \/ half[n] # NoEntry /\ half[n].algo \notin factories
              \/ snap[n] # NoImage /\ RestorePanics(snap[n].image)

(* Every node that has joined applies every entry that is committed,       *)
(* unless a node is blocked, or never gets past the join that start.go     *)
(* makes it repeat at every start.                                         *)
CatchesUp ==
    \/ []<>(\A n \in members : applied[n] = Len(log) \/ \E m \in Nodes : Blocked(m))
    \/ \E n \in Nodes \ {Seed} : []<><<JoinFails(n)>>_vars

=============================================================================
