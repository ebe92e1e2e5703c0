# A TLA+ verification of vermouth

vermouth is an HTTP reverse proxy written in Go. Prefixes of URLs are mapped to
sets of hosts behind a load balancer, with rate limiters, a black list of
networks, hosts that register themselves by gRPC or through ZooKeeper, and two
ways to keep the configuration: a snapshot file (*stand* mode) or a raft cluster
(*cluster* mode). The program is full of goroutines that share maps, so most of
what can go wrong depends on an order of steps that no test of the repository
exercises. This directory models those parts, checks them with TLC on small
instances and proves their safety with TLAPS for all of them.

Paths below are relative to `src/`. The file `PROJECT.json` maps every definition to
the lines it stands for, and lists runs, mutants, findings, hazards and theorems.

## 1. Inventory

| Part | State | Operations | Hard behaviour | What makes it correct |
|---|---|---|---|---|
| Load balancers, `balancer/` | list of hosts, ring of hashes, RWMutex | `Add`, `Remove`, `Balance` | `ConsistenceHash.Balance` never unlocks; removal from an empty ring panics | ring and list agree; no host twice |
| Prefix matcher, `prefix/` | map prefix -> balancer | `Add`, `Remove`, `MappingPath` | none of its own | longest prefix |
| HTTP reverse proxy, `vermouth/http_proxy.go` | persisted maps (`Paths`, `BalancerType`, `RateLimiterType`, `StaticMapping`), the prefixer, the limiters, one RWMutex | `AddPrefix`, `RemovePrefix`, `AddHost`, `RemoveHost`, `changeLb`, `SetRateLimit`, `ServeHTTP`, `Run`, `Close`, `Restore` | check and use under different locks, panics half way, self-deadlock | what is persisted is what is routed by; no host lost; requests end |
| State manager, `vermouth/vermouth_state_manager.go` | none | existence checks, then a proxy method or a raft entry | the check is stale when the method runs | the methods tolerate a stale check |
| Access control, `acl/radix_tree.go` | binary trie, free list, `Record` | add, delete, search | recycled nodes | the trie answers as the recorded networks |
| Rate limiter, `rate_limiter/` | a token bucket per URL | `Take`, `SetRate` | speed 0 | one limiter per URL |
| Stand mode, `vermouth/start.go` | snapshot file | cron snapshot, restore at start | file written beside running requests, kills at any point | a snapshot restores, to a state that agrees with itself |
| Proxy list, `vermouth/context.go` | map port -> proxy | add, run, close | create and close race; the entry is deleted by another goroutine | only its own entry is deleted |
| Leadership, `vermouth/start.go`, `rpc_server.go` | leader flag, write flag, gRPC server | election, end of leadership, `Listen`, `Stop` | unbuffered close channel, port still taken | gRPC and writes on the leader only |
| Service discovery, `discovery/` | known services, contexts, watches | `watchServices`, `watchNode`, event loop | watches fire between reads, services vanish, reads fail | the hosts found are the nodes there |
| Asynchronous logger, `logger/logger.go` | channel, worker, WaitGroup | log, `Flush`, `Fatal` | full channel, flush beside logging | nothing lost, order kept, flush has written |
| gRPC server, HTTP server | none | each handler calls the state manager | the above | the above |
| Raft cluster, `vermouth/cluster.go`, `context.go`, `log_entry*.go` | raft log, FSM, snapshots | append, `Apply`, `Snapshot`, `Persist`, `Restore` | checks at proposal and not at application, images encoded beside `Apply`, replay on restart, entries that panic or block, a join that is repeated at every start and fatal | every node has the tables the log says; every node that has joined catches up |
| Log files, `logger/file_logger.go` | open file, counters, archives | slicing by date, lines, size | archive names collide, a slicing that fails half way | no line lost; only the last message of a file passes the limit |
| 403 page, `static/403/script.js` | monitor text, its class, an index, a time line | load, frame, timer tick | frames and ticks interleave, libraries may be missing | text and font fit, both words come again |
| Configuration, client, generated code, dashboard bundle, utilities | - | - | - | - |

How they interact: the HTTP server and the gRPC server run each call in a
goroutine of its own. Both reach the proxy through the state manager, which checks
that a prefix or host exists *without* the proxy's lock and then calls a method
that takes it. Proxied requests (`ServeHTTP`) run in further goroutines and write
to the limiter tables. The cron job of stand mode encodes the exported fields by
reflection without any lock. ZooKeeper's watches end in a channel whose single
reader, `HandleNamespaceEvent`, calls the state manager. Raft reports changes of
leadership on a channel whose single reader starts and stops the gRPC server and
sets the write flag of the HTTP server.

## 2. Modules

| Module | Models | State -> code | Actions -> code |
|---|---|---|---|
| `Balancer` | both balancers as values | a record of `mode`, `hosts`, `keys`, `hashMap`, `rlocked` (the read lock that is never released) | `Build`, `Add`, `Remove`, `AfterBalance`; a panic is part of the result |
| `HttpProxy` | one proxy with its callers | one variable per field; `lock` is the proxy's mutex, held between steps only by a goroutine that will never release it; `pc`, `arg` are the goroutines | one action per handler of the servers (the unlocked check) and one per method of the proxy (the locked part) |
| `StandMode` | snapshot and restart around `HttpProxy` | `job`, the cron job's progress, the file and the process | `Open` truncates the file, `Encode` reads one field, `Write` writes, `Kill`, `StartEmpty`, `Restore`, `RestoreFails` |
| `RadixTree` | the black list | the trie with its free list, `Record`; `reused` is history: a freed node has been handed out again | `Add` (`insert`, with one `Hang` for each node it makes), `Delete` (`delete`, whose last loop is `Climb`), `Restore` (`Rebuild`) |
| `ProxyList` | the table of proxies and their life | `HttpReverseProxyList`, the bound `socket` of each port, `waiter` (the goroutine of `Run`), the snapshot | `addHttpProxy`, `AddHttpReverseProxy`, `Run`, `changeProxyAvailable`, `Close`, `Shutdown`, `delete`, `Snap`, `Restart` |
| `LeaderNotify` | the notify loop of a cluster node | raft's `role` and pending `report`, `Leader`, `enableWrite`, the calls of `rpcServer.Start` and the owner of the port | `Elected`, `Deposed` (raft, external); of the loop `Receive`, then `BecomeLeader`, `OpenWrites` or `BecomeFollower`, `CloseWrites`, `CloseRpc`; `Listen`, `Stop` |
| `Discovery` | the ZooKeeper client and the event loop | the ZooKeeper tree and watches (external), the locals of the two kinds of goroutine, the event channel, the prefixes; `unread` is history: the nodes a turn could not read | one action per read, send, receive and wake-up |
| `Logger` | asynchronous mode | the channel, the WaitGroup, the worker, what is written | `writeMsg`, `send`, `Flush`, `signal`, `Wait`, `receive`, `writeToOutputs`, `flushOutputs`, `FatalPanics` |
| `Cluster` | the nodes of a cluster | `log` (external, committed entries), `members` (the raft configuration), and of each node `table` (the list of proxies), `applied`, `half` (inside `changeLb`), `stuck` (the FSM goroutine waits for ever), `enc` and `snap` (the image being encoded, the image on disk), `status`; `ideal`, `base`, `fresh` are history | `Propose`, `RegisterToProxy` (check on one node, append), `Apply`, `ApplyHalf`, `ServeHTTP`, `Closed`, `Start`, `Snapshot`, `EncodePaths`, `EncodeRest`, `Persist`, `PersistFails`, `FirstStart`, `Join`, `JoinFails`, `AddConfig`, `Kill`, `RestartEmpty`, `Restart` |
| `FileLogger` | the file adapter | `file` and `archives` as lists of messages with the lines where they begin, `fw` (the FileWriter), the clock | `writeMsg` (the whole of `writeByConfig` under its lock), `Flush`, `Restart`, `Tick` |
| `RoutingTable` | what a proxy promises about its routes | one table: prefix -> algorithm, hosts, static flag | `AddPrefix`, `RemovePrefix`, `AddHost`, `RemoveHost`, `ChangeStatic`, one prefix and one operation at a time |
| `ForbiddenPage` | the script of the 403 page | `libs`, `playhead`, `html`, `textClass`, `counter` | `Script`, `Frame`, `change` |
| `MCHttpProxy`, `MCStandMode`, `MCRadixTree`, `MCCluster` | instances | - | the requests, networks and commands of the runs |
| `BalancerProofs`, `HttpProxyProofs`, `RadixTreeProofs`, `DiscoveryProofs`, `LoggerProofs`, `FileLoggerProofs`, `ClusterProofs`, `NodeProofs` | proofs about the module of that name; `HttpProxyProofs` also those about `StandMode`, whose steps are the proxy's and its own; `NodeProofs` those about `LeaderNotify`, `ProxyList` and `ForbiddenPage` | - | - |

`HttpProxy` extends `Balancer`, and `StandMode` composes `HttpProxy` with the cron
job and the process: its next-state relation is the proxy's beside its own.
`Cluster` extends `Balancer` and composes the checks of the state manager, the log, the
FSM of every node and the proxies' methods, which are functions from a proxy to a proxy
and the way the call ends (`ok`, `panic`, `blocks`).

Refinement. `HttpProxy` instantiates `RoutingTable` with the table that snapshots persist
(for every prefix of `Paths` its hosts, its `BalancerType` and its static flag), which by
`RoutesAgree` is the one requests are routed by. `ImplementsTable` says that every step of
the proxy, of whichever goroutine and however far a panic let it get, is one operation of
that table or none: a prefix gets all of its route at once and only if it had none, a host
is listed once more only if it was not, and no step touches two prefixes. `changeLb`
implements it as a removal and an addition, which is why other calls can see the prefix
missing.

Conventions. A method that takes the proxy's lock once is one step, because no other
step of the model can observe its middle; a handler that checks first and locks
later is two. A panic keeps what had been assigned before it; net/http recovers it,
a panic of a gRPC handler or of a goroutine of the program's own ends the process
(`crashed`). Paths of URLs are sequences of segments, so that concatenation and
longest match are the code's. Messages, hosts and networks are otherwise opaque.
The index of the round-robin balancer is left out: whichever host is next, the
tables are the same.

## 3. What the runs show

| Run | Configuration | Result |
|---|---|---|
| `routes` | two goroutines, one prefix, thirteen requests: every administration and gRPC call, both algorithms and one that does not exist | `RoutesAgree`: the persisted tables equal the prefixer's after every step, also after a panic half way. `HostsKept`: a host leaves a mapped prefix through a `RemoveHost` for it only. `LockLost`: the proxy's lock is lost for ever in two cases only, named by the property. `ImplementsTable`: the refinement |
| `requests` | proxied requests against administration of prefix, hosts and limiters, round-robin | `NoDuplicateHosts`: with `PlainRequests`, which these are, no balancer lists a host twice; `RecordsBounded`: a URL has at most one limiter record per goroutine, unless its limiter is deleted as that of another prefix (`Kept`); `RequestsEnd`: every request ends unless the lock or the process is lost |
| `stand` | snapshots field by field, kills at any point, restarts | `RoutesAgree` holds after a restart from any mixture of old and new fields, the fields of every complete file have their types, and `RatesRecorded`: a URL is limited by a rate that is recorded for it and can come back, unless another prefix shares its limiter (`Sole`) |
| `stand_torn` | the same, additions and removals | **violated** `SnapshotRestorable` |
| `acl` | five nested networks of 3-bit addresses, any order of additions, deletions, restarts | `ExactUntilReuse`: the trie gives the longest recorded network for all eight addresses, until a freed node is used again. The networks have one name each (`OneName`) |
| `roles` | four leaderships, with fairness | `RpcOnlyOnLeader`, `OneServer`; `DeposedStopsWriting`: a deposed node closes for writes, though raft may report again between any two steps of the loop; `ChangesRead`: every reported change is read, unless a `Start` found its port taken |
| `proxies` | two administrators, two ports, two proxies each, one restart | `OwnEntryDeleted`, although `delete` of the code does not look at what it deletes; `ClosedLeaves` |
| `discovery` | two services, one node each, five changes of ZooKeeper, vanishing services and failing reads of services and of nodes | `ContextThere`, `ComesToRest`; `HostsFound`: at rest, the nodes of a watched service are its hosts, but those the last turn could not read |
| `logger` | two goroutines, three messages each, a channel of two, two flushes | `InOrder`, `FlushWrites`, `LogReturns` |
| `cluster` | two nodes, three entries of eight kinds (a proxy, a prefix, a host, a change of algorithm, a removal, a close, a rate, a black list), the proxy and the rate also illegal (unknown type of prefixer, speed 0); joins that succeed or fail; one node with traffic, a snapshot and a kill, the other with a proxy of its own in its configuration file; fairness | `ReplicasAgree`: a node that has applied at least what its image held has the tables the log says (algorithms and black lists always, hosts and flags with the exceptions `Same` names). `PanicCauses`: the FSM of such a node, restored or not, panics for known causes only. `StuckForEver`: an FSM goroutine waits for one of three known causes, and nothing that happens meanwhile lets its call through. `CatchesUp`: every node that has joined applies every entry, unless some node is blocked in one of four known ways or the join a node repeats at every start fails again and again |
| `files` | slicing by day, by lines and by size at once, four messages of one or two lines over six moments, one restart, two failing calls | `LinesKept`, `LineLimit`, `DaysApart` |
| `page` | libraries loaded or not, frames that skip any part of the time line | `FontFits`, `Alternates` |

Each property of a passing run has a mutant in `PROJECT.json`: an alternative
definition, kept in the module beside the original, that stands for a plausible bug and
makes TLC find a violation under the same configuration.

### What the properties leave out, and why

The exceptions are those of the code. For any other parameters than those of a run the
proofs need them, and each was met as a step that the proof could not take.

* `PlainRequests` (`HttpProxy`): `changeLb` reads the hosts without copying them, and
  `RoundRobin.Remove` compacts that array in place. A removal between the reading and the
  addition leaves a list in it that has a host twice. A request that lists a host twice gets
  it twice.
* `OneName` (`RadixTree`): `Record` keeps networks by the text they were given by, the tree by
  their masked bits. `10.0.0.1/8` and `10.0.0.2/8` are two records and one node: deleting one
  switches off the other, and the node answers with the name that came last.
* `Kept`, `Sole` (`HttpProxy`): limiters are kept in one map, by the concatenation of prefix
  and path. `RemovePrefix` deletes the limiter whose key is the prefix, which may be the key
  of a URL of a shorter prefix: its next request misses and is recorded again. And two
  prefixes one of which begins with the other share the limiters of their common URLs, but
  not the records.
* `Same` (`Cluster`): a restored node applies some entries twice. That is harmless for the
  algorithm of a prefix and for the black list, which depend on the last entry that writes
  them. A static flag that is inverted, or reset by a repeated `ADD_HTTP_PROXY_PREFIX`, may
  differ; so may the order of the hosts after a repeated removal, and the hosts after a
  repeated `CHG_LB`. A ring that has been rebuilt from its hosts may also survive an
  `RMV_HTTP_PROXY_HOST` that ends the nodes that have not been restored (`Sound`).
* `HostsFound` (`Discovery`): `watchNode` skips a node whose `Get` fails or whose data cannot
  be parsed, and nothing reads it again before the children of its service change. `unread`
  has these nodes.
* `LineLimit` (`FileLogger`): the limit is compared before the write and a message may have
  several newlines (raft's log lines have two), so a file may pass it by the rest of its last
  message.
* `PanicCauses` (`Cluster`): neither the HTTP server nor the state manager looks at the
  speed of a limiter or the type of a prefixer, so entries may be illegal (`legal`).
* `CatchesUp` (`Cluster`): every node but the founder joins again at every start, by the
  address in its configuration file. When the node there is no longer leader, the join
  fails, `Fatalf` ends the process, and so does the next start.
* `DeposedStopsWriting` (`LeaderNotify`) is a liveness property: between the receive and
  `SetWriteFlag` raft may report again, so no bound on the lag of the flag holds.

### Bounds and why they are enough

* Two goroutines (`Procs`, `Admins`, `Writers`): every race of this code is between the
  check of one call and the locked method of another; a third one repeats them. The
  proofs below cover any number where there is one.
* Two hosts, prefixes over two segments: enough for the first and the last host, for a
  prefix that matches and one that is longer than what is mapped.
* `MaxInfos`, `MaxKeys` bound lists that grow without limit when requests repeat: the
  action that would exceed them is not taken. `MaxInfos` is above the number of
  goroutines in `requests`, so that `RecordsBounded` could be exceeded.
* `MaxNodes = 8` holds all the networks of `acl` at once; a search follows more steps
  than there are nodes, which tells a loop from an end.
* `Starts` is the number of leaderships; a leadership that follows two others meets a
  stopping server and one that never listened.
* `MaxChanges` changes of ZooKeeper, after which it is quiet: `ComesToRest` and
  `HostsFound` are about what follows.
* `MaxLog = 3` in `cluster`: a proxy, a prefix and one command that meets them; a snapshot of
  index 1 (`MaxSnaps`), which is encoded beside the next two entries and after which both are
  replayed; a kill (`MaxKills`) at any point, besides the ends by a panic or a failed join,
  after which a restored node may end and be restored again. Only the first node has
  traffic, a snapshot and a kill, so the second one is what it is compared with. It founds the cluster and the second one joins through it, so joins
  fail when the first one is down, is still starting, or the answer is lost. Longer logs and
  a second snapshot, of a restored node, are more than TLC finishes with in time; the
  theorems about safety cover them.
* `PerDay = 4`, `MaxTime = 5` in `files`: two moments share a stamp on the clock of twelve
  hours, and the day changes; `MaxMsgs = 4` with sizes and lines of 1 and 2 reaches each kind of
  slicing, two of them in one call too. `MaxRuns = 2`, `MaxFaults = 2`.
* `End = 100`, `ScanAt = 62` in `page` are the 4 and 2.5 seconds of the time line in steps of
  40 milliseconds.
* `msgChanLen = 2` with six messages: the channel is full, and empty, with a flush
  pending.

Symmetry (`Permutations(Procs)`) is used in runs without liveness only; the goroutines
receive the same requests.

`CHECK_DEADLOCK FALSE` is set where the program may stop: a lost lock, a process that
has crashed, a bounded environment. `acl` checks deadlock.

### Fairness

* `HttpProxy`: weak fairness of every goroutine's steps. The Go scheduler is preemptive and
  a goroutine that can run is run. No fairness of arrivals. A goroutine that waits for a
  free lock needs no more than weak fairness: the lock is free between any two steps
  unless it is lost, and `sync.RWMutex` does not starve. A forwarded request ends because the
  transport waits five seconds for an answer.
* `ProxyList`: weak fairness of the goroutine that waits for the close token, whose
  `Shutdown` gives up after five seconds, and of a `Close` whose receiver is there. None of
  administrators, snapshots or restarts.
* `LeaderNotify`: weak fairness of the loop and of the calls of `Start`; none of elections.
* `Discovery`: strong fairness of the goroutines that send to the one event channel,
  because Go serves the senders that wait at a channel in the order of their arrival; weak
  fairness of its reader. None of changes of ZooKeeper.
* `Cluster`: for each node, weak fairness of its FSM goroutine or, when it is down, its start:
  raft hands committed entries to the FSM, and a process that has ended is started again
  by whoever runs it (without that nothing can be said about a node that is down). A join
  gets an answer, or fails; that it succeeds in the end is not assumed, which is the second
  part of `CatchesUp`. None of commands, snapshots or traffic.
* `ForbiddenPage`: weak fairness of the script, the frames and the timer, which the browser
  runs when they are due.
* `Logger`: strong fairness of sending for the same reason; weak fairness of the worker.

## 4. What is proved

`tlapm` checks these theorems for every value of the constants that satisfies the
assumptions named in the modules: any number of goroutines, nodes, hosts, prefixes, entries
and messages. The assumptions are that the special values (`NoProc`, `NoEvent`, `NoEntry`,
`NoFile`, `"services"`, `INF`, `ZeroSpeed`) differ from the others, that inputs have the
type of inputs, that there are finitely many goroutines or nodes, and that bounds are
numbers; a message has at least one newline. `MaxRuns > 0` says that the process runs at
all. Every safety property of a passing run is a theorem.

**Balancer** (`BalancerProofs`). Lemmas: what `Build`, `Add`, `Remove` (with a panic after any
number of removed replicas) and `Balance` return is a balancer again, which host lists and
which locks they leave, and how removal of the first occurrence changes the elements of a list.
`HttpProxyProofs` and `ClusterProofs` rest on them.

**HttpProxy** (`HttpProxyProofs`, from `BalancerAssumption` and `ProxyAssumption`).

* `TypeCorrect`, `RoutesAgreeHolds`, `HostsKeptHolds`. The invariant `IInv` is `DataInv`
  (types of the tables and `RoutesAgree`) and `CtrlInv`: a goroutine that is about to use
  its host has one. The latter is needed because `changeLb` replaces the list of hosts of
  its request, and an empty one at a label that reads the first host would have no value.
  There is one lemma for each group of actions; `RemoveHost` is the long one, since its
  slice operation may write into the list another goroutine's `changeLb` has read.
* `ImplementsTableHolds`, the refinement. The initial tables are the empty table. For each
  action a lemma names the one prefix it changes and the operation of `RoutingTable` the
  step is, or shows that it is none; a panic half way is one of the cases. `RoutesAgree` is
  what makes the persisted fields speak for the balancers that the actions read.
* `LockLostHolds`. Inductive with `RingsLocked`: only a ring has a read lock that is not
  given back. While the lock is lost, its owner does not move, and no other goroutine
  replaces the balancer it waits for.
* `NoDuplicateHostsHolds`. `OnceInv` adds that the list of every request is without
  repetitions, and that a goroutine in `changeLb` or before a removal comes from such a
  request, so that `PlainRequests` keeps them from meeting.
* `RecordsBoundedHolds`. The bound alone is not inductive: a goroutine at `create` will
  append a record. `CountInv` counts records and such goroutines together, and says that a
  limiter which is missing has no records; `PrefixInv` says that all prefixes are named by
  requests, which is where `Kept` comes in.
* `RatesRecordedHolds`, with `RateInv` for every URL whose key has one owner (lemma
  `SoleKey`).

**StandMode** (in `HttpProxyProofs`). `StandTypeCorrect`, `StandRoutesAgree`,
`StandRatesRecorded`, each for the specification with snapshots, kills and restarts. `SInv`
is the proxy's invariant with `JobInv`: the fields that the encoder has read have their
types, and a complete file is a snapshot. Nothing relates the fields of a file to each
other, for they are of different moments; that the tables agree after `Restore` is because
it builds the balancers from the `Paths` and the `BalancerType` that it restores, or panics.
`RestartInv` carries `RateInv` through `Restore`, which appends every record again and
installs the last one.

**RadixTree** (`RadixTreeProofs`, from `RadixAssumption`). `TypeCorrect` and
`ExactUntilReuseHolds`, for every length of addresses, every set of networks and every bound on
the nodes.

* The recursion. The loops of the code are recursive functions of the number of turns (`Walk`,
  `Extend`, `Climb`, `Rebuild`). A first group of lemmas shows that each has a value at every
  turn that follows from the one before (`WalkStep`, `ExtendStep`, `ClimbStep`, `RebuildStep`).
  What a loop computes is then an induction over turns. The theorems on induction take an
  operator, which the provers cannot instantiate, so the claim is put as a set: `UpTo` says
  that a set which has 0, and with each turn the next one, has all of them. It rests on least
  elements (`MinIsLeast`).
* `TypeOK` is inductive: a node of the free list comes back with any of its old pointers, but
  all of them are nodes or nil.
* `ExactUntilReuse` is not inductive, since equal answers say nothing of the shape of the
  trie. `IInv` adds, as long as no freed node has been used again, `Struct` and `Match`.
  `Struct` says that two different paths lead to two different nodes (`Apart`), that the
  parent pointer of a node is the node before it (`Parents`), that the node of the last bit
  has no children (`Leaves`), and that a node which has not been allocated is linked to
  nothing (`Fresh`). `Match` says that a path has a node exactly if it begins the path of a
  recorded network, and that the nodes with a value are those at which such a network ends.
* Insertion keeps `Struct` one `Hang` at a time (`HangStruct`), and `Grown` says what is there
  half way; the loop of `delete` keeps it one `Unlink` at a time (`UnlinkStruct`), with `Cut`.
  From these follows `Match` for the set with the network, or without it (`InsertMatch`,
  `DeleteMatch`). `Restore` inserts into an empty tree, network by network (`RebuildMatch`).
* `MatchIsExact` is the search: the last value on the path of an address is that of the
  longest recorded network around it. `Leaves` is why the path ends with the bits of the
  address, although `search` has no other end than a nil pointer.

**LeaderNotify** (`NodeProofs`, from `NotifyAssumption`). `TypeCorrect`,
`RpcOnlyOnLeaderHolds`, `OneServerHolds`, for any number of leaderships
and with or without either server. `RpcOnlyOnLeader` is not inductive: the invariant adds
that the flags and the pending report fit together (`LoopInv`), that the port belongs to the
call that serves or stops (`PortInv`), and that at most one call has not been told to stop
(`LiveInv`).

**ProxyList** (`NodeProofs`, from `ProxyListAssumption`). `ListTypeCorrect`,
`OwnEntryDeletedHolds`. A call that closes a proxy has read the table long before; the
strengthening `StaleCallsHarmless` says that the entry it has read is still there unless the
waiter of that proxy has returned, and `NewProxies` that a proxy is run only once.

**ForbiddenPage** (`NodeProofs`, from `PageAssumption`). `FontFitsHolds`, for every time line.
`FontFits` is not inductive: the class is a toggle, the word an index. `PageIInv` says that
the monitor is in one of three states (`Blank`, `Long`, `Short`), each of which fixes the
word, the class and the counter.

**Discovery** (`DiscoveryProofs`, from `DiscoveryAssumption`). `TypeCorrect`,
`ContextThereHolds`, `HostsFoundHolds`. `ContextThere` needs `AddedInv`: between making a
context and starting its goroutine nobody else knows the service. `HostsFound` is about
states at rest, and follows from an invariant about all the others: while the watch of a
service has not fired, each of its nodes is still to be read, could not be read, has been read, is still to be
sent, is on its way to the handler or is a host (`FoundInv`), and the prefix of a goroutine
with a live context is there or announced, with no removal on its way (`PrefixInv`,
`RemovedInv`).

**Logger** (`LoggerProofs`, from `LoggerAssumption`). `TypeCorrect`, `InOrderHolds`,
`FlushWritesHolds`. `WgInv` ties the WaitGroup to the channel: it counts the goroutines
before their send, the messages in the channel and the one the worker has taken. So a `Wait`
that returns has seen an empty channel, and by `InOrder` all that its caller logged is
written.

**FileLogger** (`FileLoggerProofs`, from `FileAssumption`). `TypeCorrect`, `DaysApartHolds`,
`LineLimitHolds`, `LinesKeptHolds`. One call may slice three times and fail in each, so the
invariants are predicates of an adapter as a value, which each slicing and the write keep.
`LineInv` says that an open writer has counted at least the lines of its file (it may have
counted more), and that no message begins at the limit; `DayInv` that the lines of this
process in the current file are of the day of `startTime`; `NameInv` which names archives have, so that a renaming overwrites nothing but
an archive of its own stamp; `PastInv` that a new line is new.

**Cluster** (`ClusterProofs`, from `BalancerAssumption` and `ClusterAssumption`).
`TypeCorrect`, `ReplicasAgreeHolds`, `PanicCausesHolds`, `StuckForEverHolds`, for any number
of nodes, any log, snapshots encoded beside `Apply`, kills and restarts at any moment. `IInv`
is `TypeInv` and `AgreeInv`. A restored node starts at the entry its image was begun at (a),
but parts of the image are as late as the entry at which the encoding ended (h). The tables are taken apart
into registers: a port, the algorithm and the hosts of a prefix, a network, a static flag.
Each is the result of the last entry that writes it, so `NodeInv` says of each: if no entry
after a and up to h writes it, it already has the value of the log at h; otherwise that
entry is still to come. Applying the next entry keeps this, whatever the state of the other
registers; at a = h it says that the node agrees with the log. The encoder and the file on
disk have the same invariant (`EncAgrees`, `SnapAgrees`), which is how it survives a kill
and a restart. `IsHistory` ties the history variable `ideal` to the log, `Keeps` says that a
register only changes by an entry that writes it, and `FreshPasses` that an entry which was checked on
tables that had caught up finds the proxy and the prefix it needs; with a known algorithm and
a legal body it then ends no node. A join changes `members` and `status` only, of which the
registers know nothing; one that fails ends the process as a kill does.
`StuckForEver` has an invariant of its own, `BlockInv`: a ring whose read lock is lost has
been asked by a request of the same node since it was built (`Ring`: applying an entry,
`Restore` and the configuration file only ever make rings that are free), and a node that
waits still has the proxy it waits for in the state in which the call blocks (`Waiting`).
`BlockingIs` lists the calls that block. The second part needs the lock: a request that
created a limiter without it would create the one whose absence stops `SetRateLimit`
(`ServedBlocks`).

**Only model-checked.**

* The liveness properties `RequestsEnd`, `ClosedLeaves`, `ComesToRest`, `LogReturns`,
  `ChangesRead`, `DeposedStopsWriting`, `CatchesUp`, `Alternates`: the prover does no fairness.
* `SnapshotRestorable` does not hold.

## 5. What is not modelled

* Raft itself: elections, replication and the choice of what is committed are external,
  `log` is the committed sequence. Servers join the configuration and never leave it (no
  code removes one), and a snapshot that raft sends to a running follower, which calls `Restore` on live
  tables, is left out. `RMV_HTTP_PROXY` has a handler and nothing appends it.
* The dashboard (`static/static/js`): a minified bundle whose sources are not in the
  repository. The page of `/403/` is modelled; nothing in the Go code sends a client there,
  the HTTP server serves the directory.
* What a forwarded request carries (`httputil.ReverseProxy`; forwarding itself is a step
  without locks that ends), when a token bucket is empty (a library; `Take` may always
  refuse), cron, JSON and TOML decoding: external, modelled by their effect where the code
  uses them.
* In `Cluster`: `EncodeRest` reads all fields but `Paths` in one step (`StandMode` reads them
  one by one); `Traffic` are proxied requests, and the gRPC `LoadBalance`, which also takes
  the read lock of a ring and no limiter, has no action of its own; entries have at least
  one host, so the prefix without hosts that discovery appends
  (`vermouth/vermouth_state_manager.go:238`) is only in `Discovery`.
* The search of the black list runs without a lock beside an update
  (`vermouth/http_proxy.go:186`, `:196`): in `RadixTree` each operation is one step.
* What the script of the 403 page makes of the user agent (section 7).
* The console log adapter only prints. The Go client wraps the generated stubs.
* `vermouth/server_channel.go`, `vermouth/snapshot.go` and `HandleNamespaceEvent` of the
  proxy have no caller.
* Handlers that only report, the client, generated code and utilities keep no state.
* The data races of unsynchronised Go maps: where the runtime detects one it ends the
  process. `Discovery` has this as `ConcurrentMapWrites`; in `StandMode` an encoder that
  meets a map being written has the effect of `Kill`; `HttpProxy` alone does not have it.

## 6. Assumptions about the environment

Go channels are FIFO with the blocking behaviour of the language, mutexes exclude, a
write lock that waits stops new readers, and a deferred unlock runs on a panic. A file is
truncated when it is opened for writing and its content is there after one write.
Raft reports each change of leadership once and in order. ZooKeeper's watches fire
once, for the change after the read that armed them.

## 7. Where the code and its words disagree

One disagreement is kept as a run that finds a violation.

* `stand_torn` (`vermouth/start.go:160`): a snapshot taken without a lock can hold a prefix
  in `Paths` and not in `BalancerType`; every start panics on it.

Others were met while modelling. The models have the behaviour, and properties that
hold are stated around it.

* Two registrations of a new prefix race (`vermouth/rpc_server.go:55`): the second host is
  dropped and its caller is told success.
* A leadership that finds the port still taken leaves nobody at the close channel, and the
  notify loop blocks there at its end (`vermouth/start.go:89`), the exception of
  `ChangesRead`.
* The check for the host in `removeHttpProxyHost` is inverted
  (`vermouth/vermouth_state_manager.go:60`), so nodes that ZooKeeper reports offline stay.
* The same inverted check refuses `Cancel` of a listed host; `client/client_test.go:13`
  expects it to work.
* `ConsistenceHash.Balance` returns with its read lock held; the next change of the hosts
  waits for ever with the proxy's lock, the second case of `LockLost`.
* `SetRateLimit` without a limiter calls `createRateLimiter` with the lock held, which locks
  again (`vermouth/http_proxy.go:429`), the first case of `LockLost`.
* A proxied request creates a default limiter over one that was configured meanwhile
  (`vermouth/http_proxy.go:228`); `SetRateLimit` changes the first record of a URL,
  `Restore` takes the last.
* `changeLb` reads the hosts and adds them in two steps (`vermouth/http_proxy.go:488`): what
  is added or removed between them is undone or repeated.
* A kill between the truncation and the write of the snapshot leaves an empty file
  (`vermouth/start.go:171`), and the configuration is lost.
* A registration that races a removal calls a nil balancer and ends the process.
* A freed node of the trie that is used again keeps its old children: addresses that are not
  listed are refused, a search may loop, and networks alias each other.
* An election before the HTTP server is there dereferences nil (`vermouth/start.go:77`).
* Two `addHttpProxy` of one port leave a server that is not in the table, and a proxy
  restored from a snapshot cannot be closed, since its channel is nil.
* `ADD_HOST` after `REMOVE_SERVICE` panics; a service that comes back before its old
  goroutine has seen the cancellation is not watched; a failed `ChildrenW` ends the search
  for hosts of that service until its next change.
* `Fatal` panics before the asynchronous worker has written its message
  (`logger/logger.go:375` says that in asynchronous mode everything is output first).
* `Flush` of the asynchronous logger ends its worker: what is logged afterwards stays in the
  channel, log calls block once it is full, and a second `Flush` never returns. Nothing in
  the program calls `Async`, so the default, synchronous mode is not affected.
* Cluster mode. `ADD_HTTP_PROXY_HOST` for a prefix that is not mapped, and a black list
  entry for a port that is not there, pass the checks and panic in `Apply`, on every node
  and again at every replay. A snapshot with a black list entry panics in `Restore`
  (`vermouth/context.go:152` adds to a tree whose root is nil), although line 147 says that
  the entries have to be added back. Proxies of the configuration file are not in the log,
  and are not there after a restart before the first snapshot. `CLOSE` of a restored proxy
  and `SET_RATE_LIMITER` on a node without traffic on that URL stop the FSM goroutine for
  ever. An image that holds part of later entries makes their replay invert a static flag
  twice, or meet the hosts of one moment with the algorithm of another; with a removed
  prefix `Restore` panics as in stand mode. `Restore` starts proxies that had been stopped.
* Speed 0 for a limiter that is there, and an unknown type of prefixer, pass all checks and
  end every node that applies the entry, again at every replay (`vermouth/http_proxy.go:443`,
  `:56`). A follower that restarts after the leader has moved from its `LeaderAddress` ends
  (`vermouth/start.go:41`). A node whose first join fails never reads its configuration file.
* A node of a watched service that cannot be read once has no host until another node comes
  or goes (`discovery/zookeeper_client.go:174`).
* The file logger counts one line more than a file has, lets a message of several lines pass
  the limit, slices by the day where the
  configuration says by the hour, overwrites archives of the same stamp, and is dead until
  the next restart when a new file cannot be created or opened.
* The 403 page takes the `Version/` of an Android web view for that of Chrome, Edge on
  Chromium (`Edg/`) for Chrome, and Chrome and Firefox on iOS (`CriOS/`, `FxiOS/`) for
  Safari.

## 8. Plan

Done: the proxy and its callers, the routing table it implements, stand mode, the black
list, the proxy list, leadership, discovery, the logger and its files, the cluster, the 403
page; the proofs of section 4.

Not done: what the trie answers once a freed node has been used again. Nothing in the code
or its documents says what it should; that it stays within its types is proved.
