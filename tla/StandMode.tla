----------------------------- MODULE StandMode ------------------------------
(***************************************************************************)
(* A node in stand mode: the proxy of HttpProxy, the cron job that writes  *)
(* its exported fields to <name>_stand.json, and restarts.                 *)
(*                                                                         *)
(* The job truncates the file, encodes the fields one after the other      *)
(* without any lock, and the encoder hands its buffer to the file at the   *)
(* end. The process may be killed at any time. A restart decodes the file  *)
(* and runs HttpReverseProxy.Restore before any server is started, so it   *)
(* is one step; a panic in it ends the process again.                      *)
(*                                                                         *)
(* With a file that does not decode the node starts without proxies. The   *)
(* one modelled here is then the one addHttpProxy creates: it is empty.    *)
(***************************************************************************)
EXTENDS HttpProxy

CONSTANTS
    NoFile,     \* there is no snapshot file
    Truncated   \* the file is there and empty

VARIABLES
    disk,       \* the snapshot file
    snap,       \* the fields the encoder has read
    field       \* the next field it reads; 0 when the job is not running

job       == <<disk, snap, field>>
standVars == <<vars, job>>

(* Mutant: a field is not exported.                                        *)
FieldOrderNoState == <<"Paths", "BalancerType", "RateLimiterType", "StaticMapping">>

(* The order of the exported fields of HttpReverseProxy; PrefixerType and  *)
(* Port never change, and Acl has its own module.                          *)
FieldOrder == <<"Paths", "BalancerType", "RateLimiterType", "StaticMapping",
                "Available">>

Value(name) == CASE name = "Paths"           -> Paths
                 [] name = "BalancerType"    -> BalancerType
                 [] name = "RateLimiterType" -> RateLimiterType
                 [] name = "StaticMapping"   -> StaticMapping
                 [] name = "Available"       -> Available

StandInit ==
    /\ Init
    /\ disk = NoFile /\ snap = <<>> /\ field = 0

-----------------------------------------------------------------------------
(* The cron job of snap: create or truncate the file, encode, write.       *)

Open ==
    /\ ~crashed /\ field = 0
    /\ disk' = Truncated
    /\ snap' = <<>>
    /\ field' = 1
    /\ UNCHANGED vars

Encode ==
    /\ ~crashed /\ field \in 1 .. Len(FieldOrder)
    /\ snap' = Put(snap, FieldOrder[field], Value(FieldOrder[field]))
    /\ field' = field + 1
    /\ UNCHANGED <<vars, disk>>

Write ==
    /\ ~crashed /\ field > Len(FieldOrder)
    /\ disk' = snap
    /\ field' = 0
    /\ UNCHANGED <<vars, snap>>

-----------------------------------------------------------------------------
Kill ==
    /\ ~crashed
    /\ crashed' = TRUE
    /\ UNCHANGED <<routes, limits, Available, lock, pc, arg, job>>

(* The process of a restart, before the tables are filled.                 *)
FreshProcess ==
    /\ crashed
    /\ crashed' = FALSE
    /\ lock' = NoProc
    /\ pc' = [q \in Procs |-> "idle"]
    /\ arg' = [q \in Procs |-> NoRequest]
    /\ snap' = <<>> /\ field' = 0
    /\ UNCHANGED disk

StartEmpty ==
    /\ disk \in {NoFile, Truncated}
    /\ FreshProcess
    /\ Paths' = <<>> /\ BalancerType' = <<>> /\ StaticMapping' = <<>>
    /\ RateLimiterType' = <<>> /\ Available' = TRUE
    /\ prefixMapping' = <<>> /\ rateLimiters' = <<>>

(* The algorithm AddPrefix is called with: "" for a prefix that the map    *)
(* BalancerType of the file does not have.                                 *)
Algo(d, p) == Get(d.BalancerType, p, "")

RestorePanics(d) ==
    \/ \E p \in DOMAIN d.Paths : Algo(d, p) \notin factories
    \/ \E p \in DOMAIN d.RateLimiterType :
         \E i \in DOMAIN d.RateLimiterType[p] : SetRatePanics(d.RateLimiterType[p][i].rate)

(* Mutant: the prefixes of BalancerType are restored.                      *)
RestoredMappingByType(d) ==
    [p \in DOMAIN d.BalancerType |-> Build(Algo(d, p), Get(d.Paths, p, <<>>))]

RestoredMapping(d) == [p \in DOMAIN d.Paths |-> Build(Algo(d, p), d.Paths[p])]

RestoredStatic(d) == [p \in DOMAIN d.Paths \cup DOMAIN d.StaticMapping |->
                        Get(d.StaticMapping, p, FALSE)]

(* createRateLimiter is called for every record, and appends it again.     *)
RestoredInfos(d) == [p \in DOMAIN d.RateLimiterType |->
                       d.RateLimiterType[p] \o d.RateLimiterType[p]]

(* The limiters of one key: those of the last record of its URL, under any *)
(* of the prefixes the key may be split at; maps are read in any order.    *)
LastRate(infos, u) == infos[Max({i \in DOMAIN infos : infos[i].url = u})].rate

RecordedUrls(d) ==
    UNION {{<<p, d.RateLimiterType[p][i].url>> : i \in DOMAIN d.RateLimiterType[p]} :
              p \in DOMAIN d.RateLimiterType}

RestoredKeys(d) == {compeleteUrl(e[1], e[2]) : e \in RecordedUrls(d)}

(* Mutant: the limiter is created with the default rate.                   *)
RestoredRatesDefault(d, key) == {INF}

RestoredRates(d, key) ==
    {LastRate(d.RateLimiterType[e[1]], e[2]) :
       e \in {f \in RecordedUrls(d) : compeleteUrl(f[1], f[2]) = key}}

Restore ==
    /\ disk \notin {NoFile, Truncated}
    /\ ~RestorePanics(disk)
    /\ \A p \in DOMAIN disk.RateLimiterType : 2 * Len(disk.RateLimiterType[p]) <= MaxInfos
    /\ FreshProcess
    /\ Paths' = disk.Paths
    /\ BalancerType' = disk.BalancerType
    /\ StaticMapping' = RestoredStatic(disk)
    /\ Available' = disk.Available
    /\ prefixMapping' = RestoredMapping(disk)
    /\ RateLimiterType' = RestoredInfos(disk)
    /\ \E f \in [RestoredKeys(disk) -> Rates] :
         /\ \A key \in RestoredKeys(disk) : f[key] \in RestoredRates(disk, key)
         /\ rateLimiters' = f

(* The restart that panics leaves the file to the next one.                *)
RestoreFails ==
    /\ crashed
    /\ disk \notin {NoFile, Truncated}
    /\ RestorePanics(disk)
    /\ UNCHANGED standVars

-----------------------------------------------------------------------------
StandNext ==
    \/ Next /\ UNCHANGED job
    \/ Open \/ Encode \/ Write
    \/ Kill \/ StartEmpty \/ Restore \/ RestoreFails

StandSpec == StandInit /\ [][StandNext]_standVars

-----------------------------------------------------------------------------
Snapshot(d) ==
    /\ DOMAIN d = {"Paths", "BalancerType", "RateLimiterType", "StaticMapping",
                   "Available"}
    /\ IsMap(d.Paths, UrlPath, Seq(Hosts))
    /\ IsMap(d.BalancerType, UrlPath, Algos)
    /\ IsMap(d.StaticMapping, UrlPath, BOOLEAN)
    /\ IsMap(d.RateLimiterType, UrlPath, Seq([url : UrlPath, rate : Rates]))
    /\ d.Available \in BOOLEAN

(* The tables keep their types across restarts, and a file that has been   *)
(* written has every exported field of the proxy.                          *)
StandTypeOK ==
    /\ TypeOK
    /\ field \in 0 .. Len(FieldOrder) + 1
    /\ disk \notin {NoFile, Truncated} => Snapshot(disk)

(* Whatever the encoder saw of the calls that ran beside it, the file can  *)
(* be restored. start.go:160 says so: "a snapshot needs no stop-the-world, *)
(* no lock is needed to read the context".                                 *)
SnapshotRestorable ==
    disk \notin {NoFile, Truncated} => ~RestorePanics(disk)
=============================================================================
