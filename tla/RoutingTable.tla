---------------------------- MODULE RoutingTable ----------------------------
(***************************************************************************)
(* What a reverse proxy promises about its routes: a table of prefixes,    *)
(* each with an algorithm, a list of hosts and the static flag, that       *)
(* changes one prefix at a time and by one operation at a time. There are  *)
(* no locks, goroutines, balancers or second copies of the table.          *)
(***************************************************************************)
EXTENDS SequencesExt

CONSTANTS Hosts, Algorithms

VARIABLE table   \* prefix -> route

Routes == [algo : Algorithms, hosts : Seq(Hosts), static : BOOLEAN]

Init == table = <<>>

(* No other prefix changes.                                                *)
Only(p) ==
    \A x \in DOMAIN table \cup DOMAIN table' :
      x # p => x \in DOMAIN table /\ x \in DOMAIN table' /\ table'[x] = table[x]

Stays(p) == p \in DOMAIN table /\ p \in DOMAIN table'

(* A prefix gets a route only when it has none, all of it at once.         *)
AddPrefix(p) == p \notin DOMAIN table /\ p \in DOMAIN table' /\ table'[p] \in Routes

RemovePrefix(p) == p \in DOMAIN table /\ p \notin DOMAIN table'

(* A mapped prefix keeps its algorithm; a host that is listed already is   *)
(* not listed again.                                                       *)
AddHost(p) ==
    /\ Stays(p)
    /\ \E h \in Hosts \ ToSet(table[p].hosts) :
         table'[p] = [table[p] EXCEPT !.hosts = Append(@, h)]

RemoveHost(p) ==
    /\ Stays(p)
    /\ \E h \in ToSet(table[p].hosts) :
         table'[p] = [table[p] EXCEPT !.hosts = RemoveFirst(@, h)]

ChangeStatic(p) ==
    Stays(p) /\ table'[p] = [table[p] EXCEPT !.static = ~@]

Next ==
    \E p \in DOMAIN table \cup DOMAIN table' :
      /\ Only(p)
      /\ \/ AddPrefix(p) \/ RemovePrefix(p)
         \/ AddHost(p) \/ RemoveHost(p) \/ ChangeStatic(p)

Spec == Init /\ [][Next]_table
=============================================================================
