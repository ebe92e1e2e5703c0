---------------------------- MODULE MCRadixTree -----------------------------
(* Networks of three-bit addresses for RadixTree.                          *)
EXTENDS RadixTree

(* The host part of a canonical network address is zero.                   *)
Canonical(net) == \A i \in (net.len + 1) .. Bits : net.addr[i] = 0

(* Nested networks on both sides of the root, the whole range included.    *)
MCNets == {net \in NetType :
             /\ Canonical(net)
             /\ \/ net.len = 0
                \/ net.addr = <<0, 0, 0>> /\ net.len \in {1, 3}
                \/ net.addr = <<0, 0, 1>>
                \/ net.addr = <<1, 1, 0>> /\ net.len = 2}
=============================================================================
