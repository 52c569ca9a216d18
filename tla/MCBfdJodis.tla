----------------------------- MODULE MCBfdJodis -----------------------------
(* Instances of BfdJodis for TLC. *)
EXTENDS BfdJodis, TLC

CONSTANTS a1, a2, a3

\* Every node stands for one proxy.
OneAddrEach == 1 :> {a1} @@ 2 :> {a2}
ThreeAddrs == 1 :> {a1} @@ 2 :> {a2} @@ 3 :> {a3}
Symmetry == Permutations(Threads)
=============================================================================
