----------------------- MODULE MCRoundRobinCodisPool -----------------------
(* Instances of RoundRobinCodisPool for TLC. *)
EXTENDS RoundRobinCodisPool, TLC

\* No code orders proxies, users or addresses.
Symmetry ==
    Permutations(Proxies) \cup Permutations(Users) \cup Permutations(Clients)
=============================================================================
