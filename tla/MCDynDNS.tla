------------------------------ MODULE MCDynDNS ------------------------------
(* A small instance of DynDNS for TLC: a host, and the challenge of another. *)
EXTENDS DynDNS, TLC

CONSTANTS h1, t1, v4, v6

HostAndChallenge == {<<h1, t1>>, <<h1>>}
OneFamily == {{}, {v4}, {v6}}

Symmetry == Permutations(Update)
=============================================================================
