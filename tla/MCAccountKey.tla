---------------------------- MODULE MCAccountKey ----------------------------
(* Small instances of AccountKey for TLC: the calls of one Manager, and those *)
(* of two.                                                                   *)
EXTENDS AccountKey, TLC

CONSTANTS web, api, c1, c2, c3

BothOfWeb == c1 :> web @@ c2 :> web
AlsoOfAPI == BothOfWeb @@ c3 :> api

Symmetry == Permutations(Key)
=============================================================================
