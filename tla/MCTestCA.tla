------------------------------ MODULE MCTestCA ------------------------------
(* A small instance of TestCA for TLC. *)
EXTENDS TestCA, TLC

CONSTANTS d1, d2

Symmetry == Permutations(Validation)
=============================================================================
