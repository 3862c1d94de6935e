--------------------------- MODULE MCFileDatabase ---------------------------
(* Small instances of FileDatabase for TLC: one file of the database and one *)
(* of a DirCache.                                                            *)
EXTENDS FileDatabase, TLC

CONSTANTS txt, cert

Symmetry == Permutations(Req) \union Permutations(Value)
=============================================================================
