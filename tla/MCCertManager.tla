--------------------------- MODULE MCCertManager ---------------------------
(* Small instances of CertManager for TLC.                                 *)
EXTENDS CertManager, TLC

CONSTANTS web, api, k1

OneSlot == web :> k1
TwoSlots == web :> k1 @@ api :> k1

Symmetry == Permutations(State) \union Permutations(PrivKey)
            \union Permutations(Call)

\* An address no map or call refers to is as good as a fresh one, and what an
\* idle call was about does not matter any more.
View == <<now, cache, late, state,
          [a \in State |-> IF a \in FreeState THEN NewObject ELSE heap[a]],
          [c \in Call |-> IF pc[c] = "idle" THEN None
                           ELSE <<pc[c], tgt[c], ptr[c], resp[c]>>],
          removals, spawned, renewal>>
=============================================================================
