------------------------------- MODULE Lists --------------------------------
(***************************************************************************)
(* The intrusive lists of src/util/isz_list.h, as the sequences of their   *)
(* nodes.  Removals and selections are by position and not by a recursive  *)
(* filter, so that the proofs can reason about them.                       *)
(***************************************************************************)
EXTENDS Naturals, Sequences, FiniteSets

\* isz_list_remove, of the node at position i.
Unlink(l, i) == SubSeq(l, 1, i - 1) \o SubSeq(l, i + 1, Len(l))

\* The position of the linked node n.
Position(l, n) == CHOOSE i \in 1 .. Len(l) : l[i] = n

\* What a walk over l that takes the positions I collects.
Rising(g) == \A i, j \in DOMAIN g : i < j => g[i] < g[j]
Picked(l, I) == LET at == CHOOSE g \in [1 .. Cardinality(I) -> I] : Rising(g)
                IN  [i \in 1 .. Cardinality(I) |-> l[at[i]]]
=============================================================================
