------------------------------- MODULE MCSeat -------------------------------
(***************************************************************************)
(* Seat for TLC.  Surfaces, connections and descriptors are                *)
(* interchangeable; outputs are not, the first one being First.            *)
(***************************************************************************)
EXTENDS Seat, TLC

\* Of the approvals only the current ones matter.
MCView == <<now, live, sel, clip, consent, cap, open, [k \in CurrentKeys |-> approved[k]]>>

MCSymmetry == Permutations(Surfaces) \cup Permutations(Fds) \cup Permutations(Conns)
=============================================================================
