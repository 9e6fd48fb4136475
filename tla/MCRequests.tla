----------------------------- MODULE MCRequests -----------------------------
(***************************************************************************)
(* Requests for TLC.                                                       *)
(***************************************************************************)
EXTENDS Requests, TLC

CONSTANTS c1, c2

\* One client makes a surface and two buffers, or less; the other one each.
MCMaxId == c1 :> 3 @@ c2 :> 2

\* The last request is read by the properties of steps only.
MCView == <<conns, objs, nextId, surf, buf, open, told, ub>>

MCSymmetry == Permutations(Surfaces) \cup Permutations(Buffers) \cup Permutations(Fds)
=============================================================================
