---------------------------- MODULE MCX11Stream ----------------------------
(* A TLC instance of X11Stream: the connections and what each may write. *)
EXTENDS X11Stream

CONSTANTS k1, k2, k3

MCLengths == (k1 :> {0, 2, 5}) @@ (k2 :> {3}) @@ (k3 :> {})
MCMaxReqs == (k1 :> 2) @@ (k2 :> 1) @@ (k3 :> 0)
=============================================================================
