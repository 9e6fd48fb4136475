------------------------------ MODULE MCRender ------------------------------
(* A TLC instance of Render.  Surfaces are interchangeable, and outputs are. *)
EXTENDS Render, TLC

\* One slot per output, for which surfaces compete.  The cursor slot takes
\* neither XRGB nor rotation, so a commit can be refused for either.
MCSlots == {3}
MCFormats == {"XRGB"}
MCBoolean == BOOLEAN
MCSymmetry == Permutations(Surfaces) \cup Permutations(Outputs)
=============================================================================
