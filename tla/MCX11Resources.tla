--------------------------- MODULE MCX11Resources ---------------------------
(* A TLC instance of X11Resources. *)
EXTENDS X11Resources

CONSTANTS x1, a1, t1, t2, s0, s1

\* No guard and no next state reads the answers to the last request, and only
\* InternAtom and GetAtomName read the atoms, which no property is about:
\* states that differ in those only are explored once.  The properties that
\* name the answers are about the step that gives them.
MCView == <<windows, tab, claims>>
=============================================================================
