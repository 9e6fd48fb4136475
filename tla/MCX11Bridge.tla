---------------------------- MODULE MCX11Bridge ----------------------------
(* A TLC instance of X11Bridge: the id the clients choose. *)
EXTENDS X11Bridge

CONSTANT x1

\* The server never reads again what it stores of a surface no window holds,
\* and nothing follows a broken connection.
MCView == IF iszDead THEN <<windows>>
          ELSE <<windows, nextId, wire, srv.next, DOMAIN srv.objs,
                 [k \in DOMAIN srv.objs \cap Surfaces |-> srv.objs[k]]>>
=============================================================================
