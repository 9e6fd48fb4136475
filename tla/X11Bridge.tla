------------------------------ MODULE X11Bridge ------------------------------
(***************************************************************************)
(* The bridge and the server it draws on: X11Client together with the      *)
(* server's end of the connection, as far as the bridge's messages reach   *)
(* it (isz_conn.c's object table and the handlers of isz_client_dispatch.c *)
(* that they select).  The bridge never reads an id from the server.       *)
(***************************************************************************)
EXTENDS X11Client, Folds, Functions, SequencesExt

VARIABLE srv   \* the server's end: its object table and counter

vars == <<cvars, srv>>

SrvInit == [next |-> 1, objs |-> << >>]

Exists(s, id) == id \in DOMAIN s.objs

Put(s, id, obj) == [s EXCEPT !.objs = [k \in DOMAIN @ \cup {id} |->
                                          IF k = id THEN obj ELSE @[k]]]

\* isz_handle_surface_create and isz_conn_register_object: the id in the
\* payload is not read.
SurfaceCreate(s) ==
    [Put(s, s.next, [z |-> 0, geom |-> None, plane |-> FALSE])
     EXCEPT !.next = @ + 1]

\* isz_handle_surface_destroy, isz_conn_unregister_object.
SurfaceDestroy(s, m) ==
    [s EXCEPT !.objs = [k \in DOMAIN @ \ {m.id} |-> @[k]]]

\* isz_handle_set_position, _set_size and the one-value setters.
SurfaceSet(s, m) ==
    LET o == s.objs[m.id] IN
      Put(s, m.id,
          CASE m.op = "geometry" -> [o EXCEPT !.geom = m.geom]
            [] m.op = "zpos" -> [o EXCEPT !.z = m.z]
            [] m.op = "plane" -> [o EXCEPT !.plane = TRUE])

\* isz_client_dispatch: a message that names no object is answered with an
\* error, which the bridge does not read.
Dispatch(s, m) ==
    CASE m.op = "create" -> SurfaceCreate(s)
      [] m.op = "destroy" /\ Exists(s, m.id) -> SurfaceDestroy(s, m)
      [] m.op \in {"geometry", "zpos", "plane"} /\ Exists(s, m.id) -> SurfaceSet(s, m)
      [] OTHER -> s

\* The server reads one message from the connection.
ServerReads ==
    /\ wire # <<>>
    /\ srv' = Dispatch(srv, Head(wire))
    /\ wire' = Tail(wire)
    /\ UNCHANGED <<windows, seq, nextId, iszDead, out>>

Init == ClientInit /\ srv = SrvInit

\* Bounds: at most WireBound messages under way; what follows a broken
\* connection, which reaches no server, is left out.
Next ==
    \/ /\ ~iszDead
       /\ \E c \in Clients : WindowRequest(c) \/ Connect(c) \/ Disconnect(c)
       /\ Len(wire') <= WireBound
       /\ UNCHANGED srv
    \/ ~iszDead /\ ForwardInput /\ UNCHANGED srv
    \/ ~iszDead /\ ServerReads

Spec == Init /\ [][Next]_vars

-----------------------------------------------------------------------------
\* The windows that hold a surface, as <<client, slot>>.
Holders ==
    {<<c, i>> \in Clients \X Slots :
        Open(c) /\ windows[c][i] # None /\ windows[c][i].surf # 0}

Held(h) == windows[h[1]][h[2]]

\* The server once it has read every message under way.
Settled == FoldLeft(Dispatch, srv, wire)

(***************************************************************************)
(* The server catches up with the bridge: reading the messages under way   *)
(* gives every window's surface exactly the position, size and stacking    *)
(* order the window has, and a plane once it was mapped; no two windows    *)
(* share a surface, and the two counters agree.  About                     *)
(* isz_client_send_surface_create counting ids on its own while            *)
(* isz_conn_register_object assigns them, and about every handler sending  *)
(* what it stores.                                                         *)
(***************************************************************************)
MirrorExact ==
    /\ \A g, h \in Holders : Held(g).surf = Held(h).surf => g = h
    /\ ~iszDead =>
        LET s == Settled IN
          /\ s.next = nextId
          /\ \A h \in Holders :
                /\ Exists(s, Held(h).surf)
                /\ LET o == s.objs[Held(h).surf] IN
                     /\ o.geom = Held(h).geom
                     /\ o.z = Held(h).z
                     /\ Held(h).out => o.plane

(***************************************************************************)
(* A window keeps its surface from its creation to its destruction, and    *)
(* while the connection to the server works DestroyWindow leaves no        *)
(* surface of a removed window behind: only a client that disconnects      *)
(* leaves its own.                                                         *)
(***************************************************************************)
Surfaces == {Held(h).surf : h \in Holders}

NoSurfaceLost ==
    [][ ~iszDead' /\ (\A c \in Clients : Open(c) => windows'[c] # None) =>
          /\ Surfaces \ Surfaces' =
                {m.id : m \in {wire'[i] : i \in {j \in DOMAIN wire' :
                                 j > Len(wire) /\ wire'[j].op = "destroy"}}}
          /\ \A h \in Holders :
                windows'[h[1]][h[2]] # None =>
                   \/ windows'[h[1]][h[2]].surf = Held(h).surf
                   \/ Held(h).surf \notin Surfaces' ]_vars

-----------------------------------------------------------------------------
(* The bridge's ids implement SurfaceIds.                                  *)

Creates(i) == Cardinality({j \in 1 .. i : wire[j].op = "create"})

Named == [i \in DOMAIN wire |->
            [op |-> IF wire[i].op \in {"create", "destroy"} THEN wire[i].op ELSE "use",
             id |-> wire[i].id, n |-> srv.next + Creates(i - 1)]]

Ids == INSTANCE SurfaceIds WITH
           held <- Surfaces, next <- srv.next + Creates(Len(wire)),
           wire <- Named, srvNext <- srv.next, objs <- DOMAIN srv.objs

(***************************************************************************)
(* Every step of the bridge and of the server is a step of SurfaceIds, so  *)
(* what is proved of SurfaceIds holds of the bridge.                       *)
(***************************************************************************)
ImplementsIds == Ids!IdSpec
=============================================================================
