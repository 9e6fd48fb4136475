------------------------------ MODULE Requests ------------------------------
(***************************************************************************)
(* What clients ask of the server: the handlers of isz_client_dispatch.c   *)
(* for surfaces, buffers and outputs, over the object table of each        *)
(* connection (protocol/isz_conn.c), the surfaces (render/isz_surface.c)   *)
(* and the imported buffers (buffer/isz_buffer.c) of a headless server.    *)
(* The requests about seats, captures and selections are in Seat.          *)
(*                                                                         *)
(* A surface or buffer name stands for an address, a descriptor name for   *)
(* a number: both are used again after they are freed or closed.  A        *)
(* pointer to freed memory becomes Freed, and a step that follows one is   *)
(* undefined: it sets ub and the model stops there.  Geometry, damage,     *)
(* planes and modes are left out (Render has the planes), so a request     *)
(* that only sets those is refused or granted and changes nothing here.    *)
(* The handshake ends before a connection is polled, so every request      *)
(* comes after it.                                                         *)
(***************************************************************************)
EXTENDS Integers, Functions

CONSTANTS Conns,     \* the connections clients make
          Surfaces,  \* addresses of surfaces
          Buffers,   \* addresses of buffers
          Fds,       \* descriptor numbers
          MaxId,     \* bound: MaxId[c], the ids connection c is given
          None, Freed

ASSUME RequestsAssumption ==
    /\ MaxId \in [Conns -> Nat]
    /\ {None, Freed} \cap (Conns \cup Surfaces \cup Buffers \cup Fds) = {}
    /\ None # Freed /\ Surfaces \cap Buffers = {}

VARIABLES conns,  \* the connections open, their handshake done
          objs,   \* objs[c]: conn->objects, the kind and handle of each id
          nextId, \* conn->next_object_id
          surf,   \* the live surfaces
          buf,    \* the live buffers, each with its descriptor
          open,   \* the descriptors of imported buffers that are open
          told,   \* history: told[c], the ids replies gave c and c kept
          ub,     \* what freed memory a step followed, "no" if none did
          reply   \* who made the last request, which, and its outcome

vars == <<conns, objs, nextId, surf, buf, open, told, ub, reply>>

Init ==
    /\ conns = {}
    /\ objs = [c \in Conns |-> << >>] /\ nextId = [c \in Conns |-> 1]
    /\ surf = << >> /\ buf = << >> /\ open = {}
    /\ told = [c \in Conns |-> {}]
    /\ ub = "no" /\ reply = <<None, "none", "none">>

With(f, k, v) == [j \in DOMAIN f \cup {k} |-> IF j = k THEN v ELSE f[j]]
Without(f, K) == Restrict(f, DOMAIN f \ K)

Says(c, op, rc) == ub = "no" /\ c \in conns /\ reply' = <<c, op, rc>>

\* isz_reply_error: the request changes nothing, and the descriptors that
\* came with it are closed by isz_recv_client_messages.
Refuse(c, op) ==
    /\ Says(c, op, "error")
    /\ UNCHANGED <<conns, objs, nextId, surf, buf, open, told, ub>>

-----------------------------------------------------------------------------
(* The object table of a connection                                        *)

\* Mutant: the tables of all connections are searched.
MutLookup(c, id, kind) ==
    LET found == {d \in Conns : id \in DOMAIN objs[d] /\ objs[d][id].kind = kind}
    IN  IF found = {} THEN None ELSE objs[CHOOSE d \in found : TRUE][id].obj

\* isz_conn_lookup_object: the id must be there, with the kind asked for.
Lookup(c, id, kind) ==
    IF id \in DOMAIN objs[c] /\ objs[c][id].kind = kind
    THEN objs[c][id].obj ELSE None

\* isz_conn_register_object, which may fail for want of memory: the next id.
Register(c, kind, obj) ==
    /\ nextId[c] <= MaxId[c]
    /\ objs' = [objs EXCEPT ![c] = With(@, nextId[c], [kind |-> kind, obj |-> obj])]
    /\ nextId' = [nextId EXCEPT ![c] = @ + 1]
    /\ told' = [told EXCEPT ![c] = @ \cup {nextId[c]}]

\* Mutant: the entry stays.
MutUnregister(c, id, f) == f

\* isz_conn_unregister_object, in the table f.
Unregister(c, id, f) == [f EXCEPT ![c] = Without(@, {id})]

-----------------------------------------------------------------------------
(* Buffers                                                                 *)

\* isz_buffer_unref, for each of the pointers B: nothing on a headless server
\* takes a second reference, so the buffer is freed and its descriptor closed.
UnrefBuf(B) == Without(buf, B)
Closed(B) == {buf[b] : b \in B \cap DOMAIN buf}

\* A pointer after the memory of D is freed.
Stale(p, D) == IF p \in D THEN Freed ELSE p

\* The surfaces, and the tables, after the buffers D are freed.
SurfAfter(f, D) == [s \in DOMAIN f |->
                       [f[s] EXCEPT !.cur = Stale(@, D), !.pend = Stale(@, D)]]
ObjsAfter(f, D) == [c \in Conns |-> [id \in DOMAIN f[c] |->
                       [f[c][id] EXCEPT !.obj = Stale(@, D)]]]

-----------------------------------------------------------------------------
(* Surfaces                                                                *)

\* isz_surface_create and the three kinds made from it.
NewSurface(c, id, kind, parent) ==
    [conn |-> c, id |-> id, kind |-> kind, parent |-> parent,
     bound |-> kind = "layer", cur |-> None, pend |-> None]

\* The end of the four creating handlers: the surface is registered for the
\* client, or destroyed again when the table cannot grow.
Give(c, op, kind, parent) ==
    \/ Refuse(c, op)
    \/ \E s \in Surfaces \ DOMAIN surf :
          /\ Says(c, op, "ok") /\ Register(c, "surface", s)
          /\ surf' = With(surf, s, NewSurface(c, nextId[c], kind, parent))
          /\ UNCHANGED <<conns, buf, open, ub>>

SurfaceCreate(c) == Give(c, "surface_create", "normal", None)

\* isz_handle_create_subsurface and _popup: the parent is the client's own.
CreateChild(c, id, op, kind) ==
    \/ Refuse(c, op)
    \/ Lookup(c, id, "surface") # None
       /\ Give(c, op, kind, Lookup(c, id, "surface"))

CreateSubsurface(c, id) == CreateChild(c, id, "create_subsurface", "sub")
CreatePopup(c, id) == CreateChild(c, id, "create_popup", "popup")

\* isz_handle_create_layer: an id that names no output means the first one;
\* without any output, or with a layer out of range, it is refused.
CreateLayer(c) == Give(c, "create_layer", "layer", None)

\* isz_surface_destroy unlinks a subsurface from its parent's list: its
\* neighbours there are the parent itself or siblings, and the first and the
\* last of them border on the parent.
UnlinksFreed(s) == surf[s].kind = "sub" /\ surf[s].parent = Freed

Held(s) == {surf[s].cur, surf[s].pend}

\* isz_handle_surface_destroy.  The children stay, and so do the ids of the
\* buffers in the table.
SurfaceDestroy(c, id) ==
    \/ Refuse(c, "surface_destroy") /\ Lookup(c, id, "surface") = None
    \/ LET s == Lookup(c, id, "surface") IN
       /\ s # None /\ Says(c, "surface_destroy", "ok")
       /\ objs' = ObjsAfter(Unregister(c, id, objs), Held(s))
       /\ surf' = [t \in DOMAIN surf \ {s} |->
                      [surf[t] EXCEPT !.parent = Stale(@, {s})]]
       /\ buf' = UnrefBuf(Held(s)) /\ open' = open \ Closed(Held(s))
       /\ told' = [told EXCEPT ![c] = @ \ {id}]
       /\ ub' = CASE UnlinksFreed(s) -> "list"
                  [] Freed \in Held(s) -> "buffer"
                  [] OTHER -> "no"
       /\ UNCHANGED <<conns, nextId>>

-----------------------------------------------------------------------------
(* Attaching and destroying buffers                                        *)

\* isz_surface_attach_buffer: the import takes descriptor f, what waited for
\* its release is dropped, and what was shown waits.
Attached(s, b) ==
    [surf EXCEPT ![s].cur = b, ![s].pend = surf[s].cur]

\* Mutant: the descriptor is not marked consumed, so it is closed after the
\* handler returns.
MutConsumed(f) == {}

\* isz_consume_fd: of the descriptor of the request, what stays open.
Consumed(f) == {f}

\* isz_handle_attach_buffer.  An import that fails closes the descriptor.
\* The client is told the buffer's id, unless the table cannot grow: then
\* the buffer is attached and the client gets an error.
AttachBuffer(c, id) ==
    \/ Refuse(c, "attach_buffer")
    \/ \E b \in Buffers \ DOMAIN buf, f \in Fds \ open :
       LET s == Lookup(c, id, "surface") old == {surf[s].pend} IN
       /\ s # None
       /\ surf' = Attached(s, b)
       /\ buf' = With(UnrefBuf(old), b, f)
       /\ open' = (open \ Closed(old)) \cup Consumed(f)
       /\ ub' = IF Freed \in old THEN "buffer" ELSE "no"
       /\ \/ /\ Says(c, "attach_buffer", "ok") /\ nextId[c] <= MaxId[c]
             /\ objs' = [ObjsAfter(objs, old) EXCEPT ![c] =
                            With(@, nextId[c], [kind |-> "buffer", obj |-> b])]
             /\ nextId' = [nextId EXCEPT ![c] = @ + 1]
             /\ told' = [told EXCEPT ![c] = @ \cup {nextId[c]}]
          \/ /\ Says(c, "attach_buffer", "error")
             /\ objs' = ObjsAfter(objs, old)
             /\ UNCHANGED <<nextId, told>>
       /\ UNCHANGED conns

\* isz_handle_buffer_destroy.  The reference it drops is the surface's.
BufferDestroy(c, id) ==
    LET b == Lookup(c, id, "buffer") IN
    \/ Refuse(c, "buffer_destroy")
    \/ /\ Says(c, "buffer_destroy", "ok") /\ b = None
       /\ UNCHANGED <<conns, objs, nextId, surf, buf, open, told, ub>>
    \/ /\ Says(c, "buffer_destroy", "ok") /\ b # None
       /\ objs' = ObjsAfter(Unregister(c, id, objs), {b})
       /\ surf' = SurfAfter(surf, {b})
       /\ buf' = UnrefBuf({b}) /\ open' = open \ Closed({b})
       /\ told' = [told EXCEPT ![c] = @ \ {id}]
       /\ ub' = IF b = Freed THEN "buffer" ELSE "no"
       /\ UNCHANGED <<conns, nextId>>

-----------------------------------------------------------------------------
(* Outputs and plain setters                                               *)

\* isz_handle_commit, granted: a frame event goes to the owner of each
\* surface on the output that has a buffer.
Commit(c) ==
    \/ Refuse(c, "commit")
    \/ /\ Says(c, "commit", "ok")
       /\ ub' = IF \E s \in DOMAIN surf : /\ surf[s].bound /\ surf[s].cur # None
                                         /\ surf[s].conn = Freed
                THEN "conn" ELSE "no"
       /\ UNCHANGED <<conns, objs, nextId, surf, buf, open, told>>

\* isz_handle_set_position, _set_size, isz_handle_surface_setter, and
\* isz_handle_damage, which is also refused when the surface has too much.
SetSurface(c, id) ==
    \/ Refuse(c, "set_surface")
    \/ /\ Says(c, "set_surface", "ok") /\ Lookup(c, id, "surface") # None
       /\ UNCHANGED <<conns, objs, nextId, surf, buf, open, told, ub>>

\* isz_handle_output_enable, _disable, _set_dpms, _set_lut, _set_ctm and
\* _set_hdr: any client may ask, and an id that names no output means the
\* first one.
SetOutput(c) ==
    \/ Refuse(c, "set_output")
    \/ /\ Says(c, "set_output", "ok")
       /\ UNCHANGED <<conns, objs, nextId, surf, buf, open, told, ub>>

-----------------------------------------------------------------------------
(* Connections, and the application                                        *)

\* isz_accept_connection and isz_conn_create: an empty table, at an address
\* another connection may have had.
Accept(c) ==
    /\ ub = "no" /\ c \notin conns
    /\ conns' = conns \cup {c} /\ reply' = <<c, "accept", "ok">>
    /\ objs' = [objs EXCEPT ![c] = << >>]
    /\ nextId' = [nextId EXCEPT ![c] = 1]
    /\ UNCHANGED <<surf, buf, open, told, ub>>

\* cleanup_client: isz_conn_close frees the table.  The surfaces stay, and
\* keep the connection's address.
Disconnect(c) ==
    /\ ub = "no" /\ c \in conns
    /\ conns' = conns \ {c} /\ reply' = <<c, "disconnect", "ok">>
    /\ objs' = [objs EXCEPT ![c] = << >>]
    /\ nextId' = [nextId EXCEPT ![c] = 1]
    /\ told' = [told EXCEPT ![c] = {}]
    /\ surf' = [s \in DOMAIN surf |-> [surf[s] EXCEPT !.conn = Stale(@, {c})]]
    /\ UNCHANGED <<buf, open, ub>>

\* The application puts a surface on an output, or takes it off.
Bind(s) ==
    /\ ub = "no" /\ s \in DOMAIN surf
    /\ surf' = [surf EXCEPT ![s].bound = ~@]
    /\ reply' = <<None, "bind", "ok">>
    /\ UNCHANGED <<conns, objs, nextId, buf, open, told, ub>>

Next ==
    \/ \E c \in Conns : \/ Accept(c) \/ Disconnect(c) \/ SurfaceCreate(c)
                        \/ CreateLayer(c) \/ Commit(c) \/ SetOutput(c)
    \/ \E c \in Conns : \E id \in 1 .. MaxId[c] :
          \/ CreateSubsurface(c, id) \/ CreatePopup(c, id)
          \/ SurfaceDestroy(c, id) \/ AttachBuffer(c, id)
          \/ BufferDestroy(c, id) \/ SetSurface(c, id)
    \/ \E s \in Surfaces : Bind(s)

Spec == Init /\ [][Next]_vars

-----------------------------------------------------------------------------
(***************************************************************************)
(* The table of a connection and the surfaces agree: the surface ids it    *)
(* holds are those of the live surfaces it owns, each under the id the     *)
(* surface records (isz_conn_register_object, object_id), whatever         *)
(* creations failed half-way; and the ids in it are those the client was   *)
(* told and has not destroyed.                                             *)
(***************************************************************************)
TableExact ==
    \A c \in conns :
       /\ \A id \in DOMAIN objs[c] : objs[c][id].kind = "surface" =>
             LET s == objs[c][id].obj IN
             s \in DOMAIN surf /\ surf[s].conn = c /\ surf[s].id = id
       /\ \A s \in DOMAIN surf : surf[s].conn = c =>
             /\ surf[s].id \in DOMAIN objs[c]
             /\ objs[c][surf[s].id] = [kind |-> "surface", obj |-> s]
       /\ DOMAIN objs[c] = told[c]

(***************************************************************************)
(* Every descriptor taken from a client is open, and held by exactly one   *)
(* live buffer: none is closed twice, used after it is closed, or leaked,  *)
(* on any path of the attach and destroy requests (isz_consume_fd,         *)
(* isz_buffer_import, isz_buffer_unref).                                   *)
(***************************************************************************)
FdsOwned ==
    /\ open = {buf[b] : b \in DOMAIN buf}
    /\ \A a, b \in DOMAIN buf : buf[a] = buf[b] => a = b

(***************************************************************************)
(* A request changes no surface of another client, and destroys none: an   *)
(* id means something in the table of its own connection only              *)
(* (isz_conn_lookup_object).                                               *)
(***************************************************************************)
Isolation ==
    [][reply'[1] \in conns
       => \A s \in DOMAIN surf : surf[s].conn # reply'[1]
             => s \in DOMAIN surf' /\ surf'[s] = surf[s]]_vars

(***************************************************************************)
(* Destroying a buffer, or a surface, never follows a pointer to a buffer  *)
(* that is freed (isz_handle_buffer_destroy: "SPEC 8: a release for an     *)
(* already-destroyed buffer is a silent no-op; treat destroy the same way  *)
(* (idempotent)").                                                         *)
(***************************************************************************)
NoFreedBuffer == ub # "buffer"
=============================================================================
