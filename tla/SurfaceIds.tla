----------------------------- MODULE SurfaceIds -----------------------------
(***************************************************************************)
(* What the X11 bridge and the server promise each other about surface     *)
(* ids.  The bridge numbers its surfaces itself and never reads the id in  *)
(* the server's answer; the server numbers the objects it registers.  Both *)
(* count from 1, one message queue lies between them, and the bridge may   *)
(* run any number of messages ahead.                                       *)
(*                                                                         *)
(* A message carries the id it names and n, the number the bridge's        *)
(* counter had when it was sent: a history value, not part of the wire.    *)
(***************************************************************************)
EXTENDS Naturals, Sequences

VARIABLES
    held,     \* the ids that live X11 windows hold
    next,     \* the bridge's next_surface_id
    wire,     \* the messages sent and not yet read by the server
    srvNext,  \* the connection's next_object_id
    objs      \* the ids in the connection's object table

idVars == <<held, next, wire, srvNext, objs>>

Ops == {"create", "use", "destroy"}
Message == [op : Ops, id : Nat, n : Nat]

IdInit ==
    /\ held = {} /\ next = 1 /\ wire = <<>>
    /\ srvNext = 1 /\ objs = {}

After(m) == IF m.op = "create" THEN m.n + 1 ELSE m.n

Fresh == (Len(wire) + 1) .. Len(wire')

\* The bridge appends messages: it creates the ids its counter gives, and
\* otherwise names only ids it holds or has just created and not destroyed.
\* The counter only rises, past every id it has given.
\* It may forget ids without a message (a client that disconnects).
Send ==
    /\ wire' \in Seq(Message)
    /\ Len(wire') >= Len(wire)
    /\ \A i \in 1 .. Len(wire) : wire'[i] = wire[i]
    /\ \A i \in Fresh :
          /\ wire'[i].n = IF i = Len(wire) + 1 THEN next ELSE After(wire'[i - 1])
          /\ wire'[i].id < next'
          /\ wire'[i].op = "create" => wire'[i].id = wire'[i].n /\ wire'[i].id >= next
          /\ wire'[i].op # "create" =>
                /\ \/ wire'[i].id \in held
                   \/ \E j \in Fresh : /\ j < i /\ wire'[j].op = "create"
                                       /\ wire'[j].id = wire'[i].id
                /\ \A j \in Fresh : j < i /\ wire'[j].op = "destroy"
                                       => wire'[j].id # wire'[i].id
    /\ next' >= next
    /\ next' = IF Len(wire') = Len(wire) THEN next ELSE After(wire'[Len(wire')])
    /\ \A k \in held' :
          /\ \/ k \in held
             \/ \E j \in Fresh : wire'[j].op = "create" /\ wire'[j].id = k
          /\ \A j \in Fresh : wire'[j].op = "destroy" => wire'[j].id # k
    /\ UNCHANGED <<srvNext, objs>>

\* The server reads the oldest message.
Deliver ==
    /\ wire # <<>>
    /\ LET m == Head(wire) IN
         CASE m.op = "create" ->
                objs' = objs \cup {srvNext} /\ srvNext' = srvNext + 1
           [] m.op = "destroy" -> objs' = objs \ {m.id} /\ UNCHANGED srvNext
           [] OTHER -> UNCHANGED <<objs, srvNext>>
    /\ wire' = Tail(wire)
    /\ UNCHANGED <<held, next>>

IdNext == Send \/ Deliver

IdSpec == IdInit /\ [][IdNext]_idVars

(***************************************************************************)
(* The number the server gives the object it creates is the number the     *)
(* bridge gave the surface when it sent the request, and every other       *)
(* message names an object that exists when the server reads it.           *)
(***************************************************************************)
IdsAgree ==
    wire # <<>> =>
        /\ Head(wire).op = "create" => Head(wire).id = srvNext
        /\ Head(wire).op # "create" => Head(wire).id \in objs

(***************************************************************************)
(* Once the server has read everything, every surface a window holds is an *)
(* object of the server.                                                   *)
(***************************************************************************)
HeldExists == wire = <<>> => held \subseteq objs
=============================================================================
