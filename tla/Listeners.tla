----------------------------- MODULE Listeners ------------------------------
(***************************************************************************)
(* The listener registry (src/isz_listeners.c): one intrusive list per     *)
(* event type, and isz_server_emit_event's walk over it, during which the  *)
(* callbacks may themselves add and remove listeners.                      *)
(*                                                                         *)
(* A node is the address of a struct isz_listener: free nodes may be given *)
(* out again.  One walk is in progress at a time: no callback modelled     *)
(* here makes a call that emits.  Which free node malloc picks makes no    *)
(* difference and is fixed.                                                *)
(***************************************************************************)
EXTENDS Naturals, Sequences, Functions, Lists

CONSTANTS Nodes,       \* addresses malloc returns
          Fns,         \* callback functions
          EventTypes,
          Nil          \* no node; the list head, at the end of a walk

ASSUME ListenersAssumption == Nil \notin Nodes \cup Fns \cup EventTypes

VARIABLES bucket,  \* srv->listeners[type], in registration order
          fn,      \* the function of each node in a bucket
          walk     \* the walk of isz_server_emit_event, Idle if there is none

busVars == <<bucket, fn, walk>>

\* The walk: the event's type, the node whose callback runs, the node saved
\* in "next" before the call, the nodes called so far that are still there,
\* and those registered all through the walk.
Idle == [type |-> Nil, pos |-> Nil, next |-> Nil, called |-> {}, due |-> {}]

BusInit == /\ bucket = [t \in EventTypes |-> <<>>]
           /\ fn = [n \in Nodes |-> Nil]
           /\ walk = Idle

Registered == UNION {Range(bucket[t]) : t \in EventTypes}

\* isz_list_node.next of node n in list l.
Successor(l, n) == LET i == Position(l, n)
                   IN  IF i = Len(l) THEN Nil ELSE l[i + 1]

\* isz_add_listener.
AddListener(t, f) == LET n == CHOOSE n \in Nodes : n \notin Registered IN
                     /\ Nodes # Registered
                     /\ bucket' = [bucket EXCEPT ![t] = Append(@, n)]
                     /\ fn' = [fn EXCEPT ![n] = f]
                     /\ UNCHANGED walk

Matching(t, f) == {n \in Range(bucket[t]) : fn[n] = f}

\* isz_remove_listener: every node of the type with this function is unlinked
\* and freed.
RemoveListener(t, f) ==
    LET gone == Matching(t, f)
        kept == {i \in DOMAIN bucket[t] : bucket[t][i] \notin gone}
    IN  /\ gone # {}
        /\ bucket' = [bucket EXCEPT ![t] = Picked(@, kept)]
        /\ fn' = [n \in Nodes |-> IF n \in gone THEN Nil ELSE fn[n]]
        /\ walk' = [walk EXCEPT !.called = @ \ gone, !.due = @ \ gone]

\* What a callback may remove: listeners already called, its own among them.
\* One the walk has yet to reach may be the node it has saved as next, which
\* would then be freed under it.
Behind(t, f) == t = walk.type => Matching(t, f) \subseteq walk.called

\* The loop of isz_server_emit_event: save next, then call fn.
CallNode(t, n, called, due) ==
    walk' = IF n = Nil THEN Idle
            ELSE [type |-> t, pos |-> n, next |-> Successor(bucket[t], n),
                  called |-> called \cup {n}, due |-> due]

Emit(t) == CallNode(t, IF bucket[t] = <<>> THEN Nil ELSE bucket[t][1],
                    {}, Range(bucket[t]))

\* Mutant: next is read again after the callback, from the node it may have
\* freed: a callback that removes itself ends the walk.
MutCallbackReturns ==
    /\ walk # Idle
    /\ CallNode(walk.type,
                IF walk.pos \in Range(bucket[walk.type])
                THEN Successor(bucket[walk.type], walk.pos) ELSE Nil,
                walk.called, walk.due)
    /\ UNCHANGED <<bucket, fn>>

\* The callback returns and the walk goes on at the node saved before it.
CallbackReturns ==
    /\ walk # Idle
    /\ CallNode(walk.type, walk.next, walk.called, walk.due)
    /\ UNCHANGED <<bucket, fn>>
=============================================================================
