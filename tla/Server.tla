------------------------------- MODULE Server -------------------------------
(***************************************************************************)
(* The server's connection machinery on the dispatch thread: isz_listen,   *)
(* isz_accept_connection with the allowlist and the blocking handshake,    *)
(* isz_recv_client_messages, isz_client_cleanup (src/isz_listen.c,         *)
(* src/protocol/isz_handshake.c), the epoll batch of isz_dispatch and      *)
(* isz_destroy (src/isz_lifecycle.c), together with the event walk of      *)
(* Listeners and the entries of Allowlist.                                 *)
(*                                                                         *)
(* The dispatch thread stops between two steps only where others can act:  *)
(* in a callback, in the handshake's blocking read, and between two items  *)
(* of its loops, where peers send and close.  A peer connects once; a      *)
(* connection is named by its peer and stands for the fd, the isz_conn and *)
(* the isz_client.  What a message does is not modelled here, only whether *)
(* its handler reports a fatal violation.                                  *)
(***************************************************************************)
EXTENDS Listeners, Allowlist, FiniteSets, FiniteSetsExt

CONSTANTS Binaries, Paths,   \* what the application may put on the allowlist
          MaxEntries,        \* how many cgroup entries it adds at most
          MaxSubs,           \* how often it calls isz_add_listener at most
          MaxBatch           \* the 16 of epoll_wait in isz_dispatch

ASSUME ServerAssumption == /\ MaxEntries \in Nat
                           /\ MaxSubs \in Nat
                           /\ MaxBatch \in Nat \ {0}
                           /\ EventTypes = {"connect", "disconnect"}
                           /\ IsFiniteSet(Peers) /\ "listen" \notin Peers

VARIABLES state,      \* srv->state, or "freed"
          listening,  \* srv->listen_fd is set and in the epoll set
          backlog,    \* the kernel's accept queue
          open,       \* connections whose fd the server holds open
          epoll,      \* connections in the epoll set
          clients,    \* srv->clients
          batch,      \* tags of the epoll events still to handle
          pc,         \* where isz_dispatch is
          cur,        \* the connection it works on
          reply,      \* the version reply a peer has sent
          inbox,      \* the next message a peer has sent
          closed,     \* peers whose connection either end has closed
          subs,       \* calls of isz_add_listener so far
          events      \* history: CONNECT / DISCONNECT emitted for each peer

srvVars == <<state, listening, backlog, open, epoll, clients, batch, pc, cur>>
peerVars == <<reply, inbox, closed>>
vars == <<busVars, listVars, srvVars, peerVars, subs, events>>

Tags == Peers \cup {"listen"}

Init == /\ BusInit /\ AllowInit
        /\ state = "running"
        /\ listening = FALSE
        /\ backlog = <<>> /\ clients = <<>>
        /\ open = {} /\ epoll = {}
        /\ batch = <<>> /\ pc = "out" /\ cur = Nil
        /\ reply = [p \in Peers |-> "none"]
        /\ inbox = [p \in Peers |-> "none"]
        /\ closed = {} /\ subs = 0
        /\ events = [p \in Peers |-> [t \in EventTypes |-> 0]]
-----------------------------------------------------------------------------
(* The application: outside isz_dispatch, or in one of its callbacks. *)

InApplication == state = "running" /\ (pc = "out" \/ walk # Idle)

\* isz_listen.
Listen == /\ InApplication /\ ~listening
          /\ listening' = TRUE
          /\ UNCHANGED <<busVars, listVars, state, backlog, open, epoll, clients,
                         batch, pc, cur, peerVars, subs, events>>

Allow == /\ InApplication
         /\ \/ \E b \in Binaries \ binaries : AddBinary(b)
            \/ Len(cgroups) < MaxEntries /\ \E c \in Paths : AddCgroup(c)
         /\ UNCHANGED <<busVars, srvVars, peerVars, subs, events>>

Subscribe == /\ InApplication
             /\ subs < MaxSubs /\ subs' = subs + 1
             /\ \E t \in EventTypes, f \in Fns : AddListener(t, f)
             /\ UNCHANGED <<listVars, srvVars, peerVars, events>>

Unsubscribe == /\ InApplication
               /\ \E t \in EventTypes, f \in Fns :
                      /\ Behind(t, f)
                      /\ RemoveListener(t, f)
               /\ UNCHANGED <<listVars, srvVars, peerVars, subs, events>>

\* isz_destroy, which the API forbids in a callback.  Its events are dropped
\* because the state is DESTROYING.
Destroy == /\ state = "running" /\ pc = "out"
           /\ state' = "freed"
           /\ listening' = FALSE
           /\ backlog' = <<>> /\ clients' = <<>>
           /\ open' = open \ Range(clients)
           /\ epoll' = {}
           /\ bucket' = [t \in EventTypes |-> <<>>]
           /\ fn' = [n \in Nodes |-> Nil]
           /\ binaries' = {} /\ cgroups' = <<>>
           /\ UNCHANGED <<walk, batch, pc, cur, peerVars, subs, events>>
-----------------------------------------------------------------------------
(* The peers. *)

Connect(p) == /\ listening
              /\ p \notin Range(backlog) \cup open \cup closed
              /\ backlog' = Append(backlog, p)
              /\ UNCHANGED <<busVars, listVars, state, listening, open, epoll,
                             clients, batch, pc, cur, peerVars, subs, events>>

Connected(p) == p \in Range(backlog) \cup open /\ p \notin closed

Reply(p) == /\ Connected(p) /\ reply[p] = "none"
            /\ \E v \in {"good", "bad"} : reply' = [reply EXCEPT ![p] = v]
            /\ UNCHANGED <<busVars, listVars, srvVars, inbox, closed, subs, events>>

Request(p) == /\ Connected(p) /\ p \in Range(clients) /\ inbox[p] = "none"
              /\ \E m \in {"request", "fatal"} : inbox' = [inbox EXCEPT ![p] = m]
              /\ UNCHANGED <<busVars, listVars, srvVars, reply, closed, subs, events>>

Hangup(p) == /\ Connected(p)
             /\ closed' = closed \cup {p}
             /\ UNCHANGED <<busVars, listVars, srvVars, reply, inbox, subs, events>>
-----------------------------------------------------------------------------
(* isz_dispatch *)

Ready == {t \in Tags : IF t = "listen" THEN listening /\ backlog # <<>>
                       ELSE t \in epoll /\ (inbox[t] # "none" \/ t \in closed)}

\* epoll_wait reports up to MaxBatch ready fds, in an order of its own.
Dispatch == /\ state = "running" /\ pc = "out" /\ Ready # {}
            /\ batch' \in Injection(1 .. Min({MaxBatch, Cardinality(Ready)}), Ready)
            /\ pc' = "batch"
            /\ UNCHANGED <<busVars, listVars, state, listening, backlog, open,
                           epoll, clients, cur, peerVars, subs, events>>

\* The next event, routed by the kind of its tag; or isz_dispatch returns.
Route == /\ pc = "batch" /\ walk = Idle
         /\ IF batch = <<>>
            THEN pc' = "out" /\ UNCHANGED <<batch, cur>>
            ELSE /\ batch' = Tail(batch)
                 /\ pc' = IF Head(batch) = "listen" THEN "accept" ELSE "recv"
                 /\ cur' = IF Head(batch) = "listen" THEN Nil ELSE Head(batch)
         /\ UNCHANGED <<busVars, listVars, state, listening, backlog, open, epoll,
                        clients, peerVars, subs, events>>

\* accept4 has drained the queue, or fails (no descriptor is left): the loop
\* ends, and what it leaves in the queue is ready again in the next batch.
AcceptDone == /\ pc = "accept" /\ walk = Idle
              /\ pc' = "batch"
              /\ UNCHANGED <<busVars, listVars, state, listening, backlog, open,
                             epoll, clients, batch, cur, peerVars, subs, events>>

\* The peer is denied, or the server lacks a resource: close(fd), continue.
AcceptRefused == /\ pc = "accept" /\ walk = Idle
                 /\ backlog # <<>>
                 /\ backlog' = Tail(backlog)
                 /\ closed' = closed \cup {Head(backlog)}
                 /\ UNCHANGED <<busVars, listVars, state, listening, open, epoll,
                                clients, batch, pc, cur, reply, inbox, subs, events>>

\* Mutant: the handshake starts before the allowlist is consulted.
MutAcceptUnchecked ==
    /\ pc = "accept" /\ walk = Idle
    /\ backlog # <<>>
    /\ backlog' = Tail(backlog)
    /\ open' = open \cup {Head(backlog)}
    /\ cur' = Head(backlog)
    /\ pc' = "handshake"
    /\ UNCHANGED <<busVars, listVars, state, listening, epoll, clients, batch,
                   peerVars, subs, events>>

\* The peer is allowed: magic and version go out on a blocking socket.
AcceptAllowed == /\ pc = "accept" /\ walk = Idle
                 /\ backlog # <<>> /\ Allowed(Head(backlog))
                 /\ backlog' = Tail(backlog)
                 /\ open' = open \cup {Head(backlog)}
                 /\ cur' = Head(backlog)
                 /\ pc' = "handshake"
                 /\ UNCHANGED <<busVars, listVars, state, listening, epoll,
                                clients, batch, peerVars, subs, events>>

\* Mutant: a failed handshake leaves the connection open.
MutHandshakeLeaks == /\ pc = "handshake"
                     /\ reply[cur] # "none" \/ cur \in closed
                     /\ closed' = closed \cup {cur}
                     /\ pc' = "accept"
                     /\ UNCHANGED <<busVars, listVars, state, listening, backlog,
                                    open, epoll, clients, batch, cur, reply,
                                    inbox, subs, events>>

\* Mutant: the end of file in the blocking read is retried like EINTR.
MutHandshakeIgnoresEof == /\ pc = "handshake"
                          /\ reply[cur] # "none"
                          /\ open' = open \ {cur}
                          /\ closed' = closed \cup {cur}
                          /\ pc' = "accept"
                          /\ UNCHANGED <<busVars, listVars, state, listening,
                                         backlog, epoll, clients, batch, cur,
                                         reply, inbox, subs, events>>

\* A bad version, EOF, a failed send, or one of the undo paths for fcntl,
\* calloc and epoll_ctl: isz_conn_close.
HandshakeFails == /\ pc = "handshake"
                  /\ reply[cur] # "none" \/ cur \in closed
                  /\ open' = open \ {cur}
                  /\ closed' = closed \cup {cur}
                  /\ pc' = "accept"
                  /\ UNCHANGED <<busVars, listVars, state, listening, backlog,
                                 epoll, clients, batch, cur, reply, inbox, subs, events>>

Announce(t) == /\ events' = [events EXCEPT ![cur][t] = @ + 1]
               /\ Emit(t)
               /\ UNCHANGED <<bucket, fn>>

HandshakeDone == /\ pc = "handshake" /\ reply[cur] = "good" /\ cur \notin closed
                 /\ clients' = Append(clients, cur)
                 /\ epoll' = epoll \cup {cur}
                 /\ Announce("connect")
                 /\ pc' = "accept"
                 /\ UNCHANGED <<listVars, state, listening, backlog, open, batch,
                                cur, peerVars, subs>>

\* isz_recv_client_messages: one message handled, and round the loop.
Receive == /\ pc = "recv" /\ inbox[cur] = "request"
           /\ inbox' = [inbox EXCEPT ![cur] = "none"]
           /\ UNCHANGED <<busVars, listVars, srvVars, reply, closed, subs, events>>

ReceiveDone == /\ pc = "recv" /\ inbox[cur] = "none" /\ cur \notin closed
               /\ pc' = "batch"
               /\ UNCHANGED <<busVars, listVars, state, listening, backlog, open,
                              epoll, clients, batch, cur, peerVars, subs, events>>

\* Mutant: only a fatal message cleans up; an EOF is taken for "no message".
MutReceiveIgnoresEof ==
    /\ pc = "recv"
    /\ inbox[cur] = "fatal" \/ (inbox[cur] = "none" /\ cur \in closed)
    /\ pc' = "batch"
    /\ UNCHANGED <<busVars, listVars, state, listening, backlog, open, epoll,
                   clients, batch, cur, peerVars, subs, events>>

\* Mutant: cleanup forgets to emit CLIENT_DISCONNECT.
MutReceiveSilent ==
    /\ pc = "recv"
    /\ inbox[cur] = "fatal" \/ (inbox[cur] = "none" /\ cur \in closed)
    /\ epoll' = epoll \ {cur}
    /\ clients' = Unlink(clients, Position(clients, cur))
    /\ open' = open \ {cur}
    /\ closed' = closed \cup {cur}
    /\ pc' = "batch"
    /\ UNCHANGED <<busVars, listVars, state, listening, backlog, batch, cur,
                   reply, inbox, subs, events>>

\* Mutant: cleanup leaves the connection in the epoll set.
MutReceiveKeepsEpoll ==
    /\ pc = "recv"
    /\ inbox[cur] = "fatal" \/ (inbox[cur] = "none" /\ cur \in closed)
    /\ clients' = Unlink(clients, Position(clients, cur))
    /\ open' = open \ {cur}
    /\ closed' = closed \cup {cur}
    /\ Announce("disconnect")
    /\ pc' = "batch"
    /\ UNCHANGED <<listVars, state, listening, backlog, epoll, batch, cur,
                   reply, inbox, subs>>

\* EOF, a hard error or a fatal message: isz_client_cleanup.
ReceiveEnds == /\ pc = "recv"
               /\ inbox[cur] = "fatal" \/ (inbox[cur] = "none" /\ cur \in closed)
               /\ epoll' = epoll \ {cur}
               /\ clients' = Unlink(clients, Position(clients, cur))
               /\ open' = open \ {cur}
               /\ closed' = closed \cup {cur}
               /\ Announce("disconnect")
               /\ pc' = "batch"
               /\ UNCHANGED <<listVars, state, listening, backlog, batch, cur,
                              reply, inbox, subs>>

Callback == /\ CallbackReturns
            /\ UNCHANGED <<listVars, srvVars, peerVars, subs, events>>

-----------------------------------------------------------------------------
ServerStep == \/ Route \/ AcceptDone \/ AcceptRefused \/ AcceptAllowed
              \/ HandshakeFails \/ HandshakeDone
              \/ Receive \/ ReceiveDone \/ ReceiveEnds
              \/ Callback

Next == \/ Listen \/ Allow \/ Subscribe \/ Unsubscribe \/ Destroy
        \/ Dispatch \/ ServerStep
        \/ \E p \in Peers : Connect(p) \/ Reply(p) \/ Request(p) \/ Hangup(p)

Spec == Init /\ [][Next]_vars

\* The application calls isz_dispatch again and again, its callbacks return,
\* and the dispatch thread is scheduled.
ThreadFairness == WF_vars(Dispatch) /\ WF_vars(ServerStep)

\* A peer in the handshake answers or hangs up, as the bridge's client side
\* does, a client's burst of requests ends, and accept4 does not fail for
\* ever: the server has no timeout and no quota that would do without these.
PeerFairness == /\ \A p \in Peers :
                       WF_vars(reply[p] = "none" /\ (Reply(p) \/ Hangup(p)))
                /\ SF_vars(ReceiveDone)
                /\ SF_vars(AcceptRefused \/ AcceptAllowed)

FairSpec == Spec /\ ThreadFairness
PoliteSpec == FairSpec /\ PeerFairness
-----------------------------------------------------------------------------
(* Properties *)

\* Every fd the server holds open belongs to a client on srv->clients that
\* is in the epoll set, or to the one handshake in progress: no undo path of
\* isz_accept_connection and no cleanup leaks one or closes one too many.
ConnectionsExact ==
    /\ open = Range(clients) \cup (IF pc = "handshake" THEN {cur} ELSE {})
    /\ epoll = Range(clients)
    /\ Cardinality(Range(clients)) = Len(clients)

\* No event of a batch carries the tag of a client that an earlier event of
\* the batch has freed (isz_lifecycle.c:310).
NoStaleTag == Range(batch) \subseteq Range(clients) \cup {"listen"}

\* The application sees one CLIENT_CONNECT per client and one
\* CLIENT_DISCONNECT for each that left, in this order, and none for a
\* connection that did not finish its handshake.
EventsBalanced ==
    state = "running" =>
        \A p \in Peers :
            LET e == events[p] IN
            /\ e["connect"] <= 1
            /\ e["connect"] - e["disconnect"] = IF p \in Range(clients) THEN 1 ELSE 0

\* A peer gets the first handshake byte only if the rule of the allowlist
\* entitles it to connect; with no entries nobody is (SPEC 6.3).
GateKept == \A p \in open : Entitled(p)

\* A walk over a bucket calls every listener that stays registered all
\* through it, also when callbacks remove themselves or add others.
RoundComplete ==
    [][walk # Idle /\ walk' = Idle => walk.due \subseteq walk.called]_vars

\* A peer in the accept queue is accepted or refused.
BacklogServed == \A p \in Peers : (p \in Range(backlog)) ~> (p \notin Range(backlog))

\* A client that hangs up is noticed and its connection closed.
HangupNoticed == \A p \in Peers : (p \in closed) ~> (p \notin open)
=============================================================================
