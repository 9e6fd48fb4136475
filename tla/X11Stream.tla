------------------------------ MODULE X11Stream ------------------------------
(***************************************************************************)
(* The bridge's process (x11bridge/main.c): its start, the epoll loop, the *)
(* table of client slots, and each client's byte stream from the socket    *)
(* through x11_client_drain to the requests it dispatches.                 *)
(*                                                                         *)
(* A byte of a request is <<n, k>>: byte k of a request of n bytes, whose  *)
(* header states n.  What a request does is in X11Client and X11Resources. *)
(***************************************************************************)
EXTENDS Naturals, Sequences, FiniteSets, FiniteSetsExt, SequencesExt

CONSTANTS
    Conns,    \* the connections X11 clients make
    NSlots,   \* X11_MAX_CLIENTS
    Buf,      \* sizeof(c->buf)
    Header,   \* the bytes of a request header (4)
    Lengths,  \* the lengths the requests of each client state; some longer than Buf
    MaxReqs,  \* bound: the requests each client writes
    Batch,    \* the events one epoll_wait returns at most (16)
    None

ASSUME StreamConstantsOK ==
    /\ NSlots \in Nat \ {0} /\ Header \in 1 .. Buf /\ Batch \in Nat \ {0}
    /\ Lengths \in [Conns -> SUBSET Nat] /\ MaxReqs \in [Conns -> Nat]

VARIABLES
    pc,       \* "connect", "handshake", "listen", "epoll", "loop", "setup", "exit"
    open,     \* the descriptors of main: "isz", "listen", "epoll"
    state,    \* state[k]: "new", "waiting" to be accepted, "accepted", "open", "closed"
    slots,    \* slots[i]: the connection in g_slots[i], or None
    sock,     \* sock[k]: the bytes client k has written and nobody has read
    hello,    \* hello[k]: the setup request of k has been written
    shut,     \* shut[k]: client k has closed its end
    buf,      \* buf[k]: c->buf
    wrote,    \* wrote[k]: requests client k has written
    events,   \* the events of the last epoll_wait not yet handled
    accepting \* the connection whose setup blocks the loop, or None

vars == <<pc, open, state, slots, sock, hello, shut, buf, wrote, events, accepting>>

net == <<state, sock, hello, shut, wrote>>
Slots == 1 .. NSlots

Init ==
    /\ pc = "connect" /\ open = {}
    /\ state = [k \in Conns |-> "new"] /\ slots = [i \in Slots |-> None]
    /\ sock = [k \in Conns |-> <<>>] /\ hello = [k \in Conns |-> FALSE]
    /\ shut = [k \in Conns |-> FALSE]
    /\ buf = [k \in Conns |-> <<>>] /\ wrote = [k \in Conns |-> 0]
    /\ events = <<>> /\ accepting = None

-----------------------------------------------------------------------------
(* The clients                                                             *)

ClientConnect(k) ==
    /\ "listen" \in open /\ state[k] = "new"
    /\ state' = [state EXCEPT ![k] = "waiting"]
    /\ UNCHANGED <<pc, open, slots, sock, hello, shut, buf, wrote, events, accepting>>

\* The setup request.
ClientHello(k) ==
    /\ state[k] \in {"waiting", "accepted"} /\ ~hello[k] /\ ~shut[k]
    /\ hello' = [hello EXCEPT ![k] = TRUE]
    /\ UNCHANGED <<pc, open, state, slots, sock, shut, buf, wrote, events, accepting>>

\* A request; a client writes none before it has the reply to its setup.
ClientWrite(k, n) ==
    /\ state[k] = "open" /\ ~shut[k] /\ wrote[k] < MaxReqs[k]
    /\ sock' = [sock EXCEPT ![k] = @ \o [j \in 1 .. Max({n, Header}) |-> <<n, j>>]]
    /\ wrote' = [wrote EXCEPT ![k] = @ + 1]
    /\ UNCHANGED <<pc, open, state, slots, hello, shut, buf, events, accepting>>

ClientShut(k) ==
    /\ state[k] \in {"waiting", "accepted", "open"} /\ ~shut[k]
    /\ shut' = [shut EXCEPT ![k] = TRUE]
    /\ UNCHANGED <<pc, open, state, slots, sock, hello, buf, wrote, events, accepting>>

-----------------------------------------------------------------------------
(* Start and end of the process                                            *)

\* The errors of main's start close what was opened so far.
StartFails ==
    /\ pc \in {"connect", "handshake", "listen", "epoll"}
    /\ pc' = "exit" /\ open' = {}
    /\ UNCHANGED <<net, slots, buf, events, accepting>>

\* isz_client_connect.
StartConnect ==
    /\ pc = "connect" /\ pc' = "handshake" /\ open' = open \cup {"isz"}
    /\ UNCHANGED <<net, slots, buf, events, accepting>>

\* isz_client_handshake reads globals and capabilities until HANDSHAKE_DONE;
\* any other message is an error.
StartHandshake ==
    /\ pc = "handshake"
    /\ \E m \in {"global", "capabilities", "done", "other"} :
          CASE m = "done" -> pc' = "listen" /\ UNCHANGED open
            [] m = "other" -> pc' = "exit" /\ open' = {}
            [] OTHER -> UNCHANGED <<pc, open>>
    /\ UNCHANGED <<net, slots, buf, events, accepting>>

\* open_x11_listen.
StartListen ==
    /\ pc = "listen" /\ pc' = "epoll" /\ open' = open \cup {"listen"}
    /\ UNCHANGED <<net, slots, buf, events, accepting>>

\* epoll_create1 and the registration of the two descriptors.
StartEpoll ==
    /\ pc = "epoll" /\ pc' = "loop" /\ open' = open \cup {"epoll"}
    /\ UNCHANGED <<net, slots, buf, events, accepting>>

InSlots == {slots[i] : i \in Slots} \ {None}

\* The end of main: a signal, an error of epoll_wait, or on_isz_ready finding
\* the server gone, which skips the events left.  Every client is destroyed and
\* every descriptor closed.
Teardown ==
    /\ pc' = "exit" /\ open' = {}
    /\ slots' = [i \in Slots |-> None]
    /\ state' = [k \in Conns |-> IF k \in InSlots THEN "closed" ELSE state[k]]
    /\ buf' = [k \in Conns |-> <<>>] /\ events' = <<>>
    /\ UNCHANGED <<sock, hello, shut, wrote, accepting>>

Stop == pc = "loop" /\ Teardown

-----------------------------------------------------------------------------
(* The loop                                                                *)

Readable(k) == state[k] = "open" /\ (sock[k] # <<>> \/ shut[k])

Waiting == {k \in Conns : state[k] = "waiting"}

\* What epoll_wait may report; the event of a client carries its slot.  raised
\* is the connection the event was raised for, which the code does not keep.
Ready ==
    {[kind |-> "listen", slot |-> 0, raised |-> None] : k \in Waiting}
    \cup {[kind |-> "client", slot |-> i, raised |-> slots[i]] :
             i \in {j \in Slots : slots[j] # None /\ Readable(slots[j])}}

EpollWait ==
    /\ pc = "loop" /\ events = <<>> /\ Ready # {}
    /\ \E S \in SUBSET Ready :
          /\ Cardinality(S) = Min({Batch, Cardinality(Ready)})
          /\ \E s \in SetToSeqs(S) : events' = s
    /\ UNCHANGED <<pc, open, net, slots, buf, accepting>>

\* on_x11_accept, up to the setup of the next connection: accept4,
\* x11_client_create and slot_alloc.  A full table rejects the client.
Accept ==
    /\ pc = "loop" /\ events # <<>> /\ Head(events).kind = "listen"
    /\ \E k \in Waiting :
         LET free == {i \in Slots : slots[i] = None} IN
           IF free = {}
           THEN /\ state' = [state EXCEPT ![k] = "closed"]
                /\ UNCHANGED <<pc, slots, accepting>>
           ELSE /\ slots' = [slots EXCEPT ![Min(free)] = k]
                /\ state' = [state EXCEPT ![k] = "accepted"]
                /\ pc' = "setup" /\ accepting' = k
    /\ UNCHANGED <<open, sock, hello, shut, wrote, buf, events>>

\* accept4 finds nobody: on_x11_accept returns.
AcceptEnd ==
    /\ pc = "loop" /\ events # <<>> /\ Head(events).kind = "listen" /\ Waiting = {}
    /\ events' = Tail(events)
    /\ UNCHANGED <<pc, open, net, slots, buf, accepting>>

\* x11_client_do_setup on a blocking socket: the loop waits for the client.
SetupDone ==
    /\ pc = "setup" /\ hello[accepting]
    /\ state' = [state EXCEPT ![accepting] = "open"]
    /\ pc' = "loop" /\ accepting' = None
    /\ UNCHANGED <<open, sock, hello, shut, wrote, slots, buf, events>>

\* A client that closes first, a bad setup request, or a failed fcntl, send or
\* epoll_ctl: the slot is freed.
SetupFails ==
    /\ pc = "setup" /\ (shut[accepting] \/ hello[accepting])
    /\ state' = [state EXCEPT ![accepting] = "closed"]
    /\ slots' = [i \in Slots |-> IF slots[i] = accepting THEN None ELSE slots[i]]
    /\ pc' = "loop" /\ accepting' = None
    /\ UNCHANGED <<open, sock, hello, shut, wrote, buf, events>>

\* The parsing loop of x11_client_drain: every complete request in the buffer
\* is dispatched, the rest is kept.
\* Mutant: one request per call.
MutParse(b) ==
    IF Len(b) < Header THEN [ok |-> TRUE, rest |-> b]
    ELSE LET n == b[1][1] IN
           IF n = 0 \/ n > Buf THEN [ok |-> FALSE, rest |-> b]
           ELSE [ok |-> TRUE, rest |-> IF Len(b) < n THEN b ELSE SubSeq(b, n + 1, Len(b))]

RECURSIVE Parse(_)
Parse(b) ==
    IF Len(b) < Header THEN [ok |-> TRUE, rest |-> b]
    ELSE LET n == b[1][1] IN
           IF n = 0 \/ n > Buf THEN [ok |-> FALSE, rest |-> b]
           ELSE IF Len(b) < n THEN [ok |-> TRUE, rest |-> b]
           ELSE Parse(SubSeq(b, n + 1, Len(b)))

\* The client and its slot are freed.
Drop(i) ==
    /\ state' = [state EXCEPT ![slots[i]] = "closed"]
    /\ slots' = [slots EXCEPT ![i] = None]
    /\ buf' = [buf EXCEPT ![slots[i]] = <<>>]
    /\ UNCHANGED sock

\* on_x11_client_ready and x11_client_drain: one recv, then the requests.  A
\* reply that cannot be written drops the client like a malformed request.
\* Mutant: the table entry of a dropped client is not cleared.
MutDrain(i) ==
    LET k == slots[i]
        room == Buf - Len(buf[k]) IN
      IF room = 0 \/ (sock[k] = <<>> /\ shut[k])
      THEN /\ state' = [state EXCEPT ![k] = "closed"]
           /\ UNCHANGED <<slots, sock, buf>>
      ELSE \E n \in 0 .. Min({room, Len(sock[k])}) :
             /\ n = 0 => sock[k] = <<>>
             /\ LET parsed == Parse(buf[k] \o SubSeq(sock[k], 1, n)) IN
                  \/ Drop(i)
                  \/ /\ parsed.ok
                     /\ buf' = [buf EXCEPT ![k] = parsed.rest]
                     /\ sock' = [sock EXCEPT ![k] = SubSeq(@, n + 1, Len(@))]
                     /\ UNCHANGED <<state, slots>>

Drain(i) ==
    LET k == slots[i]
        room == Buf - Len(buf[k]) IN
      IF room = 0 \/ (sock[k] = <<>> /\ shut[k]) THEN Drop(i)
      ELSE \E n \in 0 .. Min({room, Len(sock[k])}) :
             /\ n = 0 => sock[k] = <<>>
             /\ LET parsed == Parse(buf[k] \o SubSeq(sock[k], 1, n)) IN
                  \/ Drop(i)
                  \/ /\ parsed.ok
                     /\ buf' = [buf EXCEPT ![k] = parsed.rest]
                     /\ sock' = [sock EXCEPT ![k] = SubSeq(@, n + 1, Len(@))]
                     /\ UNCHANGED <<state, slots>>

ClientReady ==
    /\ pc = "loop" /\ events # <<>> /\ Head(events).kind = "client"
    /\ events' = Tail(events)
    /\ IF slots[Head(events).slot] = None
       THEN UNCHANGED <<state, slots, sock, buf>>
       ELSE Drain(Head(events).slot)
    /\ UNCHANGED <<pc, open, hello, shut, wrote, accepting>>

Bridge == StartConnect \/ StartHandshake \/ StartListen \/ StartEpoll
          \/ EpollWait \/ Accept \/ AcceptEnd \/ SetupDone \/ SetupFails \/ ClientReady

Next ==
    \/ Bridge \/ StartFails \/ Stop
    \/ \E k \in Conns :
          \/ ClientConnect(k) \/ ClientHello(k) \/ ClientShut(k)
          \/ \E n \in Lengths[k] : ClientWrite(k, n)

\* The process runs, and a client that connects sends its setup request or
\* closes.
Fairness ==
    /\ WF_vars(Bridge)
    /\ \A k \in Conns : WF_vars(ClientHello(k) \/ (~hello[k] /\ ClientShut(k)))

Spec == Init /\ [][Next]_vars /\ Fairness

-----------------------------------------------------------------------------
Whole(b) == Len(b) >= Header /\ Len(b) >= b[1][1]

(***************************************************************************)
(* Between two calls of x11_client_drain the buffer starts at the first    *)
(* byte of a request and holds no whole request, however recv cuts the     *)
(* stream; there is always room for more, so the branch of the code for a  *)
(* full buffer is never taken.                                             *)
(***************************************************************************)
Framed ==
    \A k \in Conns : buf[k] # <<>> =>
        buf[k][1][2] = 1 /\ ~Whole(buf[k]) /\ Len(buf[k]) < Buf

(***************************************************************************)
(* The table of slots holds exactly the connections that are accepted and  *)
(* not closed, each once.  An event still to be handled finds the          *)
(* connection it was raised for, although it carries only the index of a   *)
(* slot, and clients dropped and accepted earlier in the same batch free   *)
(* slots and take them again.  At the end nothing is left open.            *)
(***************************************************************************)
SlotsExact ==
    /\ InSlots = {k \in Conns : state[k] \in {"accepted", "open"}}
    /\ \A i, j \in Slots : slots[i] = slots[j] /\ slots[i] # None => i = j
    /\ \A e \in Range(events) : e.kind = "client" => slots[e.slot] = e.raised
    /\ pc = "exit" => open = {} /\ InSlots = {}

(***************************************************************************)
(* What a client has written is read and, once whole, dispatched, unless   *)
(* the client is dropped or the bridge ends: nobody starves behind the     *)
(* other clients, the accept loop or a half-written request.               *)
(***************************************************************************)
Served ==
    \A k \in Conns :
        (state[k] = "open" /\ sock[k] # <<>>)
            ~> ((sock[k] = <<>> /\ ~Whole(buf[k])) \/ state[k] = "closed" \/ pc = "exit")
=============================================================================
