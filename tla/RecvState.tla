----------------------------- MODULE RecvState ------------------------------
(***************************************************************************)
(* The receiving half of an isz_conn: isz_proto_recv_state_read            *)
(* (src/protocol/isz_protocol.c) driven by isz_recv_client_messages        *)
(* (src/isz_listen.c), which is woken by level-triggered EPOLLIN and loops *)
(* until the socket is empty.                                              *)
(***************************************************************************)
EXTENDS Wire

CONSTANTS BufCap,   \* units the reassembly buffer holds (ISZ_PROTO_MAX_MESSAGE)
          MaxFds,   \* ISZ_PROTO_MAX_FDS
          Fatal     \* messages whose handler reports a protocol violation

ASSUME RecvAssumption == /\ BufCap \in Nat /\ MaxFds \in Nat
                         /\ \A m \in Msgs : /\ Size[m] <= BufCap
                                            /\ NFds[m] <= MaxFds
                         /\ Fatal \subseteq Msgs

VARIABLES buf,      \* state->buf[0 .. have)
          pending,  \* state->pending_fds
          reading,  \* isz_recv_client_messages is in its loop
          got,      \* history: messages handed to the handler, with their fds
          leaked    \* descriptors received, not closed and no longer known

recvVars == <<buf, pending, reading, got, leaked>>

RecvInit == /\ buf = <<>>
            /\ pending = <<>>
            /\ reading = FALSE
            /\ got = <<>>
            /\ leaked = {}

\* The length field of the frame at the front says that all of it is there.
Complete == buf # <<>> /\ Len(buf) >= Size[buf[1][1]]

\* epoll reports the descriptor: data, or the peer has closed.
Wake == /\ ~reading /\ ~receiverClosed
        /\ sock # <<>> \/ senderClosed
        /\ reading' = TRUE
        /\ UNCHANGED <<buf, pending, got, leaked>>
        /\ UNCHANGED wireVars

\* isz_client_cleanup -> isz_conn_close: the reassembly state is discarded
\* and the descriptors it still knows are closed.
Cleanup == /\ receiverClosed' = TRUE
           /\ reading' = FALSE
           /\ buf' = <<>>
           /\ pending' = <<>>

\* Mutant: the handler gets the descriptors but the stash keeps them.
MutDeliverKeepsFds ==
    /\ reading /\ Complete
    /\ got' = Append(got, [msg |-> buf[1][1], fds |-> pending])
    /\ IF buf[1][1] \in Fatal
       THEN Cleanup
       ELSE /\ buf' = SubSeq(buf, Size[buf[1][1]] + 1, Len(buf))
            /\ UNCHANGED <<pending, reading, receiverClosed>>
    /\ UNCHANGED <<leaked, sock, senderClosed>>

\* Mutant: the loop goes back to epoll after one message.
MutDeliverOnce ==
    /\ reading /\ Complete
    /\ got' = Append(got, [msg |-> buf[1][1], fds |-> pending])
    /\ IF buf[1][1] \in Fatal
       THEN Cleanup
       ELSE /\ buf' = SubSeq(buf, Size[buf[1][1]] + 1, Len(buf))
            /\ pending' = <<>>
            /\ reading' = FALSE
            /\ UNCHANGED receiverClosed
    /\ UNCHANGED <<leaked, sock, senderClosed>>

\* A complete message: it gets every pending descriptor, the handler runs,
\* and descriptors the handler did not take are closed.
Deliver == /\ reading /\ Complete
           /\ got' = Append(got, [msg |-> buf[1][1], fds |-> pending])
           /\ IF buf[1][1] \in Fatal
              THEN Cleanup
              ELSE /\ buf' = SubSeq(buf, Size[buf[1][1]] + 1, Len(buf))
                   /\ pending' = <<>>
                   /\ UNCHANGED <<reading, receiverClosed>>
           /\ UNCHANGED <<leaked, sock, senderClosed>>

\* recvmsg returns data; the descriptors that came with it are stashed.  Too
\* many of them: isz_extract_fds closes the new ones, the count is reset, and
\* the connection is closed.
Recvmsg == LET n == Readable(BufCap - Len(buf)) IN
           /\ reading /\ ~Complete /\ sock # <<>>
           /\ sock' = SubSeq(sock, n + 1, Len(sock))
           /\ IF Len(pending) + Len(FdsWithin(n)) > MaxFds
              THEN /\ leaked' = leaked \cup
                                {pending[i] : i \in 1 .. Len(pending)}
                   /\ Cleanup
              ELSE /\ buf' = buf \o SubSeq(sock, 1, n)
                   /\ pending' = pending \o FdsWithin(n)
                   /\ UNCHANGED <<reading, leaked, receiverClosed>>
           /\ UNCHANGED <<got, senderClosed>>

\* recvmsg returns EAGAIN: wait for the next EPOLLIN.
Again == /\ reading /\ ~Complete
         /\ sock = <<>> /\ ~senderClosed
         /\ reading' = FALSE
         /\ UNCHANGED <<buf, pending, got, leaked>>
         /\ UNCHANGED wireVars

\* recvmsg returns 0: the peer has closed.
Eof == /\ reading /\ ~Complete
       /\ sock = <<>> /\ senderClosed
       /\ Cleanup
       /\ UNCHANGED <<got, leaked, sock, senderClosed>>

Receive == Wake \/ Deliver \/ Recvmsg \/ Again \/ Eof
=============================================================================
