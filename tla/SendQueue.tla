----------------------------- MODULE SendQueue ------------------------------
(***************************************************************************)
(* The sending half of an isz_conn (src/protocol/isz_conn.c): a direct     *)
(* sendmsg when nothing is queued, a bounded queue behind it, and the dead *)
(* flag.  The caller is either the bridge's isz_client_send                *)
(* (x11bridge/isz_client.c), which drains after every send, or a sender of *)
(* the server (isz_client_dispatch.c), which does not; here either may.    *)
(***************************************************************************)
EXTENDS Wire

CONSTANT MaxEvents  \* ISZ_MAX_EVENTS_PER_CLIENT

ASSUME SendAssumption == MaxEvents \in Nat \ {0}

VARIABLES queue,     \* conn->send_head .. send_tail
          dead,      \* conn->dead
          draining,  \* isz_conn_drain is in its loop
          calls,     \* history: calls of isz_conn_send
          accepted   \* history: messages isz_conn_send returned ISZ_OK for

sendVars == <<queue, dead, draining, calls, accepted>>

SendInit == /\ queue = <<>>
            /\ dead = FALSE
            /\ draining = FALSE
            /\ calls = 0
            /\ accepted = <<>>

\* isz_conn_send returns ISZ_OK; isz_client_send goes on to drain, the server
\* does not.
Accept(m) == /\ accepted' = Append(accepted, m)
             /\ draining' \in BOOLEAN
             /\ UNCHANGED dead

\* A hard send error, a full queue (ISZ_ERR_CLIENT_TOO_SLOW) or no memory.
Die == /\ dead' = TRUE
       /\ UNCHANGED <<queue, draining, accepted>>

Enqueue(m) == \/ /\ Len(queue) < MaxEvents
                 /\ queue' = Append(queue, m)
                 /\ Accept(m)
              \/ Die  \* the queue is full, or isz_msg_node_alloc fails

\* Mutant: a send skips the queue whenever the socket has room.
MutSendSkipsQueue(m) == \/ FrameSent(m) /\ Accept(m) /\ UNCHANGED queue
                        \/ FrameBlocked(m) /\ Enqueue(m)
                        \/ FrameFailed(m) /\ Die

\* Mutant: a partial write or a broken pipe is treated as EAGAIN.
MutSendRetriesPartial(m) ==
    \/ /\ queue = <<>>
       /\ \/ FrameSent(m) /\ Accept(m) /\ UNCHANGED queue
          \/ (FrameBlocked(m) \/ FrameFailed(m)) /\ Enqueue(m)
    \/ queue # <<>> /\ Enqueue(m) /\ UNCHANGED sock

SendLive(m) == \/ /\ queue = <<>>
                  /\ \/ FrameSent(m) /\ Accept(m) /\ UNCHANGED queue
                     \/ FrameBlocked(m) /\ Enqueue(m)
                     \/ FrameFailed(m) /\ Die
               \/ queue # <<>> /\ Enqueue(m) /\ UNCHANGED sock

Send == /\ ~senderClosed /\ ~draining
        /\ calls < N
        /\ calls' = calls + 1
        /\ \/ ~dead /\ SendLive(calls + 1)
           \/ dead /\ UNCHANGED <<queue, dead, draining, accepted, sock>>
        /\ UNCHANGED <<senderClosed, receiverClosed>>

DrainStep == /\ draining
             /\ \/ /\ queue = <<>>
                   /\ draining' = FALSE
                   /\ UNCHANGED <<queue, dead, sock>>
                \/ /\ queue # <<>>
                   /\ \/ /\ FrameSent(Head(queue))
                         /\ queue' = Tail(queue)
                         /\ UNCHANGED <<dead, draining>>
                      \/ /\ FrameBlocked(Head(queue))
                         /\ draining' = FALSE
                         /\ UNCHANGED <<queue, dead>>
                      \/ /\ FrameFailed(Head(queue))
                         /\ dead' = TRUE
                         /\ draining' = FALSE
                         /\ UNCHANGED queue
             /\ UNCHANGED <<calls, accepted, senderClosed, receiverClosed>>

\* isz_conn_close at the sending end.
CloseSender == /\ ~senderClosed /\ ~draining
               /\ senderClosed' = TRUE
               /\ queue' = <<>>
               /\ UNCHANGED <<dead, draining, calls, accepted, sock,
                              receiverClosed>>
=============================================================================
