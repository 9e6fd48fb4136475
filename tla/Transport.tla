----------------------------- MODULE Transport ------------------------------
(***************************************************************************)
(* A sending isz_conn, the socket and a receiving isz_conn, each end in    *)
(* its own process and single-threaded.                                    *)
(***************************************************************************)
EXTENDS SendQueue, RecvState

vars == <<wireVars, sendVars, recvVars>>

Init == WireInit /\ SendInit /\ RecvInit

ReceiverNext == Receive /\ UNCHANGED sendVars

Next == \/ Send /\ UNCHANGED recvVars
        \/ DrainStep /\ UNCHANGED recvVars
        \/ CloseSender /\ UNCHANGED recvVars
        \/ Wake /\ UNCHANGED sendVars
        \/ Deliver /\ UNCHANGED sendVars
        \/ Recvmsg /\ UNCHANGED sendVars
        \/ Again /\ UNCHANGED sendVars
        \/ Eof /\ UNCHANGED sendVars

Spec == Init /\ [][Next]_vars

\* The receiver's dispatch loop keeps running, and a drain that has begun is
\* finished.  Nothing obliges the sender to send, or to close.
Fairness == /\ WF_vars(ReceiverNext)
            /\ WF_vars(DrainStep /\ UNCHANGED recvVars)

FairSpec == Spec /\ Fairness
-----------------------------------------------------------------------------
(* Properties *)

Follows(u, v) == v = IF u[2] < Size[u[1]] THEN <<u[1], u[2] + 1>>
                                         ELSE <<u[1] + 1, 1>>

\* Reassembly never loses its place in the byte stream: what the receiver
\* has buffered and what is still in the socket is one gapless run of frames
\* that starts with the header of the next message to deliver, and while the
\* sender is alive that run ends with a whole frame and its queue continues
\* it without a gap up to the last message accepted.
StreamIntact ==
    LET s == buf \o sock
        last == IF s = <<>> THEN Len(got) ELSE s[Len(s)][1]
    IN  ~receiverClosed =>
        /\ s # <<>> => s[1] = <<Len(got) + 1, 1>>
        /\ \A i \in 1 .. Len(s) - 1 : Follows(s[i], s[i + 1])
        /\ ~dead => /\ s # <<>> => s[Len(s)][2] = Size[last]
                    /\ ~senderClosed => /\ last + Len(queue) = Len(accepted)
                                        /\ \A i \in 1 .. Len(queue) :
                                               queue[i] = last + i

\* Direct sends and queued sends together are one FIFO channel: a message
\* never overtakes one that is blocked in the queue (isz_conn.c:147-149).
Channel == INSTANCE FifoChannel
           WITH Messages <- Msgs, sent <- accepted,
                received <- [k \in 1 .. Len(got) |-> got[k].msg]
ImplementsFifo == Channel!FSpec

Delivered == {got[k].msg : k \in 1 .. Len(got)}
FdsGiven(k) == {got[k].fds[i] : i \in 1 .. Len(got[k].fds)}

\* A descriptor is handed to one message only, never later than the message
\* it was sent with (whose handler is the last that could want it), and the
\* stash never overflows between two ends that follow the protocol, so none
\* is lost by the reset at isz_protocol.c:407.
FdsAccounted ==
    /\ leaked = {}
    /\ \A k \in 1 .. Len(got) : \A i \in 1 .. NFds[got[k].msg] :
           \E j \in 1 .. k : <<got[k].msg, i>> \in FdsGiven(j)
    /\ \A j, k \in 1 .. Len(got) :
           j # k => FdsGiven(j) \cap FdsGiven(k) = {}

\* A frame that is whole in the socket reaches its handler, also when the
\* peer closes right after it; only a protocol violation ends the connection
\* earlier.  No message is left behind in the reassembly buffer when the
\* loop goes back to epoll.
WrittenIsRead ==
    \A m \in Msgs :
        (\E i \in 1 .. Len(sock) : sock[i] = <<m, Size[m]>>)
            ~> (m \in Delivered \/ Fatal \cap Delivered # {})
=============================================================================
