-------------------------------- MODULE Wire --------------------------------
(***************************************************************************)
(* One direction of a client connection: the Unix stream socket between an *)
(* isz_conn that sends and an isz_conn that receives.                      *)
(*                                                                         *)
(* Messages are numbered in the order they are sent.  A frame is a         *)
(* sequence of units <<m, p>>: unit 1 holds the length field, the rest is  *)
(* the message id and the payload.  Descriptors ride on the first unit of  *)
(* their frame (isz_proto_send_frame puts them in the same sendmsg).       *)
(*                                                                         *)
(* The kernel side follows unix(7): a stream recvmsg joins data of several *)
(* sendmsg calls, and ancillary data is a barrier, so one recvmsg returns  *)
(* at most the descriptors of one sendmsg and nothing beyond that call's   *)
(* data -- but possibly data of earlier calls in front of it.              *)
(***************************************************************************)
EXTENDS Naturals, Sequences, FiniteSetsExt

CONSTANTS N,        \* how many messages are sent
          Size,     \* the number of units of each frame
          NFds,     \* the number of descriptors each message carries
          SockCap   \* units the socket buffer holds (SO_SNDBUF)

Msgs == 1 .. N

ASSUME WireAssumption == /\ N \in Nat \ {0}
                         /\ SockCap \in Nat \ {0}
                         /\ Size \in [Msgs -> 1 .. SockCap]
                         /\ NFds \in [Msgs -> Nat]

VARIABLES sock,           \* the units in the socket buffer
          senderClosed,   \* the sending end has closed its descriptor
          receiverClosed  \* the receiving end has closed its descriptor

wireVars == <<sock, senderClosed, receiverClosed>>

Units == {<<m, p>> : m \in Msgs, p \in 1 .. SockCap}
Frame(m) == [p \in 1 .. Size[m] |-> <<m, p>>]
FdsOf(m) == [i \in 1 .. NFds[m] |-> <<m, i>>]

WireInit == /\ sock = <<>>
            /\ senderClosed = FALSE
            /\ receiverClosed = FALSE

Room == SockCap - Len(sock)

(* isz_proto_send_frame: the three outcomes of its one sendmsg. *)
FrameSent(m) == /\ ~receiverClosed
                /\ Size[m] <= Room
                /\ sock' = sock \o Frame(m)

FrameBlocked(m) == /\ ~receiverClosed
                   /\ Size[m] > Room
                   /\ UNCHANGED sock

\* A hard error (EPIPE, ENOMEM, ...), or a partial write that leaves the first
\* part of the frame behind.
FrameFailed(m) == \/ UNCHANGED sock
                  \/ /\ ~receiverClosed
                     /\ 0 < Room /\ Room < Size[m]
                     /\ sock' = sock \o SubSeq(Frame(m), 1, Room)

(* recvmsg with space for cap units. *)
Carriers == {i \in 1 .. Len(sock) : sock[i][2] = 1 /\ NFds[sock[i][1]] > 0}

Readable(cap) ==
    LET barrier == IF Carriers = {} THEN Len(sock)
                   ELSE Min(Carriers) + Size[sock[Min(Carriers)][1]] - 1
    IN  Min({cap, Len(sock), barrier})

FdsWithin(n) == IF \E i \in Carriers : i <= n
                THEN FdsOf(sock[Min(Carriers)][1]) ELSE <<>>
=============================================================================
