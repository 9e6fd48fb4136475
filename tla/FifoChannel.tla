---------------------------- MODULE FifoChannel -----------------------------
(***************************************************************************)
(* What a connection promises the two ends: the messages handed to the     *)
(* handler are, in order and without gaps or repeats, the ones the sender  *)
(* was told were accepted.                                                 *)
(***************************************************************************)
EXTENDS Naturals, Sequences

CONSTANT Messages
VARIABLES sent, received

FInit == sent = <<>> /\ received = <<>>

Put(m) == /\ sent' = Append(sent, m)
          /\ UNCHANGED received

Get == /\ Len(received) < Len(sent)
       /\ received' = Append(received, sent[Len(received) + 1])
       /\ UNCHANGED sent

FNext == Get \/ \E m \in Messages : Put(m)

FSpec == FInit /\ [][FNext]_<<sent, received>>
=============================================================================
