---------------------------- MODULE WorkService ----------------------------
(***************************************************************************)
(* What the offload pool promises its callers (SPEC 5): jobs start in the  *)
(* order they were submitted, each runs exactly once, its fence is         *)
(* signalled once and only after the job function has returned, and the    *)
(* service is torn down only when nothing is left to do.                   *)
(***************************************************************************)
EXTENDS Naturals, Sequences

CONSTANT Jobs

VARIABLES order,    \* the jobs submitted so far, oldest first
          begun,    \* how many of them have started
          ran,      \* ran[j]: how often the function of job j has returned
          fence,    \* fence[j]: how often the fence of job j was signalled
          closed    \* the service has been torn down

svars == <<order, begun, ran, fence, closed>>

Started == {order[i] : i \in 1 .. begun}

SInit == /\ order = <<>>
         /\ begun = 0
         /\ ran = [j \in Jobs |-> 0]
         /\ fence = [j \in Jobs |-> 0]
         /\ closed = FALSE

Accept(j) == /\ ~closed
             /\ \A i \in 1 .. Len(order) : order[i] # j
             /\ order' = Append(order, j)
             /\ UNCHANGED <<begun, ran, fence, closed>>

Begin == /\ ~closed
         /\ begun < Len(order)
         /\ begun' = begun + 1
         /\ UNCHANGED <<order, ran, fence, closed>>

Return(j) == /\ ~closed
             /\ j \in Started
             /\ ran[j] = 0
             /\ ran' = [ran EXCEPT ![j] = 1]
             /\ UNCHANGED <<order, begun, fence, closed>>

Signal(j) == /\ ~closed
             /\ ran[j] = 1
             /\ fence[j] = 0
             /\ fence' = [fence EXCEPT ![j] = 1]
             /\ UNCHANGED <<order, begun, ran, closed>>

Close == /\ ~closed
         /\ begun = Len(order)
         /\ \A j \in Started : fence[j] = 1
         /\ closed' = TRUE
         /\ UNCHANGED <<order, begun, ran, fence>>

SNext == \/ \E j \in Jobs : Accept(j) \/ Return(j) \/ Signal(j)
         \/ Begin
         \/ Close

SSpec == SInit /\ [][SNext]_svars
=============================================================================
