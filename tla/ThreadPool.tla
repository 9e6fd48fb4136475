----------------------------- MODULE ThreadPool -----------------------------
(***************************************************************************)
(* The offload thread pool (src/util/isz_thread_pool.c): a FIFO queue      *)
(* under one mutex and one condition variable, worker threads that pop,    *)
(* run and signal an eventfd fence, and create/destroy on the main thread. *)
(*                                                                         *)
(* Each region the code runs with pool->lock held is one atomic action;    *)
(* what happens outside the lock (running fn, writing the fence) is a step *)
(* of its own.  A worker in pthread_cond_wait is "waiting"; it may also    *)
(* wake spuriously, as POSIX allows.  A submission that fails (no pool, no *)
(* eventfd, no memory) returns -1 and leaves no trace, so it is a stutter. *)
(***************************************************************************)
EXTENDS Naturals, Sequences

CONSTANTS Workers,   \* the threads the pool asks for (ISZ_THREAD_POOL_SIZE)
          Jobs,      \* the work items ever submitted
          NoJob      \* "no item"

ASSUME PoolAssumption == /\ Workers # {}
                         /\ NoJob \notin Jobs

VARIABLES queue,     \* head..tail of the work list
          shutdown,  \* pool->shutdown
          main,      \* where the main thread is in create / destroy
          wpc,       \* where each worker is
          item,      \* the item a worker has popped
          ran,       \* how often each job's fn has returned
          fence,     \* the counter of each job's eventfd
          order,     \* history: the jobs in submission order
          begun      \* history: how many of them were popped

vars == <<queue, shutdown, main, wpc, item, ran, fence, order, begun>>

MainStates == {"creating", "open", "rollback", "failed", "joining", "destroyed"}
WorkerStates == {"unspawned", "ready", "waiting", "run", "signal", "exited"}

TypeOK == /\ queue \in Seq(Jobs)
          /\ shutdown \in BOOLEAN
          /\ main \in MainStates
          /\ wpc \in [Workers -> WorkerStates]
          /\ item \in [Workers -> Jobs \cup {NoJob}]
          /\ ran \in [Jobs -> Nat]
          /\ fence \in [Jobs -> Nat]
          /\ order \in Seq(Jobs)
          /\ begun \in Nat

Init == /\ queue = <<>>
        /\ shutdown = FALSE
        /\ main = "creating"
        /\ wpc = [w \in Workers |-> "unspawned"]
        /\ item = [w \in Workers |-> NoJob]
        /\ ran = [j \in Jobs |-> 0]
        /\ fence = [j \in Jobs |-> 0]
        /\ order = <<>>
        /\ begun = 0

\* pthread_cond_broadcast: every waiter goes back to re-check its condition.
Broadcast == wpc' = [w \in Workers |-> IF wpc[w] = "waiting" THEN "ready"
                                                             ELSE wpc[w]]
-----------------------------------------------------------------------------
(* isz_thread_pool_create *)

Spawn(w) == /\ main = "creating"
            /\ wpc[w] = "unspawned"
            /\ wpc' = [wpc EXCEPT ![w] = "ready"]
            /\ main' = IF \A v \in Workers \ {w} : wpc[v] # "unspawned"
                       THEN "open" ELSE main
            /\ UNCHANGED <<queue, shutdown, item, ran, fence, order, begun>>

\* pthread_create fails: tell the workers already spawned to exit, then join.
SpawnFails == /\ main = "creating"
              /\ main' = "rollback"
              /\ shutdown' = TRUE
              /\ Broadcast
              /\ UNCHANGED <<queue, item, ran, fence, order, begun>>

-----------------------------------------------------------------------------
(* isz_thread_pool_submit_work: called by the application while it has the *)
(* pool, or by a job that is running on a worker.                          *)

CanSubmit == main = "open" \/ \E w \in Workers : wpc[w] = "run"

\* Mutant: the submitter forgets pthread_cond_signal.
MutNoCondSignal == UNCHANGED wpc

\* pthread_cond_signal: one waiter, if there is any, is released.
CondSignal == \/ /\ \A w \in Workers : wpc[w] # "waiting"
                 /\ UNCHANGED wpc
              \/ \E w \in Workers : /\ wpc[w] = "waiting"
                                    /\ wpc' = [wpc EXCEPT ![w] = "ready"]

\* Mutant: the node is linked at the head, which makes the queue a stack.
MutSubmitAtHead(j) == /\ CanSubmit
                      /\ \A i \in 1 .. Len(order) : order[i] # j
                      /\ queue' = <<j>> \o queue
                      /\ order' = Append(order, j)
                      /\ CondSignal
                      /\ UNCHANGED <<shutdown, main, item, ran, fence, begun>>

Submit(j) == /\ CanSubmit
             /\ \A i \in 1 .. Len(order) : order[i] # j
             /\ queue' = Append(queue, j)
             /\ order' = Append(order, j)
             /\ CondSignal
             /\ UNCHANGED <<shutdown, main, item, ran, fence, begun>>

-----------------------------------------------------------------------------
(* isz_thread_pool_worker *)

\* The locked region: wait, exit, or pop the head of the queue.
Wait(w) == /\ queue = <<>>
           /\ ~shutdown
           /\ wpc' = [wpc EXCEPT ![w] = "waiting"]
           /\ UNCHANGED <<queue, item, begun>>

\* Mutant: a worker leaves as soon as it sees shutdown.
MutExitAtOnce(w) == /\ shutdown
                    /\ wpc' = [wpc EXCEPT ![w] = "exited"]
                    /\ UNCHANGED <<queue, item, begun>>

Exit(w) == /\ queue = <<>>
           /\ shutdown
           /\ wpc' = [wpc EXCEPT ![w] = "exited"]
           /\ UNCHANGED <<queue, item, begun>>

Pop(w) == /\ queue # <<>>
          /\ item' = [item EXCEPT ![w] = Head(queue)]
          /\ queue' = Tail(queue)
          /\ begun' = begun + 1
          /\ wpc' = [wpc EXCEPT ![w] = "run"]

Locked(w) == /\ wpc[w] = "ready"
             /\ Wait(w) \/ Exit(w) \/ Pop(w)
             /\ UNCHANGED <<shutdown, main, ran, fence, order>>

\* Mutant: the fence is written before fn is called.
MutFenceFirst(w) == /\ wpc[w] = "run"
                    /\ fence' = [fence EXCEPT ![item[w]] = @ + 1]
                    /\ wpc' = [wpc EXCEPT ![w] = "signal"]
                    /\ UNCHANGED <<queue, shutdown, main, item, ran, order, begun>>

\* item->fn returns.
Run(w) == /\ wpc[w] = "run"
          /\ ran' = [ran EXCEPT ![item[w]] = @ + 1]
          /\ wpc' = [wpc EXCEPT ![w] = "signal"]
          /\ UNCHANGED <<queue, shutdown, main, item, fence, order, begun>>

\* write(fence_fd), free(item), and round the loop.
SignalFence(w) == /\ wpc[w] = "signal"
                  /\ fence' = [fence EXCEPT ![item[w]] = @ + 1]
                  /\ item' = [item EXCEPT ![w] = NoJob]
                  /\ wpc' = [wpc EXCEPT ![w] = "ready"]
                  /\ UNCHANGED <<queue, shutdown, main, ran, order, begun>>

SpuriousWake(w) == /\ wpc[w] = "waiting"
                   /\ wpc' = [wpc EXCEPT ![w] = "ready"]
                   /\ UNCHANGED <<queue, shutdown, main, item, ran, fence,
                                  order, begun>>

WorkerStep(w) == Locked(w) \/ Run(w) \/ SignalFence(w)

-----------------------------------------------------------------------------
(* isz_thread_pool_destroy *)

\* Mutant: destroy does not wake the waiting workers.
MutDestroySilent == /\ main = "open"
                    /\ main' = "joining"
                    /\ shutdown' = TRUE
                    /\ UNCHANGED <<queue, wpc, item, ran, fence, order, begun>>

Destroy == /\ main = "open"
           /\ main' = "joining"
           /\ shutdown' = TRUE
           /\ Broadcast
           /\ UNCHANGED <<queue, item, ran, fence, order, begun>>

\* pthread_join of every worker that was spawned, then the pool is freed.
Join == /\ main \in {"joining", "rollback"}
        /\ \A w \in Workers : wpc[w] \in {"exited", "unspawned"}
        /\ main' = IF main = "joining" THEN "destroyed" ELSE "failed"
        /\ UNCHANGED <<queue, shutdown, wpc, item, ran, fence, order, begun>>

-----------------------------------------------------------------------------

Next == \/ SpawnFails \/ Destroy \/ Join
        \/ \E w \in Workers : Spawn(w) \/ WorkerStep(w) \/ SpuriousWake(w)
        \/ \E j \in Jobs : Submit(j)

Spec == Init /\ [][Next]_vars

\* The kernel schedules every runnable thread, job functions return, and the
\* main thread finishes a create and a join it has begun.  Nothing obliges
\* the application to submit or to destroy.
Fairness == /\ \A w \in Workers : WF_vars(WorkerStep(w))
            /\ WF_vars(\E w \in Workers : Spawn(w))
            /\ WF_vars(Join)

FairSpec == Spec /\ Fairness
-----------------------------------------------------------------------------
(* Properties *)

Submitted == {order[i] : i \in 1 .. Len(order)}
Freed == main \in {"destroyed", "failed"}

\* When destroy (or the rollback of a failed create) frees the pool, no
\* worker can still reach it, the queue is empty -- the code frees it with
\* "No defensive free" (isz_thread_pool.c:125) -- and every job that was ever
\* submitted has run once and signalled its fence once.
DestroyDrains ==
    Freed => /\ \A w \in Workers : wpc[w] \in {"exited", "unspawned"}
             /\ queue = <<>>
             /\ \A j \in Submitted : ran[j] = 1 /\ fence[j] = 1

\* A caller may release what the job references once the fence is readable
\* (isz_thread_pool.h:5-8), so no worker may be before or inside the function
\* of a job whose fence has been signalled.
FenceMeansDone ==
    \A j \in Jobs : fence[j] > 0 =>
        /\ ran[j] = 1
        /\ \A w \in Workers : wpc[w] = "run" => item[w] # j
        /\ \A i \in 1 .. Len(queue) : queue[i] # j

\* Every job submitted gets its fence signalled: no wakeup is lost between
\* pthread_cond_signal and the while loop around pthread_cond_wait.
EveryJobSignals == \A j \in Jobs : (j \in Submitted) ~> (fence[j] = 1)

\* Destroy and the rollback of create return: every worker sees shutdown.
DestroyReturns == (main \in {"joining", "rollback"}) ~> Freed

\* The pool implements the abstract work service.
Service == INSTANCE WorkService WITH closed <- Freed
ImplementsService == Service!SSpec
=============================================================================
