----------------------------- MODULE QueueProofs -----------------------------
(***************************************************************************)
(* Proofs about the two queues between one that runs ahead and one that    *)
(* follows: the messages of SurfaceIds, for a bridge any number of them    *)
(* ahead of the server, and the jobs of ThreadPool, for any workers and    *)
(* jobs.                                                                   *)
(***************************************************************************)
EXTENDS ThreadPool, SurfaceIds, TLAPS

-----------------------------------------------------------------------------
(* Ids.  The two counters agree however far the bridge runs ahead.  The    *)
(* inductive invariant follows the history value n along the queue: it     *)
(* starts at the server's counter, rises by one with every create, and     *)
(* ends at the bridge's.                                                   *)

IdType ==
    /\ next \in Nat /\ srvNext \in Nat
    /\ wire \in Seq(Message)

Chained ==
    /\ \A i \in 1 .. Len(wire) :
          wire[i].n = IF i = 1 THEN srvNext ELSE After(wire[i - 1])
    /\ next = IF Len(wire) = 0 THEN srvNext ELSE After(wire[Len(wire)])

\* What holds of message i of w when the objects of the server are o.
Created(o, w, i, k) ==
    \/ k \in o
    \/ \E j \in 1 .. Len(w) : j < i /\ w[j].op = "create" /\ w[j].id = k

NotDestroyed(w, i, k) ==
    \A j \in 1 .. Len(w) : j < i /\ w[j].op = "destroy" => w[j].id # k

Named ==
    \A i \in 1 .. Len(wire) :
        /\ wire[i].op = "create" => wire[i].id = wire[i].n
        /\ wire[i].op # "create" => /\ Created(objs, wire, i, wire[i].id)
                                    /\ NotDestroyed(wire, i, wire[i].id)

HeldNamed ==
    \A k \in held : /\ Created(objs, wire, Len(wire) + 1, k)
                    /\ NotDestroyed(wire, Len(wire) + 1, k)

BelowNext == \A i \in 1 .. Len(wire) : wire[i].id < next

IdInv == IdType /\ Chained /\ Named /\ HeldNamed /\ BelowNext

(* With nothing sent, both counters stand at 1. *)
LEMMA InitIds == IdInit => IdInv
  <1> SUFFICES ASSUME IdInit PROVE IdInv
    OBVIOUS
  <1>1. wire = <<>> /\ Len(wire) = 0
    BY DEF IdInit
  <1>2. <<>> \in Seq(Message)
    OBVIOUS
  <1>3. IdType
    BY <1>1, <1>2 DEF IdInit, IdType
  <1>4. Chained /\ Named /\ BelowNext
    BY <1>1 DEF IdInit, Chained, Named, BelowNext
  <1>5. HeldNamed
    BY DEF IdInit, HeldNamed
  <1> QED
    BY <1>3, <1>4, <1>5 DEF IdInv

\* What the messages of the old queue keep when messages are added.
LEMMA SendIds == IdInv /\ Send => IdInv'
  <1> SUFFICES ASSUME IdInv, Send PROVE IdInv'
    OBVIOUS
  <1>t. /\ next \in Nat /\ srvNext \in Nat /\ wire \in Seq(Message)
        /\ wire' \in Seq(Message) /\ srvNext' = srvNext /\ objs' = objs
    BY DEF IdInv, IdType, Send
  <1> DEFINE L == Len(wire)
             M == Len(wire')
  <1>l. L \in Nat /\ M \in Nat /\ L <= M
    BY <1>t DEF Send
  <1>o. \A i \in 1 .. L : wire'[i] = wire[i]
    BY DEF Send
  <1>m. \A i \in 1 .. M : wire'[i] \in Message
    BY <1>t
  <1>b. \A i \in 1 .. L : /\ wire'[i] = wire[i] /\ wire[i].id < next
                          /\ wire[i].id \in Nat
    <2> SUFFICES ASSUME NEW i \in 1 .. L
                 PROVE  wire[i].id < next /\ wire[i].id \in Nat
      BY <1>o
    <2>1. wire[i] \in Message
      BY <1>t
    <2> QED
      BY <2>1 DEF IdInv, BelowNext, Message
  <1>a. \A i \in 1 .. M : After(wire'[i]) \in Nat
    BY <1>m DEF After, Message
  <1>f. \A i \in 1 .. M : i \in 1 .. L \/ i \in Fresh
    BY <1>l DEF Fresh
  <1>1. IdType'
    <2>1. CASE M = L
      BY <2>1, <1>t DEF IdType, Send
    <2>2. CASE M # L
      BY <2>2, <1>t, <1>l, <1>a DEF IdType, Send
    <2> QED
      BY <2>1, <2>2
  <1>2. Chained'
    <2>1. ASSUME NEW i \in 1 .. M
          PROVE  wire'[i].n = IF i = 1 THEN srvNext ELSE After(wire'[i - 1])
      <3>1. CASE i \in 1 .. L
        <4>1. wire[i].n = IF i = 1 THEN srvNext ELSE After(wire[i - 1])
          BY <3>1 DEF IdInv, Chained
        <4>2. i # 1 => wire'[i - 1] = wire[i - 1]
          BY <3>1, <1>o, <1>l
        <4> QED
          BY <3>1, <4>1, <4>2, <1>o
      <3>2. CASE i \in Fresh
        <4>1. wire'[i].n = IF i = L + 1 THEN next ELSE After(wire'[i - 1])
          BY <3>2 DEF Send
        <4>2. CASE i = L + 1 /\ L = 0
          BY <4>1, <4>2, <1>l DEF IdInv, Chained
        <4>3. CASE i = L + 1 /\ L # 0
          <5>1. next = After(wire[L])
            BY <4>3 DEF IdInv, Chained
          <5>2. wire'[i - 1] = wire[L] /\ i # 1
            BY <4>3, <1>l, <1>o
          <5> QED
            BY <4>1, <4>3, <5>1, <5>2
        <4>4. CASE i # L + 1
          BY <4>1, <4>4, <3>2, <1>l DEF Fresh
        <4> QED
          BY <4>2, <4>3, <4>4
      <3> QED
        BY <3>1, <3>2, <1>f
    <2>2. next' = IF M = 0 THEN srvNext ELSE After(wire'[M])
      <3>1. CASE M = L /\ M = 0
        BY <3>1 DEF Send, IdInv, Chained
      <3>2. CASE M = L /\ M # 0
        <4>1. next = After(wire[L]) /\ wire'[M] = wire[L]
          BY <3>2, <1>o, <1>l DEF IdInv, Chained
        <4> QED
          BY <4>1, <3>2 DEF Send
      <3>3. CASE M # L
        BY <3>3, <1>l DEF Send
      <3> QED
        BY <3>1, <3>2, <3>3
    <2> QED
      BY <2>1, <2>2, <1>t DEF Chained
  <1>3. Named'
    <2> SUFFICES ASSUME NEW i \in 1 .. M
                 PROVE  /\ wire'[i].op = "create" => wire'[i].id = wire'[i].n
                        /\ wire'[i].op # "create" =>
                              /\ Created(objs, wire', i, wire'[i].id)
                              /\ NotDestroyed(wire', i, wire'[i].id)
      BY <1>t DEF Named
    <2>1. CASE i \in 1 .. L
      <3>1. wire'[i].op = "create" => wire'[i].id = wire'[i].n
        BY <2>1, <1>o DEF IdInv, Named
      <3>2. ASSUME wire'[i].op # "create"
            PROVE  Created(objs, wire', i, wire'[i].id)
        <4>1. Created(objs, wire, i, wire[i].id)
          BY <3>2, <2>1, <1>o DEF IdInv, Named
        <4> QED
          BY <4>1, <2>1, <1>o, <1>l DEF Created
      <3>3. ASSUME wire'[i].op # "create"
            PROVE  NotDestroyed(wire', i, wire'[i].id)
        <4>1. NotDestroyed(wire, i, wire[i].id)
          BY <3>3, <2>1, <1>o DEF IdInv, Named
        <4>2. \A j \in 1 .. M : j < i => j \in 1 .. L
          BY <2>1, <1>l
        <4> QED
          BY <4>1, <4>2, <2>1, <1>o DEF NotDestroyed
      <3> QED
        BY <3>1, <3>2, <3>3
    <2>2. CASE i \in Fresh
      <3>1. wire'[i].op = "create" => wire'[i].id = wire'[i].n
        BY <2>2 DEF Send
      <3>2. ASSUME wire'[i].op # "create"
            PROVE  Created(objs, wire', i, wire'[i].id)
        <4>1. CASE wire'[i].id \in held
          <5>1. Created(objs, wire, L + 1, wire'[i].id)
            BY <4>1 DEF IdInv, HeldNamed
          <5>2. \A j \in 1 .. L : j \in 1 .. M /\ j < i
            BY <2>2, <1>l DEF Fresh
          <5> QED
            BY <5>1, <5>2, <1>o DEF Created
        <4>2. CASE wire'[i].id \notin held
          <5>1. PICK j \in Fresh : /\ j < i /\ wire'[j].op = "create"
                                   /\ wire'[j].id = wire'[i].id
            BY <3>2, <2>2, <4>2 DEF Send
          <5>2. j \in 1 .. M
            BY <1>l DEF Fresh
          <5> QED
            BY <5>1, <5>2 DEF Created
        <4> QED
          BY <4>1, <4>2
      <3>3. ASSUME wire'[i].op # "create"
            PROVE  NotDestroyed(wire', i, wire'[i].id)
        <4> SUFFICES ASSUME NEW j \in 1 .. M, j < i, wire'[j].op = "destroy",
                            wire'[j].id = wire'[i].id
                     PROVE  FALSE
          BY DEF NotDestroyed
        <4>1. j \in 1 .. L
          BY <3>3, <2>2, <1>f DEF Send
        <4>2. CASE wire'[i].id \in held
          <5>1. NotDestroyed(wire, L + 1, wire'[i].id)
            BY <4>2 DEF IdInv, HeldNamed
          <5> QED
            BY <5>1, <4>1, <1>o, <1>l DEF NotDestroyed
        <4>3. CASE wire'[i].id \notin held
          <5>1. PICK k \in Fresh : /\ k < i /\ wire'[k].op = "create"
                                   /\ wire'[k].id = wire'[i].id
            BY <3>3, <2>2, <4>3 DEF Send
          <5>2. wire'[k].id >= next
            BY <5>1 DEF Send
          <5> QED
            BY <5>1, <5>2, <4>1, <1>b, <1>t
        <4> QED
          BY <4>2, <4>3
      <3> QED
        BY <3>1, <3>2, <3>3
    <2> QED
      BY <2>1, <2>2, <1>f
  <1>4. HeldNamed'
    <2> SUFFICES ASSUME NEW k \in held'
                 PROVE  /\ Created(objs, wire', M + 1, k)
                        /\ NotDestroyed(wire', M + 1, k)
      BY <1>t DEF HeldNamed
    <2>1. CASE k \in held
      <3>1. /\ Created(objs, wire, L + 1, k)
            /\ NotDestroyed(wire, L + 1, k)
        BY <2>1 DEF IdInv, HeldNamed
      <3>2. Created(objs, wire', M + 1, k)
        BY <3>1, <1>o, <1>l DEF Created
      <3>3. ASSUME NEW j \in 1 .. M, wire'[j].op = "destroy" PROVE wire'[j].id # k
        <4>1. CASE j \in 1 .. L
          BY <4>1, <3>1, <3>3, <1>o, <1>l DEF NotDestroyed
        <4>2. CASE j \in Fresh
          BY <4>2, <3>3 DEF Send
        <4> QED
          BY <4>1, <4>2, <1>f
      <3> QED
        BY <3>2, <3>3 DEF NotDestroyed
    <2>2. CASE k \notin held
      <3>1. PICK c \in Fresh : wire'[c].op = "create" /\ wire'[c].id = k
        BY <2>2 DEF Send
      <3>2. c \in 1 .. M /\ c < M + 1
        BY <1>l DEF Fresh
      <3>3. Created(objs, wire', M + 1, k)
        BY <3>1, <3>2 DEF Created
      <3>4. k >= next
        BY <3>1 DEF Send
      <3>5. ASSUME NEW j \in 1 .. M, wire'[j].op = "destroy" PROVE wire'[j].id # k
        <4>1. CASE j \in 1 .. L
          BY <4>1, <3>4, <1>b, <1>t
        <4>2. CASE j \in Fresh
          BY <4>2, <3>5 DEF Send
        <4> QED
          BY <4>1, <4>2, <1>f
      <3> QED
        BY <3>3, <3>5 DEF NotDestroyed
    <2> QED
      BY <2>1, <2>2
  <1>5. BelowNext'
    <2> SUFFICES ASSUME NEW i \in 1 .. M PROVE wire'[i].id < next'
      BY DEF BelowNext
    <2>1. CASE i \in 1 .. L
      <3>1. next' >= next /\ next' \in Nat
        BY <1>1 DEF Send, IdType
      <3> QED
        BY <2>1, <3>1, <1>b, <1>t
    <2>2. CASE i \in Fresh
      BY <2>2 DEF Send
    <2> QED
      BY <2>1, <2>2, <1>f
  <1> QED
    BY <1>1, <1>2, <1>3, <1>4, <1>5 DEF IdInv

(* The server reads a message that the invariant says it can serve. *)
LEMMA DeliverIds == IdInv /\ Deliver => IdInv'
  <1> SUFFICES ASSUME IdInv, Deliver PROVE IdInv'
    OBVIOUS
  <1>t. /\ next \in Nat /\ srvNext \in Nat /\ wire \in Seq(Message)
        /\ wire # <<>> /\ wire' = Tail(wire)
        /\ next' = next /\ held' = held
    BY DEF IdInv, IdType, Deliver
  <1> DEFINE L == Len(wire)
             m == Head(wire)
  <1>l. L \in Nat /\ L >= 1 /\ Len(wire') = L - 1 /\ m = wire[1]
    BY <1>t
  <1>s. wire' \in Seq(Message)
    BY <1>t
  <1>i. \A i \in 1 .. (L - 1) : wire'[i] = wire[i + 1]
    BY <1>t, <1>l
  <1>m. m \in Message
    BY <1>t, <1>l
  <1>h. m.n = srvNext
    BY <1>l DEF IdInv, Chained
  <1>n. srvNext' = After(m) /\ srvNext' \in Nat
    <2>1. CASE m.op = "create"
      BY <2>1, <1>h, <1>t DEF Deliver, After
    <2>2. CASE m.op # "create"
      <3>1. srvNext' = srvNext
        BY <2>2 DEF Deliver
      <3> QED
        BY <3>1, <2>2, <1>h, <1>t DEF After
    <2> QED
      BY <2>1, <2>2
  <1>1. IdType'
    BY <1>t, <1>s, <1>n DEF IdType
  <1>2. Chained'
    <2>1. ASSUME NEW i \in 1 .. (L - 1)
          PROVE  wire'[i].n = IF i = 1 THEN srvNext' ELSE After(wire'[i - 1])
      <3>1. i + 1 \in 1 .. L /\ i + 1 # 1 /\ (i + 1) - 1 = i
        BY <1>l
      <3>2. wire[i + 1].n = After(wire[i])
        BY <3>1 DEF IdInv, Chained
      <3>3. CASE i = 1
        BY <3>2, <3>3, <1>i, <1>n, <1>l
      <3>4. CASE i # 1
        <4>1. i - 1 \in 1 .. (L - 1) /\ (i - 1) + 1 = i
          BY <3>4, <1>l
        <4> QED
          BY <3>2, <3>4, <4>1, <1>i
      <3> QED
        BY <3>3, <3>4
    <2>2. next = IF L - 1 = 0 THEN srvNext' ELSE After(wire'[L - 1])
      <3>1. next = After(wire[L])
        BY <1>l DEF IdInv, Chained
      <3>2. CASE L = 1
        BY <3>1, <3>2, <1>n, <1>l
      <3>3. CASE L # 1
        <4>1. L - 1 \in 1 .. (L - 1) /\ (L - 1) + 1 = L
          BY <3>3, <1>l
        <4> QED
          BY <3>1, <3>3, <4>1, <1>i, <1>l
      <3> QED
        BY <3>2, <3>3
    <2> QED
      BY <2>1, <2>2, <1>t, <1>l, SMTT(30) DEF Chained
  \* An id that was named soundly at place i + 1 is so at place i of the rest.
  <1>3. ASSUME NEW i \in 1 .. L, NEW k,
               Created(objs, wire, i + 1, k), NotDestroyed(wire, i + 1, k)
        PROVE  Created(objs', wire', i, k) /\ NotDestroyed(wire', i, k)
    <2>1. ~(m.op = "destroy" /\ m.id = k)
      BY <1>3, <1>l DEF NotDestroyed
    <2>2. Created(objs', wire', i, k)
      <3>1. CASE k \in objs
        BY <3>1, <2>1 DEF Created, Deliver
      <3>2. CASE k \notin objs
        <4>1. PICK j \in 1 .. L : j < i + 1 /\ wire[j].op = "create" /\ wire[j].id = k
          BY <1>3, <3>2 DEF Created
        <4>2. CASE j = 1
          <5>1. k = srvNext
            BY <4>1, <4>2, <1>h, <1>l DEF IdInv, Named
          <5> QED
            BY <5>1, <4>1, <4>2, <1>l DEF Created, Deliver
        <4>3. CASE j # 1
          <5>1. j - 1 \in 1 .. (L - 1) /\ (j - 1) + 1 = j /\ j - 1 < i
            BY <4>3, <4>1, <1>l
          <5> QED
            BY <5>1, <4>1, <1>i, <1>l, Zenon DEF Created
        <4> QED
          BY <4>2, <4>3
      <3> QED
        BY <3>1, <3>2
    <2>3. ASSUME NEW j \in 1 .. (L - 1), j < i, wire'[j].op = "destroy"
          PROVE  wire'[j].id # k
      <3>1. j + 1 \in 1 .. L /\ j + 1 < i + 1
        BY <2>3, <1>l
      <3> QED
        BY <3>1, <2>3, <1>3, <1>i DEF NotDestroyed
    <2> QED
      BY <2>2, <2>3, <1>l DEF NotDestroyed
  <1>4. Named'
    <2> SUFFICES ASSUME NEW i \in 1 .. (L - 1)
                 PROVE  /\ wire'[i].op = "create" => wire'[i].id = wire'[i].n
                        /\ wire'[i].op # "create" =>
                              /\ Created(objs', wire', i, wire'[i].id)
                              /\ NotDestroyed(wire', i, wire'[i].id)
      BY <1>l DEF Named
    <2>1. i + 1 \in 1 .. L /\ wire'[i] = wire[i + 1] /\ i \in 1 .. L
      BY <1>i, <1>l
    <2>2. wire'[i].op = "create" => wire'[i].id = wire'[i].n
      BY <2>1 DEF IdInv, Named
    <2>3. ASSUME wire'[i].op # "create"
          PROVE  /\ Created(objs, wire, i + 1, wire'[i].id)
                 /\ NotDestroyed(wire, i + 1, wire'[i].id)
      BY <2>1, <2>3 DEF IdInv, Named
    <2> QED
      BY <2>1, <2>2, <2>3, <1>3
  <1>5. HeldNamed'
    <2> SUFFICES ASSUME NEW k \in held
                 PROVE  /\ Created(objs', wire', L, k)
                        /\ NotDestroyed(wire', L, k)
      BY <1>t, <1>l DEF HeldNamed
    <2>1. Created(objs, wire, L + 1, k) /\ NotDestroyed(wire, L + 1, k)
      BY DEF IdInv, HeldNamed
    <2> QED
      BY <2>1, <1>3, <1>l
  <1>6. BelowNext'
    BY <1>i, <1>l, <1>t DEF IdInv, BelowNext
  <1> QED
    BY <1>1, <1>2, <1>4, <1>5, <1>6 DEF IdInv

(* Every step keeps the invariant. *)
LEMMA NextIds == IdInv /\ [IdNext]_idVars => IdInv'
  <1> SUFFICES ASSUME IdInv, [IdNext]_idVars PROVE IdInv'
    OBVIOUS
  <1>1. CASE Send
    BY <1>1, SendIds
  <1>2. CASE Deliver
    BY <1>2, DeliverIds
  <1>3. CASE UNCHANGED idVars
    BY <1>3 DEF idVars, IdInv, IdType, Chained, Named, HeldNamed, BelowNext,
                Created, NotDestroyed
  <1> QED
    BY <1>1, <1>2, <1>3 DEF IdNext

(***************************************************************************)
(* The ids isz_client_send_surface_create hands out are the ids            *)
(* isz_conn_register_object assigns, and no later message names an object  *)
(* the table does not hold, for any number of windows, messages and        *)
(* disconnections.                                                         *)
(***************************************************************************)
THEOREM IdsAlwaysAgree == IdSpec => []IdsAgree
  <1>1. IdInv => IdsAgree
    <2> SUFFICES ASSUME IdInv, wire # <<>>
                 PROVE  /\ Head(wire).op = "create" => Head(wire).id = srvNext
                        /\ Head(wire).op # "create" => Head(wire).id \in objs
      BY DEF IdsAgree
    <2>1. wire \in Seq(Message) /\ 1 \in 1 .. Len(wire) /\ Head(wire) = wire[1]
      BY DEF IdInv, IdType
    <2>2. wire[1].n = srvNext
      BY <2>1 DEF IdInv, Chained
    <2>3. \A j \in 1 .. Len(wire) : ~(j < 1)
      OBVIOUS
    <2> QED
      BY <2>1, <2>2, <2>3 DEF IdInv, Named, Created
  <1> QED
    BY <1>1, InitIds, NextIds, PTL DEF IdSpec

(***************************************************************************)
(* Once the server has read everything the bridge sent, each surface that  *)
(* a window of an X11 client holds is an object of the server.             *)
(***************************************************************************)
THEOREM HeldAlwaysExists == IdSpec => []HeldExists
  <1>1. IdInv => HeldExists
    <2> SUFFICES ASSUME IdInv, wire = <<>>, NEW k \in held PROVE k \in objs
      BY DEF HeldExists
    <2>1. Created(objs, wire, Len(wire) + 1, k) /\ Len(wire) = 0
      BY DEF IdInv, HeldNamed
    <2> QED
      BY <2>1 DEF Created
  <1> QED
    BY <1>1, InitIds, NextIds, PTL DEF IdSpec
-----------------------------------------------------------------------------
Alive(w) == wpc[w] \notin {"exited", "unspawned"}

\* The queue is the part of the submission order that has not been popped,
\* and no job is submitted twice.
QueueInv ==
    /\ begun + Len(queue) = Len(order)
    /\ \A i \in 1 .. Len(queue) : queue[i] = order[begun + i]
    /\ \A i, k \in 1 .. Len(order) : order[i] = order[k] => i = k

\* A worker holds an item exactly while it runs it or signals it, an item it
\* popped, and no two workers hold the same one.
HoldInv ==
    /\ \A w \in Workers : item[w] # NoJob <=> wpc[w] \in {"run", "signal"}
    /\ \A w \in Workers : item[w] # NoJob =>
           \E i \in 1 .. begun : order[i] = item[w]
    /\ \A v, w \in Workers : item[v] = item[w] /\ item[v] # NoJob => v = w

\* How far each job has come: a popped job is being run, or has returned and
\* is about to be signalled, or is finished; any other job is untouched.
ProgressInv ==
    /\ \A i \in 1 .. begun :
          \/ /\ ran[order[i]] = 0
             /\ fence[order[i]] = 0
             /\ \E w \in Workers : item[w] = order[i] /\ wpc[w] = "run"
          \/ /\ ran[order[i]] = 1
             /\ fence[order[i]] = 0
             /\ \E w \in Workers : item[w] = order[i] /\ wpc[w] = "signal"
          \/ /\ ran[order[i]] = 1
             /\ fence[order[i]] = 1
             /\ \A w \in Workers : item[w] # order[i]
    /\ \A j \in Jobs : (\A i \in 1 .. begun : order[i] # j) =>
          ran[j] = 0 /\ fence[j] = 0

\* Who may be where while the pool is created, open and torn down.  The last
\* conjunct is why nothing is left behind: work only arrives while a worker
\* that will come back for it is alive.
PhaseInv ==
    /\ shutdown <=> main \notin {"creating", "open"}
    /\ shutdown => \A w \in Workers : wpc[w] # "waiting"
    /\ main \in {"open", "joining", "destroyed"} =>
           \A w \in Workers : wpc[w] # "unspawned"
    /\ ~shutdown => \A w \in Workers : wpc[w] # "exited"
    /\ main \in {"creating", "rollback", "failed"} => order = <<>>
    /\ Freed => \A w \in Workers : ~Alive(w)
    /\ queue # <<>> => \E w \in Workers : Alive(w)

IInv == TypeOK /\ QueueInv /\ HoldInv /\ ProgressInv /\ PhaseInv
-----------------------------------------------------------------------------
\* Every step keeps the variables in their types.
LEMMA TypeStep == ASSUME TypeOK, HoldInv, [Next]_vars PROVE TypeOK'
<1> USE DEF TypeOK
<1>1. ASSUME NEW w \in Workers, Spawn(w) PROVE TypeOK'
  BY <1>1 DEF Spawn, MainStates, WorkerStates
<1>2. CASE SpawnFails
  BY <1>2 DEF SpawnFails, Broadcast, MainStates, WorkerStates
<1>3. ASSUME NEW j \in Jobs, Submit(j) PROVE TypeOK'
  <2>1. wpc' \in [Workers -> WorkerStates]
    BY <1>3, Zenon DEF Submit, CondSignal, WorkerStates
  <2>2. QED BY <1>3, <2>1 DEF Submit
<1>4. ASSUME NEW w \in Workers, Locked(w) PROVE TypeOK'
  <2>1. CASE Wait(w) BY <1>4, <2>1 DEF Locked, Wait, WorkerStates
  <2>2. CASE Exit(w) BY <1>4, <2>2 DEF Locked, Exit, WorkerStates
  <2>3. CASE Pop(w)
    <3>1. Head(queue) \in Jobs /\ Tail(queue) \in Seq(Jobs)
      BY <2>3 DEF Pop
    <3>2. QED BY <1>4, <2>3, <3>1 DEF Locked, Pop, WorkerStates
  <2>4. QED BY <1>4, <2>1, <2>2, <2>3 DEF Locked
<1>5. ASSUME NEW w \in Workers, Run(w) PROVE TypeOK'
  <2>1. item[w] \in Jobs BY <1>5 DEF Run, HoldInv
  <2>2. QED BY <1>5, <2>1 DEF Run, WorkerStates
<1>6. ASSUME NEW w \in Workers, SignalFence(w) PROVE TypeOK'
  <2>1. item[w] \in Jobs BY <1>6 DEF SignalFence, HoldInv
  <2>2. QED BY <1>6, <2>1 DEF SignalFence, WorkerStates
<1>7. ASSUME NEW w \in Workers, SpuriousWake(w) PROVE TypeOK'
  BY <1>7 DEF SpuriousWake, WorkerStates
<1>8. CASE Destroy
  BY <1>8 DEF Destroy, Broadcast, MainStates, WorkerStates
<1>9. CASE Join
  BY <1>9 DEF Join, MainStates
<1>10. CASE UNCHANGED vars
  BY <1>10 DEF vars
<1>11. QED
  BY <1>1, <1>2, <1>3, <1>4, <1>5, <1>6, <1>7, <1>8, <1>9, <1>10, SMTT(30)
  DEF Next, WorkerStep

\* Only submitting and popping touch the queue and the history.
LEMMA QueueStep == ASSUME TypeOK, QueueInv, [Next]_vars PROVE QueueInv'
<1>0. Len(queue) \in Nat /\ Len(order) \in Nat /\ begun \in Nat
  BY DEF TypeOK
<1>1. begun + Len(queue) = Len(order)
  BY DEF QueueInv
<1>2. \A i \in 1 .. Len(queue) : queue[i] = order[begun + i]
  BY DEF QueueInv
<1>3. \A i, k \in 1 .. Len(order) : order[i] = order[k] => i = k
  BY DEF QueueInv
<1>4. ASSUME NEW j \in Jobs, Submit(j) PROVE QueueInv'
  <2>1. /\ Len(queue') = Len(queue) + 1
        /\ Len(order') = Len(order) + 1
        /\ begun' = begun
        /\ \A i \in 1 .. Len(queue) : queue'[i] = queue[i]
        /\ \A i \in 1 .. Len(order) : order'[i] = order[i]
        /\ queue'[Len(queue) + 1] = j
        /\ order'[Len(order) + 1] = j
        /\ \A i \in 1 .. Len(order) : order[i] # j
    BY <1>4 DEF Submit, TypeOK
  <2>2. ASSUME NEW i \in 1 .. Len(queue')
        PROVE  queue'[i] = order'[begun' + i]
    <3>1. CASE i \in 1 .. Len(queue)
      <4>1. begun + i \in 1 .. Len(order) BY <1>0, <1>1, <3>1
      <4>2. QED BY <1>2, <2>1, <3>1, <4>1
    <3>2. CASE i = Len(queue) + 1
      <4>1. begun + i = Len(order) + 1 BY <1>0, <1>1, <3>2
      <4>2. QED BY <2>1, <3>2, <4>1
    <3>3. QED BY <1>0, <2>1, <3>1, <3>2
  <2>3. ASSUME NEW i \in 1 .. Len(order'), NEW k \in 1 .. Len(order'),
               order'[i] = order'[k]
        PROVE  i = k
    <3>1. \A m \in 1 .. Len(order') : m \in 1 .. Len(order) \/ m = Len(order) + 1
      BY <1>0, <2>1
    <3>2. QED BY <1>3, <2>1, <2>3, <3>1
  <2>4. begun' + Len(queue') = Len(order')
    BY <1>0, <1>1, <2>1, SMTT(30)
  <2>5. QED BY <2>2, <2>3, <2>4 DEF QueueInv
<1>5. ASSUME NEW w \in Workers, Locked(w), Pop(w) PROVE QueueInv'
  <2>1. /\ Len(queue) > 0
        /\ Len(queue') = Len(queue) - 1
        /\ order' = order
        /\ begun' = begun + 1
        /\ \A i \in 1 .. Len(queue') : queue'[i] = queue[i + 1]
    BY <1>5 DEF Locked, Pop, TypeOK
  <2>2. ASSUME NEW i \in 1 .. Len(queue')
        PROVE  queue'[i] = order'[begun' + i]
    <3>1. i + 1 \in 1 .. Len(queue) BY <1>0, <2>1
    <3>2. queue[i + 1] = order[begun + (i + 1)] BY <1>2, <3>1
    <3>3. begun + (i + 1) = begun' + i BY <1>0, <2>1
    <3>4. QED BY <2>1, <3>2, <3>3
  <2>3. begun' + Len(queue') = Len(order')
    <3>1. Len(order') = Len(order) /\ Len(queue') = Len(queue) - 1
          /\ begun' = begun + 1
      BY <2>1
    <3>2. QED BY <1>0, <1>1, <3>1
  <2>4. QED BY <1>3, <2>1, <2>2, <2>3 DEF QueueInv
<1>6. CASE UNCHANGED <<queue, order, begun>>
  BY <1>1, <1>2, <1>3, <1>6, SMTT(30) DEF QueueInv
<1>7. QED
  BY <1>4, <1>5, <1>6
  DEF Next, vars, WorkerStep, Spawn, SpawnFails, Locked, Wait, Exit, Run,
      SignalFence, SpuriousWake, Destroy, Join

\* Popping hands a fresh item to one worker; signalling takes it away.
LEMMA HoldStep ==
    ASSUME TypeOK, QueueInv, HoldInv, [Next]_vars PROVE HoldInv'
<1> USE PoolAssumption DEF TypeOK, HoldInv
<1>1. ASSUME NEW w \in Workers, Locked(w), Pop(w) PROVE HoldInv'
  <2>1. /\ queue # <<>> /\ Len(queue) > 0
        /\ item' = [item EXCEPT ![w] = queue[1]]
        /\ wpc' = [wpc EXCEPT ![w] = "run"]
        /\ order' = order /\ begun' = begun + 1
        /\ wpc[w] = "ready"
    BY <1>1 DEF Locked, Pop
  <2>2. /\ queue[1] \in Jobs
        /\ begun + 1 \in 1 .. Len(order)
        /\ queue[1] = order[begun + 1]
    <3>1. Len(queue) \in Nat /\ Len(order) \in Nat
      OBVIOUS
    <3>2. begun \in Nat /\ begun + Len(queue) = Len(order)
      BY DEF QueueInv
    <3>3. begun + 1 \in 1 .. Len(order) /\ 1 \in 1 .. Len(queue)
      BY <3>1, <3>2, <2>1, SMTT(30)
    <3>4. QED BY <3>3 DEF QueueInv
  <2>3. ASSUME NEW v \in Workers PROVE item[v] # queue[1]
    <3>1. CASE item[v] = NoJob BY <3>1, <2>2
    <3>2. CASE item[v] # NoJob
      <4>1. PICK i \in 1 .. begun : order[i] = item[v] BY <3>2
      <4>2. i \in 1 .. Len(order) /\ i # begun + 1 BY <2>2
      <4>3. QED BY <4>1, <4>2, <2>2 DEF QueueInv
    <3>3. QED BY <3>1, <3>2
  <2>4. \A v \in Workers : item'[v] # NoJob <=> wpc'[v] \in {"run", "signal"}
    BY <2>1, <2>2, SMTT(30)
  <2>5. \A v \in Workers : item'[v] # NoJob =>
            \E i \in 1 .. begun' : order'[i] = item'[v]
    <3> SUFFICES ASSUME NEW v \in Workers, item'[v] # NoJob
                 PROVE \E i \in 1 .. begun' : order'[i] = item'[v]
      BY SMTT(30)
    <3>1. CASE v = w
      <4>1. begun + 1 \in 1 .. begun' /\ order'[begun + 1] = item'[v]
        BY <2>1, <2>2, <3>1
      <4>2. QED BY <4>1
    <3>2. CASE v # w
      <4>1. item'[v] = item[v] BY <2>1, <3>2
      <4>2. PICK i \in 1 .. begun : order[i] = item[v] BY <4>1
      <4>3. i \in 1 .. begun' BY <2>1, <4>2
      <4>4. QED BY <2>1, <4>1, <4>2, <4>3, SMTT(30)
    <3>3. QED BY <3>1, <3>2
  <2>6. \A u, v \in Workers : item'[u] = item'[v] /\ item'[u] # NoJob => u = v
    BY <2>1, <2>2, <2>3, ZenonT(30)
  <2>7. QED BY <2>4, <2>5, <2>6, SMTT(30)
<1>2. ASSUME NEW w \in Workers, Run(w) PROVE HoldInv'
  BY <1>2 DEF Run
<1>3. ASSUME NEW w \in Workers, SignalFence(w) PROVE HoldInv'
  BY <1>3, ZenonT(30) DEF SignalFence
<1>4. ASSUME NEW j \in Jobs, Submit(j) PROVE HoldInv'
  <2>1. /\ item' = item /\ begun' = begun
        /\ \A i \in 1 .. Len(order) : order'[i] = order[i]
        /\ begun <= Len(order)
    BY <1>4 DEF Submit, QueueInv
  <2>2. \A v \in Workers : wpc'[v] \in {"run", "signal"}
                             <=> wpc[v] \in {"run", "signal"}
    BY <1>4 DEF Submit, CondSignal
  <2>3. ASSUME NEW v \in Workers, item'[v] # NoJob
        PROVE \E i \in 1 .. begun' : order'[i] = item'[v]
    <3>1. PICK i \in 1 .. begun : order[i] = item[v] BY <2>1, <2>3
    <3>2. i \in 1 .. Len(order) BY <2>1
    <3>3. QED BY <2>1, <3>1, <3>2, Zenon
  <2>4. QED BY <2>1, <2>2, <2>3
<1>5. ASSUME UNCHANGED <<item, order, begun>>,
             \A v \in Workers : wpc'[v] \in {"run", "signal"}
                                  <=> wpc[v] \in {"run", "signal"}
      PROVE HoldInv'
  BY <1>5
<1>6. ASSUME NEW w \in Workers, Spawn(w) \/ SpuriousWake(w) PROVE HoldInv'
  BY <1>6, ZenonT(30) DEF Spawn, SpuriousWake
<1>7. ASSUME NEW w \in Workers, Locked(w), Wait(w) \/ Exit(w) PROVE HoldInv'
  BY <1>7, ZenonT(30) DEF Locked, Wait, Exit
<1>8. CASE SpawnFails \/ Destroy
  BY <1>8, <1>5 DEF SpawnFails, Destroy, Broadcast
<1>9. CASE Join \/ UNCHANGED vars
  BY <1>9, <1>5 DEF Join, vars
<1>10. QED
  BY <1>1, <1>2, <1>3, <1>4, <1>6, <1>7, <1>8, <1>9, SMTT(30)
  DEF Next, WorkerStep, Locked

\* Each popped job moves through run, signal and finished on the one worker
\* that holds it.
LEMMA ProgressStep ==
    ASSUME TypeOK, QueueInv, HoldInv, ProgressInv, [Next]_vars
    PROVE ProgressInv'
<1> USE PoolAssumption
<1> DEFINE Running(i) == /\ ran[order[i]] = 0
                         /\ fence[order[i]] = 0
                         /\ \E w \in Workers : item[w] = order[i] /\ wpc[w] = "run"
           Returned(i) == /\ ran[order[i]] = 1
                          /\ fence[order[i]] = 0
                          /\ \E w \in Workers : item[w] = order[i] /\ wpc[w] = "signal"
           Finished(i) == /\ ran[order[i]] = 1
                          /\ fence[order[i]] = 1
                          /\ \A w \in Workers : item[w] # order[i]
<1>a. begun <= Len(order) /\ \A i \in 1 .. begun : i \in 1 .. Len(order)
  BY DEF QueueInv, TypeOK
<1>b. \A i \in 1 .. Len(order) : order[i] \in Jobs
  BY DEF TypeOK
<1>t. /\ wpc \in [Workers -> WorkerStates]
      /\ item \in [Workers -> Jobs \cup {NoJob}]
      /\ ran \in [Jobs -> Nat]
      /\ fence \in [Jobs -> Nat]
      /\ begun \in Nat
  BY DEF TypeOK
<1> USE <1>t
<1>c. \A i \in 1 .. begun : Running(i) \/ Returned(i) \/ Finished(i)
  BY SMTT(30) DEF ProgressInv
<1>1. ASSUME NEW w \in Workers, Locked(w), Pop(w) PROVE ProgressInv'
  <2>1. /\ Len(queue) > 0
        /\ item' = [item EXCEPT ![w] = queue[1]]
        /\ wpc' = [wpc EXCEPT ![w] = "run"]
        /\ order' = order /\ begun' = begun + 1
        /\ ran' = ran /\ fence' = fence
        /\ wpc[w] = "ready"
    BY <1>1 DEF Locked, Pop, TypeOK
  <2>2. /\ begun + 1 \in 1 .. Len(order)
        /\ queue[1] = order[begun + 1]
        /\ order[begun + 1] \in Jobs
        /\ \A i \in 1 .. begun : order[i] # order[begun + 1]
    <3>1. Len(queue) \in Nat /\ Len(order) \in Nat
      BY DEF TypeOK
    <3>2. begun + 1 \in 1 .. Len(order) /\ 1 \in 1 .. Len(queue)
      BY <3>1, <2>1, <1>t DEF QueueInv
    <3>3. queue[1] = order[begun + 1]
      BY <3>2 DEF QueueInv
    <3>4. \A i \in 1 .. begun : i \in 1 .. Len(order) /\ i # begun + 1
      BY <1>a, <1>t
    <3>5. \A i \in 1 .. begun : order[i] # order[begun + 1]
      BY <3>2, <3>4 DEF QueueInv
    <3>6. QED BY <3>2, <3>3, <3>5, <1>b
  <2>3. item[w] = NoJob
    BY <2>1, SMTT(30) DEF HoldInv
  <2>4. ASSUME NEW i \in 1 .. begun
        PROVE (Running(i) \/ Returned(i) \/ Finished(i))'
    <3>1. order[i] # NoJob /\ order[i] # order[begun + 1]
      BY <1>a, <1>b, <2>2
    <3>2. \A v \in Workers : item[v] = order[i] => v # w
      BY <2>3, <3>1
    <3>3. CASE Running(i) BY <3>3, <3>2, <2>1
    <3>4. CASE Returned(i) BY <3>4, <3>2, <2>1
    <3>5. CASE Finished(i) BY <3>5, <3>1, <2>1, <2>2
    <3>6. QED BY <3>3, <3>4, <3>5, <1>c
  <2>n. PICK n \in Nat : n = begun + 1
    OBVIOUS
  <2>5. Running(n)'
    <3>1. ran[order[n]] = 0 /\ fence[order[n]] = 0
      BY <2>n, <2>2 DEF ProgressInv
    <3>2. item'[w] = order[n] /\ wpc'[w] = "run"
      BY <2>n, <2>1, <2>2
    <3>3. QED BY <3>1, <3>2, <2>1, SMTT(30)
  <2>6. \A i \in 1 .. begun' : (Running(i) \/ Returned(i) \/ Finished(i))'
    <3>1. \A i \in 1 .. begun' : i \in 1 .. begun \/ i = n
      BY <2>1, <2>n
    <3>2. QED BY <3>1, <2>4, <2>5
  <2>7. \A j \in Jobs : (\A i \in 1 .. begun' : order'[i] # j) =>
            ran'[j] = 0 /\ fence'[j] = 0
    BY <2>1 DEF ProgressInv
  <2>8. QED BY <2>6, <2>7 DEF ProgressInv
<1>2. ASSUME NEW w \in Workers, Run(w) PROVE ProgressInv'
  <2>1. /\ wpc[w] = "run"
        /\ item[w] \in Jobs
        /\ ran' = [ran EXCEPT ![item[w]] = @ + 1]
        /\ wpc' = [wpc EXCEPT ![w] = "signal"]
        /\ item' = item /\ fence' = fence /\ order' = order /\ begun' = begun
    BY <1>2 DEF Run, HoldInv
  <2>2. \A v \in Workers : item[v] = item[w] => v = w
    BY <2>1 DEF HoldInv
  <2>3. ASSUME NEW i \in 1 .. begun
        PROVE (Running(i) \/ Returned(i) \/ Finished(i))'
    <3>1. CASE order[i] = item[w]
      <4>1. Running(i) BY <3>1, <2>1, <2>2, <1>c, SMTT(30)
      <4>2. QED BY <4>1, <3>1, <2>1
    <3>2. CASE order[i] # item[w]
      <4>1. order[i] \in Jobs BY <1>a, <1>b
      <4>2. ran'[order[i]] = ran[order[i]] BY <4>1, <3>2, <2>1
      <4>3. \A v \in Workers : item[v] = order[i] => wpc'[v] = wpc[v]
        BY <3>2, <2>1
      <4>4. QED BY <4>2, <4>3, <2>1, <1>c
    <3>3. QED BY <3>1, <3>2
  <2>4. PICK h \in 1 .. begun : order[h] = item[w]
    BY <2>1 DEF HoldInv
  <2>5. \A j \in Jobs : (\A i \in 1 .. begun : order[i] # j) =>
            ran'[j] = 0 /\ fence'[j] = 0
    BY <2>1, <2>4, SMTT(30) DEF ProgressInv
  <2>6. QED BY <2>1, <2>3, <2>5 DEF ProgressInv
<1>3. ASSUME NEW w \in Workers, SignalFence(w) PROVE ProgressInv'
  <2>1. /\ wpc[w] = "signal"
        /\ item[w] \in Jobs
        /\ fence' = [fence EXCEPT ![item[w]] = @ + 1]
        /\ wpc' = [wpc EXCEPT ![w] = "ready"]
        /\ item' = [item EXCEPT ![w] = NoJob]
        /\ ran' = ran /\ order' = order /\ begun' = begun
    BY <1>3 DEF SignalFence, HoldInv
  <2>2. \A v \in Workers : item[v] = item[w] => v = w
    BY <2>1 DEF HoldInv
  <2>3. ASSUME NEW i \in 1 .. begun
        PROVE (Running(i) \/ Returned(i) \/ Finished(i))'
    <3>0. order[i] \in Jobs BY <1>a, <1>b
    <3>1. CASE order[i] = item[w]
      <4>1. Returned(i) BY <3>1, <2>1, <2>2, <1>c
      <4>2. \A v \in Workers : item'[v] # order[i]
        BY <3>0, <3>1, <2>1, <2>2, SMTT(30)
      <4>3. QED BY <4>1, <4>2, <3>1, <2>1
    <3>2. CASE order[i] # item[w]
      <4>2. fence'[order[i]] = fence[order[i]] BY <3>0, <3>2, <2>1
      <4>3. \A v \in Workers : item[v] = order[i] =>
                wpc'[v] = wpc[v] /\ item'[v] = item[v]
        BY <3>2, <2>1
      <4>4. \A v \in Workers : item[v] # order[i] => item'[v] # order[i]
        BY <3>0, <2>1
      <4>5. QED BY <4>2, <4>3, <4>4, <2>1, <1>c
    <3>3. QED BY <3>1, <3>2
  <2>4. PICK h \in 1 .. begun : order[h] = item[w]
    BY <2>1 DEF HoldInv
  <2>5. \A j \in Jobs : (\A i \in 1 .. begun : order[i] # j) =>
            ran'[j] = 0 /\ fence'[j] = 0
    BY <2>1, <2>4, SMTT(30) DEF ProgressInv
  <2>6. QED BY <2>1, <2>3, <2>5 DEF ProgressInv
\* Every other step leaves the items, the counters and the popped part of
\* the history alone, and moves no worker into or out of run and signal.
<1>4. ASSUME UNCHANGED <<item, ran, fence, begun>>,
             \A i \in 1 .. begun : order'[i] = order[i],
             \A v \in Workers : /\ wpc'[v] = "run" <=> wpc[v] = "run"
                                /\ wpc'[v] = "signal" <=> wpc[v] = "signal"
      PROVE ProgressInv'
  BY <1>4 DEF ProgressInv
<1>5. ASSUME NEW j \in Jobs, Submit(j) PROVE ProgressInv'
  <2>1. \A i \in 1 .. begun : order'[i] = order[i]
    BY <1>5, <1>a DEF Submit
  <2>2. \A v \in Workers : /\ wpc'[v] = "run" <=> wpc[v] = "run"
                           /\ wpc'[v] = "signal" <=> wpc[v] = "signal"
    BY <1>5 DEF Submit, CondSignal
  <2>3. QED BY <1>5, <2>1, <2>2, <1>4, ZenonT(30) DEF Submit
<1>6. ASSUME NEW w \in Workers, Spawn(w) \/ SpuriousWake(w) PROVE ProgressInv'
  BY <1>6, <1>4 DEF Spawn, SpuriousWake
<1>7. ASSUME NEW w \in Workers, Locked(w), Wait(w) \/ Exit(w)
      PROVE ProgressInv'
  BY <1>7, <1>4 DEF Locked, Wait, Exit
<1>8. CASE SpawnFails \/ Destroy
  BY <1>8, <1>4 DEF SpawnFails, Destroy, Broadcast
<1>9. CASE Join \/ UNCHANGED vars
  BY <1>9, <1>4, SMTT(30) DEF Join, vars
<1>10. QED
  BY <1>1, <1>2, <1>3, <1>5, <1>6, <1>7, <1>8, <1>9
  DEF Next, WorkerStep, Locked

\* Work arrives only while some worker is still going to look for it.
LEMMA PhaseStep ==
    ASSUME TypeOK, QueueInv, HoldInv, PhaseInv, [Next]_vars PROVE PhaseInv'
<1> USE PoolAssumption DEF PhaseInv, Alive, Freed
<1>t. /\ wpc \in [Workers -> WorkerStates]
      /\ main \in MainStates
      /\ shutdown \in BOOLEAN
  BY DEF TypeOK
<1> USE <1>t
<1>1. ASSUME NEW w \in Workers, Spawn(w) PROVE PhaseInv'
  <2>1. main = "creating" /\ main' \in {"creating", "open"}
    BY <1>1 DEF Spawn
  <2>2. QED BY <1>1, <2>1 DEF Spawn
<1>2. CASE SpawnFails
  BY <1>2 DEF SpawnFails, Broadcast
<1>3. ASSUME NEW j \in Jobs, Submit(j) PROVE PhaseInv'
  <2>1. /\ UNCHANGED <<shutdown, main>>
        /\ \A v \in Workers : \/ wpc'[v] = wpc[v]
                              \/ wpc[v] = "waiting" /\ wpc'[v] = "ready"
    BY <1>3 DEF Submit, CondSignal
  <2>2. main \notin {"creating", "rollback", "failed", "destroyed"}
    <3>1. CASE main = "open" BY <3>1
    <3>2. CASE \E v \in Workers : wpc[v] = "run"
      <4>1. ~Freed BY <3>2
      <4>2. PICK v \in Workers : wpc[v] = "run" BY <3>2
      <4>3. PICK i \in 1 .. begun : order[i] = item[v] BY <4>2 DEF HoldInv
      <4>4. Len(order) >= 1
        <5>1. Len(queue) \in Nat /\ Len(order) \in Nat /\ begun \in Nat
          BY SMTT(30) DEF TypeOK
        <5>2. begun + Len(queue) = Len(order) BY DEF QueueInv
        <5>3. QED BY <4>3, <5>1, <5>2
      <4>5. order # <<>> BY <4>4
      <4>6. QED BY <4>1, <4>5
    <3>3. QED BY <1>3, <3>1, <3>2 DEF Submit, CanSubmit
  <2>3. \E v \in Workers : Alive(v)
    BY <1>3 DEF Submit, CanSubmit, WorkerStates
  <2>4. (\E v \in Workers : Alive(v))'
    BY <2>1, <2>3, SMTT(30)
  <2>5. QED BY <2>1, <2>2, <2>4
<1>4. ASSUME NEW w \in Workers, Locked(w) PROVE PhaseInv'
  <2>1. CASE Wait(w) BY <1>4, <2>1 DEF Locked, Wait
  <2>2. CASE Exit(w) BY <1>4, <2>2 DEF Locked, Exit
  <2>3. CASE Pop(w)
    <3>1. wpc'[w] = "run" BY <2>3 DEF Pop
    <3>2. QED BY <1>4, <2>3, <3>1 DEF Locked, Pop
  <2>4. QED BY <1>4, <2>1, <2>2, <2>3 DEF Locked
<1>5. ASSUME NEW w \in Workers, Run(w) \/ SignalFence(w) \/ SpuriousWake(w)
      PROVE PhaseInv'
  BY <1>5 DEF Run, SignalFence, SpuriousWake
<1>6. CASE Destroy
  BY <1>6 DEF Destroy, Broadcast
<1>7. CASE Join
  BY <1>7 DEF Join
<1>8. CASE UNCHANGED vars
  BY <1>8 DEF vars
<1>9. QED
  BY <1>1, <1>2, <1>3, <1>4, <1>5, <1>6, <1>7, <1>8 DEF Next, WorkerStep
-----------------------------------------------------------------------------
\* The inductive invariant holds in every reachable state.
THEOREM Invariance == Spec => []IInv
<1>1. Init => IInv
  <2> SUFFICES ASSUME Init PROVE IInv
    OBVIOUS
  <2> USE PoolAssumption DEF Init
  <2>0. <<>> \in Seq(Jobs) OBVIOUS
  <2>1. TypeOK BY <2>0, Zenon DEF TypeOK, MainStates, WorkerStates
  <2>2. QueueInv BY DEF QueueInv
  <2>3. HoldInv BY DEF HoldInv
  <2>4. ProgressInv BY DEF ProgressInv
  <2>5. PhaseInv BY DEF PhaseInv, Freed, Alive
  <2>6. QED BY <2>1, <2>2, <2>3, <2>4, <2>5 DEF IInv
<1>2. IInv /\ [Next]_vars => IInv'
  BY TypeStep, QueueStep, HoldStep, ProgressStep, PhaseStep DEF IInv
<1>3. QED BY <1>1, <1>2, PTL DEF Spec

\* The variables keep their types.
THEOREM TypeCorrect == Spec => []TypeOK
BY Invariance, PTL DEF IInv

\* isz_thread_pool_destroy frees the pool only when no worker can reach it,
\* the queue is empty and every job has run and been signalled exactly once.
THEOREM DestroyDrainsHolds == Spec => []DestroyDrains
<1>1. IInv => DestroyDrains
  <2> SUFFICES ASSUME IInv, Freed PROVE DestroyDrains
    BY DEF DestroyDrains
  <2>1. \A w \in Workers : wpc[w] \in {"exited", "unspawned"}
    BY Zenon DEF IInv, PhaseInv, Alive
  <2>2. queue = <<>>
    BY <2>1 DEF IInv, PhaseInv, Alive
  <2>3. \A w \in Workers : item[w] = NoJob
    BY <2>1, Zenon DEF IInv, HoldInv
  <2>4. begun = Len(order)
    BY <2>2 DEF IInv, QueueInv, TypeOK
  <2>5. ASSUME NEW i \in 1 .. Len(order)
        PROVE ran[order[i]] = 1 /\ fence[order[i]] = 1
    <3>1. order[i] # NoJob
      BY PoolAssumption DEF IInv, TypeOK
    <3>2. QED BY <2>3, <2>4, <3>1 DEF IInv, ProgressInv
  <2>6. QED BY <2>1, <2>2, <2>5 DEF DestroyDrains, Submitted
<1>2. QED BY <1>1, Invariance, PTL

\* A signalled fence means the job function has returned and will not be
\* entered again, so what it references may be released.
THEOREM FenceMeansDoneHolds == Spec => []FenceMeansDone
<1>1. IInv => FenceMeansDone
  <2> SUFFICES ASSUME IInv, NEW j \in Jobs, fence[j] > 0
               PROVE /\ ran[j] = 1
                     /\ \A w \in Workers : wpc[w] = "run" => item[w] # j
                     /\ \A i \in 1 .. Len(queue) : queue[i] # j
    BY DEF FenceMeansDone
  <2>1. PICK h \in 1 .. begun : order[h] = j
    BY DEF IInv, ProgressInv
  <2>2. ran[j] = 1 /\ \A w \in Workers : item[w] # j
    BY <2>1 DEF IInv, ProgressInv
  <2>3. ASSUME NEW i \in 1 .. Len(queue) PROVE queue[i] # j
    <3>1. Len(queue) \in Nat /\ Len(order) \in Nat /\ begun \in Nat
      BY DEF IInv, TypeOK
    <3>2. begun + Len(queue) = Len(order)
      BY DEF IInv, QueueInv
    <3>3. begun + i \in 1 .. Len(order) /\ h \in 1 .. Len(order) /\ h # begun + i
      BY <3>1, <3>2
    <3>4. QED BY <2>1, <3>3 DEF IInv, QueueInv
  <2>4. QED BY <2>2, <2>3
<1>2. QED BY <1>1, Invariance, PTL

\* The pool implements the abstract work service: FIFO start, one run and one
\* signal per job, teardown only when nothing is left.
THEOREM ImplementsServiceHolds == Spec => ImplementsService
<1> USE DEF Service!svars
<1>1. Init => Service!SInit
  BY DEF Init, Freed, Service!SInit
<1>2. ASSUME IInv, [Next]_vars PROVE [Service!SNext]_(Service!svars)
  <2>t. /\ main \in MainStates
        /\ begun \in Nat
        /\ Len(queue) \in Nat
        /\ Len(order) \in Nat
        /\ begun + Len(queue) = Len(order)
        /\ \A w \in Workers : item[w] \in Jobs \cup {NoJob}
    BY <1>2 DEF IInv, TypeOK, QueueInv
  <2>a. \A w \in Workers : wpc[w] \in {"ready", "run", "signal"} => ~Freed
    BY <1>2 DEF IInv, PhaseInv, Alive
  <2>1. ASSUME NEW j \in Jobs, Submit(j) PROVE Service!Accept(j)
    <3>1. ~Freed BY <2>1, <2>a DEF Submit, CanSubmit, Freed
    <3>2. QED BY <2>1, <3>1 DEF Submit, Freed, Service!Accept
  <2>2. ASSUME NEW w \in Workers, Locked(w), Pop(w) PROVE Service!Begin
    <3>1. ~Freed BY <2>2, <2>a DEF Locked
    <3>2. Len(queue) > 0 BY <2>2, <1>2 DEF Pop, IInv, TypeOK
    <3>3. begun < Len(order) BY <2>t, <3>2
    <3>4. QED BY <2>2, <3>1, <3>3 DEF Locked, Pop, Freed, Service!Begin
  <2>3. ASSUME NEW w \in Workers, Run(w)
        PROVE \E j \in Jobs : Service!Return(j)
    <3>1. ~Freed BY <2>3, <2>a DEF Run
    <3>2. item[w] \in Jobs BY <2>3, <2>t, <1>2 DEF Run, IInv, HoldInv
    <3>3. PICK i \in 1 .. begun : order[i] = item[w]
      BY <2>3, <1>2, SMTT(30) DEF Run, IInv, HoldInv
    <3>4. ran[item[w]] = 0
      BY <2>3, <3>2, <3>3, <1>2, PoolAssumption
      DEF Run, IInv, HoldInv, ProgressInv
    <3>5. item[w] \in Service!Started BY <3>3, SMTT(30) DEF Service!Started
    <3>6. Service!Return(item[w])
      BY <2>3, <3>1, <3>4, <3>5 DEF Run, Freed, Service!Return
    <3>7. QED BY <3>2, <3>6
  <2>4. ASSUME NEW w \in Workers, SignalFence(w)
        PROVE \E j \in Jobs : Service!Signal(j)
    <3>1. ~Freed BY <2>4, <2>a DEF SignalFence
    <3>2. item[w] \in Jobs BY <2>4, <2>t, <1>2 DEF SignalFence, IInv, HoldInv
    <3>3. PICK i \in 1 .. begun : order[i] = item[w]
      BY <2>4, <1>2 DEF SignalFence, IInv, HoldInv
    <3>4. ran[item[w]] = 1 /\ fence[item[w]] = 0
      BY <2>4, <3>2, <3>3, <1>2, PoolAssumption
      DEF SignalFence, IInv, HoldInv, ProgressInv
    <3>5. Service!Signal(item[w])
      BY <2>4, <3>1, <3>4 DEF SignalFence, Freed, Service!Signal
    <3>6. QED BY <3>2, <3>5
  <2>5. CASE Join
    <3>2. Freed' /\ ~Freed BY <2>5 DEF Join, Freed
    <3>3. UNCHANGED <<queue, wpc, item, ran, fence, order, begun>>
      BY <2>5 DEF Join
    <3>4. queue = <<>> /\ \A w \in Workers : ~Alive(w)
      BY <2>5, <1>2 DEF Join, IInv, PhaseInv, Alive
    <3>5. begun = Len(order) BY <3>4, <2>t
    <3>6. \A w \in Workers : item[w] = NoJob
      BY <3>4, <1>2 DEF Alive, IInv, HoldInv
    <3>7. ASSUME NEW i \in 1 .. begun PROVE fence[order[i]] = 1
      <4>1. order[i] # NoJob
        BY <3>5, <1>2, PoolAssumption DEF IInv, TypeOK
      <4>2. QED BY <4>1, <3>6, <1>2 DEF IInv, ProgressInv
    <3>8. Service!Close
      BY <3>2, <3>3, <3>5, <3>7 DEF Service!Close, Service!Started
    <3>9. QED BY <3>8 DEF Service!SNext
  <2>6. ASSUME UNCHANGED <<order, begun, ran, fence>>, Freed' = Freed
        PROVE UNCHANGED Service!svars
    BY <2>6
  <2>7. ASSUME NEW w \in Workers,
               Spawn(w) \/ SpuriousWake(w) \/ (Locked(w) /\ (Wait(w) \/ Exit(w)))
        PROVE UNCHANGED Service!svars
    BY <2>7, <2>6 DEF Spawn, SpuriousWake, Locked, Wait, Exit, Freed
  <2>8. CASE SpawnFails \/ Destroy \/ UNCHANGED vars
    BY <2>8, <2>6 DEF SpawnFails, Destroy, vars, Freed
  <2>9. QED
    BY <1>2, <2>1, <2>2, <2>3, <2>4, <2>5, <2>7, <2>8
    DEF Next, WorkerStep, Locked, Service!SNext
<1>3. QED
  BY <1>1, <1>2, Invariance, PTL DEF Spec, ImplementsService, Service!SSpec
=============================================================================
