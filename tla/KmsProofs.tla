------------------------------ MODULE KmsProofs ------------------------------
(***************************************************************************)
(* Theorems about Kms, for any outputs, surfaces and buffers.  That at     *)
(* most one commit is pending is not inductive as it stands: the guard of  *)
(* a commit speaks of be, so be has to say where a pending commit can be.  *)
(* Nor are the counts: that one holder goes with one reference depends on  *)
(* no buffer being on a list twice or with two surfaces.                   *)
(***************************************************************************)
EXTENDS Kms, ListsProofs

\* While no commit is pending in the eyes of the backend, none is.
NothingPending == flips = {} /\ fly = << >>

PendingInv ==
    /\ be \in {"none", "failed", "ready"} => NothingPending
    /\ \A x, y \in flips : x = y

\* A commit is accepted only when none is pending.
LEMMA CommitPending == ASSUME PendingInv, NEW o \in Outputs, CommitOk(o)
                       PROVE  PendingInv'
<1>1. flips = {}  BY DEF PendingInv, NothingPending, CommitOk, MayCommit
<1>2. flips' = flips \cup {[out |-> o, old |-> Replaced(Primary(o)), done |-> FALSE]}
  BY DEF CommitOk
<1>3. be' = "committing"  BY DEF CommitOk
<1>4. \A x, y \in flips' : x = y  BY <1>1, <1>2, ZenonT(30)
<1>. QED  BY <1>3, <1>4 DEF PendingInv

\* The flip of the one pending commit takes effect.
LEMMA VblankPending == ASSUME PendingInv, Vblank PROVE PendingInv'
<1>1. PICK x \in flips : flips' = (flips \ {x}) \cup {[x EXCEPT !.done = TRUE]}
  BY DEF Vblank
<1>2. flips = {x}  BY <1>1 DEF PendingInv
<1>3. \A y, z \in flips' : y = z  BY <1>1, <1>2, ZenonT(30)
<1>4. be' = be /\ be \notin {"none", "failed", "ready"}
  BY <1>2 DEF PendingInv, NothingPending, Vblank
<1>. QED  BY <1>3, <1>4 DEF PendingInv

\* Its event ends it.
LEMMA PageFlipPending == ASSUME PendingInv, PageFlip PROVE PendingInv'
<1>1. PICK x \in flips : flips' = flips \ {x}  BY DEF PageFlip
<1>2. flips' = {}  BY <1>1 DEF PendingInv
<1>3. fly' = << >>  BY DEF PageFlip
<1>. QED  BY <1>2, <1>3 DEF PendingInv, NothingPending

\* No other step adds a pending commit, or makes the backend READY.
LEMMA NextPending == ASSUME PendingInv, [Next]_vars PROVE PendingInv'
<1>1. CASE InitOk \/ InitFails \/ EnableSeat \/ EventError \/ Idle \/ Destroy
  BY <1>1 DEF PendingInv, NothingPending, InitOk, InitFails, EnableSeat,
              EventError, Idle, Destroy, Running
<1>2. CASE DisableSeat
  <2>1. flips' \subseteq flips /\ fly' = fly /\ be' = be  BY <1>2 DEF DisableSeat
  <2>. QED  BY <2>1 DEF PendingInv, NothingPending
<1>3. CASE Vblank  BY <1>3, VblankPending
<1>4. CASE PageFlip  BY <1>4, PageFlipPending
<1>5. ASSUME NEW o \in Outputs, CommitOk(o) PROVE PendingInv'
  BY <1>5, CommitPending
<1>6. ASSUME NEW o \in Outputs, OutputEnable(o) \/ OutputDisable(o) \/ CommitNothing(o)
      PROVE  PendingInv'
  BY <1>6 DEF PendingInv, NothingPending, OutputEnable, OutputDisable, CommitNothing, Quiet
<1>7. ASSUME NEW s \in Surfaces,
             \/ SurfaceCreate(s) \/ SurfaceDestroy(s) \/ Detach(s)
             \/ \E o \in Outputs \cup {None} : SetOutput(s, o)
             \/ \E b \in Buffers : Attach(s, b)
      PROVE  PendingInv'
  BY <1>7 DEF PendingInv, NothingPending, SurfaceCreate, SurfaceDestroy, Detach,
              SetOutput, Attach, Quiet
<1>8. ASSUME NEW b \in Buffers, Signal(b) PROVE PendingInv'
  BY <1>8 DEF PendingInv, NothingPending, Signal
<1>9. CASE UNCHANGED vars  BY <1>9 DEF PendingInv, NothingPending, vars
<1>. QED
  BY <1>1, <1>2, <1>3, <1>4, <1>5, <1>6, <1>7, <1>8, <1>9, SMTT(30) DEF Next, Dispatch

(***************************************************************************)
(* The kernel never has two commits of the server pending, and a backend   *)
(* that is READY has nothing in flight, whatever the number of outputs     *)
(* (isz_backend_commit, isz_backend_finish_commit).                        *)
(***************************************************************************)
THEOREM OneCommitPending == Spec => []OneInFlight
<1>1. Init => PendingInv  BY DEF Init, PendingInv, NothingPending
<1>2. PendingInv /\ [Next]_vars => PendingInv'  BY NextPending
<1>3. PendingInv => OneInFlight  BY DEF PendingInv, NothingPending, OneInFlight
<1>. QED  BY <1>1, <1>2, <1>3, PTL DEF Spec

-----------------------------------------------------------------------------
(* Lists of buffers                                                        *)

\* Nothing is lost or doubled when a buffer goes from position k to the tail
\* and those before it are taken off.
LEMMA RequeueIsPermutation ==
    ASSUME NEW w \in Seq(Buffers), Distinct(w), NEW k \in DOMAIN w
    PROVE  /\ Requeue(w, k) \in Seq(Buffers)
           /\ Distinct(Requeue(w, k))
           /\ Range(Requeue(w, k)) = {w[i] : i \in k .. Len(w)}
<1>. DEFINE t == SubSeq(w, k + 1, Len(w))
            r == Append(t, w[k])
<1>1. Len(w) \in Nat /\ DOMAIN w = 1 .. Len(w) /\ \A i \in DOMAIN w : w[i] \in Buffers
  BY SeqShape, SeqMember
<1>2. /\ t \in Seq(Buffers) /\ Len(t) = Len(w) - k
      /\ \A i \in 1 .. Len(w) - k : t[i] = w[k + i]
  <2>1. /\ t \in Seq(Buffers)
        /\ Len(t) = IF k + 1 <= Len(w) THEN Len(w) - (k + 1) + 1 ELSE 0
        /\ \A i \in 1 .. Len(w) - (k + 1) + 1 : t[i] = w[k + 1 + i - 1]
    BY <1>1, SubSeqShape
  <2>. QED  BY <1>1, <2>1, SMTT(30)
<1>3. /\ r \in Seq(Buffers) /\ Len(r) = Len(w) - k + 1
      /\ \A i \in 1 .. Len(w) - k : r[i] = w[k + i]
      /\ r[Len(w) - k + 1] = w[k]
  BY <1>1, <1>2, AppendShape
<1>4. DOMAIN r = 1 .. Len(w) - k + 1  BY <1>3, SeqShape
<1>. HIDE DEF r
<1>. DEFINE at(i) == IF i = Len(w) - k + 1 THEN k ELSE k + i
<1>5. \A i \in DOMAIN r : at(i) \in k .. Len(w) /\ r[i] = w[at(i)]  BY <1>1, <1>3, <1>4
<1>6. \A i, j \in DOMAIN r : at(i) = at(j) => i = j  BY <1>1, <1>4
<1>7. ASSUME NEW i \in DOMAIN r, NEW j \in DOMAIN r, r[i] = r[j] PROVE i = j
  <2>. HIDE DEF at
  <2>1. at(i) \in DOMAIN w /\ at(j) \in DOMAIN w /\ w[at(i)] = w[at(j)]  BY <1>1, <1>5, <1>7
  <2>. QED  BY <1>6, <2>1 DEF Distinct
<1>8. \A m \in k .. Len(w) : \E i \in DOMAIN r : at(i) = m
  <2>. TAKE m \in k .. Len(w)
  <2>1. CASE m = k
    <3>1. Len(w) - k + 1 \in DOMAIN r  BY <1>1, <1>4
    <3>. QED  BY <2>1, <3>1
  <2>2. CASE m # k
    <3>1. m - k \in DOMAIN r /\ m - k # Len(w) - k + 1 /\ k + (m - k) = m  BY <1>1, <1>4, <2>2
    <3>. QED  BY <3>1
  <2>. QED  BY <2>1, <2>2
<1>9. Range(r) = {w[i] : i \in k .. Len(w)}
  <2>1. Range(r) \subseteq {w[i] : i \in k .. Len(w)}  BY <1>5 DEF Range
  <2>2. ASSUME NEW m \in k .. Len(w) PROVE w[m] \in Range(r)
    <3>1. PICK i \in DOMAIN r : at(i) = m  BY <1>8
    <3>2. r[i] = w[m]  BY <1>5, <3>1
    <3>. QED  BY <3>2 DEF Range
  <2>. QED  BY <2>1, <2>2
<1>. QED  BY <1>3, <1>7, <1>9, SMTT(30) DEF Requeue, r, Distinct

\* isz_buffer_poll_out_fences: each buffer of the list is sent or waits on,
\* not both, and the references that go are those of what is sent.
LEMMA PollSplits ==
    ASSUME NEW w \in Seq(Buffers), Distinct(w), NEW D, Poll(w, D)
    PROVE  /\ wait' \in Seq(Buffers) /\ Distinct(wait')
           /\ buf' = Unref(buf, sent')
           /\ Range(wait') \subseteq Range(w)
           /\ sent' = D \cup (Range(w) \ Range(wait'))
<1>. DEFINE blocked == {i \in DOMAIN w : ~buf[w[i]].signalled}
            k == IF blocked = {} THEN Len(w) + 1 ELSE Min(blocked)
            done == D \cup {w[i] : i \in 1 .. k - 1}
<1>1. Len(w) \in Nat /\ DOMAIN w = 1 .. Len(w)  BY SeqShape, SMTT(30)
<1>2. /\ wait' = IF blocked = {} THEN << >> ELSE Requeue(w, k)
      /\ buf' = Unref(buf, done) /\ sent' = done
  BY SMTT(30) DEF Poll
<1>3. CASE blocked = {}
  <2>1. wait' = << >> /\ k = Len(w) + 1  BY <1>2, <1>3
  <2>2. wait' \in Seq(Buffers) /\ Distinct(wait') /\ Range(wait') = {}
    BY <2>1 DEF Distinct, Range
  <2>3. 1 .. k - 1 = DOMAIN w  BY <1>1, <2>1
  <2>4. {w[i] : i \in 1 .. k - 1} = Range(w)  BY <2>3, Zenon DEF Range
  <2>. QED  BY <1>2, <2>2, <2>4, Zenon
<1>4. CASE blocked # {}
  <2>1. k \in DOMAIN w
    <3>1. blocked \in SUBSET Nat  BY <1>1
    <3>2. Min(blocked) \in blocked  BY <1>4, <3>1, FirstOf, Zenon
    <3>. QED  BY <1>4, <3>2
  <2>2. wait' = Requeue(w, k)  BY <1>2, <1>4
  <2>3. /\ wait' \in Seq(Buffers) /\ Distinct(wait')
        /\ Range(wait') = {w[i] : i \in k .. Len(w)}
    <3>. HIDE DEF k
    <3>. QED  BY <2>1, <2>2, RequeueIsPermutation
  <2>4. {w[i] : i \in 1 .. k - 1} = Range(w) \ Range(wait') /\ Range(wait') \subseteq Range(w)
    <3>. HIDE DEF k
    <3>1. \A i \in 1 .. k - 1 : i \in DOMAIN w /\ i \notin k .. Len(w)  BY <1>1, <2>1
    <3>2. \A i \in DOMAIN w : i \in 1 .. k - 1 \/ i \in k .. Len(w)  BY <1>1, <2>1
    <3>3. \A i \in k .. Len(w) : i \in DOMAIN w  BY <1>1, <2>1
    <3>4. ASSUME NEW i \in 1 .. k - 1 PROVE w[i] \in Range(w) /\ w[i] \notin Range(wait')
      BY <2>3, <3>1, <3>3, SMTT(30) DEF Range, Distinct
    <3>5. ASSUME NEW i \in DOMAIN w, w[i] \notin Range(wait') PROVE i \in 1 .. k - 1
      BY <2>3, <3>2, <3>5
    <3>6. Range(wait') \subseteq Range(w)  BY <2>3, <3>3 DEF Range
    <3>. QED  BY <3>4, <3>5, <3>6 DEF Range
  <2>. QED  BY <1>2, <2>3, <2>4, ZenonT(30)
<1>. QED  BY <1>3, <1>4

-----------------------------------------------------------------------------
(* References                                                              *)

SurfaceRec == [out : Outputs \cup {None}, cur : Buffers \cup {None},
               pend : Buffers \cup {None}]
BufferRec == [refs : Int, fence : BOOLEAN, signalled : BOOLEAN]

\* The types, and that the lists have no element twice.  Only one buffer is
\* ever in flight.
Shape ==
    /\ list \in Seq(Surfaces) /\ Distinct(list)
    /\ \A i \in DOMAIN list : list[i] \in DOMAIN surf
    /\ surf \in [DOMAIN surf -> SurfaceRec]
    /\ buf \in [DOMAIN buf -> BufferRec]
    /\ wait \in Seq(Buffers) /\ Distinct(wait)
    /\ fly = << >> \/ \E b \in Buffers : fly = <<b>>

\* A buffer is with one surface, as its current or its waiting one.
Alone ==
    \A s, t \in DOMAIN surf :
       /\ surf[s].cur # None => surf[s].cur # surf[t].pend
       /\ s # t => /\ surf[s].cur # None => surf[s].cur # surf[t].cur
                   /\ surf[s].pend # None => surf[s].pend # surf[t].pend

One(p) == IF p THEN 1 ELSE 0
OnSurface(b) == \E s \in DOMAIN surf : b \in {surf[s].cur, surf[s].pend}
Holds(b) == One(OnSurface(b)) + One(b \in Range(fly)) + One(b \in Range(wait))

\* A buffer lives as long as it is held, and its count says by how many.
Exact ==
    /\ DOMAIN buf = {b \in Buffers : Holds(b) > 0}
    /\ \A b \in DOMAIN buf : buf[b].refs = Holds(b)
    /\ Range(fly) \cap Range(wait) = {}

RefsInv == ~ub => Shape /\ Alone /\ Exact /\ (be = "down" => Queued = {})

LEMMA HoldsNat == ASSUME NEW b PROVE Holds(b) \in 0 .. 3
BY DEF Holds, One

\* The buffers of f are those that h says are held, as often as f counts.
CountedBy(f, h) ==
    /\ DOMAIN f = {b \in Buffers : h[b] > 0}
    /\ \A b \in DOMAIN f : f[b].refs = h[b]
    /\ f \in [DOMAIN f -> BufferRec]

\* h has one holder less for each buffer of D.
OneLess(h, D) == \A b \in Buffers : h[b] = Holds(b) - One(b \in D \cap DOMAIN buf)

\* To let go of the buffers D is right when each has one holder less.
LEMMA UnrefCounts ==
    ASSUME Exact, buf \in [DOMAIN buf -> BufferRec], NEW D, NEW h, OneLess(h, D)
    PROVE  CountedBy(Unref(buf, D), h)
<1>. DEFINE f == Unref(buf, D)
<1>1. DOMAIN f = {x \in DOMAIN buf : ~(x \in D /\ buf[x].refs = 1)}  BY DEF Unref
<1>2. \A b \in DOMAIN f : f[b] = IF b \in D THEN [buf[b] EXCEPT !.refs = @ - 1] ELSE buf[b]
  BY <1>1 DEF Unref
<1>3. \A b \in DOMAIN buf : b \in Buffers /\ buf[b].refs = Holds(b) /\ Holds(b) > 0  BY DEF Exact
<1>. HIDE DEF f
<1>4. \A b \in DOMAIN buf : h[b] = IF b \in D THEN buf[b].refs - 1 ELSE buf[b].refs
  BY <1>3, HoldsNat DEF One, OneLess
<1>5. \A b \in DOMAIN f : f[b] \in BufferRec /\ f[b].refs = h[b]
  BY <1>1, <1>2, <1>4 DEF BufferRec
<1>6. \A b \in Buffers : b \notin DOMAIN buf => h[b] = 0
  <2>. SUFFICES ASSUME NEW b \in Buffers, b \notin DOMAIN buf PROVE h[b] = 0  OBVIOUS
  <2>1. ~(Holds(b) > 0)  BY DEF Exact
  <2>2. Holds(b) = 0  BY <2>1, HoldsNat
  <2>. QED  BY <2>2 DEF One, OneLess
<1>7. \A b \in DOMAIN buf : b \in DOMAIN f <=> h[b] > 0
  BY <1>1, <1>3, <1>4, HoldsNat
<1>8. DOMAIN f = {b \in Buffers : h[b] > 0}
  BY <1>1, <1>3, <1>6, <1>7
<1>9. f = [b \in DOMAIN f |-> f[b]]  BY <1>1 DEF Unref, f
<1>10. f \in [DOMAIN f -> BufferRec]  BY <1>5, <1>9
<1>. QED  BY <1>5, <1>8, <1>10 DEF CountedBy, f

LEMMA UnrefExact ==
    ASSUME Exact, buf \in [DOMAIN buf -> BufferRec], NEW D, buf' = Unref(buf, D),
           \A b \in Buffers : Holds(b)' = Holds(b) - One(b \in D \cap DOMAIN buf)
    PROVE  /\ DOMAIN buf' = {b \in Buffers : Holds(b)' > 0}
           /\ \A b \in DOMAIN buf' : buf'[b].refs = Holds(b)'
           /\ buf' \in [DOMAIN buf' -> BufferRec]
<1>. DEFINE h == [b \in Buffers |-> Holds(b)']
<1>1. OneLess(h, D)  BY DEF OneLess
<1>. HIDE DEF h
<1>2. CountedBy(buf', h)  BY <1>1, UnrefCounts
<1>3. \A b \in Buffers : h[b] = Holds(b)'  BY DEF h
<1>. QED  BY <1>2, <1>3 DEF CountedBy

\* A step that moves nothing.
LEMMA SameRefs ==
    ASSUME RefsInv, UNCHANGED <<list, surf, buf, fly, wait, ub>>, be' = "down" => be = "down"
    PROVE  RefsInv'
<1>1. Shape => Shape'  BY DEF Shape, Distinct
<1>2. Alone => Alone'  BY DEF Alone
<1>3. \A b : Holds(b)' = Holds(b)  BY DEF Holds, OnSurface
<1>4. Exact => Exact'  BY <1>3 DEF Exact
<1>5. Queued' = Queued  BY DEF Queued
<1>. QED  BY <1>1, <1>2, <1>4, <1>5, SMTT(30) DEF RefsInv

\* What a step on the surfaces leaves alone.
LEMMA QuietStep ==
    ASSUME RefsInv, Running, Quiet
    PROVE  /\ ~ub /\ ~ub' /\ be' # "down" /\ be' = be
           /\ Shape /\ Alone /\ Exact
           /\ fly' = fly /\ wait' = wait
           /\ Range(fly)' = Range(fly) /\ Range(wait)' = Range(wait)
BY DEF RefsInv, Running, Quiet

LEMMA CreateRefs == ASSUME RefsInv, NEW s \in Surfaces, SurfaceCreate(s) PROVE RefsInv'
<1>1. /\ ~ub' /\ be' # "down" /\ Shape /\ Alone /\ Exact /\ fly' = fly /\ wait' = wait
      /\ Range(fly)' = Range(fly) /\ Range(wait)' = Range(wait)
  BY QuietStep DEF SurfaceCreate
<1>. DEFINE new == [out |-> None, cur |-> None, pend |-> None]
<1>2. /\ s \notin DOMAIN surf /\ list' = Append(list, s) /\ buf' = buf
      /\ DOMAIN surf' = DOMAIN surf \cup {s} /\ surf'[s] = new
      /\ \A t \in DOMAIN surf : surf'[t] = surf[t]
      /\ surf' = [t \in DOMAIN surf' |-> surf'[t]]
  BY DEF SurfaceCreate
<1>3. surf' \in [DOMAIN surf' -> SurfaceRec]  BY <1>1, <1>2 DEF Shape, SurfaceRec
<1>4. /\ list' \in Seq(Surfaces) /\ Distinct(list')
      /\ \A i \in DOMAIN list' : list'[i] \in DOMAIN surf'
  <2>1. /\ list \in Seq(Surfaces) /\ Distinct(list) /\ \A i \in DOMAIN list : list[i] \in DOMAIN surf
        /\ Len(list) \in Nat /\ DOMAIN list = 1 .. Len(list)
    BY <1>1, SeqShape DEF Shape
  <2>2. /\ list' \in Seq(Surfaces) /\ Len(list') = Len(list) + 1
        /\ \A i \in 1 .. Len(list) : list'[i] = list[i]
        /\ list'[Len(list) + 1] = s
    BY <1>2, <2>1, AppendShape
  <2>3. DOMAIN list' = 1 .. Len(list) + 1  BY <2>2, SeqShape
  <2>4. \A i \in DOMAIN list' : i \in DOMAIN list \/ i = Len(list) + 1  BY <2>1, <2>3
  <2>. QED  BY <1>2, <2>1, <2>2, <2>4 DEF Distinct
<1>5. Shape'  BY <1>1, <1>2, <1>3, <1>4, SMTT(30) DEF Shape
<1>6. Alone'  BY <1>1, <1>2 DEF Alone
<1>7. \A b \in Buffers : OnSurface(b)' = OnSurface(b)
  <2>1. None \notin Buffers  BY KmsAssumption
  <2>. QED  BY <1>2, <2>1 DEF OnSurface
<1>8. \A b \in Buffers : Holds(b)' = Holds(b)  BY <1>1, <1>7, SMTT(30) DEF Holds
<1>9. Exact'  BY <1>1, <1>2, <1>8 DEF Exact
<1>. QED  BY <1>1, <1>5, <1>6, <1>9 DEF RefsInv

LEMMA MoveRefs == ASSUME RefsInv, NEW s \in Surfaces, NEW o \in Outputs \cup {None}, SetOutput(s, o)
                  PROVE  RefsInv'
<1>1. /\ ~ub' /\ be' # "down" /\ Shape /\ Alone /\ Exact /\ fly' = fly /\ wait' = wait
      /\ Range(fly)' = Range(fly) /\ Range(wait)' = Range(wait)
  BY QuietStep DEF SetOutput
<1>2. /\ s \in DOMAIN surf /\ surf' = [surf EXCEPT ![s].out = o] /\ list' = list /\ buf' = buf
  BY DEF SetOutput
<1>3. /\ DOMAIN surf' = DOMAIN surf /\ surf' \in [DOMAIN surf' -> SurfaceRec]
      /\ \A t \in DOMAIN surf : surf'[t].cur = surf[t].cur /\ surf'[t].pend = surf[t].pend
  BY <1>1, <1>2 DEF Shape, SurfaceRec
<1>4. Shape'  BY <1>1, <1>2, <1>3, SMTT(30) DEF Shape
<1>5. Alone'  BY <1>1, <1>3 DEF Alone
<1>6. \A b : OnSurface(b)' = OnSurface(b)  BY <1>3 DEF OnSurface
<1>7. \A b \in Buffers : Holds(b)' = Holds(b)  BY <1>1, <1>6 DEF Holds
<1>8. Exact'  BY <1>1, <1>2, <1>7 DEF Exact
<1>. QED  BY <1>1, <1>4, <1>5, <1>8 DEF RefsInv

LEMMA SignalRefs == ASSUME RefsInv, NEW b \in Buffers, Signal(b) PROVE RefsInv'
<1>1. /\ ~ub /\ ~ub' /\ be' = be /\ Shape /\ Alone /\ Exact /\ UNCHANGED <<list, surf, fly, wait>>
      /\ b \in DOMAIN buf /\ buf' = [buf EXCEPT ![b].signalled = TRUE]
  BY Zenon DEF Signal, RefsInv, surfaces
<1>2. /\ DOMAIN buf' = DOMAIN buf /\ buf' \in [DOMAIN buf' -> BufferRec]
      /\ \A x \in DOMAIN buf : buf'[x].refs = buf[x].refs
  BY <1>1, ZenonT(30) DEF Shape, BufferRec
<1>3. Shape'  BY <1>1, <1>2 DEF Shape, Distinct
<1>4. Alone'  BY <1>1 DEF Alone
<1>5. \A x : Holds(x)' = Holds(x)  BY <1>1 DEF Holds, OnSurface
<1>6. Exact'  BY <1>1, <1>2, <1>5 DEF Exact
<1>. QED  BY <1>1, <1>3, <1>4, <1>6 DEF RefsInv, Queued

\* A buffer held by a surface is alive.
LEMMA OnSurfaceAlive ==
    ASSUME Exact, NEW b \in Buffers, OnSurface(b)
    PROVE  b \in DOMAIN buf
<1>1. Holds(b) > 0  BY DEF Holds, One
<1>. QED  BY <1>1 DEF Exact

LEMMA DestroySurfaceRefs == ASSUME RefsInv, NEW s \in Surfaces, SurfaceDestroy(s) PROVE RefsInv'
<1>1. /\ ~ub' /\ be' # "down" /\ Shape /\ Alone /\ Exact /\ fly' = fly /\ wait' = wait
      /\ Range(fly)' = Range(fly) /\ Range(wait)' = Range(wait)
  BY QuietStep DEF SurfaceDestroy
<1>. DEFINE D == {surf[s].cur, surf[s].pend}
<1>2. /\ s \in DOMAIN surf /\ surf' = [t \in DOMAIN surf \ {s} |-> surf[t]]
      /\ buf' = Unref(buf, D)
  BY DEF SurfaceDestroy
<1>3. PICK i \in DOMAIN list :
         list[i] = s /\ list' = Unlink(list, i)
  BY DEF SurfaceDestroy
<1>4. list' \in Seq(Surfaces) /\ Distinct(list') /\ Range(list') = Range(list) \ {s}
  <2>1. list \in Seq(Surfaces) /\ Distinct(list)  BY <1>1 DEF Shape
  <2>. QED  BY <1>3, <2>1, UnlinkRemoves
<1>5. \A j \in DOMAIN list' : list'[j] \in DOMAIN surf'
  <2>1. \A j \in DOMAIN list' : list'[j] \in Range(list) \ {s}  BY <1>4, ZenonT(30) DEF Range
  <2>. QED  BY <1>1, <1>2, <2>1 DEF Range, Shape
<1>6. surf' \in [DOMAIN surf' -> SurfaceRec]  BY <1>1, <1>2 DEF Shape
<1>7. ASSUME NEW b \in Buffers PROVE OnSurface(b)' <=> OnSurface(b) /\ b \notin D
  <2>1. b # None  BY KmsAssumption
  <2>2. ASSUME NEW t \in DOMAIN surf, t # s, b \in {surf[t].cur, surf[t].pend} PROVE b \notin D
    BY <1>1, <1>2, <2>1, <2>2 DEF Alone
  <2>. QED  BY <1>2, <2>2 DEF OnSurface
<1>8. \A b \in Buffers : b \in D => OnSurface(b) /\ b \in DOMAIN buf
  BY <1>1, <1>2, OnSurfaceAlive DEF OnSurface
<1>9. \A b \in Buffers : Holds(b)' = Holds(b) - One(b \in D \cap DOMAIN buf)
  <2>. HIDE DEF D
  <2>. QED  BY <1>1, <1>7, <1>8, SMTT(30) DEF Holds, One
<1>10. Exact' /\ buf' \in [DOMAIN buf' -> BufferRec]
  <2>. HIDE DEF D
  <2>. QED  BY <1>1, <1>2, <1>9, UnrefExact, ZenonT(30) DEF Exact, Shape
<1>11. Shape'  BY <1>1, <1>4, <1>5, <1>6, <1>10 DEF Shape
<1>12. Alone'  BY <1>1, <1>2 DEF Alone
<1>. QED  BY <1>1, <1>10, <1>11, <1>12 DEF RefsInv

LEMMA DetachRefs == ASSUME RefsInv, NEW s \in Surfaces, Detach(s) PROVE RefsInv'
<1>1. /\ ~ub' /\ be' # "down" /\ Shape /\ Alone /\ Exact /\ fly' = fly /\ wait' = wait
      /\ Range(fly)' = Range(fly) /\ Range(wait)' = Range(wait)
  BY QuietStep DEF Detach
<1>2. /\ s \in DOMAIN surf /\ surf' = [surf EXCEPT ![s].cur = None] /\ list' = list
      /\ buf' = Unref(buf, {surf[s].cur})
  BY DEF Detach
<1>3. /\ DOMAIN surf' = DOMAIN surf /\ surf' \in [DOMAIN surf' -> SurfaceRec]
      /\ surf'[s].cur = None /\ surf'[s].pend = surf[s].pend
      /\ \A t \in DOMAIN surf \ {s} : surf'[t] = surf[t]
  BY <1>1, <1>2, ZenonT(30) DEF Shape, SurfaceRec
<1>4. ASSUME NEW b \in Buffers PROVE OnSurface(b)' <=> OnSurface(b) /\ b # surf[s].cur
  <2>1. b # None  BY KmsAssumption
  <2>2. ASSUME NEW t \in DOMAIN surf, b \in {surf'[t].cur, surf'[t].pend}
        PROVE  b \in {surf[t].cur, surf[t].pend} /\ b # surf[s].cur
    BY <1>1, <1>2, <1>3, <2>1, <2>2 DEF Alone
  <2>3. ASSUME NEW t \in DOMAIN surf, b \in {surf[t].cur, surf[t].pend}, b # surf[s].cur
        PROVE  b \in {surf'[t].cur, surf'[t].pend}
    BY <1>3, <2>3
  <2>. QED  BY <1>3, <2>2, <2>3 DEF OnSurface
<1>5. \A b \in Buffers : b \in {surf[s].cur} => OnSurface(b) /\ b \in DOMAIN buf
  BY <1>1, <1>2, OnSurfaceAlive DEF OnSurface
<1>6. \A b \in Buffers : Holds(b)' = Holds(b) - One(b \in {surf[s].cur} \cap DOMAIN buf)
  BY <1>1, <1>4, <1>5 DEF Holds, One
<1>7. Exact' /\ buf' \in [DOMAIN buf' -> BufferRec]
  BY <1>1, <1>2, <1>6, UnrefExact, Zenon DEF Exact, Shape
<1>8. Shape'  BY <1>1, <1>2, <1>3, <1>7, ZenonT(30) DEF Shape
<1>9. Alone'
  <2>1. \A t \in DOMAIN surf : /\ surf'[t].cur \in {None, surf[t].cur}
                               /\ surf'[t].pend = surf[t].pend
    BY <1>3
  <2>. QED  BY <1>1, <1>3, <2>1 DEF Alone
<1>. QED  BY <1>1, <1>7, <1>8, <1>9 DEF RefsInv

LEMMA AttachRefs == ASSUME RefsInv, NEW s \in Surfaces, NEW b \in Buffers, Attach(s, b)
                    PROVE  RefsInv'
<1>1. /\ ~ub' /\ be' # "down" /\ Shape /\ Alone /\ Exact /\ fly' = fly /\ wait' = wait
      /\ Range(fly)' = Range(fly) /\ Range(wait)' = Range(wait)
  BY QuietStep DEF Attach
<1>. DEFINE D == {surf[s].pend}
            f == Unref(buf, D)
            h == [x \in Buffers |-> Holds(x) - One(x \in D \cap DOMAIN buf)]
<1>2. /\ s \in DOMAIN surf /\ b \notin DOMAIN buf /\ list' = list
      /\ surf' = [surf EXCEPT ![s].pend = surf[s].cur, ![s].cur = b]
      /\ buf' = Import(f, b)
  BY DEF Attach, Unused
<1>3. /\ DOMAIN surf' = DOMAIN surf /\ surf' \in [DOMAIN surf' -> SurfaceRec]
      /\ surf'[s].cur = b /\ surf'[s].pend = surf[s].cur
      /\ \A t \in DOMAIN surf \ {s} : surf'[t] = surf[t]
  BY <1>1, <1>2, ZenonT(30) DEF Shape, SurfaceRec
<1>4. ~OnSurface(b) /\ b \notin Range(fly) /\ b \notin Range(wait)
  <2>1. ~(Holds(b) > 0)  BY <1>1, <1>2 DEF Exact
  <2>. QED  BY <2>1 DEF Holds, One
<1>5. ASSUME NEW x \in Buffers, x # b PROVE OnSurface(x)' <=> OnSurface(x) /\ x \notin D
  <2>1. x # None  BY KmsAssumption
  <2>2. ASSUME NEW t \in DOMAIN surf, x \in {surf'[t].cur, surf'[t].pend}
        PROVE  x \in {surf[t].cur, surf[t].pend} /\ x \notin D
    BY <1>1, <1>2, <1>3, <1>5, <2>1, <2>2 DEF Alone
  <2>3. ASSUME NEW t \in DOMAIN surf, x \in {surf[t].cur, surf[t].pend}, x \notin D
        PROVE  x \in {surf'[t].cur, surf'[t].pend}
    BY <1>3, <2>3
  <2>. QED  BY <1>3, <2>2, <2>3 DEF OnSurface
<1>6. \A x \in Buffers : x \in D => OnSurface(x) /\ x \in DOMAIN buf
  BY <1>1, <1>2, OnSurfaceAlive DEF OnSurface
<1>7. CountedBy(f, h)
  <2>1. OneLess(h, D)  BY DEF OneLess
  <2>. HIDE DEF h, D
  <2>. QED  BY <1>1, <2>1, UnrefCounts DEF Shape
<1>8. ASSUME NEW x \in Buffers, x # b PROVE Holds(x)' = h[x]
  <2>. HIDE DEF D
  <2>. QED  BY <1>1, <1>5, <1>6, <1>8 DEF Holds, One
<1>9. Holds(b)' = 1
  <2>1. OnSurface(b)'  BY <1>2, <1>3 DEF OnSurface
  <2>. QED  BY <1>1, <1>4, <2>1 DEF Holds, One
<1>. HIDE DEF f, h
<1>10. /\ DOMAIN buf' = DOMAIN f \cup {b}
       /\ buf'[b] = [refs |-> 1, fence |-> FALSE, signalled |-> FALSE]
       /\ \A x \in DOMAIN f \ {b} : buf'[x] = f[x]
       /\ buf' = [x \in DOMAIN buf' |-> buf'[x]]
  BY <1>2, SMTT(30) DEF Import
<1>11. Exact'
  <2>1. DOMAIN buf' = {x \in Buffers : Holds(x)' > 0}  BY <1>7, <1>8, <1>9, <1>10, SMTT(30) DEF CountedBy
  <2>2. \A x \in DOMAIN buf' : buf'[x].refs = Holds(x)'  BY <1>7, <1>8, <1>9, <1>10 DEF CountedBy
  <2>. QED  BY <1>1, <2>1, <2>2 DEF Exact
<1>12. buf' \in [DOMAIN buf' -> BufferRec]
  <2>1. buf'[b] \in BufferRec  BY <1>10 DEF BufferRec
  <2>2. \A x \in DOMAIN buf' : buf'[x] \in BufferRec  BY <1>7, <1>10, <2>1, ZenonT(30) DEF CountedBy
  <2>. QED  BY <1>10, <2>2
<1>13. Shape'  BY <1>1, <1>2, <1>3, <1>12 DEF Shape
<1>14. Alone'
  <2>1. b # None  BY KmsAssumption
  <2>2. \A t \in DOMAIN surf : surf[t].cur # b /\ surf[t].pend # b  BY <1>4 DEF OnSurface
  <2>. QED  BY <1>1, <1>3, <2>1, <2>2 DEF Alone
<1>. QED  BY <1>1, <1>11, <1>13, <1>14 DEF RefsInv

\* What a commit shows is a live surface, and what it replaces is alive.
LEMMA ReplacedAlive ==
    ASSUME Shape, Exact, NEW o, Replaced(Primary(o)) # None
    PROVE  /\ Replaced(Primary(o)) \in Buffers
           /\ Replaced(Primary(o)) \in DOMAIN buf
<1>. DEFINE p == Primary(o)
<1>1. p # None  BY DEF Replaced
<1>2. Shown(o) # {} /\ p = list[Min(Shown(o))]  BY <1>1 DEF Primary
<1>3. Shown(o) \subseteq DOMAIN list /\ Shown(o) \in SUBSET Nat
  <2>1. DOMAIN list = 1 .. Len(list) /\ Len(list) \in Nat  BY SeqShape DEF Shape
  <2>. QED  BY <2>1 DEF Shown
<1>4. p \in DOMAIN surf  BY <1>2, <1>3, FirstOf, SMTT(30) DEF Shape
<1>. HIDE DEF p
<1>5. Replaced(p) = surf[p].pend  BY <1>1 DEF Replaced
<1>6. Replaced(p) \in Buffers  BY <1>4, <1>5 DEF Shape, SurfaceRec, p
<1>7. OnSurface(Replaced(p))  BY <1>4, <1>5 DEF OnSurface
<1>. QED  BY <1>6, <1>7, OnSurfaceAlive DEF p

LEMMA RangeOfOne == /\ Range(<< >>) = {}
                    /\ \A b : Range(<<b>>) = {b}
BY DEF Range

LEMMA CommitRefs == ASSUME PendingInv, RefsInv, NEW o \in Outputs, CommitOk(o) PROVE RefsInv'
<1>. DEFINE old == Replaced(Primary(o))
<1>1. /\ ~ub /\ Shape /\ Alone /\ Exact /\ be' # "down"
      /\ list' = list /\ surf' = surf /\ wait' = wait
  BY ZenonT(30) DEF RefsInv, CommitOk, Running, surfaces
<1>2. CASE old = None
  <2>1. UNCHANGED <<list, surf, buf, fly, wait, ub>>  BY <1>1, <1>2 DEF CommitOk
  <2>. QED  BY <1>1, <2>1, SameRefs
<1>3. CASE old # None /\ ub'  BY <1>3 DEF RefsInv
<1>4. CASE old # None /\ ~ub'
  <2>1. PICK f \in Fenced(old) : buf' = [f EXCEPT ![old].refs = @ + 1]  BY <1>4 DEF CommitOk
  <2>2. fly' = Append(fly, old) /\ ub' = (old \in Queued)  BY <1>4 DEF CommitOk
  <2>3. fly = << >>  BY DEF CommitOk, MayCommit, PendingInv, NothingPending
  <2>4. old \in Buffers /\ old \in DOMAIN buf  BY <1>1, <1>4, ReplacedAlive
  <2>. HIDE DEF old
  <2>5. fly' = <<old>>  BY <2>2, <2>3
  <2>6. Range(fly) = {} /\ Range(fly') = {old}  BY <2>3, <2>5, RangeOfOne
  <2>7. old \notin Range(wait)  BY <1>4, <2>2, Zenon DEF Queued
  <2>8. /\ DOMAIN f = DOMAIN buf /\ f \in [DOMAIN f -> BufferRec]
        /\ \A b \in DOMAIN f : f[b].refs = buf[b].refs
    <3>1. buf \in [DOMAIN buf -> BufferRec]  BY <1>1 DEF Shape
    <3>2. CASE f = buf  BY <3>1, <3>2
    <3>3. ASSUME NEW x \in BOOLEAN, f = [buf EXCEPT ![old].fence = TRUE, ![old].signalled = x]
          PROVE  /\ DOMAIN f = DOMAIN buf /\ f \in [DOMAIN f -> BufferRec]
                 /\ \A b \in DOMAIN f : f[b].refs = buf[b].refs
      BY <2>4, <3>1, <3>3, ZenonT(30) DEF BufferRec
    <3>. QED  BY <3>2, <3>3, ZenonT(30) DEF Fenced
  <2>9. /\ DOMAIN buf' = DOMAIN buf /\ buf' \in [DOMAIN buf' -> BufferRec]
        /\ buf'[old].refs = buf[old].refs + 1
        /\ \A b \in DOMAIN buf \ {old} : buf'[b].refs = buf[b].refs
    BY <2>1, <2>4, <2>8 DEF BufferRec
  <2>10. \A b \in Buffers : Holds(b)' = Holds(b) + One(b = old)
    <3>1. \A b : OnSurface(b)' = OnSurface(b)  BY <1>1 DEF OnSurface
    <3>2. Range(wait)' = Range(wait) /\ Range(fly)' = {old}  BY <1>1, <2>6
    <3>. QED  BY <2>6, <3>1, <3>2 DEF Holds, One
  <2>11. DOMAIN buf' = {b \in Buffers : Holds(b)' > 0}
    <3>1. \A b \in Buffers : Holds(b)' > 0 <=> Holds(b) > 0 \/ b = old
      BY <2>10, HoldsNat DEF One
    <3>2. Holds(old) > 0  BY <1>1, <2>4 DEF Exact
    <3>. QED  BY <1>1, <2>9, <3>1, <3>2 DEF Exact
  <2>12. \A b \in DOMAIN buf' : buf'[b].refs = Holds(b)'
    <3>1. \A b \in DOMAIN buf : b \in Buffers /\ buf[b].refs = Holds(b) /\ Holds(b) \in Int
      BY <1>1, HoldsNat DEF Exact
    <3>. QED  BY <2>9, <2>10, <3>1 DEF One
  <2>13. Range(fly)' \cap Range(wait)' = {}  BY <1>1, <2>6, <2>7
  <2>14. Exact'  BY <2>11, <2>12, <2>13 DEF Exact
  <2>15. Shape'  BY <1>1, <2>4, <2>5, <2>9, SMTT(30) DEF Shape
  <2>16. Alone'  BY <1>1 DEF Alone
  <2>. QED  BY <1>1, <2>14, <2>15, <2>16 DEF RefsInv
<1>. QED  BY <1>2, <1>3, <1>4

\* A step that takes the buffers D off the lists and drops their references.
LEMMA LetGoRefs ==
    ASSUME Shape, Alone, Exact, NEW D, buf' = Unref(buf, D), ~ub',
           list' = list, surf' = surf, wait' \in Seq(Buffers), Distinct(wait'),
           fly' = fly \/ fly' = << >>,
           Range(fly') \cap Range(wait') = {},
           Queued' \subseteq Queued, D = Queued \ Queued',
           be' = "down" => Queued' = {}
    PROVE  RefsInv'
<1>1. \A b : OnSurface(b)' = OnSurface(b)  BY DEF OnSurface
<1>2. \A b \in Buffers : b \in D => b \in DOMAIN buf
  <2>1. \A b \in Buffers : b \in Queued => Holds(b) > 0  BY DEF Holds, One, Queued
  <2>. QED  BY <2>1 DEF Exact
<1>3. Range(fly) \cap Range(wait) = {}  BY DEF Exact
<1>4. \A b \in Buffers : Holds(b)' = Holds(b) - One(b \in D \cap DOMAIN buf)
  <2>1. ASSUME NEW b PROVE One(b \in Range(fly)) + One(b \in Range(wait)) = One(b \in Queued)
    BY <1>3 DEF One, Queued
  <2>2. ASSUME NEW b PROVE One(b \in Range(fly')) + One(b \in Range(wait')) = One(b \in Queued')
    BY DEF One, Queued
  <2>3. ASSUME NEW b \in Buffers
        PROVE  One(b \in Queued') = One(b \in Queued) - One(b \in D \cap DOMAIN buf)
    BY <1>2 DEF One
  <2>4. ASSUME NEW b PROVE Holds(b) = One(OnSurface(b)) + One(b \in Queued)
    BY <2>1 DEF Holds, One
  <2>5. ASSUME NEW b PROVE Holds(b)' = One(OnSurface(b)) + One(b \in Queued')
    BY <1>1, <2>2, SMTT(30) DEF Holds, One
  <2>. QED  BY <2>3, <2>4, <2>5 DEF One
<1>5. Exact' /\ buf' \in [DOMAIN buf' -> BufferRec]  BY <1>4, UnrefExact, Zenon DEF Shape, Exact
<1>6. fly' = << >> \/ \E b \in Buffers : fly' = <<b>>  BY DEF Shape
<1>7. Shape'  BY <1>5, <1>6, ZenonT(30) DEF Shape
<1>8. Alone'  BY DEF Alone
<1>. QED  BY <1>5, <1>7, <1>8 DEF RefsInv

\* A dispatch that empties nothing but polls.
LEMMA PollRefs ==
    ASSUME RefsInv, Running, Poll(wait, {}), UNCHANGED <<list, surf, fly, ub>>,
           be' = "down" => be = "down"
    PROVE  RefsInv'
<1>1. ~ub /\ ~ub' /\ Shape /\ Alone /\ Exact /\ be' # "down"  BY DEF RefsInv, Running
<1>2. /\ wait' \in Seq(Buffers) /\ Distinct(wait')
      /\ buf' = Unref(buf, sent')
      /\ Range(wait') \subseteq Range(wait)
      /\ sent' = {} \cup (Range(wait) \ Range(wait'))
  BY <1>1, PollSplits DEF Shape
<1>3. Range(fly) \cap Range(wait) = {}  BY <1>1 DEF Exact
<1>4. /\ Range(fly') \cap Range(wait') = {} /\ Queued' \subseteq Queued
      /\ sent' = Queued \ Queued'
  BY <1>2, <1>3 DEF Queued
<1>. QED  BY <1>1, <1>2, <1>4, LetGoRefs

\* Of one buffer in flight the walk of page_flip_handler takes all or none.
LEMMA PickedOfOne ==
    /\ \A l : Picked(l, {}) = << >>
    /\ \A b : Picked(<<b>>, {1}) = <<b>>
<1>1. \A l : Picked(l, {}) = << >>  BY FS_EmptySet DEF Picked
<1>2. ASSUME NEW b PROVE Picked(<<b>>, {1}) = <<b>>
  <2>. DEFINE at == CHOOSE g \in [1 .. Cardinality({1}) -> {1}] : Rising(g)
  <2>1. Cardinality({1}) = 1  BY FS_Singleton, ZenonT(30)
  <2>2. Rising([i \in 1 .. 1 |-> 1]) /\ [i \in 1 .. 1 |-> 1] \in [1 .. 1 -> {1}]
    BY DEF Rising
  <2>3. at \in [1 .. 1 -> {1}]  BY <2>1, <2>2
  <2>4. Picked(<<b>>, {1}) = [i \in 1 .. Cardinality({1}) |-> <<b>>[at[i]]]
    BY Zenon DEF Picked
  <2>. HIDE DEF at
  <2>5. \A i \in 1 .. 1 : <<b>>[at[i]] = b  BY <2>3
  <2>. QED  BY <2>1, <2>4, <2>5
<1>. QED  BY <1>1, <1>2

LEMMA PageFlipRefs == ASSUME RefsInv, PageFlip PROVE RefsInv'
<1>. DEFINE I == {i \in DOMAIN fly : buf[fly[i]].fence}
            fenced == Picked(fly, I)
<1>1. /\ ~ub /\ ~ub' /\ Shape /\ Alone /\ Exact /\ be' # "down"
      /\ list' = list /\ surf' = surf /\ fly' = << >>
  BY Zenon DEF RefsInv, PageFlip, Running, surfaces
<1>2. Poll(wait \o fenced, Range(fly) \ Range(fenced))  BY DEF PageFlip
<1>3. fenced = << >> \/ \E b \in Buffers : fly = <<b>> /\ fenced = <<b>>
  <2>1. CASE I = {}  BY <2>1, PickedOfOne, Zenon
  <2>2. CASE I # {}
    <3>1. PICK b \in Buffers : fly = <<b>>  BY <1>1, <2>2 DEF Shape
    <3>2. I = {1}  BY <2>2, <3>1
    <3>. QED  BY <3>1, <3>2, PickedOfOne, ZenonT(30)
  <2>. QED  BY <2>1, <2>2
<1>. HIDE DEF fenced
<1>4. Range(fenced) \subseteq Range(fly) /\ fenced \in Seq(Buffers)
  <2>1. fenced \in Seq(Buffers)
    <3>1. << >> \in Seq(Buffers)  BY EmptyShape
    <3>2. \A b \in Buffers : <<b>> \in Seq(Buffers)  OBVIOUS
    <3>. QED  BY <1>3, <3>1, <3>2, ZenonT(30)
  <2>2. fenced = << >> \/ fenced = fly  BY <1>3
  <2>. QED  BY <2>1, <2>2, RangeOfOne
<1>5. wait \in Seq(Buffers) /\ Distinct(wait) /\ Range(fly) \cap Range(wait) = {}
  BY <1>1 DEF Shape, Exact
<1>6. Distinct(fenced)
  <2>1. CASE fenced = << >>  BY <2>1 DEF Distinct
  <2>2. ASSUME NEW b \in Buffers, fenced = <<b>> PROVE Distinct(fenced)  BY <2>2 DEF Distinct
  <2>. QED  BY <1>3, <2>1, <2>2
<1>7. /\ wait \o fenced \in Seq(Buffers) /\ Distinct(wait \o fenced)
      /\ Range(wait \o fenced) = Range(wait) \cup Range(fenced)
  <2>1. \A x \in Range(wait) : x \notin Range(fenced)  BY <1>4, <1>5
  <2>. QED  BY <1>4, <1>5, <1>6, <2>1, JoinKeeps, SMTT(30)
<1>8. /\ wait' \in Seq(Buffers) /\ Distinct(wait')
      /\ buf' = Unref(buf, sent')
      /\ Range(wait') \subseteq Range(wait \o fenced)
      /\ sent' = (Range(fly) \ Range(fenced)) \cup (Range(wait \o fenced) \ Range(wait'))
  BY <1>2, <1>7, PollSplits, ZenonT(30)
<1>9. Range(fly') = {}  BY <1>1, RangeOfOne
<1>10. Queued' \subseteq Queued /\ sent' = Queued \ Queued'
  BY <1>4, <1>5, <1>7, <1>8, <1>9 DEF Queued
<1>. QED  BY <1>1, <1>8, <1>9, <1>10, LetGoRefs

LEMMA DestroyRefs == ASSUME RefsInv, Destroy PROVE RefsInv'
<1>1. /\ ~ub /\ ~ub' /\ Shape /\ Alone /\ Exact /\ list' = list /\ surf' = surf
      /\ fly' = << >> /\ wait' = << >> /\ buf' = Unref(buf, Queued)
  BY ZenonT(30) DEF RefsInv, Destroy, Running, surfaces
<1>2. wait' \in Seq(Buffers) /\ Distinct(wait')  BY <1>1 DEF Distinct
<1>3. Range(fly') = {} /\ Range(wait') = {}  BY <1>1, RangeOfOne
<1>4. Queued' = {}  BY <1>3 DEF Queued
<1>. QED  BY <1>1, <1>2, <1>3, <1>4, LetGoRefs

LEMMA NextRefs == ASSUME PendingInv, RefsInv, [Next]_vars PROVE RefsInv'
<1>1. CASE InitOk \/ InitFails \/ Vblank
  BY <1>1, SameRefs, ZenonT(30) DEF InitOk, InitFails, Vblank, surfaces
<1>2. CASE DisableSeat \/ EnableSeat \/ EventError \/ Idle
  <2>1. /\ Running /\ Poll(wait, {}) /\ UNCHANGED <<list, surf, fly, ub>>
        /\ be' = be \/ be' = "error"
    BY <1>2, ZenonT(30) DEF DisableSeat, EnableSeat, EventError, Idle, surfaces
  <2>. QED  BY <2>1, PollRefs
<1>3. CASE PageFlip  BY <1>3, PageFlipRefs
<1>4. CASE Destroy  BY <1>4, DestroyRefs
<1>5. ASSUME NEW o \in Outputs, CommitOk(o) PROVE RefsInv'
  BY <1>5, CommitRefs
<1>6. ASSUME NEW o \in Outputs, OutputEnable(o) \/ OutputDisable(o) \/ CommitNothing(o)
      PROVE  RefsInv'
  BY <1>6, SameRefs, ZenonT(30) DEF OutputEnable, OutputDisable, CommitNothing, Quiet, surfaces
<1>7. ASSUME NEW s \in Surfaces, SurfaceCreate(s) PROVE RefsInv'  BY <1>7, CreateRefs
<1>8. ASSUME NEW s \in Surfaces, SurfaceDestroy(s) PROVE RefsInv'  BY <1>8, DestroySurfaceRefs, SMTT(30)
<1>9. ASSUME NEW s \in Surfaces, Detach(s) PROVE RefsInv'  BY <1>9, DetachRefs
<1>10. ASSUME NEW s \in Surfaces, NEW o \in Outputs \cup {None}, SetOutput(s, o) PROVE RefsInv'
  BY <1>10, MoveRefs
<1>11. ASSUME NEW s \in Surfaces, NEW b \in Buffers, Attach(s, b) PROVE RefsInv'
  BY <1>11, AttachRefs, SMTT(30)
<1>12. ASSUME NEW b \in Buffers, Signal(b) PROVE RefsInv'  BY <1>12, SignalRefs
<1>13. CASE UNCHANGED vars  BY <1>13, SameRefs DEF vars
<1>. QED
  BY <1>1, <1>2, <1>3, <1>4, <1>5, <1>6, <1>7, <1>8, <1>9, <1>10, <1>11, <1>12, <1>13, SMTT(30)
  DEF Next, Dispatch

\* A surface that shows b as this field is the only one, so the count is 0 or 1.
LEMMA AtMostOne == ASSUME NEW S, \A s, t \in S : s = t
                   PROVE  Cardinality(S) = One(S # {})
<1>1. CASE S = {}  BY <1>1, FS_EmptySet DEF One
<1>2. CASE S # {}
  <2>1. PICK s : S = {s}  BY <1>2
  <2>. QED  BY <1>2, <2>1, FS_Singleton, ZenonT(30) DEF One
<1>. QED  BY <1>1, <1>2

LEMMA HoldersCounted == ASSUME Shape, Alone, NEW b \in Buffers PROVE HoldersOf(b) = Holds(b)
<1>. DEFINE C == {s \in DOMAIN surf : surf[s].cur = b}
            P == {s \in DOMAIN surf : surf[s].pend = b}
<1>1. b # None  BY KmsAssumption
<1>2. \A s, t \in C : s = t  BY <1>1 DEF Alone
<1>3. \A s, t \in P : s = t  BY <1>1 DEF Alone
<1>4. ~(C # {} /\ P # {})  BY <1>1 DEF Alone
<1>5. OnSurface(b) <=> C # {} \/ P # {}  BY DEF OnSurface
<1>6. HoldersOf(b) = Cardinality(C) + Cardinality(P) + One(b \in Range(fly)) + One(b \in Range(wait))
  BY DEF HoldersOf, One
<1>. HIDE DEF C, P
<1>7. Cardinality(C) = One(C # {}) /\ Cardinality(P) = One(P # {})  BY <1>2, <1>3, AtMostOne, SMTT(30)
<1>. QED  BY <1>4, <1>5, <1>6, <1>7 DEF Holds, One

LEMMA RefsInvImplies == RefsInv => RefsExact
<1>. SUFFICES ASSUME RefsInv, ~ub
              PROVE  /\ \A s \in DOMAIN surf : {surf[s].cur, surf[s].pend} \subseteq DOMAIN buf \cup {None}
                     /\ Queued \subseteq DOMAIN buf
                     /\ \A b \in DOMAIN buf : buf[b].refs = HoldersOf(b) /\ HoldersOf(b) > 0
                     /\ be = "down" => Queued = {}
  BY DEF RefsExact
<1>1. Shape /\ Alone /\ Exact /\ (be = "down" => Queued = {})  BY DEF RefsInv
<1>2. ASSUME NEW s \in DOMAIN surf
      PROVE  {surf[s].cur, surf[s].pend} \subseteq DOMAIN buf \cup {None}
  <2>1. {surf[s].cur, surf[s].pend} \subseteq Buffers \cup {None}  BY <1>1 DEF Shape, SurfaceRec
  <2>2. \A b \in {surf[s].cur, surf[s].pend} : OnSurface(b)  BY DEF OnSurface
  <2>. QED  BY <1>1, <2>1, <2>2, OnSurfaceAlive, SMTT(30)
<1>3. Queued \subseteq DOMAIN buf
  <2>1. Range(wait) \subseteq Buffers  BY <1>1, SeqRange DEF Shape
  <2>2. Range(fly) \subseteq Buffers  BY <1>1, RangeOfOne DEF Shape
  <2>3. \A b \in Queued : Holds(b) > 0  BY DEF Queued, Holds, One
  <2>. QED  BY <1>1, <2>1, <2>2, <2>3, SMTT(30) DEF Exact, Queued
<1>4. \A b \in DOMAIN buf : buf[b].refs = HoldersOf(b) /\ HoldersOf(b) > 0
  BY <1>1, HoldersCounted, SMTT(30) DEF Exact
<1>. QED  BY <1>1, <1>2, <1>3, <1>4, SMTT(30)

LEMMA InitRefs == Init => RefsInv
<1>. SUFFICES ASSUME Init PROVE Shape /\ Alone /\ Exact /\ Queued = {}  BY DEF RefsInv
<1>1. Range(fly) = {} /\ Range(wait) = {}  BY RangeOfOne DEF Init
<1>2. DOMAIN surf = {} /\ DOMAIN buf = {} /\ list = << >> /\ wait = << >> /\ fly = << >>  BY DEF Init
<1>3. Shape
  <2>1. list \in Seq(Surfaces) /\ wait \in Seq(Buffers) /\ Distinct(list) /\ Distinct(wait)
    BY <1>2, EmptyShape DEF Distinct
  <2>2. surf \in [DOMAIN surf -> SurfaceRec] /\ buf \in [DOMAIN buf -> BufferRec]
    BY DEF Init
  <2>. QED  BY <1>2, <2>1, <2>2 DEF Shape
<1>4. \A b : Holds(b) = 0  BY <1>1, <1>2 DEF Holds, OnSurface, One
<1>. QED  BY <1>1, <1>2, <1>3, <1>4 DEF Alone, Exact, Queued

(***************************************************************************)
(* Every buffer's count is the number of its holders and it lives exactly  *)
(* as long as it has one, for any surfaces and buffers: what isz_buffer.c  *)
(* counts, the commits, flips, polls and the teardown of the backend keep. *)
(***************************************************************************)
THEOREM RefsAlwaysExact == Spec => []RefsExact
<1>1. Init => PendingInv /\ RefsInv  BY InitRefs DEF Init, PendingInv, NothingPending
<1>2. PendingInv /\ RefsInv /\ [Next]_vars => (PendingInv /\ RefsInv)'  BY NextPending, NextRefs
<1>3. RefsInv => RefsExact  BY RefsInvImplies
<1>. QED  BY <1>1, <1>2, <1>3, PTL DEF Spec

-----------------------------------------------------------------------------
(* Releases                                                                *)

\* What a pending commit takes off the screen does not wait for its fence yet,
\* unless the flip is done.
FlipInv ==
    /\ ReleasedAfterFlip
    /\ ub => sent = {}
    /\ ~ub => \A x \in flips : x.old \in Range(wait) => x.done

\* A step with no release that leaves the waiting list and the flips alone.
LEMMA SameFlips ==
    ASSUME FlipInv, sent' = {} \/ sent' = sent, wait' = wait, flips' = flips, ub' = ub
    PROVE  FlipInv'
BY DEF FlipInv, ReleasedAfterFlip

LEMMA PollFlips ==
    ASSUME RefsInv, FlipInv, Running, Poll(wait, {}), flips' \subseteq flips, ub' = ub
    PROVE  FlipInv'
<1>1. ~ub /\ wait \in Seq(Buffers) /\ Distinct(wait)  BY DEF RefsInv, Running, Shape
<1>2. Range(wait') \subseteq Range(wait) /\ sent' = {} \cup (Range(wait) \ Range(wait'))
  BY <1>1, PollSplits
<1>3. \A x \in flips' : x.old \in Range(wait) => x.done  BY <1>1 DEF FlipInv
<1>. QED  BY <1>1, <1>2, <1>3 DEF FlipInv, ReleasedAfterFlip

LEMMA NextFlips == ASSUME PendingInv, RefsInv, FlipInv, [Next]_vars PROVE FlipInv'
<1>1. CASE InitOk \/ InitFails
  BY <1>1, SameFlips, ZenonT(30) DEF InitOk, InitFails
<1>2. CASE DisableSeat \/ EnableSeat \/ EventError \/ Idle
  <2>1. CASE DisableSeat
    <3>1. Running /\ Poll(wait, {}) /\ ub' = ub  BY <2>1, ZenonT(30) DEF DisableSeat
    <3>2. flips' \subseteq flips  BY <2>1 DEF DisableSeat
    <3>. QED  BY <3>1, <3>2, PollFlips
  <2>2. CASE EnableSeat \/ EventError \/ Idle
    <3>1. Running /\ Poll(wait, {}) /\ ub' = ub /\ flips' = flips
      BY <2>2, ZenonT(30) DEF EnableSeat, EventError, Idle
    <3>. QED  BY <3>1, PollFlips
  <2>. QED  BY <1>2, <2>1, <2>2
<1>3. CASE PageFlip
  <2>1. flips' = {}  BY <1>3 DEF PageFlip, PendingInv
  <2>2. ~ub'  BY <1>3, ZenonT(30) DEF PageFlip, Running
  <2>. QED  BY <2>1, <2>2, SMTT(30) DEF FlipInv, ReleasedAfterFlip
<1>4. CASE Destroy
  <2>1. flips' = {} /\ sent' = {}  BY <1>4 DEF Destroy
  <2>. QED  BY <2>1 DEF FlipInv, ReleasedAfterFlip
<1>5. CASE Vblank
  <2>1. ~ub /\ ~ub' /\ sent' = {} /\ wait' = wait  BY <1>5, ZenonT(30) DEF Vblank
  <2>2. PICK x \in flips : flips' = (flips \ {x}) \cup {[x EXCEPT !.done = TRUE]}
    BY <1>5 DEF Vblank
  <2>3. \A y \in flips' : y.old \in Range(wait) => y.done
    <3>1. \A y \in flips : y = x  BY DEF PendingInv
    <3>2. flips' = {[x EXCEPT !.done = TRUE]}  BY <2>2, <3>1
    <3>3. [x EXCEPT !.done = TRUE].old \in Range(wait) => [x EXCEPT !.done = TRUE].done
      OBVIOUS
    <3>. QED  BY <3>2, <3>3, Zenon
  <2>. QED  BY <2>1, <2>3 DEF FlipInv, ReleasedAfterFlip
<1>6. ASSUME NEW o \in Outputs, CommitOk(o) PROVE FlipInv'
  <2>. DEFINE old == Replaced(Primary(o))
  <2>1. flips = {}  BY <1>6 DEF CommitOk, MayCommit, PendingInv, NothingPending
  <2>2. /\ flips' = flips \cup {[out |-> o, old |-> old, done |-> FALSE]}
        /\ sent' = {} /\ wait' = wait
    BY <1>6 DEF CommitOk
  <2>3. ~ub' => old \notin Range(wait)
    <3>1. CASE old = None
      <4>1. ub' = ub /\ ~ub  BY <1>6, <3>1 DEF CommitOk, Running
      <4>2. Range(wait) \subseteq Buffers  BY <4>1, SeqRange DEF RefsInv, Shape
      <4>. QED  BY <3>1, <4>2, KmsAssumption
    <3>2. CASE old # None
      <4>1. ub' = (old \in Queued)  BY <1>6, <3>2 DEF CommitOk
      <4>. QED  BY <4>1, ZenonT(30) DEF Queued
    <3>. QED  BY <3>1, <3>2
  <2>. HIDE DEF old
  <2>. QED  BY <2>1, <2>2, <2>3 DEF FlipInv, ReleasedAfterFlip
<1>7. ASSUME NEW o \in Outputs, OutputEnable(o) \/ OutputDisable(o) \/ CommitNothing(o)
      PROVE  FlipInv'
  BY <1>7, SameFlips, Zenon DEF OutputEnable, OutputDisable, CommitNothing, Quiet
<1>8. ASSUME NEW s \in Surfaces,
             \/ SurfaceCreate(s) \/ SurfaceDestroy(s) \/ Detach(s)
             \/ \E o \in Outputs \cup {None} : SetOutput(s, o)
             \/ \E b \in Buffers : Attach(s, b)
      PROVE  FlipInv'
  <2>1. Quiet  BY <1>8, Zenon DEF SurfaceCreate, SurfaceDestroy, Detach, SetOutput, Attach
  <2>. QED  BY <2>1, SameFlips, Zenon DEF Quiet
<1>9. ASSUME NEW b \in Buffers, Signal(b) PROVE FlipInv'
  BY <1>9, SameFlips, Zenon DEF Signal
<1>10. CASE UNCHANGED vars  BY <1>10, SameFlips DEF vars
<1>. QED
  BY <1>1, <1>2, <1>3, <1>4, <1>5, <1>6, <1>7, <1>8, <1>9, <1>10, SMTT(30) DEF Next, Dispatch

(***************************************************************************)
(* No RELEASE goes out for a buffer while the commit that takes it off the *)
(* screen is pending, whatever dispatches and seat switches come between   *)
(* (isz_buffer_poll_out_fences, page_flip_handler).                        *)
(***************************************************************************)
THEOREM AlwaysReleasedAfterFlip == Spec => []ReleasedAfterFlip
<1>1. Init => PendingInv /\ RefsInv /\ FlipInv
  BY InitRefs DEF Init, PendingInv, NothingPending, FlipInv, ReleasedAfterFlip
<1>2. PendingInv /\ RefsInv /\ FlipInv /\ [Next]_vars => (PendingInv /\ RefsInv /\ FlipInv)'
  BY NextPending, NextRefs, NextFlips
<1>3. FlipInv => ReleasedAfterFlip  BY DEF FlipInv
<1>. QED  BY <1>1, <1>2, <1>3, PTL DEF Spec
=============================================================================
