---------------------------- MODULE RenderProofs ----------------------------
(***************************************************************************)
(* Proofs about Render, for any surfaces, outputs and slots.               *)
(*                                                                         *)
(* InhibitExact is not inductive: isz_surface_create_layer puts a surface  *)
(* on an output without adjusting the count, which is right only because a *)
(* surface fresh from calloc does not inhibit.  CountInv adds that.  The   *)
(* action properties and FrameSound rest on how a commit gets at the       *)
(* registry: each surface it passes holds its slot already or finds it     *)
(* free, and no two that it passes name one slot.                          *)
(***************************************************************************)
EXTENDS Render, FiniteSetTheorems, TLAPS

\* The types of what the proofs read.
CountType == /\ list \in Seq(Surfaces)
             /\ output \in [Surfaces -> Outputs \cup {None}]
             /\ inhibit \in [Surfaces -> BOOLEAN]
             /\ count \in [Outputs -> Int]
             /\ active \in [Outputs -> BOOLEAN]

\* The surfaces counted at o, live or not.
Counted(o) == {s \in Surfaces : inhibit[s] /\ output[s] = o}

\* A name that no live surface has is a cleared one.
FreshClear == \A s \in Surfaces \ Alive : inhibit[s] = FALSE

Exact == \A o \in Outputs : /\ count[o] = Cardinality(Counted(o))
                            /\ active[o] <=> count[o] > 0

CountInv == CountType /\ FreshClear /\ Exact

\* The count of o moves as the set of the surfaces counted there does.
Follows(o, d) == \/ d[o] = 0 /\ Counted(o)' = Counted(o)
                 \/ \E s \in Surfaces : /\ d[o] = 1 /\ s \notin Counted(o)
                                        /\ Counted(o)' = Counted(o) \cup {s}
                 \/ \E s \in Surfaces : /\ d[o] = -1 /\ s \in Counted(o)
                                        /\ Counted(o)' = Counted(o) \ {s}
-----------------------------------------------------------------------------
(* A count that follows its set stays exact. *)
LEMMA AdjustExact ==
    ASSUME CountType, Exact, NEW d \in [Outputs -> Int], Adjust(d),
           \A o \in Outputs : Follows(o, d)
    PROVE  Exact' /\ (count \in [Outputs -> Int])'
                  /\ (active \in [Outputs -> BOOLEAN])'
<1>1. (count \in [Outputs -> Int])' /\ (active \in [Outputs -> BOOLEAN])'
  <2>1. (count \in [Outputs -> Int])'
    BY DEF Adjust, CountType
  <2>2. \A o \in Outputs : active[o] \in BOOLEAN
    BY DEF CountType
  <2>3. \A o \in Outputs :
            (IF count[o] = 0 /\ count[o] + d[o] > 0 THEN TRUE
             ELSE IF count[o] > 0 /\ count[o] + d[o] = 0 THEN FALSE
             ELSE active[o]) \in BOOLEAN
    BY <2>2, Zenon
  <2>4. (active \in [Outputs -> BOOLEAN])'
    BY <2>3, Zenon DEF Adjust
  <2> QED
    BY <2>1, <2>4
<1>2. ASSUME NEW o \in Outputs
      PROVE  (count[o] = Cardinality(Counted(o)) /\ (active[o] <=> count[o] > 0))'
  <2>1. PICK C : C = Counted(o)
    OBVIOUS
  <2>2. PICK D : D = Counted(o)'
    OBVIOUS
  <2>3. IsFiniteSet(C)
    BY <2>1, FS_Subset, RenderAssumption DEF Counted, RenderAssumption
  <2>4. Cardinality(C) \in Nat /\ count[o] = Cardinality(C)
    BY <2>1, <2>3, FS_CardinalityType DEF Exact
  <2>5. Cardinality(D) = Cardinality(C) + d[o] /\ Cardinality(D) \in Nat
    <3>1. CASE d[o] = 0 /\ D = C
      BY <3>1, <2>4
    <3>2. ASSUME NEW s \in Surfaces, d[o] = 1, s \notin C, D = C \cup {s}
          PROVE  Cardinality(D) = Cardinality(C) + d[o]
                 /\ Cardinality(D) \in Nat
      <4>1. Cardinality(D) = Cardinality(C) + 1
        BY <3>2, <2>3, FS_AddElement, Zenon
      <4> QED
        BY <4>1, <3>2, <2>4
    <3>3. ASSUME NEW s \in Surfaces, d[o] = -1, s \in C, D = C \ {s}
          PROVE  Cardinality(D) = Cardinality(C) + d[o]
                 /\ Cardinality(D) \in Nat
      <4>1. IsFiniteSet(D) /\ Cardinality(D) = Cardinality(C) - 1
        BY <3>3, <2>3, FS_RemoveElement
      <4> QED
        BY <4>1, <3>3, <2>4, FS_CardinalityType
    <3> QED
      BY <3>1, <3>2, <3>3, <2>1, <2>2 DEF Follows
  <2>6. count'[o] = count[o] + d[o]
    BY DEF Adjust
  <2>7. active'[o] <=> count'[o] > 0
    <3>1. active[o] \in BOOLEAN /\ (active[o] <=> count[o] > 0)
      BY DEF Exact, CountType
    <3>2. active'[o] = IF count[o] = 0 /\ count[o] + d[o] > 0 THEN TRUE
                       ELSE IF count[o] > 0 /\ count[o] + d[o] = 0 THEN FALSE
                       ELSE active[o]
      BY DEF Adjust
    <3> QED
      BY <3>1, <3>2, <2>4, <2>5, <2>6
  <2> QED
    BY <2>2, <2>4, <2>5, <2>6, <2>7
<1> QED
  BY <1>1, <1>2 DEF Exact

(* A position of a sequence has its value in the range. *)
LEMMA InRange ==
    ASSUME NEW S, NEW q \in Seq(S), NEW j \in 1 .. Len(q) PROVE q[j] \in Range(q)
<1>1. DOMAIN q = 1 .. Len(q)
  OBVIOUS
<1> QED
  BY <1>1 DEF Range

(* Unlinking one node loses no other surface. *)
LEMMA UnlinkKeeps ==
    ASSUME NEW s \in Surfaces, list \in Seq(Surfaces), s \in Alive
    PROVE  /\ Unlink(s) \in Seq(Surfaces)
           /\ Alive \ {s} \subseteq Range(Unlink(s))
<1> DEFINE i == CHOOSE i \in DOMAIN list : list[i] = s
<1>1. i \in 1 .. Len(list) /\ list[i] = s /\ Len(list) \in Nat
  BY DEF Alive, Range
<1> HIDE DEF i
<1> DEFINE A == SubSeq(list, 1, i - 1)
           B == SubSeq(list, i + 1, Len(list))
<1>2. /\ A \in Seq(Surfaces) /\ Len(A) = i - 1
      /\ \A j \in 1 .. i - 1 : A[j] = list[j]
  BY <1>1
<1>3. /\ B \in Seq(Surfaces) /\ Len(B) = Len(list) - i
      /\ \A j \in 1 .. Len(list) - i : B[j] = list[i + j]
  BY <1>1
<1>4. Unlink(s) = A \o B
  BY DEF Unlink, i
<1> HIDE DEF A, B
<1>5. A \o B \in Seq(Surfaces)
  BY <1>2, <1>3
<1>6. ASSUME NEW t \in Alive \ {s} PROVE t \in Range(A \o B)
  <2>1. PICK j \in 1 .. Len(list) : list[j] = t
    BY DEF Alive, Range
  <2>2. CASE j < i
    <3>1. j \in 1 .. Len(A \o B) /\ (A \o B)[j] = t
      BY <2>1, <2>2, <1>1, <1>2, <1>3
    <3> QED
      BY <3>1, <1>5, InRange, ZenonT(30)
  <2>3. CASE j > i
    <3>1. j - 1 \in 1 .. Len(A \o B) /\ (A \o B)[j - 1] = t
      <4>1. Len(A \o B) = Len(list) - 1
        <5>0. A \in Seq(Surfaces) /\ B \in Seq(Surfaces)
          BY <1>2, <1>3
        <5>1. Len(A \o B) = Len(A) + Len(B)
          BY <5>0
        <5> QED
          BY <5>1, <1>1, <1>2, <1>3
      <4>2. (A \o B)[j - 1] = B[j - i]
        BY <2>3, <1>1, <1>2, <1>3
      <4> QED
        BY <4>1, <4>2, <2>1, <2>3, <1>1, <1>3
    <3> QED
      BY <3>1, <1>5, InRange, Zenon
  <2> QED
    BY <2>1, <2>2, <2>3, <1>1
<1> QED
  BY <1>4, <1>5, <1>6
-----------------------------------------------------------------------------
(* A step that leaves what is counted alone, and the list or a longer one. *)
LEMMA SameCount ==
    ASSUME CountInv, UNCHANGED <<output, inhibit, count, active>>,
           list' \in Seq(Surfaces), Alive \subseteq Alive'
    PROVE  CountInv'
<1>1. \A o \in Outputs : Counted(o)' = Counted(o)
  BY DEF Counted
<1>2. CountType'
  BY DEF CountInv, CountType
<1>3. FreshClear'
  BY DEF CountInv, FreshClear
<1>4. Exact'
  BY <1>1 DEF CountInv, Exact
<1> QED
  BY <1>2, <1>3, <1>4 DEF CountInv

(* Linking a surface at the tail. *)
LEMMA AppendKeeps ==
    ASSUME NEW s \in Surfaces, list \in Seq(Surfaces), list' = Append(list, s)
    PROVE  list' \in Seq(Surfaces) /\ Alive \subseteq Alive'
<1>1. list' \in Seq(Surfaces)
  OBVIOUS
<1>2. ASSUME NEW t \in Alive PROVE t \in Alive'
  <2>1. PICK j \in 1 .. Len(list) : list[j] = t
    BY DEF Alive, Range
  <2>2. j \in 1 .. Len(list') /\ list'[j] = t
    BY <2>1
  <2> QED
    BY <2>2, <1>1 DEF Alive, Range
<1> QED
  BY <1>1, <1>2

(* A layer surface arrives on its output uncounted, and does not inhibit. *)
LEMMA CreateLayerCount ==
    ASSUME CountInv, NEW s \in Surfaces, NEW o \in Outputs, CreateLayer(s, o)
    PROVE  CountInv'
<1>1. list' \in Seq(Surfaces) /\ Alive \subseteq Alive'
  BY AppendKeeps DEF CreateLayer, CountInv, CountType
<1>2. inhibit[s] = FALSE
  BY DEF CreateLayer, CountInv, FreshClear
<1>3. \A p \in Outputs : Counted(p)' = Counted(p)
  BY <1>2 DEF CreateLayer, Counted, CountInv, CountType
<1>4. CountType'
  BY <1>1 DEF CreateLayer, CountInv, CountType
<1>5. FreshClear'
  BY <1>1 DEF CreateLayer, CountInv, FreshClear
<1>6. Exact'
  BY <1>3 DEF CreateLayer, CountInv, Exact
<1> QED
  BY <1>4, <1>5, <1>6 DEF CountInv

(* The calls that adjust: one surface s changes, from output p to q in what *)
(* is counted, either of them possibly none.                                *)
LEMMA MoveCount ==
    ASSUME CountInv, NEW s \in Surfaces,
           NEW p \in Outputs \cup {None}, NEW q \in Outputs \cup {None},
           NEW d, d = Move(p, q), Adjust(d),
           p = IF inhibit[s] THEN output[s] ELSE None,
           q = IF inhibit'[s] THEN output'[s] ELSE None,
           \A t \in Surfaces \ {s} : output'[t] = output[t]
                                     /\ inhibit'[t] = inhibit[t],
           (output \in [Surfaces -> Outputs \cup {None}])',
           (inhibit \in [Surfaces -> BOOLEAN])',
           (list \in Seq(Surfaces))',
           FreshClear'
    PROVE  CountInv'
<1>0. CountType /\ Exact
  BY DEF CountInv
<1>1. d \in [Outputs -> Int]
  BY DEF Move
<1>2. ASSUME NEW o \in Outputs PROVE Follows(o, d)
  <2>1. d[o] = (IF o = q THEN 1 ELSE 0) - (IF o = p THEN 1 ELSE 0)
    BY DEF Move
  <2>2. o # None
    BY RenderAssumption DEF RenderAssumption
  <2>3. s \in Counted(o) <=> o = p
    BY <2>2, <1>0 DEF Counted, CountType
  <2>4. s \in Counted(o)' <=> o = q
    BY <2>2 DEF Counted
  <2>5. \A t \in Surfaces \ {s} : t \in Counted(o)' <=> t \in Counted(o)
    BY DEF Counted
  <2>6. Counted(o) \subseteq Surfaces /\ Counted(o)' \subseteq Surfaces
    BY DEF Counted
  <2>7. CASE o = p /\ o # q
    <3>1. d[o] = -1
      BY <2>1, <2>7
    <3>2. Counted(o)' = Counted(o) \ {s}
      BY <2>3, <2>4, <2>5, <2>6, <2>7
    <3> QED
      BY <3>1, <3>2, <2>3, <2>7 DEF Follows
  <2>8. CASE o = q /\ o # p
    <3>1. d[o] = 1
      BY <2>1, <2>8
    <3>2. Counted(o)' = Counted(o) \cup {s}
      BY <2>3, <2>4, <2>5, <2>6, <2>8
    <3> QED
      BY <3>1, <3>2, <2>3, <2>8 DEF Follows
  <2>9. CASE o = p <=> o = q
    <3>1. d[o] = 0
      BY <2>1, <2>9
    <3>2. \A t \in Surfaces : t \in Counted(o)' <=> t \in Counted(o)
      BY <2>3, <2>4, <2>5, <2>9
    <3>3. Counted(o)' = Counted(o)
      BY <3>2, <2>6, SMTT(30)
    <3> QED
      BY <3>1, <3>3 DEF Follows
  <2> QED
    BY <2>2, <2>7, <2>8, <2>9
<1>3. Exact' /\ (count \in [Outputs -> Int])'
             /\ (active \in [Outputs -> BOOLEAN])'
  BY <1>0, <1>1, <1>2, AdjustExact
<1> QED
  BY <1>3 DEF CountInv, CountType

(* A destroyed surface takes its contribution with it. *)
LEMMA DestroyCount ==
    ASSUME CountInv, NEW s \in Surfaces, Destroy(s)
    PROVE  CountInv'
<1>1. list' \in Seq(Surfaces) /\ Alive \ {s} \subseteq Alive'
  BY UnlinkKeeps DEF Destroy, CountInv, CountType, Alive
<1>2. (output \in [Surfaces -> Outputs \cup {None}])'
      /\ (inhibit \in [Surfaces -> BOOLEAN])' /\ inhibit'[s] = FALSE
      /\ \A t \in Surfaces \ {s} : output'[t] = output[t]
                                  /\ inhibit'[t] = inhibit[t]
  BY DEF Destroy, CountInv, CountType
<1>3. FreshClear'
  BY <1>1, <1>2 DEF CountInv, FreshClear
<1>4. PICK p : p = IF inhibit[s] THEN output[s] ELSE None
  OBVIOUS
<1>5. p \in Outputs \cup {None}
  BY <1>4 DEF CountInv, CountType
<1>6. Adjust(Move(p, None))
  BY <1>4 DEF Destroy
<1>7. PICK d : d = Move(p, None)
  OBVIOUS
<1> QED
  BY <1>1, <1>2, <1>3, <1>4, <1>5, <1>6, <1>7, MoveCount

(* A moved surface takes its contribution along. *)
LEMMA SetOutputCount ==
    ASSUME CountInv, NEW s \in Surfaces, NEW o \in Outputs, SetOutput(s, o)
    PROVE  CountInv'
<1>1. list' \in Seq(Surfaces) /\ Alive' = Alive
  BY DEF SetOutput, CountInv, CountType, Alive
<1>2. (output \in [Surfaces -> Outputs \cup {None}])' /\ output'[s] = o
      /\ (inhibit \in [Surfaces -> BOOLEAN])' /\ inhibit' = inhibit
      /\ \A t \in Surfaces \ {s} : output'[t] = output[t]
                                  /\ inhibit'[t] = inhibit[t]
  BY DEF SetOutput, CountInv, CountType
<1>3. FreshClear'
  BY <1>1, <1>2 DEF CountInv, FreshClear
<1>4. PICK p : p = IF inhibit[s] THEN output[s] ELSE None
  OBVIOUS
<1>5. PICK q : q = IF inhibit[s] THEN o ELSE None
  OBVIOUS
<1>6. p \in Outputs \cup {None} /\ q \in Outputs \cup {None}
  BY <1>4, <1>5 DEF CountInv, CountType
<1>7. Move(o, o) = Move(None, None)
  BY RenderAssumption DEF Move, RenderAssumption
<1>8. Adjust(Move(p, q))
  BY <1>4, <1>5, <1>7 DEF SetOutput
<1>9. PICK d : d = Move(p, q)
  OBVIOUS
<1>10. q = IF inhibit'[s] THEN output'[s] ELSE None
  BY <1>2, <1>5
<1> QED
  BY <1>1, <1>2, <1>3, <1>4, <1>6, <1>8, <1>9, <1>10, MoveCount

(* A surface that leaves its output takes its contribution back. *)
LEMMA ClearOutputCount ==
    ASSUME CountInv, NEW s \in Surfaces, ClearOutput(s)
    PROVE  CountInv'
<1>1. list' \in Seq(Surfaces) /\ Alive' = Alive
  BY DEF ClearOutput, CountInv, CountType, Alive
<1>2. (output \in [Surfaces -> Outputs \cup {None}])' /\ output'[s] = None
      /\ (inhibit \in [Surfaces -> BOOLEAN])' /\ inhibit' = inhibit
      /\ \A t \in Surfaces \ {s} : output'[t] = output[t]
                                  /\ inhibit'[t] = inhibit[t]
  BY DEF ClearOutput, CountInv, CountType
<1>3. FreshClear'
  BY <1>1, <1>2 DEF CountInv, FreshClear
<1>4. PICK p : p = IF inhibit[s] THEN output[s] ELSE None
  OBVIOUS
<1>5. p \in Outputs \cup {None}
  BY <1>4 DEF CountInv, CountType
<1>6. Adjust(Move(p, None))
  BY <1>4 DEF ClearOutput
<1>7. PICK d : d = Move(p, None)
  OBVIOUS
<1>8. None = IF inhibit'[s] THEN output'[s] ELSE None
  BY <1>2
<1> QED
  BY <1>1, <1>2, <1>3, <1>4, <1>5, <1>6, <1>7, <1>8, MoveCount

(* Setting the flag counts the surface once, clearing it discounts it once. *)
LEMMA SetIdleInhibitCount ==
    ASSUME CountInv, NEW s \in Surfaces, NEW b \in Inhibits,
           SetIdleInhibit(s, b)
    PROVE  CountInv'
<1>0. b \in BOOLEAN /\ inhibit[s] \in BOOLEAN /\ inhibit[s] # b
  BY RenderAssumption DEF RenderAssumption, SetIdleInhibit, CountInv, CountType
<1>1. list' \in Seq(Surfaces) /\ Alive' = Alive /\ s \in Alive
  BY DEF SetIdleInhibit, CountInv, CountType, Alive
<1>2. (output \in [Surfaces -> Outputs \cup {None}])' /\ output' = output
      /\ (inhibit \in [Surfaces -> BOOLEAN])' /\ inhibit'[s] = b
      /\ \A t \in Surfaces \ {s} : output'[t] = output[t]
                                  /\ inhibit'[t] = inhibit[t]
  BY <1>0 DEF SetIdleInhibit, CountInv, CountType
<1>3. FreshClear'
  BY <1>1, <1>2, SMTT(30) DEF CountInv, FreshClear
<1>4. PICK p : p = IF inhibit[s] THEN output[s] ELSE None
  OBVIOUS
<1>5. PICK q : q = IF inhibit'[s] THEN output'[s] ELSE None
  OBVIOUS
<1>6. p \in Outputs \cup {None} /\ q \in Outputs \cup {None}
  BY <1>2, <1>4, <1>5 DEF CountInv, CountType
<1>7. Adjust(Move(p, q))
  BY <1>0, <1>2, <1>4, <1>5 DEF SetIdleInhibit
<1>8. PICK d : d = Move(p, q)
  OBVIOUS
<1> QED
  BY <1>1, <1>2, <1>3, <1>4, <1>5, <1>6, <1>7, <1>8, MoveCount, SMTT(30)

(* Every step keeps the invariant. *)
LEMMA NextCount ==
    ASSUME CountInv, [Next]_vars
    PROVE  CountInv'
<1> USE DEF CountInv, CountType, Alive
<1>1. ASSUME NEW s \in Surfaces, Create(s) PROVE CountInv'
  BY <1>1, SameCount, AppendKeeps DEF Create
<1>2. ASSUME NEW s \in Surfaces, NEW f \in Formats, Attach(s, f) PROVE CountInv'
  BY <1>2, SameCount DEF Attach
<1>3. ASSUME NEW s \in Surfaces, Detach(s) PROVE CountInv'
  BY <1>3, SameCount DEF Detach
<1>4. ASSUME NEW s \in Surfaces, NEW t \in Types, SetPlaneType(s, t)
      PROVE  CountInv'
  BY <1>4, SameCount, SMTT(30) DEF SetPlaneType
<1>5. ASSUME NEW s \in Surfaces, NEW n \in Slots, SetPlaneSlot(s, n)
      PROVE  CountInv'
  BY <1>5, SameCount DEF SetPlaneSlot
<1>6. ASSUME NEW s \in Surfaces, NEW b \in Rotations, SetTransform(s, b)
      PROVE  CountInv'
  BY <1>6, SameCount DEF SetTransform
<1>7. ASSUME NEW o \in Outputs, Commit(o) PROVE CountInv'
  <2>1. UNCHANGED <<surfVars, count, active>>
    BY <1>7 DEF Commit, CommitDisconnected, CommitRefused, CommitBackendFailed,
                CommitOk
  <2> QED
    BY <2>1, SameCount, SMTT(30) DEF surfVars
<1>8. ASSUME NEW o \in Outputs, Unplug(o) PROVE CountInv'
  BY <1>8, SameCount DEF Unplug, surfVars
<1>9. CASE UNCHANGED vars
  BY <1>9, SameCount DEF vars, surfVars
<1> QED
  BY <1>1, <1>2, <1>3, <1>4, <1>5, <1>6, <1>7, <1>8, <1>9, CreateLayerCount,
     DestroyCount, SetOutputCount, ClearOutputCount, SetIdleInhibitCount, SMTT(30)
     DEF Next

(* No surface, and counts of zero. *)
LEMMA InitCount == Init => CountInv
<1> SUFFICES ASSUME Init PROVE CountInv
  OBVIOUS
<1>1. CountType
  BY DEF Init, CountType
<1>2. FreshClear
  BY DEF Init, FreshClear
<1>3. ASSUME NEW o \in Outputs
      PROVE  count[o] = Cardinality(Counted(o)) /\ (active[o] <=> count[o] > 0)
  <2>1. Counted(o) = {}
    BY DEF Init, Counted
  <2> QED
    BY <2>1, FS_EmptySet DEF Init
<1> QED
  BY <1>1, <1>2, <1>3 DEF CountInv, Exact

(***************************************************************************)
(* The idle-inhibit count is exact in every reachable state: whatever the  *)
(* order of creations, moves, destructions and set_idle_inhibit calls, the *)
(* count isz_surface_inhibit_adjust keeps is the number of live surfaces   *)
(* that inhibit, and its last event tells whether there is one.            *)
(***************************************************************************)
THEOREM InhibitAlwaysExact == Spec => []InhibitExact
<1>1. CountInv => InhibitExact
  <2> SUFFICES ASSUME CountInv, NEW o \in Outputs
               PROVE  /\ count[o] = Cardinality({s \in Alive :
                                         inhibit[s] /\ output[s] = o})
                      /\ active[o] <=> count[o] > 0
    BY DEF InhibitExact
  <2>1. Alive \subseteq Surfaces
    BY DEF CountInv, CountType, Alive, Range
  <2>2. {s \in Alive : inhibit[s] /\ output[s] = o} = Counted(o)
    BY <2>1 DEF CountInv, FreshClear, Counted
  <2> QED
    BY <2>2 DEF CountInv, Exact
<1> QED
  BY <1>1, InitCount, NextCount, PTL DEF Spec
-----------------------------------------------------------------------------
\* The surfaces of o before place i of the list.
Before(o, i) == {list[j] : j \in {k \in Collected(o) : k < i}}

\* The loop body succeeds for the surface at place i.
Good(o, i) == Valid(list[i]) /\ Assignable(list[i], Before(o, i))

(* What isz_plane_slot_assign asks of a slot. *)
LEMMA AssignableFree ==
    ASSUME NEW s, NEW D, Assignable(s, D), ~Holds(s)
    PROVE  resv[Key(s)] = None /\ \A t \in D : slot[t] # slot[s]
  BY DEF Assignable

(* The place of a surface the commit loop gets through: no failure up to it. *)
LEMMA PassedAt ==
    ASSUME NEW o \in Outputs, NEW s \in Passed(o)
    PROVE  \E n \in Collected(o) :
               list[n] = s /\ \A m \in Collected(o) : m <= n => Good(o, m)
  BY ZenonT(30) DEF Passed, Good, Before

(* A surface the commit loop gets through has its slot or finds it free. *)
LEMMA PassedHolds ==
    ASSUME NEW o \in Outputs, NEW s \in Passed(o)
    PROVE  Valid(s) /\ (Holds(s) \/ resv[Key(s)] = None)
<1>1. PICK n \in Collected(o) :
          list[n] = s /\ \A m \in Collected(o) : m <= n => Good(o, m)
  BY PassedAt
<1>2. n <= n
  BY DEF Collected
<1>3. Good(o, n)
  BY <1>1, <1>2
<1> QED
  BY <1>1, <1>3, AssignableFree DEF Good

(* Assigning the slots of those surfaces takes none from another holder. *)
LEMMA ReserveKeeps ==
    ASSUME NEW o \in Outputs, NEW k \in Keys, resv[k] # None
    PROVE  Reserve(Passed(o))[k] = resv[k]
<1> DEFINE P == Passed(o)
<1>1. Reserve(P)[k] = IF \E s \in P : Key(s) = k
                      THEN CHOOSE s \in P : Key(s) = k ELSE resv[k]
  BY DEF Reserve
<1>2. CASE \E s \in P : Key(s) = k
  <2>1. PICK c : c = CHOOSE s \in P : Key(s) = k
    OBVIOUS
  <2>2. c \in P /\ Key(c) = k
    BY <1>2, <2>1
  <2>3. Holds(c)
    BY <2>2, PassedHolds
  <2> QED
    BY <1>1, <1>2, <2>1, <2>2, <2>3 DEF Holds
<1> QED
  BY <1>1, <1>2

(* The rollback puts every entry back. *)
LEMMA RollbackRestores ==
    ASSUME NEW o \in Outputs, NEW k \in Keys
    PROVE  Rollback(Passed(o))[k] = resv[k]
<1> DEFINE P == Passed(o)
<1>1. CASE \E s \in P : Key(s) = k /\ ~Holds(s)
  BY <1>1, PassedHolds DEF Rollback
<1>2. CASE (~\E s \in P : Key(s) = k /\ ~Holds(s)) /\ \E s \in P : Key(s) = k
  <2>1. PICK c : c = CHOOSE s \in P : Key(s) = k
    OBVIOUS
  <2>2. c \in P /\ Key(c) = k
    BY <1>2, <2>1
  <2>3. resv[k] = c
    BY <1>2, <2>2 DEF Holds
  <2> QED
    BY <1>2, <2>1, <2>3 DEF Rollback, Reserve
<1>3. CASE ~\E s \in P : Key(s) = k
  BY <1>3, SMTT(30) DEF Rollback, Reserve
<1> QED
  BY <1>1, <1>2, <1>3

\* The registry has one entry per output and slot.
ResvType == resv = [k \in Keys |-> resv[k]]

(* Every step keeps the shape of the registry. *)
LEMMA NextResvType == ResvType /\ [Next]_vars => ResvType'
<1> SUFFICES ASSUME ResvType, [Next]_vars PROVE ResvType'
  OBVIOUS
<1>1. CASE UNCHANGED resv
  BY <1>1 DEF ResvType
<1>2. ASSUME NEW s \in Surfaces, Destroy(s) \/ ClearOutput(s) PROVE ResvType'
  BY <1>2 DEF Destroy, ClearOutput, Release, ResvType
<1>3. ASSUME NEW o \in Outputs, Commit(o) PROVE ResvType'
  BY <1>1, <1>3 DEF Commit, CommitDisconnected, CommitRefused,
                    CommitBackendFailed, CommitOk, Reserve, Rollback, ResvType
<1> QED
  BY <1>1, <1>2, <1>3
     DEF Next, vars, Create, CreateLayer, Attach, Detach, SetOutput,
         SetPlaneType, SetPlaneSlot, SetTransform, SetIdleInhibit, Unplug

(***************************************************************************)
(* The rollback of isz_commit after the backend's refusal is exact: the    *)
(* registry is what it was before the call.                                *)
(***************************************************************************)
THEOREM FailureAlwaysRestores == Spec => BackendFailureRestores
<1>1. Init => ResvType
  BY DEF Init, ResvType
<1>2. ASSUME ResvType, ResvType', [Next]_vars
      PROVE  [last'.rc = "BACKEND_FAILED" => resv' = resv]_vars
  <2> SUFFICES ASSUME Next, last'.rc = "BACKEND_FAILED" PROVE resv' = resv
    BY <1>2, SMTT(30)
  <2>1. last' # NoCommit
    BY RenderAssumption, SMTT(30) DEF NoCommit
  <2>2. PICK o \in Outputs : Commit(o)
    BY <2>1 DEF Next, Create, CreateLayer, Destroy, Attach, Detach, SetOutput,
                ClearOutput, SetPlaneType, SetPlaneSlot, SetTransform,
                SetIdleInhibit, Unplug
  <2>3. CommitBackendFailed(o)
    BY <2>2 DEF Commit, CommitDisconnected, CommitRefused, CommitOk
  <2>4. \A k \in Keys : resv'[k] = resv[k]
    BY <2>3, RollbackRestores DEF CommitBackendFailed
  <2> QED
    BY <1>2, <2>4 DEF ResvType
<1> QED
  BY <1>1, <1>2, NextResvType, PTL DEF Spec, BackendFailureRestores

(***************************************************************************)
(* No call takes a slot from a live surface that keeps its output: not the *)
(* destruction of another (resv_clear compares the holder), not a commit.  *)
(***************************************************************************)
THEOREM ReservationAlwaysKept == Spec => ReservationKept
<1> DEFINE Kept == \A k \in Keys : resv[k] \in Alive /\ resv'[k] # resv[k] =>
                       /\ resv'[k] = None
                       /\ (resv[k] \notin Range(list')) \/ output'[resv[k]] = None
<1>1. ASSUME CountInv, [Next]_vars PROVE [Kept]_vars
  <2> SUFFICES ASSUME Next, NEW k \in Keys, resv[k] \in Alive,
                      resv'[k] # resv[k]
               PROVE  resv'[k] = None /\ output'[resv[k]] = None
    BY <1>1
  <2>1. Alive \subseteq Surfaces /\ resv[k] # None
    BY <1>1, RenderAssumption, SMTT(30)
       DEF CountInv, CountType, Alive, Range, RenderAssumption
  <2>2. ASSUME NEW s \in Surfaces, Destroy(s) \/ ClearOutput(s)
        PROVE  resv'[k] = None /\ output'[resv[k]] = None
    <3>1. resv'[k] = None /\ resv[k] = s
      BY <2>2, SMTT(30) DEF Destroy, ClearOutput, Release
    <3> QED
      BY <1>1, <2>2, <3>1, SMTT(30) DEF Destroy, ClearOutput, CountInv, CountType
  <2>3. ASSUME NEW o \in Outputs, Commit(o) PROVE FALSE
    BY <2>1, <2>3, ReserveKeeps, RollbackRestores
       DEF Commit, CommitDisconnected, CommitRefused, CommitBackendFailed,
           CommitOk
  <2> QED
    BY <2>2, <2>3, ZenonT(30)
       DEF Next, Create, CreateLayer, Attach, Detach, SetOutput,
           SetPlaneType, SetPlaneSlot, SetTransform, SetIdleInhibit, Unplug
<1> QED
  BY <1>1, InitCount, NextCount, PTL DEF Spec, ReservationKept
-----------------------------------------------------------------------------
(* No two surfaces the commit loop gets through have one slot: the later   *)
(* one would hold it already, and then the earlier one is refused, or find *)
(* it free, and the earlier one has taken it.                              *)
LEMMA PassedApart ==
    ASSUME NEW o \in Outputs, None \notin Passed(o),
           NEW s \in Passed(o), NEW t \in Passed(o), Key(s) = Key(t)
    PROVE  s = t
<1> SUFFICES ASSUME s # t PROVE FALSE
  OBVIOUS
<1>1. PICK i \in Collected(o) :
          list[i] = s /\ \A m \in Collected(o) : m <= i => Good(o, m)
  BY PassedAt
<1>2. PICK j \in Collected(o) :
          list[j] = t /\ \A m \in Collected(o) : m <= j => Good(o, m)
  BY PassedAt, SMTT(30)
<1>3. i \in Nat /\ j \in Nat /\ i # j
  BY <1>1, <1>2 DEF Collected
<1>4. Good(o, i) /\ Good(o, j)
  BY <1>1, <1>2, <1>3, SMTT(30)
<1>5. ~(Holds(s) /\ Holds(t)) /\ slot[s] = slot[t]
  BY DEF Holds, Key
<1>6. ~(Holds(s) /\ resv[Key(t)] = None) /\ ~(Holds(t) /\ resv[Key(s)] = None)
  BY SMTT(30) DEF Holds
<1>7. CASE j < i
  <2>1. t \in Before(o, i)
    BY <1>2, <1>7, SMTT(30) DEF Before
  <2>2. Holds(s)
    BY <1>1, <1>4, <1>5, <2>1, AssignableFree, SMTT(30) DEF Good
  <2> QED
    BY <2>2, <1>5, <1>6, PassedHolds, SMTT(30)
<1>8. CASE i < j
  <2>1. s \in Before(o, j)
    BY <1>1, <1>8, SMTT(30) DEF Before
  <2>2. Holds(t)
    BY <1>2, <1>4, <1>5, <2>1, AssignableFree DEF Good
  <2> QED
    BY <2>2, <1>5, <1>6, PassedHolds, SMTT(30)
<1> QED
  BY <1>3, <1>7, <1>8

\* What a commit reads of a surface.
SlotInv == slot \in [Surfaces -> Slots \cup {None}]

(* A commit that succeeds leaves a sound frame. *)
LEMMA CommitOkSound ==
    ASSUME CountInv, SlotInv, NEW o \in Outputs, NEW rc \in {"ISZ_OK", "TEST_OK"},
           CommitOk(o, rc)
    PROVE  FrameSound'
<1>1. /\ UNCHANGED <<list, output, ptype, slot, rotated>> /\ AllPass(o)
      /\ resv' = Reserve(Passed(o)) /\ last' = [out |-> o, rc |-> rc]
  BY DEF CommitOk, surfVars
<1>2. Alive \subseteq Surfaces /\ Alive' = Alive
  <2>1. Alive \subseteq Surfaces
    BY DEF CountInv, CountType, Alive, Range
  <2>2. Alive' = Alive
    BY <1>1, ZenonT(30) DEF Alive
  <2> QED
    BY <2>1, <2>2
<1>3. ASSUME NEW s \in Alive, output[s] = o PROVE s \in Passed(o)
  <2>1. PICK i \in 1 .. Len(list) : list[i] = s
    BY DEF Alive, Range, CountInv, CountType
  <2>2. i \in Collected(o)
    BY <1>3, <2>1 DEF Collected
  <2> QED
    BY <1>1, <2>1, <2>2 DEF AllPass
<1>4. Passed(o) \subseteq Alive /\ None \notin Passed(o)
  <2>1. ASSUME NEW s \in Passed(o) PROVE s \in Alive
    <3>1. PICK i \in Collected(o) : list[i] = s
      BY PassedAt
    <3> QED
      BY <3>1, InRange DEF Collected, Alive, CountInv, CountType
  <2> QED
    BY <2>1, <1>2, RenderAssumption DEF RenderAssumption
<1>5. ASSUME NEW s \in Alive, output[s] = o
      PROVE  /\ Valid(s)
             /\ resv'[Key(s)] = s
             /\ \A t \in Alive \ {s} : output[t] = o => slot[t] # slot[s]
  <2>1. s \in Passed(o) /\ Valid(s)
    BY <1>3, <1>5, PassedHolds, SMTT(30)
  <2>2. Key(s) \in Keys
    BY <1>2, <1>5, <2>1 DEF Key, Keys, Valid, SlotInv
  <2>3. PICK c : c = CHOOSE t \in Passed(o) : Key(t) = Key(s)
    OBVIOUS
  <2>4. c \in Passed(o) /\ Key(c) = Key(s)
    BY <2>1, <2>3
  <2>5. c = s
    BY <2>1, <2>4, <1>4, PassedApart, SMTT(30)
  <2>6. resv'[Key(s)] = c
    BY <1>1, <2>1, <2>2, <2>3 DEF Reserve
  <2>7. ASSUME NEW t \in Alive \ {s}, output[t] = o PROVE slot[t] # slot[s]
    <3>1. t \in Passed(o)
      BY <1>3, <2>7
    <3>2. Key(t) # Key(s)
      BY <2>1, <2>7, <3>1, <1>4, PassedApart
    <3> QED
      BY <3>2, <2>7, <1>5 DEF Key
  <2> QED
    BY <2>1, <2>5, <2>6, <2>7
<1>6. last'.out = o
  BY <1>1
<1>7. \A s : Valid(s)' <=> Valid(s)
  BY <1>1 DEF Valid
<1>8. \A s : Key(s)' = Key(s)
  BY <1>1, SMTT(30) DEF Key
<1> QED
  BY <1>1, <1>2, <1>5, <1>6, <1>7, <1>8, ZenonT(30) DEF FrameSound, Holds

(* Every step keeps the slots' type. *)
LEMMA NextSlot == SlotInv /\ [Next]_vars => SlotInv'
<1> SUFFICES ASSUME SlotInv, [Next]_vars PROVE SlotInv'
  OBVIOUS
<1>1. CASE UNCHANGED slot
  BY <1>1, SMTT(30) DEF SlotInv
<1>2. ASSUME NEW s \in Surfaces, Destroy(s) PROVE SlotInv'
  BY <1>2 DEF Destroy, SlotInv
<1>3. ASSUME NEW s \in Surfaces, NEW n \in Slots, SetPlaneSlot(s, n)
      PROVE  SlotInv'
  BY <1>3, SMTT(30) DEF SetPlaneSlot, SlotInv
<1>4. ASSUME NEW o \in Outputs, Commit(o) PROVE UNCHANGED slot
  BY <1>4, SMTT(30) DEF Commit, CommitDisconnected, CommitRefused, CommitBackendFailed,
              CommitOk, surfVars
<1> QED
  BY <1>1, <1>2, <1>3, <1>4, SMTT(30)
     DEF Next, vars, surfVars, Create, CreateLayer, Attach, Detach, SetOutput,
         ClearOutput, SetPlaneType, SetTransform, SetIdleInhibit, Unplug

(* Only a commit that succeeds reports success. *)
LEMMA NextFrame ==
    ASSUME CountInv, SlotInv, FrameSound, [Next]_vars
    PROVE  FrameSound'
<1>1. CASE UNCHANGED vars
  BY <1>1, ZenonT(30) DEF vars, surfVars, FrameSound, Valid, Holds, Key, Alive
<1>2. CASE last' = NoCommit
  BY <1>2, RenderAssumption DEF NoCommit, FrameSound, RenderAssumption
<1>3. ASSUME NEW o \in Outputs, Commit(o) PROVE FrameSound'
  <2>1. ASSUME NEW rc \in {"ISZ_OK", "TEST_OK"}, CommitOk(o, rc)
        PROVE  FrameSound'
    BY <2>1, CommitOkSound
  <2>2. CASE CommitDisconnected(o) \/ CommitRefused(o) \/ CommitBackendFailed(o)
    <3>1. last'.rc \notin {"ISZ_OK", "TEST_OK"}
      BY <2>2 DEF CommitDisconnected, CommitRefused, CommitBackendFailed
    <3> QED
      BY <3>1 DEF FrameSound
  <2> QED
    BY <1>3, <2>1, <2>2 DEF Commit
<1> QED
  BY <1>1, <1>2, <1>3, ZenonT(30)
     DEF Next, Create, CreateLayer, Destroy, Attach, Detach, SetOutput,
         ClearOutput, SetPlaneType, SetPlaneSlot, SetTransform, SetIdleInhibit,
         Unplug

(***************************************************************************)
(* Every frame isz_commit accepts, whatever calls and refused commits came *)
(* before: each surface of the output holds the plane slot it names, alone *)
(* there, and fits its type and transform.                                 *)
(***************************************************************************)
THEOREM FramesAlwaysSound == Spec => []FrameSound
<1>1. Init => SlotInv /\ FrameSound
  BY RenderAssumption DEF Init, SlotInv, FrameSound, NoCommit, RenderAssumption
<1> QED
  BY <1>1, InitCount, NextCount, NextSlot, NextFrame, PTL DEF Spec
=============================================================================
