----------------------------- MODULE ListsProofs -----------------------------
(***************************************************************************)
(* Lemmas about the lists of Lists, for the modules that prove something   *)
(* about a component that keeps one.  A list that names no node twice      *)
(* keeps that, and loses or gains just the node in question; a walk that   *)
(* picks positions keeps the order.                                        *)
(***************************************************************************)
EXTENDS Lists, Functions, FiniteSetsExt, FiniteSetTheorems, TLAPS

(* Sequences: the facts about them that the proofs cite. *)
LEMMA SeqShape ==
    ASSUME NEW S, NEW l \in Seq(S)
    PROVE  Len(l) \in Nat /\ DOMAIN l = 1 .. Len(l) /\ l \in [1 .. Len(l) -> S]
  OBVIOUS

LEMMA SeqMember ==
    ASSUME NEW S, NEW l \in Seq(S), NEW i \in 1 .. Len(l) PROVE l[i] \in S
  OBVIOUS

LEMMA SeqRange == ASSUME NEW S, NEW l \in Seq(S) PROVE Range(l) \in SUBSET S
  BY SeqShape DEF Range

LEMMA SeqOf == \A S : Seq(S) = UNION {[1 .. n -> S] : n \in Nat}
  OBVIOUS

LEMMA SeqWider == ASSUME NEW S, NEW T, S \subseteq T PROVE Seq(S) \subseteq Seq(T)
  OBVIOUS

LEMMA EmptyShape ==
    ASSUME NEW S
    PROVE  /\ << >> \in Seq(S) /\ Len(<< >>) = 0
           /\ \A l \in Seq(S) : l # << >> => Len(l) \in Nat \ {0}
  OBVIOUS

LEMMA AppendShape ==
    ASSUME NEW S, NEW l \in Seq(S), NEW x \in S
    PROVE  /\ Append(l, x) \in Seq(S) /\ Len(Append(l, x)) = Len(l) + 1
           /\ \A i \in 1 .. Len(l) : Append(l, x)[i] = l[i]
           /\ Append(l, x)[Len(l) + 1] = x
  OBVIOUS

LEMMA ConcatShape ==
    ASSUME NEW S, NEW l \in Seq(S), NEW k \in Seq(S)
    PROVE  /\ l \o k \in Seq(S) /\ Len(l \o k) = Len(l) + Len(k)
           /\ \A i \in 1 .. Len(l) + Len(k) :
                 (l \o k)[i] = IF i <= Len(l) THEN l[i] ELSE k[i - Len(l)]
  OBVIOUS

LEMMA TailShape ==
    ASSUME NEW S, NEW l \in Seq(S), l # << >>
    PROVE  /\ Head(l) \in S /\ Head(l) = l[1]
           /\ Tail(l) \in Seq(S) /\ Len(Tail(l)) = Len(l) - 1
           /\ \A i \in 1 .. Len(Tail(l)) : Tail(l)[i] = l[i + 1]
  OBVIOUS

LEMMA SubSeqShape ==
    ASSUME NEW S, NEW l, NEW m \in Int, NEW n \in Int, \A i \in m .. n : l[i] \in S
    PROVE  /\ SubSeq(l, m, n) \in Seq(S)
           /\ Len(SubSeq(l, m, n)) = IF m <= n THEN n - m + 1 ELSE 0
           /\ \A i \in 1 .. n - m + 1 : SubSeq(l, m, n)[i] = l[m + i - 1]
  OBVIOUS

-----------------------------------------------------------------------------
\* No node is linked twice.
Distinct(l) == \A i, j \in DOMAIN l : l[i] = l[j] => i = j

\* A set of list positions has a first one.
LEMMA FirstOf == ASSUME NEW S \in SUBSET Nat, S # {}
                 PROVE  Min(S) \in S /\ \A i \in S : Min(S) <= i
<1>1. \E x \in S : \A y \in S : <<y, x>> \notin OpToRel(<, Nat)
  BY WFMin, NatLessThanWellFounded, Zenon
<1>2. \E x \in S : \A y \in S : ~(y < x)  BY <1>1, ZenonT(30) DEF OpToRel
<1>3. \E x \in S : \A y \in S : x <= y  BY <1>2
<1>. QED  BY <1>3, Zenon DEF Min

\* isz_list_remove: the others keep their order.
LEMMA UnlinkRemoves ==
    ASSUME NEW S, NEW l \in Seq(S), Distinct(l), NEW i \in DOMAIN l
    PROVE  /\ Unlink(l, i) \in Seq(S) /\ Distinct(Unlink(l, i))
           /\ Range(Unlink(l, i)) = Range(l) \ {l[i]}
<1>. DEFINE x == SubSeq(l, 1, i - 1)
            y == SubSeq(l, i + 1, Len(l))
            r == x \o y
<1>1. Len(l) \in Nat /\ DOMAIN l = 1 .. Len(l) /\ \A j \in DOMAIN l : l[j] \in S
  BY SeqShape, SeqMember
<1>2. PICK n \in Nat : n = Len(l)  BY <1>1, Zenon
<1>3. /\ i \in 1 .. n /\ DOMAIN l = 1 .. n
      /\ \A j \in 1 .. i - 1 : l[j] \in S
      /\ \A j \in i + 1 .. n : l[j] \in S
  BY <1>1, <1>2
<1>4. /\ x \in Seq(S) /\ Len(x) = i - 1
      /\ \A j \in 1 .. i - 1 : x[j] = l[j]
  <2>1. /\ x \in Seq(S) /\ Len(x) = IF 1 <= i - 1 THEN i - 1 - 1 + 1 ELSE 0
        /\ \A j \in 1 .. i - 1 - 1 + 1 : x[j] = l[1 + j - 1]
    BY <1>3, SubSeqShape
  <2>. QED  BY <1>3, <2>1
<1>5. /\ y \in Seq(S) /\ Len(y) = n - i
      /\ \A j \in 1 .. n - i : y[j] = l[i + j]
  <2>1. /\ y \in Seq(S) /\ Len(y) = IF i + 1 <= n THEN n - (i + 1) + 1 ELSE 0
        /\ \A j \in 1 .. n - (i + 1) + 1 : y[j] = l[i + 1 + j - 1]
    BY <1>2, <1>3, SubSeqShape, SMTT(30)
  <2>. QED  BY <1>3, <2>1, SMTT(30)
<1>. HIDE DEF x, y
<1>6. /\ r \in Seq(S) /\ Len(r) = i - 1 + (n - i)
      /\ \A j \in 1 .. i - 1 + (n - i) : r[j] = IF j <= i - 1 THEN x[j] ELSE y[j - (i - 1)]
  <2>1. /\ r \in Seq(S) /\ Len(r) = Len(x) + Len(y)
        /\ \A j \in 1 .. Len(x) + Len(y) : r[j] = IF j <= Len(x) THEN x[j] ELSE y[j - Len(x)]
    BY <1>4, <1>5, ConcatShape, ZenonT(30)
  <2>. HIDE DEF r
  <2>. QED  BY <1>4, <1>5, <2>1
<1>7. DOMAIN r = 1 .. n - 1  BY <1>3, <1>6, SeqShape
<1>. HIDE DEF r
<1>. DEFINE at(j) == IF j < i THEN j ELSE j + 1
<1>8. \A j \in DOMAIN r : r[j] = l[at(j)] /\ at(j) \in DOMAIN l /\ at(j) # i
  <2>1. ASSUME NEW j \in DOMAIN r, j < i PROVE r[j] = l[j] /\ j \in DOMAIN l
    BY <1>3, <1>4, <1>6, <1>7, <2>1
  <2>2. ASSUME NEW j \in DOMAIN r, ~(j < i) PROVE r[j] = l[j + 1] /\ j + 1 \in DOMAIN l /\ j + 1 # i
    <3>1. j - (i - 1) \in 1 .. n - i /\ i + (j - (i - 1)) = j + 1  BY <1>3, <1>7, <2>2
    <3>2. y[j - (i - 1)] = l[j + 1]  BY <1>5, <3>1
    <3>3. r[j] = y[j - (i - 1)]  BY <1>3, <1>6, <1>7, <2>2, SMTT(30)
    <3>. QED  BY <1>3, <1>7, <2>2, <3>2, <3>3
  <2>. QED  BY <1>3, <1>7, <2>1, <2>2
<1>9. \A j, m \in DOMAIN r : at(j) = at(m) => j = m  BY <1>3, <1>7
<1>10. ASSUME NEW m \in DOMAIN l, m # i PROVE \E j \in DOMAIN r : at(j) = m
  <2>1. CASE m < i  BY <1>3, <1>7, <2>1
  <2>2. CASE ~(m < i)
    <3>1. m - 1 \in DOMAIN r /\ at(m - 1) = m  BY <1>3, <1>7, <1>10, <2>2
    <3>. QED  BY <3>1
  <2>. QED  BY <2>1, <2>2
<1>. HIDE DEF at
<1>11. ASSUME NEW j \in DOMAIN r, NEW m \in DOMAIN r, r[j] = r[m] PROVE j = m
  <2>1. at(j) = at(m)  BY <1>8, <1>11 DEF Distinct
  <2>. QED  BY <1>9, <2>1
<1>12. ASSUME NEW j \in DOMAIN r PROVE r[j] \in Range(l) /\ r[j] # l[i]
  BY <1>8 DEF Range, Distinct
<1>13. ASSUME NEW m \in DOMAIN l, l[m] # l[i] PROVE l[m] \in Range(r)
  <2>1. PICK j \in DOMAIN r : at(j) = m  BY <1>10, <1>13
  <2>. QED  BY <1>8, <2>1 DEF Range
<1>14. Range(r) = Range(l) \ {l[i]}  BY <1>12, <1>13 DEF Range
<1>15. r = Unlink(l, i)  BY DEF r, x, y, Unlink
<1>. QED  BY <1>6, <1>11, <1>14, <1>15, SMTT(30) DEF Distinct

\* isz_list_push_back of a node that is not linked.
LEMMA AppendAdds ==
    ASSUME NEW S, NEW l \in Seq(S), Distinct(l), NEW x \in S, x \notin Range(l)
    PROVE  /\ Append(l, x) \in Seq(S) /\ Distinct(Append(l, x))
           /\ Range(Append(l, x)) = Range(l) \cup {x}
<1>. DEFINE r == Append(l, x)
<1>1. Len(l) \in Nat /\ DOMAIN l = 1 .. Len(l)  BY SeqShape
<1>2. /\ r \in Seq(S) /\ Len(r) = Len(l) + 1
      /\ \A i \in 1 .. Len(l) : r[i] = l[i]
      /\ r[Len(l) + 1] = x
  BY AppendShape
<1>3. DOMAIN r = 1 .. Len(l) + 1  BY <1>2, SeqShape
<1>. HIDE DEF r
<1>4. \A i \in DOMAIN r : (i \in DOMAIN l /\ r[i] = l[i]) \/ (i = Len(l) + 1 /\ r[i] = x)
  BY <1>1, <1>2, <1>3
<1>5. Distinct(r)  BY <1>4 DEF Distinct, Range
<1>6. DOMAIN l \subseteq DOMAIN r /\ Len(l) + 1 \in DOMAIN r  BY <1>1, <1>3
<1>7. Range(r) = Range(l) \cup {x}  BY <1>1, <1>2, <1>4, <1>6 DEF Range
<1>. QED  BY <1>2, <1>5, <1>7 DEF r

\* One list spliced behind another that shares no node with it.
LEMMA JoinKeeps ==
    ASSUME NEW S, NEW l \in Seq(S), NEW k \in Seq(S), Distinct(l), Distinct(k),
           \A x \in Range(l) : x \notin Range(k)
    PROVE  /\ l \o k \in Seq(S) /\ Distinct(l \o k)
           /\ Range(l \o k) = Range(l) \cup Range(k)
<1>. DEFINE r == l \o k
            n == Len(l)
<1>1. n \in Nat /\ Len(k) \in Nat /\ DOMAIN l = 1 .. n /\ DOMAIN k = 1 .. Len(k)
  BY SeqShape
<1>2. /\ r \in Seq(S) /\ Len(r) = n + Len(k)
      /\ \A i \in 1 .. n + Len(k) : r[i] = IF i <= n THEN l[i] ELSE k[i - n]
  BY ConcatShape, Zenon
<1>3. DOMAIN r = 1 .. n + Len(k)  BY <1>2, SeqShape
<1>. HIDE DEF r, n
<1>4. \A i \in DOMAIN r : \/ i \in DOMAIN l /\ r[i] = l[i]
                          \/ i \notin DOMAIN l /\ i - n \in DOMAIN k /\ r[i] = k[i - n]
  BY <1>1, <1>2, <1>3
<1>5. \A i \in DOMAIN l : i \in DOMAIN r /\ r[i] = l[i]  BY <1>1, <1>2, <1>3
<1>6. \A i \in DOMAIN k : i + n \in DOMAIN r /\ r[i + n] = k[i]
  <2>. TAKE i \in DOMAIN k
  <2>1. PICK j \in Int : j = i + n  BY <1>1
  <2>2. j \in 1 .. n + Len(k) /\ ~(j <= n) /\ j - n = i  BY <1>1, <2>1
  <2>3. r[j] = IF j <= n THEN l[j] ELSE k[j - n]  BY <1>2, <2>2, Zenon
  <2>4. r[j] = k[i]  BY <2>2, <2>3, Zenon
  <2>. QED  BY <1>3, <2>1, <2>2, <2>4, Zenon
<1>7. Range(r) = Range(l) \cup Range(k)
  <2>1. Range(r) \subseteq Range(l) \cup Range(k)  BY <1>4 DEF Range
  <2>2. Range(l) \subseteq Range(r)  BY <1>5 DEF Range
  <2>3. Range(k) \subseteq Range(r)  BY <1>6 DEF Range
  <2>. QED  BY <2>1, <2>2, <2>3
<1>8. ASSUME NEW i \in DOMAIN r, NEW j \in DOMAIN r, r[i] = r[j] PROVE i = j
  <2>1. i \in Int /\ j \in Int  BY <1>1, <1>3
  <2>2. CASE i \in DOMAIN l /\ j \in DOMAIN l  BY <1>5, <1>8, <2>2 DEF Distinct
  <2>3. CASE i \notin DOMAIN l /\ j \notin DOMAIN l
    <3>1. i - n = j - n  BY <1>4, <1>8, <2>3 DEF Distinct
    <3>. QED  BY <1>1, <2>1, <3>1
  <2>4. CASE i \in DOMAIN l /\ j \notin DOMAIN l  BY <1>4, <1>8, <2>4, SMTT(30) DEF Range
  <2>5. CASE i \notin DOMAIN l /\ j \in DOMAIN l  BY <1>4, <1>8, <2>5 DEF Range
  <2>. QED  BY <2>2, <2>3, <2>4, <2>5
<1>. QED  BY <1>2, <1>7, <1>8 DEF Distinct, r

\* The first element is taken off.
LEMMA TailDrops ==
    ASSUME NEW S, NEW l \in Seq(S), l # << >>, Distinct(l)
    PROVE  /\ Tail(l) \in Seq(S) /\ Distinct(Tail(l))
           /\ Range(Tail(l)) = Range(l) \ {Head(l)} /\ Head(l) \in Range(l) /\ Head(l) \in S
<1>. DEFINE r == Tail(l)
<1>1. Len(l) \in Nat /\ DOMAIN l = 1 .. Len(l) /\ Len(l) >= 1  BY SeqShape, EmptyShape
<1>2. /\ r \in Seq(S) /\ Len(r) = Len(l) - 1
      /\ \A i \in 1 .. Len(r) : r[i] = l[i + 1]
      /\ Head(l) \in S /\ Head(l) = l[1]
  BY TailShape
<1>3. DOMAIN r = 1 .. Len(l) - 1  BY <1>2, SeqShape
<1>. HIDE DEF r
<1>4. \A i \in DOMAIN r : i + 1 \in DOMAIN l /\ i + 1 # 1 /\ r[i] = l[i + 1]
  BY <1>1, <1>2, <1>3
<1>5. \A m \in DOMAIN l : m # 1 => m - 1 \in DOMAIN r /\ r[m - 1] = l[m]
  BY <1>1, <1>2, <1>3
<1>6. \A i, j \in DOMAIN r : i + 1 = j + 1 => i = j  BY <1>1, <1>3
<1>7. Distinct(r)  BY <1>4, <1>6 DEF Distinct
<1>8. 1 \in DOMAIN l  BY <1>1
<1>9. \A i \in DOMAIN r : r[i] \in Range(l) \ {l[1]}  BY <1>4, <1>8 DEF Distinct, Range
<1>10. \A m \in DOMAIN l : l[m] # l[1] => l[m] \in Range(r)  BY <1>5 DEF Range
<1>11. Range(r) = Range(l) \ {l[1]}  BY <1>9, <1>10 DEF Range
<1>. QED  BY <1>2, <1>7, <1>8, <1>11, ZenonT(30) DEF r, Range

\* A linked node has a position.
LEMMA PositionOf ==
    ASSUME NEW S, NEW l \in Seq(S), NEW x \in Range(l)
    PROVE  Position(l, x) \in DOMAIN l /\ l[Position(l, x)] = x
<1>1. DOMAIN l = 1 .. Len(l)  BY SeqShape
<1>2. \E i \in 1 .. Len(l) : l[i] = x  BY <1>1, Zenon DEF Range
<1>. QED  BY <1>1, <1>2, ZenonT(30) DEF Position

\* A list that names nothing twice is as long as what it names is large.
LEMMA CountDistinct ==
    ASSUME NEW S, NEW l \in Seq(S), Distinct(l)
    PROVE  Cardinality(Range(l)) = Len(l)
<1>. DEFINE n == Len(l)
            R == Range(l)
<1>1. n \in Nat /\ DOMAIN l = 1 .. n  BY SeqShape
<1>2. IsFiniteSet(1 .. n) /\ Cardinality(1 .. n) = n
  <2>1. 1 \in Int /\ n \in Int  BY <1>1
  <2>2. IsFiniteSet(1 .. n) /\ Cardinality(1 .. n) = IF 1 > n THEN 0 ELSE n - 1 + 1
    BY <2>1, FS_Interval, ZenonT(30)
  <2>. QED  BY <1>1, <2>2
<1>3. l = [i \in 1 .. n |-> l[i]]  BY <1>1
<1>4. \A i \in 1 .. n : l[i] \in R  BY <1>1 DEF Range
<1>5. \A i, j \in 1 .. n : l[i] = l[j] => i = j  BY <1>1 DEF Distinct
<1>6. \A x \in R : \E i \in 1 .. n : l[i] = x  BY <1>1 DEF Range
<1>. HIDE DEF n, R
<1>7. l \in [1 .. n -> R]  BY <1>3, <1>4
<1>8. l \in Injection(1 .. n, R) /\ l \in Surjection(1 .. n, R)
  BY <1>1, <1>5, <1>6, <1>7 DEF Injection, IsInjective, Surjection
<1>9. ExistsBijection(1 .. n, R)  BY <1>8, ZenonT(30) DEF Bijection, ExistsBijection
<1>. QED  BY <1>2, <1>9, FS_Bijection, ZenonT(30) DEF n, R

\* What epoll_wait reports.
LEMMA BatchOf ==
    ASSUME NEW R, NEW n \in Nat, NEW b \in Injection(1 .. n, R)
    PROVE  b \in Seq(R) /\ Distinct(b) /\ Range(b) \subseteq R
<1>1. b \in [1 .. n -> R] /\ \A i, j \in 1 .. n : b[i] = b[j] => i = j
  BY DEF Injection, IsInjective
<1>2. b \in Seq(R)  BY <1>1, SeqOf
<1>. QED  BY <1>1, <1>2 DEF Distinct, Range

\* What holds of 0 and of n + 1 with n holds of every number.
LEMMA Induction == ASSUME NEW T \in SUBSET Nat, 0 \in T, \A n \in T : n + 1 \in T PROVE T = Nat
<1>. SUFFICES ASSUME Nat \ T # {} PROVE FALSE  BY Zenon
<1>1. PICK m \in Nat \ T : \A y \in Nat \ T : m <= y  BY FirstOf, Zenon
<1>2. m - 1 \in T  BY <1>1
<1>. QED  BY <1>1, <1>2

\* A finite set of positions can be walked in order.
LEMMA WalkInOrder ==
    ASSUME NEW n \in Nat, NEW I \in SUBSET Nat, IsFiniteSet(I), Cardinality(I) = n
    PROVE  \E g \in [1 .. n -> I] : Rising(g)
<1>. DEFINE Sets(m) == {J \in SUBSET Nat : IsFiniteSet(J) /\ Cardinality(J) = m}
            Order(m, J) == \E g \in [1 .. m -> J] : Rising(g)
            T == {m \in Nat : \A J \in Sets(m) : Order(m, J)}
<1>1. 0 \in T
  <2>1. ASSUME NEW J \in Sets(0) PROVE Order(0, J)
    <3>. DEFINE e == [i \in 1 .. 0 |-> i]
    <3>1. e \in [1 .. 0 -> J] /\ Rising(e)  BY DEF Rising
    <3>. QED  BY <3>1, ZenonT(30)
  <2>. QED  BY <2>1
<1>2. ASSUME NEW m \in T PROVE m + 1 \in T
  <2>1. ASSUME NEW J \in Sets(m + 1) PROVE Order(m + 1, J)
    <3>. DEFINE a == Min(J)
                K == J \ {a}
    <3>1. m \in Nat /\ J \in SUBSET Nat /\ IsFiniteSet(J) /\ Cardinality(J) = m + 1  OBVIOUS
    <3>2. J # {}  BY <3>1, FS_EmptySet
    <3>3. a \in J /\ \A i \in J : a <= i  BY <3>1, <3>2, FirstOf
    <3>. HIDE DEF a
    <3>4. IsFiniteSet(K) /\ Cardinality(K) = m
      <4>1. /\ IsFiniteSet(J \ {a})
            /\ Cardinality(J \ {a}) = IF a \in J THEN Cardinality(J) - 1 ELSE Cardinality(J)
        BY <3>1, FS_RemoveElement, ZenonT(30)
      <4>. QED  BY <3>1, <3>3, <4>1
    <3>5. K \in Sets(m)  BY <3>1, <3>4, ZenonT(30)
    <3>6. PICK g \in [1 .. m -> K] : Rising(g)  BY <3>5, SMTT(30)
    <3>. DEFINE h == [i \in 1 .. m + 1 |-> IF i = 1 THEN a ELSE g[i - 1]]
    <3>7. \A i \in 2 .. m + 1 : i - 1 \in 1 .. m /\ g[i - 1] \in K  BY <3>1, <3>6
    <3>8. h \in [1 .. m + 1 -> J]  BY <3>1, <3>3, <3>7
    <3>9. ASSUME NEW i \in 1 .. m + 1, NEW j \in 1 .. m + 1, i < j PROVE h[i] < h[j]
      <4>1. j \in 2 .. m + 1 /\ h[j] = g[j - 1]  BY <3>1, <3>9
      <4>2. CASE i = 1
        <5>1. g[j - 1] \in J /\ g[j - 1] # a /\ h[i] = a  BY <3>7, <4>1, <4>2
        <5>. HIDE DEF h
        <5>2. g[j - 1] \in Nat /\ a \in Nat /\ a <= g[j - 1]  BY <3>1, <3>3, <5>1, ZenonT(30)
        <5>3. a < g[j - 1]  BY <5>1, <5>2
        <5>. QED  BY <4>1, <5>1, <5>3, ZenonT(30)
      <4>3. CASE i # 1
        <5>1. i \in 2 .. m + 1 /\ h[i] = g[i - 1] /\ i - 1 < j - 1  BY <3>1, <3>9, <4>3
        <5>2. i - 1 \in DOMAIN g /\ j - 1 \in DOMAIN g  BY <3>7, <4>1, <5>1
        <5>. QED  BY <3>6, <4>1, <5>1, <5>2, SMTT(30) DEF Rising
      <4>. QED  BY <4>2, <4>3
    <3>10. Rising(h)  BY <3>9 DEF Rising
    <3>. HIDE DEF h
    <3>. QED  BY <3>8, <3>10
  <2>. QED  BY <2>1
<1>3. T \in SUBSET Nat  OBVIOUS
<1>. HIDE DEF T
<1>4. T = Nat  BY <1>1, <1>2, <1>3, Induction
<1>. QED  BY <1>4 DEF T

\* What comes before l[q] in l also does in r.
InOrder(l, I, r) ==
    \A q \in I : \E k \in DOMAIN r :
       /\ r[k] = l[q]
       /\ \A i \in DOMAIN r : \E j \in I : r[i] = l[j] /\ (i < k <=> j < q)

\* A walk that takes the positions I of a list leaves just these, in order.
LEMMA PickedKeeps ==
    ASSUME NEW S, NEW l \in Seq(S), Distinct(l), NEW I \in SUBSET DOMAIN l
    PROVE  /\ Picked(l, I) \in Seq(S) /\ Distinct(Picked(l, I))
           /\ Range(Picked(l, I)) = {l[i] : i \in I}
           /\ InOrder(l, I, Picked(l, I))
<1>. DEFINE n == Cardinality(I)
            at == CHOOSE g \in [1 .. n -> I] : Rising(g)
            r == [i \in 1 .. n |-> l[at[i]]]
<1>1. Len(l) \in Nat /\ DOMAIN l = 1 .. Len(l) /\ \A i \in DOMAIN l : l[i] \in S
  BY SeqShape, SeqMember
<1>2. IsFiniteSet(I) /\ n \in Nat
  <2>1. IsFiniteSet(1 .. Len(l))
    <3>1. 1 \in Int /\ Len(l) \in Int  BY <1>1
    <3>. QED  BY <3>1, FS_Interval, ZenonT(30)
  <2>2. IsFiniteSet(I)  BY <1>1, <2>1, FS_Subset
  <2>. QED  BY <2>2, FS_CardinalityType
<1>3. I \in SUBSET Nat  BY <1>1
<1>4. \E g \in [1 .. n -> I] : Rising(g)
  <2>1. Cardinality(I) = n  OBVIOUS
  <2>. HIDE DEF n
  <2>. QED  BY <1>2, <1>3, <2>1, WalkInOrder
<1>5. Picked(l, I) = r  BY Zenon DEF Picked
<1>6. at \in [1 .. n -> I] /\ Rising(at)  BY <1>4, ZenonT(30)
<1>. HIDE DEF at
<1>7. \A i, j \in 1 .. n : i < j <=> at[i] < at[j]
  <2>1. \A i \in 1 .. n : at[i] \in Nat /\ i \in Nat  BY <1>2, <1>3, <1>6
  <2>2. \A i, j \in 1 .. n : i < j => at[i] < at[j]  BY <1>6 DEF Rising
  <2>3. ASSUME NEW i \in 1 .. n, NEW j \in 1 .. n, at[i] < at[j] PROVE i < j
    <3>1. CASE j < i
      <4>1. at[j] < at[i]  BY <2>2, <3>1
      <4>. QED  BY <2>1, <2>3, <4>1
    <3>2. CASE i = j  BY <2>1, <2>3, <3>2
    <3>. QED  BY <2>1, <3>1, <3>2
  <2>. QED  BY <2>2, <2>3
<1>8. \A i, j \in 1 .. n : at[i] = at[j] => i = j
  <2>1. \A i \in 1 .. n : at[i] \in Nat /\ i \in Nat  BY <1>2, <1>3, <1>6
  <2>. QED  BY <1>7, <2>1
<1>9. at \in Surjection(1 .. n, I)
  <2>1. at \in Injection(1 .. n, I)  BY <1>6, <1>8 DEF Injection, IsInjective
  <2>2. Cardinality(1 .. n) = n
    <3>1. 1 \in Int /\ n \in Int  BY <1>2
    <3>2. Cardinality(1 .. n) = IF 1 > n THEN 0 ELSE n - 1 + 1  BY <3>1, FS_Interval, ZenonT(30)
    <3>. QED  BY <1>2, <3>2
  <2>3. Cardinality(1 .. n) = Cardinality(I)  BY <2>2
  <2>. HIDE DEF n
  <2>. QED  BY <1>2, <2>1, <2>3, FS_Injection
<1>10. \A m \in I : \E i \in 1 .. n : at[i] = m  BY <1>9 DEF Surjection
<1>. HIDE DEF n
<1>11. \A i \in 1 .. n : at[i] \in I /\ r[i] = l[at[i]] /\ r[i] \in S  BY <1>1, <1>6
<1>12. r \in [1 .. n -> S] /\ DOMAIN r = 1 .. n  BY <1>11
<1>13. r \in Seq(S)  BY <1>2, <1>12, SeqOf
<1>. HIDE DEF r
<1>14. Distinct(r)  BY <1>8, <1>11, <1>12 DEF Distinct
<1>15. Range(r) = {l[i] : i \in I}  BY <1>10, <1>11, <1>12 DEF Range
<1>16. ASSUME NEW q \in I
       PROVE  \E k \in DOMAIN r : /\ r[k] = l[q]
                                  /\ \A i \in DOMAIN r : \E j \in I : r[i] = l[j] /\ (i < k <=> j < q)
  <2>1. PICK k \in 1 .. n : at[k] = q  BY <1>10
  <2>2. ASSUME NEW i \in 1 .. n PROVE \E j \in I : r[i] = l[j] /\ (i < k <=> j < q)
    BY <1>7, <1>11, <2>1
  <2>. QED  BY <1>11, <1>12, <2>1, <2>2
<1>17. InOrder(l, I, r)  BY <1>16 DEF InOrder
<1>. QED  BY <1>5, <1>13, <1>14, <1>15, <1>17, ZenonT(30)
=============================================================================
