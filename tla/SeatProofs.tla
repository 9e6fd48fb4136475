------------------------------ MODULE SeatProofs -----------------------------
(***************************************************************************)
(* Theorems about Seat, for any table sizes and any timeout.  The record   *)
(* of approvals and the descriptors are independent of one another and     *)
(* have an invariant each; that an approval is kept needs a third, which   *)
(* says what the table holds while an approval is out of it.               *)
(***************************************************************************)
EXTENDS Seat, FiniteSetTheorems, TLAPS

Grant == [key : Keys, exp : Nat]
Capture == [out : Outputs, fd : Fds, conn : Conns \cup {None}]

ConsentType ==
    /\ now \in Nat /\ cap \in Seq(Capture)
    /\ consent \in [1 .. ConsentSlots -> Grant \cup {None}]
    /\ DOMAIN approved \subseteq Keys
    /\ \A k \in DOMAIN approved : approved[k] \in Nat /\ approved[k] <= now

\* No entry of the table outlives the last approval of its key, even where a
\* key has had several.
ConsentInv ==
    /\ ConsentType
    /\ \A i \in 1 .. ConsentSlots : consent[i] # None =>
          /\ consent[i].key \in DOMAIN approved
          /\ consent[i].exp <= approved[consent[i].key] + Timeout

(* The bounds of the tables are numbers. *)
LEMMA Bounds == Timeout \in Nat /\ ConsentSlots \in Nat /\ CaptureMax \in Nat
  BY SeatAssumption

\* What CaptureStop leaves of the captures was there before, each at most once.
LEMMA CompactKeeps ==
  ASSUME cap \in Seq(Capture), NEW i \in DOMAIN cap
  PROVE  /\ Compact(i) \in Seq(Capture) /\ DOMAIN Compact(i) = 1 .. Len(cap) - 1
         /\ \A j \in 1 .. Len(cap) - 1 :
               Compact(i)[j] = IF j = i THEN cap[Len(cap)] ELSE cap[j]
<1>. DEFINE e == [cap EXCEPT ![i] = cap[Len(cap)]]
<1>1. Len(cap) \in Nat /\ DOMAIN cap = 1 .. Len(cap) /\ Len(cap) >= 1 /\ cap[Len(cap)] \in Capture
  OBVIOUS
<1>2. e \in Seq(Capture) /\ Len(e) = Len(cap)  BY <1>1
<1>3. \A j \in 1 .. Len(cap) : e[j] = IF j = i THEN cap[Len(cap)] ELSE cap[j]  BY <1>1
<1>. HIDE DEF e
<1>4. Compact(i) = SubSeq(e, 1, Len(cap) - 1)  BY DEF e, Compact
<1>5. Compact(i) \in Seq(Capture) /\ Len(Compact(i)) = Len(cap) - 1  BY <1>1, <1>2, <1>4
<1>6. \A j \in 1 .. Len(cap) - 1 : Compact(i)[j] = e[j]  BY <1>1, <1>2, <1>4
<1>. QED  BY <1>1, <1>3, <1>5, <1>6

(* No grant and no capture at the start. *)
LEMMA InitConsent == Init => ConsentInv
  BY Bounds DEF Init, ConsentInv, ConsentType

(* Every step keeps the record of grants and captures. *)
LEMMA NextConsent == ASSUME ConsentInv, [Next]_vars PROVE ConsentInv'
<1>. USE Bounds
<1>1. CASE Tick
  BY <1>1 DEF Tick, ConsentInv, ConsentType
<1>2. ASSUME NEW k \in Keys, ConsentGrant(k) PROVE ConsentInv'
  <2>. DEFINE g == [key |-> k, exp |-> now + Timeout]
  <2>1. g \in Grant  BY DEF Grant, ConsentInv, ConsentType
  <2>2. \A i \in 1 .. ConsentSlots : consent'[i] = consent[i] \/ consent'[i] = g
    BY <1>2 DEF ConsentGrant, ConsentInv, ConsentType
  <2>3. /\ DOMAIN approved' = DOMAIN approved \cup {k}
        /\ \A x \in DOMAIN approved' : approved'[x] = IF x = k THEN now ELSE approved[x]
    BY <1>2 DEF ConsentGrant
  <2>4. now' = now /\ cap' = cap  BY <1>2 DEF ConsentGrant
  <2>5. consent' \in [1 .. ConsentSlots -> Grant \cup {None}]
    BY <1>2, <2>1, ZenonT(30) DEF ConsentGrant, ConsentInv, ConsentType
  <2>6. ConsentType'
    BY <2>3, <2>4, <2>5 DEF ConsentInv, ConsentType
  <2>7. ASSUME NEW i \in 1 .. ConsentSlots, consent'[i] # None
        PROVE  /\ consent'[i].key \in DOMAIN approved'
               /\ consent'[i].exp <= approved'[consent'[i].key] + Timeout
    <3>1. CASE consent'[i] = g
      BY <3>1, <2>3 DEF ConsentInv, ConsentType
    <3>2. CASE consent'[i] = consent[i]
      <4>1. consent[i] \in Grant  BY <3>2, <2>7 DEF ConsentInv, ConsentType
      <4>2. /\ consent[i].key \in DOMAIN approved /\ consent[i].exp \in Nat
            /\ consent[i].exp <= approved[consent[i].key] + Timeout
        BY <3>2, <2>7, <4>1 DEF ConsentInv, Grant
      <4>3. approved'[consent[i].key] >= approved[consent[i].key]
        BY <2>3, <4>2 DEF ConsentInv, ConsentType
      <4>4. approved'[consent[i].key] \in Nat /\ approved[consent[i].key] \in Nat
        BY <2>3, <4>2 DEF ConsentInv, ConsentType
      <4>. QED  BY <3>2, <4>2, <4>3, <4>4, <2>3
    <3>. QED  BY <3>1, <3>2, <2>2
  <2>. QED  BY <2>6, <2>7 DEF ConsentInv
<1>3. ASSUME NEW o \in Outputs, NEW c \in Conns \cup {None}, CaptureStart(o, c)
      PROVE  ConsentInv'
  <2>1. /\ DOMAIN consent' = 1 .. ConsentSlots
        /\ \A i \in 1 .. ConsentSlots : consent'[i] = consent[i] \/ consent'[i] = None
        /\ consent' \in [1 .. ConsentSlots -> Grant \cup {None}]
    BY <1>3 DEF CaptureStart, Reclaimed, ConsentInv, ConsentType
  <2>2. cap' \in Seq(Capture)
    <3>1. cap \in Seq(Capture)  BY DEF ConsentInv, ConsentType
    <3>2. CASE cap' = cap  BY <3>1, <3>2
    <3>3. ASSUME NEW f \in Fds, cap' = Append(cap, [out |-> o, fd |-> f, conn |-> c])
          PROVE  cap' \in Seq(Capture)
      <4>1. [out |-> o, fd |-> f, conn |-> c] \in Capture  BY DEF Capture
      <4>. QED  BY <3>1, <3>3, <4>1
    <3>. QED  BY <1>3, <3>2, <3>3, ZenonT(30) DEF CaptureStart
  <2>3. now' = now /\ approved' = approved  BY <1>3 DEF CaptureStart
  <2>. QED  BY <2>1, <2>2, <2>3 DEF ConsentInv, ConsentType
<1>4. ASSUME NEW o \in Outputs, CaptureStop(o) PROVE ConsentInv'
  <2>1. PICK i \in DOMAIN cap : cap' = Compact(i)
    BY <1>4 DEF CaptureStop, Capturing
  <2>2. cap' \in Seq(Capture)
    BY <2>1, CompactKeeps DEF ConsentInv, ConsentType
  <2>3. UNCHANGED <<now, consent, approved>>  BY <1>4 DEF CaptureStop
  <2>. QED  BY <2>2, <2>3 DEF ConsentInv, ConsentType
<1>5. CASE \/ ClipboardSet
           \/ \E s \in Surfaces : SurfaceDestroy(s) \/ \E c \in Conns : SurfaceCreate(c, s)
           \/ \E c \in Conns, x \in Slots : ClaimPlain(c, x) \/ ClaimWithFd(c, x)
  BY <1>5, ZenonT(30) DEF ClipboardSet, SurfaceCreate, SurfaceDestroy, ClaimPlain, ClaimWithFd,
              ConsentInv, ConsentType
<1>6. CASE UNCHANGED vars  BY <1>6 DEF vars, ConsentInv, ConsentType
<1>. QED
  BY <1>1, <1>2, <1>3, <1>4, <1>5, <1>6, SeatAssumption DEF Next, ClientCaptureStart

\* The step of CaptureConsented.
Consented ==
    \A o \in Outputs :
       (\E i \in DOMAIN cap' : cap'[i].out = o) /\ Capturing(o) = {}
          => Current(<<o, "capture">>)

(* A capture that a step starts has its grant. *)
LEMMA StepConsented == ASSUME ConsentInv, [Next]_vars PROVE Consented \/ UNCHANGED vars
<1>1. ASSUME NEW p \in Outputs, NEW c \in Conns \cup {None}, CaptureStart(p, c)
      PROVE  Consented
  <2>. SUFFICES ASSUME NEW o \in Outputs, NEW j \in DOMAIN cap', cap'[j].out = o,
                       Capturing(o) = {}
                PROVE  Current(<<o, "capture">>)
    BY DEF Consented
  <2>1. cap' # cap  BY DEF Capturing
  <2>2. /\ Granted(p) \ Expired(p) # {}
        /\ \E f \in Fds : cap' = Append(cap, [out |-> p, fd |-> f, conn |-> c])
    BY <1>1, <2>1, ZenonT(30) DEF CaptureStart
  <2>3. o = p
    <3>1. PICK f \in Fds : cap' = Append(cap, [out |-> p, fd |-> f, conn |-> c])
      BY <2>2
    <3>2. cap \in Seq(Capture) /\ Len(cap) \in Nat  BY DEF ConsentInv, ConsentType
    <3>3. j \in 1 .. Len(cap) + 1  BY <3>1, <3>2
    <3>4. CASE j \in 1 .. Len(cap)
      BY <3>1, <3>2, <3>4 DEF Capturing
    <3>5. CASE j = Len(cap) + 1
      <4>1. cap'[j] = [out |-> p, fd |-> f, conn |-> c]  BY <3>1, <3>2, <3>5
      <4>. QED  BY <4>1
    <3>. QED  BY <3>2, <3>3, <3>4, <3>5
  <2>4. PICK i \in 1 .. ConsentSlots :
           /\ consent[i] # None /\ consent[i].key = <<o, "capture">>
           /\ ~(now >= consent[i].exp)
    BY <2>2, <2>3, SMTT(30) DEF Granted, Expired, Matching, Used, ConsentInv, ConsentType
  <2>5. consent[i].exp \in Nat /\ now \in Nat
    BY <2>4 DEF ConsentInv, ConsentType, Grant
  <2>6. /\ <<o, "capture">> \in DOMAIN approved
        /\ consent[i].exp <= approved[<<o, "capture">>] + Timeout
        /\ approved[<<o, "capture">>] \in Nat
    BY <2>4, Zenon DEF ConsentInv, ConsentType
  <2>. QED  BY <2>4, <2>5, <2>6, Bounds DEF Current
<1>2. ASSUME NEW p \in Outputs, CaptureStop(p) PROVE Consented
  <2>1. PICK i \in DOMAIN cap : cap' = Compact(i)
    BY <1>2 DEF CaptureStop, Capturing
  <2>2. /\ DOMAIN cap' = 1 .. Len(cap) - 1
        /\ \A j \in 1 .. Len(cap) - 1 :
              cap'[j] = IF j = i THEN cap[Len(cap)] ELSE cap[j]
    BY <2>1, CompactKeeps, SMTT(30) DEF ConsentInv, ConsentType
  <2>3. \A j \in DOMAIN cap' : \E k \in DOMAIN cap : cap'[j] = cap[k]
    <3>1. cap \in Seq(Capture) /\ Len(cap) \in Nat  BY DEF ConsentInv, ConsentType
    <3>2. DOMAIN cap = 1 .. Len(cap)  BY <3>1
    <3>. QED  BY <2>1, <2>2, <3>1, <3>2
  <2>. QED  BY <2>3 DEF Consented, Capturing
<1>3. CASE cap' = cap  BY <1>3 DEF Consented, Capturing
<1>4. CASE \/ ClipboardSet \/ Tick \/ \E k \in Keys : ConsentGrant(k)
           \/ \E s \in Surfaces : SurfaceDestroy(s) \/ \E c \in Conns : SurfaceCreate(c, s)
           \/ \E c \in Conns, x \in Slots : ClaimPlain(c, x) \/ ClaimWithFd(c, x)
  <2>1. cap' = cap
    BY <1>4, ZenonT(30) DEF ClipboardSet, Tick, ConsentGrant, SurfaceCreate, SurfaceDestroy,
                ClaimPlain, ClaimWithFd
  <2>. QED  BY <2>1, <1>3
<1>. QED  BY <1>1, <1>2, <1>4, SeatAssumption DEF Next, ClientCaptureStart, vars

(***************************************************************************)
(* A capture starts only under a current approval of that output           *)
(* (isz_output_capture_start), however small the table of approvals and    *)
(* however often it is overwritten.                                        *)
(***************************************************************************)
THEOREM CapturesConsented == Spec => CaptureConsented
<1>1. ConsentInv /\ [Next]_vars => ConsentInv'  BY NextConsent
<1>2. ConsentInv /\ [Next]_vars => [Consented]_vars  BY StepConsented
<1>. QED  BY InitConsent, <1>1, <1>2, PTL DEF Spec, CaptureConsented, Consented

-----------------------------------------------------------------------------
(* Descriptors.  FdsHeld is inductive once the types are known.            *)

FdType ==
    /\ clip \in Fds \cup {None} /\ cap \in Seq(Capture)
    /\ sel = [x \in Slots |-> sel[x]] /\ \A x \in Slots : sel[x].fd \in Fds \cup {None}

FdInv == FdType /\ FdsHeld

(* A claim sets the descriptor of one slot. *)
LEMMA Claimed ==
  ASSUME FdType, NEW x \in Slots, NEW s, NEW ts, NEW fd, Claim(x, s, ts, fd)
  PROVE  /\ sel' = [y \in Slots |-> sel'[y]]
         /\ \A y \in Slots : sel'[y].fd = IF y = x THEN fd ELSE sel[y].fd
  BY DEF FdType, Claim

\* A descriptor that was not open takes the place of the one in slot x.
LEMMA SelReplaced ==
  ASSUME FdInv, NEW x \in Slots, NEW s, NEW ts, NEW f \in Fds, f \notin open,
         Claim(x, s, ts, f), Replace(sel[x].fd, f), UNCHANGED <<clip, cap>>
  PROVE  FdInv'
<1>1. /\ sel' = [y \in Slots |-> sel'[y]]
      /\ \A y \in Slots : sel'[y].fd = IF y = x THEN f ELSE sel[y].fd
  BY Claimed DEF FdInv
<1>2. FdType'  BY <1>1 DEF FdInv, FdType
<1>3. open' = (open \ {sel[x].fd}) \cup {f}  BY DEF Replace
<1>4. f # None  BY SeatAssumption
<1>. QED  BY <1>1, <1>2, <1>3, <1>4 DEF FdInv, FdsHeld

(* Every step keeps the descriptors apart. *)
LEMMA NextFds == ASSUME FdInv, [Next]_vars PROVE FdInv'
<1>1. ASSUME NEW c \in Conns, NEW x \in Slots, ClaimPlain(c, x) PROVE FdInv'
  <2>1. PICK s \in Named(c), ts \in 0 .. MaxStamp :
           /\ Claim(x, s, ts, IF s = None THEN None ELSE sel[x].fd)
           /\ open' = IF s = None THEN open \ {sel[x].fd} ELSE open
    BY <1>1 DEF ClaimPlain
  <2>2. /\ sel' = [y \in Slots |-> sel'[y]]
        /\ \A y \in Slots : sel'[y].fd = IF y = x THEN IF s = None THEN None ELSE sel[x].fd
                                         ELSE sel[y].fd
    BY <2>1, Claimed DEF FdInv
  <2>3. UNCHANGED <<clip, cap>>  BY <1>1 DEF ClaimPlain
  <2>4. FdType'  BY <2>2, <2>3 DEF FdInv, FdType
  <2>. QED  BY <2>1, <2>2, <2>3, <2>4 DEF FdInv, FdsHeld
<1>2. ASSUME NEW c \in Conns, NEW x \in Slots, ClaimWithFd(c, x) PROVE FdInv'
  <2>1. UNCHANGED <<clip, cap>>  BY <1>2 DEF ClaimWithFd
  <2>2. PICK s \in Named(c), ts \in 0 .. MaxStamp :
           \/ \E f \in Fds \ open : Claim(x, s, ts, f) /\ Replace(sel[x].fd, f)
           \/ Claim(x, s, ts, sel[x].fd) /\ UNCHANGED open
    BY <1>2 DEF ClaimWithFd
  <2>3. ASSUME NEW f \in Fds \ open, Claim(x, s, ts, f), Replace(sel[x].fd, f) PROVE FdInv'
    BY <2>1, <2>3, SelReplaced
  <2>4. ASSUME Claim(x, s, ts, sel[x].fd), UNCHANGED open PROVE FdInv'
    <3>1. /\ sel' = [y \in Slots |-> sel'[y]]
          /\ \A y \in Slots : sel'[y].fd = sel[y].fd
      BY <2>4, Claimed DEF FdInv
    <3>. QED  BY <2>1, <2>4, <3>1 DEF FdInv, FdType, FdsHeld
  <2>. QED  BY <2>2, <2>3, <2>4
<1>3. CASE ClipboardSet
  <2>1. PICK f \in Fds \ open : clip' = f /\ open' = (open \ {clip}) \cup {f}
    BY <1>3 DEF ClipboardSet, Replace
  <2>2. UNCHANGED <<sel, cap>>  BY <1>3 DEF ClipboardSet
  <2>3. FdType'  BY <2>1, <2>2 DEF FdInv, FdType
  <2>4. f # None  BY SeatAssumption
  <2>. QED  BY <2>1, <2>2, <2>3, <2>4 DEF FdInv, FdsHeld
<1>4. ASSUME NEW o \in Outputs, NEW c \in Conns \cup {None}, CaptureStart(o, c)
      PROVE  FdInv'
  <2>1. UNCHANGED <<sel, clip>>  BY <1>4 DEF CaptureStart, held
  <2>2. CASE UNCHANGED <<cap, open>>
    BY <2>1, <2>2 DEF FdInv, FdType, FdsHeld
  <2>3. ASSUME NEW f \in Fds \ open, cap' = Append(cap, [out |-> o, fd |-> f, conn |-> c]),
               open' = open \cup {f}
        PROVE  FdInv'
    <3>. DEFINE n == Len(cap) + 1
    <3>1. [out |-> o, fd |-> f, conn |-> c] \in Capture  BY DEF Capture
    <3>2. cap \in Seq(Capture) /\ Len(cap) \in Nat /\ DOMAIN cap = 1 .. Len(cap)
      BY DEF FdInv, FdType
    <3>3. cap' \in Seq(Capture) /\ DOMAIN cap' = 1 .. n  BY <2>3, <3>1, <3>2
    <3>4. \A i \in 1 .. n : cap'[i].fd = IF i = n THEN f ELSE cap[i].fd
      BY <2>3, <3>1, <3>2, <3>3
    <3>5. f # None  BY SeatAssumption
    <3>6. FdType'  BY <2>1, <3>3 DEF FdInv, FdType
    <3>. HIDE DEF n
    <3>7. \A i \in DOMAIN cap : i # n /\ i \in DOMAIN cap' /\ cap'[i].fd = cap[i].fd
      BY <3>2, <3>3, <3>4 DEF n
    <3>8. n \in DOMAIN cap' /\ cap'[n].fd = f  BY <3>2, <3>3, <3>4 DEF n
    <3>9. \A i \in DOMAIN cap' : i = n \/ i \in DOMAIN cap  BY <3>2, <3>3, SMTT(30) DEF n
    <3>. QED  BY <2>1, <2>3, <3>5, <3>6, <3>7, <3>8, <3>9 DEF FdInv, FdsHeld
  <2>. QED  BY <1>4, <2>2, <2>3, ZenonT(30) DEF CaptureStart
<1>5. ASSUME NEW o \in Outputs, CaptureStop(o) PROVE FdInv'
  <2>1. PICK i \in DOMAIN cap : cap' = Compact(i) /\ open' = open \ {cap[i].fd}
    BY <1>5 DEF CaptureStop, Capturing
  <2>2. UNCHANGED <<sel, clip>>  BY <1>5 DEF CaptureStop, held
  <2>. DEFINE n == Len(cap)
              was(j) == IF j = i THEN n ELSE j
  <2>3. cap \in Seq(Capture) /\ n \in Nat /\ DOMAIN cap = 1 .. n
    BY DEF FdInv, FdType
  <2>4. /\ cap' \in Seq(Capture) /\ DOMAIN cap' = 1 .. n - 1
        /\ \A j \in 1 .. n - 1 : cap'[j] = cap[was(j)]
    BY <2>1, <2>3, CompactKeeps
  <2>5. FdType'  BY <2>2, <2>4 DEF FdInv, FdType
  <2>6. \A j \in DOMAIN cap' : was(j) \in DOMAIN cap /\ was(j) # i /\ cap'[j] = cap[was(j)]
    BY <2>1, <2>3, <2>4
  <2>7. \A j, k \in DOMAIN cap' : was(j) = was(k) => j = k
    BY <2>1, <2>3, <2>4
  <2>8. \A k \in DOMAIN cap : k # i => \E j \in DOMAIN cap' : cap'[j] = cap[k]
    BY <2>1, <2>3, <2>4
  <2>. HIDE DEF n, was
  <2>9. \A k \in DOMAIN cap : k # i => cap[k].fd # cap[i].fd  BY <2>1 DEF FdInv, FdsHeld
  <2>10. {cap'[j].fd : j \in DOMAIN cap'} = {cap[k].fd : k \in DOMAIN cap} \ {cap[i].fd}
    BY <2>1, <2>6, <2>8, <2>9
  <2>11. /\ cap[i].fd \notin {None, clip}
         /\ \A x \in Slots : sel[x].fd # None => sel[x].fd # cap[i].fd
    BY <2>1 DEF FdInv, FdsHeld
  <2>12. \A x \in Slots : sel[x].fd # cap[i].fd  BY <2>11
  <2>. QED  BY <2>1, <2>2, <2>5, <2>6, <2>7, <2>10, <2>11, <2>12 DEF FdInv, FdsHeld
<1>6. CASE \/ Tick \/ \E k \in Keys : ConsentGrant(k)
           \/ \E s \in Surfaces : SurfaceDestroy(s) \/ \E c \in Conns : SurfaceCreate(c, s)
           \/ UNCHANGED vars
  <2>1. UNCHANGED <<sel, clip, cap, open>>
    BY <1>6, Zenon DEF Tick, ConsentGrant, SurfaceCreate, SurfaceDestroy, vars, held
  <2>. QED  BY <2>1 DEF FdInv, FdType, FdsHeld
<1>. QED
  BY <1>1, <1>2, <1>3, <1>4, <1>5, <1>6, SeatAssumption DEF Next, ClientCaptureStart

(***************************************************************************)
(* No descriptor of the clipboard, the selections or the captures is       *)
(* closed while it is held, held twice, or forgotten when it is replaced   *)
(* (isz_handle_set_selection_owner, isz_handle_clipboard_set,              *)
(* isz_output_capture_start, isz_output_capture_stop).                     *)
(***************************************************************************)
THEOREM FdsAlwaysHeld == Spec => []FdsHeld
<1>1. Init => FdInv  BY DEF Init, FdInv, FdType, FdsHeld, Slots
<1>2. FdInv /\ [Next]_vars => FdInv'  BY NextFds
<1>3. FdInv => FdsHeld  BY DEF FdInv
<1>. QED  BY <1>1, <1>2, <1>3, PTL DEF Spec
-----------------------------------------------------------------------------
(* The table of approvals.                                                 *)

\* Each entry is the last approval of its key, in one slot, and a current
\* approval is out of the table only while every slot outlives it.
TableInv ==
    /\ ConsentInv /\ IsFiniteSet(DOMAIN approved)
    /\ \A i \in Used : consent[i].exp = approved[consent[i].key] + Timeout
    /\ \A i, j \in Used : consent[i].key = consent[j].key => i = j
    /\ \A k \in CurrentKeys : Matching(k) = {} =>
          /\ Used = 1 .. ConsentSlots
          /\ \A i \in Used : consent[i].exp >= approved[k] + Timeout

\* A nonempty set of numbers has a first.
LEMMA FirstOf == ASSUME NEW S \in SUBSET Nat, S # {}
                 PROVE  Min(S) \in S /\ \A i \in S : Min(S) <= i
<1>1. \E x \in S : \A y \in S : <<y, x>> \notin OpToRel(<, Nat)
  BY WFMin, NatLessThanWellFounded, Zenon
<1>2. \E x \in S : \A y \in S : ~(y < x)  BY <1>1, Zenon DEF OpToRel
<1>3. \E x \in S : \A y \in S : x <= y  BY <1>2
<1>. QED  BY <1>3, Zenon DEF Min

\* What the used slots hold.
LEMMA UsedEntries ==
  ASSUME ConsentInv
  PROVE  /\ Used \subseteq 1 .. ConsentSlots /\ DOMAIN consent = 1 .. ConsentSlots
         /\ \A i \in Used : /\ consent[i].key \in DOMAIN approved /\ consent[i].exp \in Nat
                            /\ approved[consent[i].key] \in Nat
<1>1. DOMAIN consent = 1 .. ConsentSlots  BY DEF ConsentInv, ConsentType
<1>2. ASSUME NEW i \in Used
      PROVE  /\ consent[i].key \in DOMAIN approved /\ consent[i].exp \in Nat
             /\ approved[consent[i].key] \in Nat
  <2>1. i \in 1 .. ConsentSlots /\ consent[i] # None  BY <1>1 DEF Used
  <2>2. consent[i] \in Grant  BY <2>1 DEF ConsentInv, ConsentType
  <2>. QED  BY <2>1, <2>2 DEF ConsentInv, ConsentType, Grant
<1>. QED  BY <1>1, <1>2 DEF Used

\* The victim is a used slot none of which expires sooner.
LEMMA VictimFirst ==
  ASSUME ConsentInv, Used # {}
  PROVE  Victim \in Used /\ \A j \in Used : consent[Victim].exp <= consent[j].exp
<1>. DEFINE exps == {consent[i].exp : i \in Used}
            soon == {i \in Used : consent[i].exp = Min(exps)}
<1>1. \A i \in Used : i \in Nat /\ consent[i].exp \in Nat  BY UsedEntries, Bounds
<1>2. exps \in SUBSET Nat /\ exps # {}  BY <1>1
<1>3. Min(exps) \in exps /\ \A e \in exps : Min(exps) <= e
  <2>. HIDE DEF exps
  <2>. QED  BY <1>2, FirstOf
<1>4. soon \in SUBSET Nat /\ soon # {}  BY <1>1, <1>3, Zenon
<1>5. Min(soon) \in soon /\ \A i \in soon : Min(soon) <= i
  <2>. HIDE DEF soon
  <2>. QED  BY <1>4, FirstOf
<1>6. \A j \in Used : consent[j].exp \in exps /\ Min(exps) <= consent[j].exp  BY <1>3
<1>. DEFINE P(i) == \A j \in Used : \/ consent[i].exp < consent[j].exp
                                    \/ consent[i].exp = consent[j].exp /\ i <= j
<1>7. Min(soon) \in Used /\ consent[Min(soon)].exp = Min(exps)  BY <1>5
<1>8. P(Min(soon))
  <2>. SUFFICES ASSUME NEW j \in Used
                PROVE  \/ Min(exps) < consent[j].exp
                       \/ Min(exps) = consent[j].exp /\ Min(soon) <= j
    BY <1>7, ZenonT(30)
  <2>1. CASE consent[j].exp = Min(exps)
    <3>1. j \in soon  BY <2>1
    <3>. HIDE DEF soon, exps
    <3>. QED  BY <2>1, <3>1, <1>5
  <2>2. CASE consent[j].exp # Min(exps)
    <3>1. Min(exps) \in Nat  BY <1>2, <1>3
    <3>. HIDE DEF soon, exps
    <3>. QED  BY <2>2, <3>1, <1>1, <1>6
  <2>. QED  BY <2>1, <2>2
<1>. HIDE DEF exps, soon
<1>9. Victim \in Used /\ P(Victim)
  <2>1. \E i \in Used : P(i)  BY <1>7, <1>8
  <2>2. Victim = CHOOSE i \in Used : P(i)  BY DEF Victim
  <2>. HIDE DEF P
  <2>. QED  BY <2>1, <2>2, Zenon
<1>. QED  BY <1>9, <1>1

\* isz_consent_find answers the slot of the key, else a free one, else, when
\* there is none, the one that expires first.
LEMMA Found ==
  ASSUME ConsentInv, NEW k
  PROVE  \/ FindFree(k) \in Matching(k)
         \/ Matching(k) = {} /\ FindFree(k) \in (1 .. ConsentSlots) \ Used
         \/ /\ Matching(k) = {} /\ Used = 1 .. ConsentSlots /\ FindFree(k) \in Used
            /\ \A j \in Used : consent[FindFree(k)].exp <= consent[j].exp
<1>1. /\ Used \subseteq 1 .. ConsentSlots /\ DOMAIN consent = 1 .. ConsentSlots
      /\ Matching(k) \subseteq Used /\ 1 .. ConsentSlots \subseteq Nat
  BY UsedEntries, Bounds DEF Matching
<1>2. CASE Matching(k) # {}
  <2>1. FindFree(k) = Min(Matching(k))  BY <1>2 DEF FindFree
  <2>2. Matching(k) \in SUBSET Nat  BY <1>1, Zenon
  <2>. QED  BY <1>2, <2>1, <2>2, FirstOf
<1>3. CASE Matching(k) = {} /\ Used # DOMAIN consent
  <2>. DEFINE free == DOMAIN consent \ Used
  <2>1. FindFree(k) = Min(free)  BY <1>3 DEF FindFree
  <2>2. free \in SUBSET Nat /\ free # {} /\ free = (1 .. ConsentSlots) \ Used  BY <1>1, <1>3, Zenon
  <2>. HIDE DEF free
  <2>. QED  BY <1>3, <2>1, <2>2, FirstOf
<1>4. CASE Matching(k) = {} /\ Used = DOMAIN consent
  <2>1. FindFree(k) = Victim  BY <1>4 DEF FindFree
  <2>2. 1 \in 1 .. ConsentSlots  BY SeatAssumption
  <2>. QED  BY <1>1, <1>4, <2>1, <2>2, VictimFirst
<1>. QED  BY <1>2, <1>3, <1>4

\* An approval takes a slot whose key, if it had one, was the first to go.
LEMMA GrantTable == ASSUME TableInv, NEW k \in Keys, ConsentGrant(k) PROVE TableInv'
<1>. DEFINE f == FindFree(k)
            g == [key |-> k, exp |-> now + Timeout]
<1>. USE Bounds
<1>1. /\ ConsentInv /\ Used \subseteq 1 .. ConsentSlots /\ DOMAIN consent = 1 .. ConsentSlots
      /\ \A i \in Used : /\ consent[i].key \in DOMAIN approved /\ consent[i].exp \in Nat
                         /\ approved[consent[i].key] \in Nat
      /\ now \in Nat /\ \A x \in DOMAIN approved : approved[x] \in Nat /\ approved[x] <= now
  BY UsedEntries DEF TableInv, ConsentInv, ConsentType
<1>2. f \in 1 .. ConsentSlots  BY <1>1, Found, ZenonT(30) DEF Matching
<1>3. /\ DOMAIN approved' = DOMAIN approved \cup {k} /\ now' = now
      /\ \A x \in DOMAIN approved' : approved'[x] = IF x = k THEN now ELSE approved[x]
  BY DEF ConsentGrant
<1>4. /\ DOMAIN consent' = 1 .. ConsentSlots
      /\ \A i \in 1 .. ConsentSlots : consent'[i] = IF i = f THEN g ELSE consent[i]
  BY <1>1 DEF ConsentGrant
<1>5. ConsentInv'
  <2>1. [Next]_vars  BY Zenon DEF Next
  <2>. QED  BY <1>1, <2>1, NextConsent
<1>6. IsFiniteSet(DOMAIN approved')  BY <1>3, FS_AddElement DEF TableInv
<1>7. g # None
  <2>1. g \in [key : Keys, exp : Nat]  BY <1>1
  <2>. HIDE DEF g
  <2>. QED  BY <2>1, SeatAssumption, Zenon
<1>8. Used' = Used \cup {f}  BY <1>1, <1>2, <1>4, <1>7 DEF Used
<1>. HIDE DEF f
<1>9. \A i \in Used : i # f => consent[i].key # k
  BY <1>1, Found, ZenonT(30) DEF f, Matching, TableInv
<1>10. \A i \in Used' : consent'[i].exp = approved'[consent'[i].key] + Timeout
  <2>1. ASSUME NEW i \in Used, i # f
        PROVE  consent'[i].exp = approved'[consent'[i].key] + Timeout
    <3>1. consent'[i] = consent[i] /\ consent[i].key # k  BY <1>1, <1>4, <1>9, <2>1
    <3>. QED  BY <1>1, <1>3, <2>1, <3>1 DEF TableInv
  <2>2. consent'[f].exp = approved'[consent'[f].key] + Timeout  BY <1>2, <1>3, <1>4
  <2>. QED  BY <1>8, <2>1, <2>2
<1>11. \A i, j \in Used' : consent'[i].key = consent'[j].key => i = j
  <2>1. \A i \in Used : i # f => consent'[i] = consent[i] /\ consent'[i].key # k
    BY <1>1, <1>4, <1>9
  <2>2. consent'[f].key = k  BY <1>2, <1>4
  <2>. QED  BY <1>8, <2>1, <2>2 DEF TableInv
<1>12. ASSUME NEW x \in CurrentKeys', Matching(x)' = {}
       PROVE  /\ Used' = 1 .. ConsentSlots
              /\ \A i \in Used' : consent'[i].exp >= approved'[x] + Timeout
  <2>1. f \in Used' /\ consent'[f].key = k  BY <1>2, <1>4, <1>8
  <2>2. x # k  BY <1>12, <2>1 DEF Matching
  <2>3. x \in CurrentKeys /\ approved'[x] = approved[x] /\ approved[x] \in Nat /\ approved[x] <= now
    BY <1>1, <1>3, <1>12, <2>2, SMTT(30) DEF CurrentKeys, Current
  <2>4. \A i \in Used : i # f => consent'[i] = consent[i]  BY <1>1, <1>4
  <2>5. \A i \in Matching(x) : i = f  BY <1>8, <1>12, <2>4, SMTT(30) DEF Matching
  <2>6. consent'[f].exp >= approved[x] + Timeout  BY <1>1, <1>2, <1>4, <2>3
  <2>7. CASE Matching(x) = {}
    <3>1. Used = 1 .. ConsentSlots /\ \A i \in Used : consent[i].exp >= approved[x] + Timeout
      BY <2>3, <2>7 DEF TableInv
    <3>. QED  BY <1>2, <1>8, <2>3, <2>4, <2>6, <3>1
  <2>8. CASE Matching(x) # {}
    <3>1. f \in Matching(x)  BY <2>5, <2>8
    <3>2. f \in Used /\ consent[f].key = x  BY <3>1 DEF Matching
    <3>3. Used = 1 .. ConsentSlots /\ \A j \in Used : consent[f].exp <= consent[j].exp
      <4>1. f \notin Matching(k)  BY <2>2, <3>2, SMTT(30) DEF Matching
      <4>. QED  BY <1>1, <3>2, <4>1, Found DEF f
    <3>4. consent[f].exp = approved[x] + Timeout  BY <3>2, SMTT(30) DEF TableInv
    <3>. QED  BY <1>1, <1>2, <1>8, <2>3, <2>4, <2>6, <3>3, <3>4, SMTT(30)
  <2>. QED  BY <2>7, <2>8
<1>. QED  BY <1>5, <1>6, <1>10, <1>11, <1>12 DEF TableInv

\* A check of an output's consent frees what has expired and no more.
LEMMA ReclaimTable ==
  ASSUME TableInv, NEW o \in Outputs, NEW c \in Conns \cup {None}, CaptureStart(o, c), ConsentInv'
  PROVE  TableInv'
<1>1. /\ ConsentInv /\ Used \subseteq 1 .. ConsentSlots /\ DOMAIN consent = 1 .. ConsentSlots
      /\ \A i \in Used : consent[i].exp \in Nat /\ now \in Nat
      /\ \A x \in DOMAIN approved : approved[x] \in Nat /\ Timeout \in Nat
  BY UsedEntries, Bounds DEF TableInv, ConsentInv, ConsentType
<1>2. /\ DOMAIN consent' = DOMAIN consent
      /\ \A i \in DOMAIN consent : consent'[i] = IF i \in Expired(o) THEN None ELSE consent[i]
      /\ now' = now /\ approved' = approved
  BY DEF CaptureStart, Reclaimed
<1>3. Used' = Used \ Expired(o) /\ \A i \in Used' : consent'[i] = consent[i]
  BY <1>2 DEF Used
<1>4. CurrentKeys' = CurrentKeys  BY <1>2 DEF CurrentKeys, Current
<1>5. ASSUME NEW x \in CurrentKeys, Matching(x)' = {}
      PROVE  /\ Used' = 1 .. ConsentSlots
             /\ \A i \in Used' : consent'[i].exp >= approved'[x] + Timeout
  <2>1. x \in DOMAIN approved /\ now < approved[x] + Timeout  BY DEF CurrentKeys, Current
  <2>2. Expired(o) \subseteq Used /\ \A i \in Expired(o) : now >= consent[i].exp
    BY DEF Expired, Granted, Matching
  <2>3. Matching(x) = {}
    <3>. SUFFICES ASSUME NEW i \in Matching(x) PROVE FALSE  OBVIOUS
    <3>1. i \in Used /\ consent[i].key = x  BY SMTT(30) DEF Matching
    <3>2. consent[i].exp = approved[x] + Timeout  BY <3>1 DEF TableInv
    <3>3. i \notin Expired(o)  BY <1>1, <2>1, <2>2, <3>1, <3>2, SMTT(30)
    <3>. QED  BY <1>3, <1>5, <3>1, <3>3 DEF Matching
  <2>4. Used = 1 .. ConsentSlots /\ \A i \in Used : consent[i].exp >= approved[x] + Timeout
    BY <2>3, SMTT(30) DEF TableInv
  <2>5. Expired(o) = {}  BY <1>1, <2>1, <2>2, <2>4, SMTT(30)
  <2>. QED  BY <1>2, <1>3, <2>4, <2>5
<1>. QED  BY <1>2, <1>3, <1>4, <1>5, SMTT(30) DEF TableInv

(* Every step keeps the table. *)
LEMMA NextTable == ASSUME TableInv, [Next]_vars PROVE TableInv'
<1>1. ConsentInv'  BY NextConsent DEF TableInv
<1>2. CASE Tick
  <2>1. UNCHANGED <<consent, approved>> /\ now' = now + 1  BY <1>2 DEF Tick
  <2>2. CurrentKeys' \subseteq CurrentKeys
    <3>1. now \in Nat /\ Timeout \in Nat /\ \A x \in DOMAIN approved : approved[x] \in Nat
      BY Bounds DEF TableInv, ConsentInv, ConsentType
    <3>. QED  BY <2>1, <3>1, SMTT(30) DEF CurrentKeys, Current
  <2>. QED  BY <1>1, <2>1, <2>2 DEF TableInv, Used, Matching
<1>3. ASSUME NEW k \in Keys, ConsentGrant(k) PROVE TableInv'  BY <1>3, GrantTable
<1>4. ASSUME NEW o \in Outputs, NEW c \in Conns \cup {None}, CaptureStart(o, c) PROVE TableInv'
  BY <1>1, <1>4, ReclaimTable, SMTT(30)
<1>5. CASE \/ ClipboardSet \/ \E o \in Outputs : CaptureStop(o)
           \/ \E s \in Surfaces : SurfaceDestroy(s) \/ \E c \in Conns : SurfaceCreate(c, s)
           \/ \E c \in Conns, x \in Slots : ClaimPlain(c, x) \/ ClaimWithFd(c, x)
           \/ UNCHANGED vars
  <2>1. UNCHANGED <<now, consent, approved>>
    BY <1>5, ZenonT(30) DEF ClipboardSet, CaptureStop, SurfaceCreate, SurfaceDestroy,
                            ClaimPlain, ClaimWithFd, vars
  <2>. QED  BY <1>1, <2>1 DEF TableInv, Used, Matching, CurrentKeys, Current
<1>. QED
  BY <1>2, <1>3, <1>4, <1>5, SeatAssumption, SMTT(30) DEF Next, ClientCaptureStart

\* A current approval that is out of the table has one in every slot before it.
LEMMA TableKeeps == TableInv => GrantKept
<1>. SUFFICES ASSUME TableInv, NEW k \in CurrentKeys,
                     ~ \E i \in Matching(k) : consent[i].exp = approved[k] + Timeout
              PROVE  Cardinality(CurrentKeys) > ConsentSlots
  BY SMTT(30) DEF GrantKept
<1>. DEFINE S == 1 .. ConsentSlots
            h == [i \in S |-> consent[i].key]
            T == {h[i] : i \in S}
<1>1. Matching(k) = {}  BY DEF Matching, TableInv
<1>2. Used = S /\ \A i \in S : consent[i].exp >= approved[k] + Timeout  BY <1>1, ZenonT(30) DEF TableInv
<1>3. /\ \A i \in S : /\ consent[i].key \in DOMAIN approved /\ consent[i].exp \in Nat
                      /\ consent[i].exp = approved[consent[i].key] + Timeout
      /\ now \in Nat /\ Timeout \in Nat /\ ConsentSlots \in Nat /\ approved[k] \in Nat
      /\ now < approved[k] + Timeout /\ k \in DOMAIN approved
  <2>1. ConsentInv /\ k \in DOMAIN approved /\ now < approved[k] + Timeout
    BY DEF TableInv, CurrentKeys, Current
  <2>. QED  BY <1>2, <2>1, UsedEntries, Bounds DEF TableInv, ConsentInv, ConsentType
<1>4. \A i \in S : h[i] \in CurrentKeys \ {k}
  <2>1. \A i \in S : consent[i].key # k  BY <1>1, <1>2 DEF Matching
  <2>2. \A i \in S : now < approved[consent[i].key] + Timeout  BY <1>2, <1>3
  <2>. QED  BY <1>3, <2>1, <2>2 DEF CurrentKeys, Current
<1>5. \A i, j \in S : h[i] = h[j] => i = j  BY <1>2 DEF TableInv
<1>6. IsFiniteSet(CurrentKeys)
  <2>1. CurrentKeys \in SUBSET DOMAIN approved  BY DEF CurrentKeys
  <2>. QED  BY <2>1, FS_Subset DEF TableInv
<1>7. IsFiniteSet(S) /\ Cardinality(S) = ConsentSlots
  <2>1. 1 \in Int /\ ConsentSlots \in Int /\ ~(1 > ConsentSlots)  BY SeatAssumption
  <2>2. IsFiniteSet(S) /\ Cardinality(S) = IF 1 > ConsentSlots THEN 0 ELSE ConsentSlots - 1 + 1
    BY <2>1, FS_Interval, ZenonT(30)
  <2>. QED  BY <2>1, <2>2
<1>. DEFINE C == CurrentKeys \ {k}
<1>8. IsFiniteSet(C) /\ Cardinality(C) = Cardinality(CurrentKeys) - 1
  BY <1>6, FS_RemoveElement
<1>9. h \in Injection(S, C)  BY <1>4, <1>5 DEF Injection, IsInjective
<1>10. Cardinality(S) <= Cardinality(C)
  <2>. HIDE DEF h, S, C
  <2>. QED  BY <1>8, <1>9, FS_Injection
<1>11. Cardinality(CurrentKeys) \in Nat  BY <1>6, FS_CardinalityType
<1>. QED  BY <1>3, <1>7, <1>8, <1>10, <1>11

(***************************************************************************)
(* An approval is dropped before its time only when more are current than  *)
(* the table of isz_capture_consent.c has slots, however grants, checks    *)
(* and the clock interleave.                                               *)
(***************************************************************************)
THEOREM GrantsAlwaysKept == Spec => []GrantKept
<1>1. Init => TableInv
  <2>1. ASSUME Init PROVE TableInv
    <3>1. ConsentInv  BY <2>1, InitConsent
    <3>2. Used = {} /\ DOMAIN approved = {}  BY <2>1 DEF Init, Used
    <3>. QED  BY <3>1, <3>2, FS_EmptySet DEF TableInv, CurrentKeys
  <2>. QED  BY <2>1
<1>2. TableInv /\ [Next]_vars => TableInv'  BY NextTable
<1>. QED  BY <1>1, <1>2, TableKeeps, PTL DEF Spec
=============================================================================
