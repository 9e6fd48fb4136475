--------------------------- MODULE IsolationProofs ---------------------------
(***************************************************************************)
(* Isolation of the clients of Requests, on top of RequestsProofs.  Beside *)
(* exact tables it needs that what a step frees is reached from one client *)
(* only: the parent of a surface is a surface of the same client (Kin), a  *)
(* buffer is held by one surface (Exclusive), and the surface that holds   *)
(* it belongs to the client that can name it (Own).                        *)
(***************************************************************************)
EXTENDS RequestsProofs

Kin == \A s \in DOMAIN surf :
    \/ surf[s].parent \in {None, Freed}
    \/ surf[s].parent \in DOMAIN surf /\ surf[surf[s].parent].conn = surf[s].conn

Live ==
    /\ \A s \in DOMAIN surf : Held(s) \subseteq DOMAIN buf \cup {None, Freed}
    /\ \A c \in Conns : \A id \in DOMAIN objs[c] :
          objs[c][id].kind = "buffer" => objs[c][id].obj \in DOMAIN buf \cup {Freed}

Exclusive ==
    /\ \A s \in DOMAIN surf : surf[s].cur = surf[s].pend => surf[s].cur \in {None, Freed}
    /\ \A s, t \in DOMAIN surf : \A b \in Held(s) \cap Held(t) : b \in {None, Freed} \/ s = t

Own == \A c \in Conns : \A id \in DOMAIN objs[c] : \A s \in DOMAIN surf :
    objs[c][id].kind = "buffer" /\ objs[c][id].obj \in Held(s) /\ objs[c][id].obj # Freed
       => surf[s].conn = c

BInv == Kin /\ Live /\ Exclusive /\ Own

\* The step of Isolation.
Isolated ==
    reply'[1] \in conns
       => \A s \in DOMAIN surf : surf[s].conn # reply'[1]
             => s \in DOMAIN surf' /\ surf'[s] = surf[s]

(* None names no buffer. *)
LEMMA NoBufferIsNone ==
  ASSUME TInv PROVE /\ None \notin DOMAIN buf /\ Freed \notin DOMAIN buf /\ None # Freed
  BY RequestsAssumption DEF TInv, Types

(* A step that changes no object keeps BInv and isolates. *)
LEMMA SameIsolated ==
  ASSUME BInv, UNCHANGED <<surf, objs, buf>> PROVE BInv' /\ Isolated
<1>1. Kin'  BY DEF BInv, Kin
<1>2. Live'  BY DEF BInv, Live, Held
<1>3. Exclusive'  BY DEF BInv, Exclusive, Held
<1>4. Own'  BY DEF BInv, Own, Held
<1>. QED  BY <1>1, <1>2, <1>3, <1>4 DEF BInv, Isolated

(* Creating a surface changes no object of another client. *)
LEMMA CreateIsolated ==
  ASSUME TInv, BInv, NEW c \in conns, NEW s \in Surfaces \ DOMAIN surf,
         NEW kind, NEW parent,
         parent = None \/ (parent \in DOMAIN surf /\ surf[parent].conn = c),
         Register(c, "surface", s),
         surf' = With(surf, s, NewSurface(c, nextId[c], kind, parent)), buf' = buf
  PROVE  BInv' /\ Isolated
<1>1. /\ DOMAIN surf' = DOMAIN surf \cup {s} /\ \A t \in DOMAIN surf : surf'[t] = surf[t]
      /\ surf'[s].conn = c /\ surf'[s].parent = parent
      /\ surf'[s].cur = None /\ surf'[s].pend = None
  BY DEF With, NewSurface
<1>. DEFINE n == nextId[c]
            e == [kind |-> "surface", obj |-> s]
<1>2. c \in Conns /\ n \notin DOMAIN objs[c] /\ objs = [d \in Conns |-> objs[d]]
  BY DEF TInv, Types, Fresh
<1>3. objs'[c] = With(objs[c], n, e) /\ \A d \in Conns : d # c => objs'[d] = objs[d]
  BY <1>2 DEF Register
<1>4. \A d \in Conns : \A i \in DOMAIN objs'[d] :
         \/ objs'[d][i].kind = "surface"
         \/ i \in DOMAIN objs[d] /\ objs'[d][i] = objs[d][i]
  <2>1. /\ DOMAIN objs'[c] = DOMAIN objs[c] \cup {n} /\ objs'[c][n].kind = "surface"
        /\ \A i \in DOMAIN objs[c] : objs'[c][i] = objs[c][i]
    BY <1>2, <1>3, SMTT(30) DEF With
  <2>. QED  BY <1>3, <2>1
<1>5. Kin'  BY <1>1 DEF BInv, Kin
<1>6. Live'  BY <1>1, <1>4 DEF BInv, Live, Held
<1>7. Exclusive'  BY <1>1, SMTT(30) DEF BInv, Exclusive, Held
<1>8. Own'
  <2>. SUFFICES ASSUME NEW d \in Conns, NEW i \in DOMAIN objs'[d], NEW t \in DOMAIN surf',
                       objs'[d][i].kind = "buffer", objs'[d][i].obj \in Held(t)',
                       objs'[d][i].obj # Freed
                PROVE  surf'[t].conn = d
    BY DEF Own
  <2>1. i \in DOMAIN objs[d] /\ objs'[d][i] = objs[d][i]  BY <1>4
  <2>2. objs[d][i].obj # None  BY <2>1, NoBufferIsNone, SMTT(30) DEF BInv, Live
  <2>3. t # s  BY <1>1, <2>1, <2>2 DEF Held
  <2>. QED  BY <1>1, <2>1, <2>3 DEF BInv, Own, Held
<1>9. Isolated  BY <1>1 DEF Isolated
<1>. QED  BY <1>5, <1>6, <1>7, <1>8, <1>9 DEF BInv

(* Destroying a surface changes no object of another client. *)
LEMMA SurfaceDestroyIsolated ==
  ASSUME TInv, BInv, NEW c \in conns, NEW id, Lookup(c, id, "surface") # None,
         SurfaceDestroy(c, id)
  PROVE  BInv' /\ Isolated
<1>s. PICK s : s = Lookup(c, id, "surface")  OBVIOUS
<1>D. PICK D : D = Held(s)  OBVIOUS
<1>1. s \in DOMAIN surf /\ surf[s].conn = c  BY <1>s, SurfaceLookup, Zenon
<1>2. /\ objs' = ObjsAfter(Unregister(c, id, objs), D) /\ buf' = UnrefBuf(D)
      /\ surf' = [t \in DOMAIN surf \ {s} |-> [surf[t] EXCEPT !.parent = Stale(@, {s})]]
  BY <1>s, <1>D, Zenon DEF SurfaceDestroy, Refuse
<1>0. reply'[1] = c
  <2>1. \E rc : Says(c, "surface_destroy", rc)  BY DEF SurfaceDestroy, Refuse
  <2>. QED  BY <2>1 DEF Says
<1>3. D \cap Surfaces = {}
  BY <1>1, <1>D, RequestsAssumption DEF Held, TInv, Types, Record, Pointer
<1>4. \A d \in Conns : \A i \in DOMAIN objs'[d] :
         /\ i \in DOMAIN objs[d] /\ objs'[d][i].kind = objs[d][i].kind
         /\ objs'[d][i].obj = Stale(objs[d][i].obj, D)
  <2>1. PICK u : u = Unregister(c, id, objs)  OBVIOUS
  <2>2. PICK g : g = ObjsAfter(u, D)  OBVIOUS
  <2>3. PartOf(u)  BY <2>1, UnregisterFacts
  <2>4. FreedFrom(g, u, D)  BY <1>3, <2>2, <2>3, FreedEntries
  <2>5. objs' = g  BY <1>2, <2>1, <2>2
  <2>. QED  BY <2>3, <2>4, <2>5 DEF FreedFrom, PartOf
<1>5. DOMAIN buf' = DOMAIN buf \ D  BY <1>2 DEF UnrefBuf, Without, Restrict
<1>6. DOMAIN surf' = DOMAIN surf \ {s}  BY <1>2
<1>7. ASSUME NEW t \in DOMAIN surf'
      PROVE  /\ surf'[t].conn = surf[t].conn /\ surf'[t].parent = Stale(surf[t].parent, {s})
             /\ surf'[t].cur = surf[t].cur /\ surf'[t].pend = surf[t].pend
             /\ surf[t].parent # s => surf'[t] = surf[t]
  <2>1. surf[t] \in Record  BY <1>6 DEF TInv, Types
  <2>2. surf'[t] = [surf[t] EXCEPT !.parent = Stale(surf[t].parent, {s})]  BY <1>2, <1>6
  <2>3. surf[t].parent # s => Stale(surf[t].parent, {s}) = surf[t].parent  BY DEF Stale
  <2>. QED  BY <2>1, <2>2, <2>3 DEF Record
<1>8. Kin'
  <2>. SUFFICES ASSUME NEW t \in DOMAIN surf', surf'[t].parent \notin {None, Freed}
                PROVE  /\ surf'[t].parent \in DOMAIN surf'
                       /\ surf'[surf'[t].parent].conn = surf'[t].conn
    BY DEF Kin
  <2>1. surf[t].parent # s /\ surf'[t].parent = surf[t].parent  BY <1>7 DEF Stale
  <2>2. surf[t].parent \in DOMAIN surf /\ surf[surf[t].parent].conn = surf[t].conn
    BY <1>6, <2>1 DEF BInv, Kin
  <2>. QED  BY <1>6, <1>7, <2>1, <2>2
<1>9. \A t \in DOMAIN surf' : Held(t)' = Held(t) /\ Held(t) \cap D \subseteq {None, Freed}
  BY <1>1, <1>D, <1>6, <1>7 DEF BInv, Exclusive, Held
<1>10. Live'
  <2>1. \A t \in DOMAIN surf' : Held(t)' \subseteq DOMAIN buf' \cup {None, Freed}
    BY <1>5, <1>6, <1>9 DEF BInv, Live
  <2>2. ASSUME NEW d \in Conns, NEW i \in DOMAIN objs'[d], objs'[d][i].kind = "buffer"
        PROVE  objs'[d][i].obj \in DOMAIN buf' \cup {Freed}
    <3>1. objs[d][i].obj \in DOMAIN buf \cup {Freed}  BY <1>4, <2>2 DEF BInv, Live
    <3>. QED  BY <1>4, <1>5, <3>1 DEF Stale
  <2>. QED  BY <2>1, <2>2 DEF Live
<1>11. Exclusive'  BY <1>6, <1>7 DEF BInv, Exclusive, Held
<1>12. Own'
  <2>. SUFFICES ASSUME NEW d \in Conns, NEW i \in DOMAIN objs'[d], NEW t \in DOMAIN surf',
                       objs'[d][i].kind = "buffer", objs'[d][i].obj \in Held(t)',
                       objs'[d][i].obj # Freed
                PROVE  surf'[t].conn = d
    BY DEF Own
  <2>1. /\ i \in DOMAIN objs[d] /\ objs[d][i].kind = "buffer"
        /\ objs'[d][i].obj = objs[d][i].obj
    BY <1>4 DEF Stale
  <2>. QED  BY <1>6, <1>7, <1>9, <2>1, SMTT(30) DEF BInv, Own
<1>13. Isolated
  <2>. SUFFICES ASSUME NEW t \in DOMAIN surf, surf[t].conn # c
                PROVE  t \in DOMAIN surf' /\ surf'[t] = surf[t]
    BY <1>0 DEF Isolated
  <2>1. t # s /\ surf[t].parent # s
    BY <1>1, RequestsAssumption DEF BInv, Kin, TInv, Types
  <2>. QED  BY <1>6, <1>7, <2>1
<1>. QED  BY <1>8, <1>10, <1>11, <1>12, <1>13 DEF BInv

\* What the tables say after an attach: of b, or of what they did.
LEMMA GivenEntries ==
  ASSUME TInv, NEW c \in conns, NEW b, NEW D, NEW g, FreedFrom(g, objs, D), Given(c, b, g)
  PROVE  \A d \in Conns : \A i \in DOMAIN objs'[d] :
            \/ d = c /\ objs'[d][i].kind = "buffer" /\ objs'[d][i].obj = b
            \/ /\ i \in DOMAIN objs[d] /\ objs'[d][i].kind = objs[d][i].kind
               /\ objs'[d][i].obj = Stale(objs[d][i].obj, D)
<1>. DEFINE n == nextId[c]
            e == [kind |-> "buffer", obj |-> b]
<1>1. c \in Conns  BY DEF TInv, Types
<1>2. /\ g = [d \in Conns |-> g[d]] /\ \A d \in Conns : DOMAIN g[d] = DOMAIN objs[d]
      /\ \A d \in Conns : \A i \in DOMAIN objs[d] :
            g[d][i].kind = objs[d][i].kind /\ g[d][i].obj = Stale(objs[d][i].obj, D)
  BY DEF FreedFrom
<1>3. CASE objs' = g  BY <1>2, <1>3
<1>4. CASE objs' = [g EXCEPT ![c] = With(@, n, e)]
  <2>1. objs'[c] = With(g[c], n, e) /\ \A d \in Conns : d # c => objs'[d] = g[d]
    BY <1>1, <1>2, <1>4
  <2>2. \A i \in DOMAIN objs'[c] :
           \/ objs'[c][i] = e
           \/ i \in DOMAIN g[c] /\ objs'[c][i] = g[c][i]
    BY <2>1 DEF With
  <2>3. e.kind = "buffer" /\ e.obj = b  OBVIOUS
  <2>. HIDE DEF e, n
  <2>. QED  BY <1>1, <1>2, <2>1, <2>2, <2>3
<1>. QED  BY <1>3, <1>4 DEF Given

(* Attaching a buffer changes no object of another client. *)
LEMMA AttachIsolated ==
  ASSUME TInv, BInv, NEW c \in conns, NEW id, AttachBuffer(c, id), ~Refuse(c, "attach_buffer")
  PROVE  BInv' /\ Isolated
<1>1. PICK s, b, g, D : Attaches(c, s, b, g, D)  BY AttachStep
<1>2. /\ s \in DOMAIN surf /\ surf[s].conn = c /\ D = {surf[s].pend}
      /\ b \in Buffers /\ b \notin DOMAIN buf /\ surf' = Attached(s, b)
      /\ FreedFrom(g, objs, D) /\ Given(c, b, g)
      /\ DOMAIN buf' = (DOMAIN buf \ D) \cup {b}
  BY <1>1, SMTT(30) DEF Attaches
<1>3. /\ SameSurfaces /\ surf'[s].cur = b /\ surf'[s].pend = surf[s].cur
      /\ surf'[s].parent = surf[s].parent
      /\ \A t \in DOMAIN surf : t # s => surf'[t] = surf[t]
  BY <1>2, AttachedFacts
<1>4. b \notin {None, Freed}  BY <1>2, RequestsAssumption
<1>5. DOMAIN surf' = DOMAIN surf /\ surf'[s].conn = c  BY <1>2, <1>3 DEF SameSurfaces
<1>6. \A d \in Conns : \A i \in DOMAIN objs'[d] :
         \/ d = c /\ objs'[d][i].kind = "buffer" /\ objs'[d][i].obj = b
         \/ /\ i \in DOMAIN objs[d] /\ objs'[d][i].kind = objs[d][i].kind
            /\ objs'[d][i].obj = Stale(objs[d][i].obj, D)
  <2>1. FreedFrom(g, objs, D) /\ Given(c, b, g)  BY <1>2
  <2>. QED  BY <2>1, GivenEntries, SMTT(30)
<1>7. \A t \in DOMAIN surf : b \notin Held(t)  BY <1>2, <1>4 DEF BInv, Live
<1>8. Held(s)' = {b, surf[s].cur} /\ \A t \in DOMAIN surf : t # s => Held(t)' = Held(t)
  BY <1>3 DEF Held
<1>9. Kin'
  <2>1. \A t \in DOMAIN surf : surf'[t].parent = surf[t].parent /\ surf'[t].conn = surf[t].conn
    BY <1>2, <1>3, <1>5
  <2>. QED  BY <1>5, <2>1 DEF BInv, Kin
<1>10. Live'
  <2>1. ASSUME NEW t \in DOMAIN surf PROVE Held(t)' \subseteq DOMAIN buf' \cup {None, Freed}
    <3>1. CASE t = s
      <4>1. surf[s].cur \in DOMAIN buf \cup {None, Freed}  BY <1>2 DEF BInv, Live, Held
      <4>2. surf[s].cur \notin D \/ surf[s].cur \in {None, Freed}
        BY <1>2 DEF BInv, Exclusive
      <4>. QED  BY <1>2, <1>8, <3>1, <4>1, <4>2, SMTT(30)
    <3>2. CASE t # s
      <4>1. Held(t) \subseteq DOMAIN buf \cup {None, Freed}  BY SMTT(30) DEF BInv, Live
      <4>2. surf[s].pend \in Held(t) => surf[s].pend \in {None, Freed}
        BY <1>2, <3>2, ZenonT(30) DEF BInv, Exclusive, Held
      <4>. QED  BY <1>2, <1>8, <3>2, <4>1, <4>2
    <3>. QED  BY <3>1, <3>2
  <2>2. ASSUME NEW d \in Conns, NEW i \in DOMAIN objs'[d], objs'[d][i].kind = "buffer"
        PROVE  objs'[d][i].obj \in DOMAIN buf' \cup {Freed}
    <3>1. CASE objs'[d][i].obj = b  BY <1>2, <3>1, SMTT(30)
    <3>2. CASE /\ i \in DOMAIN objs[d] /\ objs'[d][i].kind = objs[d][i].kind
               /\ objs'[d][i].obj = Stale(objs[d][i].obj, D)
      <4>1. objs[d][i].obj \in DOMAIN buf \cup {Freed}  BY <2>2, <3>2 DEF BInv, Live
      <4>. QED  BY <1>2, <3>2, <4>1 DEF Stale
    <3>. QED  BY <1>6, <3>1, <3>2, SMTT(30)
  <2>. QED  BY <1>5, <2>1, <2>2 DEF Live
<1>11. Exclusive'
  <2>1. \A t \in DOMAIN surf' : surf'[t].cur = surf'[t].pend => surf'[t].cur \in {None, Freed}
    <3>1. surf'[s].cur # surf'[s].pend  BY <1>2, <1>3, <1>7 DEF Held
    <3>. QED  BY <1>3, <1>5, <3>1, SMTT(30) DEF BInv, Exclusive
  <2>2. ASSUME NEW t \in DOMAIN surf, NEW v \in DOMAIN surf, NEW x \in Held(t)' \cap Held(v)'
        PROVE  x \in {None, Freed} \/ t = v
    <3>1. CASE x = b  BY <1>7, <1>8, <2>2, <3>1
    <3>2. CASE x # b
      <4>1. x \in Held(t) /\ x \in Held(v)  BY <1>8, <2>2, <3>2 DEF Held
      <4>. QED  BY <4>1 DEF BInv, Exclusive
    <3>. QED  BY <3>1, <3>2
  <2>. QED  BY <1>5, <2>1, <2>2, SMTT(30) DEF Exclusive
<1>12. Own'
  <2>. SUFFICES ASSUME NEW d \in Conns, NEW i \in DOMAIN objs'[d], NEW t \in DOMAIN surf',
                       objs'[d][i].kind = "buffer", objs'[d][i].obj \in Held(t)',
                       objs'[d][i].obj # Freed
                PROVE  surf'[t].conn = d
    BY DEF Own
  <2>1. CASE d = c /\ objs'[d][i].obj = b  BY <1>5, <1>7, <1>8, <2>1, SMTT(30)
  <2>2. CASE /\ i \in DOMAIN objs[d] /\ objs'[d][i].kind = objs[d][i].kind
             /\ objs'[d][i].obj = Stale(objs[d][i].obj, D)
    <3>1. objs'[d][i].obj = objs[d][i].obj  BY <2>2, SMTT(30) DEF Stale
    <3>2. objs[d][i].obj # b  BY <1>2, <1>4, <2>2, SMTT(30) DEF BInv, Live
    <3>3. objs[d][i].obj \in Held(t)  BY <1>8, <1>5, <3>1, <3>2, SMTT(30) DEF Held
    <3>4. surf[t].conn = d  BY <1>5, <2>2, <3>1, <3>3, SMTT(30) DEF BInv, Own
    <3>. QED  BY <1>2, <1>3, <1>5, <3>4, SMTT(30)
  <2>. QED  BY <1>6, <2>1, <2>2
<1>13. Isolated
  <2>1. reply'[1] = c
    <3>1. \E rc : Says(c, "attach_buffer", rc)  BY Zenon DEF AttachBuffer
    <3>. QED  BY <3>1, SMTT(30) DEF Says
  <2>. QED  BY <1>2, <1>3, <1>5, <2>1 DEF Isolated
<1>. QED  BY <1>9, <1>10, <1>11, <1>12, <1>13 DEF BInv

\* What a buffer_destroy that finds b does.
Destroys(c, id, b) ==
    /\ b # None /\ b = Lookup(c, id, "buffer")
    /\ objs' = ObjsAfter(Unregister(c, id, objs), {b})
    /\ surf' = SurfAfter(surf, {b}) /\ buf' = UnrefBuf({b}) /\ reply'[1] = c
    /\ told' = [told EXCEPT ![c] = @ \ {id}] /\ conns' = conns /\ nextId' = nextId

(* Destroying a buffer changes no object of another client. *)
LEMMA BufferDestroyIsolated ==
  ASSUME TInv, BInv, NEW c \in conns, NEW id, NEW b, Destroys(c, id, b)
  PROVE  BInv' /\ Isolated
<1>0. c \in Conns  BY DEF TInv, Types
<1>1. /\ SameSurfaces
      /\ id \in DOMAIN objs[c] /\ objs[c][id].kind = "buffer" /\ objs[c][id].obj = b
      /\ \E u : FreedFrom(objs', u, {b}) /\ PartOf(u)
  BY BufferDestroyTables, ZenonT(30) DEF Destroys
<1>2. \A d \in Conns : \A i \in DOMAIN objs'[d] :
         /\ i \in DOMAIN objs[d] /\ objs'[d][i].kind = objs[d][i].kind
         /\ objs'[d][i].obj = Stale(objs[d][i].obj, {b})
  BY <1>1, Zenon DEF FreedFrom, PartOf
<1>3. /\ \A t \in DOMAIN surf : /\ surf'[t].parent = surf[t].parent
                                /\ surf'[t].cur = Stale(surf[t].cur, {b})
                                /\ surf'[t].pend = Stale(surf[t].pend, {b})
      /\ \A t \in DOMAIN surf :
            Stale(surf[t].cur, {b}) = surf[t].cur /\ Stale(surf[t].pend, {b}) = surf[t].pend
               => surf'[t] = surf[t]
  <2>1. PICK D : D = {b}  BY ZenonT(30)
  <2>2. surf' = SurfAfter(surf, D)  BY <2>1 DEF Destroys
  <2>3. /\ \A t \in DOMAIN surf : /\ surf'[t].parent = surf[t].parent
                                  /\ surf'[t].cur = Stale(surf[t].cur, D)
                                  /\ surf'[t].pend = Stale(surf[t].pend, D)
        /\ \A t \in DOMAIN surf :
              Stale(surf[t].cur, D) = surf[t].cur /\ Stale(surf[t].pend, D) = surf[t].pend
                 => surf'[t] = surf[t]
    BY <2>2, SurfAfterFacts
  <2>. QED  BY <2>1, <2>3, SMTT(30)
<1>4. DOMAIN buf' = DOMAIN buf \ {b}  BY DEF Destroys, UnrefBuf, Without, Restrict
<1>5. /\ DOMAIN surf' = DOMAIN surf
      /\ \A t \in DOMAIN surf : surf'[t].conn = surf[t].conn
  BY <1>1 DEF SameSurfaces
<1>6. Kin'
  <2>1. \A t \in DOMAIN surf : surf'[t].parent = surf[t].parent /\ surf'[t].conn = surf[t].conn
    BY <1>3, <1>5
  <2>. QED  BY <1>5, <2>1 DEF BInv, Kin
<1>7. Live'
  <2>1. ASSUME NEW t \in DOMAIN surf PROVE Held(t)' \subseteq DOMAIN buf' \cup {None, Freed}
    <3>1. {surf[t].cur, surf[t].pend} \subseteq DOMAIN buf \cup {None, Freed}
      BY DEF BInv, Live, Held
    <3>2. surf'[t].cur = Stale(surf[t].cur, {b}) /\ surf'[t].pend = Stale(surf[t].pend, {b})
      BY <1>3, SMTT(30)
    <3>. QED  BY <1>4, <3>1, <3>2 DEF Held, Stale
  <2>2. ASSUME NEW d \in Conns, NEW i \in DOMAIN objs'[d], objs'[d][i].kind = "buffer"
        PROVE  objs'[d][i].obj \in DOMAIN buf' \cup {Freed}
    <3>1. objs[d][i].obj \in DOMAIN buf \cup {Freed}  BY <1>2, <2>2 DEF BInv, Live
    <3>. QED  BY <1>2, <1>4, <3>1, SMTT(30) DEF Stale
  <2>. QED  BY <1>5, <2>1, <2>2 DEF Live
<1>8. Exclusive'
  <2>1. \A t \in DOMAIN surf : surf'[t].cur = surf'[t].pend => surf'[t].cur \in {None, Freed}
    BY <1>3 DEF BInv, Exclusive, Stale
  <2>2. ASSUME NEW t \in DOMAIN surf, NEW v \in DOMAIN surf, NEW x \in Held(t)' \cap Held(v)',
               x # Freed
        PROVE  x = None \/ t = v
    <3>1. x \in Held(t) /\ x \in Held(v)  BY <1>3, <2>2, SMTT(30) DEF Held, Stale
    <3>. QED  BY <2>2, <3>1, SMTT(30) DEF BInv, Exclusive
  <2>. QED  BY <1>5, <2>1, <2>2, SMTT(30) DEF Exclusive
<1>9. Own'
  <2>. SUFFICES ASSUME NEW d \in Conns, NEW i \in DOMAIN objs'[d], NEW t \in DOMAIN surf',
                       objs'[d][i].kind = "buffer", objs'[d][i].obj \in Held(t)',
                       objs'[d][i].obj # Freed
                PROVE  surf'[t].conn = d
    BY SMTT(30) DEF Own
  <2>1. /\ i \in DOMAIN objs[d] /\ objs[d][i].kind = "buffer"
        /\ objs'[d][i].obj = objs[d][i].obj
    BY <1>2, SMTT(30) DEF Stale
  <2>2. objs[d][i].obj \in Held(t)
    <3>1. surf'[t].cur = Stale(surf[t].cur, {b}) /\ surf'[t].pend = Stale(surf[t].pend, {b})
      BY <1>3, <1>5, ZenonT(30)
    <3>. QED  BY <2>1, <3>1 DEF Held, Stale
  <2>. QED  BY <1>5, <2>1, <2>2 DEF BInv, Own
<1>10. Isolated
  <2>. SUFFICES ASSUME NEW t \in DOMAIN surf, surf[t].conn # c
                PROVE  t \in DOMAIN surf' /\ surf'[t] = surf[t]
    BY DEF Isolated, Destroys
  <2>1. b \in Held(t) => b = Freed  BY <1>0, <1>1 DEF BInv, Own
  <2>2. Stale(surf[t].cur, {b}) = surf[t].cur /\ Stale(surf[t].pend, {b}) = surf[t].pend
    BY <2>1 DEF Stale, Held
  <2>. QED  BY <1>3, <1>5, <2>2, SMTT(30)
<1>. QED  BY <1>6, <1>7, <1>8, <1>9, <1>10 DEF BInv

(* A new connection changes no object. *)
LEMMA AcceptIsolated == ASSUME TInv, BInv, NEW c \in Conns, Accept(c) PROVE BInv' /\ Isolated
<1>1. DOMAIN << >> = {}  OBVIOUS
<1>2. DOMAIN objs'[c] = {} /\ \A d \in Conns : d # c => objs'[d] = objs[d]
  <2>1. objs' = [objs EXCEPT ![c] = << >>]  BY DEF Accept
  <2>2. objs = [d \in Conns |-> objs[d]]  BY DEF TInv, Types
  <2>3. objs'[c] = << >>  BY <2>1, <2>2
  <2>4. \A d \in Conns : d # c => objs'[d] = objs[d]  BY <2>1, <2>2
  <2>. QED  BY <1>1, <2>3, <2>4
<1>3. surf' = surf /\ buf' = buf  BY DEF Accept
<1>4. Kin'  BY <1>3 DEF BInv, Kin
<1>5. Live'  BY <1>2, <1>3 DEF BInv, Live, Held
<1>6. Exclusive'  BY <1>3 DEF BInv, Exclusive, Held
<1>7. Own'  BY <1>2, <1>3 DEF BInv, Own, Held
<1>8. Isolated  BY <1>3 DEF Isolated
<1>. QED  BY <1>4, <1>5, <1>6, <1>7, <1>8 DEF BInv

(* A connection that ends changes no object of another client. *)
LEMMA DisconnectIsolated ==
  ASSUME TInv, BInv, NEW c \in Conns, Disconnect(c) PROVE BInv' /\ Isolated
<1>1. DOMAIN << >> = {}  OBVIOUS
<1>2. DOMAIN objs'[c] = {} /\ \A d \in Conns : d # c => objs'[d] = objs[d]
  <2>1. objs' = [objs EXCEPT ![c] = << >>]  BY DEF Disconnect
  <2>2. objs = [d \in Conns |-> objs[d]]  BY DEF TInv, Types
  <2>3. objs'[c] = << >>  BY <2>1, <2>2
  <2>4. \A d \in Conns : d # c => objs'[d] = objs[d]  BY <2>1, <2>2
  <2>. QED  BY <1>1, <2>3, <2>4
<1>3. buf' = buf /\ DOMAIN surf' = DOMAIN surf  BY DEF Disconnect
<1>4. ASSUME NEW t \in DOMAIN surf
      PROVE  /\ surf'[t].conn = Stale(surf[t].conn, {c})
             /\ surf'[t].parent = surf[t].parent
             /\ surf'[t].cur = surf[t].cur /\ surf'[t].pend = surf[t].pend
             /\ surf[t].conn # c => surf'[t] = surf[t]
  <2>1. surf[t] \in Record  BY DEF TInv, Types
  <2>2. surf'[t] = [surf[t] EXCEPT !.conn = Stale(surf[t].conn, {c})]  BY DEF Disconnect
  <2>3. surf[t].conn # c => Stale(surf[t].conn, {c}) = surf[t].conn  BY DEF Stale
  <2>. QED  BY <2>1, <2>2, <2>3 DEF Record
<1>5. Kin'  BY <1>3, <1>4, SMTT(30) DEF BInv, Kin
<1>6. Live'  BY <1>2, <1>3, <1>4, SMTT(30) DEF BInv, Live, Held
<1>7. Exclusive'  BY <1>3, <1>4 DEF BInv, Exclusive, Held
<1>8. Own'
  <2>. SUFFICES ASSUME NEW d \in Conns, NEW i \in DOMAIN objs'[d], NEW t \in DOMAIN surf',
                       objs'[d][i].kind = "buffer", objs'[d][i].obj \in Held(t)',
                       objs'[d][i].obj # Freed
                PROVE  surf'[t].conn = d
    BY DEF Own
  <2>1. d # c /\ objs'[d] = objs[d]  BY <1>2, SMTT(30)
  <2>2. objs[d][i].obj \in Held(t)  BY <1>3, <1>4, <2>1, SMTT(30) DEF Held
  <2>3. surf[t].conn = d  BY <1>3, <2>1, <2>2 DEF BInv, Own
  <2>. QED  BY <1>3, <1>4, <2>1, <2>3
<1>9. Isolated
  <2>1. reply'[1] = c  BY DEF Disconnect
  <2>. QED  BY <1>3, <1>4, <2>1 DEF Isolated
<1>. QED  BY <1>5, <1>6, <1>7, <1>8, <1>9 DEF BInv

(* The application's binding is no client's step. *)
LEMMA BindIsolated == ASSUME TInv, BInv, NEW s \in Surfaces, Bind(s) PROVE BInv' /\ Isolated
<1>1. objs' = objs /\ buf' = buf /\ s \in DOMAIN surf /\ reply'[1] = None  BY DEF Bind
<1>2. DOMAIN surf' = DOMAIN surf /\ \A t \in DOMAIN surf : t # s => surf'[t] = surf[t]
  BY DEF Bind, TInv, Types
<1>3. /\ surf'[s].conn = surf[s].conn /\ surf'[s].parent = surf[s].parent
      /\ surf'[s].cur = surf[s].cur /\ surf'[s].pend = surf[s].pend
  <2>1. surf[s] \in Record  BY <1>1 DEF TInv, Types
  <2>2. surf'[s] = [surf[s] EXCEPT !.bound = ~surf[s].bound]  BY <1>1 DEF Bind, TInv, Types
  <2>. QED  BY <2>1, <2>2 DEF Record
<1>4. \A t \in DOMAIN surf : /\ surf'[t].conn = surf[t].conn /\ surf'[t].parent = surf[t].parent
                            /\ surf'[t].cur = surf[t].cur /\ surf'[t].pend = surf[t].pend
  BY <1>2, <1>3
<1>5. Kin'  BY <1>2, <1>4 DEF BInv, Kin
<1>6. Live'  BY <1>1, <1>2, <1>4 DEF BInv, Live, Held
<1>7. Exclusive'  BY <1>2, <1>4, SMTT(30) DEF BInv, Exclusive, Held
<1>8. Own'  BY <1>1, <1>2, <1>4 DEF BInv, Own, Held
<1>9. Isolated  BY <1>1, RequestsAssumption DEF Isolated, TInv, Types
<1>. QED  BY <1>5, <1>6, <1>7, <1>8, <1>9 DEF BInv

OwnParent(c, parent) ==
    c \in conns => parent = None \/ (parent \in DOMAIN surf /\ surf[parent].conn = c)

(* Every step isolates the clients and keeps BInv. *)
LEMMA NextIsolated == ASSUME TInv, BInv, [Next]_vars PROVE BInv' /\ Isolated
<1>1. ASSUME NEW c \in Conns, Accept(c) \/ Disconnect(c) PROVE BInv' /\ Isolated
  BY <1>1, AcceptIsolated, DisconnectIsolated
<1>2. ASSUME NEW c \in Conns, NEW op, NEW kind, NEW parent, Give(c, op, kind, parent),
             OwnParent(c, parent)
      PROVE  BInv' /\ Isolated
  <2>1. CASE Refuse(c, op)  BY <2>1, SameIsolated, SMTT(30) DEF Refuse
  <2>2. ASSUME NEW s \in Surfaces \ DOMAIN surf, Says(c, op, "ok"), Register(c, "surface", s),
               surf' = With(surf, s, NewSurface(c, nextId[c], kind, parent)), buf' = buf
        PROVE  BInv' /\ Isolated
    <3>1. c \in conns  BY <2>2 DEF Says
    <3>. QED  BY <1>2, <2>2, <3>1, CreateIsolated DEF OwnParent
  <2>. QED  BY <1>2, <2>1, <2>2 DEF Give
<1>3. ASSUME NEW c \in Conns, SurfaceCreate(c) \/ CreateLayer(c) PROVE BInv' /\ Isolated
  <2>0. OwnParent(c, None)  BY DEF OwnParent
  <2>1. CASE SurfaceCreate(c)  BY <1>2, <2>0, <2>1 DEF SurfaceCreate
  <2>2. CASE CreateLayer(c)  BY <1>2, <2>0, <2>2 DEF CreateLayer
  <2>. QED  BY <1>3, <2>1, <2>2
<1>4. ASSUME NEW c \in Conns, NEW id, NEW op, NEW kind, CreateChild(c, id, op, kind)
      PROVE  BInv' /\ Isolated
  <2>1. CASE Refuse(c, op)  BY <2>1, SameIsolated DEF Refuse
  <2>2. ASSUME Lookup(c, id, "surface") # None, Give(c, op, kind, Lookup(c, id, "surface"))
        PROVE  BInv' /\ Isolated
    <3>1. PICK s : s = Lookup(c, id, "surface")  OBVIOUS
    <3>2. OwnParent(c, s)  BY <2>2, <3>1, SurfaceLookup, ZenonT(30) DEF OwnParent
    <3>. QED  BY <1>2, <2>2, <3>1, <3>2
  <2>. QED  BY <1>4, <2>1, <2>2 DEF CreateChild
<1>5. ASSUME NEW c \in Conns, NEW id, SurfaceDestroy(c, id) PROVE BInv' /\ Isolated
  <2>1. c \in conns  BY <1>5 DEF SurfaceDestroy, Refuse, Says
  <2>2. CASE Lookup(c, id, "surface") = None
    BY <1>5, <2>2, SameIsolated DEF SurfaceDestroy, Refuse
  <2>. QED  BY <1>5, <2>1, <2>2, SurfaceDestroyIsolated
<1>6. ASSUME NEW c \in Conns, NEW id, AttachBuffer(c, id) PROVE BInv' /\ Isolated
  <2>1. c \in conns  BY <1>6, ZenonT(30) DEF AttachBuffer, Refuse, Says
  <2>2. CASE Refuse(c, "attach_buffer")  BY <2>2, SameIsolated DEF Refuse
  <2>. QED  BY <1>6, <2>1, <2>2, AttachIsolated
<1>7. ASSUME NEW c \in Conns, NEW id, BufferDestroy(c, id) PROVE BInv' /\ Isolated
  <2>1. c \in conns  BY <1>7 DEF BufferDestroy, Refuse, Says
  <2>2. PICK b : b = Lookup(c, id, "buffer")  OBVIOUS
  <2>3. CASE UNCHANGED <<surf, objs, buf>>  BY <2>3, SameIsolated
  <2>4. ASSUME b # None, objs' = ObjsAfter(Unregister(c, id, objs), {b}),
               surf' = SurfAfter(surf, {b}), buf' = UnrefBuf({b}),
               Says(c, "buffer_destroy", "ok"),
               told' = [told EXCEPT ![c] = @ \ {id}], conns' = conns, nextId' = nextId
        PROVE  BInv' /\ Isolated
    <3>1. reply'[1] = c  BY <2>4 DEF Says
    <3>2. Destroys(c, id, b)  BY <2>2, <2>4, <3>1 DEF Destroys
    <3>. QED  BY <2>1, <3>2, BufferDestroyIsolated
  <2>. QED  BY <1>7, <2>2, <2>3, <2>4 DEF BufferDestroy, Refuse
<1>8. ASSUME NEW c \in Conns, NEW id, SetSurface(c, id) \/ Commit(c) \/ SetOutput(c)
      PROVE  BInv' /\ Isolated
  BY <1>8, SameIsolated DEF SetSurface, Commit, SetOutput, Refuse
<1>9. CASE \E s \in Surfaces : Bind(s)  BY <1>9, BindIsolated
<1>10. CASE UNCHANGED vars  BY <1>10, SameIsolated DEF vars
<1>. QED
  BY <1>1, <1>3, <1>4, <1>5, <1>6, <1>7, <1>8, <1>9, <1>10
  DEF Next, CreateSubsurface, CreatePopup

(***************************************************************************)
(* No request of a client changes or destroys a surface of another client  *)
(* (isz_conn_lookup_object), even through the buffers and the lists of     *)
(* children that surfaces share.                                           *)
(***************************************************************************)
THEOREM ClientsIsolated == Spec => Isolation
<1>1. Init => BInv
  <2>. SUFFICES ASSUME Init PROVE BInv
    OBVIOUS
  <2>1. DOMAIN << >> = {}  OBVIOUS
  <2>2. DOMAIN surf = {} /\ \A c \in Conns : DOMAIN objs[c] = {}  BY <2>1 DEF Init
  <2>. QED  BY <2>2 DEF BInv, Kin, Live, Exclusive, Own
<1>2. TInv /\ [Next]_vars => TInv'  BY NextTables
<1>3. TInv /\ BInv /\ [Next]_vars => BInv'  BY NextIsolated
<1>4. TInv /\ BInv /\ [Next]_vars => [Isolated]_vars  BY NextIsolated
<1>. QED  BY InitTables, <1>1, <1>2, <1>3, <1>4, PTL DEF Spec, Isolation, Isolated
=============================================================================
