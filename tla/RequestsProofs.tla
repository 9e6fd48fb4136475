---------------------------- MODULE RequestsProofs ---------------------------
(***************************************************************************)
(* Theorems about Requests, for any number of clients, surfaces, buffers   *)
(* and descriptors and any limit on the ids.                               *)
(*                                                                         *)
(* FdsOwned is inductive as it stands.  TableExact needs ids that are      *)
(* fresh (Fresh).                                                          *)
(***************************************************************************)
EXTENDS Requests, TLAPS

Pointer == Buffers \cup {None, Freed}
Record == [conn : Conns \cup {Freed}, id : Nat, kind : {"normal", "sub", "popup", "layer"},
           parent : Surfaces \cup {None, Freed}, bound : BOOLEAN,
           cur : Pointer, pend : Pointer]
Entry == [kind : {"surface", "buffer"}, obj : Surfaces \cup Buffers \cup {Freed}]

Types ==
    /\ conns \subseteq Conns
    /\ objs = [c \in Conns |-> objs[c]]
    /\ \A c \in Conns : \A id \in DOMAIN objs[c] : objs[c][id] \in Entry
    /\ nextId \in [Conns -> Nat] /\ told = [c \in Conns |-> told[c]]
    /\ surf = [s \in DOMAIN surf |-> surf[s]] /\ DOMAIN surf \subseteq Surfaces
    /\ \A s \in DOMAIN surf : surf[s] \in Record
    /\ buf = [b \in DOMAIN buf |-> buf[b]] /\ DOMAIN buf \subseteq Buffers

Fresh == \A c \in Conns : \A id \in DOMAIN objs[c] : id \in Nat /\ id < nextId[c]

Gone == \A c \in Conns \ conns : DOMAIN objs[c] = {} /\ told[c] = {}

Owners == \A s \in DOMAIN surf : surf[s].conn \in conns \cup {Freed}

Kinds == \A c \in Conns : \A id \in DOMAIN objs[c] :
    objs[c][id].kind = "buffer" => objs[c][id].obj \in Buffers \cup {Freed}

TInv == Types /\ Kinds /\ Fresh /\ Gone /\ Owners /\ TableExact

-----------------------------------------------------------------------------
(* Helpers                                                                 *)

(* What taking keys from a function leaves. *)
LEMMA WithoutFacts == ASSUME NEW f, NEW K
                      PROVE  /\ Without(f, K) = [j \in DOMAIN f \ K |-> Without(f, K)[j]]
                             /\ DOMAIN Without(f, K) = DOMAIN f \ K
                             /\ \A j \in DOMAIN f \ K : Without(f, K)[j] = f[j]
  BY DEF Without, Restrict

\* What an id of the client's own stands for.
LEMMA SurfaceLookup ==
  ASSUME TInv, NEW c \in conns, NEW id, Lookup(c, id, "surface") # None
  PROVE  LET s == Lookup(c, id, "surface") IN
         /\ id \in DOMAIN objs[c] /\ objs[c][id] = [kind |-> "surface", obj |-> s]
         /\ s \in DOMAIN surf /\ surf[s].conn = c /\ surf[s].id = id
<1>1. /\ id \in DOMAIN objs[c] /\ objs[c][id].kind = "surface"
      /\ objs[c][id].obj = Lookup(c, id, "surface")
  BY DEF Lookup
<1>2. c \in Conns /\ objs[c][id] \in Entry  BY <1>1 DEF TInv, Types
<1>. QED  BY <1>1, <1>2 DEF TInv, TableExact, Entry

(* A step that leaves tables, surfaces and buffers alone keeps TInv. *)
LEMMA SameTables ==
  ASSUME TInv, UNCHANGED <<conns, objs, nextId, surf, buf, told>>
  PROVE  TInv'
<1>1. Types'  BY DEF TInv, Types
<1>2. Fresh' /\ Gone' /\ Owners'  BY SMTT(30) DEF TInv, Fresh, Gone, Owners
<1>3. TableExact'  BY DEF TInv, TableExact
<1>4. Kinds'  BY DEF TInv, Kinds
<1>. QED  BY <1>1, <1>2, <1>3, <1>4 DEF TInv

-----------------------------------------------------------------------------
(* Descriptors                                                             *)

\* Dropping the buffers D and closing their descriptors.
LEMMA UnrefFds ==
  ASSUME FdsOwned, NEW D
  PROVE  /\ \A b \in DOMAIN UnrefBuf(D) : b \in DOMAIN buf /\ b \notin D /\ UnrefBuf(D)[b] = buf[b]
         /\ DOMAIN UnrefBuf(D) = DOMAIN buf \ D
         /\ open \ Closed(D) = {UnrefBuf(D)[b] : b \in DOMAIN UnrefBuf(D)}
<1>1. /\ DOMAIN UnrefBuf(D) = DOMAIN buf \ D
      /\ \A b \in DOMAIN buf \ D : UnrefBuf(D)[b] = buf[b]
  BY WithoutFacts, Zenon DEF UnrefBuf
<1>2. Closed(D) = {buf[b] : b \in D \cap DOMAIN buf}  BY DEF Closed
<1>. QED  BY <1>1, <1>2 DEF FdsOwned

(* Every step keeps each descriptor with one owner. *)
LEMMA NextFdsOwned == ASSUME FdsOwned, [Next]_vars PROVE FdsOwned'
<1>1. CASE UNCHANGED <<buf, open>>  BY <1>1 DEF FdsOwned
<1>2. ASSUME NEW D, buf' = UnrefBuf(D), open' = open \ Closed(D) PROVE FdsOwned'
  <2>1. open \ Closed(D) = {UnrefBuf(D)[b] : b \in DOMAIN UnrefBuf(D)}  BY UnrefFds, Zenon
  <2>2. \A b \in DOMAIN UnrefBuf(D) : b \in DOMAIN buf /\ UnrefBuf(D)[b] = buf[b]
    BY UnrefFds, Zenon
  <2>3. open' = {buf'[b] : b \in DOMAIN buf'}  BY <1>2, <2>1, Zenon
  <2>4. \A b \in DOMAIN buf' : b \in DOMAIN buf /\ buf'[b] = buf[b]  BY <1>2, <2>2, Zenon
  <2>. QED  BY <2>3, <2>4 DEF FdsOwned
<1>3. ASSUME NEW D, NEW b \in Buffers \ DOMAIN buf, NEW f \in Fds \ open,
             buf' = With(UnrefBuf(D), b, f), open' = (open \ Closed(D)) \cup Consumed(f)
      PROVE  FdsOwned'
  <2>1. /\ DOMAIN UnrefBuf(D) = DOMAIN buf \ D
        /\ \A a \in DOMAIN UnrefBuf(D) : UnrefBuf(D)[a] = buf[a]
        /\ open \ Closed(D) = {UnrefBuf(D)[a] : a \in DOMAIN UnrefBuf(D)}
    BY UnrefFds, Zenon
  <2>. DEFINE u == UnrefBuf(D)
  <2>. HIDE DEF u
  <2>5. /\ DOMAIN With(u, b, f) = DOMAIN u \cup {b} /\ With(u, b, f)[b] = f
        /\ \A a \in DOMAIN u : a # b => With(u, b, f)[a] = u[a]
    BY DEF With
  <2>6. buf' = With(u, b, f)  BY <1>3 DEF u
  <2>2. /\ DOMAIN buf' = (DOMAIN buf \ D) \cup {b} /\ buf'[b] = f
        /\ \A a \in DOMAIN buf \ D : buf'[a] = buf[a]
    <3>1. DOMAIN u = DOMAIN buf \ D  BY <2>1 DEF u
    <3>2. \A a \in DOMAIN u : u[a] = buf[a] /\ a # b  BY <2>1, <3>1 DEF u
    <3>3. DOMAIN buf' = DOMAIN u \cup {b} /\ buf'[b] = f  BY <2>5, <2>6, Zenon
    <3>4. \A a \in DOMAIN u : buf'[a] = u[a]  BY <2>5, <2>6, <3>2, Zenon
    <3>. QED  BY <3>1, <3>2, <3>3, <3>4
  <2>3. open' = {buf[a] : a \in DOMAIN buf \ D} \cup {f}  BY <1>3, <2>1 DEF Consumed
  <2>4. \A a \in DOMAIN buf : buf[a] # f  BY DEF FdsOwned
  <2>. QED  BY <2>2, <2>3, <2>4 DEF FdsOwned
<1>4. ASSUME NEW c \in Conns, NEW id, SurfaceDestroy(c, id) \/ BufferDestroy(c, id)
      PROVE  FdsOwned'
  BY <1>1, <1>2, <1>4 DEF SurfaceDestroy, BufferDestroy, Refuse
<1>5. ASSUME NEW c \in Conns, NEW id, AttachBuffer(c, id) PROVE FdsOwned'
  BY <1>1, <1>3, <1>5, Zenon DEF AttachBuffer, Refuse
<1>6. ASSUME NEW c \in Conns,
             \/ Accept(c) \/ Disconnect(c) \/ SurfaceCreate(c) \/ CreateLayer(c)
             \/ Commit(c) \/ SetOutput(c)
             \/ \E id \in 1 .. MaxId[c] : \/ CreateSubsurface(c, id) \/ CreatePopup(c, id)
                                          \/ SetSurface(c, id)
      PROVE  FdsOwned'
  <2>1. UNCHANGED <<buf, open>>
    BY <1>6 DEF Accept, Disconnect, SurfaceCreate, CreateLayer, Commit, SetOutput,
                CreateSubsurface, CreatePopup, CreateChild, Give, SetSurface, Refuse
  <2>. QED  BY <2>1, <1>1
<1>7. CASE \E s \in Surfaces : Bind(s)  BY <1>1, <1>7 DEF Bind
<1>8. CASE UNCHANGED vars  BY <1>1, <1>8 DEF vars
<1>. QED  BY <1>4, <1>5, <1>6, <1>7, <1>8 DEF Next

(***************************************************************************)
(* Every descriptor a client attached is open and held by one live buffer, *)
(* or closed (isz_consume_fd, isz_buffer_import, isz_buffer_unref).        *)
(***************************************************************************)
THEOREM FdsAlwaysOwned == Spec => []FdsOwned
<1>1. Init => FdsOwned  BY DEF Init, FdsOwned
<1>2. FdsOwned /\ [Next]_vars => FdsOwned'  BY NextFdsOwned
<1>. QED  BY <1>1, <1>2, PTL DEF Spec

-----------------------------------------------------------------------------
(* Tables                                                                  *)

(* A new surface is registered under a new id. *)
LEMMA CreateTables ==
  ASSUME TInv, NEW c \in conns, NEW s \in Surfaces \ DOMAIN surf,
         NEW kind \in {"normal", "sub", "popup", "layer"}, NEW parent \in Surfaces \cup {None},
         Register(c, "surface", s),
         surf' = With(surf, s, NewSurface(c, nextId[c], kind, parent)),
         UNCHANGED <<conns, buf>>
  PROVE  TInv'
<1>. DEFINE n == nextId[c]
            e == [kind |-> "surface", obj |-> s]
            r == NewSurface(c, n, kind, parent)
<1>1. c \in Conns /\ n \in Nat /\ n \notin DOMAIN objs[c] /\ objs = [d \in Conns |-> objs[d]]
  BY DEF TInv, Types, Fresh
<1>2. /\ objs' = [d \in Conns |-> objs'[d]] /\ \A d \in Conns : d # c => objs'[d] = objs[d]
      /\ DOMAIN objs'[c] = DOMAIN objs[c] \cup {n} /\ objs'[c][n] = e
      /\ \A id \in DOMAIN objs[c] : objs'[c][id] = objs[c][id]
  <2>1. objs' = [objs EXCEPT ![c] = With(@, n, e)]  BY DEF Register
  <2>2. objs'[c] = With(objs[c], n, e)  BY <1>1, <2>1
  <2>. QED  BY <1>1, <2>1, <2>2 DEF With
<1>3. /\ nextId' \in [Conns -> Nat] /\ nextId'[c] = n + 1
      /\ \A d \in Conns : d # c => nextId'[d] = nextId[d]
  BY <1>1 DEF Register, TInv, Types
<1>4. /\ told' = [d \in Conns |-> told'[d]] /\ told'[c] = told[c] \cup {n}
      /\ \A d \in Conns : d # c => told'[d] = told[d]
  BY <1>1, ZenonT(30) DEF Register, TInv, Types
<1>5. /\ r \in Record /\ r.conn = c /\ r.id = n
  BY <1>1 DEF NewSurface, Record, Pointer
<1>. HIDE DEF n, e, r
<1>6. /\ surf' = [t \in DOMAIN surf' |-> surf'[t]] /\ DOMAIN surf' = DOMAIN surf \cup {s}
      /\ surf'[s] = r /\ \A t \in DOMAIN surf : surf'[t] = surf[t]
  BY DEF With, r, n
<1>7. e \in Entry /\ e.kind = "surface" /\ e.obj = s  BY DEF e, Entry
<1>8. Types'  BY <1>1, <1>2, <1>3, <1>4, <1>5, <1>6, <1>7 DEF TInv, Types
<1>9. Fresh'  BY <1>1, <1>2, <1>3 DEF TInv, Fresh, Types, n
<1>10. Gone' /\ Owners'  BY <1>1, <1>2, <1>4, <1>5, <1>6, SMTT(30) DEF TInv, Gone, Owners
<1>11. TableExact'
  <2>. SUFFICES ASSUME NEW d \in conns
                PROVE  /\ \A id \in DOMAIN objs'[d] : objs'[d][id].kind = "surface" =>
                             /\ objs'[d][id].obj \in DOMAIN surf'
                             /\ surf'[objs'[d][id].obj].conn = d
                             /\ surf'[objs'[d][id].obj].id = id
                       /\ \A t \in DOMAIN surf' : surf'[t].conn = d =>
                             /\ surf'[t].id \in DOMAIN objs'[d]
                             /\ objs'[d][surf'[t].id] = [kind |-> "surface", obj |-> t]
                       /\ DOMAIN objs'[d] = told'[d]
    BY DEF TableExact
  <2>0. d \in Conns  BY SMTT(30) DEF TInv, Types
  <2>1. CASE d # c
    BY <2>0, <2>1, <1>2, <1>4, <1>5, <1>6, SMTT(30) DEF TInv, TableExact
  <2>2. CASE d = c
    <3>1. \A id \in DOMAIN objs'[c] : objs'[c][id].kind = "surface" =>
             /\ objs'[c][id].obj \in DOMAIN surf'
             /\ surf'[objs'[c][id].obj].conn = c /\ surf'[objs'[c][id].obj].id = id
      BY <1>2, <1>5, <1>6, <1>7, SMTT(30) DEF TInv, TableExact
    <3>2. \A t \in DOMAIN surf' : surf'[t].conn = c =>
             /\ surf'[t].id \in DOMAIN objs'[c]
             /\ objs'[c][surf'[t].id] = [kind |-> "surface", obj |-> t]
      BY <1>2, <1>5, <1>6, <1>7 DEF TInv, TableExact, e
    <3>. QED  BY <2>2, <3>1, <3>2, <1>2, <1>4, SMTT(30) DEF TInv, TableExact
  <2>. QED  BY <2>1, <2>2, SMTT(30)
<1>12. Kinds'  BY <1>2, <1>7 DEF TInv, Kinds
<1>. QED  BY <1>8, <1>9, <1>10, <1>11, <1>12 DEF TInv

\* The entries of u are entries of objs.
PartOf(u) == \A d \in Conns : /\ DOMAIN u[d] \subseteq DOMAIN objs[d]
                             /\ \A i \in DOMAIN u[d] : u[d][i] = objs[d][i]

\* The tables u, part of objs, after the memory of D is freed.
FreedFrom(g, u, D) ==
    /\ g = [d \in Conns |-> g[d]] /\ \A d \in Conns : DOMAIN g[d] = DOMAIN u[d]
    /\ \A d \in Conns : \A i \in DOMAIN g[d] :
          /\ g[d][i] \in Entry /\ g[d][i].kind = objs[d][i].kind
          /\ g[d][i].obj = Stale(objs[d][i].obj, D)
          /\ objs[d][i].obj \in Surfaces => g[d][i] = objs[d][i]

(* What unregistering one id leaves of a table. *)
LEMMA UnregisterFacts ==
  ASSUME TInv, NEW c \in conns, NEW id, NEW u, u = Unregister(c, id, objs)
  PROVE  /\ DOMAIN u[c] = DOMAIN objs[c] \ {id}
         /\ \A d \in Conns : d # c => u[d] = objs[d]
         /\ PartOf(u)
<1>0. c \in Conns /\ objs = [d \in Conns |-> objs[d]]  BY DEF TInv, Types
<1>1. u[c] = Without(objs[c], {id})  BY <1>0 DEF Unregister
<1>2. \A d \in Conns : d # c => u[d] = objs[d]  BY <1>0 DEF Unregister
<1>. QED  BY <1>1, <1>2 DEF Without, Restrict, PartOf

(* Entries of other objects survive when some are freed. *)
LEMMA FreedEntries ==
  ASSUME TInv, NEW D, D \cap Surfaces = {}, NEW u, PartOf(u), NEW g, g = ObjsAfter(u, D)
  PROVE  FreedFrom(g, u, D)
<1>1. g = [d \in Conns |-> g[d]] /\ \A d \in Conns : DOMAIN g[d] = DOMAIN u[d]
  BY DEF ObjsAfter
<1>2. ASSUME NEW d \in Conns, NEW i \in DOMAIN u[d]
      PROVE  /\ g[d][i] \in Entry /\ g[d][i].kind = objs[d][i].kind
             /\ g[d][i].obj = Stale(objs[d][i].obj, D)
             /\ objs[d][i].obj \in Surfaces => g[d][i] = objs[d][i]
  <2>1. i \in DOMAIN objs[d] /\ u[d][i] = objs[d][i]  BY DEF PartOf
  <2>2. u[d][i] \in Entry  BY <2>1 DEF TInv, Types
  <2>3. g[d][i] = [u[d][i] EXCEPT !.obj = Stale(u[d][i].obj, D)]  BY DEF ObjsAfter
  <2>4. Stale(u[d][i].obj, D) \in Surfaces \cup Buffers \cup {Freed}
    BY <2>2 DEF Stale, Entry
  <2>5. u[d][i].obj \in Surfaces => Stale(u[d][i].obj, D) = u[d][i].obj
    BY DEF Stale
  <2>6. /\ g[d][i] \in Entry /\ g[d][i].kind = u[d][i].kind
        /\ g[d][i].obj = Stale(u[d][i].obj, D)
    BY <2>2, <2>3, <2>4 DEF Entry
  <2>7. u[d][i].obj \in Surfaces => g[d][i] = u[d][i]
    BY <2>2, <2>5, <2>6 DEF Entry
  <2>. QED  BY <2>1, <2>6, <2>7
<1>. QED  BY <1>1, <1>2 DEF FreedFrom

(* A destroyed surface leaves its table and its buffers. *)
LEMMA SurfaceDestroyTables ==
  ASSUME TInv, NEW c \in conns, NEW id, Lookup(c, id, "surface") # None, SurfaceDestroy(c, id)
  PROVE  TInv'
<1>s. PICK s : s = Lookup(c, id, "surface")  OBVIOUS
<1>D. PICK D : D = Held(s)  OBVIOUS
<1>1. /\ id \in DOMAIN objs[c] /\ objs[c][id] = [kind |-> "surface", obj |-> s]
      /\ s \in DOMAIN surf /\ surf[s].conn = c /\ surf[s].id = id
  BY <1>s, SurfaceLookup
<1>2. /\ objs' = ObjsAfter(Unregister(c, id, objs), D)
      /\ surf' = [t \in DOMAIN surf \ {s} |-> [surf[t] EXCEPT !.parent = Stale(@, {s})]]
      /\ buf' = UnrefBuf(D) /\ told' = [told EXCEPT ![c] = @ \ {id}]
  BY <1>s, <1>D, Zenon DEF SurfaceDestroy, Refuse
<1>0. conns' = conns /\ nextId' = nextId  BY DEF SurfaceDestroy, Refuse
<1>3. D \cap Surfaces = {}
  BY <1>1, <1>D, RequestsAssumption DEF Held, TInv, Types, Record, Pointer
<1>4. /\ objs' = [d \in Conns |-> objs'[d]]
      /\ DOMAIN objs'[c] = DOMAIN objs[c] \ {id}
      /\ \A d \in Conns : d # c => DOMAIN objs'[d] = DOMAIN objs[d]
      /\ \A d \in Conns : \A i \in DOMAIN objs'[d] :
            /\ objs'[d][i] \in Entry /\ objs'[d][i].kind = objs[d][i].kind
            /\ objs'[d][i].obj = Stale(objs[d][i].obj, D)
            /\ objs[d][i].obj \in Surfaces => objs'[d][i] = objs[d][i]
  <2>1. PICK u : u = Unregister(c, id, objs)  OBVIOUS
  <2>2. c \in Conns  BY DEF TInv, Types
  <2>3. PICK g : g = ObjsAfter(u, D)  OBVIOUS
  <2>4. /\ DOMAIN u[c] = DOMAIN objs[c] \ {id} /\ PartOf(u)
        /\ \A d \in Conns : d # c => u[d] = objs[d]
    BY <2>1, UnregisterFacts
  <2>5. FreedFrom(g, u, D)  BY <1>3, <2>3, <2>4, FreedEntries
  <2>6. objs' = g  BY <1>2, <2>1, <2>3
  <2>. QED  BY <2>2, <2>4, <2>5, <2>6 DEF FreedFrom
<1>5. /\ DOMAIN surf' = DOMAIN surf \ {s} /\ surf' = [t \in DOMAIN surf' |-> surf'[t]]
      /\ \A t \in DOMAIN surf' : /\ surf'[t] \in Record /\ surf'[t].conn = surf[t].conn
                                 /\ surf'[t].id = surf[t].id
  <2>1. DOMAIN surf' = DOMAIN surf \ {s} /\ surf' = [t \in DOMAIN surf' |-> surf'[t]]
    BY <1>2
  <2>2. ASSUME NEW t \in DOMAIN surf'
        PROVE  /\ surf'[t] \in Record /\ surf'[t].conn = surf[t].conn
               /\ surf'[t].id = surf[t].id
    <3>1. surf[t] \in Record  BY <2>1 DEF TInv, Types
    <3>2. surf'[t] = [surf[t] EXCEPT !.parent = Stale(surf[t].parent, {s})]  BY <1>2, <2>1
    <3>3. Stale(surf[t].parent, {s}) \in Surfaces \cup {None, Freed}
      BY <3>1 DEF Stale, Record
    <3>. QED  BY <3>1, <3>2, <3>3 DEF Record
  <2>. QED  BY <2>1, <2>2
<1>6. buf' = [b \in DOMAIN buf' |-> buf'[b]] /\ DOMAIN buf' \subseteq DOMAIN buf
  BY <1>2 DEF UnrefBuf, Without, Restrict
<1>7. c \in Conns  BY DEF TInv, Types
<1>8. /\ told' = [d \in Conns |-> told'[d]] /\ told'[c] = told[c] \ {id}
      /\ \A d \in Conns : d # c => told'[d] = told[d]
  BY <1>2, <1>7, ZenonT(30) DEF TInv, Types
<1>9. Types'  BY <1>0, <1>4, <1>5, <1>6, <1>8 DEF TInv, Types
<1>10. Fresh' /\ Gone' /\ Owners'
  <2>1. Fresh'  BY <1>0, <1>4 DEF TInv, Fresh
  <2>2. Gone'  BY <1>0, <1>4, <1>8 DEF TInv, Gone
  <2>3. Owners'  BY <1>0, <1>5 DEF TInv, Owners
  <2>. QED  BY <2>1, <2>2, <2>3
<1>11. ASSUME NEW d \in conns
       PROVE  /\ \A i \in DOMAIN objs'[d] : objs'[d][i].kind = "surface" =>
                    /\ objs'[d][i].obj \in DOMAIN surf'
                    /\ surf'[objs'[d][i].obj].conn = d
                    /\ surf'[objs'[d][i].obj].id = i
              /\ \A t \in DOMAIN surf' : surf'[t].conn = d =>
                    /\ surf'[t].id \in DOMAIN objs'[d]
                    /\ objs'[d][surf'[t].id] = [kind |-> "surface", obj |-> t]
              /\ DOMAIN objs'[d] = told'[d]
  <2>0. d \in Conns  BY DEF TInv, Types
  <2>1. ASSUME NEW i \in DOMAIN objs'[d], objs'[d][i].kind = "surface"
        PROVE  /\ objs'[d][i].obj \in DOMAIN surf'
               /\ surf'[objs'[d][i].obj].conn = d /\ surf'[objs'[d][i].obj].id = i
    <3>1. i \in DOMAIN objs[d] /\ objs[d][i].kind = "surface"  BY <1>4, <2>0, <2>1, SMTT(30)
    <3>2. /\ objs[d][i].obj \in DOMAIN surf /\ surf[objs[d][i].obj].conn = d
          /\ surf[objs[d][i].obj].id = i
      BY <3>1 DEF TInv, TableExact
    <3>3. objs'[d][i] = objs[d][i]  BY <3>2, <1>4, <2>0 DEF TInv, Types
    <3>4. objs[d][i].obj # s  BY <3>2, <1>1, <1>4, <2>0
    <3>. QED  BY <3>2, <3>3, <3>4, <1>5
  <2>2. ASSUME NEW t \in DOMAIN surf', surf'[t].conn = d
        PROVE  /\ surf'[t].id \in DOMAIN objs'[d]
               /\ objs'[d][surf'[t].id] = [kind |-> "surface", obj |-> t]
    <3>1. t \in DOMAIN surf /\ t # s /\ surf[t].conn = d /\ surf'[t].id = surf[t].id
      BY <2>2, <1>5, SMTT(30)
    <3>2. /\ surf[t].id \in DOMAIN objs[d]
          /\ objs[d][surf[t].id] = [kind |-> "surface", obj |-> t]
      BY <3>1 DEF TInv, TableExact
    <3>3. surf[t].id \in DOMAIN objs'[d]
      BY <3>1, <3>2, <1>1, <1>4, <2>0
    <3>4. objs[d][surf[t].id].obj \in Surfaces  BY <3>1, <3>2 DEF TInv, Types
    <3>. QED  BY <3>1, <3>2, <3>3, <3>4, <1>4, <2>0
  <2>. QED  BY <2>0, <2>1, <2>2, <1>4, <1>8, ZenonT(30) DEF TInv, TableExact
<1>12. TableExact'  BY <1>0, <1>11 DEF TableExact
<1>13. Kinds'
  <2>. SUFFICES ASSUME NEW d \in Conns, NEW i \in DOMAIN objs'[d], objs'[d][i].kind = "buffer"
                PROVE  objs'[d][i].obj \in Buffers \cup {Freed}
    BY DEF Kinds
  <2>1. i \in DOMAIN objs[d] /\ objs[d][i].kind = "buffer"  BY <1>4
  <2>2. objs[d][i].obj \in Buffers \cup {Freed}  BY <2>1, SMTT(30) DEF TInv, Kinds
  <2>. QED  BY <1>4, <2>2 DEF Stale
<1>. QED  BY <1>9, <1>10, <1>12, <1>13 DEF TInv

\* The same surfaces under the same ids, whatever else becomes of them.
SameSurfaces ==
    /\ DOMAIN surf' = DOMAIN surf /\ surf' = [t \in DOMAIN surf' |-> surf'[t]]
    /\ \A t \in DOMAIN surf : /\ surf'[t] \in Record /\ surf'[t].conn = surf[t].conn
                              /\ surf'[t].id = surf[t].id

\* Steps that create and destroy buffers only.
LEMMA KeptTables ==
  ASSUME TInv, conns' = conns, SameSurfaces,
         \A d \in Conns : \A i \in DOMAIN objs'[d] : objs'[d][i].kind = "surface" =>
            i \in DOMAIN objs[d] /\ objs'[d][i] = objs[d][i],
         \A d \in Conns : \A i \in DOMAIN objs[d] : objs[d][i].kind = "surface" =>
            i \in DOMAIN objs'[d] /\ objs'[d][i] = objs[d][i],
         \A d \in conns : DOMAIN objs'[d] = told'[d]
  PROVE  TableExact'
<1>. SUFFICES ASSUME NEW d \in conns
              PROVE  /\ \A i \in DOMAIN objs'[d] : objs'[d][i].kind = "surface" =>
                           /\ objs'[d][i].obj \in DOMAIN surf'
                           /\ surf'[objs'[d][i].obj].conn = d
                           /\ surf'[objs'[d][i].obj].id = i
                     /\ \A t \in DOMAIN surf' : surf'[t].conn = d =>
                           /\ surf'[t].id \in DOMAIN objs'[d]
                           /\ objs'[d][surf'[t].id] = [kind |-> "surface", obj |-> t]
  BY DEF TableExact
<1>0. d \in Conns  BY DEF TInv, Types
<1>1. ASSUME NEW i \in DOMAIN objs'[d], objs'[d][i].kind = "surface"
      PROVE  /\ objs'[d][i].obj \in DOMAIN surf'
             /\ surf'[objs'[d][i].obj].conn = d /\ surf'[objs'[d][i].obj].id = i
  <2>1. i \in DOMAIN objs[d] /\ objs'[d][i] = objs[d][i]  BY <1>0, <1>1, SMTT(30)
  <2>2. /\ objs[d][i].obj \in DOMAIN surf /\ surf[objs[d][i].obj].conn = d
        /\ surf[objs[d][i].obj].id = i
    BY <1>1, <2>1 DEF TInv, TableExact
  <2>. QED  BY <2>1, <2>2 DEF SameSurfaces
<1>2. ASSUME NEW t \in DOMAIN surf', surf'[t].conn = d
      PROVE  /\ surf'[t].id \in DOMAIN objs'[d]
             /\ objs'[d][surf'[t].id] = [kind |-> "surface", obj |-> t]
  <2>1. t \in DOMAIN surf /\ surf[t].conn = d /\ surf'[t].id = surf[t].id
    BY <1>2, SMTT(30) DEF SameSurfaces
  <2>2. /\ surf[t].id \in DOMAIN objs[d]
        /\ objs[d][surf[t].id] = [kind |-> "surface", obj |-> t]
    BY <2>1 DEF TInv, TableExact
  <2>. QED  BY <1>0, <2>1, <2>2
<1>. QED  BY <1>1, <1>2

(* An entry of kind surface names a surface. *)
LEMMA SurfaceEntry ==
  ASSUME TInv, NEW d \in Conns, NEW i \in DOMAIN objs[d], objs[d][i].kind = "surface"
  PROVE  objs[d][i].obj \in Surfaces
<1>1. d \in conns  BY DEF TInv, Gone
<1>2. objs[d][i].obj \in DOMAIN surf  BY <1>1 DEF TInv, TableExact
<1>. QED  BY <1>2 DEF TInv, Types

(* What letting go of buffers changes in a surface. *)
LEMMA SurfAfterFacts ==
  ASSUME TInv, NEW D, surf' = SurfAfter(surf, D)
  PROVE  /\ SameSurfaces
         /\ \A t \in DOMAIN surf : /\ surf'[t].parent = surf[t].parent
                                   /\ surf'[t].cur = Stale(surf[t].cur, D)
                                   /\ surf'[t].pend = Stale(surf[t].pend, D)
         /\ \A t \in DOMAIN surf :
               Stale(surf[t].cur, D) = surf[t].cur /\ Stale(surf[t].pend, D) = surf[t].pend
                  => surf'[t] = surf[t]
<1>1. DOMAIN surf' = DOMAIN surf /\ surf' = [t \in DOMAIN surf' |-> surf'[t]]
  BY ZenonT(30) DEF SurfAfter
<1>2. ASSUME NEW t \in DOMAIN surf
      PROVE  /\ surf'[t] \in Record /\ surf'[t].conn = surf[t].conn /\ surf'[t].id = surf[t].id
             /\ surf'[t].parent = surf[t].parent
             /\ surf'[t].cur = Stale(surf[t].cur, D) /\ surf'[t].pend = Stale(surf[t].pend, D)
             /\ Stale(surf[t].cur, D) = surf[t].cur /\ Stale(surf[t].pend, D) = surf[t].pend
                   => surf'[t] = surf[t]
  <2>1. surf[t] \in Record  BY SMTT(30) DEF TInv, Types
  <2>2. surf'[t] = [surf[t] EXCEPT !.cur = Stale(surf[t].cur, D),
                                   !.pend = Stale(surf[t].pend, D)]
    BY Zenon DEF SurfAfter
  <2>3. Stale(surf[t].cur, D) \in Pointer /\ Stale(surf[t].pend, D) \in Pointer
    BY <2>1 DEF Stale, Record, Pointer
  <2>4. /\ surf'[t] \in Record /\ surf'[t].conn = surf[t].conn /\ surf'[t].id = surf[t].id
        /\ surf'[t].parent = surf[t].parent
        /\ surf'[t].cur = Stale(surf[t].cur, D) /\ surf'[t].pend = Stale(surf[t].pend, D)
        /\ surf'[t].bound = surf[t].bound /\ surf'[t].kind = surf[t].kind
    BY <2>1, <2>2, <2>3, ZenonT(30) DEF Record
  <2>5. ASSUME Stale(surf[t].cur, D) = surf[t].cur, Stale(surf[t].pend, D) = surf[t].pend
        PROVE  surf'[t] = surf[t]
    BY <2>1, <2>4, <2>5 DEF Record
  <2>. QED  BY <2>4, <2>5
<1>. QED  BY <1>1, <1>2, SMTT(30) DEF SameSurfaces

(* A destroyed buffer leaves its table. *)
LEMMA BufferDestroyTables ==
  ASSUME TInv, NEW c \in conns, NEW id, NEW b, b # None, b = Lookup(c, id, "buffer"),
         objs' = ObjsAfter(Unregister(c, id, objs), {b}),
         surf' = SurfAfter(surf, {b}), buf' = UnrefBuf({b}),
         told' = [told EXCEPT ![c] = @ \ {id}], conns' = conns, nextId' = nextId
  PROVE  /\ TInv' /\ SameSurfaces
         /\ id \in DOMAIN objs[c] /\ objs[c][id].kind = "buffer" /\ objs[c][id].obj = b
         /\ \E u : FreedFrom(objs', u, {b}) /\ PartOf(u)
<1>0. c \in Conns  BY DEF TInv, Types
<1>1. id \in DOMAIN objs[c] /\ objs[c][id].kind = "buffer" /\ objs[c][id].obj = b
  BY DEF Lookup
<1>2. b \in Buffers \cup {Freed}  BY <1>0, <1>1 DEF TInv, Kinds
<1>3. {b} \cap Surfaces = {}  BY <1>2, RequestsAssumption
<1>4. PICK u : u = Unregister(c, id, objs)  OBVIOUS
<1>5. /\ DOMAIN u[c] = DOMAIN objs[c] \ {id} /\ PartOf(u)
      /\ \A d \in Conns : d # c => u[d] = objs[d]
  BY <1>4, UnregisterFacts
<1>6. FreedFrom(objs', u, {b})
  <2>1. PICK g : g = ObjsAfter(u, {b})  OBVIOUS
  <2>2. PICK D : D = {b}  OBVIOUS
  <2>3. FreedFrom(g, u, D)  BY <1>3, <1>5, <2>1, <2>2, FreedEntries
  <2>4. objs' = g  BY <1>4, <2>1
  <2>. QED  BY <2>2, <2>3, <2>4
<1>7. SameSurfaces
  <2>1. PICK D : D = {b}  OBVIOUS
  <2>2. surf' = SurfAfter(surf, D)  BY <2>1
  <2>. QED  BY <2>2, SurfAfterFacts
<1>8. \A d \in Conns : \A i \in DOMAIN objs'[d] :
         /\ i \in DOMAIN objs[d] /\ objs'[d][i] \in Entry
         /\ objs'[d][i].kind = objs[d][i].kind /\ objs'[d][i].obj = Stale(objs[d][i].obj, {b})
         /\ objs[d][i].obj \in Surfaces => objs'[d][i] = objs[d][i]
  BY <1>5, <1>6, ZenonT(30) DEF FreedFrom, PartOf
<1>9. /\ DOMAIN objs'[c] = DOMAIN objs[c] \ {id}
      /\ \A d \in Conns : d # c => DOMAIN objs'[d] = DOMAIN objs[d]
      /\ objs' = [d \in Conns |-> objs'[d]]
  BY <1>0, <1>5, <1>6, ZenonT(30) DEF FreedFrom
<1>10. /\ told' = [d \in Conns |-> told'[d]] /\ told'[c] = told[c] \ {id}
       /\ \A d \in Conns : d # c => told'[d] = told[d]
  BY <1>0, Zenon DEF TInv, Types
<1>11. buf' = [a \in DOMAIN buf' |-> buf'[a]] /\ DOMAIN buf' \subseteq DOMAIN buf
  BY DEF UnrefBuf, Without, Restrict
<1>12. \A d \in Conns : \A i \in DOMAIN objs[d] :
          objs[d][i].kind = "surface" => objs[d][i].obj \in Surfaces
  BY SurfaceEntry
<1>13. TableExact'
  <2>1. \A d \in Conns : \A i \in DOMAIN objs'[d] : objs'[d][i].kind = "surface" =>
           i \in DOMAIN objs[d] /\ objs'[d][i] = objs[d][i]
    <3>. SUFFICES ASSUME NEW d \in Conns, NEW i \in DOMAIN objs'[d], objs'[d][i].kind = "surface"
                  PROVE  i \in DOMAIN objs[d] /\ objs'[d][i] = objs[d][i]
      BY Zenon
    <3>1. i \in DOMAIN objs[d] /\ objs[d][i].kind = "surface"  BY <1>8, Zenon
    <3>2. objs[d][i].obj \in Surfaces  BY <1>12, <3>1, SMTT(30)
    <3>. QED  BY <1>8, <3>1, <3>2, Zenon
  <2>2. \A d \in Conns : \A i \in DOMAIN objs[d] : objs[d][i].kind = "surface" =>
           i \in DOMAIN objs'[d] /\ objs'[d][i] = objs[d][i]
    <3>. SUFFICES ASSUME NEW d \in Conns, NEW i \in DOMAIN objs[d], objs[d][i].kind = "surface"
                  PROVE  i \in DOMAIN objs'[d] /\ objs'[d][i] = objs[d][i]
      BY Zenon
    <3>1. i \in DOMAIN objs'[d]  BY <1>1, <1>9, ZenonT(30)
    <3>2. objs[d][i].obj \in Surfaces  BY <1>12
    <3>. QED  BY <1>8, <3>1, <3>2, SMTT(30)
  <2>3. \A d \in conns : DOMAIN objs'[d] = told'[d]
    BY <1>0, <1>9, <1>10, ZenonT(30) DEF TInv, TableExact, Types
  <2>. QED  BY <1>7, <2>1, <2>2, <2>3, KeptTables, Zenon
<1>14. Types'  BY <1>7, <1>8, <1>9, <1>10, <1>11, ZenonT(30) DEF TInv, Types, SameSurfaces
<1>15. Kinds'
  <2>. SUFFICES ASSUME NEW d \in Conns, NEW i \in DOMAIN objs'[d], objs'[d][i].kind = "buffer"
                PROVE  objs'[d][i].obj \in Buffers \cup {Freed}
    BY Zenon DEF Kinds
  <2>1. i \in DOMAIN objs[d] /\ objs[d][i].kind = "buffer"  BY <1>8, ZenonT(30)
  <2>2. objs[d][i].obj \in Buffers \cup {Freed}  BY <2>1 DEF TInv, Kinds
  <2>. QED  BY <1>8, <2>2, ZenonT(30) DEF Stale
<1>16. Fresh'  BY <1>8, Zenon DEF TInv, Fresh
<1>17. Gone'  BY <1>9, <1>10, ZenonT(30) DEF TInv, Gone
<1>18. Owners'  BY <1>7, Zenon DEF TInv, Owners, SameSurfaces
<1>. QED  BY <1>1, <1>5, <1>6, <1>7, <1>13, <1>14, <1>15, <1>16, <1>17, <1>18 DEF TInv

(* What an attach changes. *)
LEMMA AttachedFacts ==
  ASSUME TInv, NEW s \in DOMAIN surf, NEW b \in Buffers, surf' = Attached(s, b)
  PROVE  /\ SameSurfaces /\ surf'[s].cur = b /\ surf'[s].pend = surf[s].cur
         /\ surf'[s].parent = surf[s].parent
         /\ \A t \in DOMAIN surf : t # s => surf'[t] = surf[t]
<1>1. surf[s] \in Record /\ \A t \in DOMAIN surf : surf[t] \in Record  BY DEF TInv, Types
<1>2. DOMAIN surf' = DOMAIN surf /\ surf' = [t \in DOMAIN surf' |-> surf'[t]]
  BY Zenon DEF Attached, TInv, Types
<1>3. \A t \in DOMAIN surf : t # s => surf'[t] = surf[t]  BY DEF Attached, TInv, Types
<1>4. surf'[s] = [surf[s] EXCEPT !.cur = b, !.pend = surf[s].cur]
  BY DEF Attached, TInv, Types
<1>5. /\ surf'[s] \in Record /\ surf'[s].conn = surf[s].conn /\ surf'[s].id = surf[s].id
      /\ surf'[s].cur = b /\ surf'[s].pend = surf[s].cur /\ surf'[s].parent = surf[s].parent
  BY <1>1, <1>4, ZenonT(30) DEF Record, Pointer
<1>. QED  BY <1>1, <1>2, <1>3, <1>5 DEF SameSurfaces

\* The tables after an attach that frees D: the client is told of b, or not.
Given(c, b, g) ==
    LET n == nextId[c] e == [kind |-> "buffer", obj |-> b] IN
    \/ /\ objs' = [g EXCEPT ![c] = With(@, n, e)]
       /\ nextId' = [nextId EXCEPT ![c] = @ + 1]
       /\ told' = [told EXCEPT ![c] = @ \cup {n}]
    \/ objs' = g /\ nextId' = nextId /\ told' = told

(* A buffer registered under the next id keeps the tables exact. *)
LEMMA GivenTables ==
  ASSUME TInv, NEW c \in conns, NEW b \in Buffers, NEW D, D \cap Surfaces = {},
         NEW g, FreedFrom(g, objs, D), Given(c, b, g),
         SameSurfaces, conns' = conns, buf' = [a \in DOMAIN buf' |-> buf'[a]],
         DOMAIN buf' \subseteq Buffers
  PROVE  TInv'
<1>. DEFINE n == nextId[c]
            e == [kind |-> "buffer", obj |-> b]
<1>0. c \in Conns /\ n \in Nat /\ n \notin DOMAIN objs[c]  BY DEF TInv, Types, Fresh
<1>1. \A d \in Conns : DOMAIN g[d] = DOMAIN objs[d]  BY DEF FreedFrom
<1>2. \A d \in Conns : \A i \in DOMAIN objs[d] :
         /\ g[d][i] \in Entry /\ g[d][i].kind = objs[d][i].kind
         /\ g[d][i].obj = Stale(objs[d][i].obj, D)
         /\ objs[d][i].obj \in Surfaces => g[d][i] = objs[d][i]
  BY DEF FreedFrom
<1>3. g = [d \in Conns |-> g[d]]  BY DEF FreedFrom
<1>4. \A d \in Conns : \A i \in DOMAIN objs[d] : objs[d][i].kind = "surface" =>
         g[d][i] = objs[d][i]
  BY <1>2, SurfaceEntry
<1>5. \A d \in Conns : \A i \in DOMAIN objs[d] : g[d][i].kind = "buffer" =>
         g[d][i].obj \in Buffers \cup {Freed}
  BY <1>2 DEF TInv, Kinds, Stale
<1>6. e \in Entry /\ e.kind = "buffer" /\ e.obj = b  BY DEF Entry
<1>7. CASE objs' = g /\ nextId' = nextId /\ told' = told
  <2>1. Types'  BY <1>1, <1>2, <1>3, <1>7 DEF TInv, Types, SameSurfaces
  <2>2. Kinds'  BY <1>1, <1>5, <1>7 DEF Kinds
  <2>3. Fresh' /\ Gone'  BY <1>1, <1>7 DEF TInv, Fresh, Gone
  <2>4. Owners'  BY DEF TInv, Owners, SameSurfaces
  <2>5. TableExact'
    <3>1. \A d \in Conns : \A i \in DOMAIN objs'[d] : objs'[d][i].kind = "surface" =>
             i \in DOMAIN objs[d] /\ objs'[d][i] = objs[d][i]
      BY <1>1, <1>2, <1>4, <1>7
    <3>2. \A d \in Conns : \A i \in DOMAIN objs[d] : objs[d][i].kind = "surface" =>
             i \in DOMAIN objs'[d] /\ objs'[d][i] = objs[d][i]
      BY <1>1, <1>4, <1>7, SMTT(30)
    <3>3. \A d \in conns : DOMAIN objs'[d] = told'[d]
      BY <1>1, <1>7, Zenon DEF TInv, Types, TableExact
    <3>. QED  BY <3>1, <3>2, <3>3, KeptTables
  <2>. QED  BY <2>1, <2>2, <2>3, <2>4, <2>5, SMTT(30) DEF TInv
<1>. HIDE DEF n, e
<1>8. ASSUME objs' = [g EXCEPT ![c] = With(@, n, e)],
             nextId' = [nextId EXCEPT ![c] = @ + 1], told' = [told EXCEPT ![c] = @ \cup {n}]
      PROVE  TInv'
  <2>1. objs'[c] = With(g[c], n, e)  BY <1>0, <1>3, <1>8
  <2>2. /\ objs' = [d \in Conns |-> objs'[d]] /\ \A d \in Conns : d # c => objs'[d] = g[d]
    BY <1>0, <1>3, <1>8
  <2>3. /\ DOMAIN objs'[c] = DOMAIN objs[c] \cup {n} /\ objs'[c][n] = e
        /\ \A i \in DOMAIN objs[c] : objs'[c][i] = g[c][i]
    BY <1>0, <1>1, <2>1 DEF With
  <2>4. \A d \in Conns : d # c => DOMAIN objs'[d] = DOMAIN objs[d]  BY <1>1, <2>2
  <2>5. \A d \in Conns : \A i \in DOMAIN objs'[d] :
           \/ d = c /\ i = n /\ objs'[d][i] = e
           \/ i \in DOMAIN objs[d] /\ objs'[d][i] = g[d][i]
    BY <2>2, <2>3, <2>4, SMTT(30)
  <2>6. /\ nextId' \in [Conns -> Nat] /\ nextId'[c] = n + 1
        /\ \A d \in Conns : d # c => nextId'[d] = nextId[d]
    BY <1>0, <1>8 DEF TInv, Types, n
  <2>7. /\ told' = [d \in Conns |-> told'[d]] /\ told'[c] = told[c] \cup {n}
        /\ \A d \in Conns : d # c => told'[d] = told[d]
    BY <1>0, <1>8, ZenonT(30) DEF TInv, Types
  <2>8. \A d \in Conns : \A i \in DOMAIN objs'[d] : objs'[d][i] \in Entry
    BY <1>2, <1>6, <2>5
  <2>9. Types'  BY <2>2, <2>6, <2>7, <2>8 DEF TInv, Types, SameSurfaces
  <2>10. Kinds'  BY <1>5, <1>6, <2>5 DEF Kinds
  <2>11. Fresh'  BY <1>0, <2>5, <2>6 DEF TInv, Fresh, Types, n
  <2>12. Gone'  BY <2>4, <2>7 DEF TInv, Gone
  <2>13. Owners'  BY DEF TInv, Owners, SameSurfaces
  <2>14. TableExact'
    <3>1. \A d \in Conns : \A i \in DOMAIN objs'[d] : objs'[d][i].kind = "surface" =>
             i \in DOMAIN objs[d] /\ objs'[d][i] = objs[d][i]
      BY <1>2, <1>4, <1>6, <2>5
    <3>2. \A d \in Conns : \A i \in DOMAIN objs[d] : objs[d][i].kind = "surface" =>
             i \in DOMAIN objs'[d] /\ objs'[d][i] = objs[d][i]
      BY <1>1, <1>4, <2>2, <2>3, <2>4, SMTT(30)
    <3>3. \A d \in conns : DOMAIN objs'[d] = told'[d]
      BY <2>3, <2>4, <2>7, ZenonT(30) DEF TInv, Types, TableExact
    <3>. QED  BY <3>1, <3>2, <3>3, KeptTables
  <2>. QED  BY <2>9, <2>10, <2>11, <2>12, <2>13, <2>14 DEF TInv
<1>. QED  BY <1>7, <1>8 DEF Given, n, e

\* What an attach that is not refused does: b takes the place of D.
Attaches(c, s, b, g, D) ==
    /\ s \in DOMAIN surf /\ surf[s].conn = c /\ D = {surf[s].pend}
    /\ D \cap Surfaces = {} /\ b \in Buffers \ DOMAIN buf /\ surf' = Attached(s, b)
    /\ FreedFrom(g, objs, D) /\ Given(c, b, g) /\ conns' = conns
    /\ buf' = [a \in DOMAIN buf' |-> buf'[a]] /\ DOMAIN buf' = (DOMAIN buf \ D) \cup {b}

(* What an attach does, as one predicate. *)
LEMMA AttachStep ==
  ASSUME TInv, NEW c \in conns, NEW id, AttachBuffer(c, id), ~Refuse(c, "attach_buffer")
  PROVE  \E s, b, g, D : Attaches(c, s, b, g, D)
<1>1. PICK b \in Buffers \ DOMAIN buf, f \in Fds \ open :
         LET s == Lookup(c, id, "surface") old == {surf[s].pend} IN
         /\ s # None /\ surf' = Attached(s, b) /\ buf' = With(UnrefBuf(old), b, f)
         /\ \/ /\ objs' = [ObjsAfter(objs, old) EXCEPT ![c] =
                              With(@, nextId[c], [kind |-> "buffer", obj |-> b])]
               /\ nextId' = [nextId EXCEPT ![c] = @ + 1]
               /\ told' = [told EXCEPT ![c] = @ \cup {nextId[c]}]
            \/ objs' = ObjsAfter(objs, old) /\ nextId' = nextId /\ told' = told
         /\ conns' = conns
  BY Zenon DEF AttachBuffer
<1>2. PICK s : s = Lookup(c, id, "surface")  OBVIOUS
<1>3. PICK D : D = {surf[s].pend}  BY Zenon
<1>4. PICK g : g = ObjsAfter(objs, D)  OBVIOUS
<1>5. s \in DOMAIN surf /\ surf[s].conn = c  BY <1>1, <1>2, SurfaceLookup, ZenonT(30)
<1>6. D \cap Surfaces = {}
  BY <1>3, <1>5, RequestsAssumption DEF TInv, Types, Record, Pointer
<1>7. PartOf(objs)  BY DEF PartOf
<1>8. FreedFrom(g, objs, D)
  <2>1. PICK u : u = objs  OBVIOUS
  <2>2. FreedFrom(g, u, D)  BY <1>4, <1>6, <1>7, <2>1, FreedEntries
  <2>. QED  BY <2>1, <2>2
<1>9. Given(c, b, g)  BY <1>1, <1>2, <1>3, <1>4, Zenon DEF Given
<1>10. buf' = [a \in DOMAIN buf' |-> buf'[a]] /\ DOMAIN buf' = (DOMAIN buf \ D) \cup {b}
  <2>1. buf' = With(UnrefBuf(D), b, f)  BY <1>1, <1>2, <1>3, SMTT(30)
  <2>. QED  BY <2>1 DEF With, UnrefBuf, Without, Restrict
<1>11. surf' = Attached(s, b) /\ conns' = conns  BY <1>1, <1>2
<1>12. Attaches(c, s, b, g, D)
  BY <1>3, <1>5, <1>6, <1>8, <1>9, <1>10, <1>11 DEF Attaches
<1>. QED  BY <1>12

(* Connections come and go with their tables. *)
LEMMA ConnTables ==
  ASSUME TInv, NEW c \in Conns, Accept(c) \/ Disconnect(c) PROVE TInv'
<1>1. /\ objs' = [d \in Conns |-> objs'[d]] /\ DOMAIN objs'[c] = {}
      /\ \A d \in Conns : d # c => objs'[d] = objs[d]
  <2>1. objs' = [objs EXCEPT ![c] = << >>]  BY DEF Accept, Disconnect
  <2>2. objs = [d \in Conns |-> objs[d]]  BY DEF TInv, Types
  <2>3. objs'[c] = << >>  BY <2>1, <2>2
  <2>4. DOMAIN << >> = {}  OBVIOUS
  <2>5. DOMAIN objs'[c] = {}  BY <2>3, <2>4
  <2>. QED  BY <2>1, <2>2, <2>5
<1>2. nextId' \in [Conns -> Nat] /\ \A d \in Conns : d # c => nextId'[d] = nextId[d]
  <2>1. nextId' = [nextId EXCEPT ![c] = 1]  BY DEF Accept, Disconnect
  <2>2. nextId \in [Conns -> Nat]  BY DEF TInv, Types
  <2>. QED  BY <2>1, <2>2
<1>3. /\ told' = [d \in Conns |-> told'[d]] /\ told'[c] = {}
      /\ \A d \in Conns : d # c => told'[d] = told[d]
  BY DEF Accept, Disconnect, TInv, Types, Gone
<1>4. /\ DOMAIN surf' = DOMAIN surf /\ surf' = [t \in DOMAIN surf' |-> surf'[t]]
      /\ \A t \in DOMAIN surf : /\ surf'[t] \in Record /\ surf'[t].id = surf[t].id
                                /\ surf'[t].conn \in conns' \cup {Freed}
                                /\ surf'[t].conn # c
                                /\ surf'[t].conn # Freed => surf'[t].conn = surf[t].conn
                                /\ surf[t].conn # c => surf'[t].conn = surf[t].conn
  <2>1. CASE Accept(c)
    BY <2>1, RequestsAssumption DEF Accept, TInv, Types, Owners
  <2>2. CASE Disconnect(c)
    <3>1. DOMAIN surf' = DOMAIN surf /\ surf' = [t \in DOMAIN surf' |-> surf'[t]]
      BY <2>2 DEF Disconnect
    <3>2. ASSUME NEW t \in DOMAIN surf
          PROVE  /\ surf'[t] \in Record /\ surf'[t].id = surf[t].id
                 /\ surf'[t].conn = Stale(surf[t].conn, {c})
      <4>1. surf[t] \in Record  BY DEF TInv, Types
      <4>2. surf'[t] = [surf[t] EXCEPT !.conn = Stale(surf[t].conn, {c})]
        BY <2>2 DEF Disconnect
      <4>3. Stale(surf[t].conn, {c}) \in Conns \cup {Freed}  BY <4>1 DEF Stale, Record
      <4>. QED  BY <4>1, <4>2, <4>3 DEF Record
    <3>3. conns' = conns \ {c} /\ c # Freed  BY <2>2, RequestsAssumption DEF Disconnect
    <3>. QED  BY <3>1, <3>2, <3>3 DEF Stale, TInv, Owners
  <2>. QED  BY <2>1, <2>2
<1>5. buf' = buf /\ conns' \in {conns \cup {c}, conns \ {c}}  BY SMTT(30) DEF Accept, Disconnect
<1>6. Types'  BY <1>1, <1>2, <1>3, <1>4, <1>5 DEF TInv, Types
<1>7. Kinds'  BY <1>1 DEF TInv, Kinds
<1>8. Fresh'  BY <1>1, <1>2 DEF TInv, Fresh
<1>9. Gone'  BY <1>1, <1>3, <1>5 DEF TInv, Gone
<1>10. Owners'  BY <1>4, SMTT(30) DEF Owners
<1>11. ASSUME NEW d \in conns'
       PROVE  /\ \A i \in DOMAIN objs'[d] : objs'[d][i].kind = "surface" =>
                    /\ objs'[d][i].obj \in DOMAIN surf'
                    /\ surf'[objs'[d][i].obj].conn = d
                    /\ surf'[objs'[d][i].obj].id = i
              /\ \A t \in DOMAIN surf' : surf'[t].conn = d =>
                    /\ surf'[t].id \in DOMAIN objs'[d]
                    /\ objs'[d][surf'[t].id] = [kind |-> "surface", obj |-> t]
              /\ DOMAIN objs'[d] = told'[d]
  <2>1. CASE d = c  BY <1>1, <1>3, <1>4, <2>1, ZenonT(30)
  <2>2. CASE d # c
    <3>1. d \in conns /\ d \in Conns /\ d # Freed
      BY <1>5, <2>2, RequestsAssumption DEF TInv, Types
    <3>2. objs'[d] = objs[d] /\ told'[d] = told[d]  BY <1>1, <1>3, <2>2, <3>1, SMTT(30)
    <3>. QED  BY <1>4, <2>2, <3>1, <3>2 DEF TInv, TableExact
  <2>. QED  BY <2>1, <2>2
<1>12. TableExact'  BY <1>11 DEF TableExact
<1>. QED  BY <1>6, <1>7, <1>8, <1>9, <1>10, <1>12 DEF TInv

(* Binding an output touches no table. *)
LEMMA BindTables == ASSUME TInv, NEW s \in Surfaces, Bind(s) PROVE TInv' /\ SameSurfaces
<1>1. UNCHANGED <<conns, objs, nextId, buf, told>> /\ s \in DOMAIN surf  BY DEF Bind
<1>2. surf[s] \in Record  BY <1>1 DEF TInv, Types
<1>3. /\ DOMAIN surf' = DOMAIN surf /\ surf' = [t \in DOMAIN surf' |-> surf'[t]]
      /\ \A t \in DOMAIN surf : t # s => surf'[t] = surf[t]
  BY Zenon DEF Bind, TInv, Types
<1>4. surf'[s] = [surf[s] EXCEPT !.bound = ~surf[s].bound]  BY <1>1 DEF Bind, TInv, Types
<1>5. (~surf[s].bound) \in BOOLEAN  OBVIOUS
<1>6. surf'[s] \in Record /\ surf'[s].conn = surf[s].conn /\ surf'[s].id = surf[s].id
  BY <1>2, <1>4, <1>5, ZenonT(30) DEF Record
<1>7. SameSurfaces  BY <1>3, <1>6, SMTT(30) DEF SameSurfaces, TInv, Types
<1>8. TableExact'  BY <1>1, <1>7, KeptTables, ZenonT(30) DEF TInv, TableExact, Types
<1>9. Types'  BY <1>1, <1>7, SMTT(30) DEF TInv, Types, SameSurfaces
<1>10. Kinds' /\ Fresh' /\ Gone'  BY <1>1 DEF TInv, Kinds, Fresh, Gone
<1>11. Owners'  BY <1>1, <1>7 DEF TInv, Owners, SameSurfaces
<1>. QED  BY <1>7, <1>8, <1>9, <1>10, <1>11 DEF TInv

\* The creating handlers, with the parent they name if any.
LEMMA GiveTables ==
  ASSUME TInv, NEW c \in Conns, NEW op, NEW kind \in {"normal", "sub", "popup", "layer"},
         NEW parent \in Surfaces \cup {None}, Give(c, op, kind, parent)
  PROVE  TInv'
<1>1. CASE Refuse(c, op)  BY <1>1, SameTables DEF Refuse
<1>2. ASSUME NEW s \in Surfaces \ DOMAIN surf, Says(c, op, "ok"), Register(c, "surface", s),
             surf' = With(surf, s, NewSurface(c, nextId[c], kind, parent)),
             UNCHANGED <<conns, buf, open, ub>>
      PROVE  TInv'
  <2>1. c \in conns  BY <1>2 DEF Says
  <2>. QED  BY <1>2, <2>1, CreateTables, ZenonT(30)
<1>. QED  BY <1>1, <1>2 DEF Give

(* Every step keeps the tables exact. *)
LEMMA NextTables == ASSUME TInv, [Next]_vars PROVE TInv'
<1>1. ASSUME NEW c \in Conns, Accept(c) \/ Disconnect(c) PROVE TInv'
  BY <1>1, ConnTables
<1>2. ASSUME NEW c \in Conns, SurfaceCreate(c) \/ CreateLayer(c) PROVE TInv'
  <2>1. CASE SurfaceCreate(c)  BY <2>1, GiveTables DEF SurfaceCreate
  <2>2. CASE CreateLayer(c)  BY <2>2, GiveTables, SMTT(30) DEF CreateLayer
  <2>. QED  BY <1>2, <2>1, <2>2
<1>3. ASSUME NEW c \in Conns, Commit(c) \/ SetOutput(c) PROVE TInv'
  BY <1>3, SameTables DEF Commit, SetOutput, Refuse
<1>4. ASSUME NEW c \in Conns, NEW id, NEW op, NEW kind \in {"sub", "popup"},
             CreateChild(c, id, op, kind)
      PROVE  TInv'
  <2>1. CASE Refuse(c, op)  BY <2>1, SameTables DEF Refuse
  <2>2. ASSUME Lookup(c, id, "surface") # None, Give(c, op, kind, Lookup(c, id, "surface"))
        PROVE  TInv'
    <3>1. c \in conns  BY <2>2 DEF Give, Refuse, Says
    <3>2. PICK s : s = Lookup(c, id, "surface")  OBVIOUS
    <3>3. s \in Surfaces  BY <2>2, <3>1, <3>2, SurfaceLookup, Zenon DEF TInv, Types
    <3>. QED  BY <2>2, <3>2, <3>3, GiveTables
  <2>. QED  BY <1>4, <2>1, <2>2 DEF CreateChild
<1>5. ASSUME NEW c \in Conns, NEW id, SurfaceDestroy(c, id) PROVE TInv'
  <2>1. c \in conns  BY <1>5 DEF SurfaceDestroy, Refuse, Says
  <2>2. CASE Lookup(c, id, "surface") = None
    BY <1>5, <2>2, SameTables DEF SurfaceDestroy, Refuse
  <2>. QED  BY <1>5, <2>1, <2>2, SurfaceDestroyTables
<1>6. ASSUME NEW c \in Conns, NEW id, AttachBuffer(c, id) PROVE TInv'
  <2>1. c \in conns  BY <1>6, ZenonT(30) DEF AttachBuffer, Refuse, Says
  <2>2. CASE Refuse(c, "attach_buffer")  BY <2>2, SameTables DEF Refuse
  <2>3. CASE ~Refuse(c, "attach_buffer")
    <3>1. PICK s, b, g, D : Attaches(c, s, b, g, D)  BY <1>6, <2>1, <2>3, AttachStep
    <3>2. /\ s \in DOMAIN surf /\ b \in Buffers /\ D \cap Surfaces = {}
          /\ surf' = Attached(s, b) /\ FreedFrom(g, objs, D) /\ Given(c, b, g)
          /\ conns' = conns /\ buf' = [a \in DOMAIN buf' |-> buf'[a]]
          /\ DOMAIN buf' = (DOMAIN buf \ D) \cup {b}
      BY <3>1 DEF Attaches
    <3>3. SameSurfaces  BY <3>2, AttachedFacts
    <3>4. DOMAIN buf' \subseteq Buffers  BY <3>2 DEF TInv, Types
    <3>. QED  BY <2>1, <3>2, <3>3, <3>4, GivenTables
  <2>. QED  BY <2>2, <2>3
<1>7. ASSUME NEW c \in Conns, NEW id, BufferDestroy(c, id) PROVE TInv'
  <2>1. c \in conns  BY <1>7 DEF BufferDestroy, Refuse, Says
  <2>2. PICK b : b = Lookup(c, id, "buffer")  OBVIOUS
  <2>3. CASE UNCHANGED <<conns, objs, nextId, surf, buf, told>>  BY <2>3, SameTables, SMTT(30)
  <2>4. ASSUME b # None, objs' = ObjsAfter(Unregister(c, id, objs), {b}),
               surf' = SurfAfter(surf, {b}), buf' = UnrefBuf({b}),
               told' = [told EXCEPT ![c] = @ \ {id}], conns' = conns, nextId' = nextId
        PROVE  TInv'
    BY <2>1, <2>2, <2>4, BufferDestroyTables, ZenonT(30)
  <2>. QED  BY <1>7, <2>2, <2>3, <2>4, SMTT(30) DEF BufferDestroy, Refuse
<1>8. ASSUME NEW c \in Conns, NEW id, SetSurface(c, id) PROVE TInv'
  BY <1>8, SameTables DEF SetSurface, Refuse
<1>9. CASE \E s \in Surfaces : Bind(s)  BY <1>9, BindTables
<1>10. CASE UNCHANGED vars  BY <1>10, SameTables DEF vars
<1>. QED
  BY <1>1, <1>2, <1>3, <1>4, <1>5, <1>6, <1>7, <1>8, <1>9, <1>10
  DEF Next, CreateSubsurface, CreatePopup

(* All tables are empty at the start. *)
LEMMA InitTables == Init => TInv
<1>. SUFFICES ASSUME Init PROVE TInv
  OBVIOUS
<1>1. DOMAIN << >> = {}  OBVIOUS
<1>2. /\ conns = {} /\ DOMAIN surf = {} /\ DOMAIN buf = {}
      /\ surf = [s \in DOMAIN surf |-> surf[s]] /\ buf = [b \in DOMAIN buf |-> buf[b]]
      /\ objs = [c \in Conns |-> objs[c]] /\ \A c \in Conns : DOMAIN objs[c] = {}
      /\ nextId \in [Conns -> Nat]
      /\ told = [c \in Conns |-> told[c]] /\ \A c \in Conns : told[c] = {}
  BY <1>1 DEF Init
<1>3. Types  BY <1>2 DEF Types
<1>4. Kinds /\ Fresh /\ Gone /\ Owners  BY <1>2, SMTT(30) DEF Kinds, Fresh, Gone, Owners
<1>5. TableExact  BY <1>2 DEF TableExact
<1>. QED  BY <1>3, <1>4, <1>5 DEF TInv

(***************************************************************************)
(* The tables, the surfaces and what the clients were told agree, whatever *)
(* requests fail half-way (isz_conn_register_object,                       *)
(* isz_conn_unregister_object, isz_conn_close).                            *)
(***************************************************************************)
THEOREM TablesAlwaysExact == Spec => []TableExact
<1>1. TInv /\ [Next]_vars => TInv'  BY NextTables
<1>2. TInv => TableExact  BY DEF TInv
<1>. QED  BY InitTables, <1>1, <1>2, PTL DEF Spec
=============================================================================
