---------------------------- MODULE ServerProofs ----------------------------
(***************************************************************************)
(* Theorems about Server, for any peers, listeners and batch size.  The    *)
(* connections, the events and the walk over the listeners have an         *)
(* inductive invariant each; that of the events rests on the first.        *)
(***************************************************************************)
EXTENDS Server, ListsProofs

-----------------------------------------------------------------------------
(* Connections                                                             *)

\* The shape of the server's lists and where isz_dispatch can be.
Shape ==
    /\ clients \in Seq(Peers) /\ Distinct(clients)
    /\ backlog \in Seq(Peers) /\ Distinct(backlog)
    /\ batch \in Seq(Tags) /\ Distinct(batch)
    /\ pc \in {"out", "batch", "accept", "handshake", "recv"}

\* The connection in hand is on no list that a step of it would disturb.
ConnInv ==
    /\ Shape
    /\ open = Range(clients) \cup (IF pc = "handshake" THEN {cur} ELSE {})
    /\ epoll = Range(clients)
    /\ Range(backlog) \cap open = {}
    /\ pc = "handshake" => cur \in Peers /\ cur \notin Range(clients)
    /\ pc = "recv" => cur \in Range(clients) /\ cur \notin Range(batch)
    /\ Range(batch) \subseteq Range(clients) \cup {"listen"}
    /\ pc = "out" => batch = <<>>

(* What the steps that leave the connections alone have in common. *)
LEMMA SameConns ==
    ASSUME ConnInv, UNCHANGED <<clients, backlog, batch, pc, cur, open, epoll>> PROVE ConnInv'
  BY Zenon DEF ConnInv, Shape

LEMMA ConnectConns == ASSUME ConnInv, NEW p \in Peers, Connect(p) PROVE ConnInv'
<1>1. /\ backlog' = Append(backlog, p) /\ p \notin Range(backlog) /\ p \notin open
      /\ UNCHANGED <<clients, batch, pc, cur, open, epoll>>
  BY DEF Connect
<1>2. /\ backlog' \in Seq(Peers) /\ Distinct(backlog')
      /\ Range(backlog') = Range(backlog) \cup {p}
  BY <1>1, AppendAdds DEF ConnInv, Shape
<1>3. Shape'  BY <1>1, <1>2, ZenonT(30) DEF ConnInv, Shape
<1>4. Range(backlog') \cap open' = {}  BY <1>1, <1>2 DEF ConnInv
<1>. QED  BY <1>1, <1>3, <1>4, ZenonT(30) DEF ConnInv

\* epoll_wait reports no tag twice, and only tags that are in the set.
LEMMA DispatchConns == ASSUME ConnInv, Dispatch PROVE ConnInv'
<1>. DEFINE n == Min({MaxBatch, Cardinality(Ready)})
<1>1. /\ batch' \in Injection(1 .. n, Ready) /\ pc' = "batch"
      /\ UNCHANGED <<clients, backlog, cur, open, epoll>> /\ pc = "out"
  BY DEF Dispatch
<1>2. IsFiniteSet(Ready)
  <2>1. IsFiniteSet(Peers \cup {"listen"})  BY FS_AddElement, ServerAssumption
  <2>2. Ready \in SUBSET (Peers \cup {"listen"})  BY DEF Ready, Tags
  <2>. QED  BY <2>1, <2>2, FS_Subset
<1>3. n \in Nat
  <2>. DEFINE N == {MaxBatch, Cardinality(Ready)}
  <2>1. Cardinality(Ready) \in Nat  BY <1>2, FS_CardinalityType
  <2>2. N \in SUBSET Nat /\ N # {}  BY <2>1, ServerAssumption
  <2>. HIDE DEF N
  <2>3. Min(N) \in N  BY <2>2, FirstOf
  <2>. QED  BY <2>2, <2>3 DEF N
<1>. HIDE DEF n
<1>4. batch' \in Seq(Ready) /\ Distinct(batch') /\ Range(batch') \subseteq Ready
  BY <1>1, <1>3, BatchOf
<1>5. Ready \subseteq Tags /\ Ready \subseteq epoll \cup {"listen"}  BY DEF Ready
<1>6. batch' \in Seq(Tags)  BY <1>4, <1>5, SeqWider, SMTT(30)
<1>7. Shape'  BY <1>1, <1>4, <1>6 DEF ConnInv, Shape
<1>8. Range(batch') \subseteq Range(clients') \cup {"listen"}  BY <1>1, <1>4, <1>5, ZenonT(30) DEF ConnInv
<1>. QED  BY <1>1, <1>7, <1>8, ZenonT(30) DEF ConnInv

LEMMA RouteConns == ASSUME ConnInv, Route PROVE ConnInv'
<1>1. /\ pc = "batch" /\ UNCHANGED <<clients, backlog, open, epoll>>
      /\ \/ batch = <<>> /\ pc' = "out" /\ UNCHANGED <<batch, cur>>
         \/ /\ batch # <<>> /\ batch' = Tail(batch)
            /\ Head(batch) = "listen" => pc' = "accept"
            /\ Head(batch) # "listen" => pc' = "recv" /\ cur' = Head(batch)
  BY DEF Route
<1>2. CASE batch = <<>> /\ pc' = "out" /\ UNCHANGED <<batch, cur>>
  BY <1>1, <1>2, ZenonT(30) DEF ConnInv, Shape
<1>3. CASE /\ batch # <<>> /\ batch' = Tail(batch)
           /\ Head(batch) = "listen" => pc' = "accept"
           /\ Head(batch) # "listen" => pc' = "recv" /\ cur' = Head(batch)
  <2>1. /\ batch' \in Seq(Tags) /\ Distinct(batch')
        /\ Range(batch') = Range(batch) \ {Head(batch)} /\ Head(batch) \in Range(batch)
    BY <1>3, TailDrops DEF ConnInv, Shape
  <2>2. pc' \in {"accept", "recv"}  BY <1>3
  <2>3. Shape'  BY <1>1, <2>1, <2>2 DEF ConnInv, Shape
  <2>4. pc' = "recv" => cur' \in Range(clients') /\ cur' \notin Range(batch')
    BY <1>1, <1>3, <2>1 DEF ConnInv
  <2>5. open' = Range(clients')  BY <1>1 DEF ConnInv
  <2>6. Range(batch') \subseteq Range(clients') \cup {"listen"}  BY <1>1, <2>1 DEF ConnInv
  <2>. QED  BY <1>1, <2>2, <2>3, <2>4, <2>5, <2>6, SMTT(30) DEF ConnInv
<1>. QED  BY <1>1, <1>2, <1>3

LEMMA AcceptConns ==
    ASSUME ConnInv, AcceptDone \/ AcceptRefused \/ AcceptAllowed PROVE ConnInv'
<1>1. ASSUME AcceptDone PROVE ConnInv'
  <2>1. pc = "accept" /\ pc' = "batch" /\ UNCHANGED <<clients, backlog, batch, cur, open, epoll>>
    BY <1>1 DEF AcceptDone
  <2>. QED  BY <2>1 DEF ConnInv, Shape
<1>2. ASSUME AcceptRefused PROVE ConnInv'
  <2>1. /\ backlog # <<>> /\ backlog' = Tail(backlog)
        /\ UNCHANGED <<clients, batch, pc, cur, open, epoll>>
    BY <1>2 DEF AcceptRefused
  <2>2. /\ backlog' \in Seq(Peers) /\ Distinct(backlog')
        /\ Range(backlog') = Range(backlog) \ {Head(backlog)}
    BY <2>1, TailDrops DEF ConnInv, Shape
  <2>3. Shape'  BY <2>1, <2>2, ZenonT(30) DEF ConnInv, Shape
  <2>4. Range(backlog') \cap open' = {}  BY <2>1, <2>2 DEF ConnInv
  <2>. QED  BY <2>1, <2>3, <2>4, ZenonT(30) DEF ConnInv
<1>3. ASSUME AcceptAllowed PROVE ConnInv'
  <2>. DEFINE h == Head(backlog)
  <2>1. /\ pc = "accept" /\ backlog # <<>> /\ backlog' = Tail(backlog)
        /\ open' = open \cup {h} /\ cur' = h /\ pc' = "handshake"
        /\ UNCHANGED <<clients, batch, epoll>>
    BY <1>3, SMTT(30) DEF AcceptAllowed
  <2>2. /\ backlog' \in Seq(Peers) /\ Distinct(backlog')
        /\ Range(backlog') = Range(backlog) \ {h} /\ h \in Range(backlog) /\ h \in Peers
    BY <2>1, TailDrops DEF ConnInv, Shape
  <2>3. Shape'  BY <2>1, <2>2 DEF ConnInv, Shape
  <2>. HIDE DEF h
  <2>4. Range(backlog') \cap open' = {}  BY <2>1, <2>2 DEF ConnInv
  <2>5. h \notin Range(clients) /\ open = Range(clients)  BY <2>1, <2>2 DEF ConnInv
  <2>. QED  BY <2>1, <2>2, <2>3, <2>4, <2>5, SMTT(30) DEF ConnInv
<1>. QED  BY <1>1, <1>2, <1>3

LEMMA HandshakeConns == ASSUME ConnInv, HandshakeFails \/ HandshakeDone PROVE ConnInv'
<1>1. ASSUME HandshakeFails PROVE ConnInv'
  <2>1. /\ pc = "handshake" /\ pc' = "accept" /\ open' = open \ {cur}
        /\ UNCHANGED <<clients, backlog, batch, cur, epoll>>
    BY <1>1 DEF HandshakeFails
  <2>2. Shape'  BY <2>1 DEF ConnInv, Shape
  <2>3. open' = Range(clients') /\ Range(backlog') \cap open' = {}  BY <2>1 DEF ConnInv
  <2>. QED  BY <2>1, <2>2, <2>3, SMTT(30) DEF ConnInv
<1>2. ASSUME HandshakeDone PROVE ConnInv'
  <2>1. /\ pc = "handshake" /\ pc' = "accept" /\ clients' = Append(clients, cur)
        /\ epoll' = epoll \cup {cur} /\ UNCHANGED <<backlog, batch, cur, open>>
    BY <1>2 DEF HandshakeDone
  <2>2. cur \in Peers /\ cur \notin Range(clients) /\ open = Range(clients) \cup {cur}
    BY <2>1 DEF ConnInv
  <2>3. /\ clients' \in Seq(Peers) /\ Distinct(clients')
        /\ Range(clients') = Range(clients) \cup {cur}
    BY <2>1, <2>2, AppendAdds DEF ConnInv, Shape
  <2>4. Shape'  BY <2>1, <2>3 DEF ConnInv, Shape
  <2>5. Range(batch') \subseteq Range(clients') \cup {"listen"}  BY <2>1, <2>3 DEF ConnInv
  <2>6. epoll' = Range(clients') /\ open' = Range(clients') /\ Range(backlog') \cap open' = {}
    BY <2>1, <2>2, <2>3, SMTT(30) DEF ConnInv
  <2>. QED  BY <2>1, <2>4, <2>5, <2>6 DEF ConnInv
<1>. QED  BY <1>1, <1>2

LEMMA ReceiveConns == ASSUME ConnInv, ReceiveDone \/ ReceiveEnds PROVE ConnInv'
<1>1. ASSUME ReceiveDone PROVE ConnInv'
  <2>1. pc = "recv" /\ pc' = "batch" /\ UNCHANGED <<clients, backlog, batch, cur, open, epoll>>
    BY <1>1, SMTT(30) DEF ReceiveDone
  <2>. QED  BY <2>1 DEF ConnInv, Shape
<1>2. ASSUME ReceiveEnds PROVE ConnInv'
  <2>. DEFINE i == Position(clients, cur)
  <2>1. /\ pc = "recv" /\ pc' = "batch" /\ clients' = Unlink(clients, i)
        /\ epoll' = epoll \ {cur} /\ open' = open \ {cur} /\ UNCHANGED <<backlog, batch, cur>>
    BY <1>2, SMTT(30) DEF ReceiveEnds
  <2>2. cur \in Range(clients) /\ cur \notin Range(batch) /\ open = Range(clients)
    BY <2>1, SMTT(30) DEF ConnInv
  <2>3. i \in DOMAIN clients /\ clients[i] = cur  BY <2>2, PositionOf, SMTT(30) DEF ConnInv, Shape
  <2>. HIDE DEF i
  <2>4. /\ clients' \in Seq(Peers) /\ Distinct(clients')
        /\ Range(clients') = Range(clients) \ {cur}
    <3>1. clients \in Seq(Peers) /\ Distinct(clients)  BY DEF ConnInv, Shape
    <3>. QED  BY <2>1, <2>3, <3>1, UnlinkRemoves
  <2>5. Shape'  BY <2>1, <2>4, SMTT(30) DEF ConnInv, Shape
  <2>6. Range(batch') \subseteq Range(clients') \cup {"listen"}
    BY <2>1, <2>2, <2>4, SMTT(30) DEF ConnInv
  <2>7. epoll' = Range(clients') /\ open' = Range(clients') /\ Range(backlog') \cap open' = {}
    BY <2>1, <2>2, <2>4, SMTT(30) DEF ConnInv
  <2>. QED  BY <2>1, <2>5, <2>6, <2>7, SMTT(30) DEF ConnInv
<1>. QED  BY <1>1, <1>2

LEMMA DestroyConns == ASSUME ConnInv, Destroy PROVE ConnInv'
<1>1. /\ pc = "out" /\ clients' = << >> /\ backlog' = << >> /\ epoll' = {}
      /\ open' = open \ Range(clients) /\ UNCHANGED <<batch, pc, cur>>
  BY DEF Destroy
<1>2. /\ << >> \in Seq(Peers) /\ Range(<< >>) = {} /\ Distinct(<< >>)
  BY EmptyShape DEF Range, Distinct
<1>3. batch = << >> /\ open' = {}  BY <1>1 DEF ConnInv
<1>. QED  BY <1>1, <1>2, <1>3 DEF ConnInv, Shape

(* Every step keeps the connections. *)
LEMMA NextConns == ASSUME ConnInv, [Next]_vars PROVE ConnInv'
<1>1. CASE \/ Listen \/ Allow \/ Subscribe \/ Unsubscribe \/ Receive \/ Callback
           \/ UNCHANGED vars \/ \E p \in Peers : Reply(p) \/ Request(p) \/ Hangup(p)
  <2>1. UNCHANGED <<clients, backlog, batch, pc, cur, open, epoll>>
    BY <1>1, ZenonT(30) DEF Listen, Allow, Subscribe, Unsubscribe, Receive, Callback, Reply,
                            Request, Hangup, vars, srvVars
  <2>. QED  BY <2>1, SameConns
<1>2. ASSUME NEW p \in Peers, Connect(p) PROVE ConnInv'  BY <1>2, ConnectConns
<1>. QED
  BY <1>1, <1>2, DispatchConns, RouteConns, AcceptConns, HandshakeConns, ReceiveConns,
     DestroyConns, SMTT(30) DEF Next, ServerStep

LEMMA InitConns == Init => ConnInv
<1>1. \A S : << >> \in Seq(S)  BY EmptyShape
<1>2. Range(<< >>) = {} /\ Distinct(<< >>)  BY DEF Range, Distinct
<1>. QED  BY <1>1, <1>2 DEF Init, ConnInv, Shape

(***************************************************************************)
(* Whatever peers, batches, failed handshakes and cleanups come together,  *)
(* every descriptor the server holds belongs to one client on              *)
(* srv->clients, which is in the epoll set, or to the handshake in         *)
(* progress (isz_accept_connection, isz_client_cleanup, isz_destroy).      *)
(***************************************************************************)
THEOREM ConnectionsAlwaysExact == Spec => []ConnectionsExact
<1>1. ConnInv => ConnectionsExact
  <2>1. ASSUME ConnInv PROVE Cardinality(Range(clients)) = Len(clients)
    BY <2>1, CountDistinct DEF ConnInv, Shape
  <2>. QED  BY <2>1 DEF ConnInv, ConnectionsExact
<1>2. ConnInv /\ [Next]_vars => ConnInv'  BY NextConns, SMTT(30)
<1>. QED  BY <1>1, <1>2, InitConns, PTL DEF Spec

(***************************************************************************)
(* No event of a batch carries a client that an earlier event of the batch *)
(* has freed, however large the batch (isz_dispatch).                      *)
(***************************************************************************)
THEOREM NeverStaleTag == Spec => []NoStaleTag
<1>1. ConnInv => NoStaleTag  BY DEF ConnInv, NoStaleTag
<1>2. ConnInv /\ [Next]_vars => ConnInv'  BY NextConns
<1>. QED  BY <1>1, <1>2, InitConns, PTL DEF Spec

-----------------------------------------------------------------------------
(* Events                                                                  *)

\* What the application has been told of a peer: a peer that is gone cannot
\* come back, and one that waits was never there.
Told(p) ==
    /\ p \in Range(clients) => events[p]["connect"] = 1 /\ events[p]["disconnect"] = 0
    /\ p \notin Range(clients) =>
          events[p]["connect"] = events[p]["disconnect"] /\ events[p]["connect"] <= 1
    /\ p \in Range(backlog) \cup (open \ Range(clients)) => events[p]["connect"] = 0
    /\ events[p]["connect"] = 1 /\ p \notin Range(clients) => p \in closed

EventInv ==
    /\ events \in [Peers -> [EventTypes -> Nat]]
    /\ state = "running" => \A p \in Peers : Told(p)

(* One more event of type t for the connection in hand. *)
LEMMA Announced ==
    ASSUME EventInv, cur \in Peers, NEW t \in EventTypes, Announce(t)
    PROVE  /\ events' \in [Peers -> [EventTypes -> Nat]]
           /\ \A p \in Peers : p # cur => events'[p] = events[p]
           /\ \A u \in EventTypes : events'[cur][u] = events[cur][u] + (IF u = t THEN 1 ELSE 0)
<1>1. events' = [events EXCEPT ![cur] = [events[cur] EXCEPT ![t] = events[cur][t] + 1]]
  BY DEF Announce
<1>2. events[cur] \in [EventTypes -> Nat]  BY DEF EventInv
<1>3. [events[cur] EXCEPT ![t] = events[cur][t] + 1] \in [EventTypes -> Nat]  BY <1>2
<1>. QED  BY <1>1, <1>2, <1>3 DEF EventInv

\* Nothing is announced, and who is known or waits can only shrink.
LEMMA SameEvents ==
    ASSUME EventInv, events' = events, state' = state \/ state' = "freed",
           Range(clients') = Range(clients), closed \subseteq closed',
           Range(backlog') \cup (open' \ Range(clients')) \subseteq
               Range(backlog) \cup (open \ Range(clients))
    PROVE  EventInv'
<1>1. ASSUME NEW p \in Peers, Told(p) PROVE Told(p)'  BY <1>1 DEF Told
<1>. QED  BY <1>1, SMTT(30) DEF EventInv

(* Every step keeps the account of events. *)
LEMMA NextEvents == ASSUME ConnInv, EventInv, [Next]_vars PROVE EventInv'
<1>0. ConnInv'  BY NextConns
<1>1. CASE \/ Listen \/ Allow \/ Subscribe \/ Unsubscribe \/ Receive \/ Callback
           \/ Dispatch \/ Route \/ AcceptDone \/ ReceiveDone
           \/ UNCHANGED vars \/ \E p \in Peers : Reply(p) \/ Request(p) \/ Hangup(p)
  <2>1. UNCHANGED <<clients, backlog, open, events, state>> /\ closed \subseteq closed'
    BY <1>1, ZenonT(30) DEF Listen, Allow, Subscribe, Unsubscribe, Receive, Callback, Reply,
          Request, Hangup, Dispatch, Route, AcceptDone, ReceiveDone, vars, srvVars, peerVars
  <2>. QED  BY <2>1, SameEvents
<1>2. CASE Destroy
  <2>1. state' = "freed" /\ events' = events  BY <1>2 DEF Destroy
  <2>. QED  BY <2>1 DEF EventInv
<1>3. ASSUME NEW p \in Peers, Connect(p) PROVE EventInv'
  <2>1. /\ backlog' = Append(backlog, p) /\ p \notin Range(backlog) \cup open \cup closed
        /\ UNCHANGED <<clients, open, closed, events, state>>
    BY <1>3, SMTT(30) DEF Connect, peerVars
  <2>2. Range(backlog') = Range(backlog) \cup {p}
    BY <2>1, AppendAdds, SMTT(30) DEF ConnInv, Shape
  <2>3. p \notin Range(clients)  BY <2>1, SMTT(30) DEF ConnInv
  <2>4. ASSUME state = "running", NEW q \in Peers PROVE Told(q)'
    <3>1. Told(q) /\ Told(p)  BY <2>4, SMTT(30) DEF EventInv
    <3>2. events[p]["connect"] \in Nat
      BY ServerAssumption, SMTT(30) DEF EventInv
    <3>. QED  BY <2>1, <2>2, <2>3, <3>1, <3>2, SMTT(30) DEF Told
  <2>. QED  BY <2>1, <2>4, SMTT(30) DEF EventInv
<1>4. CASE AcceptRefused
  <2>1. /\ backlog # <<>> /\ backlog' = Tail(backlog) /\ closed \subseteq closed'
        /\ UNCHANGED <<clients, open, events, state>>
    BY <1>4, SMTT(30) DEF AcceptRefused
  <2>2. Range(backlog') \subseteq Range(backlog)  BY <2>1, TailDrops, SMTT(30) DEF ConnInv, Shape
  <2>. QED  BY <2>1, <2>2, SameEvents, SMTT(30)
<1>5. CASE AcceptAllowed
  <2>1. /\ backlog # <<>> /\ backlog' = Tail(backlog) /\ open' = open \cup {Head(backlog)}
        /\ UNCHANGED <<clients, closed, events, state>>
    BY <1>5, SMTT(30) DEF AcceptAllowed, peerVars
  <2>2. Range(backlog') \subseteq Range(backlog) /\ Head(backlog) \in Range(backlog)
    BY <2>1, TailDrops, SMTT(30) DEF ConnInv, Shape
  <2>. QED  BY <2>1, <2>2, SameEvents, SMTT(30)
<1>6. CASE HandshakeFails
  <2>1. open' \subseteq open /\ closed \subseteq closed' /\ UNCHANGED <<clients, backlog, events, state>>
    BY <1>6 DEF HandshakeFails
  <2>. QED  BY <2>1, SameEvents, SMTT(30)
<1>7. CASE HandshakeDone
  <2>1. /\ pc = "handshake" /\ cur \notin closed /\ Announce("connect")
        /\ clients' = Append(clients, cur)
        /\ UNCHANGED <<backlog, open, closed, state>>
    BY <1>7, SMTT(30) DEF HandshakeDone, peerVars
  <2>2. cur \in Peers /\ cur \notin Range(clients) /\ cur \in open  BY <2>1, SMTT(30) DEF ConnInv
  <2>3. Range(clients') = Range(clients) \cup {cur}
    BY <2>1, <2>2, AppendAdds, SMTT(30) DEF ConnInv, Shape
  <2>4. /\ events' \in [Peers -> [EventTypes -> Nat]]
        /\ \A p \in Peers : p # cur => events'[p] = events[p]
        /\ events'[cur]["connect"] = events[cur]["connect"] + 1
        /\ events'[cur]["disconnect"] = events[cur]["disconnect"] + 0
    <3>1. "connect" \in EventTypes /\ "disconnect" \in EventTypes /\ "connect" # "disconnect"
      BY ServerAssumption, SMTT(30)
    <3>. QED  BY <2>1, <2>2, <3>1, Announced, SMTT(30)
  <2>5. ASSUME state = "running", NEW p \in Peers, p # cur PROVE Told(p)'
    <3>1. Told(p)  BY <2>5, SMTT(30) DEF EventInv
    <3>. QED  BY <2>1, <2>3, <2>4, <2>5, <3>1, SMTT(30) DEF Told
  <2>6. ASSUME state = "running" PROVE Told(cur)'
    <3>1. Told(cur)  BY <2>2, <2>6, SMTT(30) DEF EventInv
    <3>2. events[cur]["connect"] = 0 /\ events[cur]["disconnect"] = 0  BY <2>2, <3>1, SMTT(30) DEF Told
    <3>3. cur' = cur  BY <1>7 DEF HandshakeDone
    <3>4. cur \in Range(clients') /\ cur \notin Range(backlog')  BY <2>1, <2>2, <2>3, SMTT(30) DEF ConnInv
    <3>. QED  BY <2>4, <3>2, <3>3, <3>4, SMTT(30) DEF Told
  <2>7. cur' = cur  BY <1>7 DEF HandshakeDone
  <2>. QED  BY <2>1, <2>4, <2>5, <2>6, <2>7, SMTT(30) DEF EventInv
<1>8. CASE ReceiveEnds
  <2>. DEFINE i == Position(clients, cur)
  <2>1. /\ pc = "recv" /\ closed' = closed \cup {cur} /\ Announce("disconnect")
        /\ clients' = Unlink(clients, i) /\ open' = open \ {cur}
        /\ UNCHANGED <<backlog, state>> /\ cur' = cur
    BY <1>8, SMTT(30) DEF ReceiveEnds
  <2>2. cur \in Range(clients) /\ cur \in Peers /\ cur \notin Range(backlog)
    <3>1. cur \in Range(clients) /\ open = Range(clients) /\ clients \in Seq(Peers)
      BY <2>1 DEF ConnInv, Shape
    <3>. QED  BY <3>1, PositionOf, SeqMember, SeqShape, SMTT(30) DEF ConnInv
  <2>3. Range(clients') = Range(clients) \ {cur}
    <3>1. clients \in Seq(Peers) /\ Distinct(clients)  BY SMTT(30) DEF ConnInv, Shape
    <3>2. i \in DOMAIN clients /\ clients[i] = cur  BY <2>2, <3>1, PositionOf, SMTT(30)
    <3>. HIDE DEF i
    <3>. QED  BY <2>1, <3>1, <3>2, UnlinkRemoves, SMTT(30)
  <2>4. /\ events' \in [Peers -> [EventTypes -> Nat]]
        /\ \A p \in Peers : p # cur => events'[p] = events[p]
        /\ events'[cur]["connect"] = events[cur]["connect"] + 0
        /\ events'[cur]["disconnect"] = events[cur]["disconnect"] + 1
    <3>1. "connect" \in EventTypes /\ "disconnect" \in EventTypes /\ "connect" # "disconnect"
      BY ServerAssumption
    <3>. QED  BY <2>1, <2>2, <3>1, Announced, SMTT(30)
  <2>5. ASSUME state = "running", NEW p \in Peers, p # cur PROVE Told(p)'
    <3>1. Told(p)  BY <2>5 DEF EventInv
    <3>. QED  BY <2>1, <2>3, <2>4, <2>5, <3>1, SMTT(30) DEF Told
  <2>6. ASSUME state = "running" PROVE Told(cur)'
    <3>1. Told(cur)  BY <2>2, <2>6, SMTT(30) DEF EventInv
    <3>2. events[cur]["connect"] = 1 /\ events[cur]["disconnect"] = 0  BY <2>2, <3>1, SMTT(30) DEF Told
    <3>3. cur \notin Range(clients') /\ cur \notin Range(backlog') /\ cur \notin open'
      BY <2>1, <2>2, <2>3
    <3>. QED  BY <2>1, <2>4, <3>2, <3>3, SMTT(30) DEF Told
  <2>. QED  BY <2>1, <2>4, <2>5, <2>6, SMTT(30) DEF EventInv
<1>. QED
  BY <1>1, <1>2, <1>3, <1>4, <1>5, <1>6, <1>7, <1>8, SMTT(30) DEF Next, ServerStep

(***************************************************************************)
(* The application is told of each client once when it comes and once when *)
(* it has left, in this order, and never of a connection that did not      *)
(* finish its handshake (isz_accept_connection, isz_client_cleanup).       *)
(***************************************************************************)
THEOREM EventsAlwaysBalanced == Spec => []EventsBalanced
<1>1. Init => EventInv
  <2>1. Range(<< >>) = {}  BY DEF Range
  <2>. QED  BY <2>1, ServerAssumption DEF Init, EventInv, Told
<1>2. ConnInv /\ [Next]_vars => ConnInv'  BY NextConns
<1>3. ConnInv /\ EventInv /\ [Next]_vars => EventInv'  BY NextEvents
<1>4. EventInv => EventsBalanced
  <2>1. ASSUME EventInv, state = "running", NEW p \in Peers
        PROVE  /\ events[p]["connect"] <= 1
               /\ events[p]["connect"] - events[p]["disconnect"] =
                     IF p \in Range(clients) THEN 1 ELSE 0
    <3>1. Told(p)  BY <2>1, SMTT(30) DEF EventInv
    <3>2. events[p]["connect"] \in Nat /\ events[p]["disconnect"] \in Nat
      BY <2>1, ServerAssumption, SMTT(30) DEF EventInv
    <3>. QED  BY <3>1, <3>2 DEF Told
  <2>. QED  BY <2>1, SMTT(30) DEF EventsBalanced
<1>. QED  BY InitConns, <1>1, <1>2, <1>3, <1>4, PTL DEF Spec

-----------------------------------------------------------------------------
(* The allowlist                                                           *)

\* The check of isz_allowlist_check errs on the safe side only.
LEMMA AllowedEntitled == \A p : Allowed(p) => Entitled(p)
<1>1. ASSUME NEW p, NEW i \in 1 .. Len(cgroups), NEW j \in 1 .. Len(PeerCgroups[p]),
             Within(PeerCgroups[p][j], cgroups[i])
      PROVE  Below(PeerCgroups[p][j], cgroups[i])
  <2>1. CASE cgroups[i] = << >>  BY <1>1, <2>1, EmptyShape, SMTT(30) DEF Within, Below
  <2>2. CASE cgroups[i] # << >>  BY <1>1, <2>2 DEF Within
  <2>. QED  BY <2>1, <2>2, SMTT(30)
<1>. QED  BY <1>1, ZenonT(30) DEF Allowed, Entitled, MatchesCgroup

GateInv == GateKept /\ cgroups \in Seq(Paths)

(* Entries are only added while a connection is open. *)
LEMMA NextGate == ASSUME ConnInv, GateInv, [Next]_vars PROVE GateInv'
<1>1. CASE \/ Listen \/ Subscribe \/ Unsubscribe \/ Receive \/ Callback \/ Dispatch \/ Route
           \/ AcceptDone \/ AcceptRefused \/ HandshakeFails \/ HandshakeDone
           \/ ReceiveDone \/ ReceiveEnds \/ UNCHANGED vars
           \/ \E p \in Peers : Connect(p) \/ Reply(p) \/ Request(p) \/ Hangup(p)
  <2>1. UNCHANGED <<binaries, cgroups>> /\ open' \subseteq open
    BY <1>1, ZenonT(30) DEF Listen, Subscribe, Unsubscribe, Receive, Callback, Dispatch, Route,
          AcceptDone, AcceptRefused, HandshakeFails, HandshakeDone, ReceiveDone, ReceiveEnds,
          Connect, Reply, Request, Hangup, vars, srvVars, listVars
  <2>. QED  BY <2>1, ZenonT(30) DEF GateInv, GateKept, Entitled
<1>2. CASE AcceptAllowed
  <2>1. /\ open' = open \cup {Head(backlog)} /\ Allowed(Head(backlog))
        /\ UNCHANGED <<binaries, cgroups>>
    BY <1>2 DEF AcceptAllowed, listVars
  <2>. QED  BY <2>1, AllowedEntitled, ZenonT(30) DEF GateInv, GateKept, Entitled
<1>3. CASE Allow
  <2>1. open' = open  BY <1>3 DEF Allow, srvVars
  <2>2. ASSUME NEW b, AddBinary(b) PROVE GateInv'
    BY <2>1, <2>2, ZenonT(30) DEF AddBinary, GateInv, GateKept, Entitled
  <2>3. ASSUME NEW c \in Paths, AddCgroup(c) PROVE GateInv'
    <3>1. /\ cgroups' \in Seq(Paths) /\ Len(cgroups') = Len(cgroups) + 1
          /\ \A i \in 1 .. Len(cgroups) : cgroups'[i] = cgroups[i]
      BY <2>3, AppendShape, SMTT(30) DEF AddCgroup, GateInv
    <3>2. 1 .. Len(cgroups) \subseteq 1 .. Len(cgroups')
      BY <3>1, SeqShape DEF GateInv
    <3>3. binaries' = binaries  BY <2>3 DEF AddCgroup
    <3>4. ASSUME NEW p, Entitled(p) PROVE Entitled(p)'
      BY <3>1, <3>2, <3>3, <3>4, ZenonT(30) DEF Entitled
    <3>. QED  BY <2>1, <3>1, <3>4, ZenonT(30) DEF GateInv, GateKept
  <2>. QED  BY <1>3, <2>2, <2>3, SMTT(30) DEF Allow
<1>4. CASE Destroy
  <2>1. open' = {}  BY <1>4 DEF Destroy, ConnInv
  <2>2. cgroups' \in Seq(Paths)  BY <1>4, EmptyShape, SMTT(30) DEF Destroy
  <2>. QED  BY <2>1, <2>2, SMTT(30) DEF GateInv, GateKept
<1>. QED  BY <1>1, <1>2, <1>3, <1>4, ZenonT(30) DEF Next, ServerStep

(***************************************************************************)
(* Nobody but a peer the documented rule entitles gets as far as the       *)
(* handshake or stays connected, whatever the application adds to the list *)
(* in the meantime (isz_accept_connection, isz_allowlist_check).           *)
(***************************************************************************)
THEOREM GateAlwaysKept == Spec => []GateKept
<1>1. Init => GateInv  BY EmptyShape DEF Init, AllowInit, GateInv, GateKept
<1>2. ConnInv /\ [Next]_vars => ConnInv'  BY NextConns
<1>3. ConnInv /\ GateInv /\ [Next]_vars => GateInv'  BY NextGate
<1>4. GateInv => GateKept  BY DEF GateInv
<1>. QED  BY InitConns, <1>1, <1>2, <1>3, <1>4, PTL DEF Spec

-----------------------------------------------------------------------------
(* The walk over the listeners                                             *)

\* A node is registered once.
BusInv ==
    /\ bucket \in [EventTypes -> Seq(Nodes)]
    /\ \A t \in EventTypes : Distinct(bucket[t])
    /\ \A t, u \in EventTypes : t # u => Range(bucket[t]) \cap Range(bucket[u]) = {}

\* A walk over b has called what is before the node it saved, and none of the
\* rest; when it has saved the head of the list, nothing that is due is left.
Walking(b, called, due, next) ==
    /\ called \subseteq Range(b) /\ due \subseteq Range(b)
    /\ next = Nil => due \subseteq called
    /\ next # Nil => \E q \in DOMAIN b :
                       b[q] = next /\ \A i \in DOMAIN b : i < q <=> b[i] \in called

WalkInv ==
    /\ BusInv
    /\ pc \in {"out", "handshake", "recv"} => walk = Idle
    /\ walk # Idle => /\ walk.type \in EventTypes
                      /\ Walking(bucket[walk.type], walk.called, walk.due, walk.next)
                      /\ walk = [type |-> walk.type, pos |-> walk.pos, next |-> walk.next,
                                 called |-> walk.called, due |-> walk.due]

LEMMA IdleType == Idle.type = Nil /\ \A t \in EventTypes : t # Nil
  BY ListenersAssumption, SMTT(30) DEF Idle

\* The call of the node at q0 moves the walk one place on.
LEMMA CallWalks ==
    ASSUME BusInv, NEW t \in EventTypes, NEW q0 \in DOMAIN bucket[t],
           NEW called, called \subseteq Range(bucket[t]),
           NEW due, due \subseteq Range(bucket[t]),
           \A i \in DOMAIN bucket[t] : i < q0 <=> bucket[t][i] \in called,
           CallNode(t, bucket[t][q0], called, due)
    PROVE  /\ walk' # Idle /\ walk'.type = t
           /\ Walking(bucket[t], walk'.called, walk'.due, walk'.next)
           /\ walk' = [type |-> walk'.type, pos |-> walk'.pos, next |-> walk'.next,
                       called |-> walk'.called, due |-> walk'.due]
<1>. DEFINE b == bucket[t]
            n == b[q0]
            s == Successor(b, n)
<1>1. b \in Seq(Nodes) /\ Distinct(b)  BY SMTT(30) DEF BusInv
<1>2. Len(b) \in Nat /\ DOMAIN b = 1 .. Len(b) /\ \A i \in DOMAIN b : b[i] \in Nodes
  BY <1>1, SeqShape, SeqMember, ZenonT(30)
<1>3. n \in Nodes /\ n # Nil /\ \A i \in DOMAIN b : b[i] # Nil  BY <1>2, ListenersAssumption, SMTT(30)
<1>4. walk' = [type |-> t, pos |-> n, next |-> s, called |-> called \cup {n}, due |-> due]
  BY <1>3, SMTT(30) DEF CallNode
<1>5. Position(b, n) = q0
  <2>1. n \in Range(b)  BY SMTT(30) DEF Range
  <2>. HIDE DEF b, n
  <2>2. Position(b, n) \in DOMAIN b /\ b[Position(b, n)] = n  BY <1>1, <2>1, PositionOf
  <2>. QED  BY <1>1, <2>2, SMTT(30) DEF Distinct, n, b
<1>6. s = IF q0 = Len(b) THEN Nil ELSE b[q0 + 1]
  <2>. HIDE DEF b, n
  <2>. QED  BY <1>5, ZenonT(30) DEF Successor
<1>7. n \in Range(b)  BY DEF Range
<1>8. \A i \in DOMAIN b : b[i] \in called \cup {n} <=> i < q0 \/ i = q0
  BY <1>1, SMTT(30) DEF Distinct
<1>9. Walking(b, called \cup {n}, due, s)
  <2>1. CASE q0 = Len(b)
    <3>1. s = Nil  BY <1>6, <2>1, SMTT(30)
    <3>2. \A i \in DOMAIN b : b[i] \in called \cup {n}  BY <1>2, <1>8, <2>1, SMTT(30)
    <3>3. Range(b) \subseteq called \cup {n}  BY <3>2, SMTT(30) DEF Range
    <3>. HIDE DEF b, n, s
    <3>4. due \subseteq Range(b) /\ called \subseteq Range(b)  BY SMTT(30) DEF b
    <3>. QED  BY <1>7, <3>1, <3>3, <3>4, SMTT(30) DEF Walking
  <2>2. CASE q0 # Len(b)
    <3>1. q0 + 1 \in DOMAIN b /\ s = b[q0 + 1]  BY <1>2, <1>6, <2>2, SMTT(30)
    <3>2. s # Nil  BY <1>3, <3>1, SMTT(30)
    <3>3. \A i \in DOMAIN b : i < q0 + 1 <=> b[i] \in called \cup {n}  BY <1>2, <1>8, SMTT(30)
    <3>. HIDE DEF b, n, s
    <3>4. due \subseteq Range(b) /\ called \subseteq Range(b)  BY DEF b
    <3>. QED  BY <1>7, <3>1, <3>2, <3>3, <3>4, SMTT(30) DEF Walking
  <2>. QED  BY <2>1, <2>2, SMTT(30)
<1>10. walk' # Idle  BY <1>4, IdleType, SMTT(30)
<1>. HIDE DEF b, n, s
<1>. QED  BY <1>4, <1>9, <1>10, ZenonT(30) DEF b

\* isz_server_emit_event enters the walk at the first node.
LEMMA EmitWalks ==
    ASSUME BusInv, NEW t \in EventTypes, Emit(t), UNCHANGED bucket
    PROVE  walk' # Idle => /\ walk'.type = t
                           /\ Walking(bucket[t], walk'.called, walk'.due, walk'.next)
                           /\ walk' = [type |-> walk'.type, pos |-> walk'.pos, next |-> walk'.next,
                                       called |-> walk'.called, due |-> walk'.due]
<1>1. CASE bucket[t] = <<>>  BY <1>1, SMTT(30) DEF Emit, CallNode
<1>2. CASE bucket[t] # <<>>
  <2>1. bucket[t] \in Seq(Nodes)  BY DEF BusInv
  <2>2. 1 \in DOMAIN bucket[t] /\ \A i \in DOMAIN bucket[t] : ~(i < 1)
    BY <1>2, <2>1, EmptyShape, SeqShape, SMTT(30)
  <2>. DEFINE none == {}
              all == Range(bucket[t])
  <2>3. CallNode(t, bucket[t][1], none, all)  BY <1>2 DEF Emit
  <2>4. \A i \in DOMAIN bucket[t] : i < 1 <=> bucket[t][i] \in none  BY <2>2, SMTT(30)
  <2>5. none \subseteq Range(bucket[t]) /\ all \subseteq Range(bucket[t])  BY SMTT(30)
  <2>. HIDE DEF none, all
  <2>. QED  BY <2>2, <2>3, <2>4, <2>5, CallWalks, ZenonT(30)
<1>. QED  BY <1>1, <1>2, SMTT(30)

\* The callback returns: one place on, or the end with nothing left over.
LEMMA ReturnWalks ==
    ASSUME WalkInv, CallbackReturns
    PROVE  /\ walk' # Idle =>
                 /\ walk'.type \in EventTypes
                 /\ Walking(bucket[walk'.type], walk'.called, walk'.due, walk'.next)
                 /\ walk' = [type |-> walk'.type, pos |-> walk'.pos, next |-> walk'.next,
                             called |-> walk'.called, due |-> walk'.due]
           /\ walk' = Idle => walk.due \subseteq walk.called
<1>. DEFINE t == walk.type
<1>1. /\ walk # Idle /\ t \in EventTypes /\ BusInv
      /\ Walking(bucket[t], walk.called, walk.due, walk.next)
      /\ CallNode(t, walk.next, walk.called, walk.due)
  BY SMTT(30) DEF WalkInv, CallbackReturns
<1>2. CASE walk.next = Nil
  <2>1. walk' = Idle  BY <1>1, <1>2, SMTT(30) DEF CallNode
  <2>. QED  BY <1>1, <1>2, <2>1, SMTT(30) DEF Walking
<1>3. CASE walk.next # Nil
  <2>1. PICK q \in DOMAIN bucket[t] :
           bucket[t][q] = walk.next /\ \A i \in DOMAIN bucket[t] : i < q <=> bucket[t][i] \in walk.called
    <3>1. Walking(bucket[t], walk.called, walk.due, walk.next)  BY <1>1
    <3>. HIDE DEF t
    <3>. QED  BY <1>3, <3>1, ZenonT(30) DEF Walking
  <2>2. walk.called \subseteq Range(bucket[t]) /\ walk.due \subseteq Range(bucket[t])
    BY <1>1, ZenonT(30) DEF Walking
  <2>3. CallNode(t, bucket[t][q], walk.called, walk.due)  BY <1>1, <2>1, SMTT(30)
  <2>. QED  BY <1>1, <2>1, <2>2, <2>3, CallWalks, SMTT(30)
<1>. QED  BY <1>2, <1>3, SMTT(30)

\* isz_add_listener: a new node goes behind the walk's end.
LEMMA AddWalks ==
    ASSUME WalkInv, NEW t \in EventTypes, NEW f \in Fns, AddListener(t, f), UNCHANGED pc
    PROVE  WalkInv'
<1>. DEFINE n == CHOOSE x \in Nodes : x \notin Registered
            b == bucket[t]
<1>1. /\ bucket' = [bucket EXCEPT ![t] = Append(bucket[t], n)]
      /\ walk' = walk /\ Nodes # Registered
  BY SMTT(30) DEF AddListener
<1>2. bucket \in [EventTypes -> Seq(Nodes)] /\ Distinct(b) /\ b \in Seq(Nodes)
  BY SMTT(30) DEF WalkInv, BusInv
<1>3. \A u \in EventTypes : Range(bucket[u]) \subseteq Nodes
  BY <1>2, SeqMember, SeqShape DEF Range
<1>4. n \in Nodes /\ n \notin Registered
  <2>1. \E x \in Nodes : x \notin Registered  BY <1>1, <1>3 DEF Registered
  <2>. QED  BY <2>1, ZenonT(30)
<1>. HIDE DEF n
<1>5. \A u \in EventTypes : n \notin Range(bucket[u])  BY <1>4 DEF Registered
<1>6. /\ Append(b, n) \in Seq(Nodes) /\ Distinct(Append(b, n))
      /\ Range(Append(b, n)) = Range(b) \cup {n}
  BY <1>2, <1>4, <1>5, AppendAdds, SMTT(30)
<1>7. \A u \in EventTypes : bucket'[u] = IF u = t THEN Append(b, n) ELSE bucket[u]
  BY <1>1, <1>2, SMTT(30)
<1>. HIDE DEF b
<1>8. BusInv'
  <2>1. bucket' \in [EventTypes -> Seq(Nodes)]  BY <1>1, <1>2, <1>6, SMTT(30) DEF b
  <2>2. \A u \in EventTypes : Distinct(bucket'[u])  BY <1>6, <1>7, SMTT(30) DEF WalkInv, BusInv
  <2>3. \A u, v \in EventTypes : u # v => Range(bucket'[u]) \cap Range(bucket'[v]) = {}
    BY <1>5, <1>6, <1>7, SMTT(30) DEF WalkInv, BusInv, b
  <2>. QED  BY <2>1, <2>2, <2>3, SMTT(30) DEF BusInv
<1>9. ASSUME NEW called, NEW due, NEW next, Walking(b, called, due, next)
      PROVE  Walking(Append(b, n), called, due, next)
  <2>1. called \subseteq Range(b) /\ due \subseteq Range(b)  BY <1>9 DEF Walking
  <2>2. n \notin called  BY <1>5, <2>1, SMTT(30) DEF b
  <2>3. /\ Len(b) \in Nat /\ DOMAIN b = 1 .. Len(b) /\ DOMAIN Append(b, n) = 1 .. Len(b) + 1
        /\ \A i \in 1 .. Len(b) : Append(b, n)[i] = b[i]
        /\ Append(b, n)[Len(b) + 1] = n
    BY <1>2, <1>4, <1>6, AppendShape, SeqShape, SMTT(30)
  <2>4. ASSUME NEW q \in DOMAIN b, b[q] = next, \A i \in DOMAIN b : i < q <=> b[i] \in called
        PROVE  /\ q \in DOMAIN Append(b, n) /\ Append(b, n)[q] = next
               /\ \A i \in DOMAIN Append(b, n) : i < q <=> Append(b, n)[i] \in called
    <3>1. q \in DOMAIN Append(b, n) /\ Append(b, n)[q] = next  BY <2>3, <2>4, SMTT(30)
    <3>2. ASSUME NEW i \in DOMAIN b PROVE i < q <=> Append(b, n)[i] \in called
      BY <2>3, <2>4, SMTT(30)
    <3>3. Len(b) + 1 < q <=> Append(b, n)[Len(b) + 1] \in called  BY <2>2, <2>3, SMTT(30)
    <3>4. \A i \in DOMAIN Append(b, n) : i \in DOMAIN b \/ i = Len(b) + 1  BY <2>3, SMTT(30)
    <3>. QED  BY <3>1, <3>2, <3>3, <3>4, SMTT(30)
  <2>. QED  BY <1>6, <1>9, <2>1, <2>4, SMTT(30) DEF Walking
<1>10. ASSUME walk' # Idle
       PROVE  walk'.type \in EventTypes /\ Walking(bucket'[walk'.type], walk'.called, walk'.due, walk'.next)
  <2>1. walk.type \in EventTypes /\ Walking(bucket[walk.type], walk.called, walk.due, walk.next)
    BY <1>1, <1>10, SMTT(30) DEF WalkInv
  <2>2. CASE walk.type = t
    BY <1>1, <1>7, <1>9, <2>1, <2>2, SMTT(30) DEF b
  <2>3. CASE walk.type # t  BY <1>1, <1>7, <2>1, <2>3, SMTT(30)
  <2>. QED  BY <2>2, <2>3, SMTT(30)
<1>. QED  BY <1>1, <1>8, <1>10 DEF WalkInv

\* isz_remove_listener, of listeners the walk has called: what is left of the
\* list keeps its order, and the walk its place.
LEMMA RemoveWalks ==
    ASSUME WalkInv, NEW t \in EventTypes, NEW f \in Fns, Behind(t, f), RemoveListener(t, f),
           UNCHANGED pc
    PROVE  WalkInv' /\ (walk' = Idle => walk = Idle)
<1>. DEFINE gone == Matching(t, f)
            b == bucket[t]
            kept == {i \in DOMAIN b : b[i] \notin gone}
            r == Picked(b, kept)
<1>1. /\ bucket' = [bucket EXCEPT ![t] = r]
      /\ walk' = [walk EXCEPT !.called = walk.called \ gone, !.due = walk.due \ gone]
  BY SMTT(30) DEF RemoveListener
<1>2. bucket \in [EventTypes -> Seq(Nodes)] /\ Distinct(b) /\ b \in Seq(Nodes)
  BY DEF WalkInv, BusInv
<1>3. gone \subseteq Range(b)  BY SMTT(30) DEF Matching
<1>4. kept \in SUBSET DOMAIN b /\ {b[i] : i \in kept} = Range(b) \ gone  BY SMTT(30) DEF Range
<1>5. r \in Seq(Nodes) /\ Distinct(r) /\ Range(r) = Range(b) \ gone /\ InOrder(b, kept, r)
  <2>. HIDE DEF kept, b
  <2>1. b \in Seq(Nodes) /\ Distinct(b) /\ kept \in SUBSET DOMAIN b  BY <1>2, <1>4
  <2>2. /\ Picked(b, kept) \in Seq(Nodes) /\ Distinct(Picked(b, kept))
        /\ Range(Picked(b, kept)) = {b[i] : i \in kept}
        /\ InOrder(b, kept, Picked(b, kept))
    BY <2>1, PickedKeeps, ZenonT(60)
  <2>. QED  BY <1>4, <2>2, ZenonT(60)
<1>6. \A i \in kept : b[i] \notin gone  OBVIOUS
<1>7. \A q \in DOMAIN b : b[q] \notin gone => q \in kept  OBVIOUS
<1>8. \A u \in EventTypes : bucket'[u] = IF u = t THEN r ELSE bucket[u]  BY <1>1, <1>2, SMTT(30)
<1>. HIDE DEF gone, r, kept
<1>9. BusInv'
  <2>1. bucket' \in [EventTypes -> Seq(Nodes)]  BY <1>1, <1>2, <1>5, SMTT(30)
  <2>2. \A u \in EventTypes : Distinct(bucket'[u])  BY <1>5, <1>8, SMTT(30) DEF WalkInv, BusInv
  <2>3. \A u \in EventTypes : Range(bucket'[u]) \subseteq Range(bucket[u])  BY <1>5, <1>8, SMTT(30)
  <2>4. \A u, v \in EventTypes : u # v => Range(bucket[u]) \cap Range(bucket[v]) = {}
    BY SMTT(30) DEF WalkInv, BusInv
  <2>5. \A u, v \in EventTypes : u # v => Range(bucket'[u]) \cap Range(bucket'[v]) = {}
    BY <2>3, <2>4, SMTT(30)
  <2>. QED  BY <2>1, <2>2, <2>5 DEF BusInv
<1>10. CASE walk = Idle
  <2>1. walk' = Idle  BY <1>1, <1>10, ZenonT(30) DEF Idle
  <2>. QED  BY <1>9, <1>10, <2>1 DEF WalkInv
<1>11. CASE walk # Idle
  <2>. DEFINE u == walk.type
              c == walk.called
              d == walk.due
              x == walk.next
  <2>1. /\ u \in EventTypes /\ Walking(bucket[u], c, d, x)
        /\ walk = [type |-> u, pos |-> walk.pos, next |-> x, called |-> c, due |-> d]
    BY <1>11 DEF WalkInv
  <2>2. walk' = [type |-> u, pos |-> walk.pos, next |-> x, called |-> c \ gone, due |-> d \ gone]
    BY <1>1, <2>1, ZenonT(30)
  <2>3. walk' # Idle  BY <2>1, <2>2, IdleType, SMTT(30)
  <2>. HIDE DEF u, c, d, x
  <2>4. c \subseteq Range(bucket[u]) /\ d \subseteq Range(bucket[u]) /\ (x = Nil => d \subseteq c)
    BY <2>1, SMTT(30) DEF Walking
  <2>5. ASSUME u = t PROVE Walking(bucket'[u], c \ gone, d \ gone, x)
    <3>1. gone \subseteq c  BY <2>5 DEF Behind, gone, u, c
    <3>2. c \ gone \subseteq Range(r) /\ d \ gone \subseteq Range(r)
      BY <1>5, <2>4, <2>5, SMTT(30)
    <3>3. ASSUME x # Nil
          PROVE  \E k \in DOMAIN r : r[k] = x /\ \A i \in DOMAIN r : i < k <=> r[i] \in c \ gone
      <4>1. PICK q \in DOMAIN b : b[q] = x /\ \A i \in DOMAIN b : i < q <=> b[i] \in c
        BY <2>1, <2>5, <3>3, SMTT(30) DEF Walking
      <4>2. q \in Nat  BY <1>2, SeqShape, SMTT(30)
      <4>3. q \in kept
        <5>1. ~(q < q)  BY <4>2, SMTT(30)
        <5>. QED  BY <1>7, <3>1, <4>1, <5>1, SMTT(30)
      <4>4. PICK k \in DOMAIN r :
               /\ r[k] = b[q]
               /\ \A i \in DOMAIN r : \E j \in kept : r[i] = b[j] /\ (i < k <=> j < q)
        BY <1>5, <4>3, SMTT(30) DEF InOrder
      <4>5. ASSUME NEW i \in DOMAIN r PROVE i < k <=> r[i] \in c \ gone
        <5>1. PICK j \in kept : r[i] = b[j] /\ (i < k <=> j < q)  BY <4>4, SMTT(30)
        <5>2. j \in DOMAIN b /\ b[j] \notin gone  BY <1>4, <1>6, SMTT(30)
        <5>. QED  BY <4>1, <5>1, <5>2, SMTT(30)
      <4>. QED  BY <4>1, <4>4, <4>5, SMTT(30)
    <3>4. Walking(r, c \ gone, d \ gone, x)  BY <2>4, <3>2, <3>3, SMTT(30) DEF Walking
    <3>. QED  BY <1>8, <2>1, <2>5, <3>4, SMTT(30)
  <2>6. ASSUME u # t PROVE Walking(bucket'[u], c \ gone, d \ gone, x)
    <3>1. Range(bucket[u]) \cap gone = {}  BY <1>3, <2>1, <2>6, SMTT(30) DEF WalkInv, BusInv
    <3>2. c \ gone = c /\ d \ gone = d  BY <2>4, <3>1, SMTT(30)
    <3>. QED  BY <1>8, <2>1, <2>6, <3>2, SMTT(30)
  <2>7. Walking(bucket'[u], c \ gone, d \ gone, x)  BY <2>5, <2>6, SMTT(30)
  <2>. QED  BY <1>9, <1>11, <2>1, <2>2, <2>3, <2>7, SMTT(30) DEF WalkInv
<1>. QED  BY <1>10, <1>11

\* The step of RoundComplete.
Round == walk # Idle /\ walk' = Idle => walk.due \subseteq walk.called

(* The walk and the lists stay as they are. *)
LEMMA SameWalk ==
    ASSUME WalkInv, UNCHANGED <<bucket, walk>>,
           pc' \in {"out", "handshake", "recv"} => walk = Idle
    PROVE  WalkInv' /\ Round
<1>1. BusInv'  BY ZenonT(30) DEF WalkInv, BusInv
<1>. QED  BY <1>1 DEF WalkInv, Round

(* Every step keeps the walk, and a walk that ends is complete. *)
LEMMA NextWalk == ASSUME WalkInv, [Next]_vars PROVE WalkInv' /\ Round
<1>1. CASE \/ Listen \/ Allow \/ Receive
           \/ UNCHANGED vars \/ \E p \in Peers : Connect(p) \/ Reply(p) \/ Request(p) \/ Hangup(p)
  <2>1. UNCHANGED <<bucket, walk, pc>>
    BY <1>1, ZenonT(30) DEF Listen, Allow, Receive, Connect, Reply, Request, Hangup, vars,
                            srvVars, busVars
  <2>. QED  BY <2>1, SameWalk DEF WalkInv
<1>2. CASE \/ Dispatch \/ Route \/ AcceptDone \/ AcceptRefused \/ AcceptAllowed
           \/ HandshakeFails \/ ReceiveDone
  <2>1. UNCHANGED <<bucket, walk>>
    BY <1>2, ZenonT(30) DEF Dispatch, Route, AcceptDone, AcceptRefused, AcceptAllowed,
                            HandshakeFails, ReceiveDone, busVars
  <2>2. walk = Idle
    <3>1. walk = Idle \/ pc \in {"out", "handshake", "recv"}
      BY <1>2, SMTT(30) DEF Dispatch, Route, AcceptDone, AcceptRefused, AcceptAllowed, HandshakeFails,
                  ReceiveDone
    <3>. QED  BY <3>1, SMTT(30) DEF WalkInv
  <2>. QED  BY <2>1, <2>2, SameWalk
<1>3. ASSUME HandshakeDone \/ ReceiveEnds PROVE WalkInv' /\ Round
  <2>1. PICK t \in EventTypes : Emit(t)
    BY <1>3, ServerAssumption, SMTT(30) DEF HandshakeDone, ReceiveEnds, Announce
  <2>2. UNCHANGED bucket /\ pc' \in {"accept", "batch"} /\ pc \in {"handshake", "recv"}
    BY <1>3, SMTT(30) DEF HandshakeDone, ReceiveEnds, Announce
  <2>3. walk = Idle /\ BusInv  BY <2>2 DEF WalkInv
  <2>4. BusInv'  BY <2>2, <2>3, ZenonT(30) DEF BusInv
  <2>5. walk' # Idle => /\ walk'.type = t
                        /\ Walking(bucket[t], walk'.called, walk'.due, walk'.next)
                        /\ walk' = [type |-> walk'.type, pos |-> walk'.pos, next |-> walk'.next,
                                    called |-> walk'.called, due |-> walk'.due]
    BY <2>1, <2>2, <2>3, EmitWalks, SMTT(30)
  <2>. QED  BY <2>2, <2>3, <2>4, <2>5, SMTT(30) DEF WalkInv, Round
<1>4. CASE Callback
  <2>1. CallbackReturns /\ UNCHANGED <<bucket, pc>>
    BY <1>4 DEF Callback, CallbackReturns, srvVars
  <2>2. walk # Idle /\ BusInv /\ BusInv'
    <3>1. walk # Idle /\ BusInv  BY <2>1, SMTT(30) DEF CallbackReturns, WalkInv
    <3>. QED  BY <2>1, <3>1, ZenonT(30) DEF BusInv
  <2>3. pc' \notin {"out", "handshake", "recv"}  BY <2>1, <2>2, SMTT(30) DEF WalkInv
  <2>. QED  BY <2>1, <2>2, <2>3, ReturnWalks, SMTT(30) DEF WalkInv, Round
<1>5. CASE Subscribe
  <2>1. PICK t \in EventTypes, f \in Fns : AddListener(t, f)  BY <1>5, SMTT(30) DEF Subscribe
  <2>2. UNCHANGED <<pc, walk>>  BY <1>5, <2>1, SMTT(30) DEF Subscribe, srvVars, AddListener
  <2>3. WalkInv'  BY <2>1, <2>2, AddWalks, SMTT(30)
  <2>. QED  BY <2>2, <2>3 DEF Round
<1>6. CASE Unsubscribe
  <2>1. PICK t \in EventTypes, f \in Fns : Behind(t, f) /\ RemoveListener(t, f)
    BY <1>6, SMTT(30) DEF Unsubscribe
  <2>2. UNCHANGED pc  BY <1>6, SMTT(30) DEF Unsubscribe, srvVars
  <2>. QED  BY <2>1, <2>2, RemoveWalks, SMTT(30) DEF Round
<1>7. CASE Destroy
  <2>1. /\ pc = "out" /\ pc' = pc /\ walk' = walk /\ bucket' = [t \in EventTypes |-> <<>>]
    BY <1>7, SMTT(30) DEF Destroy
  <2>2. walk = Idle  BY <2>1 DEF WalkInv
  <2>3. << >> \in Seq(Nodes) /\ Distinct(<< >>) /\ Range(<< >>) = {}
    BY EmptyShape, SMTT(30) DEF Distinct, Range
  <2>4. BusInv'  BY <2>1, <2>3 DEF BusInv
  <2>. QED  BY <2>1, <2>2, <2>4, SMTT(30) DEF WalkInv, Round
<1>. QED
  BY <1>1, <1>2, <1>3, <1>4, <1>5, <1>6, <1>7, ZenonT(30) DEF Next, ServerStep

(***************************************************************************)
(* A walk of isz_server_emit_event calls every listener that stays         *)
(* registered all through it, however many listeners the callbacks add and *)
(* whichever of those already called they remove.                          *)
(***************************************************************************)
THEOREM RoundsAlwaysComplete == Spec => RoundComplete
<1>1. Init => WalkInv
  <2>1. << >> \in Seq(Nodes) /\ Distinct(<< >>) /\ Range(<< >>) = {}
    BY EmptyShape, SMTT(30) DEF Distinct, Range
  <2>. QED  BY <2>1 DEF Init, BusInit, WalkInv, BusInv
<1>2. WalkInv /\ [Next]_vars => WalkInv' /\ [Round]_vars  BY NextWalk
<1>. QED  BY <1>1, <1>2, PTL DEF Spec, RoundComplete, Round
=============================================================================
