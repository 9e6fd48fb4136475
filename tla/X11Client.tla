------------------------------ MODULE X11Client ------------------------------
(***************************************************************************)
(* The X11 side of the bridge (x11bridge/x11_client.c, translation.c and   *)
(* the senders of isz_client.c): the window table of every connected       *)
(* client, the handlers of the requests on windows, the messages they send *)
(* to the Ishizue server, and the input events forwarded the other way.    *)
(* A handler runs to its end before the next request is read, so it is one *)
(* action.                                                                 *)
(***************************************************************************)
EXTENDS Integers, Sequences, FiniteSets, FiniteSetsExt

CONSTANTS
    Clients,   \* the bridge's client slots, 1 .. X11_MAX_CLIENTS
    Xids,      \* the resource ids the clients choose
    Root,      \* X11_ROOT_WINDOW_ID
    Names,     \* the window ids requests name: Xids, or the root's too
    MaxWin,    \* X11_CLIENT_MAX_WIN
    Malformed, \* the ways a request may be malformed: "short", "value", "list"
    Masks,     \* the event classes a client may select
    Geoms,     \* the geometries a client may ask for
    ZMax,      \* the largest int32_t
    SeqWrap,   \* 2^16: a sequence number is a uint16_t
    Observe,   \* the kinds of answers kept: "error", "reply", "event"
    MaxId,     \* bound: surfaces created
    WireBound, \* bound: messages the server has not read
    None

ASSUME ConstantsOK ==
    /\ MaxWin \in Nat \ {0} /\ ZMax \in Nat /\ SeqWrap \in Nat \ {0}
    /\ Root \notin Xids /\ Names \subseteq Xids \cup {Root}

VARIABLES
    windows,   \* windows[c]: the window table of client c, None if it is closed
    seq,       \* seq[c]: the client's sequence counter
    nextId,    \* next_surface_id of the connection to the server
    iszDead,   \* a send to the server has failed: so will every later one
    wire,      \* the messages sent to the server and not yet read by it
    out        \* what the last request or input event sent to its client

cvars == <<windows, seq, nextId, iszDead, wire, out>>

Slots == 1 .. MaxWin

\* x11_client_new_window: struct x11_window, less what no handler here reads.
NewWindow(x, p, m, g) ==
    [xid |-> x, parent |-> p, mask |-> m, geom |-> g, mapped |-> FALSE,
     surf |-> 0, out |-> FALSE, z |-> 0]

\* The table do_setup leaves: the root in the first slot, mapped, no surface.
SetupTable ==
    [i \in Slots |->
        IF i = 1 THEN [NewWindow(Root, None, {}, CHOOSE g \in Geoms : TRUE)
                       EXCEPT !.mapped = TRUE]
        ELSE None]

Open(c) == windows[c] # None

InUse(c) == {i \in Slots : windows[c][i] # None}

\* x11_client_find_window: the first slot in use with this id.
SlotsOf(c, x) == {i \in InUse(c) : windows[c][i].xid = x}
Find(c, x) == windows[c][Min(SlotsOf(c, x))]
Known(c, x) == SlotsOf(c, x) # {}

\* x11_client_new_window takes the first free slot.
FreeSlots(c) == Slots \ InUse(c)

\* x11_client_first_mapped: the first mapped window in slot order.
MappedSlots(c) == {i \in InUse(c) : windows[c][i].mapped}

-----------------------------------------------------------------------------
(* Answers and messages                                                    *)

Error(code, s) == [kind |-> "error", what |-> code, seq |-> s]
Event(what, s) == [kind |-> "event", what |-> what, seq |-> s]

Silence == [to |-> None, msgs |-> <<>>]
Answer(c, msgs) == 
    LET kept == SelectSeq(msgs, LAMBDA m : m.kind \in Observe) IN
      out' = IF kept = <<>> THEN Silence ELSE [to |-> c, msgs |-> kept]

\* translation_deliver_event: an event goes to its window only if the client
\* selected its class there.
Deliverable(win, class, what, s) ==
    IF class \in win.mask THEN <<Event(what, s)>> ELSE <<>>

\* A commit changes no surface, and the server refuses message 51, which the
\* bridge takes for SET_OUTPUT.
Unfollowed == {"commit", "set_output"}

\* isz_client_send, once per message: the first failure breaks the
\* connection, and the messages after it are lost.  The messages that change
\* no surface (Unfollowed, and a focus on nothing) leave no trace on the wire.
Tell(msgs) ==
    LET followed == SelectSeq(msgs, LAMBDA m : m.op \notin Unfollowed /\ m.id # 0) IN
      \E k \in 0 .. Len(followed) :
          /\ iszDead => k = 0
          /\ wire' = wire \o SubSeq(followed, 1, k)
          /\ iszDead' = (iszDead \/ k < Len(followed))

Msg(op, id) == [op |-> op, id |-> id]
Commit == <<Msg("commit", 0)>>

\* SET_POSITION and SET_SIZE, and SET_PLANE_TYPE and SET_PLANE_SLOT, are always
\* sent together: one message stands for both.
Geometry(id, g) == <<[op |-> "geometry", id |-> id, geom |-> g]>>
Plane(id) == <<Msg("plane", id)>>

\* The first of the handler's checks that fails decides the error.
FirstError(checks) ==
    LET failed == {i \in DOMAIN checks : checks[i][1]} IN
      IF failed = {} THEN None ELSE checks[Min(failed)][2]

\* The prologue of x11_client_dispatch_request takes the next sequence number;
\* a failed check answers with an error and changes nothing else.
Refuse(c, checks) ==
    /\ Open(c) /\ FirstError(checks) # None
    /\ seq' = [seq EXCEPT ![c] = (@ + 1) % SeqWrap]
    /\ Answer(c, <<Error(FirstError(checks), seq[c])>>)
    /\ UNCHANGED <<windows, nextId, iszDead, wire>>

Accept(c, checks) ==
    /\ Open(c) /\ FirstError(checks) = None
    /\ seq' = [seq EXCEPT ![c] = (@ + 1) % SeqWrap]

-----------------------------------------------------------------------------
(* Requests on windows                                                     *)

\* A request may be malformed in one way, bad: shorter than its fixed part
\* ("short"), shorter than its list ("list"), or with a field out of its range
\* ("value").  CreateWindow's class is such a field.
CreateWindowChecks(c, bad, x) ==
    <<<<bad = "short", "Length">>, <<bad = "value", "Value">>, <<bad = "list", "Length">>,
      <<Known(c, x), "IDChoice">>, <<FreeSlots(c) = {}, "Alloc">>>>

\* translation_on_x11_create_window: a child of the root gets a surface,
\* whose number the bridge counts itself.
\* Mutant: the window keeps the counter's value after the request, not before.
MutCreateSurface(c, i, win) ==
    /\ nextId' = nextId + 1
    /\ Tell(<<Msg("create", nextId)>> \o Geometry(nextId, win.geom))
    /\ LET sent == Len(wire') > Len(wire) IN
         windows' = [windows EXCEPT
                        ![c][i] = [win EXCEPT !.surf = IF sent THEN nextId' ELSE 0]]

CreateSurface(c, i, win) ==
    /\ nextId' = nextId + 1
    /\ Tell(<<Msg("create", nextId)>> \o Geometry(nextId, win.geom))
    /\ LET sent == Len(wire') > Len(wire) IN
         windows' = [windows EXCEPT
                        ![c][i] = [win EXCEPT !.surf = IF sent THEN nextId ELSE 0]]

CreateWindow(c, bad, x, p, m, g) ==
    LET checks == CreateWindowChecks(c, bad, x) IN
      \/ Refuse(c, checks)
      \/ /\ Accept(c, checks)
         /\ Answer(c, <<>>)
         /\ LET win == NewWindow(x, p, m, g)
                i == Min(FreeSlots(c)) IN
              IF p = Root
              THEN nextId <= MaxId /\ CreateSurface(c, i, win)
              ELSE /\ windows' = [windows EXCEPT ![c][i] = win]
                   /\ UNCHANGED <<nextId, iszDead, wire>>

\* ChangeWindowAttributes parses its list into the window itself: the values
\* before the end of a short list stay.
ChangeWindowAttributes(c, bad, x, m) ==
    LET checks == <<<<bad = "short", "Length">>, <<~Known(c, x), "Window">>>> IN
      \/ Refuse(c, checks)
      \/ /\ Accept(c, checks)
         /\ Answer(c, IF bad = "list" THEN <<Error("Length", seq[c])>> ELSE <<>>)
         /\ windows' = [windows EXCEPT ![c][Min(SlotsOf(c, x))].mask = m]
         /\ UNCHANGED <<nextId, iszDead, wire>>

\* MapWindow and translation_on_x11_map_window.
MapWindow(c, bad, x) ==
    LET checks == <<<<bad = "short", "Length">>, <<~Known(c, x), "Window">>>> IN
      \/ Refuse(c, checks)
      \/ /\ Accept(c, checks) /\ Find(c, x).mapped
         /\ Answer(c, <<>>)
         /\ UNCHANGED <<windows, nextId, iszDead, wire>>
      \/ /\ Accept(c, checks) /\ ~Find(c, x).mapped
         /\ LET win == Find(c, x)
                hasSurface == win.surf # 0 IN
              /\ windows' = [windows EXCEPT
                    ![c][Min(SlotsOf(c, x))] =
                        [win EXCEPT !.mapped = TRUE, !.out = hasSurface]]
              /\ Tell(IF hasSurface
                      THEN Plane(win.surf) \o <<Msg("set_output", win.surf)>> \o Commit
                      ELSE <<>>)
              /\ Answer(c, Deliverable(win, "structure", "MapNotify", seq[c]))
         /\ UNCHANGED nextId

\* UnmapWindow and translation_on_x11_unmap_window.
UnmapWindow(c, bad, x) ==
    LET checks == <<<<bad = "short", "Length">>, <<~Known(c, x), "Window">>>> IN
      \/ Refuse(c, checks)
      \/ /\ Accept(c, checks) /\ ~Find(c, x).mapped
         /\ Answer(c, <<>>)
         /\ UNCHANGED <<windows, nextId, iszDead, wire>>
      \/ /\ Accept(c, checks) /\ Find(c, x).mapped
         /\ LET win == Find(c, x) IN
              /\ windows' = [windows EXCEPT
                    ![c][Min(SlotsOf(c, x))] =
                        [win EXCEPT !.mapped = FALSE, !.out = FALSE]]
              /\ Tell((IF win.surf # 0 /\ win.out
                       THEN <<Msg("set_output", win.surf)>> \o Commit ELSE <<>>)
                      \o (IF win.surf # 0 THEN <<Msg("focus", 0)>> ELSE <<>>))
              /\ Answer(c, Deliverable(win, "structure", "UnmapNotify", seq[c]))
         /\ UNCHANGED nextId

\* Signed 32-bit arithmetic as the build performs it.
WrapZ(z) == ((z + ZMax + 1) % (2 * ZMax + 2)) - ZMax - 1

StackModes == {"above", "below", "topIf", "bottomIf", "opposite"}

Restack(mode, z) ==
    CASE mode = "above" -> WrapZ(z + 1)
      [] mode = "below" -> WrapZ(z - 1)
      [] mode = "topIf" -> ZMax
      [] mode = "bottomIf" -> -ZMax - 1
      [] mode = "opposite" -> WrapZ(-z)
      [] OTHER -> z

\* The stacking positions ConfigureWindow may give x.  A list that ends early
\* leaves the fields it does not reach (mode None), and a window without a
\* surface keeps its position.
Stackings(c, x) ==
    IF ~Open(c) \/ ~Known(c, x) THEN {0}
    ELSE LET win == Find(c, x) IN
           {IF win.surf # 0 THEN Restack(mode, win.z) ELSE win.z :
              mode \in StackModes \cup {None}}

\* ConfigureWindow and translation_on_x11_configure_window.
\* Mutant: the new stacking position is kept but not sent.
MutConfigureWindow(c, bad, x, g, z) ==
    LET checks == <<<<bad = "short", "Length">>, <<~Known(c, x), "Window">>>> IN
      \/ Refuse(c, checks)
      \/ /\ Accept(c, checks)
         /\ LET win == Find(c, x) IN
              /\ windows' = [windows EXCEPT ![c][Min(SlotsOf(c, x))] =
                                [win EXCEPT !.geom = g, !.z = z]]
              /\ Tell(IF win.surf = 0 THEN <<>>
                      ELSE Geometry(win.surf, g)
                           \o (IF win.out THEN Commit ELSE <<>>))
              /\ Answer(c, Deliverable(win, "structure", "ConfigureNotify", seq[c]))
         /\ UNCHANGED nextId

ConfigureWindow(c, bad, x, g, z) ==
    LET checks == <<<<bad = "short", "Length">>, <<~Known(c, x), "Window">>>> IN
      \/ Refuse(c, checks)
      \/ /\ Accept(c, checks)
         /\ LET win == Find(c, x) IN
              /\ windows' = [windows EXCEPT ![c][Min(SlotsOf(c, x))] =
                                [win EXCEPT !.geom = g, !.z = z]]
              /\ Tell(IF win.surf = 0 THEN <<>>
                      ELSE (IF z # win.z
                            THEN <<[op |-> "zpos", id |-> win.surf, z |-> z]>>
                            ELSE <<>>)
                           \o Geometry(win.surf, g)
                           \o (IF win.out THEN Commit ELSE <<>>))
              /\ Answer(c, Deliverable(win, "structure", "ConfigureNotify", seq[c]))
         /\ UNCHANGED nextId

\* The slots in S as a sequence, in table order.
InOrder(S) == [k \in 1 .. Cardinality(S) |->
                 CHOOSE i \in S : Cardinality({j \in S : j < i}) = k - 1]

\* The windows DestroyWindow removes: the window, then those whose parent it is.
Doomed(c, x) ==
    LET i == Min(SlotsOf(c, x)) IN
      <<i>> \o InOrder({j \in InUse(c) \ {i} : windows[c][j].parent = x})

DestroySurfaces(c, slots) ==
    LET withSurface == SelectSeq(slots, LAMBDA i : windows[c][i].surf # 0) IN
      [k \in DOMAIN withSurface |-> Msg("destroy", windows[c][withSurface[k]].surf)]

\* DestroyWindow and translation_on_x11_destroy_window.
\* Mutant: the slot of an unmapped window is freed without a message.
MutDestroyWindow(c, bad, x) ==
    LET checks == <<<<bad = "short", "Length">>, <<~Known(c, x), "Window">>>> IN
      \/ Refuse(c, checks)
      \/ /\ Accept(c, checks)
         /\ LET doomed == Doomed(c, x) IN
              /\ Tell(DestroySurfaces(c, SelectSeq(doomed,
                                        LAMBDA i : windows[c][i].mapped)))
              /\ windows' = [windows EXCEPT ![c] =
                    [i \in Slots |-> IF \E k \in DOMAIN doomed : doomed[k] = i
                                     THEN None ELSE @[i]]]
         /\ Answer(c, Deliverable(Find(c, x), "structure", "DestroyNotify", seq[c]))
         /\ UNCHANGED nextId

DestroyWindow(c, bad, x) ==
    LET checks == <<<<bad = "short", "Length">>, <<~Known(c, x), "Window">>>> IN
      \/ Refuse(c, checks)
      \/ /\ Accept(c, checks)
         /\ LET doomed == Doomed(c, x) IN
              /\ Tell(DestroySurfaces(c, doomed))
              /\ windows' = [windows EXCEPT ![c] =
                    [i \in Slots |-> IF \E k \in DOMAIN doomed : doomed[k] = i
                                     THEN None ELSE @[i]]]
         /\ Answer(c, Deliverable(Find(c, x), "structure", "DestroyNotify", seq[c]))
         /\ UNCHANGED nextId

\* SetInputFocus: None clears the focus at the server, PointerRoot leaves it,
\* a window without a surface clears it too.  focus_xid is stored and never
\* read.
SetInputFocus(c, bad, x) ==
    LET checks == <<<<bad = "value", "Value">>, <<bad = "short", "Length">>,
                    <<x \in Xids \cup {Root} /\ ~Known(c, x), "Window">>>> IN
      \/ Refuse(c, checks)
      \/ /\ Accept(c, checks)
         /\ Tell(CASE x = "PointerRoot" -> <<>>
                   [] x = None -> <<Msg("focus", 0)>>
                   [] OTHER -> <<Msg("focus", Find(c, x).surf)>>)
         /\ Answer(c, <<>>)
         /\ UNCHANGED <<windows, nextId>>

-----------------------------------------------------------------------------
(* Connections and input                                                   *)

\* on_x11_accept takes the first free client slot and do_setup registers the
\* root window.
Connect(c) ==
    /\ ~Open(c) /\ \A d \in Clients : d < c => Open(d)
    /\ windows' = [windows EXCEPT ![c] = SetupTable]
    /\ seq' = [seq EXCEPT ![c] = 1 % SeqWrap]
    /\ out' = Silence
    /\ UNCHANGED <<nextId, iszDead, wire>>

\* x11_client_destroy frees the table; the client's surfaces stay at the
\* server, for no message destroys them.
Disconnect(c) ==
    /\ Open(c)
    /\ windows' = [windows EXCEPT ![c] = None]
    /\ out' = Silence
    /\ UNCHANGED <<seq, nextId, iszDead, wire>>

\* find_target: the first client with a mapped window, and its first one.
Targets == {c \in Clients : Open(c) /\ MappedSlots(c) # {}}

\* translation_forward_keyboard_key, _pointer_motion and _pointer_button:
\* fill_input_event takes a sequence number for the event.
ForwardInput ==
    /\ Targets # {}
    /\ LET c == Min(Targets) IN
         /\ seq' = [seq EXCEPT ![c] = (@ + 1) % SeqWrap]
         /\ Answer(c, <<Event(windows[c][Min(MappedSlots(c))].xid, seq[c])>>)
    /\ UNCHANGED <<windows, nextId, iszDead, wire>>

ClientInit ==
    /\ windows = [c \in Clients |-> None]
    /\ seq = [c \in Clients |-> 1 % SeqWrap]
    /\ nextId = 1 /\ iszDead = FALSE /\ wire = <<>> /\ out = Silence

WindowRequest(c) ==
    \E bad \in Malformed \cup {None}, x \in Names :
        \/ \E p \in Xids \cup {Root}, m \in SUBSET Masks, g \in Geoms :
              CreateWindow(c, bad, x, p, m, g)
        \/ \E m \in SUBSET Masks : ChangeWindowAttributes(c, bad, x, m)
        \/ MapWindow(c, bad, x)
        \/ UnmapWindow(c, bad, x)
        \/ DestroyWindow(c, bad, x)
        \/ \E g \in Geoms, z \in Stackings(c, x) : ConfigureWindow(c, bad, x, g, z)
        \/ \E f \in {x, None, "PointerRoot"} : SetInputFocus(c, bad, f)
=============================================================================
