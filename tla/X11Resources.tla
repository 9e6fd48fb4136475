---------------------------- MODULE X11Resources ----------------------------
(***************************************************************************)
(* The rest of x11_client_dispatch_request: properties, selections, atoms, *)
(* the resources a client names by its own ids (graphics contexts,         *)
(* pixmaps, colormaps, fonts, cursors), images, and the queries.  A client *)
(* has its own tables and its requests touch no other's, so requests are   *)
(* followed for each client apart; only the atoms are shared.              *)
(*                                                                         *)
(* A reply keeps what frames it on the stream: the bytes written and the   *)
(* length field the builders of x11_proto.c put in it.  A well-formed      *)
(* request may still meet a failed allocation: bad is then "memory".       *)
(***************************************************************************)
EXTENDS X11Client, SequencesExt

CONSTANTS
    Atoms,     \* the atoms requests use for properties and selections
    Types,     \* the type and format pairs of property values
    Units,     \* the bytes of property values
    Times,     \* the timestamps of SetSelectionOwner, 0 included
    Predefined,\* the names of the predefined atoms
    Strings,   \* the names InternAtom is asked for
    Long,      \* the bytes of the unit GetProperty counts in (4)
    MaxProp,   \* X11_PROP_MAX_BYTES
    MaxProps,  \* X11_CLIENT_MAX_PROPS: properties of a window
    MaxSels,   \* X11_CLIENT_MAX_SELS
    MaxRes,    \* the length of each table of resources
    ResBound   \* bound: resources a client holds in all the tables together

ASSUME ResourceConstantsOK ==
    /\ Long \in Nat \ {0} /\ {MaxProp, MaxProps, MaxSels, MaxRes} \subseteq Nat
    /\ 0 \in Times /\ Times \subseteq Nat

VARIABLES
    tab,      \* tab[c]: the tables of client c
    dynamic,  \* the atoms interned after the predefined ones, in order
    claims    \* history: <<c, selection, window>>, a window that took a
              \* selection and was not told that it lost it

rvars == <<tab, dynamic, claims>>
vars == <<cvars, rvars>>

EmptyTables ==
    [props |-> [i \in Slots |-> << >>], image |-> [i \in Slots |-> FALSE],
     sels |-> << >>, gcs |-> << >>, pixmaps |-> {}, cmaps |-> {},
     fonts |-> {}, cursors |-> {}]

Dom(f) == DOMAIN f
With(f, k, v) == [j \in Dom(f) \cup {k} |-> IF j = k THEN v ELSE f[j]]
Without(f, k) == [j \in Dom(f) \ {k} |-> f[j]]

\* x11_client_check_drawable.
Drawable(c, x) == x = Root \/ Known(c, x) \/ x \in tab[c].pixmaps

\* QueryFont and QueryTextExtents take a font or a graphics context.
Fontable(c, x) == x \in tab[c].fonts \cup Dom(tab[c].gcs)

Held(c) == Cardinality(tab[c].pixmaps) + Cardinality(tab[c].cmaps)
           + Cardinality(tab[c].fonts) + Cardinality(tab[c].cursors)
           + Cardinality(Dom(tab[c].gcs))

Short(bad) == <<bad = "short", "Length">>
ShortList(bad) == <<bad = "list", "Length">>
BadValue(bad) == <<bad = "value", "Value">>
NoAtom(bad) == <<bad = "atom", "Atom">>
NoWindow(c, x) == <<~Known(c, x), "Window">>
NoDrawable(c, x) == <<~Drawable(c, x), "Drawable">>
NoGC(c, x) == <<x \notin Dom(tab[c].gcs), "GContext">>

\* A request that changes no table: an error, or these answers.
Query(c, checks, msgs) ==
    /\ \/ Refuse(c, checks)
       \/ /\ Accept(c, checks) /\ Answer(c, msgs)
          /\ UNCHANGED <<windows, nextId, iszDead, wire>>
    /\ UNCHANGED rvars

\* A request that changes the client's tables to t.
Change(c, checks, t, msgs) ==
    \/ Refuse(c, checks) /\ UNCHANGED rvars
    \/ /\ Accept(c, checks) /\ Answer(c, msgs)
       /\ tab' = [tab EXCEPT ![c] = t]
       /\ UNCHANGED <<windows, nextId, iszDead, wire, dynamic, claims>>

-----------------------------------------------------------------------------
(* Replies and events                                                      *)

Pad(n) == ((n + 3) \div 4) * 4

Framed(what, bytes, units, s) ==
    [kind |-> "reply", what |-> what, bytes |-> bytes, units |-> units, seq |-> s]

\* The replies of 32 bytes with nothing after them.
Plain(what, s) == Framed(what, 32, 0, s)

GetGeometryReply(s) == Plain("GetGeometry", s)
InternAtomReply(s) == Plain("InternAtom", s)
GetPropertyReply(n, s) == Framed("GetProperty", 32 + Pad(n), Pad(n) \div 4, s)
GetWindowAttributesReply(s) == Framed("GetWindowAttributes", 44, 9, s)
QueryTreeReply(n, s) == Framed("QueryTree", 32 + 4 * n, 6 + n, s)
GetAtomNameReply(n, s) == Framed("GetAtomName", 32 + Pad(n), Pad(n) \div 4 + 6, s)
GetSelectionOwnerReply(s) == Plain("GetSelectionOwner", s)
QueryPointerReply(s) == Plain("QueryPointer", s)
QueryBestSizeReply(s) == Framed("QueryBestSize", 16, 0, s)

PropertyNotify(win, s) == Deliverable(win, "property", "PropertyNotify", s)
Expose(win, s) == Deliverable(win, "exposure", "Expose", s)
NoExpose(s) == <<Event("NoExpose", s)>>
\* Sent whatever the window selected, if the window is still there.
SelectionClear(c, x, s) == IF Known(c, x) THEN <<Event("SelectionClear", s)>> ELSE <<>>

-----------------------------------------------------------------------------
(* Atoms: one table for the whole bridge                                   *)

\* x11_atom_intern: a known name keeps its atom; only_if_exists adds none, and
\* neither does a failed allocation, which the reply does not tell.
Interned == Predefined \cup Range(dynamic)

InternAtom(c, bad, name, onlyIfExists) ==
    LET checks == <<Short(bad), ShortList(bad)>> IN
      \/ Refuse(c, checks) /\ UNCHANGED rvars
      \/ /\ Accept(c, checks)
         /\ Answer(c, <<InternAtomReply(seq[c])>>)
         /\ dynamic' = IF name \in Interned \/ onlyIfExists \/ bad = "memory" THEN dynamic
                       ELSE Append(dynamic, name)
         /\ UNCHANGED <<windows, nextId, iszDead, wire, tab, claims>>

\* x11_atom_get_name.  The names here fill one unit of four bytes.
GetAtomName(c, bad, name) ==
    Query(c, <<Short(bad), NoAtom(bad), <<name \notin Interned, "Atom">>>>,
          <<GetAtomNameReply(1, seq[c])>>)

-----------------------------------------------------------------------------
(* Properties                                                              *)

Values == BoundedSeq(Units, MaxProp)
Modes == {"replace", "append", "prepend"}

Slot(c, x) == Min(SlotsOf(c, x))
PropsOf(c, x) == tab[c].props[Slot(c, x)]
HasProp(c, x, a) == Known(c, x) /\ a \in Dom(PropsOf(c, x))

\* ChangeProperty stores a value into a slot that was free whatever the mode.
\* Replacing frees the old value before it allocates the new one (lost).
NewValue(old, mode, val) ==
    CASE mode = "append" -> old \o val
      [] mode = "prepend" -> val \o old
      [] OTHER -> val

\* Mutant: the old value is dropped before the types are compared.
MutChangeProperty(c, bad, x, a, type, val, mode) ==
    LET joins == HasProp(c, x, a) /\ mode # "replace"
        old == IF joins THEN PropsOf(c, x)[a] ELSE [type |-> type, val |-> <<>>]
        new == NewValue(old.val, mode, val)
        checks == <<Short(bad), BadValue(bad), NoAtom(bad), ShortList(bad),
                    <<bad = "long", "Alloc">>, NoWindow(c, x),
                    <<Known(c, x) /\ ~HasProp(c, x, a)
                        /\ Cardinality(Dom(PropsOf(c, x))) = MaxProps, "Alloc">>,
                    <<joins /\ old.type # type, "Match">>,
                    <<joins /\ Len(new) > MaxProp, "Alloc">>>> IN
      \/ /\ Refuse(c, checks) /\ UNCHANGED <<dynamic, claims>>
         /\ tab' = IF joins /\ old.type # type
                   THEN [tab EXCEPT ![c].props[Slot(c, x)] = Without(@, a)] ELSE tab
      \/ /\ Accept(c, checks)
         /\ Answer(c, PropertyNotify(Find(c, x), seq[c]))
         /\ tab' = [tab EXCEPT ![c].props[Slot(c, x)] =
                       With(@, a, [type |-> type, val |-> new])]
         /\ UNCHANGED <<windows, nextId, iszDead, wire, dynamic, claims>>

ChangeProperty(c, bad, x, a, type, val, mode) ==
    LET joins == HasProp(c, x, a) /\ mode # "replace"
        old == IF joins THEN PropsOf(c, x)[a] ELSE [type |-> type, val |-> <<>>]
        new == NewValue(old.val, mode, val)
        checks == <<Short(bad), BadValue(bad), NoAtom(bad), ShortList(bad),
                    <<bad = "long", "Alloc">>, NoWindow(c, x),
                    <<Known(c, x) /\ ~HasProp(c, x, a)
                        /\ Cardinality(Dom(PropsOf(c, x))) = MaxProps, "Alloc">>,
                    <<joins /\ old.type # type, "Match">>,
                    <<joins /\ (Len(new) > MaxProp \/ bad = "memory"), "Alloc">>>>
        lost == ~joins /\ val # <<>> /\ bad = "memory" IN
      \/ Refuse(c, checks) /\ UNCHANGED rvars
      \/ /\ Accept(c, checks) /\ lost
         /\ Answer(c, <<Error("Alloc", seq[c])>>)
         /\ tab' = [tab EXCEPT ![c].props[Slot(c, x)] = Without(@, a)]
         /\ UNCHANGED <<windows, nextId, iszDead, wire, dynamic, claims>>
      \/ /\ Accept(c, checks) /\ ~lost
         /\ Answer(c, PropertyNotify(Find(c, x), seq[c]))
         /\ tab' = [tab EXCEPT ![c].props[Slot(c, x)] =
                       With(@, a, [type |-> type, val |-> new])]
         /\ UNCHANGED <<windows, nextId, iszDead, wire, dynamic, claims>>

\* The part of a value GetProperty returns, and what it says is left.
\* Mutant: the length is not converted to bytes.
MutSlice(val, offset, length) ==
    LET from == offset * Long
        avail == IF from < Len(val) THEN Len(val) - from ELSE 0
        n == Min({avail, length}) IN
      [part |-> SubSeq(val, from + 1, from + n), after |-> avail - n]

Slice(val, offset, length) ==
    LET from == offset * Long
        avail == IF from < Len(val) THEN Len(val) - from ELSE 0
        n == Min({avail, length * Long}) IN
      [part |-> SubSeq(val, from + 1, from + n), after |-> avail - n]

\* type None is AnyType.  The reply goes out before the property is deleted.
GetProperty(c, bad, x, a, type, offset, length, delete) ==
    LET checks == <<Short(bad), NoWindow(c, x)>>
        found == HasProp(c, x, a) /\ type \in {None, PropsOf(c, x)[a].type}
        slice == Slice(PropsOf(c, x)[a].val, offset, length)
        gone == found /\ delete /\ slice.after = 0 IN
      Change(c, checks,
             IF gone THEN [tab[c] EXCEPT !.props[Slot(c, x)] = Without(@, a)]
                     ELSE tab[c],
             <<GetPropertyReply(IF found THEN Len(slice.part) ELSE 0, seq[c])>>
             \o IF gone THEN PropertyNotify(Find(c, x), seq[c]) ELSE <<>>)

DeleteProperty(c, bad, x, a) ==
    LET was == HasProp(c, x, a) IN
      Change(c, <<Short(bad), NoAtom(bad), NoWindow(c, x)>>,
             IF was THEN [tab[c] EXCEPT !.props[Slot(c, x)] = Without(@, a)]
                    ELSE tab[c],
             IF was THEN PropertyNotify(Find(c, x), seq[c]) ELSE <<>>)

-----------------------------------------------------------------------------
(* Selections                                                              *)

OwnerOf(c, a) == IF a \in Dom(tab[c].sels) THEN tab[c].sels[a].owner ELSE None

\* A claim with an older time than the owner's is ignored without an answer.
Stale(c, a, time) ==
    /\ a \in Dom(tab[c].sels)
    /\ time # 0 /\ tab[c].sels[a].time # 0 /\ time < tab[c].sels[a].time

\* What SetSelectionOwner stores; releasing an unknown selection stores nothing.
Owned(c, a, x, time) ==
    IF x = None /\ a \notin Dom(tab[c].sels) THEN tab[c]
    ELSE [tab[c] EXCEPT !.sels = With(@, a, [owner |-> x, time |-> time])]

\* Mutant: only a new owner's claim tells the previous one.
MutSetSelectionOwner(c, bad, x, a, time) ==
    LET stale == Stale(c, a, time)
        checks == <<Short(bad), NoAtom(bad),
                    <<~stale /\ x # None /\ ~Known(c, x), "Window">>,
                    <<~stale /\ x # None /\ a \notin Dom(tab[c].sels)
                        /\ Cardinality(Dom(tab[c].sels)) = MaxSels, "Alloc">>>>
        old == OwnerOf(c, a)
        told == IF old \notin {None, x} /\ x # None
                THEN SelectionClear(c, old, seq[c]) ELSE <<>> IN
      \/ Refuse(c, checks) /\ UNCHANGED rvars
      \/ /\ Accept(c, checks) /\ stale
         /\ Answer(c, <<>>)
         /\ UNCHANGED <<windows, nextId, iszDead, wire, rvars>>
      \/ /\ Accept(c, checks) /\ ~stale
         /\ Answer(c, told)
         /\ tab' = [tab EXCEPT ![c] = Owned(c, a, x, time)]
         /\ claims' = (claims \ {k \in {<<c, a, old>>} : told # <<>>})
                         \cup {k \in {<<c, a, x>>} : x # None}
         /\ UNCHANGED <<windows, nextId, iszDead, wire, dynamic>>

SetSelectionOwner(c, bad, x, a, time) ==
    LET stale == Stale(c, a, time)
        checks == <<Short(bad), NoAtom(bad),
                    <<~stale /\ x # None /\ ~Known(c, x), "Window">>,
                    <<~stale /\ x # None /\ a \notin Dom(tab[c].sels)
                        /\ Cardinality(Dom(tab[c].sels)) = MaxSels, "Alloc">>>>
        old == OwnerOf(c, a)
        told == IF old \notin {None, x} THEN SelectionClear(c, old, seq[c]) ELSE <<>> IN
      \/ Refuse(c, checks) /\ UNCHANGED rvars
      \/ /\ Accept(c, checks) /\ stale
         /\ Answer(c, <<>>)
         /\ UNCHANGED <<windows, nextId, iszDead, wire, rvars>>
      \/ /\ Accept(c, checks) /\ ~stale
         /\ Answer(c, told)
         /\ tab' = [tab EXCEPT ![c] = Owned(c, a, x, time)]
         /\ claims' = (claims \ {k \in {<<c, a, old>>} : told # <<>>})
                         \cup {k \in {<<c, a, x>>} : x # None}
         /\ UNCHANGED <<windows, nextId, iszDead, wire, dynamic>>

\* The owner is returned even after its window was destroyed.
GetSelectionOwner(c, bad) ==
    Query(c, <<Short(bad), NoAtom(bad)>>, <<GetSelectionOwnerReply(seq[c])>>)

-----------------------------------------------------------------------------
(* Resources named by the client                                           *)

Taken(ids, x) == <<x \in ids, "IDChoice">>
Full(ids) == <<Cardinality(ids) >= MaxRes, "Alloc">>

\* CreateGC takes its slot before it checks its value list: after that error
\* the context exists, with the default graphics_exposure.
CreateGC(c, bad, x, d, exposure) ==
    LET checks == <<Short(bad), NoDrawable(c, d), Taken(Dom(tab[c].gcs), x),
                    Full(Dom(tab[c].gcs))>> IN
      Change(c, checks,
             [tab[c] EXCEPT !.gcs = With(@, x, bad = "list" \/ exposure)],
             IF bad = "list" THEN <<Error("Length", seq[c])>> ELSE <<>>)

FreeGC(c, bad, x) ==
    Change(c, <<Short(bad), NoGC(c, x)>>, [tab[c] EXCEPT !.gcs = Without(@, x)], <<>>)

CreatePixmap(c, bad, x, d) ==
    Change(c, <<Short(bad), NoDrawable(c, d), Taken(tab[c].pixmaps, x),
                Full(tab[c].pixmaps)>>,
           [tab[c] EXCEPT !.pixmaps = @ \cup {x}], <<>>)

FreePixmap(c, bad, x) ==
    Change(c, <<Short(bad), <<x \notin tab[c].pixmaps, "Pixmap">>>>,
           [tab[c] EXCEPT !.pixmaps = @ \ {x}], <<>>)

CreateColormap(c, bad, x, w) ==
    Change(c, <<Short(bad), BadValue(bad),
                <<w # Root /\ ~Known(c, w), "Window">>,
                Taken(tab[c].cmaps, x), Full(tab[c].cmaps)>>,
           [tab[c] EXCEPT !.cmaps = @ \cup {x}], <<>>)

FreeColormap(c, bad, x) ==
    Change(c, <<Short(bad), <<x \notin tab[c].cmaps, "Colormap">>>>,
           [tab[c] EXCEPT !.cmaps = @ \ {x}], <<>>)

OpenFont(c, bad, x) ==
    Change(c, <<Short(bad), ShortList(bad), <<bad = "long", "Name">>,
                Taken(tab[c].fonts, x), Full(tab[c].fonts)>>,
           [tab[c] EXCEPT !.fonts = @ \cup {x}], <<>>)

\* Closing a font that is not open is no error.
CloseFont(c, bad, x) ==
    Change(c, <<Short(bad)>>, [tab[c] EXCEPT !.fonts = @ \ {x}], <<>>)

\* mask None: the cursor has no mask.
CreateCursor(c, bad, x, src, mask) ==
    Change(c, <<Short(bad), Taken(tab[c].cursors, x),
                <<src \notin tab[c].pixmaps, "Pixmap">>,
                <<mask \notin tab[c].pixmaps \cup {None}, "Pixmap">>,
                Full(tab[c].cursors)>>,
           [tab[c] EXCEPT !.cursors = @ \cup {x}], <<>>)

CreateGlyphCursor(c, bad, x, src, mask) ==
    Change(c, <<Short(bad), Taken(tab[c].cursors, x),
                <<src \notin tab[c].fonts, "Font">>,
                <<mask \notin tab[c].fonts \cup {None}, "Font">>,
                Full(tab[c].cursors)>>,
           [tab[c] EXCEPT !.cursors = @ \cup {x}], <<>>)

FreeCursor(c, bad, x) ==
    Change(c, <<Short(bad), <<x \notin tab[c].cursors, "Cursor">>>>,
           [tab[c] EXCEPT !.cursors = @ \ {x}], <<>>)

RecolorCursor(c, bad, x) ==
    Query(c, <<Short(bad), <<x \notin tab[c].cursors, "Cursor">>>>, <<>>)

-----------------------------------------------------------------------------
(* Images and drawing                                                      *)

\* PutImage keeps the data of a window; the root's and a pixmap's is dropped.
\* The image before is freed first.
PutImage(c, bad, d, empty) ==
    LET kept == d # Root /\ Known(c, d)
        lost == kept /\ ~empty /\ bad = "memory" IN
      Change(c, <<BadValue(bad), Short(bad), <<bad = "long", "Alloc">>, NoDrawable(c, d)>>,
             IF kept THEN [tab[c] EXCEPT !.image[Slot(c, d)] = ~empty /\ ~lost] ELSE tab[c],
             IF lost THEN <<Error("Alloc", seq[c])>> ELSE <<>>)

GetImage(c, bad, d, pixels) ==
    Query(c, <<BadValue(bad), Short(bad), NoDrawable(c, d), <<bad = "memory", "Alloc">>>>,
          <<Framed("GetImage", 32 + Pad(4 * pixels), Pad(4 * pixels) \div 4, seq[c])>>)

ClearArea(c, bad, x, exposures) ==
    Query(c, <<Short(bad), NoWindow(c, x)>>,
          IF exposures THEN Expose(Find(c, x), seq[c]) ELSE <<>>)

CopyArea(c, bad, src, dst, gc) ==
    Query(c, <<Short(bad), NoDrawable(c, src), NoDrawable(c, dst), NoGC(c, gc)>>,
          IF tab[c].gcs[gc] THEN <<>> ELSE NoExpose(seq[c]))

\* The requests the bridge checks and draws nothing for.
Draw(c, bad, d, gc) ==
    Query(c, <<Short(bad), NoDrawable(c, d), NoGC(c, gc)>>, <<>>)
PolyFillRectangle(c, bad, d, gc) == Draw(c, bad, d, gc)
PolyText8(c, bad, d, gc) == Draw(c, bad, d, gc)
PolyText16(c, bad, d, gc) == Draw(c, bad, d, gc)
ImageText8(c, bad, d, gc) == Draw(c, bad, d, gc)
ImageText16(c, bad, d, gc) == Draw(c, bad, d, gc)

-----------------------------------------------------------------------------
(* Queries                                                                 *)

GetGeometry(c, bad, d) ==
    Query(c, <<Short(bad), <<~Known(c, d), "Drawable">>>>, <<GetGeometryReply(seq[c])>>)

GetWindowAttributes(c, bad, x) ==
    Query(c, <<Short(bad), NoWindow(c, x)>>, <<GetWindowAttributesReply(seq[c])>>)

QueryTree(c, bad, x) ==
    Query(c, <<Short(bad), <<x # Root /\ ~Known(c, x), "Window">>>>,
          <<QueryTreeReply(Cardinality({i \in InUse(c) : windows[c][i].parent = x}),
                           seq[c])>>)

QueryPointer(c, bad, x) ==
    Query(c, <<Short(bad), <<x # Root /\ ~Known(c, x), "Window">>>>,
          <<QueryPointerReply(seq[c])>>)

\* m None: the default colormap.
NoColormap(c, m) == <<m \notin tab[c].cmaps \cup {None}, "Colormap">>

AllocColor(c, bad, m) ==
    Query(c, <<Short(bad), NoColormap(c, m)>>, <<Plain("AllocColor", seq[c])>>)

QueryColors(c, bad, m, n) ==
    Query(c, <<Short(bad), NoColormap(c, m), <<bad = "long", "Length">>>>,
          <<Framed("QueryColors", 32 + 8 * n, 2 * n, seq[c])>>)

LookupColor(c, bad, m) ==
    Query(c, <<Short(bad), NoColormap(c, m), BadValue(bad), ShortList(bad)>>,
          <<Plain("LookupColor", seq[c])>>)

QueryFont(c, bad, f) ==
    Query(c, <<Short(bad), <<~Fontable(c, f), "Font">>>>,
          <<Framed("QueryFont", 60, 13, seq[c])>>)

QueryTextExtents(c, bad, f) ==
    Query(c, <<Short(bad), <<~Fontable(c, f), "Font">>>>,
          <<Plain("QueryTextExtents", seq[c])>>)

ListFonts(c, bad) ==
    Query(c, <<Short(bad), ShortList(bad)>>, <<Plain("ListFonts", seq[c])>>)

ListFontsWithInfo(c, bad) ==
    Query(c, <<Short(bad), ShortList(bad)>>,
          <<Framed("ListFontsWithInfo", 60, 13, seq[c])>>)

SetFontPath(c, bad) == Query(c, <<Short(bad)>>, <<>>)
GetFontPath(c) == Query(c, <<>>, <<Plain("GetFontPath", seq[c])>>)

QueryBestSize(c, bad, d) ==
    Query(c, <<BadValue(bad), Short(bad), NoDrawable(c, d)>>,
          <<QueryBestSizeReply(seq[c])>>)

QueryExtension(c, bad) ==
    Query(c, <<Short(bad), ShortList(bad)>>, <<Plain("QueryExtension", seq[c])>>)
ListExtensions(c) == Query(c, <<>>, <<Plain("ListExtensions", seq[c])>>)
GetInputFocus(c) == Query(c, <<>>, <<Plain("GetInputFocus", seq[c])>>)

\* NoOperation, and every opcode the bridge does not handle: no answer.
NoOperation(c) == Query(c, <<>>, <<>>)

-----------------------------------------------------------------------------
(* Windows and connections, with their tables                              *)

\* Mutant: the image of a destroyed window stays allocated.
MutFreed(t, table) ==
    [t EXCEPT !.props = [i \in Slots |-> IF table[i] = None THEN << >> ELSE @[i]]]

\* x11_window_props_destroy and x11_window_backing_image_clear of the windows
\* that DestroyWindow removes.
Freed(t, table) ==
    [t EXCEPT !.props = [i \in Slots |-> IF table[i] = None THEN << >> ELSE @[i]],
              !.image = [i \in Slots |-> table[i] # None /\ @[i]]]

WindowStep(c, bad, x) ==
    \/ /\ \/ \E p \in Xids, m \in SUBSET Masks, g \in Geoms :
                CreateWindow(c, bad, x, p, m, g)
          \/ \E m \in SUBSET Masks : ChangeWindowAttributes(c, bad, x, m)
       /\ UNCHANGED rvars
    \/ /\ DestroyWindow(c, bad, x)
       /\ tab' = [tab EXCEPT ![c] = Freed(@, windows'[c])]
       /\ claims' = {k \in claims : k[1] = c => \E i \in Slots :
                          windows'[c][i] # None /\ windows'[c][i].xid = k[3]}
       /\ UNCHANGED dynamic

\* x11_client_destroy; a reply that cannot be written ends the connection too.
Close(c) ==
    /\ Disconnect(c)
    /\ tab' = [tab EXCEPT ![c] = EmptyTables]
    /\ claims' = {k \in claims : k[1] # c}
    /\ UNCHANGED dynamic

Init ==
    /\ ClientInit
    /\ tab = [c \in Clients |-> EmptyTables] /\ dynamic = <<>> /\ claims = {}

Bad(ways) == (ways \cap Malformed) \cup {None}

PropertyRequest(c) ==
    \E x \in Names, a \in Atoms, type \in Types :
        \/ \E bad \in Bad({"short", "value", "atom", "list", "long", "memory"}),
              val \in Values, mode \in Modes :
              ChangeProperty(c, bad, x, a, type, val, mode)
        \/ \E bad \in Bad({"short"}), delete \in BOOLEAN,
              t \in {type, None}, offset \in 0 .. 1 :
              GetProperty(c, bad, x, a, t, offset, 1, delete)
        \/ \E bad \in Bad({"short", "atom"}) : DeleteProperty(c, bad, x, a)

AtomRequest(c) ==
    \E name \in Strings :
        \/ \E bad \in Bad({"short", "list", "memory"}), onlyIfExists \in BOOLEAN :
              InternAtom(c, bad, name, onlyIfExists)
        \/ \E bad \in Bad({"short", "atom"}) : GetAtomName(c, bad, name)

SelectionRequest(c) ==
    \E bad \in Bad({"short", "atom"}) :
        \/ \E x \in Xids \cup {Root, None}, a \in Atoms, time \in Times :
              SetSelectionOwner(c, bad, x, a, time)
        \/ GetSelectionOwner(c, bad)

CreateRequest(c) ==
    /\ Held(c) < ResBound
    /\ \E bad \in Bad({"short", "list", "value", "long"}), x \in Xids :
          \/ \E d \in Xids \cup {Root} :
                \/ \E exposure \in BOOLEAN : CreateGC(c, bad, x, d, exposure)
                \/ CreatePixmap(c, bad, x, d)
                \/ CreateColormap(c, bad, x, d)
          \/ OpenFont(c, bad, x)
          \/ \E src \in Xids, mask \in Xids \cup {None} :
                CreateCursor(c, bad, x, src, mask) \/ CreateGlyphCursor(c, bad, x, src, mask)

FreeRequest(c) ==
    \E bad \in Bad({"short"}), x \in Xids :
        \/ FreeGC(c, bad, x) \/ FreePixmap(c, bad, x) \/ FreeColormap(c, bad, x)
        \/ CloseFont(c, bad, x) \/ FreeCursor(c, bad, x) \/ RecolorCursor(c, bad, x)

DrawRequest(c) ==
    \E d \in Xids \cup {Root} :
        \/ \E bad \in Bad({"short", "value", "long", "memory"}) :
              \/ \E empty \in BOOLEAN : PutImage(c, bad, d, empty)
              \/ \E pixels \in 0 .. 1 : GetImage(c, bad, d, pixels)
        \/ \E bad \in Bad({"short"}), exposures \in BOOLEAN :
              ClearArea(c, bad, d, exposures)
        \/ \E bad \in Bad({"short"}), gc \in Xids :
              \/ CopyArea(c, bad, d, d, gc)
              \/ PolyFillRectangle(c, bad, d, gc)
              \/ PolyText8(c, bad, d, gc) \/ PolyText16(c, bad, d, gc)
              \/ ImageText8(c, bad, d, gc) \/ ImageText16(c, bad, d, gc)

QueryRequest(c) ==
    \/ \E bad \in Bad({"short", "value", "list", "long"}) :
          \/ \E x \in Xids \cup {Root} :
                \/ GetGeometry(c, bad, x) \/ GetWindowAttributes(c, bad, x)
                \/ QueryTree(c, bad, x) \/ QueryPointer(c, bad, x)
                \/ QueryBestSize(c, bad, x)
          \/ \E m \in Xids \cup {None} :
                \/ AllocColor(c, bad, m) \/ LookupColor(c, bad, m)
                \/ \E n \in 0 .. 1 : QueryColors(c, bad, m, n)
          \/ \E f \in Xids : QueryFont(c, bad, f) \/ QueryTextExtents(c, bad, f)
          \/ ListFonts(c, bad) \/ ListFontsWithInfo(c, bad)
          \/ SetFontPath(c, bad) \/ QueryExtension(c, bad)
    \/ GetFontPath(c) \/ ListExtensions(c) \/ GetInputFocus(c) \/ NoOperation(c)

Next ==
    \E c \in Clients :
        \/ Connect(c) /\ UNCHANGED rvars
        \/ Close(c)
        \/ \E bad \in Bad({"short", "value", "list"}), x \in Names : WindowStep(c, bad, x)
        \/ PropertyRequest(c) \/ AtomRequest(c) \/ SelectionRequest(c)
        \/ CreateRequest(c) \/ FreeRequest(c) \/ DrawRequest(c) \/ QueryRequest(c)

Spec == Init /\ [][Next]_vars

-----------------------------------------------------------------------------
(***************************************************************************)
(* A window that took a selection and was told nothing since owns it: each *)
(* change of owner tells the window that loses, whatever events it         *)
(* selected, and no owner is replaced in silence.  About                   *)
(* SetSelectionOwner over any order of claims, releases, older timestamps  *)
(* and destroyed windows.                                                  *)
(***************************************************************************)
SelectionTold == \A k \in claims : OwnerOf(k[1], k[2]) = k[3]

(***************************************************************************)
(* Every byte of a property can be read: a client that pages through a     *)
(* value of any length, with pages of any number of units, stops where the *)
(* reply says that nothing is left, and has then the whole value.  About   *)
(* GetProperty's offset, length and bytes_after.                           *)
(***************************************************************************)
PagesRebuild ==
    \A c \in Clients, i \in Slots : \A a \in Dom(tab[c].props[i]) :
        LET val == tab[c].props[i][a].val IN
          \A length \in 1 .. 2 :
              \E last \in 0 .. MaxProp :
                  /\ Slice(val, last * length, length).after = 0
                  /\ \A k \in 0 .. (last - 1) : Slice(val, k * length, length).after > 0
                  /\ FlattenSeq([k \in 1 .. (last + 1) |->
                                    Slice(val, (k - 1) * length, length).part]) = val

(***************************************************************************)
(* A request that is answered with an error has changed nothing.  The      *)
(* exceptions are the code's: CreateGC and ChangeWindowAttributes notice   *)
(* that their value list is short only after the context exists, or after  *)
(* the earlier values are stored; ChangeProperty and PutImage free the     *)
(* value or image they replace before they find no memory for the new one. *)
(***************************************************************************)
ErrorsDiscard ==
    [][ \A c \in Clients :
          out'.to = c /\ out'.msgs # <<>> /\ out'.msgs[1].kind = "error" =>
            \/ tab' = tab /\ windows' = windows
            \/ /\ out'.msgs[1].what = "Length"
               /\ \/ /\ windows' = windows
                     /\ \E x \in Xids \ Dom(tab[c].gcs) :
                          tab' = [tab EXCEPT ![c].gcs = With(@, x, TRUE)]
                  \/ /\ tab' = tab
                     /\ \E i \in Slots, m \in SUBSET Masks :
                          windows' = [windows EXCEPT ![c][i].mask = m]
            \/ /\ out'.msgs[1].what = "Alloc" /\ windows' = windows
               /\ \E i \in InUse(c) :
                    \/ tab' = [tab EXCEPT ![c].image[i] = FALSE]
                    \/ \E a \in Dom(tab[c].props[i]) :
                          tab' = [tab EXCEPT ![c].props[i] = Without(@, a)] ]_vars

(***************************************************************************)
(* A window that is gone leaves no property value and no image allocated   *)
(* in its slot, which the next window of that slot would overwrite.        *)
(***************************************************************************)
NothingLeaks ==
    \A c \in Clients : Open(c) =>
        \A i \in Slots \ InUse(c) : tab[c].props[i] = << >> /\ ~tab[c].image[i]
=============================================================================
