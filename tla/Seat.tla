-------------------------------- MODULE Seat --------------------------------
(***************************************************************************)
(* What the clients share through the seat and the server: the selections  *)
(* and the clipboard with the descriptors held for them                    *)
(* (isz_client_dispatch.c, input/isz_seat_api.c), consent by the user for  *)
(* a while (isz_capture_consent.c) and screen capture under it             *)
(* (render/isz_capture.c).                                                 *)
(*                                                                         *)
(* A refused request changes nothing but its reply and is left out; the    *)
(* descriptor that came with it is closed by isz_client_recv_loop or by    *)
(* the function that refused.  Time is counted in steps of the clock; a    *)
(* claim carries whatever time its client says.                            *)
(***************************************************************************)
EXTENDS Integers, FiniteSets, Sequences, FiniteSetsExt

CONSTANTS Conns, Surfaces, Outputs, Fds, None,
          Kinds,         \* enum isz_consent_kind
          First,         \* the output at the head of srv->outputs
          ConsentSlots,  \* ISZ_CONSENT_SLOTS
          CaptureMax,    \* ISZ_CAPTURE_MAX
          Timeout,       \* ISZ_CONSENT_TIMEOUT_NS
          HaveDrm,       \* ISHIZUE_HAVE_DRM
          MaxTime,       \* bound: the clock stops here
          MaxStamp       \* bound: a claim says no later time

Keys == Outputs \X Kinds

ASSUME SeatAssumption ==
    /\ First \in Outputs /\ "capture" \in Kinds /\ HaveDrm \in BOOLEAN
    /\ {ConsentSlots, CaptureMax, Timeout, MaxTime, MaxStamp} \subseteq Nat \ {0}
    /\ None \notin Conns \cup Surfaces \cup Outputs \cup Fds \cup [key : Keys, exp : Nat]

Slots == {"primary", "clipboard"}

VARIABLES now,
          live,      \* the live surfaces, and whose they are
          sel,       \* owner, timestamp and descriptor of each selection
          clip,      \* s_clipboard.fd
          consent,   \* g_consent: None, or a key with its expiry
          cap,       \* s_capture[0 .. s_capture_count)
          open,      \* the descriptors the server has to close one day
          lost,      \* whether one was dropped without a close
          approved   \* history: when the user last approved a key

vars == <<now, live, sel, clip, consent, cap, open, lost, approved>>
held == <<sel, clip>>

Init ==
    /\ now = 0 /\ live = [s \in {} |-> None]
    /\ sel = [x \in Slots |-> [owner |-> None, ts |-> 0, fd |-> None]]
    /\ clip = None
    /\ consent = [i \in 1 .. ConsentSlots |-> None]
    /\ cap = << >> /\ open = {} /\ lost = FALSE
    /\ approved = [k \in {} |-> 0]

Tick ==
    /\ now < MaxTime /\ now' = now + 1
    /\ UNCHANGED <<live, held, consent, cap, open, lost, approved>>

-----------------------------------------------------------------------------
(* Surfaces                                                                *)

SurfaceCreate(c, s) ==
    /\ s \notin DOMAIN live
    /\ live' = [t \in DOMAIN live \cup {s} |-> IF t = s THEN c ELSE live[t]]
    /\ UNCHANGED <<now, held, consent, cap, open, lost, approved>>

\* isz_surface_destroy: what the seat holds of it is not cleared.
SurfaceDestroy(s) ==
    /\ s \in DOMAIN live
    /\ live' = [t \in DOMAIN live \ {s} |-> live[t]]
    /\ UNCHANGED <<now, held, consent, cap, open, lost, approved>>

\* isz_conn_lookup_object, or id 0 for none.
Named(c) == {s \in DOMAIN live : live[s] = c} \cup {None}

-----------------------------------------------------------------------------
(* Descriptors held for the selections                                     *)

\* isz_seat_set_selection_owner: a claim older than the owner's is stale.
Stale(x, s, ts) == s # None /\ sel[x].owner # None /\ ts < sel[x].ts
Claim(x, s, ts, fd) ==
    sel' = [sel EXCEPT ![x] =
              [owner |-> s, ts |-> IF s = None THEN 0 ELSE ts, fd |-> fd]]

\* isz_handle_set_selection_owner with no descriptor: a release drops the one
\* that is held, a claim keeps it.
ClaimPlain(c, x) ==
    \E s \in Named(c), ts \in 0 .. MaxStamp :
       /\ ~Stale(x, s, ts)
       /\ Claim(x, s, ts, IF s = None THEN None ELSE sel[x].fd)
       /\ open' = IF s = None THEN open \ {sel[x].fd} ELSE open
       /\ UNCHANGED <<now, live, clip, consent, cap, lost, approved>>

\* Mutant: the descriptor held before is not closed.
MutReplace(old, new) == open' = open \cup {new}

\* A duplicate of the descriptor in the message is stored and the one stored
\* before is closed.  The one in the message is marked consumed, so nobody
\* closes it.
Replace(old, new) == open' = (open \ {old}) \cup {new}

\* isz_handle_set_selection_owner with a descriptor.  If it cannot be
\* duplicated the claim stands and the descriptor is lost.
ClaimWithFd(c, x) ==
    \E s \in Named(c), ts \in 0 .. MaxStamp :
       /\ ~Stale(x, s, ts) /\ lost' = TRUE
       /\ \/ \E f \in Fds \ open : Claim(x, s, ts, f) /\ Replace(sel[x].fd, f)
          \/ Claim(x, s, ts, sel[x].fd) /\ UNCHANGED open
       /\ UNCHANGED <<now, live, clip, consent, cap, approved>>

\* isz_handle_clipboard_set.
ClipboardSet ==
    /\ \E f \in Fds \ open : clip' = f /\ Replace(clip, f)
    /\ lost' = TRUE
    /\ UNCHANGED <<now, live, sel, consent, cap, approved>>

-----------------------------------------------------------------------------
(* Consent                                                                 *)

Used == {i \in DOMAIN consent : consent[i] # None}
Matching(k) == {i \in Used : consent[i].key = k}

\* Mutant: a full table gives up the entry that has longest to run.
MutVictim == CHOOSE i \in Used : \A j \in Used : consent[i].exp >= consent[j].exp

\* The entry closest to its expiry, the first of them.
Victim == CHOOSE i \in Used : \A j \in Used :
    \/ consent[i].exp < consent[j].exp
    \/ consent[i].exp = consent[j].exp /\ i <= j

\* isz_consent_find with find_free.
FindFree(k) ==
    CASE Matching(k) # {} -> Min(Matching(k))
      [] Matching(k) = {} /\ Used # DOMAIN consent -> Min(DOMAIN consent \ Used)
      [] OTHER -> Victim

\* isz_consent_grant and isz_capture_grant: the user approved.
ConsentGrant(k) ==
    /\ consent' = [consent EXCEPT ![FindFree(k)] = [key |-> k, exp |-> now + Timeout]]
    /\ approved' = [x \in DOMAIN approved \cup {k} |-> IF x = k THEN now ELSE approved[x]]
    /\ UNCHANGED <<now, live, held, cap, open, lost>>

\* Mutant: a grant of any kind for the output will do.
MutGranted(o) == {i \in Used : consent[i].key[1] = o}

\* isz_consent_find for isz_capture_check_consent.
Granted(o) == Matching(<<o, "capture">>)

\* isz_consent_check: an entry that is found expired is freed.
Expired(o) == {i \in Granted(o) : now >= consent[i].exp}
Reclaimed(o) == [i \in DOMAIN consent |-> IF i \in Expired(o) THEN None ELSE consent[i]]

-----------------------------------------------------------------------------
(* Capture                                                                 *)

Capturing(o) == {i \in DOMAIN cap : cap[i].out = o}

\* isz_output_capture_start.  Without consent, on an output captured already,
\* with the table full, or refused by the backend, whose writeback is a stub,
\* the descriptor is closed.
CaptureStart(o, c) ==
    /\ consent' = Reclaimed(o)
    /\ IF Granted(o) \ Expired(o) # {} /\ Capturing(o) = {}
          /\ Len(cap) < CaptureMax /\ ~HaveDrm
       THEN \E f \in Fds \ open : /\ cap' = Append(cap, [out |-> o, fd |-> f, conn |-> c])
                                  /\ open' = open \cup {f}
       ELSE UNCHANGED <<cap, open>>
    /\ UNCHANGED <<now, live, held, lost, approved>>

\* isz_handle_capture_start: no output is ever registered with a connection,
\* so isz_resolve_output answers with the first.
ClientCaptureStart(c) == CaptureStart(First, c)

\* The last entry takes the place of the one that goes.
Compact(i) == SubSeq([cap EXCEPT ![i] = cap[Len(cap)]], 1, Len(cap) - 1)

\* isz_output_capture_stop and isz_handle_capture_stop.  The entry is inactive
\* before isz_render_send_capture_done asks it for its connection, so nothing
\* is sent and the descriptor is lost.
CaptureStop(o) ==
    \E i \in Capturing(o) :
       /\ ~HaveDrm
       /\ cap' = Compact(i) /\ open' = open \ {cap[i].fd} /\ lost' = TRUE
       /\ UNCHANGED <<now, live, held, consent, approved>>

Next ==
    \/ Tick \/ ClipboardSet
    \/ \E s \in Surfaces : SurfaceDestroy(s) \/ \E c \in Conns : SurfaceCreate(c, s)
    \/ \E c \in Conns : \/ ClientCaptureStart(c)
                        \/ \E x \in Slots : ClaimPlain(c, x) \/ ClaimWithFd(c, x)
    \/ \E k \in Keys : ConsentGrant(k)
    \/ \E o \in Outputs : CaptureStart(o, None) \/ CaptureStop(o)

Spec == Init /\ [][Next]_vars

-----------------------------------------------------------------------------
Current(k) == k \in DOMAIN approved /\ now < approved[k] + Timeout
CurrentKeys == {k \in DOMAIN approved : Current(k)}

(***************************************************************************)
(* A capture starts only while the user's approval of screen capture on    *)
(* that very output is current: neither an approval of another kind or     *)
(* output, nor an expired one, nor a table slot that was reused will do    *)
(* (isz_output_capture_start, isz_consent_check).                          *)
(***************************************************************************)
CaptureConsented ==
    [][\A o \in Outputs :
          (\E i \in DOMAIN cap' : cap'[i].out = o) /\ Capturing(o) = {}
             => Current(<<o, "capture">>)]_vars

(***************************************************************************)
(* An approval stays in the table until it expires, unless more approvals  *)
(* are current than the table has slots: expired entries and free slots    *)
(* are used first (isz_consent_find).                                      *)
(***************************************************************************)
GrantKept ==
    \A k \in CurrentKeys :
       \/ \E i \in Matching(k) : consent[i].exp = approved[k] + Timeout
       \/ Cardinality(CurrentKeys) > ConsentSlots

(***************************************************************************)
(* The clipboard, the selections and the captures hold the descriptors the *)
(* server has yet to close, all of them and no other, and no two hold the  *)
(* same one: replacing, releasing and stopping close or give up what was   *)
(* held once, and no slot keeps a number that may be reused.  (What the    *)
(* handlers mark consumed after duplicating it is lost, and not in open.)  *)
(***************************************************************************)
FdsHeld ==
    /\ open = ({clip} \cup {sel[x].fd : x \in Slots} \cup {cap[i].fd : i \in DOMAIN cap})
              \ {None}
    /\ \A x \in Slots : sel[x].fd # None =>
          /\ \A y \in Slots : sel[x].fd = sel[y].fd => x = y
          /\ sel[x].fd # clip
          /\ \A i \in DOMAIN cap : sel[x].fd # cap[i].fd
    /\ \A i \in DOMAIN cap : /\ cap[i].fd \notin {None, clip}
                             /\ \A j \in DOMAIN cap : cap[i].fd = cap[j].fd => i = j
=============================================================================
