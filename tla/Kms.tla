-------------------------------- MODULE Kms ---------------------------------
(***************************************************************************)
(* The DRM backend from isz_backend_commit down (backend/isz_backend.c,    *)
(* isz_drm.c, isz_drm_atomic.c, isz_drm_event.c) with the buffers it keeps *)
(* alive (buffer/isz_buffer.c): commits, page flips, the two lists a       *)
(* buffer waits on for its release, seat switches and teardown.  The       *)
(* module starts at the backend's own interface: isz_commit, which calls   *)
(* it (Render), still refuses every surface on a DRM output, because       *)
(* isz_server_wrap_drm_output builds no slot table.  A surface is on the   *)
(* primary plane of an output or off it.                                   *)
(*                                                                         *)
(* The kernel (flips, fences, events) is external.  A buffer's             *)
(* release_node is on one list at a time: to queue it while it is on one   *)
(* leaves both lists damaged, which sets ub and ends the model.            *)
(***************************************************************************)
EXTENDS Integers, FiniteSets, Sequences, FiniteSetsExt, Lists

CONSTANTS Outputs, Surfaces, Buffers, None

ASSUME KmsAssumption == None \notin Outputs \cup Surfaces \cup Buffers

VARIABLES be,      \* backend->state; "down" after isz_destroy
          master,  \* st->is_master, which follows st->session_active
          seat,    \* st->seat # NULL
          sync,    \* st->syncobj_supported
          enabled, \* out->enabled, with a mode
          list,    \* the live surfaces, oldest first
          surf,    \* their output, current and pending_release
          buf,     \* the live buffers: count, out_syncobj, isz_syncobj_poll
          fly,     \* st->in_flight_releases
          wait,    \* srv->pending_releases
          flips,   \* kernel: commits accepted whose event is not read yet
          sent,    \* the buffers the last step sent a RELEASE for
          ub

vars == <<be, master, seat, sync, enabled, list, surf, buf, fly, wait, flips,
          sent, ub>>
session == <<master, seat, sync>>
surfaces == <<list, surf>>

Init ==
    /\ be = "none" /\ master = FALSE /\ seat = FALSE /\ sync = FALSE
    /\ enabled = [o \in Outputs |-> FALSE]
    /\ list = << >> /\ surf = [s \in {} |-> None] /\ buf = [b \in {} |-> None]
    /\ fly = << >> /\ wait = << >> /\ flips = {}
    /\ sent = {} /\ ub = FALSE

Running == be \in {"ready", "committing", "error"} /\ ~ub

-----------------------------------------------------------------------------
(* Init                                                                    *)

\* isz_drm_init and isz_backend_create: the node opens and is master, by the
\* seat or by drmSetMaster, atomic KMS is there, explicit sync may be.
InitOk ==
    /\ be = "none" /\ be' = "ready" /\ master' = TRUE
    /\ seat' \in BOOLEAN /\ sync' \in BOOLEAN
    /\ UNCHANGED <<enabled, surfaces, buf, fly, wait, flips, sent, ub>>

\* No node, no master (without a seat only), no atomic KMS, or no resources:
\* the descriptor is closed and the state freed.  A seat that opened stays.
InitFails ==
    /\ be = "none" /\ be' = "failed" /\ seat' \in BOOLEAN
    /\ UNCHANGED <<master, sync, enabled, surfaces, buf, fly, wait, flips,
                   sent, ub>>

-----------------------------------------------------------------------------
(* References                                                              *)

\* isz_buffer_unref, once for each buffer of D, on the buffers f.
Unref(f, D) ==
    [b \in {x \in DOMAIN f : ~(x \in D /\ f[x].refs = 1)} |->
        IF b \in D THEN [f[b] EXCEPT !.refs = @ - 1] ELSE f[b]]

\* A name for a dma-buf that is new to the server: no live buffer has it, and
\* no pending commit replaces a buffer that had it.
Unused(b) == b \notin DOMAIN buf /\ \A x \in flips : x.old # b

\* isz_buffer_import: one reference, no fence.
Import(f, b) == [x \in DOMAIN f \cup {b} |->
    IF x = b THEN [refs |-> 1, fence |-> FALSE, signalled |-> FALSE] ELSE f[x]]

Quiet == sent' = {} /\ UNCHANGED <<be, session, fly, wait, flips, ub>>

-----------------------------------------------------------------------------
(* Outputs and surfaces                                                    *)

\* isz_output_enable and isz_output_disable.
OutputEnable(o) ==
    /\ Running /\ enabled' = [enabled EXCEPT ![o] = TRUE] /\ Quiet
    /\ UNCHANGED <<surfaces, buf>>

OutputDisable(o) ==
    /\ Running /\ enabled' = [enabled EXCEPT ![o] = FALSE] /\ Quiet
    /\ UNCHANGED <<surfaces, buf>>

\* isz_surface_create: on no output, with no buffer.
SurfaceCreate(s) ==
    /\ Running /\ s \notin DOMAIN surf
    /\ list' = Append(list, s)
    /\ surf' = [t \in DOMAIN surf \cup {s} |->
           IF t = s THEN [out |-> None, cur |-> None, pend |-> None] ELSE surf[t]]
    /\ Quiet /\ UNCHANGED <<enabled, buf>>

\* isz_surface_destroy: both references go.
SurfaceDestroy(s) ==
    /\ Running /\ s \in DOMAIN surf
    /\ \E i \in DOMAIN list : list[i] = s /\ list' = Unlink(list, i)
    /\ surf' = [t \in DOMAIN surf \ {s} |-> surf[t]]
    /\ buf' = Unref(buf, {surf[s].cur, surf[s].pend})
    /\ Quiet /\ UNCHANGED enabled

\* isz_surface_set_output and isz_surface_clear_output.
SetOutput(s, o) ==
    /\ Running /\ s \in DOMAIN surf /\ surf' = [surf EXCEPT ![s].out = o]
    /\ Quiet /\ UNCHANGED <<enabled, list, buf>>

\* Mutant: the reference of what waited is kept.
MutAttach(s, b) ==
    /\ Running /\ s \in DOMAIN surf /\ Unused(b)
    /\ surf' = [surf EXCEPT ![s].pend = surf[s].cur, ![s].cur = b]
    /\ buf' = Import(buf, b)
    /\ Quiet /\ UNCHANGED <<enabled, list>>

\* isz_surface_attach_buffer: what waited is let go, what was current waits.
Attach(s, b) ==
    /\ Running /\ s \in DOMAIN surf /\ Unused(b)
    /\ surf' = [surf EXCEPT ![s].pend = surf[s].cur, ![s].cur = b]
    /\ buf' = Import(Unref(buf, {surf[s].pend}), b)
    /\ Quiet /\ UNCHANGED <<enabled, list>>

\* isz_surface_detach_buffer.
Detach(s) ==
    /\ Running /\ s \in DOMAIN surf
    /\ surf' = [surf EXCEPT ![s].cur = None]
    /\ buf' = Unref(buf, {surf[s].cur})
    /\ Quiet /\ UNCHANGED <<enabled, list>>

-----------------------------------------------------------------------------
(* Commit                                                                  *)

Queued == Range(fly) \cup Range(wait)

\* isz_drm_atomic_commit takes the first surface of the output with a buffer.
Shown(o) == {i \in DOMAIN list : surf[list[i]].out = o /\ surf[list[i]].cur # None}
Primary(o) == IF Shown(o) = {} THEN None ELSE list[Min(Shown(o))]

\* Mutant: a commit while another waits for its flip is let through.
MutMayCommit(o) == be \in {"ready", "committing"} /\ master /\ enabled[o]

\* isz_backend_commit, isz_drm_commit and the guards of
\* isz_drm_atomic_commit.  Any other commit is refused and changes nothing.
MayCommit(o) == be = "ready" /\ master /\ enabled[o]

\* The buffer the flip takes off the screen.
Replaced(p) == IF p = None THEN None ELSE surf[p].pend

\* The buffers, the replaced one with the commit's fence if there is one.  A
\* fence that could not be imported leaves a syncobj whose poll fails, which
\* counts as signalled.  So does the kernel's ETIME for a fence that is not:
\* isz_syncobj_poll knows ETIMEDOUT only.
Fenced(old) ==
    {buf} \cup {[buf EXCEPT ![old].fence = TRUE, ![old].signalled = x] :
                  x \in IF sync THEN BOOLEAN ELSE {}}

\* Mutant: the replaced buffer is queued where the next poll finds it.
MutCommitOk(o) ==
    LET p == Primary(o)
        old == Replaced(p)
    IN  /\ Running /\ MayCommit(o)
        /\ flips' = flips \cup {[out |-> o, old |-> old, done |-> FALSE]}
        /\ be' = "committing" /\ sent' = {}
        /\ IF old = None THEN UNCHANGED <<buf, wait, ub>>
           ELSE /\ \E f \in Fenced(old) : buf' = [f EXCEPT ![old].refs = @ + 1]
                /\ wait' = Append(wait, old) /\ ub' = (old \in Queued)
        /\ UNCHANGED <<session, enabled, surfaces, fly>>

\* A commit the kernel accepts: the mode, the framebuffer of the primary
\* surface or the black one, the fences.  (A framebuffer that cannot be made
\* is only logged, and the commit goes on without it.)  The replaced buffer is
\* queued with a reference until the flip.
CommitOk(o) ==
    LET p == Primary(o)
        old == Replaced(p)
    IN  /\ Running /\ MayCommit(o)
        /\ flips' = flips \cup {[out |-> o, old |-> old, done |-> FALSE]}
        /\ be' = "committing" /\ sent' = {}
        /\ IF old = None THEN UNCHANGED <<buf, fly, ub>>
           ELSE /\ \E f \in Fenced(old) : buf' = [f EXCEPT ![old].refs = @ + 1]
                /\ fly' = Append(fly, old) /\ ub' = (old \in Queued)
        /\ UNCHANGED <<session, enabled, surfaces, wait>>

\* ISZ_COMMIT_TEST_ONLY, or a commit that the kernel rejects: the state goes
\* to COMMITTING and back within the call, and nothing is queued.
CommitNothing(o) ==
    /\ Running /\ MayCommit(o) /\ sent' = {}
    /\ UNCHANGED <<be, session, enabled, surfaces, buf, fly, wait, flips, ub>>

-----------------------------------------------------------------------------
(* The kernel                                                              *)

\* The flip takes effect at a vblank, and its event is there to be read.
Vblank ==
    /\ ~ub /\ \E x \in flips :
          /\ ~x.done
          /\ flips' = (flips \ {x}) \cup {[x EXCEPT !.done = TRUE]}
    /\ sent' = {} /\ UNCHANGED <<be, session, enabled, surfaces, buf, fly, wait, ub>>

\* The fence of a replaced buffer signals, at the flip or after it.
Signal(b) ==
    /\ ~ub /\ b \in DOMAIN buf /\ buf[b].fence /\ ~buf[b].signalled
    /\ \A x \in flips : x.old = b => x.done
    /\ buf' = [buf EXCEPT ![b].signalled = TRUE] /\ sent' = {}
    /\ UNCHANGED <<be, session, enabled, surfaces, fly, wait, flips, ub>>

-----------------------------------------------------------------------------
(* isz_dispatch                                                            *)

\* Mutant: a buffer that is not signalled goes back to the head.
MutRequeue(w, k) == SubSeq(w, k, Len(w))

\* The k-th is not signalled: it goes to the tail.
Requeue(w, k) == Append(SubSeq(w, k + 1, Len(w)), w[k])

\* isz_buffer_poll_out_fences, the end of every isz_dispatch: the releases w
\* are sent up to the first that blocks.  D is let go already.
Poll(w, D) ==
    LET blocked == {i \in DOMAIN w : ~buf[w[i]].signalled}
        k == IF blocked = {} THEN Len(w) + 1 ELSE Min(blocked)
        done == D \cup {w[i] : i \in 1 .. k - 1}
    IN  /\ wait' = IF blocked = {} THEN << >> ELSE Requeue(w, k)
        /\ buf' = Unref(buf, done)
        /\ sent' = done

\* page_flip_handler: the backend is ready again.  Of the buffers in flight
\* those with a fence go on to wait for it, their reference with them; the
\* others are released.
PageFlip ==
    LET fenced == Picked(fly, {i \in DOMAIN fly : buf[fly[i]].fence}) IN
    /\ Running
    /\ \E x \in flips : x.done /\ flips' = flips \ {x}
    /\ be' = IF be = "committing" THEN "ready" ELSE be
    /\ fly' = << >>
    /\ Poll(wait \o fenced, Range(fly) \ Range(fenced))
    /\ UNCHANGED <<session, enabled, surfaces, ub>>

\* drm_disable_seat, when a VT is switched away.  The CRTC is disabled by the
\* next owner, so the event of a flip may never come.
DisableSeat ==
    /\ Running /\ seat /\ master
    /\ master' = FALSE
    /\ flips' \in {flips, {x \in flips : x.done}}
    /\ Poll(wait, {})
    /\ UNCHANGED <<be, seat, sync, enabled, surfaces, fly, ub>>

\* drm_enable_seat.
EnableSeat ==
    /\ Running /\ seat /\ ~master
    /\ master' = TRUE
    /\ Poll(wait, {})
    /\ UNCHANGED <<be, seat, sync, enabled, surfaces, fly, flips, ub>>

\* isz_drm_event_dispatch when the device refuses the read.
EventError ==
    /\ Running /\ ~master /\ be' = "error"
    /\ Poll(wait, {})
    /\ UNCHANGED <<session, enabled, surfaces, fly, flips, ub>>

\* A dispatch with no event of the backend.
Idle ==
    /\ Running /\ wait # << >>
    /\ Poll(wait, {})
    /\ UNCHANGED <<be, session, enabled, surfaces, fly, flips, ub>>

\* isz_destroy: isz_drm_destroy drops what is in flight, and
\* isz_buffer_release_destroy what waits, with no message to the clients.
\* The closed descriptor takes its pending commit with it.
Destroy ==
    /\ Running /\ be' = "down" /\ sent' = {}
    /\ buf' = Unref(buf, Queued) /\ fly' = << >> /\ wait' = << >>
    /\ master' = FALSE /\ seat' = FALSE
    /\ enabled' = [o \in Outputs |-> FALSE]
    /\ flips' = {}
    /\ UNCHANGED <<sync, surfaces, ub>>

Dispatch == PageFlip \/ DisableSeat \/ EnableSeat \/ EventError \/ Idle

Next ==
    \/ InitOk \/ InitFails \/ Vblank \/ Dispatch \/ Destroy
    \/ \E o \in Outputs : \/ OutputEnable(o) \/ OutputDisable(o)
                          \/ CommitOk(o) \/ CommitNothing(o)
    \/ \E s \in Surfaces : \/ SurfaceCreate(s) \/ SurfaceDestroy(s) \/ Detach(s)
                           \/ \E o \in Outputs \cup {None} : SetOutput(s, o)
                           \/ \E b \in Buffers : Attach(s, b)
    \/ \E b \in Buffers : Signal(b)

\* The application calls isz_dispatch in a loop; nothing else is promised.
Spec == Init /\ [][Next]_vars /\ WF_vars(Idle)

-----------------------------------------------------------------------------
HoldersOf(b) ==
    Cardinality({s \in DOMAIN surf : surf[s].cur = b})
    + Cardinality({s \in DOMAIN surf : surf[s].pend = b})
    + (IF b \in Range(fly) THEN 1 ELSE 0) + (IF b \in Range(wait) THEN 1 ELSE 0)

(***************************************************************************)
(* The count of every buffer is the number of surfaces and release lists   *)
(* that hold it, and what they hold is alive: across attaches, surfaces    *)
(* destroyed while their buffers are in flight, flips, polls and teardown  *)
(* no buffer is freed early and none is kept for ever (isz_buffer_ref,     *)
(* isz_buffer_unref).  Nothing is queued once the server is destroyed.     *)
(***************************************************************************)
RefsExact ==
    ~ub => /\ \A s \in DOMAIN surf : {surf[s].cur, surf[s].pend} \subseteq DOMAIN buf \cup {None}
           /\ Queued \subseteq DOMAIN buf
           /\ \A b \in DOMAIN buf : buf[b].refs = HoldersOf(b) /\ HoldersOf(b) > 0
           /\ be = "down" => Queued = {}

(***************************************************************************)
(* The kernel never has two commits of this server pending, on whatever    *)
(* outputs: the state machine of isz_backend.c keeps COMMITTING from the   *)
(* accepted commit to the flip event, through seat switches and errors.    *)
(* And nothing is in flight without a commit that put it there.            *)
(***************************************************************************)
OneInFlight ==
    /\ \A x, y \in flips : x = y
    /\ be = "ready" => flips = {} /\ fly = << >>

(***************************************************************************)
(* A waiting buffer whose fence signals is released in the end, whatever   *)
(* the fences before it do: a buffer that is not signalled goes to the     *)
(* tail (isz_buffer_poll_out_fences) and blocks none behind it.            *)
(***************************************************************************)
SignalledReleased ==
    \A b \in Buffers :
       (b \in Range(wait) /\ buf[b].signalled) ~> (b \notin Range(wait) \/ ub)

(***************************************************************************)
(* No RELEASE is sent for a buffer while the commit that takes it off the  *)
(* screen is pending: neither the polls of other dispatches nor a switch   *)
(* of the seat let go of what waits for the flip (isz_drm_atomic.c pushes  *)
(* it on in_flight_releases, which only page_flip_handler empties).        *)
(***************************************************************************)
ReleasedAfterFlip == \A b \in sent, x \in flips : x.old = b => x.done
=============================================================================
