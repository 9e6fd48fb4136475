------------------------------- MODULE Render -------------------------------
(***************************************************************************)
(* The render layer: surfaces (src/render/isz_surface.c), the plane-slot   *)
(* reservation registry (isz_plane_slots.c), isz_commit (isz_commit.c) and *)
(* the per-output idle-inhibit count (SPEC 6.15), over the slot table of a *)
(* headless output (isz_output.c).                                         *)
(*                                                                         *)
(* A surface name stands for an address: a surface created after another   *)
(* was destroyed may get its name.  Geometry, z-position, scale and role   *)
(* are plain fields no guard reads and are left out; a buffer is its       *)
(* format.  Each public call is one action, for the library has one        *)
(* thread; a call whose arguments are rejected changes nothing.            *)
(***************************************************************************)
EXTENDS Integers, Sequences, FiniteSets, Functions

CONSTANTS Surfaces, Outputs,
          Slots,     \* slot ids the application uses, within 1 .. 3
          Formats,   \* buffer formats it attaches
          Rotations, \* what it passes to set_transform: rotated or not
          Inhibits,  \* what it passes to set_idle_inhibit
          MaxResv,   \* ISZ_RESERVATION_MAX
          None       \* NULL, or "not set"

ASSUME RenderAssumption == /\ Slots \subseteq 1 .. 3
                           /\ Formats \subseteq {"XRGB", "ARGB"}
                           /\ Rotations \subseteq BOOLEAN
                           /\ Inhibits \subseteq BOOLEAN
                           /\ MaxResv \in Nat
                           /\ None \notin Surfaces \cup Outputs \cup Slots
                           /\ None \notin {"XRGB", "ARGB", "primary", "overlay",
                                           "cursor", "BACKEND_FAILED",
                                           "ISZ_OK", "TEST_OK"}
                           /\ IsFiniteSet(Outputs) /\ IsFiniteSet(Surfaces)

(* isz_output_build_headless_slots: primary, overlay and cursor. *)
SlotType == <<"primary", "overlay", "cursor">>
SlotFormats == <<{"XRGB", "ARGB"}, {"XRGB", "ARGB"}, {"ARGB"}>>
SlotTransforms == <<TRUE, TRUE, FALSE>>

Types == {SlotType[i] : i \in Slots}
Keys == Outputs \X Slots

VARIABLES list,      \* s_surface_list, oldest first: the live surfaces
          output,    \* surf->output
          ptype,     \* surf->plane_type, None until set
          slot,      \* surf->plane_slot, None until set
          rotated,   \* surf->transform # ISZ_TRANSFORM_NORMAL
          current,   \* the format of surf->current, None without a buffer
          inhibit,   \* surf->idle_inhibit
          resv,      \* s_resv: the holder of each (output, slot)
          count,     \* out->idle_inhibit_count
          active,    \* the last idle-inhibit event emitted was ACTIVE
          gone,      \* out->disconnected
          last       \* the commit the last step made and its result

surfVars == <<list, output, ptype, slot, rotated, current, inhibit>>
vars == <<surfVars, resv, count, active, gone, last>>

Alive == Range(list)
NoCommit == [out |-> None, rc |-> None]

Init == /\ list = <<>>
        /\ output = [s \in Surfaces |-> None]
        /\ ptype = [s \in Surfaces |-> None]
        /\ slot = [s \in Surfaces |-> None]
        /\ rotated = [s \in Surfaces |-> FALSE]
        /\ current = [s \in Surfaces |-> None]
        /\ inhibit = [s \in Surfaces |-> FALSE]
        /\ resv = [k \in Keys |-> None]
        /\ count = [o \in Outputs |-> 0]
        /\ active = [o \in Outputs |-> FALSE]
        /\ gone = [o \in Outputs |-> FALSE]
        /\ last = NoCommit
-----------------------------------------------------------------------------
(* isz_surface_inhibit_adjust, for the outputs whose count d changes: the  *)
(* count moves, and an event is emitted when it leaves or reaches zero.    *)
Adjust(d) ==
    /\ count' = [o \in Outputs |-> count[o] + d[o]]
    /\ active' = [o \in Outputs |->
                     IF count[o] = 0 /\ count[o] + d[o] > 0 THEN TRUE
                     ELSE IF count[o] > 0 /\ count[o] + d[o] = 0 THEN FALSE
                     ELSE active[o]]

\* One surface's contribution moves from output p to output q (either may be
\* NULL, which the helper tolerates).
Move(p, q) == [o \in Outputs |-> (IF o = q THEN 1 ELSE 0)
                                 - (IF o = p THEN 1 ELSE 0)]

\* Mutant: resv_clear forgets to compare the holder.
MutReleaseAnyHolder(s) ==
    resv' = [k \in Keys |-> IF k = <<output[s], slot[s]>> THEN None ELSE resv[k]]

\* isz_plane_slot_release(surf->output, surf->plane_slot, surf): clears the
\* entry only if surf is its holder.
Release(s) ==
    resv' = [k \in Keys |-> IF k = <<output[s], slot[s]>> /\ resv[k] = s
                            THEN None ELSE resv[k]]

\* isz_surface_create, and the subsurface and popup forms of it.
Create(s) == /\ s \notin Alive
             /\ list' = Append(list, s)
             /\ last' = NoCommit
             /\ UNCHANGED <<output, ptype, slot, rotated, current, inhibit,
                            resv, count, active, gone>>

\* isz_surface_create_layer.
CreateLayer(s, o) == /\ s \notin Alive
                     /\ list' = Append(list, s)
                     /\ output' = [output EXCEPT ![s] = o]
                     /\ last' = NoCommit
                     /\ UNCHANGED <<ptype, slot, rotated, current, inhibit,
                                    resv, count, active, gone>>

\* isz_list_remove of the surface's node.
Unlink(s) == LET i == CHOOSE i \in DOMAIN list : list[i] = s
             IN  SubSeq(list, 1, i - 1) \o SubSeq(list, i + 1, Len(list))

\* isz_surface_destroy.  The fields are put back to what calloc gives the
\* next surface at this address.
Destroy(s) == /\ s \in Alive
              /\ Adjust(IF inhibit[s] THEN Move(output[s], None)
                                      ELSE Move(None, None))
              /\ Release(s)
              /\ list' = Unlink(s)
              /\ output' = [output EXCEPT ![s] = None]
              /\ ptype' = [ptype EXCEPT ![s] = None]
              /\ slot' = [slot EXCEPT ![s] = None]
              /\ rotated' = [rotated EXCEPT ![s] = FALSE]
              /\ current' = [current EXCEPT ![s] = None]
              /\ inhibit' = [inhibit EXCEPT ![s] = FALSE]
              /\ last' = NoCommit
              /\ UNCHANGED gone

\* isz_surface_attach_buffer, as far as the format of what scans out.
Attach(s, f) == /\ s \in Alive
                /\ current' = [current EXCEPT ![s] = f]
                /\ last' = NoCommit
                /\ UNCHANGED <<list, output, ptype, slot, rotated, inhibit,
                               resv, count, active, gone>>

\* isz_surface_detach_buffer.
Detach(s) == /\ s \in Alive
             /\ current' = [current EXCEPT ![s] = None]
             /\ last' = NoCommit
             /\ UNCHANGED <<list, output, ptype, slot, rotated, inhibit,
                            resv, count, active, gone>>

\* isz_surface_set_output: the reservation on the old output is left alone.
SetOutput(s, o) ==
    /\ s \in Alive
    /\ Adjust(IF inhibit[s] /\ output[s] # o THEN Move(output[s], o)
                                             ELSE Move(None, None))
    /\ output' = [output EXCEPT ![s] = o]
    /\ last' = NoCommit
    /\ UNCHANGED <<list, ptype, slot, rotated, current, inhibit, resv, gone>>

\* Mutant: leaving an output keeps the surface's idle-inhibit contribution.
MutClearOutputKeepsInhibit(s) ==
    /\ s \in Alive
    /\ Release(s)
    /\ output' = [output EXCEPT ![s] = None]
    /\ last' = NoCommit
    /\ UNCHANGED <<list, ptype, slot, rotated, current, inhibit, count, active,
                   gone>>

\* isz_surface_clear_output.
ClearOutput(s) ==
    /\ s \in Alive
    /\ Release(s)
    /\ Adjust(IF inhibit[s] THEN Move(output[s], None) ELSE Move(None, None))
    /\ output' = [output EXCEPT ![s] = None]
    /\ last' = NoCommit
    /\ UNCHANGED <<list, ptype, slot, rotated, current, inhibit, gone>>

\* isz_surface_set_plane_type, _set_plane_slot and _set_transform.  A new
\* slot does not release the reservation of the old one.
SetPlaneType(s, t) ==
    /\ s \in Alive
    /\ ptype' = [ptype EXCEPT ![s] = t]
    /\ last' = NoCommit
    /\ UNCHANGED <<list, output, slot, rotated, current, inhibit, resv, count,
                   active, gone>>

SetPlaneSlot(s, n) ==
    /\ s \in Alive
    /\ slot' = [slot EXCEPT ![s] = n]
    /\ last' = NoCommit
    /\ UNCHANGED <<list, output, ptype, rotated, current, inhibit, resv, count,
                   active, gone>>

SetTransform(s, b) ==
    /\ s \in Alive
    /\ rotated' = [rotated EXCEPT ![s] = b]
    /\ last' = NoCommit
    /\ UNCHANGED <<list, output, ptype, slot, current, inhibit, resv, count,
                   active, gone>>

\* isz_surface_set_idle_inhibit.
SetIdleInhibit(s, b) ==
    /\ s \in Alive
    /\ inhibit[s] # b
    /\ Adjust(IF b THEN Move(None, output[s]) ELSE Move(output[s], None))
    /\ inhibit' = [inhibit EXCEPT ![s] = b]
    /\ last' = NoCommit
    /\ UNCHANGED <<list, output, ptype, slot, rotated, current, resv, gone>>
-----------------------------------------------------------------------------
(* isz_commit.  The surfaces of o are taken in list order; each must pass  *)
(* validate_surface and isz_plane_slot_assign, and the first that does not *)
(* ends the loop.                                                          *)

\* collect_output_surfaces: the places in the list of the surfaces of o.
Collected(o) == {i \in 1 .. Len(list) : output[list[i]] = o}

Key(s) == <<output[s], slot[s]>>

\* isz_plane_slot_held_by(out, s->plane_slot, s), before this commit.
Holds(s) == resv[Key(s)] = s

\* validate_surface.
Valid(s) == /\ ptype[s] # None
            /\ slot[s] # None
            /\ SlotType[slot[s]] = ptype[s]
            /\ rotated[s] => SlotTransforms[slot[s]]

\* Mutant: a slot held by another surface is not refused.
MutAssignableIfHeld(s, done) ==
    /\ current[s] # None => current[s] \in SlotFormats[slot[s]]
    /\ Cardinality({k \in Keys : resv[k] # None} \cup {Key(t) : t \in done})
           <= MaxResv

\* isz_plane_slot_assign for s, once the surfaces in done have their slots.
Assignable(s, done) ==
    \/ Holds(s)
    \/ /\ resv[Key(s)] = None
       /\ \A t \in done : slot[t] # slot[s]
       /\ current[s] # None => current[s] \in SlotFormats[slot[s]]
       /\ Cardinality({k \in Keys : resv[k] # None} \cup {Key(t) : t \in done})
              < MaxResv

\* The surfaces the loop gets through: those with no failure up to them.
Passed(o) ==
    LET Done(i) == {list[j] : j \in {k \in Collected(o) : k < i}}
        Good(i) == Valid(list[i]) /\ Assignable(list[i], Done(i))
    IN  {list[i] : i \in {n \in Collected(o) :
                             \A m \in Collected(o) : m <= n => Good(m)}}

\* The loop ends with no failure.
AllPass(o) == {list[i] : i \in Collected(o)} \subseteq Passed(o)

\* The registry once the surfaces in P have their slots.
Reserve(P) == [k \in Keys |-> IF \E s \in P : Key(s) = k
                              THEN CHOOSE s \in P : Key(s) = k
                              ELSE resv[k]]

\* Mutant: the rollback forgets newly_reserved and releases every slot.
MutRollbackAll(P) == [k \in Keys |-> IF \E s \in P : Key(s) = k
                                     THEN None ELSE resv[k]]

\* The release of what was newly reserved for P, after the backend refused.
Rollback(P) == [k \in Keys |-> IF \E s \in P : Key(s) = k /\ ~Holds(s)
                               THEN None ELSE Reserve(P)[k]]

\* The early return for an output whose removal was reported.
CommitDisconnected(o) ==
    /\ gone[o]
    /\ last' = [out |-> o, rc |-> "ISZ_ERR_OUTPUT_DISCONNECTED"]
    /\ UNCHANGED <<surfVars, resv, count, active, gone>>

\* A surface fails validation or assignment: goto fail_resv.
CommitRefused(o) ==
    /\ ~gone[o]
    /\ ~AllPass(o)
    /\ resv' = Reserve(Passed(o))
    /\ last' = [out |-> o, rc |-> "REFUSED"]
    /\ UNCHANGED <<surfVars, count, active, gone>>

\* ops->commit returns an error, as its contract in isz_backend.h allows.
CommitBackendFailed(o) ==
    /\ ~gone[o]
    /\ AllPass(o)
    /\ resv' = Rollback(Passed(o))
    /\ last' = [out |-> o, rc |-> "BACKEND_FAILED"]
    /\ UNCHANGED <<surfVars, count, active, gone>>

\* Success, of a frame or of an ISZ_COMMIT_TEST_ONLY probe.
CommitOk(o, rc) ==
    /\ ~gone[o]
    /\ AllPass(o)
    /\ resv' = Reserve(Passed(o))
    /\ last' = [out |-> o, rc |-> rc]
    /\ UNCHANGED <<surfVars, count, active, gone>>

Commit(o) == \/ CommitDisconnected(o)
             \/ CommitRefused(o)
             \/ CommitBackendFailed(o)
             \/ \E rc \in {"ISZ_OK", "TEST_OK"} : CommitOk(o, rc)

\* The backend's removal hook: headless_output_remove_hook.
Unplug(o) == /\ ~gone[o]
             /\ gone' = [gone EXCEPT ![o] = TRUE]
             /\ last' = NoCommit
             /\ UNCHANGED <<surfVars, resv, count, active>>
-----------------------------------------------------------------------------
Next == \/ \E s \in Surfaces : Create(s)
        \/ \E s \in Surfaces, o \in Outputs : CreateLayer(s, o)
        \/ \E s \in Surfaces : Destroy(s)
        \/ \E s \in Surfaces, f \in Formats : Attach(s, f)
        \/ \E s \in Surfaces : Detach(s)
        \/ \E s \in Surfaces, o \in Outputs : SetOutput(s, o)
        \/ \E s \in Surfaces : ClearOutput(s)
        \/ \E s \in Surfaces, t \in Types : SetPlaneType(s, t)
        \/ \E s \in Surfaces, n \in Slots : SetPlaneSlot(s, n)
        \/ \E s \in Surfaces, b \in Rotations : SetTransform(s, b)
        \/ \E s \in Surfaces, b \in Inhibits : SetIdleInhibit(s, b)
        \/ \E o \in Outputs : Commit(o)
        \/ \E o \in Outputs : Unplug(o)

Spec == Init /\ [][Next]_vars
-----------------------------------------------------------------------------
(***************************************************************************)
(* The idle-inhibit count of an output is the number of live surfaces on   *)
(* it that inhibit idle, and the last event its listeners got says whether *)
(* that is positive: the count isz_surface_inhibit_adjust keeps by +1 and  *)
(* -1 in four calls never drifts, whatever their order.                    *)
(***************************************************************************)
InhibitExact ==
    \A o \in Outputs :
        /\ count[o] = Cardinality({s \in Alive : inhibit[s] /\ output[s] = o})
        /\ active[o] <=> count[o] > 0

(***************************************************************************)
(* After isz_commit succeeds, every surface of the output holds the slot   *)
(* it names, no two name the same slot, and each fits its slot's type and  *)
(* transform (isz_commit.c step 3 and 4).                                  *)
(***************************************************************************)
FrameSound ==
    last.rc \in {"ISZ_OK", "TEST_OK"} =>
        \A s \in Alive : output[s] = last.out =>
            /\ Valid(s)
            /\ Holds(s)
            /\ \A t \in Alive \ {s} : output[t] = last.out => slot[t] # slot[s]

(***************************************************************************)
(* A reservation held by a live surface is never taken from it: it ends    *)
(* only when that surface is destroyed or leaves its output, never by      *)
(* another surface's call nor by a commit, failed or not.                  *)
(***************************************************************************)
ReservationKept ==
    [][\A k \in Keys : resv[k] \in Alive /\ resv'[k] # resv[k] =>
           /\ resv'[k] = None
           /\ resv[k] \notin Range(list') \/ output'[resv[k]] = None]_vars

(***************************************************************************)
(* A commit the backend rejects leaves the registry as it found it: "the   *)
(* commit releases only newly-reserved slots; pre-existing reservations    *)
(* persist" (doc/api.md, isz_commit).                                      *)
(***************************************************************************)
BackendFailureRestores ==
    [][last'.rc = "BACKEND_FAILED" => resv' = resv]_vars
=============================================================================
