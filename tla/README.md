# Ishizue in TLA+

Ishizue is a display-server library. An application (the "Architect" of the
docs) links it, calls `isz_dispatch` from its own loop and decides policy;
clients connect over a Unix socket. Beside it stands an X11 bridge: a process
that is an X11 server to its own clients and an ordinary client of Ishizue.
These modules model both from the source. TLC checks them on small instances;
TLAPS proves a part of what is checked for instances of any size.

Paths below are relative to the repository root (`src/`).

## The parts and the modules

| Part | Source | Modules |
|---|---|---|
| Thread pool | `src/util/isz_thread_pool.c` | `ThreadPool`; abstract: `WorkService`; `QueueProofs` |
| Connection transport | `src/protocol/isz_protocol.c`, `isz_conn.c` | `Wire`, `SendQueue`, `RecvState`, composed in `Transport`; abstract: `FifoChannel` |
| Accept, handshake, dispatch, destroy | `src/isz_listen.c`, `isz_lifecycle.c`, `protocol/isz_handshake.c` | `Server`, `ServerProofs`, `ListsProofs` |
| Listeners, allowlist | `src/isz_listeners.c`, `isz_allowlist.c` | `Listeners` (on `Lists`), `Allowlist`, composed in `Server` |
| Surfaces, plane slots, commit | `src/render/` | `Render`, `RenderProofs` |
| Requests, object tables, buffer import | `src/isz_client_dispatch.c`, `protocol/isz_conn.c`, `buffer/isz_buffer.c` | `Requests`, `RequestsProofs`, `IsolationProofs` |
| DRM backend, buffer release | `src/backend/`, `buffer/isz_buffer.c` | `Kms` (on `Lists`), `KmsProofs`, `ListsProofs` |
| Selections, clipboard, consent, capture | `src/isz_client_dispatch.c`, `isz_capture_consent.c`, `render/isz_capture.c` | `Seat`, `SeatProofs` |
| Bridge: windows and their surfaces | `x11bridge/x11_client.c`, `translation.c`, `isz_client.c` | `X11Client`, composed with the server's end in `X11Bridge`; abstract: `SurfaceIds`, `QueueProofs` |
| Bridge: properties, selections, resources, queries | `x11bridge/x11_client.c`, `x11_proto.c` | `X11Resources` |
| Bridge: process, slots, byte streams | `x11bridge/main.c`, `x11_client.c` | `X11Stream` |

All of the library but the thread pool runs on the dispatch thread; all of the
bridge runs on one thread of its own. Sockets couple them to their clients and
to each other, listener callbacks couple the library to the application, page
flips and fences couple it to the kernel, and fences couple it to the pool's
workers. The concurrency in the models is of these kinds. `PROJECT.json` lists
every part with what its modules leave out, and gives the source lines of
every definition.

## How the modules correspond to the code

**ThreadPool.** Each region under `pool->lock` is one action; running a job and
writing its fence are steps outside it. `Spawn` and `SpawnFails` are the loop of
create and its rollback; `Wait`, `Exit` and `Pop` are the three ways through a
worker's locked region; `Destroy` and `Join` are destroy. Waiters may wake
spuriously. Jobs may submit jobs, also while destroy is joining. A submission
that returns -1 is a stutter.

**Transport.** One direction of a connection. Frames are sequences of units,
descriptors ride on the first unit, and `Readable` is the kernel's rule that
ancillary data is a barrier. `Send` is `isz_conn_send`, `DrainStep` one turn of
`isz_conn_drain`; `Wake`, `Deliver`, `Recvmsg`, `Again` and `Eof` are the steps
of the receive loop. After a send the sender may or may not drain: the bridge
does, the server does not.

**Server.** The dispatch thread can be seen between two steps only in a
callback, in the handshake's blocking read, and between items of its loops.
A connection stands for its fd, `isz_conn` and `isz_client`. `AcceptRefused`
is a denied peer or a missing resource, `HandshakeFails` every undo path up to
`epoll_ctl`. `Listeners` holds the buckets and the walk; `Allowlist` holds
entries and the check as the code performs it, beside `Entitled`, the
documented rule.

**Render.** Each public call is an action. A surface name is an address and
may be reused. `Passed` is the validate-and-reserve loop of `isz_commit`, and
the four `Commit...` actions are its four ends. `CommitBackendFailed` follows
the contract of `ops->commit` in `isz_backend.h`; neither present backend
reaches it with a reservation, since headless commits do not fail and DRM
outputs have no slots yet.

**Requests.** Each handler of the dispatcher for surfaces, buffers and outputs
is an action, with the object table and the buffers it changes. Addresses and
descriptor numbers are reused. A pointer to freed memory is the value `Freed`;
a step that follows one is undefined behaviour: it sets `ub` and the model
stops there. Disconnection leaves the surfaces, as the code does.

**Kms.** The backend's own interface: attach, commit, flip events, the list
that waits for the flip (`fly`), the list that waits for fences (`wait`),
seat switches, event errors, teardown. The kernel's flips and fences are
external. Queueing a buffer that is already on a list damages both lists and
sets `ub`.

**Seat.** Approvals in a fixed table with expiry and eviction, the capture
table, and the selection and clipboard slots with the descriptors they hold.
Time is a counter that `Tick` advances.

**X11Client, X11Bridge.** A handler of a window request runs to its end before
the next request is read, so it is one action; it changes the window table and
appends messages to `wire`. The server reads them later, one at a time
(`Dispatch`). Both sides count surface ids and never compare them. Input events
go the other way (`ForwardInput`).

**X11Resources.** The remaining opcodes over a client's own tables: property
values as byte sequences, selections with their timestamps, atoms, resource
tables that fill up, images. A request may be malformed, name something that is
not there, or meet a failed allocation. Replies keep the number of bytes
written and the length field, not the contents.

**X11Stream.** Start-up and its failures, the epoll loop with its batches, the
slot table, accept and setup, and the byte stream of each client through
`x11_client_drain`. `recv` may cut the stream anywhere.

## Runs

| Run | Bounds | States | What it shows |
|---|---|---|---|
| `thread_pool` | 3 workers, 4 jobs | 62778 | drained before freed, fence only after the job, no lost wakeup, destroy returns, implements `WorkService` |
| `transport` | 8 messages, socket of 6 units, buffer of 3, queue of 3, 2 descriptors, one fatal message | 4129 | the stream stays framed, descriptors are accounted for, what is written is read, implements `FifoChannel` |
| `render` | 2 surfaces, 2 outputs, registry of 1 | 365583 | what a successful commit guarantees, what a failed one undoes, inhibit counts, reservations |
| `server` | 2 peers, 3 listener nodes, batches of 2 | 809312 | no leaked connection, no stale tag, balanced events, the allowlist kept, complete walks |
| `server_live` | 2 peers, 1 listener | 50704 | queued peers are served, hangups are noticed |
| `requests` | 2 clients, 2 surfaces, 2 buffers, 2 descriptors, 3 and 2 ids | 300875 | tables and surfaces agree, descriptors have one owner, clients do not reach each other |
| `kms` | 1 output, 1 surface, 3 buffers | 48075 | exact reference counts, one commit pending, no release before the flip, signalled buffers released |
| `seat` | 1 client, 2 outputs, 2 descriptors, 2 approval slots, timeout 2, time to 3 | 420696 | captures only under a current approval, no current approval evicted while there is room, descriptors held once |
| `x11_bridge` | 2 clients, a root and one window each, 2 geometries, 2 surface ids, 2 messages under way | 73955 | the server ends with the windows' surfaces, no surface is lost, implements `SurfaceIds` |
| `x11_resources` | 1 client, tables of one entry, values to 3 bytes | 10039 | selection owners are told, pages rebuild a property, windows leave nothing, an error means nothing was done |
| `x11_stream` | 3 clients, 2 slots, buffer of 4 bytes | 304181 | the parser keeps to request boundaries, events find their client, everybody is served |
| `no_freed_buffer` | as `requests` | | a violation, below |

The bounds are the least at which the cases of interest meet: a socket that
holds two frames but not three, queues, tables and registries that fill up,
an address or slot that is freed and taken again within one batch, two
connections in one batch, an approval that expires while the table is full,
a third buffer that waits behind an unsignalled one, a property longer than one
page, a bridge that is two messages ahead of the server. In `x11_bridge` stacking orders are
limited to 0 (`ZMax`), so the 32-bit edges of `zpos` are outside the run. In
`x11_resources` malformed requests are those with a bad list and those that
meet a failed allocation; other malformed requests take the same refusal path.

Symmetry is used only in runs without liveness properties. A `VIEW` leaves
out the last reply and what no property and no later step depends on; each MC
module says why it may. Runs that switch deadlock checking off model systems that may stop:
a pool or server that was destroyed, a connection that closed, a step that is
undefined.

## Fairness

Liveness is stated for the pool, the transport, the server, the DRM backend and
the bridge's streams.

- *ThreadPool*: each worker is scheduled, jobs return, create and join go on.
  Nobody must submit or destroy.
- *Transport*: the receiver's loop runs, and a drain that began goes on.
- *Server*: the application keeps calling `isz_dispatch` and callbacks return
  (`FairSpec`). `PoliteSpec` adds assumptions about the environment that the
  code does not enforce: peers in a handshake answer or hang up, bursts of
  requests end, and `accept4` does not fail for ever. `server_live` holds only
  under them; without the first, one silent peer holds `isz_dispatch`.
- *Kms*: a dispatch with nothing to read happens again and again, which is what
  polls the fences. The kernel need not flip or signal.
- *X11Stream*: the bridge's loop is scheduled, and a client that has connected
  sends its setup or hangs up, since the bridge reads the setup on its only
  thread. Clients need not finish a request they began.

## Proofs

All are for any values of the constants, under the named assumptions of the
modules (there is a worker, `None` is not a member of the sets it is used
beside, table sizes and timeouts are natural numbers).

- **`QueueProofs`**, the pool: type correctness, `DestroyDrains`, `FenceMeansDone`,
  and that the pool implements `WorkService`. That the queue is empty when the
  workers are gone depends on why each one left. `IInv` therefore adds
  `QueueInv` (the queue is the part of the submission order not yet begun),
  `HoldInv` (which worker holds which job), `ProgressInv` (run and signal counts
  follow from where a job is) and `PhaseInv` (what each phase of create and
  destroy says of `shutdown` and of the workers).
- **`QueueProofs`**, the surface ids: the two counters agree however far the bridge runs
  ahead (`IdsAgree`), and every id a window holds exists once the server has
  caught up (`HeldExists`). The invariant follows the bridge's counter along
  the queue: it starts at the server's counter, rises by one with each create,
  and ends at the bridge's. The run `x11_bridge` checks that the bridge
  implements `SurfaceIds`, on its bounds.
- **`KmsProofs`**: `OneInFlight`, `RefsExact` and `ReleasedAfterFlip`. The guard
  of a commit reads the backend's state and not the kernel's, so `PendingInv`
  adds that nothing is pending in the states before and after a commit. That
  one holder goes with one reference needs more than the counts: `RefsInv` adds
  that no list names a buffer twice, that the two release lists are disjoint,
  and that a buffer is with one surface only. `FlipInv` adds that a buffer whose
  flip is still to come is not among those that only wait for their fences.
  `RefsExact` holds up to a step that is undefined in C, which the model records.
- **`ServerProofs`**: `ConnectionsExact` and `NoStaleTag` from `ConnInv`: lists
  and batches name nothing twice, the connection in hand is on no list a step of
  it would disturb, and the batch is empty outside `isz_dispatch`. `EventInv`
  adds that a peer that waits was never announced and one that has left cannot
  come back, which gives `EventsBalanced`. `GateKept` holds since the check errs
  on the safe side only and entries are never removed while a connection is
  open. For `RoundComplete`, `WalkInv` says that the walk has called exactly what
  stands before the node it saved, and, when it saved the head, all that was due;
  removing called nodes keeps the order of the rest.
- **`SeatProofs`**: `CaptureConsented`, from `ConsentInv` (no entry outlives the
  last approval of its key), `FdsHeld`, which is inductive with its types, and
  `GrantKept`. For that, `TableInv` says that a current approval is out of the
  table only while every slot outlives it, so as many other approvals are
  current as there are slots.
- **`RequestsProofs`**: `FdsOwned` is inductive. `TableExact` needs in addition
  that the next id is fresh, and that no surface points to a connection that is
  gone. **`IsolationProofs`**: `Isolation` needs that what a step frees is
  reached from one client only: parents belong to the same client (`Kin`), a buffer is held by one
  surface (`Exclusive`), and by a surface of the client that can name it
  (`Own`).
- **`RenderProofs`**: `InhibitExact`, from `CountInv` (a surface fresh from
  `calloc` does not inhibit, which is why `isz_surface_create_layer` may put it
  on an output without counting it), `BackendFailureRestores`, `ReservationKept`
  and `FrameSound`. The last three rest on one argument about the loop of
  `isz_commit`: a surface it passes holds its slot already or finds it free, of
  the registry and of the surfaces before it, so no two that pass name one slot.
- **`ListsProofs`**: what the proofs of `Server` and `Kms` share. Unlinking takes
  one node from a list that names none twice, appending and joining keep it so,
  and a walk over a set of positions keeps their order.

Filters of lists are written with sets of positions (`Lists`) and not with a
recursive operator, and what needs induction, as that a set of positions can be
walked in order, is proved from the well-foundedness of the natural numbers.

Model-checked only: all liveness, which is beyond the prover; `StreamIntact`,
`FdsAccounted` and the refinement of `FifoChannel`, which rest on the lengths of
unbounded concatenations; what `X11Bridge`, `X11Resources` and `X11Stream`
promise, where the state is compared with a fold over the messages under way or
with what a recursive parser makes of the bytes.

## Where the code and its documents differ

`no_freed_buffer` violates `NoFreedBuffer`: the object table holds no reference
to a buffer, yet `BUFFER_DESTROY` drops one (`src/isz_client_dispatch.c:861`).
After a surface with a buffer was destroyed, destroying the buffer by its id
follows freed memory, where the comment at line 857 says "a silent no-op". The
proved properties of `Requests` hold up to such a step.

Met while reading, followed by the models where they are in reach, and not
checked by a run:

- *Transport*: a message may be handed descriptors of the next one
  (`isz_protocol.c:326`). After the handshake nothing drains a server's queue
  (`isz_conn.c:167`). A client marked dead for being slow is not disconnected
  (SPEC.md:258).
- *Server*: the handshake blocks dispatch (`isz_listen.c:232`). A callback that
  removes the next listener frees the node the walk goes on with, and listeners
  added in a walk may fire in it (`isz_listeners.c:110`). `isz_destroy` emits
  its disconnect events after the state that mutes them. Cgroup entries after
  the first see one line only (`isz_allowlist.c:211`).
- *Render*: a refused commit keeps the slots it reserved (`isz_commit.c:144`).
  A reservation made under an earlier slot or output outlives its surface
  (`isz_surface.c:108`). A held slot skips the format check
  (`isz_plane_slots.c:110`). The inhibit event precedes the change it reports.
- *Requests*: a destroyed parent leaves its children linked
  (`isz_surface.c:105`). Surfaces of a client that left keep a pointer to its
  connection. An attach that cannot be registered answers `NO_MEMORY` though
  the buffer is attached.
- *Kms*: enabling the seat does not reset a commit whose flip was lost, although
  the comment at `isz_drm.c:293` names that path. A buffer still on a release
  list can be queued again by a second commit. A failure of init leaves the
  seat open (`isz_backend.c:71`).
- *Seat*: the descriptor a clipboard or selection request brings is duplicated
  and the original is not closed. Capture stop forgets its connection before
  it would notify it (`isz_capture.c:149`). Owners are not cleared when they
  disconnect (SPEC.md:563).
- *Bridge*: grandchildren of a destroyed window survive, although
  `x11_client.c:1095` says "recursively". The handshake may read past its last
  message and leave the rest until the next event (`isz_client.c:163`).
  Restacking can overflow `zpos` (`x11_client.c:1030`). A refused `CreateGC`
  or replaced property may already have dropped or kept something. Some
  replies state another length than they write (`GetWindowAttributes`,
  `QueryTree`, `GetAtomName`, `QueryFont`, `ListFontsWithInfo`,
  `QueryBestSize`). Opcodes with a reply that the bridge does not know get
  none.

## Not modelled

- *Re-entry*: callbacks that call back into the surface functions, emit, or
  remove a listener ahead of the walk; after the last the walk is undefined.
- *Code nothing calls*: the per-client buffer cache, the VT signal path and the
  connector rescan of the DRM backend, and libinput, session and keymap set-up.
- *Stored and not read again*: keyboard focus, cursor, text input; modes,
  colour, gamma and HDR values, which go to the kernel as they come.
- *Pure decoding*: EDID, the typed field encoders of the protocol, damage
  rectangles, pixels, font metrics.
- *No state to check*: memory pressure, crash recovery (restores the VT and
  raises the signal again), log, accessors, test hooks.
- *Applications*: `tinyisz` and the compositor tool use the public interface
  and add no state to the library.
- *Kernel detail*: `MSG_CTRUNC`, a frame split over several kernel buffers,
  cgroup files over 4095 bytes, the `ENABLE_THREAD_POOL=0` build.
