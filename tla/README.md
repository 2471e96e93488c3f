# Verification of the desktop's protocols

This directory models the parts of this KDE Plasma fork in which several parties
have to agree on an order of events: the transactions that carry a
`wl_surface.commit` to the screen's scene, the loop that decides when the scene
is painted, the thread that carries frames to the kernel, the configure events
by which KWin and a client agree on a window's geometry, the threads of a
Wayland client that share one connection, and the end of a session. TLC checks
the models on small instances; TLAPS proves the main invariants of each for
every size.

Paths below are relative to `src/kde-kwin/src/` unless they start with `src/`.

## 1. Inventory

The repository is a customised KDE Plasma: KWin (`src/kde-kwin`), the Plasma
workspace and desktop (`src/kde-plasma-workspace`, `src/kde-plasma-desktop`),
libwayland and the protocols (`src/wayland`, `src/wayland-protocols`), and the
owner's own scripts, patches and configuration.

| component | state | operations | interacts with | what is hard |
|---|---|---|---|---|
| Wayland transactions `wayland/transaction.cpp` | entries (surface, state, fences, previous, next) | add, merge, amend, commit, tryApply, apply | surfaces (queue ends, applyState), file descriptors of fences | reentrant apply, queues shared between surfaces, missed wakeups, deletion while in use |
| wl_surface `wayland/surface.cpp` | pending and current state, child lists, cached transaction, queue ends, mapped, role generation | commit, applyState, add and remove child, clear barrier, next role generation, destroy | transactions, sub-surfaces, the scene | state merged far up the tree, children applied before parents, cached `mapped` |
| Sub-surfaces `wayland/subcompositor.cpp` | parent, mode | get_subsurface, destroy, set_sync, set_desync | surfaces' cached transactions | synchronization inherited from any ancestor; order of destruction |
| Fifo protocol `wayland/fifo_v1.cpp` | two flags of the pending state | set_barrier, wait_barrier | scene (clears barriers) | barriers nobody will clear |
| DRM commit thread `backends/drm/drm_commit_thread.cpp` | queued, submitted and dropped commits, target time, ping flag | the thread loop, optimizeCommits, submit; addCommit, pageFlipped, handlePing, clearDroppedCommits, destructor | main thread (mutex, two condition variables, queued calls), kernel | interleaving, reordering, refusals, timeouts, shutdown |
| DRM atomic commits `backends/drm/drm_commit.cpp` | properties, buffers, frames per plane, target time | merge, isReadyFor, areBuffersReadable | commit thread | which buffer is on which plane after merges |
| DRM GPU and outputs `backends/drm/drm_gpu.cpp`, `drm_pipeline.cpp` | pipelines, defunct commits, modeset timer | dispatchEvents, modesets, leases | commit threads | events for outputs that are gone; modeset only when idle |
| Render loop `core/renderloop.cpp`, `compositor.cpp` | timers, pending frames, inhibition, repaints of layers | schedule, prepare, composite, completed, dropped, inhibit | compositor, DRM backend | a requested repaint forgotten; a frame counted twice or never |
| xdg-shell `wayland/xdgshell.cpp`, `xdgshellwindow.cpp` | configure events in flight, acknowledged serial, geometry asked for and shown | move, resize, maximize, configure, ack_configure, commit, reset | surfaces (extensions), window management | requests, acknowledgements and commits cross each other |
| Session manager `src/kde-plasma-workspace/ksmserver` | state, clients with save and phase flags, interacting client, timers | logout, checkpoint, saveYourselfDone, phase2Request, interact, cancel, protectionTimeout | X session clients, plasma-shutdown, KWin | late answers after a timeout or a cancellation; two phases |
| Xwayland selections `xwayland/` | owner on each side, transfers in flight | owner change, request, timeout | X11 and Wayland clipboards | ownership changes cross in flight; a peer that never answers |
| libwayland client `src/wayland/src/wayland-client.c` | reader count, read serial, queues, map of objects, reference counts | prepare_read, read_events, cancel_read, dispatch, create and destroy proxies | several threads, the server | everyone waiting for the last reader; objects destroyed while events for them are on the way |
| Session startup, notifications, clipboard history, window management data structures, scripts | sequential models and job lists | | | little concurrency |

What makes each component correct:

* *Transactions and surfaces.* A ready transaction is applied at once; states
  of one surface are applied in commit order; a synchronized tree changes
  together; queues stay well formed under reentrancy; nothing keeps a pointer to
  a deleted transaction or sub-surface; nothing leaks when clients vanish; no
  barrier stays that nobody clears; every commit is shown at last.
* *Commit thread.* Never a commit while a page flip is outstanding; merging and
  reordering lose nothing and never reverse a plane; frames are dropped on the
  main thread only; an unfinished buffer is not submitted; a timeout is reported
  only when it is one; everything queued finishes; the destructor returns.
* *Render loop.* A requested repaint leads to a frame unless inhibited; the
  number of pending frames is what the backend still owes.
* *xdg-shell.* Every event is acknowledged at last; when none is outstanding what
  was asked for is what is shown; a window the user has moved stays there.
* *Session manager.* Whoever asks for a logout is answered whatever clients do;
  clients are killed only after they have saved or were given up; one dialog at
  a time; a cancelled logout kills nobody.
* *Xwayland.* Both sides agree on the owner once messages have arrived; a
  transfer ends.
* *libwayland.* Each queue is a channel of its own: its events are handled in
  order, once, and not for destroyed objects. No thread sleeps through a read or
  an error; no proxy is freed while something refers to it.

The hazards, with their lines and the properties that cover them, are listed in
`PROJECT.json`.

## 2. The modules

| module | models |
|---|---|
| `SurfaceTransactions` | transactions, surface state, sub-surfaces, fifo |
| `MCSurfaceTransactions` | the trees, commit shapes and bounds of its runs |
| `DrmCommitThread` | the commit thread of one output, with the main thread, GPU and kernel around it |
| `PlaneUpdates` | what `DrmCommitThread` implements: a mailbox of contents per plane |
| `RenderLoop` | the render loop of one output and the compositor's frame |
| `XdgConfigure` | the window of one xdg_toplevel, its xdg_surface and its client |
| `WaylandClient` | a connection of libwayland shared by threads, with the server |
| `EventChannels` | what `WaylandClient` implements: a channel per event queue |
| `SessionShutdown` | ksmserver, its clients, and plasma-shutdown |
| `SurfaceTransactions_proofs` | its type invariant and the lemmas about merging and the call stack |
| `SurfaceQueue_proofs` | theorems about the queues of `SurfaceTransactions` |
| `SurfaceOrder_proofs` | theorems about the order in which commits are shown, mapping and barriers, and the links of the queues |
| other `..._proofs` | theorems about the module they are named after |

The modules meet where the code's components do: a frame that `RenderLoop`
presents is a commit `DrmCommitThread` is given, and `FramePresented` and
`FrameDropped` are what becomes of it there (`PageflipsFinish`,
`FramesDroppedByMain`); a commit that `XdgConfigure` applies has been carried by a
transaction of `SurfaceTransactions`, in order (`AppliedInOrder`). Each module has
of the other what that one promises, not its state.

### SurfaceTransactions

KWin serves Wayland requests, fences, timers and painting on one thread, but
its functions are deeply reentrant: applying a transaction tries its
successors, which apply, which try theirs. The model keeps the C++ call stack
in `stack`. A handler (a request, a fence, a cleared barrier) fires only when
the stack is empty (`Idle`), pushes the calls it makes, and each `Call` action
is the body of the function on top, up to the next call it makes. So the
invariants see every intermediate state of a recursion, and those that hold
only between handlers say `Idle`. Loops over child surfaces follow the stacking
order, which the client sets. Where the order matters, in the calls that a
removed barrier or a mode change makes for the children, the model takes them in
any order; `MergeChild` takes them in a fixed one, since what it changes, the order of
the entries, is sorted again in every possible way before they are applied.

| variable | code |
|---|---|
| `life`, `clientGone` | `m_tearingDown`, destruction; `ClientConnection::tearingDown` |
| `sub`, `parent`, `mode` | the `SubSurfaceInterface` and its members |
| `role`, `generation` | a shell role object; `mainSurfaceRoleGeneration` |
| `children` | the `below` and `above` lists of the pending state |
| `cached` | `subsurface.transaction` |
| `first`, `last` | `firstTransaction`, `lastTransaction` |
| `current`, `mapped` | the applied state; `mapped` |
| `status`, `entries` | which `Transaction` objects exist, and `m_entries` |
| `commits`, `latched` | history only |

A state has a `content` (the number of the commit), whether it attaches or
detaches a buffer, the two fifo flags, the role generation and the child list.
`MergeInto` merges them as `SurfaceState::mergeInto` does: later values win, a
commit without a buffer keeps the earlier one, barriers accumulate.
`ForestAssumption` says that no surface is its own ancestor, which get_subsurface
refuses. `Path`, the surfaces from one up to its root, is the least set closed
under the parent, not a recursion, so that it can be reasoned about.

Details a reader of the code will look for:

* `std::sort` in `apply` has a comparator that orders descendants before
  ancestors and unrelated surfaces by main surface; the model takes every order
  that puts descendants first, and dead surfaces last.
* `watchDmaBuf` and `watchSyncObj` are one choice: which of the entries with a
  new buffer get a fence. One fence per entry stands for several.
* `parentDesynchronized` releases its transaction after committing it, the model
  before; nothing that runs in between reads it.
* `ClearFifoBarrier` is the scene: it runs for a surface that has an item, when
  the item is painted or its 50 ms timer expires
  (`scene/surfaceitem_wayland.cpp:75`, 118, 241, 266).
* When a client disconnects, libwayland destroys its resources one by one with
  no event loop iteration in between; the model destroys surfaces and
  wl_subsurfaces in any order.
* The client is assumed not to ask for a second wl_subsurface of a surface,
  which the code does not refuse (see the hazards), nor for what it does refuse:
  the error paths of get_subsurface (`subcompositor.cpp:54`ff) end the client.

### DrmCommitThread

A step of the commit thread goes from one point where it gives up `m_mutex`
(waiting, sleeping, the end of the loop body) to the next; a step of the main
thread is one locked section. `pc` names the point:

| `pc` | place in `drm_commit_thread.cpp` |
|---|---|
| `check` | 37, the interruption check |
| `lock` | 40, wants the mutex |
| `idle`, `flip` | 45 and 43, the waits without and with a timeout |
| `pong` | 54, waits for the main thread's answer |
| `sleep` | 81, the unlocked sleep until the target time |
| `delay` | 112 and 119, the waits in variable refresh rate mode |
| `submit` | 134, holds the mutex and is about to submit |
| `exited` | 38 |

A commit is the function from the planes it modifies to the content it shows
there, and the set of target times merged into it. Time is abstracted: `due`
is the set of target times the current `m_targetPageflipTime` meets, it only
grows, and waits and sleeps end at any moment. `optimizeCommits` is the three
passes of the code, each the set of its possible results; the kernel's answers
to test commits, which decide what may move to the front, are open. A closed
form replaces the loop of `mergeCommits` so that it can be reasoned about, and
`MergeAllIsRepeatedMerge` proves that the loop computes it.

`due` changes where the code assigns `m_targetPageflipTime`: when nothing is ready, when a
commit is added, and when a page flip arrives with commits queued (`MoveTarget`; lines
94, 344 and 384 of `drm_commit_thread.cpp`). It may then meet the target of any queued
commit, and in the first case meets that of the head. Two things are coarser than the
code. `pageFlipped` computes the target anew, which may take it back behind an interval that line
94 has added; the model does not take it back. While the VRR delay runs, line 123
optimizes for `delayedTarget`, the model for `due`. The buffers of a commit become
readable together.

`SpuriousWakeup` is the licence of `std::condition_variable`. `FlipDone` and
`BuffersReadable` are the kernel and the GPU. The path for drivers without
atomic modesetting, which has no thread, is left out, and so is `setModeInfo`,
which changes durations only.

`PlaneUpdates` says what those who hand commits to an output may expect: each
plane has a mailbox of contents, shows them in the order they were added, one
page flip at a time, may skip one in favour of a later one and never drops the
last, unless the kernel refuses a commit or the output goes away. Its `mailbox` is the
contents of the queued commits, `flipping` is `flip`, an outstanding page flip, `lossless` says
that there was no refusal and the output is still there; lists, passes, locks and
waits are stuttering steps.

### RenderLoop

All of it runs in the main thread. `composite` is one call, but what it calls
asks for more repaints, and the answer depends on how far it is: while
`preparingNewFrame` is set a request is ignored because the frame will have it,
afterwards it is remembered or starts the timer. So `composite` is split at those
points (`phase`, and `left`, the layers `renderLayers` has not come to), and a
`RequestRepaint` may come in between. `SetupLayers`, `Present`, `PresentAgain` and
`CompositeFails` are the ways through the fallback configurations; a frame that is
not presented is dropped by its destructor when `composite` returns. All layers
take part in each frame, though the code skips those that are disabled or have no
view, and a graphics reset, which ends `composite` early (`compositor.cpp:655`) and
restarts compositing with new loops, does not happen.

Points in time are left out: a timer that runs fires some time later, and
`scheduleRepaint`'s choice of a target, `notifyVblank` and the render time journal
do not appear. `Inhibit` stands for its callers (DPMS, an inactive session, a
modeset), of which at most `MaxInhibit` hold at a time.

### XdgConfigure

`XdgSurfaceWindow` keeps what was asked for (`moveResizeGeometry`, `nextStates`,
`configurePosition` of `m_configureFlags`), what is shown (`frameGeometry`,
`acknowledgedStates`) and the events between the two (`configureEvents`).
`Move`, `MoveResize`, `Maximize` and `ScheduleConfigure` are requests of the user or
of KWin, `SendConfigure` is the timer, and `ApplyCommit` is
`XdgToplevelInterfacePrivate::apply` with everything it causes: acknowledging,
taking events, geometry and states, mapping and placing, reset on unmapping. The
client (external) dispatches any number of events, acknowledges the last of them,
and may prefer another size unless it is maximized. `wire` and `commits` keep their
order, as the socket and the transactions do.

A geometry is a position and a size; frame, client and buffer geometry are one,
since decorations, scales and gravity are left out, and with them the branch of
`handleNextWindowGeometry` for an interactive move (`xdgshellwindow.cpp:233`), which
takes the position from the pointer. `changed` stands for what sets
`m_haveNextWindowGeometry` besides a new size: the client's window geometry and its
sub-surfaces, in this commit or in one for which `handleCommit` returned early. A
new window is placed by a move; the placements that return a rectangle or a
maximize mode are `MoveResize` and `Maximize` without a request of their own and are left
out. Serials are numbers; the code compares 32 bit ones, and the wrap after four
billion events is not modelled.

Three variables are history. `dragged` is where a move put the window, until
something asks for another position. `wanted` is the position that was asked for
last, by whoever it was: a move, a resize, maximizing, the placement. What the
code keeps for that, `moveResizeGeometry`, follows what is shown and so cannot tell
whether a request got lost. `overtaken` marks the one way in which the code is known to
lose it: `moveResizeInternal` sets the position at once because the size is right
already, and leaves an older event alone that moves the window when it is
answered (section 4). It is reset by the next request, and by a later event that
inherits the flag, since that carries the new position.

### WaylandClient and EventChannels

A thread's loop around `wl_display_dispatch_queue_timeout` is cut where
`display->mutex` is released: `pc` is `out` between calls, `flush`, `poll`, `read`,
`cancel` and `abort` while the thread counts as a reader, `wait` in
`pthread_cond_wait`, `full` and `pending` before dispatching, `handler` while it
runs an event handler, `again` when it read nothing for its queue. `outdated`
stands for the comparison of `read_serial` with the serial a thread remembers.

Events name their objects by id on the wire. `objects` is the map (live, live with
`WL_PROXY_FLAG_ID_DELETED`, zombie, free), `incarnation` tells the proxies apart
that have the same id one after the other. `refcount` is the code's, `Owed` counts
the references there really are. The server (external) sends events, with or
without an object as argument, `delete_id` once it has seen a destruction, an
error, and closes the socket.

Left out, as far as a thread's loop is concerned: a read that fails with an errno
other than `EAGAIN` (`wayland-client.c:1758`), and a message that cannot be queued after some that
could (1771), which both end the connection like the hangup in the model; the loop that waits
for the socket to take more output, with its `cancel_read` (2105); and the object that
an error event names (1099). `Poll` of an idle socket may return at any time, as one with a
timeout does; the properties speak of threads that have something to handle or are
to be woken, so this helps none of them.

`EventChannels` says what a thread may take for granted, with no socket and no
reader. The refinement maps a channel to the closures in the queue followed by
the messages for it that are still in the socket; `ImplementsChannels` is checked
as a property of `readqueue`.

### SessionShutdown

A step is a message of a client, a D-Bus call or a timer of the single threaded
ksmserver. Clients' messages are queued in `out`, so they may arrive after the
server has changed its mind; what the server sends is seen at once. `calls`
counts single shot timers and signals that are still to come: `retry` (1 s),
`closed` and `notify` (the farewell notification and its 5 s timer), `quit` (10 s),
`restored`. `timer` is the protection timer, which runs while nobody talks to the
user. `waiting` and `closing` are plasma-shutdown: waiting for the answer to
`closeSession`, and for KWin to close the Wayland windows; if that is refused it
calls `resetLogout`.

`asked`, `answered`, `gaveUp`, `unready` are history of the current logout; `unready`
are clients that still owe the answer to an older request, which the server
cannot tell from the answer to this one. `outlived` counts the quit timers that go on
after the logout that started them was cancelled or reset: each fires in a later
one, or when nobody logs out, and reports it complete (section 4, `logout.cpp:405`).
These executions go on. `stale` says that a logout was abandoned while something
else of it was still to come: the closed signal of its notification, KWin's answer,
the retry of `performLogout`, or a request for interaction. What follows then is
known to be wrong (`cancelkill`, section 4), or a matter of a logout that nobody asked
for, and with `Leftovers = FALSE` executions end there: the properties are about all
executions up to that point, and `cancelkill` lets them go on. The theorems that do not assume `~Leftovers`
hold for both.

Left out around these handlers: `startupDone`, which sets the state to idle when the
session has started, whatever it was (`server.cpp:1091`); the default session, which
restores nothing (`server.cpp:976`); and an error reply to `closeSession`, after which
plasma-shutdown shuts down without ksmserver (`shutdown.cpp:52`).

## 3. The runs

| run | instance | shows |
|---|---|---|
| `fifo` | main surface and sub-surface, fifo and unmapping commits, mode changes, fairness; 2+2 commits | barriers, waiting and liveness |
| `teardown` | main surface, two sub-surfaces and a sub-surface of one of them, with fences, destroyed in any order, one removed and added again, client lost; 2+1+1+0 commits | queues shared by several surfaces, pointers, leaks, child lists in merged states |
| `nested` | three levels, fifo, plain and unmapping commits, desynchronizing leaf, role object destroyed and recreated; 2+1+1 commits | synchronization and mapping through the tree, wakeups, nesting of `apply` |
| `drm_lifecycle` | 2 planes, 2 commits, 1 refusal, output may go away, fairness | handshake, timeouts, release of frames, progress; reordering and merging, refinement of `PlaneUpdates` |
| `renderloop` | 2 layers, 2 pending frames, 2 modes, failures; 4 requests, 2 inhibitions | frame count, forgotten repaints, limit, progress |
| `xdgconfigure` | 2 positions, 2 sizes; 2 requests, 2 unasked commits | lost requests, agreement and progress of configure events |
| `readqueue` | 2 threads, one object destroyed and created again, which is also an argument; 2 events | read protocol, refinement, references, progress |
| `session` | 2 clients, one of them late and with a second phase, refusing windows, restoring, quit timers that outlive their logout; 2 requests | the six promises of the session manager |
| `selfwait`, `reapply`, `drm_shutdown`, `cancelkill` | minimal instances | the findings below |

**Bounds.** Four `Transactions` are never exhausted by at most five commits of
which some are merged. Two commits of a surface are needed for one to queue
behind another, and a third transaction to be behind both; three levels of
surfaces are needed for synchronization to be inherited, and for a state with
children of its own to be merged upwards; in `teardown` the third level itself need
not commit for that. For the commit thread,
two commits are the least for which one can be merged with the other or moved in
front of it, and two planes the least for which commits may but need not share
one. What needs a third, one that is moved in front of a commit and must stay
behind another, is left to the theorems, which hold for any number of commits
and planes: every safety property of the run is proved. One refusal reaches both
branches of the failure path. For the render loop, `MaxRequests` = 4 lets a request come in every
phase of a frame while two frames are pending, and `MaxInhibitions` = 2 lets the
loop be inhibited twice at once or again while a frame of the first time is
pending. `MaxRequests` = 2 of `XdgConfigure` gives two requests besides the event
of the mapping and of the activation, so that a move comes between events that
are queued, inherited from and acknowledged out of step, and `MaxFrames` = 2
allows a frame and an unmapping or two frames in between. Two threads are one
reader and one sleeper, each of which may be either; `MaxProxies` = 2 reuses an id
once; `MaxEvents` = 2 puts an event for the old object before one for the new.
`MaxRequests` = 2 of `SessionShutdown` is a checkpoint and a logout, or two logouts,
in either order; two clients are one that talks and one that waits.
Deadlock is not checked: a client that has used its commits, an output with
nothing to show or a session that is over has nothing to do.

**Fairness.** `SurfaceTransactions`: called functions return (weak fairness of
`Call`); each fence signals and each barrier of a surface with an item is
cleared. The last two are strong: the event loop serves all ready sources in
turn, so a client that keeps sending requests disables them for a moment, again
and again, but cannot starve them. `DrmCommitThread`: both threads run, the GPU
and the kernel finish; timed waits end. The end of the VRR delay is strongly
fair because its end is an absolute time: earlier wakeups lead back to the same
wait with the same end. Spurious wakeups, new commits, refusals and the
destructor are never required. `RenderLoop`: active timers fire, `composite` returns
and the backend presents or drops its frames (which `PageflipsFinish` shows of the
commit thread). `XdgConfigure`: the timer fires, transactions apply (which
`CommitsShown` is about) and the client answers events; clients that do not are
what `pingTimeout` is for, outside the model. `WaylandClient`: each thread keeps
dispatching and its handlers return; nothing is required of the server, of
timeouts or of spurious wakeups. `SessionShutdown`: messages and timers are
served, KWin answers, and a dialog is answered in the end. Nothing makes a client
save or the notification close: the protection timer and the 5 s timer exist
because of that, and `LogoutEnds` shows that they suffice.

`CommitsShown` is stated for main surfaces with a shell role: nothing paints the
others, so a fifo commit of theirs waits for a role. A synchronized sub-surface
waits for its parent's client, which may never commit. `SyncedTogether` excludes surfaces
whose chain contains one that changes its mode or is re-parented, where showing
an intermediate state is what the protocol asks for. `ShownReadable` holds while
the kernel refuses nothing: after a refusal the code collapses all queued
commits and submits them unconditionally. `PageflipsFinish` ends with the output.


## 4. Findings

Four runs end in a violation, each of a property that a comment or a message of
the code states.

1. `selfwait` (`wayland/transaction.cpp:115`). Merging cached transactions keeps two
   entries of the same surface. With three nested synchronized surfaces the
   commits of the innermost are merged twice, the second entry waits for
   `lastTransaction`, which is the transaction itself, and the tree never shows
   another commit.
2. `reapply` (`wayland/transaction.cpp:200`). A nested sub-surface is given another
   parent while an older commit of it waits in the transaction of its former
   parent. When that one is applied, unlinking the sub-surface first makes the
   newer transaction ready; it is applied inside, unmaps the new parent, tries
   what its children wait for, and so reaches the outer transaction again, which
   is applied and deleted inside its own `apply`.
3. `drm_shutdown` (`backends/drm/drm_commit_thread.cpp:37`). An interruption requested
   between the thread's check and its lock is lost: the thread waits without a
   timeout and the destructor waits for the thread.
4. `cancelkill` (`src/kde-plasma-workspace/ksmserver/logout.cpp:366`). A client given
   up by the protection timer gets its dialog in phase 2 and cancels while the
   server waits for the notification. The user reads "Logout canceled", then the
   notification closes, `startKilling` runs, and every client is killed.

The following were met while modelling and have no run of their own. The
properties that come near one of them name it as an exception (`NoMissedWakeup`,
`ChildListsExact`, `ClosedWhenComplete`, `Agreement`), or the instances keep it out through
constants (`Destroyable`, `Reparented`, `Resettable`, `Leftovers`).

| where | what |
|---|---|
| `wayland/surface.cpp:100` | a destroyed sub-surface stays in a state of its parent that was merged into the cached transaction of the grandparent, itself a sub-surface (TLC: r > a > m > b, b destroyed); `ChildListsExact` stops at the sub-surfaces of a main surface |
| `wayland/surface.cpp:759` | when a surface is not mapped, barriers are cleared one level down only; a grandchild in the same transaction keeps one |
| `wayland/transaction.cpp:194-196` | when one `apply` leads to another that maps the surface again, `isMapped` is asked too late: a surface commits a frame with a fence, an unmapping state and another frame, in this order, and has a desynchronized child that waits for its own barrier. When the fence signals, unmapping clears the child's barrier, the unlinking of that transaction applies the next frame first, and then the surface is mapped, so the child's queue is not tried. Its ready transaction stays queued until something else tries it. TLC reaches this with four commits of the surface and two of the child, and with a desynchronized middle surface in a nested tree; `NoMissedWakeup` excepts sub-surfaces that wait for their own barrier, and with that exception holds in both instances |
| `wayland/subcompositor.cpp:236` | a desynchronized sub-surface whose synchronized parent is destroyed keeps the commit cached for that parent; its later commits are shown at once, and a later change of mode shows the old one after them (TLC: r > m > a, a desynchronized, m destroyed) |
| `wayland/surface.cpp:538` | after a role reset only the main surface's own queue is tried, so a sub-surface that waits for a barrier of the old role generation stays behind; excepted in `NoMissedWakeup` |
| `logout.cpp:405` | the quit timer of a killing phase that was cancelled or reset fires in the next logout and completes it early, against the comment of `killingCompleted`; `session` has these executions, and `ClosedWhenComplete` says that nothing else completes a logout early and that no timer does it twice |
| `logout.cpp:91` | a logout requested during a checkpoint is dropped, its caller is never answered |
| `logout.cpp:94-96` | no return after the retry timer is started |
| `saveCurrentSession` | starts no protection timer: one silent client holds the checkpoint for ever |
| `interactRequest` crossing a cancellation | leaves `clientInteracting` set |
| `wayland-client.c:268-270` | an argument destroyed in the meantime is set to NULL without dropping its reference |
| `wayland-client.c:2459` | a server error may be masked by `EPIPE`, against the comment there |
| `core/renderloop.cpp` | `uninhibit` does not look at `maxPendingFrameCount`: one frame more per inhibition; after a failed composite, the repaint waits for the next request |
| `xdgshellwindow.cpp:187-190` | once a move has cleared the flag of a queued resize event, a commit that acknowledges an earlier event rolls `moveResizeGeometry` back to the old size, and if an event is sent then, the new size is lost; the position is not, and `Agreement` compares positions only |
| `xdgshellwindow.cpp:273-276` | resizing back to the current size, with another position or not, sends nothing while an older event that moves the window is queued, so the older request wins when it is answered; the same happens when a window is maximized and restored, and the first event is answered before the second is sent. `overtaken` marks it, and `Agreement` excepts it |
| `xdgshellwindow.cpp:153` | serials are compared without regard to the wrap at 2^32 |

## 5. What is proved

The theorems hold for every value of the constants that satisfies the named
assumptions of the module. Each safety theorem goes through an inductive
invariant, because the property alone says too little about the state before a
step.

**`SurfaceTransactions_proofs`.** `TypeCorrect`, from `ConstantsAssumption` and for every
tree, reparented or not. The module also holds what later proofs need of the
helpers: what a merged state contains, where the frames of a call stack end up
when a call is replaced by the calls it makes, and which kinds of calls each
handler can push.

**`SurfaceQueue_proofs`**, from `ConstantsAssumption`, `ForestAssumption` and
`Reparented = {}`: any number of surfaces in any forest, of transactions and
commits, with fences, mode changes, destruction and disconnection. The run
`reapply` shows that both properties need the last assumption. `AppliedOnceHolds`:
no transaction is applied inside its own `apply`. `NoDanglingHolds`: nothing refers to a
deleted one. They hold together or not at all. A transaction is deleted at the
end of its `apply`, so if `apply` could be reached again for the same one, the outer
loop would go on with a deleted object; and what is still linked in the queues
decides which transactions an `apply` can reach. So both follow from one
invariant, `QueueInv == Settled /\ Nesting /\ Inside`:

* `Settled` is about the data. `Ends`, `AtEnds` and `Neighbours` say that the ends of
  each queue and the links between entries name transactions that are in it
  (`OnQueue`), also half way through the loop that unlinks one, when the entries in
  front of the loop are out and the others still in (`Left`). `Outside` says that
  transactions outside of the queues have no links. `Counted` says that a
  transaction has as many predecessors at another as that one has successors:
  `apply` clears a predecessor by looking for any entry with that pointer, not for
  the one of the surface, and only the count makes this right. `OneEntryEach`
  limits a transaction to one entry for a live surface unless it waits for
  itself, which is what `selfwait` finds and never gets applied. `Children`,
  `Subtrees` and `Building` say that the surfaces of a transaction are a surface and
  some of its descendants, with everything in between, from the moment it is
  built; `Sorted` that descendants come first once it is applied.
* `Nesting` says which calls can be below which on the stack (`CallersOf`), that `apply`
  is running exactly for the transactions marked `applying`, and for each once.
* `Inside` is the reason why. While a transaction is applied, what is called inside
  works on surfaces below one that is still in its queue (`Below`), hence never on
  the transaction itself: all its entries there have been unlinked already, as
  descendants come first. Reparenting breaks exactly this.

There is a lemma per action (`...Keeps`). `HandlerKeeps` covers the steps that push one
call and leave the queues alone (`QuietData`), `BuildStepKeeps` those that build a
transaction, `LeavesTreeKeeps` the destructions. The unlinking step is the long one:
`LeavesKeepsQueues`.

**`SurfaceOrder_proofs`** builds on `QueueInv`, again with `Reparented = {}`, and proves
four properties.

`AppliedInOrderHolds`: no surface goes back to an older commit. The invariant is
`InOrder` (until the client is gone):

* `Numbered`: no commit is ahead of the number of commits made.
* `QueuesInOrder`: what a transaction carries for a surface is not newer than what its
  successor carries, and what the surface shows is not newer than the first of them.
  A transaction that is cached, or about to be committed, carries nothing older than
  the queue does.
* `PreparedInOrder`: of two cached transactions with commits of the same surface, the
  one cached further up the tree has the older ones, and the one about to be
  committed has older ones than any that stays cached.
* `HeldBack` says why: a transaction is cached only for a surface that is synchronized
  itself or through an ancestor, whose next commit is cached too, or a call under
  way is about to commit it (`Freed`), from the top of the tree downwards.
* `Listed` and `Modes` are what `HeldBack` rests on: a parent's list of children leaves out
  no live child, so a commit takes all that is cached below; and a surface whose
  client never changes its mode is synchronized. `Going` follows the loops of a
  destruction.

The theorem assumes `KeepsParents`, that the parent of a sub-surface whose client
changes its mode is not destroyed. Without it the property is false: see the row on
`subcompositor.cpp:236` in section 4.

`UnmappedHasNoBarrierHolds`, from `MapInv`: which surfaces the nested loops of `updateMapped`
and `clearUnmapped` have still to visit (`MappingCalls`), and that an unmapped surface with a
barrier is among them (`BarriersGo`). It assumes `TwoLevels`, sub-surfaces of main
surfaces only, because `surface.cpp:759` clears barriers one level down.

`MappedWithParentHolds`, from `MapsRight`: a surface whose `mapped` flag disagrees with its
buffer and its parent is still to be visited. It holds at any depth, and assumes
`DestroysLeaves`, that the destroyed surfaces have no sub-surfaces, and that the client is
still there: when a parent goes away, `mapped` of the child is not computed again
until its next commit.

`QueueLinksHolds`: in the event loop, the queue of every live surface is a doubly linked
list of exactly the queued transactions that have an entry for it. `LineInv` says
what holds while the calls run. Each queue is a sequence of different transactions
in which the entries that are still linked lead to the next one (`Lines`); what waits
for a transaction that is not being applied is what comes right behind it (`PrevsMatch`); nothing waits for itself (`Alone`). The last is false for deeper trees,
as `selfwait` finds, so the theorem assumes `TwoLevels`; for two levels it holds because
a transaction under construction has one entry per surface (`Singles`) and a
`merge` under way takes only surfaces it does not have yet (`Apart`). `Chain` walks a
queue with a recursive function, for as many steps as there are transactions:
`ChainIsQueue` shows, with the least number principle, that the walk follows the
sequence, and with a count that it comes to the end, for which it needs finitely
many transactions.

**`DrmCommitThread_proofs`**, from `ConstantsAssumption` and `NoneAssumption`.
`TypeCorrect` uses `IInv == TypeOK /\ Handover`. `Handover` is what the typing of the
list operations needs: nothing is committed while the thread sleeps, delays or
submits, the list is not empty while it delays or submits, and `m_committed` is
null exactly when the kernel has no flip outstanding. `NeverBusyHolds` (the kernel
is never asked for a second flip) follows from `Handover`, `HonestTimeoutHolds` from
`Asking`, which ties the page flip timeout's query to the commit it asks about.
`MergeAllIsRepeatedMerge` shows that the collapse of the queue after a refusal
equals merging its commits one by one. Lemmas give the types of `MergeFront`,
`MergeSamePlanes` and `MoveReady`, and one `...Section` lemma stands for each critical
section.

The second half of the module is about what the planes show. `Order` says that a commit that is
queued behind another shows later contents on the planes both have, and that a
plane shows something older than all that is queued for it. Each pass of
`optimizeCommits` keeps that order: merging unites neighbours, and a commit moves to
the front only past commits it shares no plane with. `Complete` says that the newest
content of a plane is queued or shown as long as nothing was refused. From these
follow `PlanesInOrderHolds` (a plane never goes back), `NewestKeptHolds` and
`UpdatesImplemented`, the refinement of `PlaneUpdates` step by step. `ShownReadableHolds`
uses `ReadyToShow`, and `FramesDroppedByMainHolds` that objects leave the lists of the
thread only for `m_commitsToDelete`.

**`XdgConfigure_proofs`.** `MoveSticksHolds` and the part of `AgreementHolds` about states and
`moveResizeGeometry`, from `XdgInv`: after a
move no queued event asks for another position (`Sticks`), the last queued event
carries the requested states unless a newer one is about to be sent (`LastStates`),
and a window that waits for its first configure event has one queued or scheduled
(`Announced`). The part about positions, from `Following`: while some
queued event moves the window the last one does (`Moves`, `MovesLast`), which is what
inheriting the flag is for; that one then carries the position asked for last, so does
`moveResizeGeometry`, and the frame has it once no event moves the window. A request is
`overtaken` only if no position is waiting to be sent. `EventsAwaitedHolds`, from `Waiting`: the serials of the kept events and of
those on the wire ascend, those on the wire are newer than any the client has
acknowledged (`Ordered`), and each event KWin keeps is on the wire, acknowledged by
a commit under way, or not newer than the client's last acknowledgement (`Awaited`).

**`WaylandClient_proofs`**, from `ThreadsAssumption` (a finite set of threads).
`ReaderCountExactHolds`: `reader_count` counts the threads that prepared a read and
have neither read nor cancelled. `SleepersAwaitedHolds`: a thread asleep on
`reader_cond` has a reader that will wake it. `ReadInv` adds that the sleeping and
the outdated waiters are disjoint subsets of the waiting ones, and that a waiter
is outdated or somebody still reads.

**`RenderLoop_proofs`.** `FrameCountExactHolds`, `FrameLimitHolds` and
`NoForgottenRepaintHolds`, from `LoopInv`: the count of pending frames is exact, the
frames stay within a budget in which an inhibition counts as one, and a delayed
repaint is covered by a timer, a frame or an inhibition.

**`SessionShutdown_proofs`.** `ClosedWhenCompleteHolds`, `InteractingConnectedHolds` and
`OneDialogHolds` need no assumption about leftovers. The first follows from `KillInv`, of which
`OutlivedExact` says that outside the killing every quit timer that runs has outlived the
logout that started it, and is counted: so one that fires there takes away one of
them. `KillOnlyAfterSavingHolds` and `SavedBeforeKilledHolds` assume `~Leftovers`, and the
run `cancelkill` shows that they must: `CallbacksExpected` says that without
leftovers the callbacks of the notification exist only while the server waits for
it or kills. `SavedBeforeKilledHolds` and `OneDialogHolds` rest on `SaveInv`: of each
client that owed nothing before the logout, what it still owes, its stage and its
messages under way fit together with what the server takes it for (`Follows`), and
when the server stops waiting, all clients have saved or were given up (`Served`).

**Only model-checked**, and why:

* All liveness properties: they rest on fairness and `ENABLED`, which are outside
  the prover.
* `NoWaitCycle`, checked by `selfwait`: does not hold in general, and is about reachability.
* `NoLeak`: false when a transaction waits for itself, as `selfwait` shows. The run
  `teardown` checks it where that does not happen.
* `NoMissedWakeup`: with its exception (a sub-surface that waits for its own barrier) it
  needs an account of every call that is still to be made for each surface, which
  `QueueInv` does not keep. Without the exception it is false (section 4). The run `nested` checks
  it; it was also checked with four commits of a main surface and two of its sub-surface, and
  with a desynchronized middle surface, where the version without the exception fails.
* `ChildListsExact`: for main surfaces and their sub-surfaces; further down it is false
  (section 4).
* `SyncedTogether`: not attempted.
* `NoUseAfterFree` and `ImplementsChannels` of the client library: the first counts the
  references in a queue, the second filters the socket by channel, both by
  recursion over sequences, which takes induction over data.

## 6. Not modelled, and the plan

Next candidates, in this order: the Xwayland selection bridge (two asynchronous
protocols, timeouts, a source that vanishes during a transfer); session startup;
`DrmGpu` with several outputs, modesets and commits that outlive their output,
which needs the kernel's state as a counterpart; an abstract specification of
atomic updates that `SurfaceTransactions` refines. Theorems:
`ChildListsExact` and `SyncedTogether`, which can build on `QueueInv` and
`InOrder`; the parts of `NoUseAfterFree` that do not count the references of a queue, such as that a freed object has no
owner left.

Left out for good: rendering, input, effects, scripting, configuration modules,
QML and applets, window placement and stacking lists, the owner's scripts,
generated and third-party code. They make up nearly all of the repository's half
million implementation lines, and most of them are sequential code around a
toolkit, a GPU or a file, without a protocol between concurrent parts whose
failure a model could show. The modelled share is therefore small in lines; the
modules cover the places where threads, clients, the kernel and timers meet.
