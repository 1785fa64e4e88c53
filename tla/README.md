# Verification of the VRuskaEngine runtime

VRuskaEngine is a fork of Monado, an OpenXR runtime written in C. An
application loads the runtime as a library, or talks to a service process over
a socket; drivers produce tracking data, a state tracker implements the OpenXR
calls, and a multi-client compositor collects the layers of all applications
and hands them to one native compositor. This directory holds TLA+ models of
the parts where threads, clients and time meet, the TLC runs that check them on
small instances, and TLAPS proofs of the properties that matter most.

Paths below are relative to `src/src/xrt/`.

## Inventory

| Component | State | Operations | Talks to | What is hard | What makes it correct |
|---|---|---|---|---|---|
| Multi-client compositor, one client (`compositor/multi/comp_multi_compositor.c`) | slots progress/scheduled/delivered, wait thread, session and visibility flags, a pacer | create, destroy, begin/end session, predict/wait/begin/discard frame, layer_begin, layers, commit; deliver, latch, retire | system compositor (list lock, callbacks), app pacer, native compositor's fences | app thread, wait thread and render thread share slots under two locks and one condition variable; destroy with work pending; polling against the clock | no frame lost, shown early, or shown out of order; the unlocked slot has one user; every call returns |
| Multi-client compositor, system (`compositor/multi/comp_multi_system.c`) | session state machine, active count, client list, timings | render loop, update_session_status, set_state, set_z_order, create/destroy | clients, native compositor, IPC server | sleep and wakeup of the render thread, warm start, shutdown at any moment, unlocked visibility flags | native begin/end alternate; sleeps only with no active client; wakes for every client |
| App pacing (`auxiliary/util/u_pacing_app.c`) | ring of 128 frame records, latest timings | predict, mark points, discarded, delivered, gpu_done, latched, retired, info | multi compositor | ring slot reuse, calls in the wrong state assert | predicted times increase; no record reused while live |
| OpenXR session (`state_trackers/oxr/oxr_session.c`, `oxr_session_frame_end.c`, `oxr_frame_sync.c`) | XrSessionState, running flags, waited/begun frame ids, count of active waits, frame sync | begin, end, request exit, poll, wait/begin/end frame, destroy | compositor, event queue | xrWaitFrame on one thread racing xrBeginFrame, xrEndFrame and xrEndSession on another | state order of the OpenXR spec; no frame id lost; begin always has a waited frame |
| IPC server (`ipc/server`) | client table, thread states, active/focused/primary client, reference counts | accept, client thread, shutdown, set active/primary/focused, session calls | all of the above | client threads come and go while the main loop accepts; one lock; joins under the lock | one primary at a time; counts balance; slots are reused only when their thread is gone |
| IPC client and channel (`ipc/client`, `ipc/shared`) | connection, client side object ids, layer slot | request/reply calls | IPC server | one socket shared by threads | replies match requests |
| Swapchains (`compositor/util/comp_swapchain.c`, `state_trackers/oxr/oxr_swapchain.c`) | images, in use flags, index fifos, garbage stack | acquire, wait, release, destroy, collect | compositors | destruction from any thread while the GPU uses an image | image order; no use after free |
| Native compositor (`compositor/main`, `compositor/null`, `compositor/render`) | frames waited/rendering, targets, Vulkan objects | predict/begin/commit | GPU, targets | GPU synchronisation | mostly Vulkan calls |
| Space overseer (`auxiliary/util/u_space_overseer.c`) | graph of spaces, reference counts, use counts | create, locate, ref space inc/dec | devices, sessions, IPC | counts per reference space, events on the first and the last user | counts balance |
| Session and system helpers (`auxiliary/util/u_session.c`, `u_system.c`) | event queue, session list | push, poll, broadcast, create/destroy | OpenXR, IPC | events pushed while a session goes away | events in order |
| Worker pool (`auxiliary/util/u_worker.c`) | task array, counters, threads | push, wait_all, group and pool lifetime | compositor, tracking | bounded array, threads limit, waiting for a group | every task runs once; wait_all returns after all |
| Frame sinks (`auxiliary/util/u_sink_*.c`) | queues between threads | push, loop, destroy | drivers, tracking | queue at its limit, destruction | order, no leak |
| Small data structures (`u_index_fifo.h`, `u_id_ringbuffer.cpp`, `u_hashmap.cpp`, `m_relation_history.cpp`) | arrays | push, pop, get | everything | wrap around | equal to a simple sequence |
| OpenXR input, actions, spaces, API (`state_trackers/oxr/oxr_input.c` and others) | action sets, bindings, handles | sync actions, locate | devices | size | mostly data transformation |
| Prober, GUI, steamvr driver, targets, hub | device lists, windows | probe, draw | drivers | I/O | not modelled |
| Drivers, tracking, Vulkan helpers, math, bindings, Android, gstreamer, D3D, OpenGL | device and GPU state | poll, filter, render | hardware | I/O and numerics | not modelled |

The tear down of the whole service, the sockets, and everything below the
`xrt_compositor_native` and `xrt_device` interfaces stay outside: they are
calls that return.

## The modules

| Module | Models | Role |
|---|---|---|
| `MultiCompositor` | `comp_multi_compositor.c`, and the parts of `comp_multi_system.c` that touch one client's slots | component |
| `FramePipeline` | nothing: what a client's frames may rely on | abstract specification |
| `MultiCompositor_proofs` | | theorems about `MultiCompositor`: types, owner of the unlocked slot |
| `MultiCompositor_frames_proofs` | | theorems about its frames, wakeups and tear down; extends the former |
| `FramePipeline_proofs` | | theorem that `MultiCompositor` implements `FramePipeline`; extends the former |
| `MultiSystem` | `comp_multi_system.c` with the session calls of the clients | component |
| `MultiSystem_proofs` | | theorems about `MultiSystem` |
| `OxrSession` | `oxr_session.c`, `oxr_session_frame_end.c`, `oxr_frame_sync.c`, guards of `oxr_api_session.c` | component |
| `OxrSession_proofs` | | theorems about `OxrSession` |
| `IpcServer` | `ipc_server_process.c`, `ipc_server_per_client_thread.c`, session and reference space calls of `ipc_server_handler.c`, the use counts of `u_space_overseer.c` | component |
| `IpcServer_proofs` | | theorems about `IpcServer` |
| `Swapchain` | `oxr_swapchain.c`, `comp_swapchain.c`, the references the layer slots hold and the drawing of the native compositor | composes `FramePipeline` with the swapchains of a client |
| `Swapchain_proofs` | | theorems about `Swapchain` |
| `WorkerPool` | `u_worker.c` | component |
| `WorkerPool_proofs` | | theorems about `WorkerPool` |
| `MC…` | | the modules the `.cfg` files are for |

Definitions named `X_Something` next to `X` are faulty variants of `X`, a
dropped signal or a missing reset: each property is shown to fail for one of
them, so that no property holds merely by the shape of the model.

### MultiCompositor

One client. The threads are program counters: `appPc` for the thread that calls
the compositor functions, `waiterPc` for `run_func`, `renderPc` for the part of
`multi_main_loop` that handles this client; clock, GPU and visibility are the
world. `progress`, `scheduled` and `delivered` are the three `multi_layer_slot`s,
`wt` is `mc->wait_thread`, and `cond` is the set of threads asleep on its one
condition variable: `Signal` wakes one of them, whichever it likes, and a
sleeper may also wake by itself. A section that holds one lock and cannot block
is one step; the sections that nest `list_and_timing_lock` and `slot_lock` take
and release them step by step (`listLock`, `slotLock`), because their order is
the point. `pacer` is the state of each frame's record in the app pacer, so that
the pacer's asserts can be stated as `PacerCallsLegal`. The application is any
that follows the call order of the state tracker: predict, wait, begin or
discard, layer_begin, layers, commit.

Fences and semaphores are the same handshake, so one flag `pushed` stands for
both. `gpu[f]` is `"unfenced"` for frames committed without a fence, or with a
fence whose import failed. The layers are counted here; what they refer to is in
`Swapchain`.

`ImplementsFramePipeline` maps progress and scheduled to the frames in flight,
delivered to the frame shown, and the retired frames to the past; every step of
the three threads is a step of `FramePipeline` or changes nothing it sees.

### MultiSystem

The render thread (`renderPc`, `state`, `asleep`), any finite set of clients
(`session`: where each is between create and destroy), and the thread that
destroys the system. `update_session_state_locked` together with the decision to
sleep is one step since `oth` is held throughout; `begin_session` and
`end_session` are two steps each, the count under the lock and the flag outside
of it, in the order of the code. `set_state` is two steps, the write of
`visible` and the write of `focused`, since it takes no lock. Whether a client
has a delivered frame is left open (`Select`): that is what `MultiCompositor` is
about. Assumed of the environment: clients are destroyed before the system, one
`set_state` at a time, and a client is shown and focused together as the IPC
server does.

### OxrSession

A session with a compositor, and two application threads, one in `xrWaitFrame`,
the other in all other calls, as games do it. `comp[f]` is what the compositor
believes of frame `f`, against the ids `waited` and `begun` the session keeps.
`xrWaitFrame` is four steps (API checks, frame sync, compositor, store),
`xrBeginFrame` three, since it decides on a count it read earlier. `sink` holds
the compositor's events until they are polled. Compositor calls may fail, which
loses the session. `Android` selects the build: only there does a session that
ended become ready again (on a desktop build `EXITING` follows, because the
state machine gets to STOPPING only by `xrRequestExitSession`), and only there
do pause and resume arrive.

### IpcServer

The main loop, one thread per slot, and the delay threads of an idle server. A
critical section of `global_state.lock` is one step except
`handle_client_connected`, which joins a thread inside: `mainPc = "join"` holds
the lock. `shown[s]` is what the system compositor was last told about the
slot's client, against the flags in `client[s]`. Time is left out: a delay ends
at any moment after those that began before it.

`spaceUsed[s]` is the client's mark on a reference space and `spaceUses` the
count of the space overseer; one space stands for each of them, and the feature
counts of `u_system_helpers.c` have the same shape. Counting and telling the
device are two steps, as no lock is around them. `StartServing` may fail, which
is `setup_epoll`: the thread returns without `common_shutdown`. `refused` is a
history variable for the connections the count keeps although they were closed.
Destroying a session by a call is two steps, the swapchains under the lock and
the compositor after it; what a flush tells the compositor in between is
forgotten with it.

### Swapchain

The images and references of one client's swapchains. Above are the calls of the
application: acquire, wait (two steps, since the compositor's wait may block, and
a time out), release, destroy; `image`, `acquired`, `inflight` and `released` are
the fields of `oxr_swapchain`. Below are the fifo of `comp_swapchain`, its
reference count, and `life`: a swapchain whose last reference goes is stacked,
and freed by the garbage collection after a drawing that succeeded or at the end
of the system compositor. In between the module takes the frames from
`FramePipeline` instead of the three slots: submitting, completing, replacing,
showing and dropping a frame are steps of that contract, each joined with what it
does to the references of the frame's layers. What is shown here therefore rests
on the contract, which `MultiCompositor` is shown to implement (`multi_frames`).
`TransferLayers` copies the layers without a reference and without the lock held
while drawing, as the code does.

`unsent` and `oneAtATime` are history: they mark the applications that submit
each image before they acquire the next one. `inc_image_use` and `dec_image_use`
have no caller, so the use count a wait would wait for is always zero and
`EndWait` never blocks for it. Image import and barriers are left out; a fifo is
a sequence, its ring of 16 is never full with three images.

`OXR_CHECK_XRET` loses the session only when the IPC fails; after any other error
of the graphics API (D3D11's fences return some) the application goes on.
`WaitFails` then has popped the image from the acquired ones, as the code does
before it looks at the result, and `ReleaseFails` has taken it out of flight but
not counted it down. `failed` is a history variable for these images: no call
brings them back, and `acquiredNum` keeps counting them. An image whose release
failed lies in the compositor's fifo and is handed out once more, to an
`AcquireFails`, which is the "non-ready image" error of the code.
`ImagesConserved` says that each failure takes one image and that for the others
nothing changes. An application that goes on after a failure is not one of those
`FramesInFlightUntouched` is about: it has fewer images in turn. Not modelled is
the loss of the session with the IPC, after which only destruction follows.

### WorkerPool

`workerPc` is the place of each thread in `run_func`, `userPc` that of the thread
that uses a group. All of the pool runs under one mutex, so a critical section is
one step, except where a worker keeps the mutex from the end of a task to its
next decision (`holder`). `Signalled` wakes any sleeper, and sleepers may wake by
themselves. The thread that waits for its group raises `limit` while it sleeps;
the worker that ends the group's last task lowers it again. Each group is used by
one thread, as all callers do. With two threads in `u_worker_group_wait_all` of
one group only one of them would be released, and a push that comes before a
released waiter has woken up would meet the assert of `u_worker.c:280`.

## What is checked

| Run | Bounds | Shows |
|---|---|---|
| `multi_frames` | 2 frames with 2 display times, 3 frames with 1 | the invariants of `MultiCompositor`, and the refinement of `FramePipeline`: what is shown never goes back, nor comes before its GPU work |
| `multi_live` | 2 frames, 1 layer | layer_begin finds the slot empty, calls and destroy return |
| `system` | 2 clients, warm start | all invariants and liveness of `MultiSystem` |
| `system_focus` | 2 clients | a violation: a focused client found invisible |
| `oxr_frames` | 4 frames, 2 sessions | frames and their count, life cycle, and that xrWaitFrame returns |
| `oxr_stale_count` | 3 frames, 2 sessions | a violation: a frame begun that was never waited for |
| `ipc_clients` | 2 slots, 3 connections of 2 sessions, one client at a time in its second | one primary application and compositor agreement for the clients in their first session; exact counts, slot reuse, exit when idle |
| `ipc_sessions` | 2 slots, 2 connections of 2 sessions | a violation: the compositor keeps what a second session told it from old flags |
| `ipc_join` | 2 slots, 2 connections | a violation: the main loop joins with the lock held |
| `swapchain` | a swapchain of 3 images: 3 frames; with a static one: 2 frames | images, references and memory, with waits and releases that fail |
| `swapchain_exclusive` | 3 frames, both swapchains | a violation: the image waited for is the one being drawn |
| `worker_pool` | 2 threads, limit 1, 2 groups of 2 tasks, array of 2 | tasks run once, the limit is exact, wait_all and destroy return |

Why the bounds are enough. Three frames fill the three slots at once and leave
the wait thread one to work on; a fourth only repeats this, since no slot holds
more than one frame. Display times matter by comparison with the clock, with
the next display time and with one another: with two of them frames may have
equal, increasing and decreasing times, and with one the clock can be before, at
or after it. The run allows two times while the first two frames are under way
and one, with three moments of the clock, when the third is (`FewTimes`, a
constraint in `MCMultiCompositor`); what the cut leaves out is covered by the
proofs. Two clients are enough for a count that reaches zero while another
begins. Two sessions of one handle show what one leaves to the next. Two slots
and three connections give a slot that is reused, a full table with a refused
connection, and a fallback between two applications; a second session shows what
a connection keeps of its first, and one client at a time in its second
(`OneLaterSession`) what such a client does to the others. Three frames fill the slots
before the display and let the application come round to its first image; a
swapchain of one image is the other kind there is, and with it two frames show
what layers of both do to the references (`FewFrames`). Two workers with a limit of
one are the smallest pool in which a waiting thread's turn makes a difference;
an array of two is filled by one group while the other pushes.

Deadlock is checked everywhere but in `IpcServer`, where the server may end, and
where it may hang by the join above, and in `Swapchain`, where the application
may have used its last frame.

Fairness. A thread that can run does (weak fairness of its steps). In
`MultiCompositor` a thread that waits for one of the two mutexes gets it in the
end although others take it again and again (strong fairness of the steps that
take them): the poll in `wait_for_scheduled_free` sleeps a millisecond without
the lock and the render thread a frame. Time passes and GPU work completes.
Nothing forces the application to call, the render thread to start another frame
of this client, a client to hang up, or the GPU to be on time. In `IpcServer`
client threads that are not in a call of their client go on, and delays end; in
`WorkerPool` threads that can run do and tasks end, which is what a caller of
wait_all counts on.

## What is proved

With TLAPS, for every value of the constants that the named assumptions allow
(positive bounds, finite sets of clients, threads and groups that do not contain
the value for "none", a limit below the number of threads): every invariant of
the passing runs, the action properties and the refinement. In each module an
inductive invariant is proved of `Init`, of every action and of the stuttering
step, one step of the proof per action or, where the parts are large, one lemma
per part of the invariant; the temporal theorems follow from it.

**`MultiCompositor_proofs`.** `TypeCorrect`: the typing is not inductive, an
active slot must hold a frame of the pacer and not the id of a cleared slot
(`ActiveHasFrame`), and the app thread must have a begun frame where it submits
one (`SubmitsFrame`). `ProgressOwnership` is the discipline of the slot that has
no lock. It needs to know what each side of the handshake says of the other:
`waiting` is set exactly while the wait thread works on a frame, the wait thread
was started before the app may submit, and an app thread that is not blocked any
more found nothing pushed (`Handshake`).

**`MultiCompositor_frames_proofs`.** The invariant `FInv` has three layers. Who
holds the two mutexes follows from where the threads are (`Locks`), and from that
the render thread only works on a client on the list (`Listing`). Who sleeps on
the condition variable, and what for (`Wakeups`), makes one signal enough
although it may wake the wrong one. Who uses the progress slot (`ProgressUse`),
in which order the ids stand (`FrameOrder`) and how far the GPU is (`GpuState`)
give conservation and order; `PacerState` is what the pacer thinks of the frame
each thread is about to mark.

| Theorem | Property |
|---|---|
| `FrameConservation` | `FramesConserved`: a frame is in one place and retired once |
| `PipelineOrder` | `SlotsInOrder`: an older frame is always further on |
| `NoWakeupLost` | `NoLostWakeup`: nobody sleeps on work that is already there |
| `PacerContract` | `PacerCallsLegal`: no assert of the pacer is reached |
| `ProgressEmpty` | `ProgressEmptyWhenFilled`: layer_begin finds the slot without layers and without a frame |
| `RenderUsesLiveClient` | `RenderUsesListedClient`: the slots are not freed while the render thread works on them |
| `DestroyLeavesNothing` | `NothingLeftAfterJoin`: the joined wait thread leaves no fence behind, and at the end every frame that was begun is retired |

**`FramePipeline_proofs`.** `PipelineImplemented`: the initial states map to
initial states, and each action maps to Submit, Complete, Replace, Show, Hide or
Close, or to a stutter. `Swapchain` is built on this contract.

**`MultiSystem_proofs`.** `TypeCorrect`, `CountExact` (`ActiveCountIsExact`: each
session is counted up once and down once, by cardinality of a finite set),
`NativeSession`, `NoSleepWithClients` (`SleepsOnlyWhenIdle`) and `WarmStartFrame`
(`WarmStartMakesAFrame`). The common invariant adds where the threads meet
(`ThreadsMeet`): the render thread sleeps only in the stopped state, and is gone
only after the stop; and which steps are left of a warm start (`WarmsUp`).

**`WorkerPool_proofs`.** `PoolInv` says what each counter counts:
`current_submitted_tasks_count` the tasks of the group in the array and in the
hands of threads (`SubmittedIsExact`), the references those who have not dropped
theirs (`ReferencesExact`), `released_count` one waiter at most, between its
group's last task and its return to the mutex (`ReleasedOnce`). With the place of
every task (`Placed`) follow `TypeCorrect`, `TasksAreConserved`, `LimitExact` (the
limit is the starting one plus the threads asleep in wait_all) and `WaitsForAll`
(`WaitReturnsWhenDone`, an action property).

**`Swapchain_proofs`.** `ChainInv`: frames leave the two slots before the
delivered one in order (`Numbered`), every image is in the fifo of the compositor,
with the application in one state, or failed, and the numbers of images in these
places add up, counting those whose release failed and which are still in the
fifo (`Turns`, `Stuck`), references are the handle
and the frames that use the swapchain (`Counted`), and what a swapchain's life
says of them (`Lives`). `FramesUntouched` needs a fact about time as well: with
three images in turn, an image that is handed out again was last submitted two
frames ago (`Rotation`). Theorems: `TypeCorrect`, `ImagesInPlace`,
`FramesUntouched`, `RefsExact`, `NothingFreedInUse`.

**`IpcServer_proofs`.** `CountInv`: a slot is taken exactly while its thread is
starting (`Threads`), main joins the thread of the first free slot (`Joining`),
connections and refusals add up (`Counted`), and the count of a reference space
is the set of clients that hold it, with the client in the unlocked window
counted on the right side (`SpaceMarks`, `SpaceCounted`). It gives `TypeCorrect`,
`CountsExact` and `SlotReused`. `OnePrimary` and `CompositorAgreement` follow from
`PrimaryInv`, for any number of sessions. The two properties speak of the clients
in the first session of their connection, since for others they are false (below);
those others are there all the same and take part in the choice of the active
client. So `PrimaryInv` says who the last client made primary may be: one with the
flags and active, one on its way out that has not looked for a successor, or one
in a later session that is still active, maybe as an overlay (`Followed`). A client
in its first session gets flags only after its session is made (`Fresh`), which is
why the unlocked window of `session_create` does it no harm.

**`OxrSession_proofs`.** `FrameInv`: only the thread that begins frames makes the
count smaller, so what `xrBeginFrame` read unlocked is never more than what there
is (`Counts`); the ids and the compositor agree on each frame (`Handed`); the
right to wait is in one place, the semaphore, the thread in `xrWaitFrame`, the
frame waited for or the thread in `xrBeginFrame` (`OneRight`); the count is the
number of ids (`Exact`), and no unended frame is without one (`Remembered`).
Theorems: `TypeCorrect`, `NoFrameForgotten`, `CountExact`. On top of it,
`StatesMeet` relates the state pushed to the application with the flags of the
session, and `LifeCycleKept` follows, by lemmas on the paths of states that a
poll, an end and an exit take. `CountIsExact` and a part of `FramesAccountedFor`
hold for the first session of a handle only, and are stated for it: the second
one inherits the count, which is what `oxr_stale_count` shows.

Only model-checked: liveness (`CallsReturn` of `MultiCompositor`, `WaitAllReturns`
of `WorkerPool`, `ActiveClientsAreRendered`, `IdleSystemSleeps`, `StopReturns`,
`WaitFrameReturns`, `IdleServerExits`), which is out of the prover's reach since
it needs ENABLED of the fair steps; and the properties that are expected to fail.
What the theorems say of `Spec` holds of `FairSpec`, which is `Spec` and fairness.

## Where the code and its words differ

Shown by runs:

- `system_focus`: `find_active_blend_mode` asserts that a focused client is
  visible, `set_state` changes the two without a lock.
- `oxr_stale_count`: `xrEndSession` leaves the count of waited frames as it is.
- `ipc_join`: `os_thread_join` under the lock the joined thread needs.
- `ipc_sessions`: `ipc_handle_session_create` tells the compositor flags of the
  client's last session that it read before another client became the primary one
  (`ipc_server_handler.c:387`).
- `swapchain_exclusive`: `xrWaitSwapchainImage` gives an application that is two
  frames ahead the image being drawn; nothing counts the uses of an image.

Seen while modelling, without a run of their own:

- `comp_multi_private.h:224` says frames "at or after" a time are delivered; the
  code delivers those at or before it.
- `comp_multi_private.h:303` says the native session has not begun in STOPPING;
  it has, and is ended when the state is left.
- A system compositor destroyed before the first iteration of its render thread
  reaches `default: assert(false)` after the loop.
- An `xrWaitFrame` in the compositor while the session ends stores its frame
  afterwards, and asserts the release of its turn when the compositor fails.
- In a delayed exit `running = false` is written after the lock is released, also
  when a client connected in between.
- The delay thread of an earlier disconnect ends the server although the last
  client left less than the delay ago: it asks only whether some disconnect is on
  record (`ipc_server_per_client_thread.c:49`).
- A refused connection stays in `connected_client_count` (`CountsAreExact` says by
  how much), and so does a client whose thread failed to start.
- `ref_space_inc` and `ref_space_dec`, and `feature_inc` and `feature_dec`, count
  first and tell the device afterwards, without a lock: when one client gives up
  the last use while another takes the first, the device may be told last that
  nobody uses it. A `feature_inc` whose device refuses leaves the count raised,
  and the next one succeeds without a begin; no driver here has features.
- A client that disconnects without local spaces has index 0 in
  `local_space_overseer_index` and gives up entry 0 of the overseer, which is
  another client's; the entry 0 of the floor spaces is never given up
  (`ipc_server_per_client_thread.c:96`). The free entry is searched without a lock.
- `u_session.c` frees the events of a session without their mutex and before it
  leaves the list that broadcasts go to.
- `comp_swapchain.c:101` unlocks a mutex twice in `dec_image_use`, which nobody
  calls.
- `system_set_primary_client` takes effect at the next activation or disconnect;
  nothing calls `ipc_server_update_state`.
- A client that destroys its session and creates another one on the same
  connection keeps the flags of the first: `session_active` and `session_visible`
  are not reset, and `ipc_handle_session_create` writes `session_overlay` under
  them. A primary application that comes back as an overlay is still the active
  client, so that no application has the flags until the next update; an overlay
  that comes back as an application has them besides the primary one. TLC finds
  `OneApplicationIsPrimary` false of such clients when `InFirst` is taken out.
- A wait or a release of an image that fails without losing the session loses the
  image: `oxr_swapchain_common_wait` pops it before the check of the result
  (`oxr_swapchain.c:238`), `oxr_swapchain_common_release` clears `inflight` before
  its check (264). The swapchain goes on with two images, for as long as it lives.
- In a headless session `xrBeginFrame` always answers
  `XR_ERROR_CALL_ORDER_INVALID`.

## Not modelled

What is below the `xrt_compositor_native` and `xrt_device` interfaces: Vulkan,
windows, hardware protocols, tracking filters and their numerics. The pacing
helpers predict times from measured times; only the states of the app pacer's
records matter to the other parts, and those are `pacer` in `MultiCompositor`.
The space graph is a product of poses under a read-write lock. OpenXR input,
bindings and spaces transform data with few states of their own. The IPC client
and the channel are request and reply under one mutex. Of the server, the
handlers of single objects and the tear down of the process are left out, and so
are the local spaces, whose table is shared as described above. The components
list in `PROJECT.json` names each part and its reason.

## Plan

Every safety property of the passing runs is proved. What would come next:

1. The server's flags in the later sessions of a connection: with a reset of them
   in `session_destroy` both properties should hold without `InFirst`, which is
   worth checking and proving of the changed code.
2. The life of a session handle beyond the first session in `OxrSession`: what
   the count of waited frames still promises when it is inherited.
3. Breadth: the app pacer's ring of records behind `pacer`, the event queue of
   `u_session.c`, the local spaces of the server.
