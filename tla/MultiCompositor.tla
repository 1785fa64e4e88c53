-------------------------- MODULE MultiCompositor --------------------------
(***************************************************************************)
(* One client of the multi-client compositor: struct multi_compositor of   *)
(* compositor/multi.  Four threads work on it.                             *)
(*                                                                         *)
(*   app     the caller of the xrt_compositor functions (the OpenXR state  *)
(*           tracker in process, or the per client thread of the service); *)
(*   waiter  run_func, which waits for the frame's fence or semaphore;     *)
(*   render  the main loop of the system compositor, only the part of it   *)
(*           that touches this client;                                     *)
(*   the rest of the world: GPU, clock, and whoever sets the visibility.   *)
(*                                                                         *)
(* A frame passes progress -> scheduled -> delivered.  A critical section  *)
(* that takes one lock and cannot block in it is one step; the sections    *)
(* that nest list_and_timing_lock and slot_lock take them step by step.    *)
(* The fence and the semaphore path are the same handshake: `pushed' holds *)
(* for xcf # NULL or xcsem # NULL.                                         *)
(***************************************************************************)
EXTENDS Integers, FiniteSets

CONSTANTS MaxFrame,   \* bound: frames the pacer ever predicts for this client
          MaxTime,    \* bound: display times are 1..MaxTime
          MaxLayers   \* bound: layers in one frame

ASSUME BoundsAssumption ==
  /\ MaxFrame \in Nat \ {0}
  /\ MaxTime \in Nat \ {0}
  /\ MaxLayers \in Nat

Frames == 1..MaxFrame
Times == 0..(MaxTime + 1)
NoFrame == -1

VARIABLES
  appPc,        \* where the calling thread is
  waitedFrame,  \* frame returned by wait_frame and not yet begun, or NoFrame
  begunFrame,   \* frame begun and not yet submitted or discarded, or NoFrame
  frameCounter, \* the pacer's frame_counter
  pacer,        \* the pacer's state of every frame
  sessionActive, visible,      \* mc->state
  listed,       \* mc is in msc->clients
  wt,           \* mc->wait_thread
  waiterPc,     \* where run_func is
  job,          \* run_func's local frame_id
  cond,         \* threads asleep on wait_thread.oth's condition variable
  progress, scheduled, delivered,  \* the three layer slots
  slotNext,     \* mc->slot_next_frame_display
  listLock, slotLock,  \* holder of msc->list_and_timing_lock, mc->slot_lock
  renderPc, renderDisplay,     \* the render thread and its display time
  now,          \* the monotonic clock
  gpu,          \* the fence or semaphore of every frame
  retired,      \* history: how often each frame was retired from a slot
  latched       \* history: the frame last latched by the render thread

appVars == <<appPc, waitedFrame, begunFrame, frameCounter>>
stateVars == <<sessionActive, visible, listed>>
waitVars == <<wt, waiterPc, job, cond>>
slotVars == <<progress, scheduled, delivered>>
lockVars == <<listLock, slotLock>>
renderVars == <<renderPc, renderDisplay, slotNext>>
histVars == <<retired, latched>>
vars == <<appVars, pacer, stateVars, waitVars, slotVars, lockVars, renderVars,
          now, gpu, histVars>>

(***************************************************************************)
(* Slots.                                                                  *)
(***************************************************************************)
Slot == [active : BOOLEAN, frame_id : Frames \cup {NoFrame, 0},
         display_time : Times, layer_count : 0..MaxLayers]

\* A calloc'ed slot, and a slot after slot_clear_locked.
ZeroSlot == [active |-> FALSE, frame_id |-> 0, display_time |-> 0, layer_count |-> 0]
ClearedSlot == [active |-> FALSE, frame_id |-> NoFrame, display_time |-> 0, layer_count |-> 0]

Retire_NotToldToPacer(slot) == retired

\* slot_clear_locked tells the pacer that an active frame is retired.
Retire(slot) ==
  IF slot.active THEN [retired EXCEPT ![slot.frame_id] = @ + 1] ELSE retired

Holds(slot, f) == slot.active /\ slot.frame_id = f
One(b) == IF b THEN 1 ELSE 0

(***************************************************************************)
(* The condition variable: signal wakes one sleeper, if there is one.      *)
(***************************************************************************)
Signal_Forgotten(sleepers) == {sleepers}

Signal(sleepers) ==
  IF sleepers = {} THEN {{}} ELSE {sleepers \ {t} : t \in sleepers}

PushedOrWaiting_OnlyPushed == wt.pushed

PushedOrWaiting == wt.pushed \/ wt.waiting

WaitThread == [alive : BOOLEAN, running : BOOLEAN, pushed : BOOLEAN,
               frame_id : Frames \cup {0}, waiting : BOOLEAN, blocked : BOOLEAN]

Init ==
  /\ appPc = "none" /\ waitedFrame = NoFrame /\ begunFrame = NoFrame
  /\ frameCounter = 0
  /\ pacer = [f \in Frames |-> "ready"]
  /\ sessionActive = FALSE /\ visible = FALSE /\ listed = FALSE
  /\ wt = [alive |-> FALSE, running |-> FALSE, pushed |-> FALSE,
           frame_id |-> 0, waiting |-> FALSE, blocked |-> FALSE]
  /\ waiterPc = "none" /\ job = 0 /\ cond = {}
  /\ progress = ZeroSlot /\ scheduled = ZeroSlot /\ delivered = ZeroSlot
  /\ slotNext = 0
  /\ listLock = "free" /\ slotLock = "free"
  /\ renderPc = "idle" /\ renderDisplay = 0
  /\ now = 0
  /\ gpu = [f \in Frames |-> "none"]
  /\ retired = [f \in Frames |-> 0]
  /\ latched = 0

(***************************************************************************)
(* Create and destroy, on the app thread.                                  *)
(***************************************************************************)
\* multi_compositor_create: a full client list leaves mc off it, silently.
Create ==
  /\ appPc = "none" /\ listLock = "free"
  /\ listed' \in BOOLEAN
  /\ wt' = [wt EXCEPT !.running = TRUE]
  /\ waiterPc' = "start"
  /\ appPc' = "create"
  /\ UNCHANGED <<waitedFrame, begunFrame, frameCounter, pacer, sessionActive,
                 visible, job, cond, slotVars, lockVars, renderVars, now, gpu,
                 histVars>>

\* The loop on wait_thread.alive at the end of multi_compositor_create.
CreateWaitAlive ==
  /\ appPc = "create" /\ "app" \notin cond
  /\ \/ wt.alive /\ appPc' = "idle" /\ UNCHANGED cond
     \/ ~wt.alive /\ cond' = cond \cup {"app"} /\ UNCHANGED appPc
  /\ UNCHANGED <<waitedFrame, begunFrame, frameCounter, pacer, stateVars, wt,
                 waiterPc, job, slotVars, lockVars, renderVars, now, gpu, histVars>>

Destroy_WithoutListLock ==
  /\ appPc = "idle"
  /\ sessionActive' = FALSE /\ listed' = FALSE /\ appPc' = "stop"
  /\ UNCHANGED <<waitedFrame, begunFrame, frameCounter, pacer, visible, waitVars,
                 slotVars, lockVars, renderVars, now, gpu, histVars>>

\* multi_compositor_destroy ends an active session, then leaves the list.
Destroy ==
  /\ appPc = "idle" /\ listLock = "free"
  /\ sessionActive' = FALSE
  /\ listed' = FALSE
  /\ appPc' = "stop"
  /\ UNCHANGED <<waitedFrame, begunFrame, frameCounter, pacer, visible, waitVars,
                 slotVars, lockVars, renderVars, now, gpu, histVars>>

\* os_thread_helper_stop_and_wait, first half.
DestroyStop ==
  /\ appPc = "stop"
  /\ wt' = [wt EXCEPT !.running = FALSE]
  /\ cond' \in Signal(cond)
  /\ appPc' = "join"
  /\ UNCHANGED <<waitedFrame, begunFrame, frameCounter, pacer, stateVars,
                 waiterPc, job, slotVars, lockVars, renderVars, now, gpu, histVars>>

DestroyJoin ==
  /\ appPc = "join" /\ waiterPc = "exited"
  /\ appPc' = "clear"
  /\ UNCHANGED <<waitedFrame, begunFrame, frameCounter, pacer, stateVars, waitVars,
                 slotVars, lockVars, renderVars, now, gpu, histVars>>

\* The three slots are cleared in one section of list_and_timing_lock.
DestroyClear ==
  /\ appPc = "clear" /\ listLock = "free"
  /\ retired' = [f \in Frames |-> retired[f] + One(Holds(progress, f))
                     + One(Holds(scheduled, f)) + One(Holds(delivered, f))]
  /\ progress' = ClearedSlot /\ scheduled' = ClearedSlot /\ delivered' = ClearedSlot
  /\ appPc' = "gone"
  /\ UNCHANGED <<waitedFrame, begunFrame, frameCounter, pacer, stateVars, waitVars,
                 lockVars, renderVars, now, gpu, latched>>

(***************************************************************************)
(* The app's calls up to the submission of a frame.  wait_frame may run on *)
(* a thread of its own, next to every call but create and destroy.         *)
(***************************************************************************)
InCalls == appPc \notin {"none", "create", "stop", "join", "clear", "gone"}

BeginSession ==
  /\ appPc = "idle" /\ ~sessionActive
  /\ sessionActive' = TRUE
  /\ UNCHANGED <<appVars, pacer, visible, listed, waitVars, slotVars, lockVars,
                 renderVars, now, gpu, histVars>>

\* The state tracker discards the waited and the begun frame before this.
EndSession ==
  /\ appPc = "idle" /\ sessionActive
  /\ waitedFrame = NoFrame /\ begunFrame = NoFrame
  /\ sessionActive' = FALSE
  /\ UNCHANGED <<appVars, pacer, visible, listed, waitVars, slotVars, lockVars,
                 renderVars, now, gpu, histVars>>

\* wait_frame, first half: u_pa_predict takes the next frame id.
PredictFrame ==
  /\ InCalls /\ sessionActive /\ waitedFrame = NoFrame /\ listLock = "free"
  /\ frameCounter < MaxFrame
  /\ frameCounter' = frameCounter + 1
  /\ waitedFrame' = frameCounter + 1
  /\ pacer' = [pacer EXCEPT ![frameCounter + 1] = "predicted"]
  /\ UNCHANGED <<appPc, begunFrame, stateVars, waitVars, slotVars, lockVars,
                 renderVars, now, gpu, histVars>>

\* wait_frame, second half, or the client's wait_woke: mark_frame(WOKE).
MarkWoke ==
  /\ InCalls /\ waitedFrame # NoFrame /\ listLock = "free"
  /\ pacer[waitedFrame] = "predicted"
  /\ pacer' = [pacer EXCEPT ![waitedFrame] = "wait_left"]
  /\ UNCHANGED <<appVars, stateVars, waitVars, slotVars, lockVars, renderVars,
                 now, gpu, histVars>>

BeginFrame ==
  /\ appPc = "idle" /\ listLock = "free"
  /\ waitedFrame # NoFrame /\ begunFrame = NoFrame
  /\ pacer[waitedFrame] = "wait_left"
  /\ pacer' = [pacer EXCEPT ![waitedFrame] = "begun"]
  /\ begunFrame' = waitedFrame /\ waitedFrame' = NoFrame
  /\ UNCHANGED <<appPc, frameCounter, stateVars, waitVars, slotVars, lockVars,
                 renderVars, now, gpu, histVars>>

DiscardBegun_NotReset ==
  /\ appPc = "idle" /\ listLock = "free" /\ begunFrame # NoFrame
  /\ pacer' = [pacer EXCEPT ![begunFrame] = "done"]
  /\ UNCHANGED <<appVars, stateVars, waitVars, slotVars, lockVars, renderVars, now,
                 gpu, histVars>>

\* xrBeginFrame on a begun frame, xrEndFrame with no layers, xrEndSession.
DiscardBegun ==
  /\ appPc = "idle" /\ listLock = "free" /\ begunFrame # NoFrame
  /\ pacer' = [pacer EXCEPT ![begunFrame] = "done"]
  /\ begunFrame' = NoFrame
  /\ UNCHANGED <<appPc, waitedFrame, frameCounter, stateVars, waitVars, slotVars,
                 lockVars, renderVars, now, gpu, histVars>>

\* xrEndSession with a waited frame that was never begun.
DiscardWaited ==
  /\ appPc = "idle" /\ listLock = "free" /\ waitedFrame # NoFrame
  /\ pacer[waitedFrame] = "wait_left"
  /\ pacer' = [pacer EXCEPT ![waitedFrame] = "done"]
  /\ waitedFrame' = NoFrame
  /\ UNCHANGED <<appPc, begunFrame, frameCounter, stateVars, waitVars, slotVars,
                 lockVars, renderVars, now, gpu, histVars>>

(***************************************************************************)
(* layer_begin, the layers, layer_commit.                                  *)
(***************************************************************************)
LayerBegin ==
  /\ appPc = "idle" /\ listLock = "free" /\ begunFrame # NoFrame
  /\ pacer' = [pacer EXCEPT ![begunFrame] = "delivered"]
  /\ appPc' = "layer_begin"
  /\ UNCHANGED <<waitedFrame, begunFrame, frameCounter, stateVars, waitVars,
                 slotVars, lockVars, renderVars, now, gpu, histVars>>

\* The rest of layer_begin: the frame's data enters the cleared progress slot.
\* The display time comes from the application, in no particular order.
FillProgress ==
  /\ \E t \in 1..MaxTime :
       progress' = [active |-> TRUE, frame_id |-> begunFrame,
                    display_time |-> t, layer_count |-> 0]
  /\ appPc' = "layers"

\* wait_for_wait_thread: block until the waiter has moved the last frame on.
WaitForWaitThread ==
  /\ appPc = "layer_begin"
  /\ \/ /\ PushedOrWaiting
        /\ wt' = [wt EXCEPT !.blocked = TRUE]
        /\ cond' = cond \cup {"app"}
        /\ appPc' = "blocked"
        /\ UNCHANGED progress
     \/ /\ ~PushedOrWaiting
        /\ FillProgress
        /\ UNCHANGED <<wt, cond>>
  /\ UNCHANGED <<waitedFrame, begunFrame, frameCounter, pacer, stateVars, waiterPc,
                 job, scheduled, delivered, lockVars, renderVars, now, gpu, histVars>>

\* Woken up, maybe spuriously: sleep again until `blocked' is cleared.
Unblock ==
  /\ appPc = "blocked" /\ "app" \notin cond
  /\ \/ wt.blocked /\ cond' = cond \cup {"app"} /\ UNCHANGED <<appPc, progress>>
     \/ ~wt.blocked /\ FillProgress /\ UNCHANGED cond
  /\ UNCHANGED <<waitedFrame, begunFrame, frameCounter, pacer, stateVars, wt, waiterPc,
                 job, scheduled, delivered, lockVars, renderVars, now, gpu, histVars>>

\* One of the layer_* functions.
AddLayer ==
  /\ appPc = "layers" /\ progress.layer_count < MaxLayers
  /\ progress' = [progress EXCEPT !.layer_count = @ + 1]
  /\ UNCHANGED <<appVars, pacer, stateVars, waitVars, scheduled, delivered, lockVars,
                 renderVars, now, gpu, histVars>>

\* layer_commit with a sync handle that imports, or with a semaphore: the GPU
\* work may still be pending.  Otherwise the app side is taken to have waited.
LayerCommit ==
  /\ appPc = "layers"
  /\ \/ gpu' = [gpu EXCEPT ![progress.frame_id] = "pending"] /\ appPc' = "push"
     \/ gpu' = [gpu EXCEPT ![progress.frame_id] = "unfenced"] /\ appPc' = "gpu_done"
  /\ UNCHANGED <<waitedFrame, begunFrame, frameCounter, pacer, stateVars, waitVars,
                 slotVars, lockVars, renderVars, now, histVars>>

Push_FrameAlreadyReset ==
  /\ appPc = "push"
  /\ wt' = [wt EXCEPT !.pushed = TRUE, !.frame_id = NoFrame]
  /\ cond' \in Signal(cond)
  /\ begunFrame' = NoFrame /\ appPc' = "idle"
  /\ UNCHANGED <<waitedFrame, frameCounter, pacer, stateVars, waiterPc, job, slotVars,
                 lockVars, renderVars, now, gpu, histVars>>

\* push_fence_to_wait_thread, push_semaphore_to_wait_thread.  They also call
\* wait_for_wait_thread_locked "just in case": PushFindsWaiterFree says that
\* it returns at once.
Push ==
  /\ appPc = "push"
  /\ wt' = [wt EXCEPT !.pushed = TRUE, !.frame_id = progress.frame_id]
  /\ cond' \in Signal(cond)
  /\ begunFrame' = NoFrame
  /\ appPc' = "idle"
  /\ UNCHANGED <<waitedFrame, frameCounter, pacer, stateVars, waiterPc, job, slotVars,
                 lockVars, renderVars, now, gpu, histVars>>

AppMarkGpuDone ==
  /\ appPc = "gpu_done" /\ listLock = "free"
  /\ pacer' = [pacer EXCEPT ![progress.frame_id] = "done"]
  /\ appPc' = "free_check"
  /\ UNCHANGED <<waitedFrame, begunFrame, frameCounter, stateVars, waitVars,
                 slotVars, lockVars, renderVars, now, gpu, histVars>>

(***************************************************************************)
(* wait_for_scheduled_free, by the app thread or the waiter.               *)
(***************************************************************************)
\* The polling loop ends when there is no scheduled frame, when this frame is
\* for the next display time, or when the scheduled one's time is past.
ScheduledFree ==
  /\ slotLock = "free"
  /\ \/ ~scheduled.active
     \/ progress.display_time = slotNext
     \/ scheduled.display_time < now

MoveProgressToScheduled_SourceKept ==
  /\ retired' = Retire(scheduled)
  /\ scheduled' = progress
  /\ listLock' = "free" /\ slotLock' = "free"
  /\ UNCHANGED <<progress, delivered>>

\* Both locks taken: slot_move_and_clear_locked(mc, &scheduled, &progress).
MoveProgressToScheduled ==
  /\ retired' = Retire(scheduled)
  /\ scheduled' = progress
  /\ progress' = ClearedSlot
  /\ listLock' = "free" /\ slotLock' = "free"
  /\ UNCHANGED delivered

AppScheduledFree ==
  /\ appPc = "free_check" /\ ScheduledFree
  /\ appPc' = "free_list"
  /\ UNCHANGED <<waitedFrame, begunFrame, frameCounter, pacer, stateVars, waitVars,
                 slotVars, lockVars, renderVars, now, gpu, histVars>>

AppTakeListLock ==
  /\ appPc = "free_list" /\ listLock = "free"
  /\ listLock' = "app" /\ appPc' = "free_slot"
  /\ UNCHANGED <<waitedFrame, begunFrame, frameCounter, pacer, stateVars, waitVars,
                 slotVars, slotLock, renderVars, now, gpu, histVars>>

AppTakeSlotLock ==
  /\ appPc = "free_slot" /\ slotLock = "free"
  /\ slotLock' = "app" /\ appPc' = "free_move"
  /\ UNCHANGED <<waitedFrame, begunFrame, frameCounter, pacer, stateVars, waitVars,
                 slotVars, listLock, renderVars, now, gpu, histVars>>

AppMove ==
  /\ appPc = "free_move"
  /\ MoveProgressToScheduled
  /\ begunFrame' = NoFrame
  /\ appPc' = "idle"
  /\ UNCHANGED <<waitedFrame, frameCounter, pacer, stateVars, waitVars, renderVars,
                 now, gpu, latched>>

(***************************************************************************)
(* The wait thread.                                                        *)
(***************************************************************************)
\* The top of run_func's loop, oth locked, with w and c the wait thread's
\* fields and the sleepers: leave, sleep, or take the work and unlock.
TakeWork(w, c) ==
  /\ job' = w.frame_id
  /\ wt' = [w EXCEPT !.pushed = FALSE, !.frame_id = 0, !.waiting = TRUE]
  /\ cond' = c
  /\ waiterPc' = "wait"

LoopTop(w, c) ==
  \/ ~w.running /\ wt' = w /\ cond' = c /\ waiterPc' = "exited" /\ UNCHANGED job
  \/ /\ w.running /\ ~w.pushed
     /\ wt' = w /\ cond' = c \cup {"waiter"} /\ waiterPc' = "asleep" /\ UNCHANGED job
  \/ w.running /\ w.pushed /\ TakeWork(w, c)

WaiterStart ==
  /\ waiterPc = "start"
  /\ \E c \in Signal(cond) : LoopTop([wt EXCEPT !.alive = TRUE], c)
  /\ UNCHANGED <<appVars, pacer, stateVars, slotVars, lockVars, renderVars, now, gpu,
                 histVars>>

WaiterWake_RunningFirst ==
  /\ waiterPc = "asleep" /\ "waiter" \notin cond
  /\ LoopTop(wt, cond)
  /\ UNCHANGED <<appVars, pacer, stateVars, slotVars, lockVars, renderVars, now, gpu,
                 histVars>>

\* After the sleep the work is taken before `running' is looked at again.
WaiterWake ==
  /\ waiterPc = "asleep" /\ "waiter" \notin cond
  /\ \/ wt.pushed /\ TakeWork(wt, cond)
     \/ ~wt.pushed /\ LoopTop([wt EXCEPT !.frame_id = 0], cond)
  /\ UNCHANGED <<appVars, pacer, stateVars, slotVars, lockVars, renderVars, now, gpu,
                 histVars>>

WaitOver_TimeoutIsSuccess(f) == TRUE

\* wait_fence and wait_semaphore retry on timeout and return on failure too.
WaitOver(f) == gpu[f] # "pending"

WaiterFenceDone ==
  /\ waiterPc = "wait" /\ WaitOver(job)
  /\ waiterPc' = "gpu_done"
  /\ UNCHANGED <<appVars, pacer, stateVars, wt, job, cond, slotVars, lockVars,
                 renderVars, now, gpu, histVars>>

WaiterMarkGpuDone ==
  /\ waiterPc = "gpu_done" /\ listLock = "free"
  /\ pacer' = [pacer EXCEPT ![job] = "done"]
  /\ waiterPc' = "free_check"
  /\ UNCHANGED <<appVars, stateVars, wt, job, cond, slotVars, lockVars, renderVars,
                 now, gpu, histVars>>

WaiterScheduledFree ==
  /\ waiterPc = "free_check" /\ ScheduledFree
  /\ waiterPc' = "free_list"
  /\ UNCHANGED <<appVars, pacer, stateVars, wt, job, cond, slotVars, lockVars,
                 renderVars, now, gpu, histVars>>

WaiterTakeListLock ==
  /\ waiterPc = "free_list" /\ listLock = "free"
  /\ listLock' = "waiter" /\ waiterPc' = "free_slot"
  /\ UNCHANGED <<appVars, pacer, stateVars, wt, job, cond, slotVars, slotLock,
                 renderVars, now, gpu, histVars>>

WaiterTakeSlotLock ==
  /\ waiterPc = "free_slot" /\ slotLock = "free"
  /\ slotLock' = "waiter" /\ waiterPc' = "free_move"
  /\ UNCHANGED <<appVars, pacer, stateVars, wt, job, cond, slotVars, listLock,
                 renderVars, now, gpu, histVars>>

WaiterMove ==
  /\ waiterPc = "free_move"
  /\ MoveProgressToScheduled
  /\ waiterPc' = "finish"
  /\ UNCHANGED <<appVars, pacer, stateVars, wt, job, cond, renderVars, now, gpu, latched>>

\* No longer waiting: release the blocked app thread, and loop.
WaiterFinish ==
  /\ waiterPc = "finish"
  /\ \E c \in (IF wt.blocked THEN Signal(cond) ELSE {cond}) :
       LoopTop([wt EXCEPT !.waiting = FALSE, !.blocked = FALSE], c)
  /\ UNCHANGED <<appVars, pacer, stateVars, slotVars, lockVars, renderVars, now, gpu,
                 histVars>>

(***************************************************************************)
(* The render thread, as far as it concerns this client.                   *)
(***************************************************************************)
\* predict_frame and broadcast_timings_to_clients.
RenderPredict ==
  /\ renderPc = "idle" /\ listLock = "free"
  /\ \E t \in now..(MaxTime + 1) :
       /\ t >= renderDisplay
       /\ renderDisplay' = t
       /\ slotNext' = IF listed THEN t ELSE slotNext
  /\ renderPc' = "woke"
  /\ UNCHANGED <<appVars, pacer, stateVars, waitVars, slotVars, lockVars, now, gpu,
                 histVars>>

\* wait_frame and broadcast_timings_to_pacers.
RenderWoke ==
  /\ renderPc = "woke" /\ listLock = "free"
  /\ slotNext' = IF listed THEN renderDisplay ELSE slotNext
  /\ renderPc' = "begun"
  /\ UNCHANGED <<appVars, pacer, stateVars, waitVars, slotVars, lockVars,
                 renderDisplay, now, gpu, histVars>>

\* transfer_layers_locked, step by step, with list_and_timing_lock held.
RenderTakeListLock ==
  /\ renderPc = "begun" /\ listLock = "free"
  /\ listLock' = "render"
  /\ renderPc' = IF listed THEN "deliver" ELSE "copy"
  /\ UNCHANGED <<appVars, pacer, stateVars, waitVars, slotVars, slotLock,
                 renderDisplay, slotNext, now, gpu, histVars>>

RenderTakeSlotLock ==
  /\ renderPc = "deliver" /\ slotLock = "free"
  /\ slotLock' = "render"
  /\ renderPc' = "move"
  /\ UNCHANGED <<appVars, pacer, stateVars, waitVars, slotVars, listLock,
                 renderDisplay, slotNext, now, gpu, histVars>>

MoveScheduledToDelivered_SourceKept ==
  retired' = Retire(delivered) /\ delivered' = scheduled /\ UNCHANGED scheduled

MoveScheduledToDelivered ==
  retired' = Retire(delivered) /\ delivered' = scheduled /\ scheduled' = ClearedSlot

\* multi_compositor_deliver_any_frames.
RenderDeliver ==
  /\ renderPc = "move"
  /\ \/ /\ scheduled.active /\ scheduled.display_time <= renderDisplay
        /\ MoveScheduledToDelivered
     \/ /\ ~(scheduled.active /\ scheduled.display_time <= renderDisplay)
        /\ UNCHANGED <<retired, delivered, scheduled>>
  /\ slotLock' = "free"
  /\ renderPc' = "latch"
  /\ UNCHANGED <<appVars, pacer, stateVars, waitVars, progress, listLock,
                 renderDisplay, slotNext, now, gpu, latched>>

\* Latch the delivered frame, or drop it when it must not be shown.
RenderLatch ==
  /\ renderPc = "latch"
  /\ \/ /\ delivered.active /\ ~(visible /\ sessionActive)
        /\ retired' = Retire(delivered) /\ delivered' = ClearedSlot
        /\ UNCHANGED latched
     \/ /\ delivered.active /\ visible /\ sessionActive
        /\ latched' = delivered.frame_id
        /\ UNCHANGED <<retired, delivered>>
     \/ ~delivered.active /\ UNCHANGED <<retired, delivered, latched>>
  /\ renderPc' = "copy"
  /\ UNCHANGED <<appVars, pacer, stateVars, waitVars, progress, scheduled, lockVars,
                 renderDisplay, slotNext, now, gpu>>

\* The layers are handed to the native compositor, and the lock released.
RenderCopy ==
  /\ renderPc = "copy"
  /\ listLock' = "free"
  /\ renderPc' = "idle"
  /\ UNCHANGED <<appVars, pacer, stateVars, waitVars, slotVars, slotLock,
                 renderDisplay, slotNext, now, gpu, histVars>>

(***************************************************************************)
(* The world around.                                                       *)
(***************************************************************************)
\* system_compositor_set_state, which takes no lock.
SetVisible ==
  /\ appPc \notin {"none", "gone"}
  /\ visible' = ~visible
  /\ UNCHANGED <<appVars, pacer, sessionActive, listed, waitVars, slotVars, lockVars,
                 renderVars, now, gpu, histVars>>

Tick ==
  /\ now <= MaxTime
  /\ now' = now + 1
  /\ UNCHANGED <<appVars, pacer, stateVars, waitVars, slotVars, lockVars, renderVars,
                 gpu, histVars>>

\* The fence signals; a wait that fails (a lost device) looks the same here.
GpuDone(f) ==
  /\ gpu[f] = "pending"
  /\ gpu' = [gpu EXCEPT ![f] = "signalled"]
  /\ UNCHANGED <<appVars, pacer, stateVars, waitVars, slotVars, lockVars, renderVars,
                 now, histVars>>

\* pthread_cond_wait may return without a signal.
SpuriousWakeup ==
  /\ \E t \in cond : cond' = cond \ {t}
  /\ UNCHANGED <<appVars, pacer, stateVars, wt, waiterPc, job, slotVars, lockVars,
                 renderVars, now, gpu, histVars>>

App == \/ Create \/ CreateWaitAlive \/ Destroy \/ DestroyStop \/ DestroyJoin
       \/ DestroyClear \/ BeginSession \/ EndSession \/ PredictFrame \/ MarkWoke
       \/ BeginFrame \/ DiscardBegun \/ DiscardWaited \/ LayerBegin
       \/ WaitForWaitThread \/ Unblock \/ AddLayer \/ LayerCommit \/ Push
       \/ AppMarkGpuDone \/ AppScheduledFree \/ AppTakeListLock
       \/ AppTakeSlotLock \/ AppMove

Waiter == \/ WaiterStart \/ WaiterWake \/ WaiterFenceDone \/ WaiterMarkGpuDone
          \/ WaiterScheduledFree \/ WaiterTakeListLock \/ WaiterTakeSlotLock
          \/ WaiterMove \/ WaiterFinish

Render == \/ RenderPredict \/ RenderWoke \/ RenderTakeListLock
          \/ RenderTakeSlotLock \/ RenderDeliver \/ RenderLatch \/ RenderCopy

World == SetVisible \/ Tick \/ SpuriousWakeup \/ \E f \in Frames : GpuDone(f)

Next == App \/ Waiter \/ Render \/ World

(***************************************************************************)
(* Fairness.  A thread that can run does (WF).  A thread that contends for *)
(* a mutex is not passed over for ever (SF): the render thread and the     *)
(* poll of the scheduled slot take and release the same two mutexes again  *)
(* and again.  Time passes and GPU work completes.  Nothing makes the      *)
(* application call, nor the render thread start another frame.            *)
(***************************************************************************)
AppContinues == \/ CreateWaitAlive \/ DestroyStop \/ DestroyJoin \/ WaitForWaitThread
                \/ Unblock \/ LayerCommit \/ Push \/ AppMove
AppLocks == \/ DestroyClear \/ AppMarkGpuDone \/ AppScheduledFree
            \/ AppTakeListLock \/ AppTakeSlotLock
WaiterContinues == WaiterStart \/ WaiterWake \/ WaiterFenceDone \/ WaiterMove \/ WaiterFinish
WaiterLocks == \/ WaiterMarkGpuDone \/ WaiterScheduledFree
               \/ WaiterTakeListLock \/ WaiterTakeSlotLock
RenderContinues == RenderTakeSlotLock \/ RenderDeliver \/ RenderLatch \/ RenderCopy

Fairness ==
  /\ WF_vars(AppContinues) /\ SF_vars(AppLocks)
  /\ WF_vars(WaiterContinues) /\ SF_vars(WaiterLocks)
  /\ WF_vars(RenderContinues)
  /\ WF_vars(Tick) /\ WF_vars(\E f \in Frames : GpuDone(f))

Spec == Init /\ [][Next]_vars
FairSpec == Spec /\ Fairness

(***************************************************************************)
(* Properties.                                                             *)
(***************************************************************************)
AppPcs == {"none", "create", "idle", "layer_begin", "blocked", "layers", "push",
           "gpu_done", "free_check", "free_list", "free_slot", "free_move",
           "stop", "join", "clear", "gone"}
WaiterPcs == {"none", "start", "asleep", "wait", "gpu_done", "free_check",
              "free_list", "free_slot", "free_move", "finish", "exited"}

AppTypes ==
  /\ appPc \in AppPcs
  /\ waitedFrame \in Frames \cup {NoFrame} /\ begunFrame \in Frames \cup {NoFrame}
  /\ frameCounter \in 0..MaxFrame
  /\ pacer \in [Frames -> {"ready", "predicted", "wait_left", "begun", "delivered", "done"}]
WaitTypes ==
  /\ wt \in WaitThread /\ waiterPc \in WaiterPcs /\ job \in Frames \cup {0}
  /\ cond \subseteq {"app", "waiter"}
SlotTypes ==
  /\ progress \in Slot /\ scheduled \in Slot /\ delivered \in Slot
  /\ retired \in [Frames -> Nat] /\ latched \in Frames \cup {0}
  /\ gpu \in [Frames -> {"none", "pending", "signalled", "unfenced"}]
RenderTypes ==
  /\ sessionActive \in BOOLEAN /\ visible \in BOOLEAN /\ listed \in BOOLEAN
  /\ slotNext \in Times /\ renderDisplay \in Times /\ now \in Times
  /\ listLock \in {"free", "app", "waiter", "render"}
  /\ slotLock \in {"free", "app", "waiter", "render"}
  /\ renderPc \in {"idle", "woke", "begun", "deliver", "move", "latch", "copy"}

\* Every variable has the type of the field or thread position it models.
TypeOK == AppTypes /\ WaitTypes /\ SlotTypes /\ RenderTypes

\* From FillProgress to the end of the commit the app thread uses progress
\* without a lock, and the push asserts that nothing is pushed or waited for:
\* then the wait thread has no frame in hand (run_func, wait_for_wait_thread).
AppOwnsProgress ==
  appPc \in {"layers", "push", "gpu_done", "free_check", "free_list", "free_slot", "free_move"}
ProgressHasOneOwner ==
  AppOwnsProgress => ~PushedOrWaiting /\ waiterPc \in {"asleep", "exited"}

\* layer_begin asserts that progress has no layers; it also must not hold an
\* active frame, which U_ZERO would lose without retiring it.
ProgressEmptyWhenFilled ==
  (appPc = "layer_begin" /\ ~PushedOrWaiting) \/ (appPc = "blocked" /\ ~wt.blocked)
     => ~progress.active /\ progress.layer_count = 0

\* One condition variable and pthread_cond_signal serve two threads.  Nobody
\* sleeps through his signal: not the wait thread with work pushed or asked to
\* stop, not the app thread once the wait thread is done with the last frame.
NoLostWakeup ==
  /\ "waiter" \in cond => ~wt.pushed /\ wt.running
  /\ "app" \in cond /\ appPc = "blocked" => wt.blocked /\ PushedOrWaiting
  /\ "app" \in cond /\ appPc = "create" => ~wt.alive

\* A frame whose layer_begin filled the progress slot is in exactly one slot,
\* or was retired exactly once, whatever the threads and destroy do.
FramesConserved ==
  \A f \in Frames :
    LET inScheduled == One(Holds(scheduled, f))
        inDelivered == One(Holds(delivered, f))
    IN retired[f] + One(Holds(progress, f)) + inScheduled + inDelivered =
         One(gpu[f] # "none" \/ Holds(progress, f))

\* The pipeline never reorders: an older frame is always further on.
SlotsInOrder ==
  /\ delivered.active /\ scheduled.active => delivered.frame_id < scheduled.frame_id
  /\ scheduled.active /\ progress.active => scheduled.frame_id < progress.frame_id
  /\ delivered.active /\ progress.active => delivered.frame_id < progress.frame_id

\* The asserts of u_pacing_app.c on the state of the frame a point is marked
\* for, at the places where this client's threads are about to mark it.
PacerCallsLegal ==
  /\ appPc = "idle" /\ begunFrame # NoFrame => pacer[begunFrame] = "begun"
  /\ appPc = "gpu_done" => pacer[progress.frame_id] = "delivered"
  /\ waiterPc = "gpu_done" => pacer[job] = "delivered"
  /\ waitedFrame # NoFrame => pacer[waitedFrame] \in {"predicted", "wait_left"}

\* While the render thread works on this client it is on the list and its
\* slots are not being freed: destroy leaves the list first, under the lock.
RenderUsesListedClient ==
  renderPc \in {"deliver", "move", "latch"} =>
    listed /\ listLock = "render" /\ appPc \notin {"none", "stop", "join", "clear", "gone"}

\* run_func falls through "on stopping to clean up any outstanding waits":
\* when the thread was joined no fence is left behind and none is waited for.
NothingLeftAfterJoin ==
  appPc \in {"clear", "gone"} =>
    /\ ~wt.pushed /\ ~wt.waiting /\ ~wt.blocked
    /\ appPc = "gone" => \A f \in Frames : gpu[f] # "none" => retired[f] = 1

\* The three slots are the frame pipeline that FramePipeline promises: the
\* progress and the scheduled slot hold the frames in flight, the delivered
\* slot the frame that is shown.
InFlight == {f \in Frames : Holds(progress, f) \/ Holds(scheduled, f)}
Pipeline == INSTANCE FramePipeline WITH
  inFlight <- InFlight,
  complete <- {f \in InFlight : gpu[f] \in {"signalled", "unfenced"}},
  shown <- IF delivered.active THEN delivered.frame_id ELSE 0,
  past <- {f \in Frames : retired[f] > 0}
ImplementsFramePipeline == Pipeline!Spec

\* A layer_begin or layer_commit that started returns: the wait thread always
\* frees the progress slot, even when the render thread has stopped rendering.
\* And multi_compositor_destroy returns, with work pending or not.
CallsReturn ==
  /\ (InCalls /\ appPc # "idle") ~> (appPc = "idle")
  /\ (appPc = "stop") ~> (appPc = "gone")
=============================================================================
