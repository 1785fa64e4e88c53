-------------------- MODULE MultiCompositor_frames_proofs --------------------
(***************************************************************************)
(* Proofs about the frames of one client of the multi-client compositor:   *)
(* none is lost, duplicated or overtaken, nobody sleeps through his        *)
(* signal, and destroy leaves nothing behind.                              *)
(*                                                                         *)
(* The argument has three layers.  Who holds the two mutexes follows from  *)
(* where the threads are (Locks), and from that, that the render thread    *)
(* only works on a listed client (Listing).  Who sleeps on the condition   *)
(* variable and why (Wakeups) makes one signal enough.  Who uses the       *)
(* progress slot (ProgressUse) and in which order the ids of the frames    *)
(* stand (FrameOrder, GpuState) give the conservation and the order.       *)
(***************************************************************************)
EXTENDS MultiCompositor_proofs

\* A mutex is held exactly from where a thread takes it to where it lets go.
Locks ==
  /\ listLock = "app" <=> appPc \in {"free_slot", "free_move"}
  /\ listLock = "waiter" <=> waiterPc \in {"free_slot", "free_move"}
  /\ listLock = "render" <=> renderPc \in {"deliver", "move", "latch", "copy"}
  /\ slotLock = "app" <=> appPc = "free_move"
  /\ slotLock = "waiter" <=> waiterPc = "free_move"
  /\ slotLock = "render" <=> renderPc = "move"

\* The client is on the list from create to destroy, at most, and the render
\* thread holds the list lock from where it found the client there.
Listing ==
  /\ listed => appPc \notin {"none", "stop", "join", "clear", "gone"}
  /\ renderPc \in {"deliver", "move", "latch"} => listed

\* Who may sleep, what a blocked app thread waits for, and how the wait thread
\* ends: only when it was told to, and with no work pushed.
Wakeups ==
  /\ "waiter" \in cond => waiterPc = "asleep"
  /\ "app" \in cond => appPc \in {"create", "blocked"}
  /\ wt.blocked => appPc = "blocked" /\ PushedOrWaiting
  /\ wt.running <=> appPc \notin {"none", "join", "clear", "gone"}
  /\ waiterPc = "exited" => ~wt.running /\ ~wt.pushed
  /\ appPc \in {"clear", "gone"} => waiterPc = "exited"

\* The progress slot is filled exactly while one of the two threads uses it,
\* and both mean the frame that is in it.
WaiterWorks == WaiterBusy /\ waiterPc # "finish"
ProgressUse ==
  /\ progress.active \/ progress.layer_count # 0 => AppOwnsProgress \/ wt.pushed \/ WaiterWorks
  /\ wt.pushed => progress.active /\ wt.frame_id = progress.frame_id
  /\ WaiterWorks => progress.active /\ job = progress.frame_id
  /\ AppOwnsProgress => progress.frame_id = begunFrame

\* A frame that was committed is older than the frame that is begun, but for
\* the begun frame between its commit and the end of layer_commit; the begun
\* frame is older than the waited one, and no id exceeds the pacer's counter.
AfterCommit ==
  appPc \in {"push", "gpu_done", "free_check", "free_list", "free_slot", "free_move"}
FrameOrder ==
  /\ \A f \in Frames : gpu[f] # "none" =>
       /\ f <= frameCounter
       /\ waitedFrame # NoFrame => f < waitedFrame
       /\ begunFrame # NoFrame => f < begunFrame \/ (f = begunFrame /\ AfterCommit)
  /\ waitedFrame # NoFrame => waitedFrame <= frameCounter
  /\ begunFrame # NoFrame => begunFrame <= frameCounter
  /\ waitedFrame # NoFrame /\ begunFrame # NoFrame => begunFrame < waitedFrame

\* What is known of the GPU work of the frame in each slot.
GpuComplete(f) == gpu[f] \in {"signalled", "unfenced"}
GpuState ==
  /\ scheduled.active => GpuComplete(scheduled.frame_id)
  /\ delivered.active => GpuComplete(delivered.frame_id)
  /\ progress.active /\ appPc # "layers" => gpu[progress.frame_id] # "none"
  /\ waiterPc \in {"gpu_done", "free_check", "free_list", "free_slot", "free_move"} =>
       GpuComplete(job)
  /\ appPc \in {"gpu_done", "free_check", "free_list", "free_slot", "free_move"} =>
       GpuComplete(progress.frame_id)

\* The pacer's state of the frame each thread is about to mark.
PacerState ==
  /\ appPc \in {"none", "create"} => begunFrame = NoFrame /\ waitedFrame = NoFrame
  /\ appPc \in {"layer_begin", "blocked", "layers", "push", "gpu_done"} =>
       pacer[begunFrame] = "delivered"
  /\ wt.pushed => pacer[wt.frame_id] = "delivered"
  /\ waiterPc \in {"wait", "gpu_done"} => pacer[job] = "delivered"

\* After destroy the slots are empty.
SlotsGone == appPc = "gone" => ~progress.active /\ ~scheduled.active /\ ~delivered.active

FInv ==
  /\ IInv /\ Locks /\ Listing /\ Wakeups /\ NoLostWakeup /\ ProgressUse
  /\ FrameOrder /\ GpuState /\ FramesConserved /\ SlotsInOrder
  /\ PacerState /\ PacerCallsLegal /\ SlotsGone
\* What the top of the loop does after the wait thread is done with a frame:
\* its flags are down, nothing is pushed, so it leaves or goes to sleep.
LEMMA FinishOutcome ==
  ASSUME WaiterFinish, WaitTypes, Handshake
  PROVE  /\ waiterPc = "finish" /\ wt.waiting /\ job' = job
         /\ UNCHANGED <<appVars, pacer, slotVars, gpu>>
         /\ ~wt'.waiting /\ ~wt'.blocked /\ ~wt'.pushed
         /\ wt'.running = wt.running /\ wt'.alive = wt.alive
         /\ \E c \in (IF wt.blocked THEN Signal(cond) ELSE {cond}) :
              \/ ~wt.running /\ waiterPc' = "exited" /\ cond' = c
              \/ wt.running /\ waiterPc' = "asleep" /\ cond' = c \cup {"waiter"}
  <1> DEFINE w == [wt EXCEPT !.waiting = FALSE, !.blocked = FALSE]
  <1>1. /\ waiterPc = "finish" /\ wt.waiting /\ ~wt.pushed
        /\ UNCHANGED <<appVars, pacer, slotVars, gpu>>
    BY DEF WaiterFinish, Handshake, WaiterBusy
  <1>2. PICK c \in (IF wt.blocked THEN Signal(cond) ELSE {cond}) : LoopTop(w, c)
    BY DEF WaiterFinish
  <1>3. /\ ~w.waiting /\ ~w.blocked /\ w.pushed = wt.pushed
        /\ w.running = wt.running /\ w.alive = wt.alive
    BY DEF WaitTypes, WaitThread
  <1> HIDE DEF w
  <1>4. wt' = w /\ job' = job
    BY <1>1, <1>2, <1>3 DEF LoopTop
  <1>5. \/ ~wt.running /\ waiterPc' = "exited" /\ cond' = c
        \/ wt.running /\ waiterPc' = "asleep" /\ cond' = c \cup {"waiter"}
    BY <1>1, <1>2, <1>3 DEF LoopTop
  <1>6. QED
    BY <1>1, <1>2, <1>3, <1>4, <1>5

\* The start of the wait thread: it says that it lives, and goes on as above,
\* but for work that may have been pushed before it ran.
LEMMA StartOutcome ==
  ASSUME WaiterStart, WaitTypes, Handshake
  PROVE  /\ waiterPc = "start" /\ ~wt.waiting /\ ~wt.alive
         /\ UNCHANGED <<appVars, pacer, slotVars, gpu>>
         /\ wt'.alive /\ wt'.running = wt.running /\ wt'.blocked = wt.blocked
         /\ \E c \in Signal(cond) :
              \/ /\ ~wt.running /\ waiterPc' = "exited" /\ cond' = c
                 /\ wt'.pushed = wt.pushed /\ ~wt'.waiting /\ job' = job
                 /\ wt'.frame_id = wt.frame_id
              \/ /\ wt.running /\ ~wt.pushed /\ waiterPc' = "asleep"
                 /\ cond' = c \cup {"waiter"} /\ ~wt'.pushed /\ ~wt'.waiting /\ job' = job
              \/ /\ wt.running /\ wt.pushed /\ waiterPc' = "wait" /\ cond' = c
                 /\ ~wt'.pushed /\ wt'.waiting /\ job' = wt.frame_id
  <1> DEFINE w == [wt EXCEPT !.alive = TRUE]
  <1>1. /\ waiterPc = "start" /\ ~wt.waiting /\ ~wt.alive
        /\ UNCHANGED <<appVars, pacer, slotVars, gpu>>
    BY DEF WaiterStart, Handshake, WaiterBusy, WaitTypes, WaitThread
  <1>2. PICK c \in Signal(cond) : LoopTop(w, c)
    BY DEF WaiterStart
  <1>3. /\ w \in WaitThread /\ w.alive /\ w.waiting = wt.waiting
        /\ w.blocked = wt.blocked /\ w.pushed = wt.pushed /\ w.running = wt.running
        /\ w.frame_id = wt.frame_id
    BY DEF WaitTypes, WaitThread
  <1> HIDE DEF w
  <1>4. CASE wt.running /\ wt.pushed
    BY <1>1, <1>2, <1>3, <1>4 DEF LoopTop, TakeWork, WaitThread
  <1>5. CASE ~(wt.running /\ wt.pushed)
    BY <1>1, <1>2, <1>3, <1>5 DEF LoopTop, TakeWork
  <1>6. QED
    BY <1>4, <1>5

\* After its sleep the wait thread takes the work that was pushed, or else
\* leaves or sleeps again.
LEMMA WakeOutcome ==
  ASSUME WaiterWake, WaitTypes, Handshake
  PROVE  /\ waiterPc = "asleep" /\ ~wt.waiting /\ wt'.running = wt.running
         /\ UNCHANGED <<appVars, pacer, slotVars, gpu>>
         /\ ~wt'.pushed
         /\ \/ wt.pushed /\ waiterPc' = "wait" /\ job' = wt.frame_id
            \/ ~wt.pushed /\ waiterPc' \in {"exited", "asleep"} /\ job' = job
  <1>1. waiterPc = "asleep" /\ ~wt.waiting /\ UNCHANGED <<appVars, pacer, slotVars, gpu>>
    BY DEF WaiterWake, Handshake, WaiterBusy
  <1>2. CASE wt.pushed
    BY <1>1, <1>2 DEF WaiterWake, TakeWork, WaitTypes, WaitThread
  <1>3. CASE ~wt.pushed
    <2> DEFINE w == [wt EXCEPT !.frame_id = 0]
    <2>1. ~w.pushed /\ w.running = wt.running
      BY <1>3 DEF WaitTypes, WaitThread
    <2>2. LoopTop(w, cond)
      BY <1>3 DEF WaiterWake
    <2> HIDE DEF w
    <2> QED BY <1>1, <1>3, <2>1, <2>2 DEF LoopTop
  <1> QED BY <1>2, <1>3

\* The rest of layer_begin, with or without a block: the begun frame is in the
\* progress slot and the app thread goes on to the layers.
LEMMA FillOutcome ==
  ASSUME (WaitForWaitThread /\ ~PushedOrWaiting) \/ (Unblock /\ ~wt.blocked)
  PROVE  /\ appPc \in {"layer_begin", "blocked"} /\ appPc' = "layers"
         /\ progress'.active /\ progress'.frame_id = begunFrame
         /\ UNCHANGED <<waitedFrame, begunFrame, frameCounter, pacer, wt, waiterPc, job,
                        scheduled, delivered, gpu, retired>>
  BY DEF WaitForWaitThread, Unblock, FillProgress, histVars

\* The two mutexes change hands only where the threads' positions say so.
LEMMA LocksStep == Locks /\ [Next]_vars => Locks'
  <1> SUFFICES ASSUME Locks, [Next]_vars PROVE Locks'
    OBVIOUS
  <1> USE DEF Locks, appVars, waitVars, lockVars, renderVars
  <1>1. CASE Create
    BY <1>1 DEF Create
  <1>2. CASE CreateWaitAlive
    BY <1>2 DEF CreateWaitAlive
  <1>3. CASE Destroy
    BY <1>3 DEF Destroy
  <1>4. CASE DestroyStop
    BY <1>4 DEF DestroyStop
  <1>5. CASE DestroyJoin
    BY <1>5 DEF DestroyJoin
  <1>6. CASE DestroyClear
    BY <1>6 DEF DestroyClear
  <1>7. CASE LayerBegin
    BY <1>7 DEF LayerBegin
  <1>8. CASE WaitForWaitThread
    BY <1>8 DEF WaitForWaitThread, FillProgress
  <1>9. CASE Unblock
    BY <1>9 DEF Unblock, FillProgress
  <1>10. CASE LayerCommit
    BY <1>10 DEF LayerCommit
  <1>11. CASE Push
    BY <1>11 DEF Push
  <1>12. CASE AppMarkGpuDone
    BY <1>12 DEF AppMarkGpuDone
  <1>13. CASE AppScheduledFree
    BY <1>13 DEF AppScheduledFree
  <1>14. CASE AppTakeListLock
    BY <1>14 DEF AppTakeListLock
  <1>15. CASE AppTakeSlotLock
    BY <1>15 DEF AppTakeSlotLock
  <1>16. CASE AppMove
    BY <1>16 DEF AppMove, MoveProgressToScheduled
  <1>17. CASE WaiterStart
    BY <1>17 DEF WaiterStart, LoopTop, TakeWork
  <1>18. CASE WaiterWake
    BY <1>18 DEF WaiterWake, LoopTop, TakeWork
  <1>19. CASE WaiterFenceDone
    BY <1>19 DEF WaiterFenceDone
  <1>20. CASE WaiterMarkGpuDone
    BY <1>20 DEF WaiterMarkGpuDone
  <1>21. CASE WaiterScheduledFree
    BY <1>21 DEF WaiterScheduledFree
  <1>22. CASE WaiterTakeListLock
    BY <1>22 DEF WaiterTakeListLock
  <1>23. CASE WaiterTakeSlotLock
    BY <1>23 DEF WaiterTakeSlotLock
  <1>24. CASE WaiterMove
    BY <1>24 DEF WaiterMove, MoveProgressToScheduled
  <1>25. CASE WaiterFinish
    BY <1>25 DEF WaiterFinish, LoopTop, TakeWork
  <1>26. CASE RenderPredict
    BY <1>26 DEF RenderPredict
  <1>27. CASE RenderWoke
    BY <1>27 DEF RenderWoke
  <1>28. CASE RenderTakeListLock
    BY <1>28 DEF RenderTakeListLock
  <1>29. CASE RenderTakeSlotLock
    BY <1>29 DEF RenderTakeSlotLock
  <1>30. CASE RenderDeliver
    BY <1>30 DEF RenderDeliver, MoveScheduledToDelivered
  <1>31. CASE RenderLatch
    BY <1>31 DEF RenderLatch
  <1>32. CASE RenderCopy
    BY <1>32 DEF RenderCopy
  <1>33. CASE UNCHANGED <<appPc, waiterPc, renderPc, listLock, slotLock>>
    BY <1>33
  <1>34. QED
    BY <1>1, <1>2, <1>3, <1>4, <1>5, <1>6, <1>7, <1>8, <1>9, <1>10, <1>11,
      <1>12, <1>13, <1>14, <1>15, <1>16, <1>17, <1>18, <1>19, <1>20, <1>21,
      <1>22, <1>23, <1>24, <1>25, <1>26, <1>27, <1>28, <1>29, <1>30, <1>31,
      <1>32, <1>33 DEF Next, App, Waiter, Render, World, vars, stateVars,
      slotVars, histVars, BeginSession, EndSession, PredictFrame, MarkWoke,
      BeginFrame, DiscardBegun, DiscardWaited, AddLayer, SetVisible, Tick,
      SpuriousWakeup, GpuDone

\* Destroy cannot leave the list while the render thread holds its lock.
LEMMA ListingStep == Listing /\ Locks /\ [Next]_vars => Listing'
  <1> SUFFICES ASSUME Listing /\ Locks, [Next]_vars PROVE Listing'
    OBVIOUS
  <1> USE DEF Listing, Locks, appVars, stateVars, renderVars
  <1>1. CASE Create
    BY <1>1 DEF Create
  <1>2. CASE CreateWaitAlive
    BY <1>2 DEF CreateWaitAlive
  <1>3. CASE Destroy
    BY <1>3 DEF Destroy
  <1>4. CASE DestroyStop
    BY <1>4 DEF DestroyStop
  <1>5. CASE DestroyJoin
    BY <1>5 DEF DestroyJoin
  <1>6. CASE DestroyClear
    BY <1>6 DEF DestroyClear
  <1>7. CASE LayerBegin
    BY <1>7 DEF LayerBegin
  <1>8. CASE WaitForWaitThread
    BY <1>8 DEF WaitForWaitThread, FillProgress
  <1>9. CASE Unblock
    BY <1>9 DEF Unblock, FillProgress
  <1>10. CASE LayerCommit
    BY <1>10 DEF LayerCommit
  <1>11. CASE Push
    BY <1>11 DEF Push
  <1>12. CASE AppMarkGpuDone
    BY <1>12 DEF AppMarkGpuDone
  <1>13. CASE AppScheduledFree
    BY <1>13 DEF AppScheduledFree
  <1>14. CASE AppTakeListLock
    BY <1>14 DEF AppTakeListLock
  <1>15. CASE AppTakeSlotLock
    BY <1>15 DEF AppTakeSlotLock
  <1>16. CASE AppMove
    BY <1>16 DEF AppMove, MoveProgressToScheduled
  <1>17. CASE RenderPredict
    BY <1>17 DEF RenderPredict
  <1>18. CASE RenderWoke
    BY <1>18 DEF RenderWoke
  <1>19. CASE RenderTakeListLock
    BY <1>19 DEF RenderTakeListLock
  <1>20. CASE RenderTakeSlotLock
    BY <1>20 DEF RenderTakeSlotLock
  <1>21. CASE RenderDeliver
    BY <1>21 DEF RenderDeliver, MoveScheduledToDelivered
  <1>22. CASE RenderLatch
    BY <1>22 DEF RenderLatch
  <1>23. CASE RenderCopy
    BY <1>23 DEF RenderCopy
  <1>24. CASE UNCHANGED <<appPc, renderPc, listed>>
    BY <1>24
  <1>25. QED
    BY <1>1, <1>2, <1>3, <1>4, <1>5, <1>6, <1>7, <1>8, <1>9, <1>10, <1>11,
      <1>12, <1>13, <1>14, <1>15, <1>16, <1>17, <1>18, <1>19, <1>20, <1>21,
      <1>22, <1>23, <1>24 DEF Next, App, Waiter, Render, World, vars, waitVars,
      slotVars, lockVars, histVars, BeginSession, EndSession, PredictFrame,
      MarkWoke, BeginFrame, DiscardBegun, DiscardWaited, AddLayer, WaiterStart,
      WaiterWake, WaiterFenceDone, WaiterMarkGpuDone, WaiterScheduledFree,
      WaiterTakeListLock, WaiterTakeSlotLock, WaiterMove, WaiterFinish,
      SetVisible, Tick, SpuriousWakeup, GpuDone

\* Sleepers, the blocked flag and the end of the wait thread stay explained.
LEMMA WakeupsStep == Wakeups /\ IInv /\ [Next]_vars => Wakeups'
  <1> SUFFICES ASSUME Wakeups /\ IInv, [Next]_vars PROVE Wakeups'
    OBVIOUS
  <1> USE DEF Wakeups, IInv, TypeOK, WaitTypes, WaitThread, Handshake,
      WaiterBusy, PushedOrWaiting, Signal, appVars, waitVars
  <1>1. CASE Create
    BY <1>1 DEF Create
  <1>2. CASE CreateWaitAlive
    BY <1>2 DEF CreateWaitAlive
  <1>3. CASE Destroy
    BY <1>3 DEF Destroy
  <1>4. CASE DestroyStop
    BY <1>4 DEF DestroyStop
  <1>5. CASE DestroyJoin
    BY <1>5 DEF DestroyJoin
  <1>6. CASE DestroyClear
    BY <1>6 DEF DestroyClear
  <1>7. CASE LayerBegin
    BY <1>7 DEF LayerBegin
  <1>8. CASE WaitForWaitThread
    BY <1>8 DEF WaitForWaitThread, FillProgress
  <1>9. CASE Unblock
    BY <1>9 DEF Unblock, FillProgress
  <1>10. CASE LayerCommit
    BY <1>10 DEF LayerCommit
  <1>11. CASE Push
    BY <1>11 DEF Push
  <1>12. CASE AppMarkGpuDone
    BY <1>12 DEF AppMarkGpuDone
  <1>13. CASE AppScheduledFree
    BY <1>13 DEF AppScheduledFree
  <1>14. CASE AppTakeListLock
    BY <1>14 DEF AppTakeListLock
  <1>15. CASE AppTakeSlotLock
    BY <1>15 DEF AppTakeSlotLock
  <1>16. CASE AppMove
    BY <1>16 DEF AppMove, MoveProgressToScheduled
  <1>17. CASE WaiterStart
    BY <1>17, StartOutcome
  <1>18. CASE WaiterWake
    BY <1>18 DEF WaiterWake, LoopTop, TakeWork
  <1>19. CASE WaiterFenceDone
    BY <1>19 DEF WaiterFenceDone
  <1>20. CASE WaiterMarkGpuDone
    BY <1>20 DEF WaiterMarkGpuDone
  <1>21. CASE WaiterScheduledFree
    BY <1>21 DEF WaiterScheduledFree
  <1>22. CASE WaiterTakeListLock
    BY <1>22 DEF WaiterTakeListLock
  <1>23. CASE WaiterTakeSlotLock
    BY <1>23 DEF WaiterTakeSlotLock
  <1>24. CASE WaiterMove
    BY <1>24 DEF WaiterMove, MoveProgressToScheduled
  <1>25. CASE WaiterFinish
    BY <1>25, FinishOutcome
  <1>26. CASE SpuriousWakeup
    BY <1>26 DEF SpuriousWakeup
  <1>27. CASE UNCHANGED <<appPc, wt, waiterPc, cond>>
    BY <1>27
  <1>28. QED
    BY <1>1, <1>2, <1>3, <1>4, <1>5, <1>6, <1>7, <1>8, <1>9, <1>10, <1>11,
      <1>12, <1>13, <1>14, <1>15, <1>16, <1>17, <1>18, <1>19, <1>20, <1>21,
      <1>22, <1>23, <1>24, <1>25, <1>26, <1>27 DEF Next, App, Waiter, Render,
      World, vars, stateVars, slotVars, lockVars, renderVars, histVars,
      BeginSession, EndSession, PredictFrame, MarkWoke, BeginFrame,
      DiscardBegun, DiscardWaited, AddLayer, RenderPredict, RenderWoke,
      RenderTakeListLock, RenderTakeSlotLock, RenderDeliver, RenderLatch,
      RenderCopy, SetVisible, Tick, GpuDone

\* One signal is enough: at most one thread can sleep where it is given.
LEMMA NoLostWakeupStep ==
  NoLostWakeup /\ Wakeups /\ IInv /\ [Next]_vars => NoLostWakeup'
  <1> SUFFICES ASSUME NoLostWakeup /\ Wakeups /\ IInv, [Next]_vars PROVE
      NoLostWakeup'
    OBVIOUS
  <1> USE DEF NoLostWakeup, Wakeups, IInv, TypeOK, WaitTypes, WaitThread,
      Handshake, WaiterBusy, PushedOrWaiting, Signal, appVars, waitVars
  <1>1. CASE Create
    BY <1>1 DEF Create
  <1>2. CASE CreateWaitAlive
    BY <1>2 DEF CreateWaitAlive
  <1>3. CASE Destroy
    BY <1>3 DEF Destroy
  <1>4. CASE DestroyStop
    BY <1>4 DEF DestroyStop
  <1>5. CASE DestroyJoin
    BY <1>5 DEF DestroyJoin
  <1>6. CASE DestroyClear
    BY <1>6 DEF DestroyClear
  <1>7. CASE LayerBegin
    BY <1>7 DEF LayerBegin
  <1>8. CASE WaitForWaitThread
    BY <1>8 DEF WaitForWaitThread, FillProgress
  <1>9. CASE Unblock
    BY <1>9 DEF Unblock, FillProgress
  <1>10. CASE LayerCommit
    BY <1>10 DEF LayerCommit
  <1>11. CASE Push
    BY <1>11 DEF Push
  <1>12. CASE AppMarkGpuDone
    BY <1>12 DEF AppMarkGpuDone
  <1>13. CASE AppScheduledFree
    BY <1>13 DEF AppScheduledFree
  <1>14. CASE AppTakeListLock
    BY <1>14 DEF AppTakeListLock
  <1>15. CASE AppTakeSlotLock
    BY <1>15 DEF AppTakeSlotLock
  <1>16. CASE AppMove
    BY <1>16 DEF AppMove, MoveProgressToScheduled
  <1>17. CASE WaiterStart
    BY <1>17, StartOutcome
  <1>18. CASE WaiterWake
    BY <1>18 DEF WaiterWake, LoopTop, TakeWork
  <1>19. CASE WaiterFenceDone
    BY <1>19 DEF WaiterFenceDone
  <1>20. CASE WaiterMarkGpuDone
    BY <1>20 DEF WaiterMarkGpuDone
  <1>21. CASE WaiterScheduledFree
    BY <1>21 DEF WaiterScheduledFree
  <1>22. CASE WaiterTakeListLock
    BY <1>22 DEF WaiterTakeListLock
  <1>23. CASE WaiterTakeSlotLock
    BY <1>23 DEF WaiterTakeSlotLock
  <1>24. CASE WaiterMove
    BY <1>24 DEF WaiterMove, MoveProgressToScheduled
  <1>25. CASE WaiterFinish
    BY <1>25, FinishOutcome
  <1>26. CASE SpuriousWakeup
    BY <1>26 DEF SpuriousWakeup
  <1>27. CASE UNCHANGED <<appPc, wt, waiterPc, cond>>
    BY <1>27
  <1>28. QED
    BY <1>1, <1>2, <1>3, <1>4, <1>5, <1>6, <1>7, <1>8, <1>9, <1>10, <1>11,
      <1>12, <1>13, <1>14, <1>15, <1>16, <1>17, <1>18, <1>19, <1>20, <1>21,
      <1>22, <1>23, <1>24, <1>25, <1>26, <1>27 DEF Next, App, Waiter, Render,
      World, vars, stateVars, slotVars, lockVars, renderVars, histVars,
      BeginSession, EndSession, PredictFrame, MarkWoke, BeginFrame,
      DiscardBegun, DiscardWaited, AddLayer, RenderPredict, RenderWoke,
      RenderTakeListLock, RenderTakeSlotLock, RenderDeliver, RenderLatch,
      RenderCopy, SetVisible, Tick, GpuDone

\* The progress slot is handed from the app thread to the wait thread whole.
LEMMA ProgressUseStep ==
  ProgressUse /\ Wakeups /\ IInv /\ [Next]_vars => ProgressUse'
  <1> SUFFICES ASSUME ProgressUse /\ Wakeups /\ IInv, [Next]_vars PROVE
      ProgressUse'
    OBVIOUS
  <1> USE BoundsAssumption DEF ProgressUse, Wakeups, ClearedSlot, IInv, TypeOK,
      AppTypes, WaitTypes, SlotTypes, WaitThread, Slot, Handshake, WaiterBusy,
      WaiterWorks, PushedOrWaiting, AppOwnsProgress, ProgressHasOneOwner,
      ActiveHasFrame, SubmitsFrame, Frames, NoFrame, appVars, waitVars, slotVars
  <1>1. CASE Create
    BY <1>1 DEF Create
  <1>2. CASE CreateWaitAlive
    BY <1>2 DEF CreateWaitAlive
  <1>3. CASE Destroy
    BY <1>3 DEF Destroy
  <1>4. CASE DestroyStop
    BY <1>4 DEF DestroyStop
  <1>5. CASE DestroyJoin
    BY <1>5 DEF DestroyJoin
  <1>6. CASE DestroyClear
    BY <1>6 DEF DestroyClear
  <1>7. CASE BeginFrame
    BY <1>7 DEF BeginFrame
  <1>8. CASE DiscardBegun
    BY <1>8 DEF DiscardBegun
  <1>9. CASE LayerBegin
    BY <1>9 DEF LayerBegin
  <1>10. CASE WaitForWaitThread
    <2>1. CASE PushedOrWaiting
      <3>1. wt \in WaitThread
        OBVIOUS
      <3> HIDE DEF IInv, Wakeups, AppTypes, WaitTypes, SlotTypes, Handshake
      <3>2. /\ appPc = "layer_begin" /\ appPc' = "blocked"
            /\ wt'.pushed = wt.pushed /\ wt'.frame_id = wt.frame_id
            /\ UNCHANGED <<begunFrame, waiterPc, job, progress>>
        BY <1>10, <2>1, <3>1 DEF WaitForWaitThread
      <3>3. QED
        BY <3>2
    <2>2. CASE ~PushedOrWaiting
      BY <1>10, <2>2, FillOutcome
    <2>3. QED
      BY <2>1, <2>2
  <1>11. CASE Unblock
    <2>1. CASE wt.blocked
      BY <1>11, <2>1 DEF Unblock
    <2>2. CASE ~wt.blocked
      <3>1. ~wt.pushed /\ ~WaiterWorks
        BY <1>11, <2>2 DEF Unblock
      <3>2. QED
        BY <1>11, <2>2, <3>1, FillOutcome
    <2>3. QED
      BY <2>1, <2>2
  <1>12. CASE AddLayer
    BY <1>12 DEF AddLayer
  <1>13. CASE LayerCommit
    BY <1>13 DEF LayerCommit
  <1>14. CASE Push
    BY <1>14 DEF Push
  <1>15. CASE AppMarkGpuDone
    BY <1>15 DEF AppMarkGpuDone
  <1>16. CASE AppScheduledFree
    BY <1>16 DEF AppScheduledFree
  <1>17. CASE AppTakeListLock
    BY <1>17 DEF AppTakeListLock
  <1>18. CASE AppTakeSlotLock
    BY <1>18 DEF AppTakeSlotLock
  <1>19. CASE AppMove
    BY <1>19 DEF AppMove, MoveProgressToScheduled
  <1>20. CASE WaiterStart
    BY <1>20, StartOutcome
  <1>21. CASE WaiterWake
    BY <1>21, WakeOutcome
  <1>22. CASE WaiterFenceDone
    BY <1>22 DEF WaiterFenceDone
  <1>23. CASE WaiterMarkGpuDone
    BY <1>23 DEF WaiterMarkGpuDone
  <1>24. CASE WaiterScheduledFree
    BY <1>24 DEF WaiterScheduledFree
  <1>25. CASE WaiterTakeListLock
    BY <1>25 DEF WaiterTakeListLock
  <1>26. CASE WaiterTakeSlotLock
    BY <1>26 DEF WaiterTakeSlotLock
  <1>27. CASE WaiterMove
    BY <1>27 DEF WaiterMove, MoveProgressToScheduled
  <1>28. CASE WaiterFinish
    BY <1>28, FinishOutcome
  <1>29. CASE UNCHANGED <<appPc, begunFrame, wt, waiterPc, job, progress>>
    BY <1>29
  <1>30. QED
    BY <1>1, <1>2, <1>3, <1>4, <1>5, <1>6, <1>7, <1>8, <1>9, <1>10, <1>11,
      <1>12, <1>13, <1>14, <1>15, <1>16, <1>17, <1>18, <1>19, <1>20, <1>21,
      <1>22, <1>23, <1>24, <1>25, <1>26, <1>27, <1>28, <1>29 DEF Next, App,
      Waiter, Render, World, vars, stateVars, lockVars, renderVars, histVars,
      BeginSession, EndSession, PredictFrame, MarkWoke, DiscardWaited,
      RenderPredict, RenderWoke, RenderTakeListLock, RenderTakeSlotLock,
      RenderDeliver, RenderLatch, RenderCopy, SetVisible, Tick, SpuriousWakeup,
      GpuDone

\* Frames are begun, and committed, in the order the pacer numbers them.
LEMMA FrameOrderStep ==
  FrameOrder /\ PacerState /\ ProgressUse /\ IInv /\ [Next]_vars => FrameOrder'
  <1> SUFFICES ASSUME FrameOrder /\ PacerState /\ ProgressUse /\ IInv,
      [Next]_vars PROVE FrameOrder'
    OBVIOUS
  <1> USE BoundsAssumption DEF FrameOrder, AfterCommit, PacerState, ProgressUse,
      IInv, TypeOK, AppTypes, WaitTypes, SlotTypes, WaitThread, Slot, Handshake,
      WaiterBusy, WaiterWorks, PushedOrWaiting, AppOwnsProgress,
      ProgressHasOneOwner, ActiveHasFrame, SubmitsFrame, Frames, NoFrame,
      appVars
  <1>1. CASE Create
    BY <1>1 DEF Create
  <1>2. CASE CreateWaitAlive
    BY <1>2 DEF CreateWaitAlive
  <1>3. CASE Destroy
    BY <1>3 DEF Destroy
  <1>4. CASE DestroyStop
    BY <1>4 DEF DestroyStop
  <1>5. CASE DestroyJoin
    BY <1>5 DEF DestroyJoin
  <1>6. CASE DestroyClear
    BY <1>6 DEF DestroyClear
  <1>7. CASE PredictFrame
    BY <1>7 DEF PredictFrame
  <1>8. CASE BeginFrame
    BY <1>8 DEF BeginFrame
  <1>9. CASE DiscardBegun
    BY <1>9 DEF DiscardBegun
  <1>10. CASE DiscardWaited
    BY <1>10 DEF DiscardWaited
  <1>11. CASE LayerBegin
    BY <1>11 DEF LayerBegin
  <1>12. CASE WaitForWaitThread
    BY <1>12 DEF WaitForWaitThread, FillProgress
  <1>13. CASE Unblock
    BY <1>13 DEF Unblock, FillProgress
  <1>14. CASE LayerCommit
    <2>1. /\ progress.frame_id = begunFrame /\ appPc = "layers" /\ appPc' \in {"push", "gpu_done"}
          /\ UNCHANGED <<waitedFrame, begunFrame, frameCounter>>
      BY <1>14 DEF LayerCommit
    <2>2. \A f \in Frames : gpu'[f] # "none" => gpu[f] # "none" \/ f = begunFrame
      BY <1>14, <2>1 DEF LayerCommit
    <2>3. begunFrame \in Int /\ waitedFrame \in Int /\ frameCounter \in Int
      OBVIOUS
    <2> HIDE DEF IInv, PacerState, ProgressUse
    <2>4. QED
      BY <2>1, <2>2, <2>3
  <1>15. CASE Push
    BY <1>15 DEF Push
  <1>16. CASE AppMarkGpuDone
    BY <1>16 DEF AppMarkGpuDone
  <1>17. CASE AppScheduledFree
    BY <1>17 DEF AppScheduledFree
  <1>18. CASE AppTakeListLock
    BY <1>18 DEF AppTakeListLock
  <1>19. CASE AppTakeSlotLock
    BY <1>19 DEF AppTakeSlotLock
  <1>20. CASE AppMove
    BY <1>20 DEF AppMove, MoveProgressToScheduled
  <1>21. CASE \E f \in Frames : GpuDone(f)
    <2>1. \A f \in Frames : gpu'[f] # "none" => gpu[f] # "none"
      BY <1>21 DEF GpuDone
    <2>2. UNCHANGED <<appPc, waitedFrame, begunFrame, frameCounter>>
      BY <1>21 DEF GpuDone
    <2> HIDE DEF IInv, PacerState, ProgressUse
    <2>3. QED
      BY <2>1, <2>2
  <1>22. CASE UNCHANGED <<appPc, waitedFrame, begunFrame, frameCounter, gpu>>
    BY <1>22
  <1>23. QED
    BY <1>1, <1>2, <1>3, <1>4, <1>5, <1>6, <1>7, <1>8, <1>9, <1>10, <1>11,
      <1>12, <1>13, <1>14, <1>15, <1>16, <1>17, <1>18, <1>19, <1>20, <1>21,
      <1>22 DEF Next, App, Waiter, Render, World, vars, stateVars, waitVars,
      slotVars, lockVars, renderVars, histVars, BeginSession, EndSession,
      MarkWoke, AddLayer, WaiterStart, WaiterWake, WaiterFenceDone,
      WaiterMarkGpuDone, WaiterScheduledFree, WaiterTakeListLock,
      WaiterTakeSlotLock, WaiterMove, WaiterFinish, RenderPredict, RenderWoke,
      RenderTakeListLock, RenderTakeSlotLock, RenderDeliver, RenderLatch,
      RenderCopy, SetVisible, Tick, SpuriousWakeup

\* Only a frame whose GPU work was waited for leaves the progress slot.
LEMMA GpuStateStep ==
  GpuState /\ ProgressUse /\ FrameOrder /\ Wakeups /\ IInv /\ [Next]_vars => GpuState'
  <1> SUFFICES ASSUME GpuState /\ ProgressUse /\ FrameOrder /\ Wakeups /\ IInv,
      [Next]_vars PROVE GpuState'
    OBVIOUS
  <1> USE BoundsAssumption DEF GpuState, GpuComplete, WaitOver, ProgressUse,
      FrameOrder, AfterCommit, Wakeups, ClearedSlot, IInv, TypeOK, AppTypes,
      WaitTypes, SlotTypes, WaitThread, Slot, Handshake, WaiterBusy,
      WaiterWorks, PushedOrWaiting, AppOwnsProgress, ProgressHasOneOwner,
      ActiveHasFrame, SubmitsFrame, Frames, NoFrame, appVars, waitVars, slotVars
  <1>1. CASE Create
    BY <1>1 DEF Create
  <1>2. CASE CreateWaitAlive
    BY <1>2 DEF CreateWaitAlive
  <1>3. CASE Destroy
    BY <1>3 DEF Destroy
  <1>4. CASE DestroyStop
    BY <1>4 DEF DestroyStop
  <1>5. CASE DestroyJoin
    BY <1>5 DEF DestroyJoin
  <1>6. CASE DestroyClear
    BY <1>6 DEF DestroyClear
  <1>7. CASE LayerBegin
    BY <1>7 DEF LayerBegin
  <1>8. CASE WaitForWaitThread
    BY <1>8 DEF WaitForWaitThread, FillProgress
  <1>9. CASE Unblock
    BY <1>9 DEF Unblock, FillProgress
  <1>10. CASE AddLayer
    BY <1>10 DEF AddLayer
  <1>11. CASE LayerCommit
    <2>1. progress.frame_id \in Frames /\ gpu[progress.frame_id] = "none"
      BY <1>11 DEF LayerCommit
    <2>2. /\ scheduled.active => scheduled.frame_id # progress.frame_id
          /\ delivered.active => delivered.frame_id # progress.frame_id
          /\ waiterPc \in {"asleep", "exited"}
      BY <1>11, <2>1 DEF LayerCommit
    <2>3. \/ /\ gpu' = [gpu EXCEPT ![progress.frame_id] = "pending"]
             /\ appPc' = "push"
          \/ /\ gpu' = [gpu EXCEPT ![progress.frame_id] = "unfenced"]
             /\ appPc' = "gpu_done"
      BY <1>11 DEF LayerCommit
    <2>4. UNCHANGED <<waiterPc, job, slotVars>>
      BY <1>11 DEF LayerCommit
    <2>5. gpu \in [Frames -> {"none", "pending", "signalled", "unfenced"}]
      OBVIOUS
    <2>6. /\ scheduled.active => scheduled.frame_id \in Frames
          /\ delivered.active => delivered.frame_id \in Frames
      OBVIOUS
    <2> HIDE DEF IInv, Wakeups, ProgressUse, FrameOrder
    <2>7. QED
      BY <2>1, <2>2, <2>3, <2>4, <2>5, <2>6
  <1>12. CASE Push
    BY <1>12 DEF Push
  <1>13. CASE AppMarkGpuDone
    BY <1>13 DEF AppMarkGpuDone
  <1>14. CASE AppScheduledFree
    BY <1>14 DEF AppScheduledFree
  <1>15. CASE AppTakeListLock
    BY <1>15 DEF AppTakeListLock
  <1>16. CASE AppTakeSlotLock
    BY <1>16 DEF AppTakeSlotLock
  <1>17. CASE AppMove
    BY <1>17 DEF AppMove, MoveProgressToScheduled
  <1>18. CASE WaiterStart
    BY <1>18, StartOutcome
  <1>19. CASE WaiterWake
    BY <1>19, WakeOutcome
  <1>20. CASE WaiterFenceDone
    BY <1>20 DEF WaiterFenceDone
  <1>21. CASE WaiterMarkGpuDone
    BY <1>21 DEF WaiterMarkGpuDone
  <1>22. CASE WaiterScheduledFree
    BY <1>22 DEF WaiterScheduledFree
  <1>23. CASE WaiterTakeListLock
    BY <1>23 DEF WaiterTakeListLock
  <1>24. CASE WaiterTakeSlotLock
    BY <1>24 DEF WaiterTakeSlotLock
  <1>25. CASE WaiterMove
    BY <1>25 DEF WaiterMove, MoveProgressToScheduled
  <1>26. CASE WaiterFinish
    BY <1>26, FinishOutcome
  <1>27. CASE RenderDeliver
    BY <1>27 DEF RenderDeliver, MoveScheduledToDelivered
  <1>28. CASE RenderLatch
    BY <1>28 DEF RenderLatch
  <1>29. CASE \E f \in Frames : GpuDone(f)
    BY <1>29 DEF GpuDone
  <1>30. CASE UNCHANGED <<appPc, waiterPc, job, progress, scheduled, delivered,
      gpu>>
    BY <1>30
  <1>31. QED
    BY <1>1, <1>2, <1>3, <1>4, <1>5, <1>6, <1>7, <1>8, <1>9, <1>10, <1>11,
      <1>12, <1>13, <1>14, <1>15, <1>16, <1>17, <1>18, <1>19, <1>20, <1>21,
      <1>22, <1>23, <1>24, <1>25, <1>26, <1>27, <1>28, <1>29, <1>30 DEF Next,
      App, Waiter, Render, World, vars, stateVars, lockVars, renderVars,
      histVars, BeginSession, EndSession, PredictFrame, MarkWoke, BeginFrame,
      DiscardBegun, DiscardWaited, RenderPredict, RenderWoke,
      RenderTakeListLock, RenderTakeSlotLock, RenderCopy, SetVisible, Tick,
      SpuriousWakeup

\* The frame in the wait thread's hands was committed; the app thread's is begun.
LEMMA WorkCommitted ==
  ASSUME IInv, ProgressUse, GpuState
  PROVE  /\ wt.pushed => wt.frame_id \in Frames /\ gpu[wt.frame_id] # "none"
         /\ WaiterWorks => job \in Frames /\ gpu[job] # "none"
         /\ AppOwnsProgress => begunFrame \in Frames
  BY DEF IInv, ProgressUse, GpuState, ActiveHasFrame, ProgressHasOneOwner, AppOwnsProgress,
    PushedOrWaiting, Handshake, WaiterWorks, WaiterBusy, SubmitsFrame

\* No call on one frame changes what the pacer knows of another.
LEMMA PacerStateStep ==
  PacerState /\ PacerCallsLegal /\ GpuState /\ ProgressUse /\ FrameOrder /\ IInv /\ [Next]_vars => PacerState'
  <1> SUFFICES ASSUME PacerState /\ PacerCallsLegal /\ GpuState /\ ProgressUse
      /\ FrameOrder /\ IInv, [Next]_vars PROVE PacerState'
    OBVIOUS
  <1> USE BoundsAssumption DEF PacerState, PacerCallsLegal, ProgressUse,
      IInv, TypeOK, AppTypes, WaitTypes, WaitThread, Handshake, WaiterBusy,
      WaiterWorks, PushedOrWaiting, AppOwnsProgress, ProgressHasOneOwner,
      ActiveHasFrame, SubmitsFrame, Frames, NoFrame, appVars, waitVars
  <1>1. CASE Create
    BY <1>1 DEF Create
  <1>2. CASE CreateWaitAlive
    BY <1>2 DEF CreateWaitAlive
  <1>3. CASE Destroy
    BY <1>3 DEF Destroy
  <1>4. CASE DestroyStop
    BY <1>4 DEF DestroyStop
  <1>5. CASE DestroyJoin
    BY <1>5 DEF DestroyJoin
  <1>6. CASE DestroyClear
    BY <1>6 DEF DestroyClear
  <1>7. CASE PredictFrame
    <2>1. frameCounter + 1 \in Frames
      BY <1>7 DEF PredictFrame
    <2>2. waitedFrame' # NoFrame
      BY <1>7 DEF PredictFrame
    <2>3. wt.pushed => wt.frame_id # frameCounter + 1
      BY <2>1, WorkCommitted DEF FrameOrder
    <2>4. WaiterWorks => job # frameCounter + 1
      BY <2>1, WorkCommitted DEF FrameOrder
    <2>5. AppOwnsProgress \/ appPc \in {"layer_begin", "blocked"} => begunFrame # frameCounter + 1
      BY <2>1, WorkCommitted DEF FrameOrder
    <2>6. QED
      BY <1>7, <2>1, <2>2, <2>3, <2>4, <2>5 DEF PredictFrame, InCalls
  <1>8. CASE MarkWoke
    BY <1>8 DEF MarkWoke
  <1>9. CASE BeginFrame
    BY <1>9 DEF BeginFrame
  <1>10. CASE DiscardBegun
    BY <1>10 DEF DiscardBegun
  <1>11. CASE DiscardWaited
    BY <1>11 DEF DiscardWaited
  <1>12. CASE LayerBegin
    BY <1>12 DEF LayerBegin
  <1>13. CASE WaitForWaitThread
    BY <1>13 DEF WaitForWaitThread, FillProgress
  <1>14. CASE Unblock
    BY <1>14 DEF Unblock, FillProgress
  <1>15. CASE LayerCommit
    BY <1>15 DEF LayerCommit
  <1>16. CASE Push
    BY <1>16 DEF Push
  <1>17. CASE AppMarkGpuDone
    BY <1>17 DEF AppMarkGpuDone
  <1>18. CASE AppScheduledFree
    BY <1>18 DEF AppScheduledFree
  <1>19. CASE AppTakeListLock
    BY <1>19 DEF AppTakeListLock
  <1>20. CASE AppTakeSlotLock
    BY <1>20 DEF AppTakeSlotLock
  <1>21. CASE AppMove
    BY <1>21 DEF AppMove, MoveProgressToScheduled
  <1>22. CASE WaiterStart
    BY <1>22, StartOutcome
  <1>23. CASE WaiterWake
    BY <1>23, WakeOutcome
  <1>24. CASE WaiterFenceDone
    BY <1>24 DEF WaiterFenceDone
  <1>25. CASE WaiterMarkGpuDone
    <2>1. job \in Frames /\ gpu[job] # "none" /\ ~AppOwnsProgress
      BY <1>25, WorkCommitted DEF WaiterMarkGpuDone
    <2>2. appPc \in {"layer_begin", "blocked"} => begunFrame \in Frames /\ begunFrame # job
      BY <2>1 DEF FrameOrder, AfterCommit
    <2>3. QED
      BY <1>25, <2>1, <2>2 DEF WaiterMarkGpuDone
  <1>26. CASE WaiterScheduledFree
    BY <1>26 DEF WaiterScheduledFree
  <1>27. CASE WaiterTakeListLock
    BY <1>27 DEF WaiterTakeListLock
  <1>28. CASE WaiterTakeSlotLock
    BY <1>28 DEF WaiterTakeSlotLock
  <1>29. CASE WaiterMove
    BY <1>29 DEF WaiterMove, MoveProgressToScheduled
  <1>30. CASE WaiterFinish
    BY <1>30, FinishOutcome
  <1>31. CASE UNCHANGED <<appPc, waitedFrame, begunFrame, pacer, wt, waiterPc,
      job>>
    BY <1>31
  <1>32. QED
    BY <1>1, <1>2, <1>3, <1>4, <1>5, <1>6, <1>7, <1>8, <1>9, <1>10, <1>11,
      <1>12, <1>13, <1>14, <1>15, <1>16, <1>17, <1>18, <1>19, <1>20, <1>21,
      <1>22, <1>23, <1>24, <1>25, <1>26, <1>27, <1>28, <1>29, <1>30, <1>31 DEF
      Next, App, Waiter, Render, World, vars, stateVars, slotVars, lockVars,
      renderVars, histVars, BeginSession, EndSession, AddLayer, RenderPredict,
      RenderWoke, RenderTakeListLock, RenderTakeSlotLock, RenderDeliver,
      RenderLatch, RenderCopy, SetVisible, Tick, SpuriousWakeup, GpuDone

\* So the next call finds the frame in the state its assert wants.
LEMMA PacerCallsLegalStep ==
  PacerState /\ PacerCallsLegal /\ GpuState /\ ProgressUse /\ FrameOrder /\ IInv /\ [Next]_vars => PacerCallsLegal'
  <1> SUFFICES ASSUME PacerState /\ PacerCallsLegal /\ GpuState /\ ProgressUse
      /\ FrameOrder /\ IInv, [Next]_vars PROVE PacerCallsLegal'
    OBVIOUS
  <1> USE BoundsAssumption DEF PacerState, PacerCallsLegal, ProgressUse,
      IInv, TypeOK, AppTypes, WaitTypes, WaitThread, Handshake, WaiterBusy,
      WaiterWorks, PushedOrWaiting, AppOwnsProgress, ProgressHasOneOwner,
      ActiveHasFrame, SubmitsFrame, Frames, NoFrame, appVars, waitVars, slotVars
  <1>1. CASE Create
    BY <1>1 DEF Create
  <1>2. CASE CreateWaitAlive
    BY <1>2 DEF CreateWaitAlive
  <1>3. CASE Destroy
    BY <1>3 DEF Destroy
  <1>4. CASE DestroyStop
    BY <1>4 DEF DestroyStop
  <1>5. CASE DestroyJoin
    BY <1>5 DEF DestroyJoin
  <1>6. CASE DestroyClear
    BY <1>6 DEF DestroyClear
  <1>7. CASE PredictFrame
    <2>1. frameCounter + 1 \in Frames /\ frameCounter \in Nat
      BY <1>7 DEF PredictFrame
    <2>2. begunFrame # NoFrame => begunFrame # frameCounter + 1
      BY <2>1 DEF FrameOrder
    <2>3. waiterPc = "gpu_done" => job # frameCounter + 1
      BY <2>1, WorkCommitted DEF FrameOrder
    <2>4. appPc = "gpu_done" => progress.frame_id # frameCounter + 1
      BY <2>1, <2>2, WorkCommitted
    <2>5. QED
      BY <1>7, <2>1, <2>2, <2>3, <2>4 DEF PredictFrame
  <1>8. CASE MarkWoke
    BY <1>8 DEF MarkWoke
  <1>9. CASE BeginFrame
    BY <1>9 DEF BeginFrame
  <1>10. CASE DiscardBegun
    BY <1>10 DEF DiscardBegun
  <1>11. CASE DiscardWaited
    BY <1>11 DEF DiscardWaited
  <1>12. CASE LayerBegin
    BY <1>12 DEF LayerBegin
  <1>13. CASE WaitForWaitThread
    BY <1>13 DEF WaitForWaitThread, FillProgress
  <1>14. CASE Unblock
    BY <1>14 DEF Unblock, FillProgress
  <1>15. CASE AddLayer
    BY <1>15 DEF AddLayer
  <1>16. CASE LayerCommit
    BY <1>16 DEF LayerCommit
  <1>17. CASE Push
    BY <1>17 DEF Push
  <1>18. CASE AppMarkGpuDone
    BY <1>18 DEF AppMarkGpuDone
  <1>19. CASE AppScheduledFree
    BY <1>19 DEF AppScheduledFree
  <1>20. CASE AppTakeListLock
    BY <1>20 DEF AppTakeListLock
  <1>21. CASE AppTakeSlotLock
    BY <1>21 DEF AppTakeSlotLock
  <1>22. CASE AppMove
    BY <1>22 DEF AppMove, MoveProgressToScheduled
  <1>23. CASE WaiterStart
    BY <1>23, StartOutcome
  <1>24. CASE WaiterWake
    BY <1>24, WakeOutcome
  <1>25. CASE WaiterFenceDone
    BY <1>25 DEF WaiterFenceDone
  <1>26. CASE WaiterMarkGpuDone
    BY <1>26 DEF WaiterMarkGpuDone
  <1>27. CASE WaiterScheduledFree
    BY <1>27 DEF WaiterScheduledFree
  <1>28. CASE WaiterTakeListLock
    BY <1>28 DEF WaiterTakeListLock
  <1>29. CASE WaiterTakeSlotLock
    BY <1>29 DEF WaiterTakeSlotLock
  <1>30. CASE WaiterMove
    BY <1>30 DEF WaiterMove, MoveProgressToScheduled
  <1>31. CASE WaiterFinish
    BY <1>31, FinishOutcome
  <1>32. CASE UNCHANGED <<appPc, waitedFrame, begunFrame, pacer, waiterPc, job,
      progress>>
    BY <1>32
  <1>33. QED
    BY <1>1, <1>2, <1>3, <1>4, <1>5, <1>6, <1>7, <1>8, <1>9, <1>10, <1>11,
      <1>12, <1>13, <1>14, <1>15, <1>16, <1>17, <1>18, <1>19, <1>20, <1>21,
      <1>22, <1>23, <1>24, <1>25, <1>26, <1>27, <1>28, <1>29, <1>30, <1>31,
      <1>32 DEF Next, App, Waiter, Render, World, vars, stateVars, lockVars,
      renderVars, histVars, BeginSession, EndSession, RenderPredict, RenderWoke,
      RenderTakeListLock, RenderTakeSlotLock, RenderDeliver, RenderLatch,
      RenderCopy, SetVisible, Tick, SpuriousWakeup, GpuDone

\* Retiring a slot adds one to the count of the frame in it, and to no other.
LEMMA RetireCounts ==
  ASSUME SlotTypes, NEW s \in Slot, s.active => s.frame_id \in Frames, NEW f \in Frames
  PROVE  Retire(s)[f] = retired[f] + One(Holds(s, f))
  BY DEF Retire, One, Holds, SlotTypes

\* Moving a frame on, and retiring the one it replaces, conserves both.
LEMMA MoveConserves ==
  ASSUME MoveProgressToScheduled, FramesConserved, SlotTypes, ActiveHasFrame, gpu' = gpu,
         progress.active => gpu[progress.frame_id] # "none"
  PROVE  FramesConserved'
  <1> SUFFICES ASSUME NEW f \in Frames
               PROVE  (retired[f] + One(Holds(progress, f)) + One(Holds(scheduled, f))
                         + One(Holds(delivered, f)) =
                       One(gpu[f] # "none" \/ Holds(progress, f)))'
    BY DEF FramesConserved
  <1>1. retired'[f] = retired[f] + One(Holds(scheduled, f))
    BY RetireCounts DEF MoveProgressToScheduled, SlotTypes, ActiveHasFrame
  <1>2. ~Holds(progress, f)' /\ (Holds(scheduled, f)' <=> Holds(progress, f))
        /\ (Holds(delivered, f)' <=> Holds(delivered, f))
    BY DEF MoveProgressToScheduled, Holds, ClearedSlot
  <1>3. Holds(progress, f) => gpu[f] # "none"
    BY DEF Holds
  <1>4. retired[f] \in Nat
    BY DEF SlotTypes
  <1>5. QED
    BY <1>1, <1>2, <1>3, <1>4 DEF FramesConserved, One

\* layer_begin finds the progress slot empty.
LEMMA EmptyWhenFilled ==
  ASSUME IInv, ProgressUse
  PROVE  ProgressEmptyWhenFilled
  BY DEF IInv, ProgressUse, ProgressEmptyWhenFilled, Handshake, WaiterWorks, PushedOrWaiting,
    AppOwnsProgress, TypeOK, SlotTypes, Slot

\* A frame that enters the progress slot was nowhere before.
LEMMA FillConserves ==
  ASSUME FramesConserved, FrameOrder, SlotTypes, begunFrame \in Frames,
         ~progress.active, appPc \in {"layer_begin", "blocked"},
         progress'.active /\ progress'.frame_id = begunFrame,
         UNCHANGED <<scheduled, delivered, gpu, retired>>
  PROVE  FramesConserved'
  <1> SUFFICES ASSUME NEW f \in Frames
               PROVE  (retired[f] + One(Holds(progress, f)) + One(Holds(scheduled, f))
                         + One(Holds(delivered, f)) =
                       One(gpu[f] # "none" \/ Holds(progress, f)))'
    BY DEF FramesConserved
  <1>1. gpu[begunFrame] = "none"
    BY DEF FrameOrder, AfterCommit, Frames, NoFrame
  <1>2. ~Holds(progress, f) /\ (Holds(progress, f)' <=> f = begunFrame)
    BY DEF Holds
  <1>3. (Holds(scheduled, f)' <=> Holds(scheduled, f)) /\ (Holds(delivered, f)' <=> Holds(delivered, f))
    BY DEF Holds
  <1>4. retired[f] \in Nat
    BY DEF SlotTypes
  <1>5. QED
    BY <1>1, <1>2, <1>3, <1>4 DEF FramesConserved, One

\* Every step keeps a frame where it is, moves it on, or retires it.
LEMMA FramesConservedStep ==
  FramesConserved /\ IInv /\ ProgressUse /\ FrameOrder /\ GpuState /\ [Next]_vars => FramesConserved'
  <1> SUFFICES ASSUME FramesConserved /\ IInv /\ ProgressUse /\ FrameOrder /\
      GpuState, [Next]_vars PROVE FramesConserved'
    OBVIOUS
  <1> USE DEF IInv, TypeOK, slotVars, histVars
  <1>1. CASE DestroyClear
    <2> SUFFICES ASSUME NEW f \in Frames
                 PROVE  (retired[f] + One(Holds(progress, f)) + One(Holds(scheduled, f))
                           + One(Holds(delivered, f)) =
                         One(gpu[f] # "none" \/ Holds(progress, f)))'
      BY DEF FramesConserved
    <2>1. Holds(progress, f) => gpu[f] # "none"
      BY <1>1 DEF DestroyClear, GpuState, Holds
    <2>2. ~Holds(progress, f)' /\ ~Holds(scheduled, f)' /\ ~Holds(delivered, f)'
      BY <1>1 DEF DestroyClear, Holds, ClearedSlot
    <2>3. /\ retired'[f] = retired[f] + One(Holds(progress, f))
                             + One(Holds(scheduled, f)) + One(Holds(delivered, f))
          /\ gpu' = gpu
      BY <1>1 DEF DestroyClear
    <2>4. QED
      BY <2>1, <2>2, <2>3 DEF FramesConserved, One, SlotTypes
  <1>2. CASE WaitForWaitThread
    <2>1. CASE PushedOrWaiting
      BY <1>2, <2>1 DEF WaitForWaitThread, FramesConserved
    <2>2. CASE ~PushedOrWaiting
      <3>1. appPc \in {"layer_begin", "blocked"} /\ begunFrame \in Frames
        BY <1>2 DEF WaitForWaitThread, SubmitsFrame
      <3>2. ~progress.active
        BY <1>2, <2>2, EmptyWhenFilled DEF ProgressEmptyWhenFilled, WaitForWaitThread
      <3>3. /\ progress'.active /\ progress'.frame_id = begunFrame
            /\ UNCHANGED <<scheduled, delivered, gpu, retired>>
        BY <1>2, <2>2, FillOutcome
      <3>4. QED
        BY <3>1, <3>2, <3>3, FillConserves
    <2>3. QED
      BY <2>1, <2>2
  <1>3. CASE Unblock
    <2>1. CASE wt.blocked
      BY <1>3, <2>1 DEF Unblock, FramesConserved
    <2>2. CASE ~wt.blocked
      <3>1. appPc \in {"layer_begin", "blocked"} /\ begunFrame \in Frames
        BY <1>3 DEF Unblock, SubmitsFrame
      <3>2. ~progress.active
        BY <1>3, <2>2, EmptyWhenFilled DEF ProgressEmptyWhenFilled, Unblock
      <3>3. /\ progress'.active /\ progress'.frame_id = begunFrame
            /\ UNCHANGED <<scheduled, delivered, gpu, retired>>
        BY <1>3, <2>2, FillOutcome
      <3>4. QED
        BY <3>1, <3>2, <3>3, FillConserves
    <2>3. QED
      BY <2>1, <2>2
  <1>4. CASE AddLayer
    <2> SUFFICES ASSUME NEW f \in Frames
                 PROVE  (retired[f] + One(Holds(progress, f)) + One(Holds(scheduled, f))
                           + One(Holds(delivered, f)) =
                         One(gpu[f] # "none" \/ Holds(progress, f)))'
      BY DEF FramesConserved
    <2>1. Holds(progress, f)' <=> Holds(progress, f)
      BY <1>4 DEF AddLayer, Holds, SlotTypes, Slot
    <2>2. UNCHANGED <<scheduled, delivered, gpu, retired>>
      BY <1>4 DEF AddLayer
    <2>3. QED
      BY <2>1, <2>2 DEF FramesConserved, Holds
  <1>5. CASE LayerCommit
    <2> SUFFICES ASSUME NEW f \in Frames
                 PROVE  (retired[f] + One(Holds(progress, f)) + One(Holds(scheduled, f))
                           + One(Holds(delivered, f)) =
                         One(gpu[f] # "none" \/ Holds(progress, f)))'
      BY DEF FramesConserved
    <2>1. progress.active
      BY <1>5 DEF LayerCommit, SubmitsFrame, AppOwnsProgress
    <2>2. (gpu[f] # "none")' <=> gpu[f] # "none" \/ Holds(progress, f)
      BY <1>5, <2>1 DEF LayerCommit, Holds, SlotTypes
    <2>3. UNCHANGED <<progress, scheduled, delivered, retired>>
      BY <1>5 DEF LayerCommit
    <2>4. QED
      BY <2>2, <2>3 DEF FramesConserved, Holds, One
  <1>6. CASE AppMove
    <2>1. progress.active => gpu[progress.frame_id] # "none"
      BY <1>6 DEF AppMove, GpuState
    <2>2. QED
      BY <1>6, <2>1, MoveConserves DEF AppMove
  <1>7. CASE WaiterMove
    <2>1. progress.active => gpu[progress.frame_id] # "none"
      BY <1>7 DEF WaiterMove, GpuState, ProgressHasOneOwner, AppOwnsProgress
    <2>2. QED
      BY <1>7, <2>1, MoveConserves DEF WaiterMove
  <1>8. CASE RenderDeliver
    <2> SUFFICES ASSUME NEW f \in Frames
                 PROVE  (retired[f] + One(Holds(progress, f)) + One(Holds(scheduled, f))
                           + One(Holds(delivered, f)) =
                         One(gpu[f] # "none" \/ Holds(progress, f)))'
      BY DEF FramesConserved
    <2>1. CASE ~(scheduled.active /\ scheduled.display_time <= renderDisplay)
      BY <1>8, <2>1 DEF RenderDeliver, FramesConserved, Holds
    <2>2. CASE scheduled.active /\ scheduled.display_time <= renderDisplay
      <3>1. MoveScheduledToDelivered /\ UNCHANGED <<progress, gpu>>
        BY <1>8, <2>2 DEF RenderDeliver
      <3>2. retired'[f] = retired[f] + One(Holds(delivered, f))
        BY <3>1, RetireCounts DEF MoveScheduledToDelivered, SlotTypes, ActiveHasFrame
      <3>3. /\ ~Holds(scheduled, f)' /\ (Holds(delivered, f)' <=> Holds(scheduled, f))
            /\ (Holds(progress, f)' <=> Holds(progress, f))
        BY <3>1 DEF MoveScheduledToDelivered, Holds, ClearedSlot
      <3>4. QED
        BY <3>1, <3>2, <3>3 DEF FramesConserved, One, SlotTypes
    <2>3. QED
      BY <2>1, <2>2
  <1>9. CASE RenderLatch
    <2> SUFFICES ASSUME NEW f \in Frames
                 PROVE  (retired[f] + One(Holds(progress, f)) + One(Holds(scheduled, f))
                           + One(Holds(delivered, f)) =
                         One(gpu[f] # "none" \/ Holds(progress, f)))'
      BY DEF FramesConserved
    <2>1. CASE UNCHANGED <<retired, delivered>>
      BY <1>9, <2>1 DEF RenderLatch, FramesConserved, Holds
    <2>2. CASE retired' = Retire(delivered) /\ delivered' = ClearedSlot
      <3>1. retired'[f] = retired[f] + One(Holds(delivered, f))
        BY <2>2, RetireCounts DEF SlotTypes, ActiveHasFrame
      <3>2. ~Holds(delivered, f)' /\ UNCHANGED <<progress, scheduled, gpu>>
        BY <1>9, <2>2 DEF RenderLatch, Holds, ClearedSlot
      <3>3. QED
        BY <3>1, <3>2 DEF FramesConserved, One, Holds, SlotTypes
    <2>3. QED
      BY <1>9, <2>1, <2>2 DEF RenderLatch
  <1>10. CASE \E f \in Frames : GpuDone(f)
    <2> SUFFICES ASSUME NEW f \in Frames
                 PROVE  (retired[f] + One(Holds(progress, f)) + One(Holds(scheduled, f))
                           + One(Holds(delivered, f)) =
                         One(gpu[f] # "none" \/ Holds(progress, f)))'
      BY DEF FramesConserved
    <2>1. (gpu[f] # "none")' <=> gpu[f] # "none"
      BY <1>10 DEF GpuDone, SlotTypes
    <2>2. UNCHANGED <<progress, scheduled, delivered, retired>>
      BY <1>10 DEF GpuDone
    <2>3. QED
      BY <2>1, <2>2 DEF FramesConserved, Holds, One
  <1>11. CASE UNCHANGED <<progress, scheduled, delivered, gpu, retired>>
    BY <1>11 DEF FramesConserved, Holds
  <1>12. QED
    BY <1>1, <1>2, <1>3, <1>4, <1>5, <1>6, <1>7, <1>8, <1>9, <1>10, <1>11 DEF
      Next, App, Waiter, Render, World, vars, appVars, stateVars, waitVars,
      lockVars, renderVars, Create, CreateWaitAlive, Destroy, DestroyStop,
      DestroyJoin, BeginSession, EndSession, PredictFrame, MarkWoke, BeginFrame,
      DiscardBegun, DiscardWaited, LayerBegin, Push, AppMarkGpuDone,
      AppScheduledFree, AppTakeListLock, AppTakeSlotLock, WaiterStart,
      WaiterWake, WaiterFenceDone, WaiterMarkGpuDone, WaiterScheduledFree,
      WaiterTakeListLock, WaiterTakeSlotLock, WaiterFinish, RenderPredict,
      RenderWoke, RenderTakeListLock, RenderTakeSlotLock, RenderCopy,
      SetVisible, Tick, SpuriousWakeup

\* The begun frame is newer than what is in the slots, and slots move on in order.
LEMMA SlotsInOrderStep ==
  SlotsInOrder /\ IInv /\ FrameOrder /\ GpuState /\ ProgressUse /\ [Next]_vars => SlotsInOrder'
  <1> SUFFICES ASSUME SlotsInOrder /\ IInv /\ FrameOrder /\ GpuState /\
      ProgressUse, [Next]_vars PROVE SlotsInOrder'
    OBVIOUS
  <1> USE DEF SlotsInOrder, FrameOrder, AfterCommit, GpuState, GpuComplete,
      ActiveHasFrame, IInv, TypeOK, SlotTypes, Slot, ClearedSlot, Frames,
      NoFrame, SubmitsFrame, slotVars
  <1>1. CASE DestroyClear
    BY <1>1 DEF DestroyClear
  <1>2. CASE WaitForWaitThread
    BY <1>2 DEF WaitForWaitThread, FillProgress
  <1>3. CASE Unblock
    BY <1>3 DEF Unblock, FillProgress
  <1>4. CASE AddLayer
    BY <1>4 DEF AddLayer
  <1>5. CASE AppMove
    BY <1>5 DEF AppMove, MoveProgressToScheduled
  <1>6. CASE WaiterMove
    BY <1>6 DEF WaiterMove, MoveProgressToScheduled
  <1>7. CASE RenderDeliver
    BY <1>7 DEF RenderDeliver, MoveScheduledToDelivered
  <1>8. CASE RenderLatch
    BY <1>8 DEF RenderLatch
  <1>9. CASE UNCHANGED <<progress, scheduled, delivered>>
    BY <1>9
  <1>10. QED
    BY <1>1, <1>2, <1>3, <1>4, <1>5, <1>6, <1>7, <1>8, <1>9 DEF Next, App,
      Waiter, Render, World, vars, appVars, stateVars, waitVars, lockVars,
      renderVars, histVars, Create, CreateWaitAlive, Destroy, DestroyStop,
      DestroyJoin, BeginSession, EndSession, PredictFrame, MarkWoke, BeginFrame,
      DiscardBegun, DiscardWaited, LayerBegin, LayerCommit, Push,
      AppMarkGpuDone, AppScheduledFree, AppTakeListLock, AppTakeSlotLock,
      WaiterStart, WaiterWake, WaiterFenceDone, WaiterMarkGpuDone,
      WaiterScheduledFree, WaiterTakeListLock, WaiterTakeSlotLock, WaiterFinish,
      RenderPredict, RenderWoke, RenderTakeListLock, RenderTakeSlotLock,
      RenderCopy, SetVisible, Tick, SpuriousWakeup, GpuDone

\* Nobody fills a slot once destroy has cleared them.
LEMMA SlotsGoneStep ==
  SlotsGone /\ IInv /\ Locks /\ Listing /\ Wakeups /\ [Next]_vars => SlotsGone'
  <1> SUFFICES ASSUME SlotsGone /\ IInv /\ Locks /\ Listing /\ Wakeups,
      [Next]_vars PROVE SlotsGone'
    OBVIOUS
  <1> USE DEF SlotsGone, Locks, Listing, Wakeups, ClearedSlot, appVars, slotVars
  <1>1. CASE Create
    BY <1>1 DEF Create
  <1>2. CASE CreateWaitAlive
    BY <1>2 DEF CreateWaitAlive
  <1>3. CASE Destroy
    BY <1>3 DEF Destroy
  <1>4. CASE DestroyStop
    BY <1>4 DEF DestroyStop
  <1>5. CASE DestroyJoin
    BY <1>5 DEF DestroyJoin
  <1>6. CASE DestroyClear
    BY <1>6 DEF DestroyClear
  <1>7. CASE LayerBegin
    BY <1>7 DEF LayerBegin
  <1>8. CASE WaitForWaitThread
    BY <1>8 DEF WaitForWaitThread, FillProgress
  <1>9. CASE Unblock
    BY <1>9 DEF Unblock, FillProgress
  <1>10. CASE AddLayer
    BY <1>10 DEF AddLayer
  <1>11. CASE LayerCommit
    BY <1>11 DEF LayerCommit
  <1>12. CASE Push
    BY <1>12 DEF Push
  <1>13. CASE AppMarkGpuDone
    BY <1>13 DEF AppMarkGpuDone
  <1>14. CASE AppScheduledFree
    BY <1>14 DEF AppScheduledFree
  <1>15. CASE AppTakeListLock
    BY <1>15 DEF AppTakeListLock
  <1>16. CASE AppTakeSlotLock
    BY <1>16 DEF AppTakeSlotLock
  <1>17. CASE AppMove
    BY <1>17 DEF AppMove, MoveProgressToScheduled
  <1>18. CASE WaiterMove
    BY <1>18 DEF WaiterMove, MoveProgressToScheduled
  <1>19. CASE RenderDeliver
    BY <1>19 DEF RenderDeliver, MoveScheduledToDelivered
  <1>20. CASE RenderLatch
    BY <1>20 DEF RenderLatch
  <1>21. CASE UNCHANGED <<appPc, progress, scheduled, delivered>>
    BY <1>21
  <1>22. QED
    BY <1>1, <1>2, <1>3, <1>4, <1>5, <1>6, <1>7, <1>8, <1>9, <1>10, <1>11,
      <1>12, <1>13, <1>14, <1>15, <1>16, <1>17, <1>18, <1>19, <1>20, <1>21 DEF
      Next, App, Waiter, Render, World, vars, stateVars, waitVars, lockVars,
      renderVars, histVars, BeginSession, EndSession, PredictFrame, MarkWoke,
      BeginFrame, DiscardBegun, DiscardWaited, WaiterStart, WaiterWake,
      WaiterFenceDone, WaiterMarkGpuDone, WaiterScheduledFree,
      WaiterTakeListLock, WaiterTakeSlotLock, WaiterFinish, RenderPredict,
      RenderWoke, RenderTakeListLock, RenderTakeSlotLock, RenderCopy,
      SetVisible, Tick, SpuriousWakeup, GpuDone

\* Initially there is no frame, no sleeper and no lock held.
LEMMA InitFInv == Init => FInv
  <1> SUFFICES ASSUME Init PROVE FInv
    OBVIOUS
  <1>1. IInv
    BY InitIInv
  <1>2. Locks /\ Listing /\ Wakeups /\ NoLostWakeup
    BY DEF Init, Locks, Listing, Wakeups, NoLostWakeup
  <1>3. ProgressUse /\ GpuState /\ SlotsInOrder /\ SlotsGone
    BY DEF Init, ProgressUse, GpuState, SlotsInOrder, SlotsGone, AppOwnsProgress, ZeroSlot,
      WaiterWorks, WaiterBusy
  <1>4. FrameOrder /\ PacerState /\ PacerCallsLegal
    BY DEF Init, FrameOrder, PacerState, PacerCallsLegal
  <1>5. FramesConserved
    BY DEF Init, FramesConserved, Holds, One, ZeroSlot
  <1>6. QED
    BY <1>1, <1>2, <1>3, <1>4, <1>5 DEF FInv

\* Every step keeps every part of the invariant.
LEMMA NextFInv == FInv /\ [Next]_vars => FInv'
  <1> SUFFICES ASSUME FInv, [Next]_vars PROVE FInv'
    OBVIOUS
  <1>1. IInv' /\ Locks' /\ Listing' /\ Wakeups' /\ NoLostWakeup'
    BY NextIInv, LocksStep, ListingStep, WakeupsStep, NoLostWakeupStep DEF FInv
  <1>2. ProgressUse' /\ FrameOrder' /\ GpuState'
    BY ProgressUseStep, FrameOrderStep, GpuStateStep DEF FInv
  <1>3. FramesConserved' /\ SlotsInOrder' /\ SlotsGone'
    BY FramesConservedStep, SlotsInOrderStep, SlotsGoneStep DEF FInv
  <1>4. PacerState' /\ PacerCallsLegal'
    BY PacerStateStep, PacerCallsLegalStep DEF FInv
  <1>5. QED
    BY <1>1, <1>2, <1>3, <1>4 DEF FInv

\* The parts hold in every reachable state.
LEMMA AlwaysFInv == Spec => []FInv
  BY InitFInv, NextFInv, PTL DEF Spec

\* No frame is lost or duplicated: a frame whose layer_begin filled the progress
\* slot is in one slot or was retired once (slot_clear_locked, destroy).
THEOREM FrameConservation == Spec => []FramesConserved
  <1>1. FInv => FramesConserved
    BY DEF FInv
  <1>2. QED
    BY <1>1, AlwaysFInv, PTL

\* No frame overtakes another on its way through the three slots.
THEOREM PipelineOrder == Spec => []SlotsInOrder
  <1>1. FInv => SlotsInOrder
    BY DEF FInv
  <1>2. QED
    BY <1>1, AlwaysFInv, PTL

\* One condition variable with one signal at a time wakes whoever must wake.
THEOREM NoWakeupLost == Spec => []NoLostWakeup
  <1>1. FInv => NoLostWakeup
    BY DEF FInv
  <1>2. QED
    BY <1>1, AlwaysFInv, PTL

\* The asserts of the app pacer on the state of a marked frame never fire.
THEOREM PacerContract == Spec => []PacerCallsLegal
  <1>1. FInv => PacerCallsLegal
    BY DEF FInv
  <1>2. QED
    BY <1>1, AlwaysFInv, PTL

\* layer_begin's assert that the progress slot has no layers never fires, and
\* the slot it zeroes holds no frame.
THEOREM ProgressEmpty == Spec => []ProgressEmptyWhenFilled
  <1>1. FInv => ProgressEmptyWhenFilled
    BY EmptyWhenFilled DEF FInv
  <1>2. QED
    BY <1>1, AlwaysFInv, PTL

\* The render thread never works on a client that destroy has taken off the list.
THEOREM RenderUsesLiveClient == Spec => []RenderUsesListedClient
  <1>1. FInv => RenderUsesListedClient
    BY DEF FInv, Locks, Listing, RenderUsesListedClient
  <1>2. QED
    BY <1>1, AlwaysFInv, PTL

\* When destroy has joined the wait thread there is no work left behind, and
\* when it is over every committed frame was retired, once.
THEOREM DestroyLeavesNothing == Spec => []NothingLeftAfterJoin
  <1>1. FInv => NothingLeftAfterJoin
    <2> SUFFICES ASSUME FInv PROVE NothingLeftAfterJoin
      OBVIOUS
    <2>1. appPc \in {"clear", "gone"} => ~wt.pushed /\ ~wt.waiting /\ ~wt.blocked
      BY DEF FInv, IInv, Handshake, WaiterBusy, Wakeups, TypeOK, WaitTypes, WaitThread
    <2>2. ASSUME appPc = "gone", NEW f \in Frames, gpu[f] # "none" PROVE retired[f] = 1
      <3>1. ~Holds(progress, f) /\ ~Holds(scheduled, f) /\ ~Holds(delivered, f)
        BY <2>2 DEF FInv, SlotsGone, Holds
      <3>2. retired[f] \in Nat
        BY <2>2 DEF FInv, IInv, TypeOK, SlotTypes
      <3>3. QED
        BY <2>2, <3>1, <3>2 DEF FInv, FramesConserved, One
    <2>3. QED
      BY <2>1, <2>2 DEF NothingLeftAfterJoin
  <1>2. QED
    BY <1>1, AlwaysFInv, PTL
=============================================================================
