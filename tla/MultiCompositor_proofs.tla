----------------------- MODULE MultiCompositor_proofs -----------------------
(***************************************************************************)
(* Proofs about MultiCompositor, for every number of frames, display times *)
(* and layers.                                                             *)
(*                                                                         *)
(* The handshake between the app thread and the wait thread is an          *)
(* invariant only together with what each of the two knows of the other:   *)
(* that `waiting' says exactly where the wait thread is, that it was       *)
(* started before the app thread may submit, and that an app thread that   *)
(* is no longer blocked found nothing pushed and nobody waiting.           *)
(***************************************************************************)
EXTENDS MultiCompositor, TLAPS

WaiterBusy == waiterPc \in {"wait", "gpu_done", "free_check", "free_list", "free_slot",
                            "free_move", "finish"}

\* An active slot holds a frame the pacer handed out.
ActiveHasFrame ==
  /\ progress.active => progress.frame_id \in Frames
  /\ scheduled.active => scheduled.frame_id \in Frames
  /\ delivered.active => delivered.frame_id \in Frames

\* The app thread submits the frame that was begun.
SubmitsFrame ==
  /\ appPc \in {"layer_begin", "blocked"} => begunFrame \in Frames
  /\ AppOwnsProgress => progress.active

\* What `waiting', `pushed', `alive' and `blocked' say about the other thread.
Handshake ==
  /\ wt.waiting <=> WaiterBusy
  /\ wt.waiting => ~wt.pushed
  /\ appPc = "none" => waiterPc = "none" /\ ~wt.pushed
  /\ appPc \notin {"none", "create"} => wt.alive
  /\ wt.alive => waiterPc \notin {"none", "start"}
  /\ appPc = "blocked" /\ ~wt.blocked => ~wt.pushed /\ ~wt.waiting

IInv == TypeOK /\ ActiveHasFrame /\ SubmitsFrame /\ Handshake /\ ProgressHasOneOwner

\* The slot values the actions build are slots.
LEMMA ClearedSlotType == ZeroSlot \in Slot /\ ClearedSlot \in Slot
  BY BoundsAssumption DEF ZeroSlot, ClearedSlot, Slot, Times

\* What layer_begin writes.
LEMMA FilledSlotType ==
  ASSUME NEW f \in Frames, NEW t \in 1..MaxTime
  PROVE  [active |-> TRUE, frame_id |-> f, display_time |-> t, layer_count |-> 0] \in Slot
  BY BoundsAssumption DEF Slot, Times

\* What a layer call writes.
LEMMA AddLayerType ==
  ASSUME NEW s \in Slot, s.layer_count < MaxLayers
  PROVE  [s EXCEPT !.layer_count = @ + 1] \in Slot
  BY BoundsAssumption DEF Slot

\* So are the wait thread's fields after each of run_func's updates.
LEMMA AliveType ==
  ASSUME NEW w \in WaitThread PROVE [w EXCEPT !.alive = TRUE] \in WaitThread
  BY DEF WaitThread

\* Work taken or dropped.
LEMMA ClearedWorkType ==
  ASSUME NEW w \in WaitThread PROVE [w EXCEPT !.frame_id = 0] \in WaitThread
  BY DEF WaitThread

\* A frame the wait thread is done with.
LEMMA FinishedType ==
  ASSUME NEW w \in WaitThread
  PROVE  [w EXCEPT !.waiting = FALSE, !.blocked = FALSE] \in WaitThread
  BY DEF WaitThread

\* The wait thread takes a frame or goes to sleep.
LEMMA TakeWorkTypes ==
  ASSUME NEW w \in WaitThread, NEW c \in SUBSET {"app", "waiter"}, TakeWork(w, c)
  PROVE  WaitTypes'
  BY DEF TakeWork, WaitTypes, WaitThread, WaiterPcs

\* The wait thread at the top of its loop.
LEMMA LoopTopTypes ==
  ASSUME NEW w \in WaitThread, NEW c \in SUBSET {"app", "waiter"}, LoopTop(w, c), WaitTypes
  PROVE  WaitTypes'
  BY TakeWorkTypes DEF LoopTop, WaitTypes, WaiterPcs

\* The app thread's position, its two frames and the pacer keep their types.
LEMMA AppTypesStep == AppTypes /\ [Next]_vars => AppTypes'
  <1> SUFFICES ASSUME AppTypes, [Next]_vars PROVE AppTypes'
    OBVIOUS
  <1> USE DEF AppTypes, AppPcs, appVars
  <1>1. CASE Create
    BY <1>1 DEF Create
  <1>2. CASE CreateWaitAlive
    BY <1>2 DEF CreateWaitAlive
  <1>3. CASE Destroy
    BY <1>3 DEF Destroy
  <1>4. CASE DestroyStop
    BY <1>4 DEF DestroyStop
  <1>5. CASE DestroyJoin
    BY <1>5 DEF DestroyJoin
  <1>6. CASE DestroyClear
    BY <1>6 DEF DestroyClear
  <1>7. CASE PredictFrame
    BY <1>7, BoundsAssumption DEF PredictFrame, Frames
  <1>8. CASE MarkWoke
    BY <1>8 DEF MarkWoke
  <1>9. CASE BeginFrame
    BY <1>9 DEF BeginFrame
  <1>10. CASE DiscardBegun
    BY <1>10 DEF DiscardBegun
  <1>11. CASE DiscardWaited
    BY <1>11 DEF DiscardWaited
  <1>12. CASE LayerBegin
    BY <1>12 DEF LayerBegin
  <1>13. CASE WaitForWaitThread
    BY <1>13 DEF WaitForWaitThread, FillProgress
  <1>14. CASE Unblock
    BY <1>14 DEF Unblock, FillProgress
  <1>15. CASE LayerCommit
    BY <1>15 DEF LayerCommit
  <1>16. CASE Push
    BY <1>16 DEF Push
  <1>17. CASE AppMarkGpuDone
    BY <1>17 DEF AppMarkGpuDone
  <1>18. CASE AppScheduledFree
    BY <1>18 DEF AppScheduledFree
  <1>19. CASE AppTakeListLock
    BY <1>19 DEF AppTakeListLock
  <1>20. CASE AppTakeSlotLock
    BY <1>20 DEF AppTakeSlotLock
  <1>21. CASE AppMove
    BY <1>21 DEF AppMove
  <1>22. CASE WaiterMarkGpuDone
    BY <1>22 DEF WaiterMarkGpuDone
  <1>23. CASE UNCHANGED <<appPc, waitedFrame, begunFrame, frameCounter, pacer>>
    BY <1>23
  <1>24. QED
    BY <1>1, <1>2, <1>3, <1>4, <1>5, <1>6, <1>7, <1>8, <1>9, <1>10, <1>11, <1>12,
      <1>13, <1>14, <1>15, <1>16, <1>17, <1>18, <1>19, <1>20, <1>21, <1>22, <1>23
      DEF Next, App, Waiter, Render, World, vars, stateVars, waitVars, slotVars,
      lockVars, renderVars, histVars, BeginSession, EndSession, AddLayer,
      WaiterStart, WaiterWake, WaiterFenceDone, WaiterScheduledFree,
      WaiterTakeListLock, WaiterTakeSlotLock, WaiterMove, WaiterFinish,
      RenderPredict, RenderWoke, RenderTakeListLock, RenderTakeSlotLock,
      RenderDeliver, RenderLatch, RenderCopy, SetVisible, Tick, SpuriousWakeup,
      GpuDone

\* The wait thread's fields keep their types: what is pushed is a frame.
LEMMA WaitTypesStep == WaitTypes /\ SubmitsFrame /\ ActiveHasFrame /\ [Next]_vars => WaitTypes'
  <1> SUFFICES ASSUME WaitTypes /\ SubmitsFrame /\ ActiveHasFrame, [Next]_vars PROVE WaitTypes'
    OBVIOUS
  <1> USE DEF WaitTypes, WaiterPcs, waitVars
  <1>1. CASE Create
    BY <1>1 DEF Create, WaitThread
  <1>2. CASE CreateWaitAlive
    BY <1>2 DEF CreateWaitAlive
  <1>3. CASE DestroyStop
    BY <1>3 DEF DestroyStop, WaitThread, Signal
  <1>4. CASE WaitForWaitThread
    BY <1>4 DEF WaitForWaitThread, WaitThread
  <1>5. CASE Unblock
    BY <1>5 DEF Unblock
  <1>6. CASE Push
    BY <1>6 DEF Push, WaitThread, Signal, SubmitsFrame, ActiveHasFrame,
      AppOwnsProgress
  <1>7. CASE WaiterStart
    BY <1>7, LoopTopTypes, AliveType DEF WaiterStart, Signal
  <1>8. CASE WaiterWake
    BY <1>8, LoopTopTypes, TakeWorkTypes, ClearedWorkType DEF WaiterWake
  <1>9. CASE WaiterFenceDone
    BY <1>9 DEF WaiterFenceDone
  <1>10. CASE WaiterMarkGpuDone
    BY <1>10 DEF WaiterMarkGpuDone
  <1>11. CASE WaiterScheduledFree
    BY <1>11 DEF WaiterScheduledFree
  <1>12. CASE WaiterTakeListLock
    BY <1>12 DEF WaiterTakeListLock
  <1>13. CASE WaiterTakeSlotLock
    BY <1>13 DEF WaiterTakeSlotLock
  <1>14. CASE WaiterMove
    BY <1>14 DEF WaiterMove
  <1>15. CASE WaiterFinish
    BY <1>15, LoopTopTypes, FinishedType DEF WaiterFinish, Signal
  <1>16. CASE SpuriousWakeup
    BY <1>16 DEF SpuriousWakeup
  <1>17. CASE UNCHANGED <<wt, waiterPc, job, cond>>
    BY <1>17
  <1>18. QED
    BY <1>1, <1>2, <1>3, <1>4, <1>5, <1>6, <1>7, <1>8, <1>9, <1>10, <1>11, <1>12,
      <1>13, <1>14, <1>15, <1>16, <1>17 DEF Next, App, Waiter, Render, World,
      vars, appVars, stateVars, slotVars, lockVars, renderVars, histVars,
      Destroy, DestroyJoin, DestroyClear, BeginSession, EndSession, PredictFrame,
      MarkWoke, BeginFrame, DiscardBegun, DiscardWaited, LayerBegin, AddLayer,
      LayerCommit, AppMarkGpuDone, AppScheduledFree, AppTakeListLock,
      AppTakeSlotLock, AppMove, RenderPredict, RenderWoke, RenderTakeListLock,
      RenderTakeSlotLock, RenderDeliver, RenderLatch, RenderCopy, SetVisible,
      Tick, GpuDone

\* The slots stay slots, and only frames are retired, latched or fenced.
LEMMA SlotTypesStep == SlotTypes /\ SubmitsFrame /\ ActiveHasFrame /\ [Next]_vars => SlotTypes'
  <1> SUFFICES ASSUME SlotTypes /\ SubmitsFrame /\ ActiveHasFrame, [Next]_vars PROVE SlotTypes'
    OBVIOUS
  <1> USE DEF SlotTypes, ActiveHasFrame, slotVars, histVars
  <1>1. CASE DestroyClear
    BY <1>1, ClearedSlotType DEF DestroyClear, One
  <1>2. CASE WaitForWaitThread
    BY <1>2, FilledSlotType DEF WaitForWaitThread, FillProgress, SubmitsFrame
  <1>3. CASE Unblock
    BY <1>3, FilledSlotType DEF Unblock, FillProgress, SubmitsFrame
  <1>4. CASE AddLayer
    BY <1>4, AddLayerType DEF AddLayer
  <1>5. CASE LayerCommit
    BY <1>5 DEF LayerCommit, AppOwnsProgress, SubmitsFrame
  <1>6. CASE AppMove
    BY <1>6, ClearedSlotType DEF AppMove, MoveProgressToScheduled, Retire
  <1>7. CASE WaiterMove
    BY <1>7, ClearedSlotType DEF WaiterMove, MoveProgressToScheduled, Retire
  <1>8. CASE RenderDeliver
    BY <1>8, ClearedSlotType DEF RenderDeliver, MoveScheduledToDelivered, Retire
  <1>9. CASE RenderLatch
    BY <1>9, ClearedSlotType DEF RenderLatch, Retire
  <1>10. CASE \E f \in Frames : GpuDone(f)
    BY <1>10 DEF GpuDone
  <1>11. CASE UNCHANGED <<progress, scheduled, delivered, retired, latched, gpu>>
    BY <1>11
  <1>12. QED
    BY <1>1, <1>2, <1>3, <1>4, <1>5, <1>6, <1>7, <1>8, <1>9, <1>10, <1>11 DEF
      Next, App, Waiter, Render, World, vars, appVars, stateVars, waitVars,
      lockVars, renderVars, Create, CreateWaitAlive, Destroy, DestroyStop,
      DestroyJoin, BeginSession, EndSession, PredictFrame, MarkWoke, BeginFrame,
      DiscardBegun, DiscardWaited, LayerBegin, Push, AppMarkGpuDone,
      AppScheduledFree, AppTakeListLock, AppTakeSlotLock, WaiterStart,
      WaiterWake, WaiterFenceDone, WaiterMarkGpuDone, WaiterScheduledFree,
      WaiterTakeListLock, WaiterTakeSlotLock, WaiterFinish, RenderPredict,
      RenderWoke, RenderTakeListLock, RenderTakeSlotLock, RenderCopy, SetVisible,
      Tick, SpuriousWakeup

\* So do the locks, the times and the render thread's position.
LEMMA RenderTypesStep == RenderTypes /\ [Next]_vars => RenderTypes'
  <1> SUFFICES ASSUME RenderTypes, [Next]_vars PROVE RenderTypes'
    OBVIOUS
  <1> USE DEF RenderTypes, stateVars, lockVars, renderVars
  <1>1. CASE Create
    BY <1>1 DEF Create
  <1>2. CASE Destroy
    BY <1>2 DEF Destroy
  <1>3. CASE BeginSession
    BY <1>3 DEF BeginSession
  <1>4. CASE EndSession
    BY <1>4 DEF EndSession
  <1>5. CASE AppTakeListLock
    BY <1>5 DEF AppTakeListLock
  <1>6. CASE AppTakeSlotLock
    BY <1>6 DEF AppTakeSlotLock
  <1>7. CASE AppMove
    BY <1>7 DEF AppMove, MoveProgressToScheduled
  <1>8. CASE WaiterTakeListLock
    BY <1>8 DEF WaiterTakeListLock
  <1>9. CASE WaiterTakeSlotLock
    BY <1>9 DEF WaiterTakeSlotLock
  <1>10. CASE WaiterMove
    BY <1>10 DEF WaiterMove, MoveProgressToScheduled
  <1>11. CASE RenderPredict
    BY <1>11, BoundsAssumption DEF RenderPredict, Times
  <1>12. CASE RenderWoke
    BY <1>12 DEF RenderWoke
  <1>13. CASE RenderTakeListLock
    BY <1>13 DEF RenderTakeListLock
  <1>14. CASE RenderTakeSlotLock
    BY <1>14 DEF RenderTakeSlotLock
  <1>15. CASE RenderDeliver
    BY <1>15 DEF RenderDeliver
  <1>16. CASE RenderLatch
    BY <1>16 DEF RenderLatch
  <1>17. CASE RenderCopy
    BY <1>17 DEF RenderCopy
  <1>18. CASE SetVisible
    BY <1>18 DEF SetVisible
  <1>19. CASE Tick
    BY <1>19, BoundsAssumption DEF Tick, Times
  <1>20. CASE UNCHANGED <<sessionActive, visible, listed, slotNext, renderDisplay, now, listLock, slotLock, renderPc>>
    BY <1>20
  <1>21. QED
    BY <1>1, <1>2, <1>3, <1>4, <1>5, <1>6, <1>7, <1>8, <1>9, <1>10, <1>11, <1>12,
      <1>13, <1>14, <1>15, <1>16, <1>17, <1>18, <1>19, <1>20 DEF Next, App,
      Waiter, Render, World, vars, appVars, waitVars, slotVars, histVars,
      CreateWaitAlive, DestroyStop, DestroyJoin, DestroyClear, PredictFrame,
      MarkWoke, BeginFrame, DiscardBegun, DiscardWaited, LayerBegin,
      WaitForWaitThread, Unblock, AddLayer, LayerCommit, Push, AppMarkGpuDone,
      AppScheduledFree, WaiterStart, WaiterWake, WaiterFenceDone,
      WaiterMarkGpuDone, WaiterScheduledFree, WaiterFinish, SpuriousWakeup,
      GpuDone

\* An active slot always holds a frame id the pacer handed out.
LEMMA ActiveHasFrameStep == ActiveHasFrame /\ SubmitsFrame /\ SlotTypes /\ [Next]_vars => ActiveHasFrame'
  <1> SUFFICES ASSUME ActiveHasFrame /\ SubmitsFrame /\ SlotTypes, [Next]_vars PROVE ActiveHasFrame'
    OBVIOUS
  <1> USE DEF ActiveHasFrame, SlotTypes, Slot, slotVars
  <1>1. CASE DestroyClear
    BY <1>1 DEF DestroyClear, ClearedSlot
  <1>2. CASE WaitForWaitThread
    BY <1>2 DEF WaitForWaitThread, FillProgress, SubmitsFrame
  <1>3. CASE Unblock
    BY <1>3 DEF Unblock, FillProgress, SubmitsFrame
  <1>4. CASE AddLayer
    BY <1>4 DEF AddLayer
  <1>5. CASE AppMove
    BY <1>5 DEF AppMove, MoveProgressToScheduled, ClearedSlot
  <1>6. CASE WaiterMove
    BY <1>6 DEF WaiterMove, MoveProgressToScheduled, ClearedSlot
  <1>7. CASE RenderDeliver
    BY <1>7 DEF RenderDeliver, MoveScheduledToDelivered, ClearedSlot
  <1>8. CASE RenderLatch
    BY <1>8 DEF RenderLatch, ClearedSlot
  <1>9. CASE UNCHANGED <<progress, scheduled, delivered>>
    BY <1>9
  <1>10. QED
    BY <1>1, <1>2, <1>3, <1>4, <1>5, <1>6, <1>7, <1>8, <1>9 DEF Next, App,
      Waiter, Render, World, vars, appVars, stateVars, waitVars, lockVars,
      renderVars, histVars, Create, CreateWaitAlive, Destroy, DestroyStop,
      DestroyJoin, BeginSession, EndSession, PredictFrame, MarkWoke, BeginFrame,
      DiscardBegun, DiscardWaited, LayerBegin, LayerCommit, Push, AppMarkGpuDone,
      AppScheduledFree, AppTakeListLock, AppTakeSlotLock, WaiterStart,
      WaiterWake, WaiterFenceDone, WaiterMarkGpuDone, WaiterScheduledFree,
      WaiterTakeListLock, WaiterTakeSlotLock, WaiterFinish, RenderPredict,
      RenderWoke, RenderTakeListLock, RenderTakeSlotLock, RenderCopy, SetVisible,
      Tick, SpuriousWakeup, GpuDone

\* The app thread submits the begun frame, and nobody takes progress from it.
LEMMA SubmitsFrameStep == SubmitsFrame /\ ProgressHasOneOwner /\ AppTypes /\ SlotTypes /\ [Next]_vars => SubmitsFrame'
  <1> SUFFICES ASSUME SubmitsFrame /\ ProgressHasOneOwner /\ AppTypes /\ SlotTypes, [Next]_vars PROVE SubmitsFrame'
    OBVIOUS
  <1> USE DEF SubmitsFrame, AppOwnsProgress, AppTypes, SlotTypes, Slot, appVars,
    slotVars
  <1>1. CASE Create
    BY <1>1 DEF Create
  <1>2. CASE CreateWaitAlive
    BY <1>2 DEF CreateWaitAlive
  <1>3. CASE Destroy
    BY <1>3 DEF Destroy
  <1>4. CASE DestroyStop
    BY <1>4 DEF DestroyStop
  <1>5. CASE DestroyJoin
    BY <1>5 DEF DestroyJoin
  <1>6. CASE DestroyClear
    BY <1>6 DEF DestroyClear
  <1>7. CASE BeginFrame
    BY <1>7 DEF BeginFrame
  <1>8. CASE DiscardBegun
    BY <1>8 DEF DiscardBegun
  <1>9. CASE LayerBegin
    BY <1>9 DEF LayerBegin
  <1>10. CASE WaitForWaitThread
    BY <1>10 DEF WaitForWaitThread, FillProgress
  <1>11. CASE Unblock
    BY <1>11 DEF Unblock, FillProgress
  <1>12. CASE LayerCommit
    BY <1>12 DEF LayerCommit
  <1>13. CASE Push
    BY <1>13 DEF Push
  <1>14. CASE AppMarkGpuDone
    BY <1>14 DEF AppMarkGpuDone
  <1>15. CASE AppScheduledFree
    BY <1>15 DEF AppScheduledFree
  <1>16. CASE AppTakeListLock
    BY <1>16 DEF AppTakeListLock
  <1>17. CASE AppTakeSlotLock
    BY <1>17 DEF AppTakeSlotLock
  <1>18. CASE AppMove
    BY <1>18 DEF AppMove, MoveProgressToScheduled
  <1>19. CASE AddLayer
    BY <1>19 DEF AddLayer
  <1>20. CASE WaiterMove
    BY <1>20 DEF WaiterMove, MoveProgressToScheduled, ProgressHasOneOwner
  <1>21. CASE UNCHANGED <<appPc, begunFrame, progress>>
    BY <1>21
  <1>22. QED
    BY <1>1, <1>2, <1>3, <1>4, <1>5, <1>6, <1>7, <1>8, <1>9, <1>10, <1>11, <1>12,
      <1>13, <1>14, <1>15, <1>16, <1>17, <1>18, <1>19, <1>20, <1>21 DEF Next,
      App, Waiter, Render, World, vars, stateVars, waitVars, lockVars,
      renderVars, histVars, BeginSession, EndSession, PredictFrame, MarkWoke,
      DiscardWaited, WaiterStart, WaiterWake, WaiterFenceDone, WaiterMarkGpuDone,
      WaiterScheduledFree, WaiterTakeListLock, WaiterTakeSlotLock, WaiterFinish,
      RenderPredict, RenderWoke, RenderTakeListLock, RenderTakeSlotLock,
      RenderDeliver, RenderLatch, RenderCopy, SetVisible, Tick, SpuriousWakeup,
      GpuDone

\* What the wait thread's fields tell each of the two threads about the other.
LEMMA HandshakeStep == Handshake /\ ProgressHasOneOwner /\ WaitTypes /\ AppTypes /\ [Next]_vars => Handshake'
  <1> SUFFICES ASSUME Handshake /\ ProgressHasOneOwner /\ WaitTypes /\ AppTypes, [Next]_vars PROVE Handshake'
    OBVIOUS
  <1> USE DEF Handshake, WaiterBusy, WaitTypes, WaitThread, AppTypes, appVars,
    waitVars
  <1>1. CASE Create
    BY <1>1 DEF Create
  <1>2. CASE CreateWaitAlive
    BY <1>2 DEF CreateWaitAlive
  <1>3. CASE Destroy
    BY <1>3 DEF Destroy
  <1>4. CASE DestroyStop
    BY <1>4 DEF DestroyStop
  <1>5. CASE DestroyJoin
    BY <1>5 DEF DestroyJoin
  <1>6. CASE DestroyClear
    BY <1>6 DEF DestroyClear
  <1>7. CASE LayerBegin
    BY <1>7 DEF LayerBegin
  <1>8. CASE WaitForWaitThread
    BY <1>8 DEF WaitForWaitThread, FillProgress, PushedOrWaiting
  <1>9. CASE Unblock
    BY <1>9 DEF Unblock, FillProgress
  <1>10. CASE LayerCommit
    BY <1>10 DEF LayerCommit
  <1>11. CASE Push
    BY <1>11 DEF Push, ProgressHasOneOwner, AppOwnsProgress, PushedOrWaiting
  <1>12. CASE AppMarkGpuDone
    BY <1>12 DEF AppMarkGpuDone
  <1>13. CASE AppScheduledFree
    BY <1>13 DEF AppScheduledFree
  <1>14. CASE AppTakeListLock
    BY <1>14 DEF AppTakeListLock
  <1>15. CASE AppTakeSlotLock
    BY <1>15 DEF AppTakeSlotLock
  <1>16. CASE AppMove
    BY <1>16 DEF AppMove
  <1>17. CASE WaiterStart
    BY <1>17 DEF WaiterStart, LoopTop, TakeWork
  <1>18. CASE WaiterWake
    BY <1>18 DEF WaiterWake, LoopTop, TakeWork
  <1>19. CASE WaiterFenceDone
    BY <1>19 DEF WaiterFenceDone
  <1>20. CASE WaiterMarkGpuDone
    BY <1>20 DEF WaiterMarkGpuDone
  <1>21. CASE WaiterScheduledFree
    BY <1>21 DEF WaiterScheduledFree
  <1>22. CASE WaiterTakeListLock
    BY <1>22 DEF WaiterTakeListLock
  <1>23. CASE WaiterTakeSlotLock
    BY <1>23 DEF WaiterTakeSlotLock
  <1>24. CASE WaiterMove
    BY <1>24 DEF WaiterMove
  <1>25. CASE WaiterFinish
    <2>1. waiterPc = "finish" /\ ~wt.pushed /\ appPc' = appPc
      BY <1>25 DEF WaiterFinish
    <2> DEFINE w == [wt EXCEPT !.waiting = FALSE, !.blocked = FALSE]
    <2>2. w.pushed = FALSE /\ w.waiting = FALSE /\ w.alive = wt.alive
      BY <2>1
    <2>3. wt' = w /\ waiterPc' \in {"exited", "asleep"}
      <3>1. PICK c : LoopTop(w, c)
        BY <1>25 DEF WaiterFinish
      <3> HIDE DEF w
      <3>2. QED
        BY <2>2, <3>1 DEF LoopTop
    <2> HIDE DEF w
    <2>4. QED
      BY <2>1, <2>2, <2>3
  <1>26. CASE UNCHANGED <<appPc, wt, waiterPc>>
    BY <1>26
  <1>27. QED
    BY <1>1, <1>2, <1>3, <1>4, <1>5, <1>6, <1>7, <1>8, <1>9, <1>10, <1>11, <1>12,
      <1>13, <1>14, <1>15, <1>16, <1>17, <1>18, <1>19, <1>20, <1>21, <1>22,
      <1>23, <1>24, <1>25, <1>26 DEF Next, App, Waiter, Render, World, vars,
      stateVars, slotVars, lockVars, renderVars, histVars, BeginSession,
      EndSession, PredictFrame, MarkWoke, BeginFrame, DiscardBegun,
      DiscardWaited, AddLayer, RenderPredict, RenderWoke, RenderTakeListLock,
      RenderTakeSlotLock, RenderDeliver, RenderLatch, RenderCopy, SetVisible,
      Tick, SpuriousWakeup, GpuDone

\* The app thread enters progress only when the wait thread has left it.
LEMMA ProgressOwnerStep == ProgressHasOneOwner /\ Handshake /\ WaitTypes /\ AppTypes /\ [Next]_vars => ProgressHasOneOwner'
  <1> SUFFICES ASSUME ProgressHasOneOwner /\ Handshake /\ WaitTypes /\ AppTypes, [Next]_vars PROVE ProgressHasOneOwner'
    OBVIOUS
  <1> USE DEF ProgressHasOneOwner, AppOwnsProgress, PushedOrWaiting, WaitTypes,
    WaitThread, WaiterPcs, AppTypes, appVars, waitVars
  <1>1. CASE Create
    BY <1>1 DEF Create
  <1>2. CASE CreateWaitAlive
    BY <1>2 DEF CreateWaitAlive
  <1>3. CASE Destroy
    BY <1>3 DEF Destroy
  <1>4. CASE DestroyStop
    BY <1>4 DEF DestroyStop
  <1>5. CASE DestroyJoin
    BY <1>5 DEF DestroyJoin
  <1>6. CASE DestroyClear
    BY <1>6 DEF DestroyClear
  <1>7. CASE LayerBegin
    BY <1>7 DEF LayerBegin
  <1>8. CASE WaitForWaitThread
    BY <1>8 DEF WaitForWaitThread, FillProgress, Handshake, WaiterBusy
  <1>9. CASE Unblock
    BY <1>9 DEF Unblock, FillProgress, Handshake, WaiterBusy
  <1>10. CASE LayerCommit
    BY <1>10 DEF LayerCommit
  <1>11. CASE Push
    BY <1>11 DEF Push
  <1>12. CASE AppMarkGpuDone
    BY <1>12 DEF AppMarkGpuDone
  <1>13. CASE AppScheduledFree
    BY <1>13 DEF AppScheduledFree
  <1>14. CASE AppTakeListLock
    BY <1>14 DEF AppTakeListLock
  <1>15. CASE AppTakeSlotLock
    BY <1>15 DEF AppTakeSlotLock
  <1>16. CASE AppMove
    BY <1>16 DEF AppMove
  <1>17. CASE WaiterStart
    BY <1>17 DEF WaiterStart, LoopTop, TakeWork
  <1>18. CASE WaiterWake
    BY <1>18 DEF WaiterWake, LoopTop, TakeWork
  <1>19. CASE WaiterFenceDone
    BY <1>19 DEF WaiterFenceDone
  <1>20. CASE WaiterMarkGpuDone
    BY <1>20 DEF WaiterMarkGpuDone
  <1>21. CASE WaiterScheduledFree
    BY <1>21 DEF WaiterScheduledFree
  <1>22. CASE WaiterTakeListLock
    BY <1>22 DEF WaiterTakeListLock
  <1>23. CASE WaiterTakeSlotLock
    BY <1>23 DEF WaiterTakeSlotLock
  <1>24. CASE WaiterMove
    BY <1>24 DEF WaiterMove
  <1>25. CASE WaiterFinish
    BY <1>25 DEF WaiterFinish, LoopTop, TakeWork, Handshake, WaiterBusy
  <1>26. CASE UNCHANGED <<appPc, wt, waiterPc>>
    BY <1>26
  <1>27. QED
    BY <1>1, <1>2, <1>3, <1>4, <1>5, <1>6, <1>7, <1>8, <1>9, <1>10, <1>11, <1>12,
      <1>13, <1>14, <1>15, <1>16, <1>17, <1>18, <1>19, <1>20, <1>21, <1>22,
      <1>23, <1>24, <1>25, <1>26 DEF Next, App, Waiter, Render, World, vars,
      stateVars, slotVars, lockVars, renderVars, histVars, BeginSession,
      EndSession, PredictFrame, MarkWoke, BeginFrame, DiscardBegun,
      DiscardWaited, AddLayer, RenderPredict, RenderWoke, RenderTakeListLock,
      RenderTakeSlotLock, RenderDeliver, RenderLatch, RenderCopy, SetVisible,
      Tick, SpuriousWakeup, GpuDone

\* Initially all of it holds.
LEMMA InitIInv == Init => IInv
  <1> SUFFICES ASSUME Init PROVE IInv
    OBVIOUS
  <1>1. AppTypes
    BY BoundsAssumption DEF Init, AppTypes, AppPcs
  <1>2. WaitTypes
    BY DEF Init, WaitTypes, WaitThread, WaiterPcs
  <1>3. SlotTypes
    BY ClearedSlotType DEF Init, SlotTypes
  <1>4. RenderTypes
    <2>1. 0 \in Times
      BY BoundsAssumption DEF Times
    <2>2. QED
      BY <2>1 DEF Init, RenderTypes
  <1>5. ActiveHasFrame /\ SubmitsFrame
    BY DEF Init, ActiveHasFrame, SubmitsFrame, AppOwnsProgress, ZeroSlot
  <1>6. Handshake /\ ProgressHasOneOwner
    BY DEF Init, Handshake, WaiterBusy, ProgressHasOneOwner, AppOwnsProgress
  <1>7. QED
    BY <1>1, <1>2, <1>3, <1>4, <1>5, <1>6 DEF IInv, TypeOK

\* Every step keeps every part of the invariant.
LEMMA NextIInv == IInv /\ [Next]_vars => IInv'
  BY AppTypesStep, WaitTypesStep, SlotTypesStep, RenderTypesStep, ActiveHasFrameStep,
     SubmitsFrameStep, HandshakeStep, ProgressOwnerStep DEF IInv, TypeOK

\* The parts hold in every reachable state.
LEMMA AlwaysIInv == Spec => []IInv
  BY InitIInv, NextIInv, PTL DEF Spec

\* Type correctness, for every number of frames, times and layers.
THEOREM TypeCorrect == Spec => []TypeOK
  <1>1. IInv => TypeOK
    BY DEF IInv
  <1>2. QED
    BY <1>1, AlwaysIInv, PTL

\* The progress slot, which is used without a lock, never has two users.
THEOREM ProgressOwnership == Spec => []ProgressHasOneOwner
  <1>1. IInv => ProgressHasOneOwner
    BY DEF IInv
  <1>2. QED
    BY <1>1, AlwaysIInv, PTL
=============================================================================
