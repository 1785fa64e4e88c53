------------------------ MODULE FramePipeline_proofs ------------------------
(***************************************************************************)
(* MultiCompositor implements FramePipeline, for every number of frames:   *)
(* each step of a thread is one abstract step or changes nothing that the  *)
(* abstract specification sees.                                            *)
(*                                                                         *)
(*   layer_begin fills the progress slot        Submit                     *)
(*   the commit without a fence, the GPU        Complete                   *)
(*   progress -> scheduled over an older frame  Replace                    *)
(*   scheduled -> delivered                     Show                       *)
(*   the render thread drops a hidden frame     Hide                       *)
(*   destroy clears the slots                   Close                      *)
(***************************************************************************)
EXTENDS MultiCompositor_frames_proofs

CompleteInFlight == {f \in InFlight : gpu[f] \in {"signalled", "unfenced"}}
Shown == IF delivered.active THEN delivered.frame_id ELSE 0
Past == {f \in Frames : retired[f] > 0}

\* What the abstract specification sees lies in the slots, gpu and retired.
LEMMA AbstractUnchanged ==
  ASSUME UNCHANGED <<progress, scheduled, delivered, gpu, retired>>
  PROVE  UNCHANGED Pipeline!vars
  BY DEF Pipeline!vars, InFlight, Holds

\* A frame that was retired, or has left the progress slot, was committed.
LEMMA KnownCommitted ==
  ASSUME FInv
  PROVE  /\ \A f \in Past : gpu[f] # "none"
         /\ scheduled.active => GpuComplete(scheduled.frame_id)
         /\ delivered.active => GpuComplete(delivered.frame_id)
  <1>1. ASSUME NEW f \in Past PROVE gpu[f] # "none"
    <2>1. f \in Frames /\ retired[f] \in Nat /\ retired[f] > 0
      BY DEF Past, FInv, IInv, TypeOK, SlotTypes
    <2>2. QED
      BY <2>1 DEF FInv, FramesConserved, One
  <1>2. QED
    BY <1>1 DEF FInv, GpuState

\* layer_begin: every frame known so far is older than the begun one.
LEMMA FillSubmits ==
  ASSUME FInv, (WaitForWaitThread /\ ~PushedOrWaiting) \/ (Unblock /\ ~wt.blocked)
  PROVE  begunFrame \in Frames /\ Pipeline!Submit(begunFrame)
  <1>1. /\ appPc \in {"layer_begin", "blocked"} /\ progress'.active
        /\ progress'.frame_id = begunFrame /\ UNCHANGED <<scheduled, delivered, gpu, retired>>
    BY FillOutcome
  <1>2. ~progress.active
    BY EmptyWhenFilled DEF FInv, ProgressEmptyWhenFilled, WaitForWaitThread, Unblock
  <1>3. begunFrame \in Frames
    BY <1>1 DEF FInv, IInv, SubmitsFrame
  <1>4. \A f \in Frames : gpu[f] # "none" => f < begunFrame
    BY <1>1, <1>3 DEF FInv, FrameOrder, AfterCommit, Frames, NoFrame
  <1>5. \A f \in InFlight \cup Past \cup {Shown} : f < begunFrame
    <2>1. \A f \in InFlight : f < begunFrame
      BY <1>2, <1>4, KnownCommitted DEF InFlight, Holds, GpuComplete
    <2>2. \A f \in Past : f < begunFrame
      BY <1>4, KnownCommitted DEF Past
    <2>3. Shown < begunFrame
      BY <1>3, <1>4, KnownCommitted DEF Shown, GpuComplete, Frames, FInv, IInv, ActiveHasFrame
    <2>4. QED
      BY <2>1, <2>2, <2>3
  <1>6. InFlight' = InFlight \cup {begunFrame}
    BY <1>1, <1>2, <1>3 DEF InFlight, Holds
  <1>7. gpu[begunFrame] = "none"
    BY <1>3, <1>4 DEF Frames
  <1>8. CompleteInFlight' = CompleteInFlight
    BY <1>1, <1>6, <1>7 DEF CompleteInFlight
  <1>9. Shown' = Shown /\ Past' = Past
    BY <1>1 DEF Shown, Past
  <1>10. QED
    BY <1>3, <1>5, <1>6, <1>8, <1>9 DEF Pipeline!Submit, Pipeline!Known, CompleteInFlight,
      Shown, Past

\* A frame whose work completes while it is in flight is completed.
LEMMA GpuCompletes ==
  ASSUME NEW f \in Frames, NEW done \in {"signalled", "unfenced"},
         gpu \in [Frames -> {"none", "pending", "signalled", "unfenced"}],
         gpu[f] \notin {"signalled", "unfenced"}, gpu' = [gpu EXCEPT ![f] = done],
         UNCHANGED <<progress, scheduled, delivered, retired>>
  PROVE  IF f \in InFlight THEN Pipeline!Complete(f) ELSE UNCHANGED Pipeline!vars
  <1>1. InFlight' = InFlight /\ Shown' = Shown /\ Past' = Past
    BY DEF InFlight, Holds, Shown, Past
  <1>2. CompleteInFlight' = CompleteInFlight \cup (InFlight \cap {f})
    BY <1>1 DEF CompleteInFlight, InFlight
  <1>3. f \notin CompleteInFlight
    BY DEF CompleteInFlight
  <1>4. CASE f \in InFlight
    BY <1>1, <1>2, <1>3, <1>4 DEF Pipeline!Complete, CompleteInFlight, Shown, Past
  <1>5. CASE f \notin InFlight
    BY <1>1, <1>2, <1>5 DEF Pipeline!vars, CompleteInFlight, Shown, Past
  <1>6. QED
    BY <1>4, <1>5

\* A retired frame joins the past, and nothing else does.
LEMMA RetireIsPast ==
  ASSUME SlotTypes, NEW s \in Slot, s.active => s.frame_id \in Frames, retired' = Retire(s)
  PROVE  Past' = Past \cup {f \in Frames : Holds(s, f)}
  <1>1. ASSUME NEW f \in Frames
        PROVE  retired'[f] > 0 <=> retired[f] > 0 \/ Holds(s, f)
    <2>1. retired'[f] = retired[f] + One(Holds(s, f))
      BY RetireCounts
    <2>2. retired[f] \in Nat
      BY DEF SlotTypes
    <2>3. QED
      BY <2>1, <2>2 DEF One
  <1>2. QED
    BY <1>1 DEF Past

\* wait_for_scheduled_free ends with a frame replaced, or with an empty slot
\* filled, which the abstract specification does not see.
LEMMA MoveReplaces ==
  ASSUME FInv, MoveProgressToScheduled, gpu' = gpu,
         progress.active, GpuComplete(progress.frame_id)
  PROVE  \/ \E old, new \in Frames : Pipeline!Replace(old, new)
         \/ UNCHANGED Pipeline!vars
  <1>1. SlotTypes /\ ActiveHasFrame
    BY DEF FInv, IInv, TypeOK
  <1> PICK new \in Frames : new = progress.frame_id
    BY <1>1 DEF ActiveHasFrame
  <1>2. /\ scheduled' = progress /\ ~progress'.active /\ delivered' = delivered
        /\ retired' = Retire(scheduled)
    BY DEF MoveProgressToScheduled, ClearedSlot
  <1>3. InFlight' = {new} /\ Shown' = Shown
    BY <1>1, <1>2 DEF InFlight, Holds, Shown
  <1>4. CompleteInFlight' = {new}
    BY <1>3 DEF CompleteInFlight, GpuComplete
  <1>5. Past' = Past \cup {f \in Frames : Holds(scheduled, f)}
    BY <1>1, <1>2, RetireIsPast DEF SlotTypes, ActiveHasFrame
  <1>6. CASE scheduled.active
    <2> PICK old \in Frames : old = scheduled.frame_id
      BY <1>1, <1>6 DEF ActiveHasFrame
    <2>1. GpuComplete(old) /\ old < new
      BY <1>1, <1>6 DEF FInv, GpuState, SlotsInOrder, ActiveHasFrame
    <2>2. InFlight = {old, new} /\ CompleteInFlight = {old, new}
      BY <1>1, <1>6, <2>1 DEF InFlight, CompleteInFlight, Holds, GpuComplete
    <2>3. old # new
      BY <1>1, <2>1 DEF Frames
    <2>4. Past' = Past \cup {old}
      BY <1>5, <1>6, <2>1 DEF Holds
    <2>5. Pipeline!Replace(old, new)
      BY <1>3, <1>4, <2>1, <2>2, <2>3, <2>4
        DEF Pipeline!Replace, CompleteInFlight, Shown, Past
    <2>6. QED
      BY <1>1, <2>1, <2>5
  <1>7. CASE ~scheduled.active
    <2>1. InFlight = {new} /\ CompleteInFlight = {new}
      BY <1>1, <1>7 DEF InFlight, CompleteInFlight, Holds, GpuComplete
    <2>2. Past' = Past
      BY <1>5, <1>7 DEF Holds
    <2>3. QED
      BY <1>3, <1>4, <2>1, <2>2 DEF Pipeline!vars, CompleteInFlight, Shown, Past
  <1>8. QED
    BY <1>6, <1>7

\* deliver_any_frames shows the oldest frame in flight.
LEMMA DeliverShows ==
  ASSUME FInv, MoveScheduledToDelivered, UNCHANGED <<progress, gpu>>, scheduled.active
  PROVE  \E f \in Frames : Pipeline!Show(f)
  <1> PICK new \in Frames : new = scheduled.frame_id
    BY DEF FInv, IInv, ActiveHasFrame
  <1>1. SlotTypes /\ ActiveHasFrame /\ GpuComplete(new)
    BY DEF FInv, IInv, TypeOK, GpuState
  <1>2. /\ delivered' = scheduled /\ ~scheduled'.active
        /\ retired' = Retire(delivered)
    BY DEF MoveScheduledToDelivered, ClearedSlot
  <1>3. \A f \in InFlight : f = new \/ (f \in Frames /\ Holds(progress, f) /\ new < f)
    BY DEF InFlight, Holds, FInv, SlotsInOrder
  <1>4. new \in InFlight /\ new \in CompleteInFlight
    BY <1>1 DEF InFlight, CompleteInFlight, Holds, GpuComplete
  <1>5. InFlight' = InFlight \ {new}
    <2>1. ~Holds(progress, new)
      BY <1>1 DEF Holds, FInv, SlotsInOrder, Frames
    <2>2. QED
      BY <1>2, <2>1 DEF InFlight, Holds
  <1>6. CompleteInFlight' = CompleteInFlight \ {new}
    BY <1>5 DEF CompleteInFlight
  <1>7. Shown' = new
    BY <1>2 DEF Shown
  <1>8. Past' = Past \cup ({Shown} \ {0})
    <2>1. Past' = Past \cup {f \in Frames : Holds(delivered, f)}
      BY <1>1, <1>2, RetireIsPast DEF SlotTypes, ActiveHasFrame
    <2>2. {f \in Frames : Holds(delivered, f)} = {Shown} \ {0}
      BY <1>1 DEF Holds, Shown, ActiveHasFrame, Frames
    <2>3. QED
      BY <2>1, <2>2
  <1>9. \A f \in InFlight : new <= f
    BY <1>1, <1>3 DEF Frames
  <1>10. Pipeline!Show(new)
    BY <1>1, <1>4, <1>5, <1>6, <1>7, <1>8, <1>9 DEF Pipeline!Show, CompleteInFlight, Shown, Past
  <1>11. QED
    BY <1>1, <1>10

\* The render thread drops the delivered frame of a client that must not be shown.
LEMMA DropHides ==
  ASSUME FInv, delivered.active, retired' = Retire(delivered), delivered' = ClearedSlot,
         UNCHANGED <<progress, scheduled, gpu>>
  PROVE  Pipeline!Hide
  <1>1. delivered.frame_id \in Frames /\ SlotTypes
    BY DEF FInv, IInv, ActiveHasFrame, TypeOK
  <1>2. Shown # 0 /\ Shown' = 0 /\ Shown = delivered.frame_id
    BY <1>1 DEF Shown, ClearedSlot, Frames
  <1>3. InFlight' = InFlight /\ CompleteInFlight' = CompleteInFlight
    BY DEF InFlight, CompleteInFlight, Holds
  <1>4. Past' = Past \cup {Shown}
    <2>1. Past' = Past \cup {f \in Frames : Holds(delivered, f)}
      BY <1>1, RetireIsPast DEF SlotTypes
    <2>2. QED
      BY <1>1, <1>2, <2>1 DEF Holds
  <1>5. QED
    BY <1>2, <1>3, <1>4 DEF Pipeline!Hide, CompleteInFlight, Shown, Past

\* multi_compositor_destroy clears the slots: whatever was known is past.
LEMMA DestroyCloses ==
  ASSUME FInv, DestroyClear
  PROVE  Pipeline!Close
  <1>1. SlotTypes /\ ActiveHasFrame
    BY DEF FInv, IInv, TypeOK
  <1>2. InFlight' = {} /\ CompleteInFlight' = {} /\ Shown' = 0
    BY DEF DestroyClear, InFlight, CompleteInFlight, Shown, Holds, ClearedSlot
  <1>3. ASSUME NEW f \in Frames
        PROVE  f \in Past' <=> f \in InFlight \cup Past \cup {Shown}
    <2>1. retired'[f] = retired[f] + One(Holds(progress, f)) + One(Holds(scheduled, f))
                          + One(Holds(delivered, f))
      BY DEF DestroyClear
    <2>2. retired[f] \in Nat
      BY <1>1 DEF SlotTypes
    <2>3. f \in Past' <=> f \in Past \/ Holds(progress, f) \/ Holds(scheduled, f)
                            \/ Holds(delivered, f)
      BY <2>1, <2>2 DEF Past, One
    <2>4. Holds(delivered, f) <=> f = Shown
      BY <1>1 DEF Holds, Shown, Frames
    <2>5. QED
      BY <2>3, <2>4 DEF InFlight
  <1>4. Past' = (InFlight \cup Past \cup {Shown}) \ {0}
    <2>1. Past' \subseteq Frames /\ InFlight \subseteq Frames /\ Past \subseteq Frames
            /\ Shown \in Frames \cup {0} /\ 0 \notin Frames
      BY <1>1 DEF Past, InFlight, Shown, ActiveHasFrame, Frames
    <2>2. QED
      BY <1>3, <2>1
  <1>5. QED
    BY <1>2, <1>4 DEF Pipeline!Close, Pipeline!Known, CompleteInFlight, Shown, Past

\* Every step of MultiCompositor is a step of the pipeline, or none.
LEMMA StepSimulates == FInv /\ [Next]_vars => [Pipeline!Next]_(Pipeline!vars)
  <1> SUFFICES ASSUME FInv, [Next]_vars PROVE Pipeline!Next \/ UNCHANGED Pipeline!vars
    OBVIOUS
  <1> USE DEF slotVars, histVars
  <1>1. CASE DestroyClear
    BY <1>1, DestroyCloses DEF Pipeline!Next
  <1>2. CASE WaitForWaitThread
    <2>1. CASE PushedOrWaiting
      BY <1>2, <2>1, AbstractUnchanged DEF WaitForWaitThread
    <2>2. CASE ~PushedOrWaiting
      BY <1>2, <2>2, FillSubmits DEF Pipeline!Next
    <2>3. QED
      BY <2>1, <2>2
  <1>3. CASE Unblock
    <2>1. CASE wt.blocked
      BY <1>3, <2>1, AbstractUnchanged DEF Unblock
    <2>2. CASE ~wt.blocked
      BY <1>3, <2>2, FillSubmits DEF Pipeline!Next
    <2>3. QED
      BY <2>1, <2>2
  <1>4. CASE AddLayer
    <2>1. InFlight' = InFlight
      BY <1>4 DEF AddLayer, InFlight, Holds, FInv, IInv, TypeOK, SlotTypes, Slot
    <2>2. QED
      BY <1>4, <2>1 DEF AddLayer, Pipeline!vars
  <1>5. CASE LayerCommit
    <2>1. appPc = "layers" /\ progress.frame_id \in Frames /\ gpu[progress.frame_id] = "none"
      <3>1. appPc = "layers" /\ progress.frame_id = begunFrame /\ begunFrame \in Frames
        BY <1>5 DEF LayerCommit, FInv, ProgressUse, AppOwnsProgress, IInv, SubmitsFrame,
          ActiveHasFrame
      <3>2. QED
        BY <3>1 DEF FInv, FrameOrder, AfterCommit, Frames, NoFrame, IInv, TypeOK, SlotTypes
    <2>2. gpu \in [Frames -> {"none", "pending", "signalled", "unfenced"}]
      BY DEF FInv, IInv, TypeOK, SlotTypes
    <2>3. CASE gpu' = [gpu EXCEPT ![progress.frame_id] = "pending"]
      <3>1. UNCHANGED <<InFlight, Shown, Past>>
        BY <1>5 DEF LayerCommit, InFlight, Shown, Past, Holds
      <3>2. CompleteInFlight' = CompleteInFlight
        BY <2>1, <2>2, <2>3, <3>1 DEF CompleteInFlight, InFlight
      <3>3. QED
        BY <3>1, <3>2 DEF Pipeline!vars, CompleteInFlight, Shown, Past
    <2>4. CASE gpu' = [gpu EXCEPT ![progress.frame_id] = "unfenced"]
      <3>1. PICK f \in Frames : f = progress.frame_id
        BY <2>1
      <3>2. UNCHANGED <<progress, scheduled, delivered, retired>>
        BY <1>5 DEF LayerCommit
      <3>3. Pipeline!Complete(f) \/ UNCHANGED Pipeline!vars
        BY <2>1, <2>2, <2>4, <3>1, <3>2, GpuCompletes
      <3>4. QED
        BY <3>3 DEF Pipeline!Next
    <2>5. QED
      BY <1>5, <2>3, <2>4 DEF LayerCommit
  <1>6. CASE AppMove
    <2>1. progress.active /\ GpuComplete(progress.frame_id)
      BY <1>6 DEF AppMove, FInv, IInv, SubmitsFrame, AppOwnsProgress, GpuState
    <2>2. QED
      BY <1>6, <2>1, MoveReplaces DEF AppMove, Pipeline!Next
  <1>7. CASE WaiterMove
    <2>1. progress.active /\ GpuComplete(progress.frame_id)
      BY <1>7 DEF WaiterMove, FInv, ProgressUse, WaiterWorks, WaiterBusy, GpuState
    <2>2. QED
      BY <1>7, <2>1, MoveReplaces DEF WaiterMove, Pipeline!Next
  <1>8. CASE RenderDeliver
    <2>1. CASE scheduled.active /\ scheduled.display_time <= renderDisplay
      <3>1. MoveScheduledToDelivered /\ UNCHANGED <<progress, gpu>>
        BY <1>8, <2>1 DEF RenderDeliver
      <3>2. QED
        BY <2>1, <3>1, DeliverShows DEF Pipeline!Next
    <2>2. CASE ~(scheduled.active /\ scheduled.display_time <= renderDisplay)
      BY <1>8, <2>2, AbstractUnchanged DEF RenderDeliver
    <2>3. QED
      BY <2>1, <2>2
  <1>9. CASE RenderLatch
    <2>1. CASE UNCHANGED <<retired, delivered>>
      BY <1>9, <2>1, AbstractUnchanged DEF RenderLatch
    <2>2. CASE delivered.active /\ retired' = Retire(delivered) /\ delivered' = ClearedSlot
      BY <1>9, <2>2, DropHides DEF RenderLatch, Pipeline!Next
    <2>3. QED
      BY <1>9, <2>1, <2>2 DEF RenderLatch
  <1>10. CASE \E f \in Frames : GpuDone(f)
    <2>1. PICK f \in Frames : GpuDone(f)
      BY <1>10
    <2>2. gpu \in [Frames -> {"none", "pending", "signalled", "unfenced"}]
      BY DEF FInv, IInv, TypeOK, SlotTypes
    <2>3. gpu[f] = "pending" /\ gpu' = [gpu EXCEPT ![f] = "signalled"]
            /\ UNCHANGED <<progress, scheduled, delivered, retired>>
      BY <2>1 DEF GpuDone
    <2>4. Pipeline!Complete(f) \/ UNCHANGED Pipeline!vars
      BY <2>2, <2>3, GpuCompletes
    <2>5. QED
      BY <2>4 DEF Pipeline!Next
  <1>11. CASE UNCHANGED <<progress, scheduled, delivered, gpu, retired>>
    BY <1>11, AbstractUnchanged
  <1>12. QED
    BY <1>1, <1>2, <1>3, <1>4, <1>5, <1>6, <1>7, <1>8, <1>9, <1>10, <1>11 DEF Next, App,
      Waiter, Render, World, vars, appVars, stateVars, waitVars, lockVars, renderVars,
      Create, CreateWaitAlive, Destroy, DestroyStop, DestroyJoin, BeginSession,
      EndSession, PredictFrame, MarkWoke, BeginFrame, DiscardBegun, DiscardWaited,
      LayerBegin, Push, AppMarkGpuDone, AppScheduledFree, AppTakeListLock,
      AppTakeSlotLock, WaiterStart, WaiterWake, WaiterFenceDone, WaiterMarkGpuDone,
      WaiterScheduledFree, WaiterTakeListLock, WaiterTakeSlotLock, WaiterFinish,
      RenderPredict, RenderWoke, RenderTakeListLock, RenderTakeSlotLock, RenderCopy,
      SetVisible, Tick, SpuriousWakeup

\* Frames are shown in the order they were submitted, none before its GPU work
\* is complete, and one that is not shown was replaced, hidden, or went away
\* with its client: the three slots implement the abstract frame pipeline.
THEOREM PipelineImplemented == Spec => ImplementsFramePipeline
  <1>1. Init => Pipeline!Init
    BY DEF Init, Pipeline!Init, InFlight, Holds, ZeroSlot
  <1>2. FInv /\ [Next]_vars => [Pipeline!Next]_(Pipeline!vars)
    BY StepSimulates
  <1>3. QED
    BY <1>1, <1>2, AlwaysFInv, PTL DEF Spec, ImplementsFramePipeline, Pipeline!Spec
=============================================================================
