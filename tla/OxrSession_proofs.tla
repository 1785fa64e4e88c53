------------------------- MODULE OxrSession_proofs -------------------------
(***************************************************************************)
(* Proofs about the OpenXR session: no frame is forgotten and the count of *)
(* waited frames is exact, in the first session of a handle; the states    *)
(* follow the life cycle, in all of them.                                  *)
(***************************************************************************)
EXTENDS OxrSession, FiniteSetTheorems, TLAPS

One(b) == IF b THEN 1 ELSE 0

\* The types without the one that depends on all the rest.
Shape ==
  /\ state \in States /\ statesLegal \in BOOLEAN
  /\ hasEndedOnce \in BOOLEAN /\ exiting \in BOOLEAN /\ hasLost \in BOOLEAN
  /\ compVisible \in BOOLEAN /\ compFocused \in BOOLEAN
  /\ waited \in Frames \cup {NoFrame} /\ begun \in Frames \cup {NoFrame}
  /\ frameStarted \in BOOLEAN /\ activeWaitFrames \in Int
  /\ running \in BOOLEAN /\ canWait \in {0, 1}
  /\ waitPc \in {"out", "sync", "asleep", "comp", "store", "failed"}
  /\ waitId \in Frames \cup {NoFrame}
  /\ appPc \in {"out", "begin", "release", "end", "gone"} /\ seenActive \in Int
  /\ sessions \in 0..MaxSession
  /\ comp \in [Frames -> {"none", "waited", "begun", "done"}]
  /\ sink \in [change : {"none", "show", "hide"}, lossPending : BOOLEAN, lost : BOOLEAN]
  /\ activity \in {"none", "pause", "resume"}

\* The application makes no call after the session is lost, but finishes the
\* one it is in.
CanGoOn == ~hasLost \/ appPc = "begin"

\* Only the thread that begins frames makes the count smaller, so what it read
\* is no more than what there is; and a frame that was begun is still counted.
Counts ==
  /\ activeWaitFrames >= 0 /\ seenActive >= 0
  /\ appPc = "begin" => seenActive <= activeWaitFrames
  /\ frameStarted /\ CanGoOn => activeWaitFrames >= 1

\* The frame that xrWaitFrame was given, and has not stored yet, is a third one.
Handed ==
  /\ waitPc = "store" <=> waitId # NoFrame
  /\ waitId # NoFrame => comp[waitId] = "waited" /\ waitId # waited
  /\ waited # NoFrame => comp[waited] = "waited"
  /\ begun # NoFrame => comp[begun] = "begun"

\* Calls work in a session that runs.
InSession == appPc \in {"begin", "release", "end"} => running

\* Before the first session.
Untouched ==
  sessions = 0 =>
    /\ ~running /\ canWait = 0 /\ waitPc = "out" /\ waited = NoFrame /\ begun = NoFrame
    /\ activeWaitFrames = 0 /\ ~frameStarted /\ \A f \in Frames : comp[f] = "none"

\* In the first session the right to wait is in one place at most: with the
\* semaphore, with the thread in xrWaitFrame, with the frame waited for, or with
\* xrBeginFrame, which gives it back to the semaphore.
Holding == waitPc \in {"comp", "store", "failed"}
OneRight ==
  sessions <= 1 =>
    /\ canWait = 1 => ~Holding /\ waited = NoFrame /\ appPc # "release"
    /\ Holding => waited = NoFrame /\ appPc # "release"
    /\ appPc = "release" => waited = NoFrame

\* The count is what the session holds, until the session ends or is lost.
Exact ==
  sessions <= 1 /\ running /\ CanGoOn /\ appPc # "end" =>
    /\ activeWaitFrames = One(waited # NoFrame) + One(begun # NoFrame)
    /\ frameStarted <=> begun # NoFrame

\* A frame that was not ended has its id somewhere.
Remembered ==
  sessions <= 1 =>
    \A f \in Frames : comp[f] \in {"waited", "begun"} => f \in {waited, begun, waitId}

\* The invariant of the frame loop, and that of the states on top of it.
FrameInv ==
  Shape /\ Counts /\ Handed /\ InSession /\ Untouched /\ OneRight /\ Exact /\ Remembered

\* What the state says of the session.  xrEndSession changes the state first,
\* and then ends the frame loop.
Shown == {"synchronized", "visible", "focused", "stopping"}
StatesMeet ==
  /\ statesLegal
  /\ state \in Shown => hasEndedOnce
  /\ appPc # "end" => /\ state \in {"idle", "ready"} => ~hasEndedOnce
                      /\ running => state \notin {"idle", "exiting"}
  /\ appPc = "end" => state \in {"idle", "ready", "exiting"}

StateInv == FrameInv /\ StatesMeet

(***************************************************************************)
(* Facts about the paths of states.                                        *)
(***************************************************************************)
Path(p) == p \in Seq(States) /\ Len(p) > 0
EndOf(p) == p[Len(p)]
Legal(p) == \A i \in 1..(Len(p) - 1) : Follows(p[i], p[i + 1])

\* A path with one more state.
LEMMA AppendPath ==
  ASSUME NEW p, Path(p), NEW b \in States
  PROVE  /\ Path(Append(p, b)) /\ EndOf(Append(p, b)) = b
         /\ Legal(p) /\ Follows(EndOf(p), b) => Legal(Append(p, b))
  <1>1. /\ Len(p) \in Nat /\ Append(p, b) \in Seq(States) /\ Len(Append(p, b)) = Len(p) + 1
        /\ Append(p, b)[Len(p) + 1] = b /\ \A i \in 1..Len(p) : Append(p, b)[i] = p[i]
    BY DEF Path
  <1>2. ASSUME Legal(p), Follows(EndOf(p), b), NEW i \in 1..Len(p)
        PROVE  Follows(Append(p, b)[i], Append(p, b)[i + 1])
    <2>1. CASE i = Len(p)
      BY <1>1, <1>2, <2>1 DEF EndOf
    <2>2. CASE i # Len(p)
      <3>1. i \in 1..(Len(p) - 1) /\ i + 1 \in 1..Len(p)
        BY <1>1, <2>2
      <3>2. Follows(p[i], p[i + 1])
        BY <1>2, <3>1 DEF Legal
      <3> QED BY <1>1, <3>1, <3>2
    <2> QED BY <2>1, <2>2
  <1> QED BY <1>1, <1>2 DEF Path, EndOf, Legal

\* The step is taken, or not.
LEMMA StepIfIs ==
  ASSUME NEW p, NEW a, NEW b, NEW cond
  PROVE  /\ EndOf(p) = a /\ cond => StepIf(p, a, b, cond) = Append(p, b)
         /\ ~(EndOf(p) = a /\ cond) => StepIf(p, a, b, cond) = p
  <1>1. ASSUME p[Len(p)] = a, cond PROVE StepIf(p, a, b, cond) = Append(p, b)
    BY <1>1, ZenonT(30) DEF StepIf
  <1>2. ASSUME ~(p[Len(p)] = a /\ cond) PROVE StepIf(p, a, b, cond) = p
    BY <1>2, ZenonT(30) DEF StepIf
  <1> QED BY <1>1, <1>2 DEF EndOf

\* A step of a path that is one of the life cycle, if it is taken.
LEMMA StepIfPath ==
  ASSUME NEW p, Path(p), NEW a, NEW b \in States, NEW cond \in BOOLEAN, <<a, b>> \in LifeCycle
  PROVE  /\ Path(StepIf(p, a, b, cond)) /\ (Legal(p) => Legal(StepIf(p, a, b, cond)))
         /\ EndOf(StepIf(p, a, b, cond)) = IF EndOf(p) = a /\ cond THEN b ELSE EndOf(p)
  <1>1. CASE EndOf(p) = a /\ cond
    <2>1. StepIf(p, a, b, cond) = Append(p, b)
      BY <1>1, StepIfIs
    <2>2. Follows(EndOf(p), b)
      BY <1>1, Zenon DEF Follows
    <2> QED BY <1>1, <2>1, <2>2, AppendPath
  <1>2. CASE ~(EndOf(p) = a /\ cond)
    <2>1. StepIf(p, a, b, cond) = p
      BY <1>2, StepIfIs
    <2> QED BY <1>2, <2>1
  <1> QED BY <1>1, <1>2

\* The path of one state.
LEMMA FirstPath ==
  ASSUME NEW a \in States PROVE Path(<<a>>) /\ Legal(<<a>>) /\ EndOf(<<a>>) = a
  BY DEF Path, Legal, EndOf

\* What a change of state along a path does.
LEMMA ChangeAlong ==
  ASSUME NEW p, Path(p), Legal(p), Change(p)
  PROVE  state' = EndOf(p) /\ state' \in States /\ (statesLegal => statesLegal')
  <1>1. EndOf(p) \in States
    BY DEF Path, EndOf
  <1>2. state' = EndOf(p) /\ (statesLegal => statesLegal')
    BY DEF Change, EndOf, Legal
  <1> QED BY <1>1, <1>2

\* do_synchronize_state_change, and the path of xrEndSession.
LEMMA SynchronizeOutcome ==
  ASSUME Shape, SynchronizeStateChange
  PROVE  \/ UNCHANGED <<state, statesLegal, hasEndedOnce>>
         \/ /\ ~hasEndedOnce /\ state \in {"idle", "ready", "synchronized"}
            /\ state' = "synchronized" /\ hasEndedOnce' = TRUE
            /\ statesLegal /\ state = "ready" => statesLegal'
  <1>1. CASE ~hasEndedOnce /\ state \in {"idle", "ready", "synchronized"}
    <2>1. Change(<<state, "synchronized">>) /\ hasEndedOnce' = TRUE
      BY <1>1 DEF SynchronizeStateChange
    <2>2. state' = "synchronized"
      BY <2>1 DEF Change
    <2>3. ASSUME statesLegal, state = "ready" PROVE statesLegal'
      <3>1. Path(<<"ready", "synchronized">>) /\ Legal(<<"ready", "synchronized">>)
        BY DEF Path, Legal, States, Follows, LifeCycle
      <3> QED BY <2>1, <2>3, <3>1, ChangeAlong
    <2> QED BY <1>1, <2>1, <2>2, <2>3
  <1>2. CASE ~(~hasEndedOnce /\ state \in {"idle", "ready", "synchronized"})
    BY <1>2 DEF SynchronizeStateChange, stateVars
  <1> QED BY <1>1, <1>2

LEMMA EndSessionOutcome ==
  ASSUME Shape, EndSession
  PROVE  /\ state = "stopping" /\ running /\ appPc = "out" /\ ~hasLost
         /\ comp' = Discarded({waited, begun})
         /\ waited' = NoFrame /\ begun' = NoFrame /\ frameStarted' = FALSE
         /\ UNCHANGED <<hasEndedOnce, exiting, compVisible, compFocused, activeWaitFrames,
                        running, canWait, waitPc, waitId, seenActive, sessions, sink, activity>>
         /\ \/ /\ state' \in {"idle", "ready", "exiting"} /\ statesLegal' = statesLegal
               /\ appPc' = "end" /\ hasLost' = hasLost
            \/ hasLost' = TRUE /\ UNCHANGED <<state, statesLegal, appPc>>
  <1>1. /\ state = "stopping" /\ running /\ appPc = "out" /\ ~hasLost
        /\ comp' = Discarded({waited, begun})
        /\ waited' = NoFrame /\ begun' = NoFrame /\ frameStarted' = FALSE
        /\ UNCHANGED <<hasEndedOnce, exiting, compVisible, compFocused, activeWaitFrames,
                       running, canWait, waitPc, waitId, seenActive, sessions, sink, activity>>
        /\ \/ /\ Change(IF exiting THEN <<state, "idle", "exiting">>
                        ELSE IF Android THEN <<state, "idle">> ELSE <<state, "idle", "ready">>)
              /\ appPc' = "end" /\ hasLost' = hasLost
           \/ hasLost' = TRUE /\ UNCHANGED <<state, statesLegal, appPc>>
    BY DEF EndSession, CanCall, compVars, syncVars, waitVars, worldVars, stateVars
  <1>2. ASSUME Change(IF exiting THEN <<state, "idle", "exiting">>
                      ELSE IF Android THEN <<state, "idle">> ELSE <<state, "idle", "ready">>)
        PROVE  state' \in {"idle", "ready", "exiting"} /\ statesLegal' = statesLegal
    <2>1. PICK p : /\ p \in {<<"stopping", "idle", "exiting">>, <<"stopping", "idle">>,
                             <<"stopping", "idle", "ready">>}
                   /\ Change(p)
      BY <1>1, <1>2
    <2>2. /\ Follows("stopping", "idle") /\ Follows("idle", "exiting")
          /\ Follows("idle", "ready")
      BY DEF Follows, LifeCycle
    <2>3. p[Len(p)] \in {"idle", "ready", "exiting"} /\ Legal(p)
      <3>1. CASE p = <<"stopping", "idle">>
        BY <2>2, <3>1 DEF Legal
      <3>2. CASE p = <<"stopping", "idle", "exiting">>
        <4>1. Len(p) = 3 /\ p[1] = "stopping" /\ p[2] = "idle" /\ p[3] = "exiting"
          BY <3>2
        <4> QED BY <4>1, <2>2 DEF Legal
      <3>3. CASE p = <<"stopping", "idle", "ready">>
        <4>1. Len(p) = 3 /\ p[1] = "stopping" /\ p[2] = "idle" /\ p[3] = "ready"
          BY <3>3
        <4> QED BY <4>1, <2>2 DEF Legal
      <3> QED BY <2>1, <3>1, <3>2, <3>3
    <2> QED BY <2>1, <2>3 DEF Change, Legal, Shape
  <1> QED BY <1>1, <1>2

\* xrRequestExitSession.
LEMMA ExitPath ==
  ASSUME Shape, RequestExit
  PROVE  /\ state' = "stopping" /\ hasEndedOnce' = TRUE
         /\ statesLegal /\ state \notin {"idle", "exiting"} /\ (state = "ready" => ~hasEndedOnce)
               /\ (state \in Shown => hasEndedOnce)
              => statesLegal'
  <1>a. PICK always \in BOOLEAN : always = TRUE
    OBVIOUS
  <1> DEFINE visible == StepIf(<<state>>, "focused", "visible", always)
             sync == StepIf(visible, "visible", "synchronized", always)
             faked == IF hasEndedOnce THEN sync ELSE Append(sync, "synchronized")
             all == Append(faked, "stopping")
  <1>0. Change(all) /\ hasEndedOnce' = TRUE
    BY <1>a DEF RequestExit
  <1>1. /\ state \in States /\ "visible" \in States /\ "synchronized" \in States
        /\ "stopping" \in States
    BY DEF Shape, States
  <1>2. Path(<<state>>) /\ Legal(<<state>>) /\ EndOf(<<state>>) = state
    BY <1>1, FirstPath
  <1>3. /\ Path(visible) /\ Legal(visible)
        /\ EndOf(visible) = IF state = "focused" THEN "visible" ELSE state
    <2>1. <<"focused", "visible">> \in LifeCycle
      BY DEF LifeCycle
    <2>2. /\ Path(visible) /\ (Legal(<<state>>) => Legal(visible))
          /\ EndOf(visible) = IF EndOf(<<state>>) = "focused" /\ always THEN "visible"
                              ELSE EndOf(<<state>>)
      BY <1>1, <1>2, <2>1, StepIfPath
    <2> HIDE DEF visible
    <2> QED BY <1>a, <1>2, <2>2
  <1> HIDE DEF visible
  <1>4. /\ Path(sync) /\ Legal(sync)
        /\ EndOf(sync) = IF EndOf(visible) = "visible" THEN "synchronized" ELSE EndOf(visible)
    <2>1. <<"visible", "synchronized">> \in LifeCycle
      BY DEF LifeCycle
    <2>2. /\ Path(sync) /\ (Legal(visible) => Legal(sync))
          /\ EndOf(sync) = IF EndOf(visible) = "visible" /\ always THEN "synchronized"
                           ELSE EndOf(visible)
      BY <1>1, <1>3, <2>1, StepIfPath
    <2> HIDE DEF sync
    <2> QED BY <1>a, <1>3, <2>2
  <1> HIDE DEF sync
  <1>5. /\ Path(faked) /\ EndOf(faked) = IF hasEndedOnce THEN EndOf(sync) ELSE "synchronized"
        /\ (~hasEndedOnce => Follows(EndOf(sync), "synchronized")) => Legal(faked)
    BY <1>1, <1>4, AppendPath
  <1> HIDE DEF faked
  <1>6. /\ Path(all) /\ EndOf(all) = "stopping"
        /\ Legal(faked) /\ Follows(EndOf(faked), "stopping") => Legal(all)
    BY <1>1, <1>5, AppendPath
  <1> HIDE DEF all
  <1>7. state' = "stopping"
    BY <1>0, <1>6 DEF Change, EndOf
  <1>8. ASSUME statesLegal, state \notin {"idle", "exiting"}, state = "ready" => ~hasEndedOnce,
               state \in Shown => hasEndedOnce
        PROVE  statesLegal'
    <2>1. EndOf(sync) \in {"ready", "synchronized", "stopping", "loss_pending"}
      BY <1>3, <1>4, <1>8 DEF Shape, States
    <2>2. EndOf(sync) = "ready" => state = "ready"
      BY <1>3, <1>4
    <2>3. EndOf(sync) \in {"synchronized", "stopping"} => state \in Shown
      BY <1>3, <1>4 DEF Shown
    <2>4. ~hasEndedOnce => Follows(EndOf(sync), "synchronized")
      BY <1>8, <2>1, <2>3 DEF Follows, LifeCycle
    <2>5. Follows(EndOf(faked), "stopping")
      <3>1. EndOf(faked) \in {"synchronized", "stopping", "loss_pending"}
        BY <1>5, <1>8, <2>1, <2>2
      <3> QED BY <3>1 DEF Follows, LifeCycle
    <2> QED BY <1>0, <1>5, <1>6, <1>8, <2>4, <2>5, ChangeAlong
  <1> QED BY <1>0, <1>7, <1>8

\* xrPollEvent goes along the life cycle whatever it finds, and takes a session
\* no further than the events allow.
Leads(a, b) ==
  /\ a \in Shown => b \in Shown \cup {"loss_pending"}
  /\ a = "idle" => b \in {"idle", "ready", "loss_pending"}
  /\ a = "ready" => b \in {"ready", "loss_pending"}
  /\ a = "exiting" => b \in {"exiting", "loss_pending"}
  /\ a = "loss_pending" => b = "loss_pending"

\* A stretch of the path is legal and leads from where it started to its end.
Reaches(p) == Path(p) /\ Legal(p) /\ Leads(state, EndOf(p))

LEMMA ReachesOn ==
  ASSUME NEW p, Reaches(p), NEW cond \in BOOLEAN, NEW a, NEW b, state \in States,
         <<a, b>> \in {<<"synchronized", "visible">>, <<"visible", "focused">>,
                       <<"focused", "visible">>, <<"visible", "synchronized">>,
                       <<"synchronized", "stopping">>, <<"idle", "ready">>}
  PROVE  Reaches(StepIf(p, a, b, cond))
  <1> DEFINE q == StepIf(p, a, b, cond)
  <1>1. <<a, b>> \in LifeCycle /\ b \in States
    BY DEF LifeCycle, States
  <1>2. Path(q) /\ Legal(q) /\ EndOf(q) = IF EndOf(p) = a /\ cond THEN b ELSE EndOf(p)
    BY <1>1, StepIfPath DEF Reaches
  <1> HIDE DEF q
  <1>3. Leads(state, b) \/ EndOf(p) # a
    <2>1. CASE a = "idle" /\ b = "ready"
      BY <2>1 DEF Leads, Reaches, Shown, States
    <2>2. CASE a \in Shown /\ b \in Shown
      BY <2>2 DEF Leads, Reaches, Shown, States
    <2> QED BY <2>1, <2>2 DEF Shown
  <1> QED BY <1>2, <1>3 DEF Reaches, q

LEMMA PollOutcome ==
  ASSUME Shape, Poll
  PROVE  /\ state' \in States /\ Leads(state, state') /\ (statesLegal => statesLegal')
         /\ compVisible' \in BOOLEAN /\ compFocused' \in BOOLEAN
  <1> DEFINE showing == IF sink.change = "none" THEN compVisible ELSE sink.change = "show"
             focused == IF sink.change = "none" THEN compFocused ELSE sink.change = "show"
             pausing == Android /\ activity = "pause"
             resuming == Android /\ activity = "resume"
             p1 == StepIf(<<state>>, "focused", "visible", pausing)
             p2 == StepIf(p1, "visible", "synchronized", pausing)
             p3 == StepIf(p2, "synchronized", "stopping", pausing)
             p4 == StepIf(p3, "idle", "ready", resuming)
             p5 == IF sink.lossPending THEN Append(p4, "loss_pending") ELSE p4
             p6 == StepIf(p5, "synchronized", "visible", showing)
             p7 == StepIf(p6, "visible", "focused", focused)
             p8 == StepIf(p7, "focused", "visible", ~focused)
             p9 == StepIf(p8, "visible", "synchronized", ~showing)
  <1>0. Change(p9) /\ compVisible' = showing /\ compFocused' = focused
    BY DEF Poll
  <1>a. /\ showing \in BOOLEAN /\ focused \in BOOLEAN /\ state \in States
        /\ pausing \in BOOLEAN /\ resuming \in BOOLEAN
        /\ (~showing) \in BOOLEAN /\ (~focused) \in BOOLEAN
    BY DEF Shape
  <1> HIDE DEF showing, focused, pausing, resuming
  <1>b. Reaches(<<state>>)
    BY <1>a, FirstPath DEF Reaches, Leads
  <1>1. Reaches(p1)
    BY <1>a, <1>b, ReachesOn
  <1> HIDE DEF p1
  <1>2. Reaches(p2)
    BY <1>a, <1>1, ReachesOn
  <1> HIDE DEF p2
  <1>3. Reaches(p3)
    BY <1>a, <1>2, ReachesOn
  <1> HIDE DEF p3
  <1>4. Reaches(p4)
    BY <1>a, <1>3, ReachesOn
  <1> HIDE DEF p4
  <1>5. Reaches(p5)
    <2>1. "loss_pending" \in States /\ Follows(EndOf(p4), "loss_pending")
      BY DEF States, Follows
    <2>2. /\ Path(Append(p4, "loss_pending")) /\ Legal(Append(p4, "loss_pending"))
          /\ EndOf(Append(p4, "loss_pending")) = "loss_pending"
      BY <1>4, <2>1, AppendPath DEF Reaches
    <2>3. Leads(state, "loss_pending")
      BY DEF Leads
    <2> QED BY <1>4, <2>2, <2>3 DEF Reaches
  <1> HIDE DEF p5
  <1>6. Reaches(p6)
    BY <1>a, <1>5, ReachesOn
  <1> HIDE DEF p6
  <1>7. Reaches(p7)
    BY <1>a, <1>6, ReachesOn
  <1> HIDE DEF p7
  <1>8. Reaches(p8)
    BY <1>a, <1>7, ReachesOn
  <1> HIDE DEF p8
  <1>9. Reaches(p9)
    BY <1>a, <1>8, ReachesOn
  <1> HIDE DEF p9
  <1> QED BY <1>0, <1>a, <1>9, ChangeAlong DEF Reaches

\* xrEndFrame, with or without layers.
LEMMA EndFrameOutcome ==
  ASSUME EndFrameDiscard \/ EndFrameCommit
  PROVE  /\ appPc = "out" /\ ~hasLost /\ running /\ frameStarted
         /\ UNCHANGED <<exiting, compVisible, compFocused, waited, running, canWait, waitPc,
                        waitId, appPc, seenActive, sessions, sink, activity>>
         /\ \/ /\ comp' = Discarded({begun}) /\ begun' = NoFrame /\ frameStarted' = FALSE
               /\ activeWaitFrames' = activeWaitFrames - 1 /\ hasLost' = hasLost
            \/ /\ hasLost' = TRUE /\ UNCHANGED <<comp, begun, frameStarted>>
               /\ activeWaitFrames' \in {activeWaitFrames, activeWaitFrames - 1}
         /\ SynchronizeStateChange \/ UNCHANGED <<state, statesLegal, hasEndedOnce>>
  BY DEF EndFrameDiscard, EndFrameCommit, CanCall, compVars, syncVars, waitVars, appVars,
    worldVars, stateVars

\* What is discarded, and what is not.
LEMMA DiscardedFrames ==
  ASSUME Shape, NEW frames
  PROVE  /\ Discarded(frames) \in [Frames -> {"none", "waited", "begun", "done"}]
         /\ \A f \in Frames : f \in frames => Discarded(frames)[f] = "done"
         /\ \A f \in Frames : f \notin frames => Discarded(frames)[f] = comp[f]
  BY DEF Discarded, Shape

\* Types.
LEMMA ShapeStep == FrameInv /\ [Next]_vars => Shape'
  <1> SUFFICES ASSUME FrameInv, [Next]_vars PROVE Shape'
    OBVIOUS
  <1> USE DEF FrameInv, stateVars, compVars, syncVars, waitVars, appVars,
      frameVars, worldVars
  <1>1. ASSUME WaitFrame PROVE Shape'
    BY <1>1 DEF WaitFrame, Shape
  <1>2. ASSUME WaitFrameSync PROVE Shape'
    BY <1>2 DEF WaitFrameSync, Shape
  <1>3. ASSUME WaitFrameComp PROVE Shape'
    <2>1. comp' \in [Frames -> {"none", "waited", "begun", "done"}]
      BY <1>3 DEF WaitFrameComp, Shape
    <2>2. waitId' \in Frames \cup {NoFrame}
      BY <1>3 DEF WaitFrameComp, Shape
    <2>3. waitPc' \in {"out", "sync", "asleep", "comp", "store", "failed"} /\ hasLost' \in BOOLEAN
      BY <1>3 DEF WaitFrameComp, Shape
    <2> QED BY <1>3, <2>1, <2>2, <2>3 DEF WaitFrameComp, Shape
  <1>4. ASSUME WaitFrameStore PROVE Shape'
    BY <1>4 DEF WaitFrameStore, Shape
  <1>5. ASSUME WaitFrameRelease PROVE Shape'
    BY <1>5 DEF WaitFrameRelease, Shape
  <1>6. ASSUME SpuriousWakeup PROVE Shape'
    BY <1>6 DEF SpuriousWakeup, Shape
  <1>7. ASSUME BeginFrame PROVE Shape'
    BY <1>7 DEF BeginFrame, Shape
  <1>8. ASSUME BeginFrameRefused PROVE Shape'
    BY <1>8 DEF BeginFrameRefused, Shape
  <1>9. ASSUME BeginFrameWork PROVE Shape'
    <2>1. comp' \in [Frames -> {"none", "waited", "begun", "done"}]
      BY <1>9 DEF BeginFrameWork, Discarded, Shape
    <2>2. activeWaitFrames' \in Int
      BY <1>9 DEF BeginFrameWork, Shape
    <2> QED BY <1>9, <2>1, <2>2 DEF BeginFrameWork, Shape
  <1>10. ASSUME BeginFrameFails PROVE Shape'
    <2>1. comp' \in [Frames -> {"none", "waited", "begun", "done"}]
      BY <1>10, DiscardedFrames DEF BeginFrameFails, Shape
    <2>2. activeWaitFrames' \in Int
      BY <1>10 DEF BeginFrameFails, Shape
    <2>3. waited' \in Frames \cup {NoFrame} /\ begun' \in Frames \cup {NoFrame}
      BY <1>10 DEF BeginFrameFails, Shape
    <2>4. frameStarted' \in BOOLEAN
      BY <1>10 DEF BeginFrameFails, Shape
    <2> QED BY <1>10, <2>1, <2>2, <2>3, <2>4 DEF BeginFrameFails, Shape
  <1>11. ASSUME BeginFrameRelease PROVE Shape'
    BY <1>11 DEF BeginFrameRelease, Shape, Wake
  <1>12. ASSUME EndSessionSync PROVE Shape'
    <2>1. waitPc' \in {"out", "sync", "asleep", "comp", "store", "failed"}
      BY <1>12 DEF EndSessionSync, Wake, Shape
    <2>2. /\ running' \in BOOLEAN /\ hasEndedOnce' \in BOOLEAN /\ appPc' = "out"
          /\ UNCHANGED <<stateVars, exiting, hasLost, compVars, frameVars, canWait, waitId,
                         seenActive, sessions, comp, worldVars>>
      BY <1>12 DEF EndSessionSync
    <2> QED BY <2>1, <2>2 DEF Shape
  <1>13. ASSUME EndFrameDiscard PROVE Shape'
    <2>1. state' \in States /\ statesLegal' \in BOOLEAN /\ hasEndedOnce' \in BOOLEAN
      <3>1. SynchronizeStateChange \/ UNCHANGED <<state, statesLegal, hasEndedOnce>>
        BY <1>13, EndFrameOutcome
      <3>2. SynchronizeStateChange => state' \in States /\ hasEndedOnce' \in BOOLEAN
        BY SynchronizeOutcome DEF Shape, States
      <3>3. SynchronizeStateChange => statesLegal' \in BOOLEAN
        BY DEF SynchronizeStateChange, Change, Shape, stateVars
      <3> QED BY <3>1, <3>2, <3>3 DEF Shape
    <2>2. comp' \in [Frames -> {"none", "waited", "begun", "done"}]
      BY <1>13, EndFrameOutcome, DiscardedFrames DEF Shape
    <2>3. /\ activeWaitFrames' \in Int /\ frameStarted' \in BOOLEAN /\ hasLost' \in BOOLEAN
          /\ begun' \in Frames \cup {NoFrame}
      <3>1. \/ /\ begun' = NoFrame /\ frameStarted' = FALSE
               /\ activeWaitFrames' = activeWaitFrames - 1 /\ hasLost' = hasLost
            \/ /\ hasLost' = TRUE /\ UNCHANGED <<begun, frameStarted>>
               /\ activeWaitFrames' \in {activeWaitFrames, activeWaitFrames - 1}
        BY <1>13, EndFrameOutcome
      <3>2. begun' \in Frames \cup {NoFrame} /\ frameStarted' \in BOOLEAN /\ hasLost' \in BOOLEAN
        BY <3>1 DEF Shape
      <3>3. activeWaitFrames' \in Int
        BY <3>1 DEF Shape
      <3> QED BY <3>2, <3>3
    <2>4. UNCHANGED <<exiting, compVisible, compFocused, waited, running, canWait, waitPc,
                      waitId, appPc, seenActive, sessions, sink, activity>>
      BY <1>13, EndFrameOutcome
    <2> QED BY <2>1, <2>2, <2>3, <2>4 DEF Shape
  <1>14. ASSUME EndFrameCommit PROVE Shape'
    <2>1. state' \in States /\ statesLegal' \in BOOLEAN /\ hasEndedOnce' \in BOOLEAN
      <3>1. SynchronizeStateChange \/ UNCHANGED <<state, statesLegal, hasEndedOnce>>
        BY <1>14, EndFrameOutcome
      <3>2. SynchronizeStateChange => state' \in States /\ hasEndedOnce' \in BOOLEAN
        BY SynchronizeOutcome DEF Shape, States
      <3>3. SynchronizeStateChange => statesLegal' \in BOOLEAN
        BY DEF SynchronizeStateChange, Change, Shape, stateVars
      <3> QED BY <3>1, <3>2, <3>3 DEF Shape
    <2>2. comp' \in [Frames -> {"none", "waited", "begun", "done"}]
      BY <1>14, EndFrameOutcome, DiscardedFrames DEF Shape
    <2>3. /\ activeWaitFrames' \in Int /\ frameStarted' \in BOOLEAN /\ hasLost' \in BOOLEAN
          /\ begun' \in Frames \cup {NoFrame}
      <3>1. \/ /\ begun' = NoFrame /\ frameStarted' = FALSE
               /\ activeWaitFrames' = activeWaitFrames - 1 /\ hasLost' = hasLost
            \/ /\ hasLost' = TRUE /\ UNCHANGED <<begun, frameStarted>>
               /\ activeWaitFrames' \in {activeWaitFrames, activeWaitFrames - 1}
        BY <1>14, EndFrameOutcome
      <3>2. begun' \in Frames \cup {NoFrame} /\ frameStarted' \in BOOLEAN /\ hasLost' \in BOOLEAN
        BY <3>1 DEF Shape
      <3>3. activeWaitFrames' \in Int
        BY <3>1 DEF Shape
      <3> QED BY <3>2, <3>3
    <2>4. UNCHANGED <<exiting, compVisible, compFocused, waited, running, canWait, waitPc,
                      waitId, appPc, seenActive, sessions, sink, activity>>
      BY <1>14, EndFrameOutcome
    <2> QED BY <2>1, <2>2, <2>3, <2>4 DEF Shape
  <1>15. ASSUME BeginSession PROVE Shape'
    <2>1. sessions' \in 0..MaxSession
      BY <1>15, MaxSessionAssumption DEF BeginSession, Shape
    <2>2. running' \in BOOLEAN /\ canWait' \in {0, 1} /\ hasLost' \in BOOLEAN
      BY <1>15 DEF BeginSession, Shape
    <2>3. waitPc' \in {"out", "sync", "asleep", "comp", "store", "failed"}
      BY <1>15 DEF BeginSession, Wake, Shape
    <2> QED BY <1>15, <2>1, <2>2, <2>3 DEF BeginSession, Shape
  <1>16. ASSUME EndSession PROVE Shape'
    <2>1. comp' \in [Frames -> {"none", "waited", "begun", "done"}]
      BY <1>16, EndSessionOutcome, DiscardedFrames
    <2>2. state' \in States
      BY <1>16, EndSessionOutcome DEF Shape, States
    <2>3. statesLegal' \in BOOLEAN /\ appPc' \in {"out", "begin", "release", "end", "gone"}
      BY <1>16, EndSessionOutcome DEF Shape
    <2>4. hasLost' \in BOOLEAN
      BY <1>16, EndSessionOutcome DEF Shape
    <2>5. /\ waited' = NoFrame /\ begun' = NoFrame /\ frameStarted' \in BOOLEAN
          /\ UNCHANGED <<hasEndedOnce, exiting, compVisible, compFocused, activeWaitFrames,
                         running, canWait, waitPc, waitId, seenActive, sessions, sink, activity>>
      BY <1>16, EndSessionOutcome
    <2> QED BY <2>1, <2>2, <2>3, <2>4, <2>5 DEF Shape
  <1>17. ASSUME RequestExit PROVE Shape'
    <2>1. state' \in States /\ hasEndedOnce' \in BOOLEAN
      BY <1>17, ExitPath DEF States
    <2>2. statesLegal' \in BOOLEAN
      BY <1>17 DEF RequestExit, Change, Shape
    <2>3. exiting' \in BOOLEAN
      BY <1>17 DEF RequestExit
    <2> QED BY <1>17, <2>1, <2>2, <2>3 DEF RequestExit, Shape
  <1>18. ASSUME Poll PROVE Shape'
    <2>1. state' \in States /\ compVisible' \in BOOLEAN /\ compFocused' \in BOOLEAN
      BY <1>18, PollOutcome
    <2>2. statesLegal' \in BOOLEAN
      BY <1>18 DEF Poll, Change, Shape
    <2>3. hasLost' \in BOOLEAN
      BY <1>18 DEF Poll, Shape
    <2>4. sink' \in [change : {"none", "show", "hide"}, lossPending : BOOLEAN, lost : BOOLEAN]
      BY <1>18 DEF Poll, NoEvents
    <2>5. UNCHANGED <<hasEndedOnce, exiting, frameVars, syncVars, waitVars, appVars, sessions,
                      comp, activity>>
      BY <1>18 DEF Poll
    <2> QED BY <2>1, <2>2, <2>3, <2>4, <2>5 DEF Shape
  <1>19. ASSUME Destroy PROVE Shape'
    <2>1. /\ running' \in BOOLEAN /\ canWait' = 0 /\ appPc' = "gone"
          /\ UNCHANGED <<stateVars, hasEndedOnce, exiting, hasLost, compVars, frameVars, waitVars,
                         seenActive, sessions, comp, worldVars>>
      BY <1>19 DEF Destroy
    <2> QED BY <2>1 DEF Shape
  <1>20. ASSUME Event PROVE Shape'
    <2>1. sink' \in [change : {"none", "show", "hide"}, lossPending : BOOLEAN, lost : BOOLEAN]
      <3>1. sink \in [change : {"none", "show", "hide"}, lossPending : BOOLEAN, lost : BOOLEAN]
        BY DEF Shape
      <3>2. \/ \E c \in {"show", "hide"} : sink' = [sink EXCEPT !.change = c]
            \/ sink' = [sink EXCEPT !.lossPending = TRUE]
            \/ sink' = [sink EXCEPT !.lost = TRUE]
        BY <1>20 DEF Event
      <3> QED BY <3>1, <3>2
    <2>2. UNCHANGED <<stateVars, hasEndedOnce, exiting, hasLost, compVars, frameVars, syncVars,
                      waitVars, appVars, sessions, comp, activity>>
      BY <1>20 DEF Event
    <2> QED BY <2>1, <2>2 DEF Shape
  <1>21. ASSUME Lifecycle PROVE Shape'
    BY <1>21 DEF Lifecycle, Shape
  <1>22. ASSUME UNCHANGED <<state, statesLegal, hasEndedOnce, exiting, hasLost,
      compVisible, compFocused, waited, begun, frameStarted, activeWaitFrames,
      running, canWait, waitPc, waitId, appPc, seenActive, sessions, comp, sink,
      activity>> PROVE Shape'
    BY <1>22 DEF Shape
  <1>23. QED
    BY <1>1, <1>2, <1>3, <1>4, <1>5, <1>6, <1>7, <1>8, <1>9, <1>10, <1>11,
      <1>12, <1>13, <1>14, <1>15, <1>16, <1>17, <1>18, <1>19, <1>20, <1>21,
      <1>22 DEF Next, Waiter, AppContinues, Gone, vars

\* The count stays above zero, in every session.
LEMMA CountsStep == FrameInv /\ [Next]_vars => Counts'
  <1> SUFFICES ASSUME FrameInv, [Next]_vars PROVE Counts'
    OBVIOUS
  <1> USE DEF FrameInv, appVars, frameVars
  <1>1. ASSUME WaitFrameComp PROVE Counts'
    BY <1>1 DEF WaitFrameComp, Counts, CanGoOn, Shape
  <1>2. ASSUME WaitFrameStore PROVE Counts'
    BY <1>2 DEF WaitFrameStore, Counts, CanGoOn, Shape
  <1>3. ASSUME BeginFrame PROVE Counts'
    BY <1>3 DEF BeginFrame, Counts, CanGoOn, Shape, CanCall
  <1>4. ASSUME BeginFrameRefused PROVE Counts'
    BY <1>4 DEF BeginFrameRefused, Counts, CanGoOn, Shape
  <1>5. ASSUME BeginFrameWork PROVE Counts'
    BY <1>5 DEF BeginFrameWork, Counts, CanGoOn, Shape, BeginAccepted
  <1>6. ASSUME BeginFrameFails PROVE Counts'
    BY <1>6 DEF BeginFrameFails, Counts, CanGoOn, Shape, BeginAccepted
  <1>7. ASSUME BeginFrameRelease PROVE Counts'
    BY <1>7 DEF BeginFrameRelease, Counts, CanGoOn, Shape
  <1>8. ASSUME EndSessionSync PROVE Counts'
    BY <1>8 DEF EndSessionSync, Counts, CanGoOn, Shape
  <1>9. ASSUME EndFrameDiscard PROVE Counts'
    <2>1. appPc = "out" /\ ~hasLost /\ frameStarted /\ UNCHANGED <<appPc, seenActive>>
      BY <1>9, EndFrameOutcome
    <2>2. \/ frameStarted' = FALSE /\ activeWaitFrames' = activeWaitFrames - 1
          \/ /\ hasLost' = TRUE
             /\ activeWaitFrames' \in {activeWaitFrames, activeWaitFrames - 1}
      BY <1>9, EndFrameOutcome
    <2> QED BY <2>1, <2>2 DEF Counts, CanGoOn, Shape
  <1>10. ASSUME EndFrameCommit PROVE Counts'
    <2>1. appPc = "out" /\ ~hasLost /\ frameStarted /\ UNCHANGED <<appPc, seenActive>>
      BY <1>10, EndFrameOutcome
    <2>2. \/ frameStarted' = FALSE /\ activeWaitFrames' = activeWaitFrames - 1
          \/ /\ hasLost' = TRUE
             /\ activeWaitFrames' \in {activeWaitFrames, activeWaitFrames - 1}
      BY <1>10, EndFrameOutcome
    <2> QED BY <2>1, <2>2 DEF Counts, CanGoOn, Shape
  <1>11. ASSUME BeginSession PROVE Counts'
    BY <1>11 DEF BeginSession, Counts, CanGoOn, Shape
  <1>12. ASSUME EndSession PROVE Counts'
    <2>1. /\ appPc = "out" /\ appPc' \in {"out", "end"} /\ frameStarted' = FALSE
          /\ UNCHANGED <<activeWaitFrames, seenActive>>
      BY <1>12, EndSessionOutcome
    <2> QED BY <2>1 DEF Counts
  <1>13. ASSUME Poll PROVE Counts'
    BY <1>13 DEF Poll, Counts, CanGoOn, Shape
  <1>14. ASSUME Destroy PROVE Counts'
    BY <1>14 DEF Destroy, Counts, CanGoOn, Shape
  <1>15. ASSUME UNCHANGED <<activeWaitFrames, seenActive, appPc, frameStarted,
      hasLost>> PROVE Counts'
    BY <1>15 DEF Counts, CanGoOn, Shape
  <1>16. QED
    BY <1>1, <1>2, <1>3, <1>4, <1>5, <1>6, <1>7, <1>8, <1>9, <1>10, <1>11,
      <1>12, <1>13, <1>14, <1>15 DEF Next, Waiter, AppContinues, Gone, vars,
      stateVars, compVars, syncVars, waitVars, worldVars, WaitFrame,
      WaitFrameSync, WaitFrameRelease, SpuriousWakeup, RequestExit, Event,
      Lifecycle

\* The ids that the session and xrWaitFrame keep are frames of the compositor.
LEMMA HandedStep == FrameInv /\ [Next]_vars => Handed'
  <1> SUFFICES ASSUME FrameInv, [Next]_vars PROVE Handed'
    OBVIOUS
  <1> USE DEF FrameInv, waitVars, frameVars
  <1>1. ASSUME WaitFrame PROVE Handed'
    BY <1>1 DEF WaitFrame, Handed
  <1>2. ASSUME WaitFrameSync PROVE Handed'
    BY <1>2 DEF WaitFrameSync, Handed
  <1>3. ASSUME WaitFrameComp PROVE Handed'
    <2>1. waitId = NoFrame /\ UNCHANGED <<waited, begun>>
      BY <1>3 DEF WaitFrameComp, Handed
    <2>2. CASE waitPc' = "failed"
      BY <1>3, <2>1, <2>2 DEF WaitFrameComp, Handed
    <2>3. CASE waitPc' = "store"
      <3>1. PICK f \in Frames : comp[f] = "none" /\ comp' = [comp EXCEPT ![f] = "waited"] /\ waitId' = f
        BY <1>3, <2>3 DEF WaitFrameComp
      <3>2. f # NoFrame /\ f # waited /\ f # begun
        BY <3>1 DEF Frames, NoFrame, Handed
      <3>3. comp'[f] = "waited" /\ \A g \in Frames \ {f} : comp'[g] = comp[g]
        BY <3>1 DEF Shape
      <3> QED BY <2>1, <2>3, <3>1, <3>2, <3>3 DEF Handed, Shape
    <2> QED BY <1>3, <2>2, <2>3 DEF WaitFrameComp
  <1>4. ASSUME WaitFrameStore PROVE Handed'
    <2>1. /\ waited' = waitId /\ waitId' = NoFrame /\ waitPc' = "out" /\ waitId # NoFrame
          /\ UNCHANGED <<begun, comp>>
      BY <1>4 DEF WaitFrameStore, Handed
    <2> QED BY <2>1 DEF Handed
  <1>5. ASSUME WaitFrameRelease PROVE Handed'
    BY <1>5 DEF WaitFrameRelease, Handed
  <1>6. ASSUME SpuriousWakeup PROVE Handed'
    BY <1>6 DEF SpuriousWakeup, Handed
  <1>7. ASSUME BeginFrameWork PROVE Handed'
    <2>1. /\ comp' = [f \in Frames |-> IF f = waited THEN "begun" ELSE Discarded({begun})[f]]
          /\ begun' = waited /\ waited' = NoFrame /\ UNCHANGED <<waitPc, waitId>>
      BY <1>7 DEF BeginFrameWork
    <2>2. waitId # NoFrame => waitId \notin {waited, begun} /\ waitId \in Frames
      BY DEF Handed, Shape
    <2>3. waitId # NoFrame => comp'[waitId] = comp[waitId]
      BY <2>1, <2>2, DiscardedFrames
    <2>4. waited # NoFrame => comp'[waited] = "begun"
      BY <2>1 DEF Shape
    <2> QED BY <2>1, <2>2, <2>3, <2>4 DEF Handed
  <1>8. ASSUME BeginFrameFails PROVE Handed'
    <2>1. UNCHANGED <<waitPc, waitId, waited>>
      BY <1>8 DEF BeginFrameFails
    <2>2. \/ comp' = Discarded({begun}) /\ begun' = NoFrame
          \/ UNCHANGED <<comp, begun>>
      BY <1>8 DEF BeginFrameFails
    <2>3. /\ waitId # NoFrame => Discarded({begun})[waitId] = comp[waitId]
          /\ waited # NoFrame => Discarded({begun})[waited] = comp[waited]
      BY DiscardedFrames DEF Handed, Shape
    <2> QED BY <2>1, <2>2, <2>3 DEF Handed
  <1>9. ASSUME BeginFrameRelease PROVE Handed'
    BY <1>9 DEF BeginFrameRelease, Handed, Wake
  <1>10. ASSUME EndSessionSync PROVE Handed'
    BY <1>10 DEF EndSessionSync, Handed, Wake
  <1>11. ASSUME EndFrameDiscard PROVE Handed'
    <2>1. UNCHANGED <<waited, waitPc, waitId>>
      BY <1>11, EndFrameOutcome
    <2>2. \/ comp' = Discarded({begun}) /\ begun' = NoFrame
          \/ UNCHANGED <<comp, begun>>
      BY <1>11, EndFrameOutcome
    <2>3. /\ waitId # NoFrame => Discarded({begun})[waitId] = comp[waitId]
          /\ waited # NoFrame => Discarded({begun})[waited] = comp[waited]
      BY DiscardedFrames DEF Handed, Shape
    <2> QED BY <2>1, <2>2, <2>3 DEF Handed
  <1>12. ASSUME EndFrameCommit PROVE Handed'
    <2>1. UNCHANGED <<waited, waitPc, waitId>>
      BY <1>12, EndFrameOutcome
    <2>2. \/ comp' = Discarded({begun}) /\ begun' = NoFrame
          \/ UNCHANGED <<comp, begun>>
      BY <1>12, EndFrameOutcome
    <2>3. /\ waitId # NoFrame => Discarded({begun})[waitId] = comp[waitId]
          /\ waited # NoFrame => Discarded({begun})[waited] = comp[waited]
      BY DiscardedFrames DEF Handed, Shape
    <2> QED BY <2>1, <2>2, <2>3 DEF Handed
  <1>13. ASSUME BeginSession PROVE Handed'
    BY <1>13 DEF BeginSession, Handed, Wake
  <1>14. ASSUME EndSession PROVE Handed'
    <2>1. /\ comp' = Discarded({waited, begun}) /\ waited' = NoFrame /\ begun' = NoFrame
          /\ UNCHANGED <<waitPc, waitId>>
      BY <1>14, EndSessionOutcome
    <2>2. waitId # NoFrame => Discarded({waited, begun})[waitId] = comp[waitId]
      BY DiscardedFrames DEF Handed, Shape
    <2> QED BY <2>1, <2>2 DEF Handed
  <1>15. ASSUME UNCHANGED <<waitPc, waitId, waited, begun, comp>> PROVE Handed'
    BY <1>15 DEF Handed
  <1>16. QED
    BY <1>1, <1>2, <1>3, <1>4, <1>5, <1>6, <1>7, <1>8, <1>9, <1>10, <1>11,
      <1>12, <1>13, <1>14, <1>15 DEF Next, Waiter, AppContinues, Gone, vars,
      stateVars, compVars, syncVars, appVars, worldVars, BeginFrame,
      BeginFrameRefused, RequestExit, Poll, Destroy, Event, Lifecycle

\* A call works in a session that runs.
LEMMA InSessionStep == FrameInv /\ [Next]_vars => InSession'
  <1> SUFFICES ASSUME FrameInv, [Next]_vars PROVE InSession'
    OBVIOUS
  <1> USE DEF FrameInv, syncVars, appVars
  <1>1. ASSUME BeginFrame PROVE InSession'
    BY <1>1 DEF BeginFrame, InSession, CanCall
  <1>2. ASSUME BeginFrameRefused PROVE InSession'
    BY <1>2 DEF BeginFrameRefused, InSession, CanCall
  <1>3. ASSUME BeginFrameWork PROVE InSession'
    BY <1>3 DEF BeginFrameWork, InSession, CanCall
  <1>4. ASSUME BeginFrameFails PROVE InSession'
    BY <1>4 DEF BeginFrameFails, InSession, CanCall
  <1>5. ASSUME BeginFrameRelease PROVE InSession'
    BY <1>5 DEF BeginFrameRelease, InSession, CanCall
  <1>6. ASSUME EndSessionSync PROVE InSession'
    BY <1>6 DEF EndSessionSync, InSession, CanCall
  <1>7. ASSUME BeginSession PROVE InSession'
    BY <1>7 DEF BeginSession, InSession, CanCall
  <1>8. ASSUME EndSession PROVE InSession'
    <2>1. running /\ UNCHANGED running
      BY <1>8, EndSessionOutcome
    <2> QED BY <2>1 DEF InSession
  <1>9. ASSUME Destroy PROVE InSession'
    BY <1>9 DEF Destroy, InSession, CanCall
  <1>10. ASSUME UNCHANGED <<appPc, running>> PROVE InSession'
    BY <1>10 DEF InSession, CanCall
  <1>11. QED
    BY <1>1, <1>2, <1>3, <1>4, <1>5, <1>6, <1>7, <1>8, <1>9, <1>10 DEF Next,
      Waiter, AppContinues, Gone, vars, stateVars, compVars, waitVars,
      frameVars, worldVars, WaitFrame, WaitFrameSync, WaitFrameComp,
      WaitFrameStore, WaitFrameRelease, SpuriousWakeup, EndFrameDiscard,
      EndFrameCommit, RequestExit, Poll, Event, Lifecycle

\* Nothing happens before the first session.
LEMMA UntouchedStep == FrameInv /\ [Next]_vars => Untouched'
  <1> SUFFICES ASSUME FrameInv, [Next]_vars PROVE Untouched'
    OBVIOUS
  <1> USE DEF FrameInv, syncVars, waitVars, frameVars
  <1>1. ASSUME WaitFrame PROVE Untouched'
    BY <1>1 DEF WaitFrame, Untouched, InSession
  <1>2. ASSUME WaitFrameSync PROVE Untouched'
    BY <1>2 DEF WaitFrameSync, Untouched, InSession
  <1>3. ASSUME WaitFrameComp PROVE Untouched'
    BY <1>3 DEF WaitFrameComp, Untouched, InSession
  <1>4. ASSUME WaitFrameStore PROVE Untouched'
    BY <1>4 DEF WaitFrameStore, Untouched, InSession
  <1>5. ASSUME WaitFrameRelease PROVE Untouched'
    BY <1>5 DEF WaitFrameRelease, Untouched, InSession
  <1>6. ASSUME SpuriousWakeup PROVE Untouched'
    BY <1>6 DEF SpuriousWakeup, Untouched, InSession
  <1>7. ASSUME BeginFrameWork PROVE Untouched'
    BY <1>7 DEF BeginFrameWork, Untouched, InSession
  <1>8. ASSUME BeginFrameFails PROVE Untouched'
    BY <1>8 DEF BeginFrameFails, Untouched, InSession
  <1>9. ASSUME BeginFrameRelease PROVE Untouched'
    BY <1>9 DEF BeginFrameRelease, Untouched, InSession, Wake
  <1>10. ASSUME EndSessionSync PROVE Untouched'
    BY <1>10 DEF EndSessionSync, Untouched, InSession, Wake
  <1>11. ASSUME EndFrameDiscard PROVE Untouched'
    <2>1. running /\ UNCHANGED sessions
      BY <1>11, EndFrameOutcome
    <2> QED BY <2>1 DEF Untouched
  <1>12. ASSUME EndFrameCommit PROVE Untouched'
    <2>1. running /\ UNCHANGED sessions
      BY <1>12, EndFrameOutcome
    <2> QED BY <2>1 DEF Untouched
  <1>13. ASSUME BeginSession PROVE Untouched'
    <2>1. CASE sessions' = sessions + 1
      <3>1. sessions' # 0
        BY <2>1 DEF Shape
      <3> QED BY <3>1 DEF Untouched
    <2>2. CASE hasLost' = TRUE /\ UNCHANGED <<running, canWait, waitPc, sessions>>
      BY <1>13, <2>2 DEF BeginSession, Untouched
    <2> QED BY <1>13, <2>1, <2>2 DEF BeginSession
  <1>14. ASSUME EndSession PROVE Untouched'
    <2>1. running /\ UNCHANGED sessions
      BY <1>14, EndSessionOutcome
    <2> QED BY <2>1 DEF Untouched
  <1>15. ASSUME Destroy PROVE Untouched'
    BY <1>15 DEF Destroy, Untouched, InSession
  <1>16. ASSUME UNCHANGED <<sessions, running, canWait, waitPc, waited, begun,
      activeWaitFrames, frameStarted, comp>> PROVE Untouched'
    BY <1>16 DEF Untouched, InSession
  <1>17. QED
    BY <1>1, <1>2, <1>3, <1>4, <1>5, <1>6, <1>7, <1>8, <1>9, <1>10, <1>11,
      <1>12, <1>13, <1>14, <1>15, <1>16 DEF Next, Waiter, AppContinues, Gone,
      vars, stateVars, compVars, appVars, worldVars, BeginFrame,
      BeginFrameRefused, RequestExit, Poll, Event, Lifecycle

\* A frame that xrBeginFrame accepts in the first session is one that was
\* waited for.
LEMMA AcceptedHasFrame ==
  ASSUME FrameInv, sessions <= 1, appPc = "begin", BeginAccepted
  PROVE  /\ waited # NoFrame
         /\ activeWaitFrames = One(waited # NoFrame) + One(begun # NoFrame)
         /\ frameStarted <=> begun # NoFrame
  <1> USE DEF FrameInv
  <1>1. running /\ CanGoOn
    BY DEF InSession, CanGoOn
  <1>2. /\ activeWaitFrames = One(waited # NoFrame) + One(begun # NoFrame)
        /\ frameStarted <=> begun # NoFrame
    BY <1>1 DEF Exact
  <1>3. seenActive <= activeWaitFrames /\ seenActive > 0 /\ (frameStarted => seenActive = 2)
    BY DEF Counts, BeginAccepted
  <1>4. waited # NoFrame
    <2>1. SUFFICES ASSUME waited = NoFrame PROVE FALSE
      OBVIOUS
    <2>2. One(waited # NoFrame) = 0
      BY <2>1 DEF One
    <2>3. CASE begun # NoFrame
      <3>1. One(begun # NoFrame) = 1
        BY <2>3 DEF One
      <3> QED BY <1>2, <1>3, <2>2, <2>3, <3>1
    <2>4. CASE begun = NoFrame
      <3>1. One(begun # NoFrame) = 0
        BY <2>4 DEF One
      <3> QED BY <1>2, <1>3, <2>2, <3>1 DEF Shape
    <2> QED BY <2>3, <2>4
  <1> QED BY <1>2, <1>4

\* The right to wait moves on and is never doubled.
LEMMA OneRightStep == FrameInv /\ [Next]_vars => OneRight'
  <1> SUFFICES ASSUME FrameInv, [Next]_vars PROVE OneRight'
    OBVIOUS
  <1> USE DEF FrameInv, syncVars, waitVars, appVars, frameVars
  <1>1. ASSUME WaitFrame PROVE OneRight'
    BY <1>1 DEF WaitFrame, OneRight, Holding, Shape
  <1>2. ASSUME WaitFrameSync PROVE OneRight'
    BY <1>2 DEF WaitFrameSync, OneRight, Holding, Shape
  <1>3. ASSUME WaitFrameComp PROVE OneRight'
    BY <1>3 DEF WaitFrameComp, OneRight, Holding, Shape
  <1>4. ASSUME WaitFrameStore PROVE OneRight'
    BY <1>4 DEF WaitFrameStore, OneRight, Holding, Shape
  <1>5. ASSUME WaitFrameRelease PROVE OneRight'
    BY <1>5 DEF WaitFrameRelease, OneRight, Holding, Shape
  <1>6. ASSUME SpuriousWakeup PROVE OneRight'
    BY <1>6 DEF SpuriousWakeup, OneRight, Holding, Shape
  <1>7. ASSUME BeginFrame PROVE OneRight'
    BY <1>7 DEF BeginFrame, OneRight, Holding, Shape
  <1>8. ASSUME BeginFrameRefused PROVE OneRight'
    BY <1>8 DEF BeginFrameRefused, OneRight, Holding, Shape
  <1>9. ASSUME BeginFrameWork PROVE OneRight'
    <2>1. /\ appPc = "begin" /\ BeginAccepted /\ waited' = NoFrame /\ appPc' = "release"
          /\ UNCHANGED <<sessions, canWait, waitPc>>
      BY <1>9 DEF BeginFrameWork
    <2>2. sessions <= 1 => waited # NoFrame
      BY <2>1, AcceptedHasFrame
    <2> QED BY <2>1, <2>2 DEF OneRight, Holding, Shape
  <1>10. ASSUME BeginFrameFails PROVE OneRight'
    BY <1>10 DEF BeginFrameFails, OneRight, Holding, Shape
  <1>11. ASSUME BeginFrameRelease PROVE OneRight'
    BY <1>11 DEF BeginFrameRelease, OneRight, Holding, Shape, Wake
  <1>12. ASSUME EndSessionSync PROVE OneRight'
    BY <1>12 DEF EndSessionSync, OneRight, Holding, Shape, Wake
  <1>13. ASSUME BeginSession PROVE OneRight'
    <2>1. CASE sessions' = sessions + 1 /\ canWait' = 1 /\ UNCHANGED <<waited, appPc>>
      <3>1. sessions' <= 1 => sessions = 0
        BY <2>1 DEF Shape
      <3>2. sessions = 0 => waitPc' = "out" /\ waited = NoFrame /\ appPc = "out"
        BY <1>13 DEF BeginSession, CanCall, Wake, Untouched
      <3> QED BY <2>1, <3>1, <3>2 DEF OneRight, Holding
    <2>2. CASE UNCHANGED <<sessions, canWait, waitPc, waited, appPc>>
      BY <2>2 DEF OneRight, Holding
    <2> QED BY <1>13, <2>1, <2>2 DEF BeginSession, frameVars, appVars
  <1>14. ASSUME EndSession PROVE OneRight'
    <2>1. /\ waited' = NoFrame /\ UNCHANGED <<sessions, canWait, waitPc>>
          /\ appPc' # "release"
      BY <1>14, EndSessionOutcome
    <2> QED BY <2>1 DEF OneRight, Holding
  <1>15. ASSUME Destroy PROVE OneRight'
    BY <1>15 DEF Destroy, OneRight, Holding, Shape
  <1>16. ASSUME UNCHANGED <<sessions, canWait, waitPc, waited, appPc>> PROVE
      OneRight'
    BY <1>16 DEF OneRight, Holding, Shape
  <1>17. QED
    BY <1>1, <1>2, <1>3, <1>4, <1>5, <1>6, <1>7, <1>8, <1>9, <1>10, <1>11,
      <1>12, <1>13, <1>14, <1>15, <1>16 DEF Next, Waiter, AppContinues, Gone,
      vars, stateVars, compVars, worldVars, EndFrameDiscard, EndFrameCommit,
      RequestExit, Poll, Event, Lifecycle

\* The count is what the session holds.
LEMMA ExactStep == FrameInv /\ [Next]_vars => Exact'
  <1> SUFFICES ASSUME FrameInv, [Next]_vars PROVE Exact'
    OBVIOUS
  <1> USE DEF FrameInv, syncVars, appVars, frameVars
  <1>1. ASSUME WaitFrameComp PROVE Exact'
    BY <1>1 DEF WaitFrameComp, Exact, CanGoOn, CanCall, One
  <1>2. ASSUME WaitFrameStore PROVE Exact'
    <2>1. /\ activeWaitFrames' = activeWaitFrames + 1 /\ waited' = waitId /\ waitId # NoFrame
          /\ UNCHANGED <<sessions, running, hasLost, appPc, begun, frameStarted>>
      BY <1>2 DEF WaitFrameStore, Handed
    <2>2. sessions <= 1 => waited = NoFrame
      BY <1>2 DEF WaitFrameStore, OneRight, Holding
    <2> QED BY <2>1, <2>2 DEF Exact, CanGoOn, One, Shape
  <1>3. ASSUME BeginFrame PROVE Exact'
    BY <1>3 DEF BeginFrame, Exact, CanGoOn, CanCall, One
  <1>4. ASSUME BeginFrameRefused PROVE Exact'
    BY <1>4 DEF BeginFrameRefused, Exact, CanGoOn, CanCall, One
  <1>5. ASSUME BeginFrameWork PROVE Exact'
    <2>1. /\ appPc = "begin" /\ BeginAccepted /\ frameStarted' = TRUE
          /\ activeWaitFrames' = activeWaitFrames - (IF frameStarted THEN 1 ELSE 0)
          /\ begun' = waited /\ waited' = NoFrame /\ UNCHANGED sessions
      BY <1>5 DEF BeginFrameWork
    <2>2. ASSUME sessions <= 1
          PROVE  /\ activeWaitFrames' = One(waited' # NoFrame) + One(begun' # NoFrame)
                 /\ frameStarted' <=> begun' # NoFrame
      <3>1. /\ waited # NoFrame
            /\ activeWaitFrames = One(waited # NoFrame) + One(begun # NoFrame)
            /\ frameStarted <=> begun # NoFrame
        BY <2>1, <2>2, AcceptedHasFrame
      <3>2. activeWaitFrames' = 1
        <4>1. CASE frameStarted
          BY <2>1, <3>1, <4>1 DEF One
        <4>2. CASE ~frameStarted
          BY <2>1, <3>1, <4>2 DEF One
        <4> QED BY <4>1, <4>2 DEF Shape
      <3> QED BY <2>1, <3>1, <3>2 DEF One
    <2> QED BY <2>1, <2>2 DEF Exact
  <1>6. ASSUME BeginFrameFails PROVE Exact'
    <2>1. hasLost' /\ appPc' = "out"
      BY <1>6 DEF BeginFrameFails
    <2> QED BY <2>1 DEF Exact, CanGoOn
  <1>7. ASSUME BeginFrameRelease PROVE Exact'
    BY <1>7 DEF BeginFrameRelease, Exact, CanGoOn, CanCall, One, Wake
  <1>8. ASSUME EndSessionSync PROVE Exact'
    BY <1>8 DEF EndSessionSync, Exact, CanGoOn, CanCall, One, Wake
  <1>9. ASSUME EndFrameDiscard PROVE Exact'
    <2>1. /\ appPc = "out" /\ ~hasLost /\ running /\ frameStarted
          /\ UNCHANGED <<sessions, running, appPc, waited>>
      BY <1>9, EndFrameOutcome
    <2>2. CASE hasLost'
      BY <2>1, <2>2 DEF Exact, CanGoOn
    <2>3. CASE ~hasLost'
      <3>1. begun' = NoFrame /\ frameStarted' = FALSE /\ activeWaitFrames' = activeWaitFrames - 1
        BY <1>9, <2>1, <2>3, EndFrameOutcome
      <3>2. sessions <= 1 => /\ activeWaitFrames = One(waited # NoFrame) + One(begun # NoFrame)
                             /\ begun # NoFrame
        BY <2>1 DEF Exact, CanGoOn
      <3> QED BY <2>1, <3>1, <3>2 DEF Exact, One
    <2> QED BY <2>2, <2>3
  <1>10. ASSUME EndFrameCommit PROVE Exact'
    <2>1. /\ appPc = "out" /\ ~hasLost /\ running /\ frameStarted
          /\ UNCHANGED <<sessions, running, appPc, waited>>
      BY <1>10, EndFrameOutcome
    <2>2. CASE hasLost'
      BY <2>1, <2>2 DEF Exact, CanGoOn
    <2>3. CASE ~hasLost'
      <3>1. begun' = NoFrame /\ frameStarted' = FALSE /\ activeWaitFrames' = activeWaitFrames - 1
        BY <1>10, <2>1, <2>3, EndFrameOutcome
      <3>2. sessions <= 1 => /\ activeWaitFrames = One(waited # NoFrame) + One(begun # NoFrame)
                             /\ begun # NoFrame
        BY <2>1 DEF Exact, CanGoOn
      <3> QED BY <2>1, <3>1, <3>2 DEF Exact, One
    <2> QED BY <2>2, <2>3
  <1>11. ASSUME BeginSession PROVE Exact'
    <2>1. CASE sessions' = sessions + 1 /\ UNCHANGED frameVars
      <3>1. sessions' <= 1 => sessions = 0
        BY <2>1 DEF Shape
      <3>2. sessions = 0 => /\ activeWaitFrames = 0 /\ waited = NoFrame /\ begun = NoFrame
                            /\ ~frameStarted
        BY DEF Untouched
      <3> QED BY <2>1, <3>1, <3>2 DEF Exact, One
    <2>2. CASE hasLost' /\ UNCHANGED appPc /\ appPc = "out"
      BY <2>2 DEF Exact, CanGoOn
    <2> QED BY <1>11, <2>1, <2>2 DEF BeginSession, CanCall, appVars
  <1>12. ASSUME EndSession PROVE Exact'
    <2>1. appPc' = "end" \/ (hasLost' /\ appPc' = "out")
      BY <1>12, EndSessionOutcome
    <2> QED BY <2>1 DEF Exact, CanGoOn
  <1>13. ASSUME Poll PROVE Exact'
    BY <1>13 DEF Poll, Exact, CanGoOn, CanCall, One
  <1>14. ASSUME Destroy PROVE Exact'
    BY <1>14 DEF Destroy, Exact, CanGoOn, CanCall, One
  <1>15. ASSUME UNCHANGED <<sessions, running, hasLost, appPc, activeWaitFrames,
      waited, begun, frameStarted>> PROVE Exact'
    BY <1>15 DEF Exact, CanGoOn, CanCall, One
  <1>16. QED
    BY <1>1, <1>2, <1>3, <1>4, <1>5, <1>6, <1>7, <1>8, <1>9, <1>10, <1>11,
      <1>12, <1>13, <1>14, <1>15 DEF Next, Waiter, AppContinues, Gone, vars,
      stateVars, compVars, waitVars, worldVars, WaitFrame, WaitFrameSync,
      WaitFrameRelease, SpuriousWakeup, RequestExit, Event, Lifecycle

\* The session, or xrWaitFrame, has the id of every frame that was not ended.
LEMMA RememberedStep == FrameInv /\ [Next]_vars => Remembered'
  <1> SUFFICES ASSUME FrameInv, [Next]_vars PROVE Remembered'
    OBVIOUS
  <1> USE DEF FrameInv, waitVars, frameVars
  <1>1. ASSUME WaitFrameComp PROVE Remembered'
    <2>1. waitId = NoFrame /\ UNCHANGED <<sessions, waited, begun>>
      BY <1>1 DEF WaitFrameComp, Handed
    <2>2. CASE UNCHANGED <<comp, waitId>>
      BY <2>1, <2>2 DEF Remembered
    <2>3. ASSUME NEW f \in Frames, comp' = [comp EXCEPT ![f] = "waited"], waitId' = f
          PROVE  Remembered'
      <3>1. \A g \in Frames \ {f} : comp'[g] = comp[g] /\ g # NoFrame
        BY <2>3 DEF Shape, Frames, NoFrame
      <3> QED BY <2>1, <2>3, <3>1 DEF Remembered
    <2> QED BY <1>1, <2>2, <2>3 DEF WaitFrameComp
  <1>2. ASSUME WaitFrameStore PROVE Remembered'
    <2>1. /\ waited' = waitId /\ UNCHANGED <<sessions, begun, comp>>
      BY <1>2 DEF WaitFrameStore
    <2>2. sessions <= 1 => waited = NoFrame
      BY <1>2 DEF WaitFrameStore, OneRight, Holding
    <2>3. NoFrame \notin Frames
      BY DEF NoFrame, Frames
    <2> QED BY <2>1, <2>2, <2>3 DEF Remembered
  <1>3. ASSUME BeginFrameWork PROVE Remembered'
    <2>1. /\ comp' = [f \in Frames |-> IF f = waited THEN "begun" ELSE Discarded({begun})[f]]
          /\ begun' = waited /\ waited' = NoFrame /\ UNCHANGED <<sessions, waitId>>
      BY <1>3 DEF BeginFrameWork
    <2>2. ASSUME NEW f \in Frames, f # waited, comp'[f] \in {"waited", "begun"}
          PROVE  f # begun /\ comp'[f] = comp[f]
      <3>1. comp'[f] = Discarded({begun})[f]
        BY <2>1, <2>2
      <3> QED BY <2>2, <3>1, DiscardedFrames
    <2> QED BY <2>1, <2>2 DEF Remembered
  <1>4. ASSUME BeginFrameFails PROVE Remembered'
    <2>1. UNCHANGED <<sessions, waitId, waited>>
      BY <1>4 DEF BeginFrameFails
    <2>2. \/ comp' = Discarded({begun}) /\ begun' = NoFrame
          \/ UNCHANGED <<comp, begun>>
      BY <1>4 DEF BeginFrameFails
    <2> QED BY <2>1, <2>2, DiscardedFrames DEF Remembered
  <1>5. ASSUME EndFrameDiscard PROVE Remembered'
    <2>1. UNCHANGED <<sessions, waited, waitId>>
      BY <1>5, EndFrameOutcome
    <2>2. \/ comp' = Discarded({begun}) /\ begun' = NoFrame
          \/ UNCHANGED <<comp, begun>>
      BY <1>5, EndFrameOutcome
    <2> QED BY <2>1, <2>2, DiscardedFrames DEF Remembered
  <1>6. ASSUME EndFrameCommit PROVE Remembered'
    <2>1. UNCHANGED <<sessions, waited, waitId>>
      BY <1>6, EndFrameOutcome
    <2>2. \/ comp' = Discarded({begun}) /\ begun' = NoFrame
          \/ UNCHANGED <<comp, begun>>
      BY <1>6, EndFrameOutcome
    <2> QED BY <2>1, <2>2, DiscardedFrames DEF Remembered
  <1>7. ASSUME BeginSession PROVE Remembered'
    <2>1. UNCHANGED <<comp, waited, begun, waitId>> /\ sessions' \in {sessions, sessions + 1}
      BY <1>7 DEF BeginSession, frameVars
    <2>2. sessions' <= 1 => sessions <= 1
      BY <2>1 DEF Shape
    <2> QED BY <2>1, <2>2 DEF Remembered
  <1>8. ASSUME EndSession PROVE Remembered'
    <2>1. comp' = Discarded({waited, begun}) /\ UNCHANGED <<sessions, waitId>>
      BY <1>8, EndSessionOutcome
    <2> QED BY <2>1, DiscardedFrames DEF Remembered
  <1>9. ASSUME UNCHANGED <<sessions, comp, waited, begun, waitId>> PROVE
      Remembered'
    BY <1>9 DEF Remembered
  <1>10. QED
    BY <1>1, <1>2, <1>3, <1>4, <1>5, <1>6, <1>7, <1>8, <1>9 DEF Next, Waiter,
      AppContinues, Gone, vars, stateVars, compVars, syncVars, appVars,
      worldVars, WaitFrame, WaitFrameSync, WaitFrameRelease, SpuriousWakeup,
      BeginFrame, BeginFrameRefused, BeginFrameRelease, EndSessionSync,
      RequestExit, Poll, Destroy, Event, Lifecycle

\* At the start, and kept by every step.
LEMMA InitFrame == Init => FrameInv
  <1> SUFFICES ASSUME Init PROVE FrameInv
    OBVIOUS
  <1>1. Shape
    <2>1. sink \in [change : {"none", "show", "hide"}, lossPending : BOOLEAN, lost : BOOLEAN]
      BY DEF Init, NoEvents
    <2>2. comp \in [Frames -> {"none", "waited", "begun", "done"}]
      BY DEF Init
    <2>3. /\ state \in States /\ statesLegal \in BOOLEAN
          /\ hasEndedOnce \in BOOLEAN /\ exiting \in BOOLEAN /\ hasLost \in BOOLEAN
          /\ compVisible \in BOOLEAN /\ compFocused \in BOOLEAN
          /\ frameStarted \in BOOLEAN /\ running \in BOOLEAN
      BY DEF Init, States
    <2>4. /\ waited \in Frames \cup {NoFrame} /\ begun \in Frames \cup {NoFrame}
          /\ activeWaitFrames \in Int /\ canWait \in {0, 1}
          /\ waitPc \in {"out", "sync", "asleep", "comp", "store", "failed"}
          /\ waitId \in Frames \cup {NoFrame}
          /\ appPc \in {"out", "begin", "release", "end", "gone"} /\ seenActive \in Int
          /\ activity \in {"none", "pause", "resume"}
      BY DEF Init
    <2>5. sessions \in 0..MaxSession
      BY MaxSessionAssumption DEF Init
    <2> QED BY <2>1, <2>2, <2>3, <2>4, <2>5 DEF Shape
  <1>2. Counts /\ Handed /\ InSession /\ Untouched
    BY DEF Init, Counts, Handed, InSession, Untouched
  <1>3. OneRight
    BY DEF Init, OneRight, Holding
  <1>4. Exact /\ Remembered
    BY DEF Init, Exact, Remembered
  <1> QED BY <1>1, <1>2, <1>3, <1>4 DEF FrameInv

LEMMA NextFrame == FrameInv /\ [Next]_vars => FrameInv'
  BY ShapeStep, CountsStep, HandedStep, InSessionStep, UntouchedStep, OneRightStep, ExactStep,
     RememberedStep DEF FrameInv

\* The inductive invariant of the frame loop.
THEOREM FrameInvariant == Spec => []FrameInv
  BY InitFrame, NextFrame, PTL DEF Spec

\* Every variable keeps the type of the field or position it models; the count
\* of waited frames does not go below zero, in later sessions too.
THEOREM TypeCorrect == Spec => []TypeOK
  <1>1. FrameInv => TypeOK
    <2> SUFFICES ASSUME FrameInv PROVE TypeOK
      OBVIOUS
    <2>1. activeWaitFrames \in Nat /\ seenActive \in Nat
      BY DEF FrameInv, Counts, Shape
    <2> QED BY <2>1 DEF FrameInv, Shape, TypeOK
  <1> QED BY <1>1, FrameInvariant, PTL

\* The ids the session keeps are what the compositor expects, and in the first
\* session no frame is forgotten.
THEOREM NoFrameForgotten == Spec => []FramesAccountedFor
  <1>1. FrameInv => FramesAccountedFor
    BY DEF FrameInv, Handed, Remembered, FramesAccountedFor
  <1> QED BY <1>1, FrameInvariant, PTL

\* active_wait_frames is the number of frames the first session holds, whatever
\* xrWaitFrame does beside xrBeginFrame and xrEndFrame.
THEOREM CountExact == Spec => []CountIsExact
  <1>1. FrameInv => CountIsExact
    <2> SUFFICES ASSUME FrameInv, sessions <= 1, running, ~hasLost, appPc # "end"
                 PROVE  activeWaitFrames = Cardinality({waited, begun} \ {NoFrame})
      BY DEF CountIsExact
    <2>1. activeWaitFrames = One(waited # NoFrame) + One(begun # NoFrame)
      BY DEF FrameInv, Exact, CanGoOn
    <2>2. waited # NoFrame => waited # begun
      BY DEF FrameInv, Handed
    <2>3. CASE waited = NoFrame /\ begun = NoFrame
      <3>1. {waited, begun} \ {NoFrame} = {}
        BY <2>3
      <3> QED BY <2>1, <2>3, <3>1, FS_EmptySet DEF One
    <2>4. CASE waited # NoFrame /\ begun = NoFrame
      <3>1. {waited, begun} \ {NoFrame} = {waited}
        BY <2>4
      <3>2. Cardinality({waited}) = 1
        BY FS_Singleton
      <3> QED BY <2>1, <2>4, <3>1, <3>2 DEF One
    <2>5. CASE waited = NoFrame /\ begun # NoFrame
      <3>1. {waited, begun} \ {NoFrame} = {begun}
        BY <2>5
      <3>2. Cardinality({begun}) = 1
        BY FS_Singleton
      <3> QED BY <2>1, <2>5, <3>1, <3>2 DEF One
    <2>6. CASE waited # NoFrame /\ begun # NoFrame
      <3>1. {waited, begun} \ {NoFrame} = {begun} \cup {waited} /\ waited \notin {begun}
        BY <2>2, <2>6
      <3>2. IsFiniteSet({begun}) /\ Cardinality({begun}) = 1
        BY FS_Singleton
      <3>3. Cardinality({begun} \cup {waited}) = 2
        BY <3>1, <3>2, FS_AddElement
      <3> QED BY <2>1, <2>6, <3>1, <3>3 DEF One
    <2> QED BY <2>3, <2>4, <2>5, <2>6
  <1> QED BY <1>1, FrameInvariant, PTL

\* The states follow the life cycle, and say what the session is in.
LEMMA StatesMeetStep == StateInv /\ [Next]_vars => StatesMeet'
  <1> SUFFICES ASSUME StateInv, [Next]_vars PROVE StatesMeet'
    OBVIOUS
  <1> USE DEF StateInv, FrameInv, StatesMeet, stateVars, syncVars, appVars
  <1>1. ASSUME BeginFrame PROVE StatesMeet'
    BY <1>1 DEF BeginFrame, Shown, CanCall, InSession
  <1>2. ASSUME BeginFrameRefused PROVE StatesMeet'
    BY <1>2 DEF BeginFrameRefused, Shown, CanCall, InSession
  <1>3. ASSUME BeginFrameWork PROVE StatesMeet'
    BY <1>3 DEF BeginFrameWork, Shown, CanCall, InSession
  <1>4. ASSUME BeginFrameFails PROVE StatesMeet'
    BY <1>4 DEF BeginFrameFails, Shown, CanCall, InSession
  <1>5. ASSUME BeginFrameRelease PROVE StatesMeet'
    BY <1>5 DEF BeginFrameRelease, Shown, CanCall, InSession
  <1>6. ASSUME EndSessionSync PROVE StatesMeet'
    BY <1>6 DEF EndSessionSync, Shown, CanCall, InSession
  <1>7. ASSUME EndFrameDiscard PROVE StatesMeet'
    <2>1. appPc = "out" /\ running /\ UNCHANGED <<appPc, running>>
      BY <1>7, EndFrameOutcome
    <2>2. state \notin {"idle", "exiting"} /\ (state = "synchronized" => hasEndedOnce)
      BY <2>1 DEF Shown
    <2>3. CASE UNCHANGED <<state, statesLegal, hasEndedOnce>>
      BY <2>1, <2>3
    <2>4. CASE /\ ~hasEndedOnce /\ state \in {"idle", "ready", "synchronized"}
               /\ state' = "synchronized" /\ hasEndedOnce' = TRUE
               /\ statesLegal /\ state = "ready" => statesLegal'
      BY <2>1, <2>2, <2>4
    <2>5. SynchronizeStateChange \/ UNCHANGED <<state, statesLegal, hasEndedOnce>>
      BY <1>7, EndFrameOutcome
    <2> QED BY <2>3, <2>4, <2>5, SynchronizeOutcome
  <1>8. ASSUME EndFrameCommit PROVE StatesMeet'
    <2>1. appPc = "out" /\ running /\ UNCHANGED <<appPc, running>>
      BY <1>8, EndFrameOutcome
    <2>2. state \notin {"idle", "exiting"} /\ (state = "synchronized" => hasEndedOnce)
      BY <2>1 DEF Shown
    <2>3. CASE UNCHANGED <<state, statesLegal, hasEndedOnce>>
      BY <2>1, <2>3
    <2>4. CASE /\ ~hasEndedOnce /\ state \in {"idle", "ready", "synchronized"}
               /\ state' = "synchronized" /\ hasEndedOnce' = TRUE
               /\ statesLegal /\ state = "ready" => statesLegal'
      BY <2>1, <2>2, <2>4
    <2>5. SynchronizeStateChange \/ UNCHANGED <<state, statesLegal, hasEndedOnce>>
      BY <1>8, EndFrameOutcome
    <2> QED BY <2>3, <2>4, <2>5, SynchronizeOutcome
  <1>9. ASSUME BeginSession PROVE StatesMeet'
    BY <1>9 DEF BeginSession, Shown, CanCall, InSession
  <1>10. ASSUME EndSession PROVE StatesMeet'
    <2>1. /\ state = "stopping" /\ UNCHANGED hasEndedOnce /\ UNCHANGED running /\ appPc = "out"
          /\ \/ /\ state' \in {"idle", "ready", "exiting"} /\ statesLegal' = statesLegal
                /\ appPc' = "end"
             \/ UNCHANGED <<state, statesLegal, appPc>>
      BY <1>10, EndSessionOutcome
    <2> QED BY <2>1 DEF Shown
  <1>11. ASSUME RequestExit PROVE StatesMeet'
    <2>1. state' = "stopping" /\ hasEndedOnce' = TRUE /\ UNCHANGED <<appPc, running>>
      BY <1>11, ExitPath DEF RequestExit
    <2>2. appPc = "out" /\ running
      BY <1>11 DEF RequestExit, CanCall
    <2>3. statesLegal'
      BY <1>11, <2>2, ExitPath
    <2> QED BY <2>1, <2>2, <2>3 DEF Shown
  <1>12. ASSUME Poll PROVE StatesMeet'
    <2>1. appPc = "out" /\ UNCHANGED <<appPc, running, hasEndedOnce>>
      BY <1>12 DEF Poll
    <2>2. state' \in States /\ Leads(state, state') /\ (statesLegal => statesLegal')
      BY <1>12, PollOutcome
    <2>3. statesLegal'
      BY <2>2
    <2>4. state' \in Shown => hasEndedOnce
      BY <2>2 DEF Leads, Shown, Shape, States
    <2>5. state' \in {"idle", "ready"} => ~hasEndedOnce
      BY <2>1, <2>2 DEF Leads, Shown, Shape, States
    <2>6. running => state' \notin {"idle", "exiting"}
      BY <2>1, <2>2 DEF Leads, Shown, Shape, States
    <2> QED BY <2>1, <2>3, <2>4, <2>5, <2>6
  <1>13. ASSUME Destroy PROVE StatesMeet'
    BY <1>13 DEF Destroy, Shown, CanCall, InSession
  <1>14. ASSUME UNCHANGED <<state, statesLegal, hasEndedOnce, appPc, running>>
      PROVE StatesMeet'
    BY <1>14 DEF Shown, CanCall, InSession
  <1>15. QED
    BY <1>1, <1>2, <1>3, <1>4, <1>5, <1>6, <1>7, <1>8, <1>9, <1>10, <1>11,
      <1>12, <1>13, <1>14 DEF Next, Waiter, AppContinues, Gone, vars, compVars,
      waitVars, frameVars, worldVars, WaitFrame, WaitFrameSync, WaitFrameComp,
      WaitFrameStore, WaitFrameRelease, SpuriousWakeup, Event, Lifecycle

\* The inductive invariant of the states.
THEOREM StateInvariant == Spec => []StateInv
  <1>1. Init => StateInv
    <2>1. Init => StatesMeet
      BY DEF Init, StatesMeet, Shown
    <2> QED BY <2>1, InitFrame DEF StateInv
  <1>2. StateInv /\ [Next]_vars => StateInv'
    BY NextFrame, StatesMeetStep DEF StateInv
  <1> QED BY <1>1, <1>2, PTL DEF Spec

\* The application is told of session states in the order of their life cycle,
\* whatever the compositor sends, the system does or the application calls.
THEOREM LifeCycleKept == Spec => []StatesFollowLifeCycle
  <1>1. StateInv => StatesFollowLifeCycle
    BY DEF StateInv, StatesMeet, StatesFollowLifeCycle
  <1> QED BY <1>1, StateInvariant, PTL
=============================================================================
