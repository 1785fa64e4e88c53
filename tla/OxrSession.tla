----------------------------- MODULE OxrSession -----------------------------
(***************************************************************************)
(* An OpenXR session: its state as the application is told of it, and the  *)
(* frame loop xrWaitFrame, xrBeginFrame, xrEndFrame                        *)
(* (state_trackers/oxr/oxr_session.c, oxr_session_frame_end.c,             *)
(* oxr_frame_sync.c, and the checks of oxr_api_session.c).                 *)
(*                                                                         *)
(* The application has two threads: one only calls xrWaitFrame, the other  *)
(* makes all other calls.  The session has a compositor; its calls succeed *)
(* or fail with XRT_ERROR_IPC_FAILURE, which loses the session.            *)
(***************************************************************************)
EXTENDS Integers, Sequences, FiniteSets

CONSTANTS Android,     \* built with XRT_OS_ANDROID
          MaxFrame,    \* bound: frames the compositor hands out
          MaxSession   \* bound: successful calls of xrBeginSession

ASSUME AndroidAssumption == Android \in BOOLEAN
ASSUME MaxFrameAssumption == MaxFrame \in Nat \ {0}
ASSUME MaxSessionAssumption == MaxSession \in Nat \ {0}

Frames == 1..MaxFrame
NoFrame == 0     \* frame_id is 0 before the first frame and -1 between frames

VARIABLES
  state, hasEndedOnce, exiting, hasLost,  \* of struct oxr_session
  compVisible, compFocused,               \* compositor_visible and _focused
  waited, begun,                          \* frame_id
  frameStarted, activeWaitFrames,
  running, canWait,                       \* frame_sync
  waitPc, waitId,                         \* the thread in xrWaitFrame
  appPc, seenActive,                      \* the thread in the other calls
  sessions,                               \* calls of xrBeginSession that succeeded
  comp,                                   \* what the compositor knows of each frame
  sink,                                   \* session events not yet polled
  activity,                               \* inst->activity_state
  statesLegal                             \* history: the session states pushed so far follow the life cycle

stateVars == <<state, statesLegal>>
compVars == <<compVisible, compFocused>>
syncVars == <<running, canWait>>
waitVars == <<waitPc, waitId>>
appVars == <<appPc, seenActive>>
frameVars == <<waited, begun, frameStarted, activeWaitFrames>>
worldVars == <<sink, activity>>
vars == <<stateVars, hasEndedOnce, exiting, hasLost, compVars, frameVars, syncVars,
          waitVars, appVars, sessions, comp, worldVars>>

NoEvents == [change |-> "none", lossPending |-> FALSE, lost |-> FALSE]

Init ==
  /\ state = "ready" /\ statesLegal = TRUE
  /\ hasEndedOnce = FALSE /\ exiting = FALSE /\ hasLost = FALSE
  /\ compVisible = FALSE /\ compFocused = FALSE
  /\ waited = NoFrame /\ begun = NoFrame
  /\ frameStarted = FALSE /\ activeWaitFrames = 0
  /\ running = FALSE /\ canWait = 0
  /\ waitPc = "out" /\ waitId = NoFrame
  /\ appPc = "out" /\ seenActive = 0
  /\ sessions = 0
  /\ comp = [f \in Frames |-> "none"]
  /\ sink = NoEvents /\ activity = "none"

(***************************************************************************)
(* oxr_session_change_state, one or more in one call.                      *)
(***************************************************************************)
\* The life cycle of a session.  xrRequestExitSession may be repeated.
LifeCycle ==
  {<<"ready", "synchronized">>, <<"synchronized", "visible">>, <<"visible", "focused">>,
   <<"focused", "visible">>, <<"visible", "synchronized">>, <<"synchronized", "stopping">>,
   <<"stopping", "stopping">>, <<"stopping", "idle">>, <<"idle", "ready">>, <<"idle", "exiting">>}

Follows(a, b) == <<a, b>> \in LifeCycle \/ b = "loss_pending" \/ a = "loss_pending"

\* A path starts with the state the session is in.
Change(path) ==
  /\ state' = path[Len(path)]
  /\ statesLegal' = (statesLegal /\ \A i \in 1..(Len(path) - 1) : Follows(path[i], path[i + 1]))

\* Append b when the path has arrived at a and the condition holds.
StepIf(path, a, b, cond) ==
  IF path[Len(path)] = a /\ cond THEN Append(path, b) ELSE path

\* do_synchronize_state_change.
SynchronizeStateChange ==
  IF ~hasEndedOnce /\ state \in {"idle", "ready", "synchronized"}
    THEN Change(<<state, "synchronized">>) /\ hasEndedOnce' = TRUE
    ELSE UNCHANGED <<stateVars, hasEndedOnce>>

(***************************************************************************)
(* xrWaitFrame and oxr_frame_sync.                                         *)
(***************************************************************************)
\* What pthread_cond_signal does to the waiting thread.
Wake_Forgotten == waitPc' = waitPc
Wake == waitPc' = (IF waitPc = "asleep" THEN "sync" ELSE waitPc)

\* The checks of the API function.
WaitFrame ==
  /\ waitPc = "out" /\ appPc # "gone" /\ running /\ ~hasLost
  /\ \E f \in Frames : comp[f] = "none"
  /\ waitPc' = "sync"
  /\ UNCHANGED <<stateVars, hasEndedOnce, exiting, hasLost, compVars, frameVars, syncVars,
                 waitId, appVars, sessions, comp, worldVars>>

\* oxr_frame_sync_wait_frame, with its mutex held.
WaitFrameSync ==
  /\ waitPc = "sync"
  /\ \/ running /\ canWait = 1 /\ canWait' = 0 /\ waitPc' = "comp"
     \/ running /\ canWait = 0 /\ waitPc' = "asleep" /\ UNCHANGED canWait
     \/ ~running /\ waitPc' = "out" /\ UNCHANGED canWait
  /\ UNCHANGED <<stateVars, hasEndedOnce, exiting, hasLost, compVars, frameVars, running,
                 waitId, appVars, sessions, comp, worldVars>>

SpuriousWakeup ==
  /\ waitPc = "asleep" /\ waitPc' = "sync"
  /\ UNCHANGED <<stateVars, hasEndedOnce, exiting, hasLost, compVars, frameVars, syncVars,
                 waitId, appVars, sessions, comp, worldVars>>

\* do_wait_frame_and_checks: the compositor hands out its next frame, or fails.
WaitFrameComp ==
  /\ waitPc = "comp"
  /\ \/ \E f \in Frames :
          /\ comp[f] = "none" /\ \A g \in 1..(f - 1) : comp[g] # "none"
          /\ comp' = [comp EXCEPT ![f] = "waited"]
          /\ waitId' = f
          /\ waitPc' = "store"
          /\ UNCHANGED hasLost
     \/ waitPc' = "failed" /\ hasLost' = TRUE /\ UNCHANGED <<comp, waitId>>
  /\ UNCHANGED <<stateVars, hasEndedOnce, exiting, compVars, frameVars, syncVars, appVars,
                 sessions, worldVars>>

\* The frame id and the count are set together, with active_wait_frames_lock held.
WaitFrameStore ==
  /\ waitPc = "store"
  /\ activeWaitFrames' = activeWaitFrames + 1
  /\ waited' = waitId /\ waitId' = NoFrame
  /\ waitPc' = "out"
  /\ UNCHANGED <<stateVars, hasEndedOnce, exiting, hasLost, compVars, begun, frameStarted,
                 syncVars, appVars, sessions, comp, worldVars>>

\* After an error xrWaitFrame releases the semaphore itself.
WaitFrameRelease ==
  /\ waitPc = "failed"
  /\ canWait' = (IF running THEN 1 ELSE canWait)
  /\ waitPc' = "out"
  /\ UNCHANGED <<stateVars, hasEndedOnce, exiting, hasLost, compVars, frameVars, running,
                 waitId, appVars, sessions, comp, worldVars>>

(***************************************************************************)
(* xrBeginFrame.  It looks at the count, then works without the lock, then *)
(* lets an xrWaitFrame go on.                                              *)
(***************************************************************************)
CanCall == appPc = "out" /\ ~hasLost

BeginFrame ==
  /\ CanCall /\ running
  /\ appPc' = "begin"
  /\ seenActive' = activeWaitFrames
  /\ UNCHANGED <<stateVars, hasEndedOnce, exiting, hasLost, compVars, frameVars, syncVars,
                 waitVars, sessions, comp, worldVars>>

BeginAccepted == seenActive > 0 /\ (frameStarted => seenActive = 2)

BeginFrameRefused ==
  /\ appPc = "begin" /\ ~BeginAccepted
  /\ appPc' = "out" /\ seenActive' = 0
  /\ UNCHANGED <<stateVars, hasEndedOnce, exiting, hasLost, compVars, frameVars, syncVars,
                 waitVars, sessions, comp, worldVars>>

\* A frame that was begun before is discarded first.
Discarded(frames) == [f \in Frames |-> IF f \in frames THEN "done" ELSE comp[f]]

BeginFrameWork_WaitedKept ==
  /\ appPc = "begin" /\ BeginAccepted
  /\ comp' = [f \in Frames |-> IF f = waited THEN "begun" ELSE Discarded({begun})[f]]
  /\ activeWaitFrames' = activeWaitFrames - (IF frameStarted THEN 1 ELSE 0)
  /\ frameStarted' = TRUE
  /\ begun' = waited
  /\ appPc' = "release" /\ seenActive' = 0
  /\ UNCHANGED <<stateVars, hasEndedOnce, exiting, hasLost, compVars, waited, syncVars,
                 waitVars, sessions, worldVars>>

BeginFrameWork_NotDiscarded ==
  /\ appPc = "begin" /\ BeginAccepted
  /\ comp' = [f \in Frames |-> IF f = waited THEN "begun" ELSE comp[f]]
  /\ activeWaitFrames' = activeWaitFrames - (IF frameStarted THEN 1 ELSE 0)
  /\ frameStarted' = TRUE
  /\ begun' = waited /\ waited' = NoFrame
  /\ appPc' = "release" /\ seenActive' = 0
  /\ UNCHANGED <<stateVars, hasEndedOnce, exiting, hasLost, compVars, syncVars, waitVars,
                 sessions, worldVars>>

BeginFrameWork ==
  /\ appPc = "begin" /\ BeginAccepted
  /\ comp' = [f \in Frames |-> IF f = waited THEN "begun" ELSE Discarded({begun})[f]]
  /\ activeWaitFrames' = activeWaitFrames - (IF frameStarted THEN 1 ELSE 0)
  /\ frameStarted' = TRUE
  /\ begun' = waited /\ waited' = NoFrame
  /\ appPc' = "release" /\ seenActive' = 0
  /\ UNCHANGED <<stateVars, hasEndedOnce, exiting, hasLost, compVars, syncVars, waitVars,
                 sessions, worldVars>>

\* The call to the compositor that fails is the discard or the begin.
BeginFrameFails ==
  /\ appPc = "begin" /\ BeginAccepted
  /\ \/ frameStarted /\ UNCHANGED <<frameVars, comp>>
     \/ /\ comp' = Discarded({begun})
        /\ begun' = NoFrame
        /\ activeWaitFrames' = activeWaitFrames - (IF frameStarted THEN 1 ELSE 0)
        /\ frameStarted' = TRUE
        /\ UNCHANGED waited
  /\ hasLost' = TRUE
  /\ appPc' = "out" /\ seenActive' = 0
  /\ UNCHANGED <<stateVars, hasEndedOnce, exiting, compVars, syncVars, waitVars, sessions,
                 worldVars>>

\* oxr_frame_sync_release.
BeginFrameRelease ==
  /\ appPc = "release"
  /\ \/ running /\ canWait = 0 /\ canWait' = 1 /\ Wake
     \/ ~(running /\ canWait = 0) /\ UNCHANGED <<canWait, waitPc>>
  /\ appPc' = "out"
  /\ UNCHANGED <<stateVars, hasEndedOnce, exiting, hasLost, compVars, frameVars, running,
                 waitId, seenActive, sessions, comp, worldVars>>

(***************************************************************************)
(* xrEndFrame, for a frame that was begun.  The checks of the arguments    *)
(* that fail leave the frame begun and change nothing.                     *)
(***************************************************************************)
EndFrameDiscard_CountKept ==
  /\ CanCall /\ running /\ frameStarted
  /\ comp' = Discarded({begun})
  /\ begun' = NoFrame /\ frameStarted' = FALSE
  /\ SynchronizeStateChange
  /\ UNCHANGED <<exiting, hasLost, compVars, waited, activeWaitFrames, syncVars, waitVars,
                 appVars, sessions, worldVars>>

EndFrameDiscard_StillStarted ==
  /\ CanCall /\ running /\ frameStarted
  /\ activeWaitFrames' = activeWaitFrames - 1
  /\ comp' = Discarded({begun})
  /\ begun' = NoFrame
  /\ SynchronizeStateChange
  /\ UNCHANGED <<exiting, hasLost, compVars, waited, frameStarted, syncVars, waitVars,
                 appVars, sessions, worldVars>>

\* No layers: the frame is discarded.
EndFrameDiscard ==
  /\ CanCall /\ running /\ frameStarted
  /\ activeWaitFrames' = activeWaitFrames - 1
  /\ \/ /\ comp' = Discarded({begun})
        /\ begun' = NoFrame /\ frameStarted' = FALSE
        /\ SynchronizeStateChange
        /\ UNCHANGED hasLost
     \/ /\ hasLost' = TRUE
        /\ UNCHANGED <<comp, begun, frameStarted, stateVars, hasEndedOnce>>
  /\ UNCHANGED <<exiting, compVars, waited, syncVars, waitVars, appVars, sessions, worldVars>>

\* layer_begin, the layers, layer_commit.
EndFrameCommit ==
  /\ CanCall /\ running /\ frameStarted
  /\ SynchronizeStateChange
  /\ \/ /\ comp' = Discarded({begun})
        /\ begun' = NoFrame /\ frameStarted' = FALSE
        /\ activeWaitFrames' = activeWaitFrames - 1
        /\ UNCHANGED hasLost
     \/ hasLost' = TRUE /\ UNCHANGED <<comp, begun, frameStarted, activeWaitFrames>>
  /\ UNCHANGED <<exiting, compVars, waited, syncVars, waitVars, appVars, sessions, worldVars>>

(***************************************************************************)
(* The session calls.                                                      *)
(***************************************************************************)
BeginSession ==
  /\ CanCall /\ ~running /\ state = "ready" /\ sessions < MaxSession
  /\ \/ /\ running' = TRUE /\ canWait' = 1 /\ Wake
        /\ sessions' = sessions + 1
        /\ UNCHANGED hasLost
     \/ hasLost' = TRUE /\ UNCHANGED <<running, canWait, waitPc, sessions>>
  /\ UNCHANGED <<stateVars, hasEndedOnce, exiting, compVars, frameVars, waitId, appVars,
                 comp, worldVars>>

\* The frames that were waited for and begun are discarded, and the state
\* changes, while xrWaitFrame may still go on.
EndSession ==
  /\ CanCall /\ running /\ state = "stopping"
  /\ comp' = Discarded({waited, begun})
  /\ waited' = NoFrame /\ begun' = NoFrame /\ frameStarted' = FALSE
  /\ \/ /\ Change(IF exiting THEN <<state, "idle", "exiting">>
                  ELSE IF Android THEN <<state, "idle">> ELSE <<state, "idle", "ready">>)
        /\ appPc' = "end"
        /\ UNCHANGED hasLost
     \/ hasLost' = TRUE /\ UNCHANGED <<stateVars, appPc>>
  /\ UNCHANGED <<hasEndedOnce, exiting, compVars, activeWaitFrames, syncVars, waitVars,
                 seenActive, sessions, worldVars>>

\* oxr_frame_sync_end_session.
EndSessionSync ==
  /\ appPc = "end"
  /\ running' = FALSE /\ Wake
  /\ hasEndedOnce' = FALSE
  /\ appPc' = "out"
  /\ UNCHANGED <<stateVars, exiting, hasLost, compVars, frameVars, canWait, waitId,
                 seenActive, sessions, comp, worldVars>>

RequestExit_NotSynchronized ==
  /\ CanCall /\ running
  /\ Change(<<state, "stopping">>)
  /\ hasEndedOnce' = TRUE /\ exiting' = TRUE
  /\ UNCHANGED <<hasLost, compVars, frameVars, syncVars, waitVars, appVars, sessions, comp,
                 worldVars>>

RequestExit ==
  /\ CanCall /\ running
  /\ LET visible == StepIf(<<state>>, "focused", "visible", TRUE)
         sync == StepIf(visible, "visible", "synchronized", TRUE)
         faked == IF hasEndedOnce THEN sync ELSE Append(sync, "synchronized")
     IN Change(Append(faked, "stopping"))
  /\ hasEndedOnce' = TRUE /\ exiting' = TRUE
  /\ UNCHANGED <<hasLost, compVars, frameVars, syncVars, waitVars, appVars, sessions, comp,
                 worldVars>>

\* xrPollEvent: first the Android life cycle, then all events the compositor
\* sent, then the states that follow.
Poll ==
  /\ appPc = "out"
  /\ LET showing == IF sink.change = "none" THEN compVisible ELSE sink.change = "show"
         focused == IF sink.change = "none" THEN compFocused ELSE sink.change = "show"
         pausing == Android /\ activity = "pause"
         resuming == Android /\ activity = "resume"
         p1 == StepIf(<<state>>, "focused", "visible", pausing)
         p2 == StepIf(p1, "visible", "synchronized", pausing)
         p3 == StepIf(p2, "synchronized", "stopping", pausing)
         p4 == StepIf(p3, "idle", "ready", resuming)
         p5 == IF sink.lossPending THEN Append(p4, "loss_pending") ELSE p4
         p6 == StepIf(p5, "synchronized", "visible", showing)
         p7 == StepIf(p6, "visible", "focused", focused)
         p8 == StepIf(p7, "focused", "visible", ~focused)
         p9 == StepIf(p8, "visible", "synchronized", ~showing)
     IN Change(p9) /\ compVisible' = showing /\ compFocused' = focused
  /\ hasLost' = (hasLost \/ sink.lost)
  /\ sink' = NoEvents
  /\ UNCHANGED <<hasEndedOnce, exiting, frameVars, syncVars, waitVars, appVars, sessions,
                 comp, activity>>

\* xrDestroySession, which must not run at the same time as other calls.
Destroy ==
  /\ appPc = "out" /\ waitPc = "out"
  /\ running' = FALSE /\ canWait' = 0
  /\ appPc' = "gone"
  /\ UNCHANGED <<stateVars, hasEndedOnce, exiting, hasLost, compVars, frameVars, waitVars,
                 seenActive, sessions, comp, worldVars>>

(***************************************************************************)
(* The compositor and the system around.                                   *)
(***************************************************************************)
\* Session events wait in the sink until they are polled.  Of several state
\* changes the last one counts.
Event ==
  /\ appPc # "gone"
  /\ \/ \E c \in {"show", "hide"} \ {sink.change} : sink' = [sink EXCEPT !.change = c]
     \/ sink' = [sink EXCEPT !.lossPending = TRUE]
     \/ sink' = [sink EXCEPT !.lost = TRUE]
  /\ UNCHANGED <<stateVars, hasEndedOnce, exiting, hasLost, compVars, frameVars, syncVars,
                 waitVars, appVars, sessions, comp, activity>>

Lifecycle ==
  /\ Android /\ appPc # "gone"
  /\ \E a \in {"pause", "resume"} \ {activity} : activity' = a
  /\ UNCHANGED <<stateVars, hasEndedOnce, exiting, hasLost, compVars, frameVars, syncVars,
                 waitVars, appVars, sessions, comp, sink>>

Gone == appPc = "gone" /\ UNCHANGED vars

Waiter == WaitFrameSync \/ WaitFrameComp \/ WaitFrameStore \/ WaitFrameRelease
AppContinues == BeginFrameRefused \/ BeginFrameWork \/ BeginFrameFails \/ BeginFrameRelease
                  \/ EndSessionSync

Next == \/ WaitFrame \/ Waiter \/ SpuriousWakeup
        \/ BeginFrame \/ AppContinues \/ EndFrameDiscard \/ EndFrameCommit
        \/ BeginSession \/ EndSession \/ RequestExit \/ Poll \/ Destroy
        \/ Event \/ Lifecycle \/ Gone

Spec == Init /\ [][Next]_vars

\* A call that started goes on; the application need not make any.
FairSpec == Spec /\ WF_vars(Waiter) /\ WF_vars(AppContinues)

(***************************************************************************)
(* Properties.                                                             *)
(***************************************************************************)
States == {"idle", "ready", "synchronized", "visible", "focused", "stopping",
           "loss_pending", "exiting"}

\* Every variable has the type of the field or thread position it models.
TypeOK ==
  /\ state \in States /\ statesLegal \in BOOLEAN
  /\ hasEndedOnce \in BOOLEAN /\ exiting \in BOOLEAN /\ hasLost \in BOOLEAN
  /\ compVisible \in BOOLEAN /\ compFocused \in BOOLEAN
  /\ waited \in Frames \cup {NoFrame} /\ begun \in Frames \cup {NoFrame}
  /\ frameStarted \in BOOLEAN /\ activeWaitFrames \in Nat
  /\ running \in BOOLEAN /\ canWait \in {0, 1}
  /\ waitPc \in {"out", "sync", "asleep", "comp", "store", "failed"}
  /\ waitId \in Frames \cup {NoFrame}
  /\ appPc \in {"out", "begin", "release", "end", "gone"} /\ seenActive \in Nat
  /\ sessions \in 0..MaxSession
  /\ comp \in [Frames -> {"none", "waited", "begun", "done"}]
  /\ sink \in [change : {"none", "show", "hide"}, lossPending : BOOLEAN, lost : BOOLEAN]
  /\ activity \in {"none", "pause", "resume"}

\* The ids the session keeps are frames the compositor expects to be begun or
\* discarded (waited) and ended or discarded (begun).  And in its first session
\* no frame the compositor handed out is forgotten: xrWaitFrame never stores
\* over one, and until a frame was ended or discarded the session or the thread
\* in xrWaitFrame has its id.
FramesAccountedFor ==
  /\ waited # NoFrame => comp[waited] = "waited"
  /\ begun # NoFrame => comp[begun] = "begun"
  /\ sessions <= 1 =>
       \A f \in Frames : comp[f] \in {"waited", "begun"} => f \in {waited, begun, waitId}

\* active_wait_frames is the number of the frames the session holds, at most
\* two, through the unlocked work of xrBeginFrame and xrEndFrame and any
\* xrWaitFrame beside them; frame_begin decides by it.  Stated for the first
\* session of a handle: the next one inherits a count (BeginsWaitedFrame).
CountIsExact ==
  sessions <= 1 /\ running /\ ~hasLost /\ appPc # "end"
    => activeWaitFrames = Cardinality({waited, begun} \ {NoFrame})

\* The application is told of session states in the order of their life cycle,
\* whatever the compositor's events and its own calls.
StatesFollowLifeCycle == statesLegal

\* A call of xrWaitFrame that may go on returns.
WaitFrameReturns ==
  (waitPc \in {"sync", "asleep"} /\ (~running \/ canWait = 1)) ~> (waitPc \notin {"sync", "asleep"})

(***************************************************************************)
(* What the source says and the code does not keep.                        *)
(***************************************************************************)
\* A frame that xrBeginFrame accepts is one that xrWaitFrame returned.
BeginsWaitedFrame == appPc = "begin" /\ BeginAccepted => waited # NoFrame
=============================================================================
