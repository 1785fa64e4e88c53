---------------------------- MODULE MultiSystem ----------------------------
(***************************************************************************)
(* The system side of the multi-client compositor: the render thread's     *)
(* main loop, the state machine that begins and ends the native session,   *)
(* the clients' begin and end of their sessions, the unlocked visibility   *)
(* flags, and shutdown (compositor/multi/comp_multi_system.c).             *)
(*                                                                         *)
(* The frame slots of a client are in MultiCompositor; here a client may   *)
(* have a delivered frame or not.  A critical section of oth is one step.  *)
(***************************************************************************)
EXTENDS Integers, FiniteSets

CONSTANTS Clients,     \* the client compositors that may be created
          WarmStart    \* do_warm_start

ASSUME WarmStartAssumption == WarmStart \in BOOLEAN
ASSUME ClientsAssumption == IsFiniteSet(Clients) /\ "none" \notin Clients

VARIABLES
  running,       \* oth.running
  asleep,        \* the render thread sleeps on oth's condition variable
  state,         \* sessions.state
  activeCount,   \* sessions.active_count
  renderPc,      \* where the render thread is
  composed,      \* the clients whose layers go into this frame (array)
  native,        \* the native compositor's session has begun
  session,       \* where each client is in its life
  visible, focused, \* mc->state of each client
  setter,        \* a set_state call between its two writes
  mainPc,        \* the thread that destroys the system compositor
  framesMade     \* history: the native compositor got a frame

clientVars == <<session, visible, focused, setter>>
loopVars == <<asleep, state, renderPc, composed, native, framesMade>>
vars == <<running, activeCount, clientVars, loopVars, mainPc>>

\* begin_session counts the client up and then sets session_active; end_session
\* and destroy count it down and then clear the flag.
Counted(c) == session[c] \in {"begun", "active"}
SessionActive(c) == session[c] \in {"active", "ended", "dying"}

Init ==
  /\ running = TRUE /\ asleep = FALSE
  /\ state = (IF WarmStart THEN "init_warm_start" ELSE "stopped")
  /\ activeCount = 0
  /\ renderPc = "loop" /\ composed = {} /\ native = FALSE
  /\ session = [c \in Clients |-> "none"]
  /\ visible = [c \in Clients |-> FALSE] /\ focused = [c \in Clients |-> FALSE]
  /\ setter = [client |-> "none", focused |-> FALSE]
  /\ mainPc = "up"
  /\ framesMade = FALSE

(***************************************************************************)
(* The clients.                                                            *)
(***************************************************************************)
Create(c) ==
  /\ mainPc = "up" /\ session[c] = "none"
  /\ session' = [session EXCEPT ![c] = "idle"]
  /\ UNCHANGED <<running, activeCount, visible, focused, setter, loopVars, mainPc>>

\* update_session_status(true) wakes the render thread if it sleeps.
CountUp_NoSignal(c) ==
  /\ session[c] = "idle"
  /\ session' = [session EXCEPT ![c] = "begun"]
  /\ activeCount' = activeCount + 1
  /\ UNCHANGED <<running, visible, focused, setter, loopVars, mainPc>>

CountUp(c) ==
  /\ session[c] = "idle"
  /\ session' = [session EXCEPT ![c] = "begun"]
  /\ activeCount' = activeCount + 1
  /\ asleep' = FALSE
  /\ UNCHANGED <<running, visible, focused, setter, state, renderPc, composed, native,
                 framesMade, mainPc>>

SessionBegun(c) ==
  /\ session[c] = "begun"
  /\ session' = [session EXCEPT ![c] = "active"]
  /\ UNCHANGED <<running, activeCount, visible, focused, setter, loopVars, mainPc>>

CountDown_Forgotten(c) ==
  /\ session[c] = "active"
  /\ \E next \in {"ended", "dying"} : session' = [session EXCEPT ![c] = next]
  /\ UNCHANGED <<running, activeCount, visible, focused, setter, loopVars, mainPc>>

CountDown_Unconditional(c) ==
  /\ session[c] \in {"idle", "active"}
  /\ \E next \in {"ended", "dying"} : session' = [session EXCEPT ![c] = next]
  /\ activeCount' = activeCount - 1
  /\ UNCHANGED <<running, visible, focused, setter, loopVars, mainPc>>

\* update_session_status(false), from end_session or from destroy.
CountDown(c) ==
  /\ session[c] = "active"
  /\ \E next \in {"ended", "dying"} : session' = [session EXCEPT ![c] = next]
  /\ activeCount' = activeCount - 1
  /\ UNCHANGED <<running, visible, focused, setter, loopVars, mainPc>>

SessionEnded(c) ==
  /\ session[c] = "ended"
  /\ session' = [session EXCEPT ![c] = "idle"]
  /\ UNCHANGED <<running, activeCount, visible, focused, setter, loopVars, mainPc>>

\* destroy leaves the client list under list_and_timing_lock, which the render
\* thread holds while it transfers layers.  A new client may take the place.
Unlist(c) ==
  /\ session[c] \in {"idle", "dying"} /\ setter.client # c
  /\ renderPc \notin {"select", "blend"}
  /\ session' = [session EXCEPT ![c] = "none"]
  /\ visible' = [visible EXCEPT ![c] = FALSE]
  /\ focused' = [focused EXCEPT ![c] = FALSE]
  /\ UNCHANGED <<running, activeCount, setter, loopVars, mainPc>>

\* system_compositor_set_state takes no lock: first visible, then focused.
\* Its callers show and focus a client or do neither, one call at a time.
SetVisible(c, on) ==
  /\ session[c] # "none" /\ setter.client = "none"
  /\ visible[c] # on \/ focused[c] # on
  /\ visible' = [visible EXCEPT ![c] = on]
  /\ setter' = [client |-> c, focused |-> on]
  /\ UNCHANGED <<running, activeCount, session, focused, loopVars, mainPc>>

SetFocused ==
  /\ setter.client # "none"
  /\ focused' = [focused EXCEPT ![setter.client] = setter.focused]
  /\ setter' = [client |-> "none", focused |-> FALSE]
  /\ UNCHANGED <<running, activeCount, session, visible, loopVars, mainPc>>

(***************************************************************************)
(* update_session_state_locked.                                            *)
(***************************************************************************)
UpdateSessionState_NoBeginOnRestart ==
  \/ state = "init_warm_start" /\ state' = "stopping" /\ native' = TRUE
  \/ state # "init_warm_start" /\ activeCount > 0 /\ state' = "running" /\ UNCHANGED native
  \/ state = "running" /\ activeCount = 0 /\ state' = "stopping" /\ UNCHANGED native
  \/ state \in {"stopping", "stopped"} /\ activeCount = 0 /\ state' = "stopped" /\ native' = FALSE

UpdateSessionState_StopsAtOnce ==
  \/ state \in {"init_warm_start", "stopping", "stopped"} /\ activeCount = 0
     /\ state' = "stopped" /\ native' = FALSE
  \/ activeCount > 0 /\ state' = "running" /\ native' = TRUE
  \/ state = "running" /\ activeCount = 0 /\ state' = "stopping" /\ UNCHANGED native

UpdateSessionState_NeverStopping ==
  \/ state = "init_warm_start" /\ state' = "stopping" /\ native' = TRUE
  \/ state \in {"stopping", "stopped"} /\ activeCount > 0 /\ state' = "running" /\ native' = TRUE
  \/ state = "running" /\ UNCHANGED <<state, native>>
  \/ state \in {"stopping", "stopped"} /\ activeCount = 0 /\ state' = "stopped" /\ native' = FALSE

UpdateSessionState ==
  \/ state = "init_warm_start" /\ state' = "stopping" /\ native' = TRUE
  \/ state = "stopped" /\ activeCount = 0 /\ UNCHANGED <<state, native>>
  \/ state = "stopped" /\ activeCount > 0 /\ state' = "running" /\ native' = TRUE
  \/ state = "running" /\ activeCount > 0 /\ UNCHANGED <<state, native>>
  \/ state = "running" /\ activeCount = 0 /\ state' = "stopping" /\ UNCHANGED native
  \/ state = "stopping" /\ activeCount > 0 /\ state' = "running" /\ UNCHANGED native
  \/ state = "stopping" /\ activeCount = 0 /\ state' = "stopped" /\ native' = FALSE

(***************************************************************************)
(* multi_main_loop.                                                        *)
(***************************************************************************)
\* With oth locked: leave, or update the session state and sleep or go on.
Loop ==
  /\ renderPc = "loop" /\ ~asleep /\ running
  /\ UpdateSessionState
  /\ \/ state' = "stopped" /\ asleep' = TRUE /\ UNCHANGED renderPc
     \/ state' # "stopped" /\ renderPc' = "frame" /\ UNCHANGED asleep
  /\ UNCHANGED <<running, activeCount, clientVars, composed, mainPc, framesMade>>

SpuriousWakeup ==
  /\ asleep /\ asleep' = FALSE
  /\ UNCHANGED <<running, activeCount, clientVars, state, renderPc, composed, native,
                 framesMade, mainPc>>

\* predict, broadcast, wait, begin; then list_and_timing_lock is taken.
BeginFrame ==
  /\ renderPc = "frame"
  /\ renderPc' = "select"
  /\ composed' = {}
  /\ UNCHANGED <<running, activeCount, clientVars, asleep, state, native, framesMade,
                 mainPc>>

\* transfer_layers_locked, its first loop: some of the clients that are visible
\* and whose session is active when it looks have a delivered frame.
Select ==
  /\ renderPc = "select"
  /\ \E clients \in SUBSET {c \in Clients : session[c] # "none" /\ visible[c]
                                               /\ SessionActive(c)} :
       composed' = clients
  /\ renderPc' = "blend"
  /\ UNCHANGED <<running, activeCount, clientVars, asleep, state, native, framesMade,
                 mainPc>>

\* find_active_blend_mode looks at the flags again; then the layers are copied,
\* the lock is released and the native compositor commits the frame.
Blend ==
  /\ renderPc = "blend"
  /\ renderPc' = "loop"
  /\ framesMade' = TRUE
  /\ UNCHANGED <<running, activeCount, clientVars, asleep, state, composed, native,
                 mainPc>>

Exit_NativeLeftRunning ==
  /\ renderPc = "loop" /\ ~asleep /\ ~running
  /\ renderPc' = "exited"
  /\ UNCHANGED <<running, activeCount, clientVars, asleep, state, native, composed,
                 framesMade, mainPc>>

\* The clean up after the loop.  In init_warm_start it runs into assert(false).
Exit ==
  /\ renderPc = "loop" /\ ~asleep /\ ~running
  /\ native' = (IF state \in {"running", "stopping"} THEN FALSE ELSE native)
  /\ renderPc' = "exited"
  /\ UNCHANGED <<running, activeCount, clientVars, asleep, state, composed, framesMade,
                 mainPc>>

Stop_NoSignal ==
  /\ mainPc = "up" /\ \A c \in Clients : session[c] = "none"
  /\ running' = FALSE
  /\ mainPc' = "join"
  /\ UNCHANGED <<activeCount, clientVars, loopVars>>

\* system_compositor_destroy, when all clients are gone.
Stop ==
  /\ mainPc = "up" /\ \A c \in Clients : session[c] = "none"
  /\ running' = FALSE /\ asleep' = FALSE
  /\ mainPc' = "join"
  /\ UNCHANGED <<activeCount, clientVars, state, renderPc, composed, native, framesMade>>

Join ==
  /\ mainPc = "join" /\ renderPc = "exited"
  /\ mainPc' = "gone"
  /\ UNCHANGED <<running, activeCount, clientVars, loopVars>>

\* The system compositor is gone: this is where the model ends.
Gone == mainPc = "gone" /\ UNCHANGED vars

Client == \E c \in Clients :
  \/ Create(c) \/ CountUp(c) \/ SessionBegun(c) \/ CountDown(c) \/ SessionEnded(c)
  \/ Unlist(c) \/ \E on \in BOOLEAN : SetVisible(c, on)

Render == Loop \/ BeginFrame \/ Select \/ Blend \/ Exit

Next == Client \/ SetFocused \/ Render \/ SpuriousWakeup \/ Stop \/ Join \/ Gone

Spec == Init /\ [][Next]_vars

\* The render thread runs when it can, the native calls return, and a thread
\* that destroys the system goes on.  Clients need not do anything.
FairSpec == Spec /\ WF_vars(Render) /\ WF_vars(Join)

(***************************************************************************)
(* Properties.                                                             *)
(***************************************************************************)
\* Every variable has the type of the field or thread position it models.
TypeOK ==
  /\ running \in BOOLEAN /\ asleep \in BOOLEAN
  /\ state \in {"init_warm_start", "stopped", "running", "stopping"}
  /\ activeCount \in Nat
  /\ renderPc \in {"loop", "frame", "select", "blend", "exited"}
  /\ composed \subseteq Clients /\ native \in BOOLEAN
  /\ session \in [Clients -> {"none", "idle", "begun", "active", "ended", "dying"}]
  /\ visible \in [Clients -> BOOLEAN] /\ focused \in [Clients -> BOOLEAN]
  /\ setter \in [client : Clients \cup {"none"}, focused : BOOLEAN]
  /\ mainPc \in {"up", "join", "gone"} /\ framesMade \in BOOLEAN

\* active_count counts the sessions the clients began and did not end, so the
\* assert on its underflow in update_session_status never fires.
ActiveCountIsExact == activeCount = Cardinality({c \in Clients : Counted(c)})

\* The native session is begun and ended in turn: predict, begin and commit of a
\* native frame happen inside it, and it has ended when the system is destroyed.
NativeSessionMatchesState ==
  /\ renderPc # "exited" => (native <=> state \in {"running", "stopping"})
  /\ renderPc \in {"frame", "select", "blend"} => native
  /\ mainPc = "gone" => ~native

\* The render thread never sleeps through a client that began its session, nor
\* through the request to stop.
SleepsOnlyWhenIdle == asleep => activeCount = 0 /\ running

\* "Produce at least one frame on init": the first sleep after a warm start
\* comes after a frame.
WarmStartMakesAFrame == WarmStart /\ asleep => framesMade

\* A client that keeps its session gets frames composed again and again.
ActiveClientsAreRendered ==
  \A c \in Clients : [](<>[](session[c] = "active") => []<>(renderPc = "blend"))

\* Without an active client the render thread comes to rest again and again.
IdleSystemSleeps == (<>[](activeCount = 0)) => []<>(state = "stopped" \/ renderPc = "exited")

\* Shutdown ends the render thread, sleeping or in the middle of a frame.
StopReturns == (mainPc = "join") ~> (mainPc = "gone")

(***************************************************************************)
(* What the source says and the code does not keep.                        *)
(***************************************************************************)
\* find_active_blend_mode: assert(mc->state.visible) for a focused client.
FocusedClientIsVisible ==
  renderPc = "blend" => \A c \in composed : focused[c] => visible[c]
=============================================================================
