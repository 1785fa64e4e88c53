------------------------ MODULE MultiSystem_proofs ------------------------
(***************************************************************************)
(* Proofs about the system side of the multi-client compositor, for any    *)
(* finite set of clients and with or without a warm start.                 *)
(***************************************************************************)
EXTENDS MultiSystem, FiniteSetTheorems, TLAPS

Sessions == {"none", "idle", "begun", "active", "ended", "dying"}

\* Where the threads are when the render thread sleeps, has exited, or when
\* the system compositor is gone.
ThreadsMeet ==
  /\ asleep => renderPc = "loop" /\ state = "stopped"
  /\ renderPc = "exited" => ~running /\ ~asleep /\ ~native
  /\ mainPc = "up" <=> running
  /\ mainPc = "gone" => renderPc = "exited"

\* A warm start: until a frame is made, the render thread has not begun its first
\* pass, or is in the frame of that pass, which is not interrupted.
WarmsUp ==
  WarmStart =>
    \/ framesMade
    \/ state = "init_warm_start" /\ renderPc \in {"loop", "exited"}
    \/ state = "stopping" /\ renderPc \in {"frame", "select", "blend"}

IInv == TypeOK /\ ActiveCountIsExact /\ NativeSessionMatchesState
          /\ SleepsOnlyWhenIdle /\ ThreadsMeet /\ WarmsUp

(***************************************************************************)
(* Counting.                                                               *)
(***************************************************************************)
\* The set of counted clients is finite, so its cardinality is a number.
LEMMA CountedFinite ==
  LET counted == {c \in Clients : Counted(c)} IN
    IsFiniteSet(counted) /\ Cardinality(counted) \in Nat
<1> DEFINE counted == {c \in Clients : Counted(c)}
<1>1. counted \subseteq Clients
  OBVIOUS
<1>2. IsFiniteSet(counted)
  BY <1>1, ClientsAssumption, FS_Subset
<1> QED BY <1>2, FS_CardinalityType

\* A client whose session is counted makes the count positive.
LEMMA CountedIsPositive ==
  ASSUME ActiveCountIsExact, NEW c \in Clients, Counted(c)
  PROVE  activeCount \in Nat /\ activeCount > 0
<1> DEFINE counted == {d \in Clients : Counted(d)}
<1>1. IsFiniteSet(counted) /\ Cardinality(counted) \in Nat
  BY CountedFinite
<1>2. counted # {}
  OBVIOUS
<1>3. Cardinality(counted) # 0
  BY <1>1, <1>2, FS_EmptySet
<1> QED BY <1>1, <1>3 DEF ActiveCountIsExact

\* update_session_status(true) adds exactly the calling client.
LEMMA CountUpExact ==
  ASSUME TypeOK, ActiveCountIsExact, NEW c \in Clients, CountUp(c)
  PROVE  ActiveCountIsExact'
<1> DEFINE counted == {d \in Clients : Counted(d)}
           next == {d \in Clients : session'[d] \in {"begun", "active"}}
<1>1. IsFiniteSet(counted) /\ c \notin counted
  BY CountedFinite DEF CountUp, Counted
<1>2. next = counted \cup {c}
  BY DEF CountUp, Counted, TypeOK
<1>3. Cardinality(next) = Cardinality(counted) + 1
  BY <1>1, <1>2, FS_AddElement
<1> QED BY <1>3 DEF CountUp, ActiveCountIsExact, Counted

\* update_session_status(false) removes exactly the calling client.
LEMMA CountDownExact ==
  ASSUME TypeOK, ActiveCountIsExact, NEW c \in Clients, CountDown(c)
  PROVE  ActiveCountIsExact'
<1> DEFINE counted == {d \in Clients : Counted(d)}
           next == {d \in Clients : session'[d] \in {"begun", "active"}}
<1>1. IsFiniteSet(counted) /\ c \in counted
  BY CountedFinite DEF CountDown, Counted
<1>2. next = counted \ {c}
  BY DEF CountDown, Counted, TypeOK
<1>3. Cardinality(next) = Cardinality(counted) - 1
  BY <1>1, <1>2, FS_RemoveElement
<1> QED BY <1>3 DEF CountDown, ActiveCountIsExact, Counted

\* No other step moves a client into or out of the counted sessions.
LEMMA CountOthersExact ==
  ASSUME ActiveCountIsExact, activeCount' = activeCount,
         \A c \in Clients : Counted(c)' <=> Counted(c)
  PROVE  ActiveCountIsExact'
<1>1. {c \in Clients : Counted(c)}' = {c \in Clients : Counted(c)}
  OBVIOUS
<1> QED BY <1>1 DEF ActiveCountIsExact

\* Every step keeps the count exact.
LEMMA CountStep ==
  ASSUME TypeOK, ActiveCountIsExact, [Next]_vars
  PROVE  ActiveCountIsExact'
<1> USE DEF TypeOK, Counted
<1>1. CASE \E c \in Clients : CountUp(c)
  BY <1>1, CountUpExact
<1>2. CASE \E c \in Clients : CountDown(c)
  BY <1>2, CountDownExact
<1>3. ASSUME NEW c \in Clients,
             Create(c) \/ SessionBegun(c) \/ SessionEnded(c) \/ Unlist(c)
      PROVE  ActiveCountIsExact'
  <2>1. activeCount' = activeCount
    BY <1>3 DEF Create, SessionBegun, SessionEnded, Unlist
  <2>2. \A d \in Clients : Counted(d)' <=> Counted(d)
    BY <1>3 DEF Create, SessionBegun, SessionEnded, Unlist
  <2> QED BY <2>1, <2>2, CountOthersExact
<1>4. CASE UNCHANGED <<activeCount, session>>
  BY <1>4, CountOthersExact
<1> QED
  BY <1>1, <1>2, <1>3, <1>4
  DEF Next, Client, Render, vars, clientVars, loopVars, SetVisible, SetFocused, Loop,
      BeginFrame, Select, Blend, Exit, SpuriousWakeup, Stop, Join, Gone

(***************************************************************************)
(* Types.                                                                  *)
(***************************************************************************)
\* Every step keeps the types; the count stays a number because it is exact.
LEMMA TypeStep ==
  ASSUME TypeOK, ActiveCountIsExact, [Next]_vars
  PROVE  TypeOK'
<1>0. activeCount' \in Nat
  <2> DEFINE next == {c \in Clients : Counted(c)'}
  <2>1. activeCount' = Cardinality(next)
    BY CountStep DEF ActiveCountIsExact
  <2>2. next \subseteq Clients
    OBVIOUS
  <2>3. IsFiniteSet(next)
    BY <2>2, ClientsAssumption, FS_Subset
  <2> QED BY <2>1, <2>3, FS_CardinalityType
<1> USE DEF TypeOK
<1>1. ASSUME NEW c \in Clients,
             Create(c) \/ CountUp(c) \/ SessionBegun(c) \/ CountDown(c)
               \/ SessionEnded(c) \/ Unlist(c)
      PROVE  TypeOK'
  <2>1. session' \in [Clients -> Sessions]
    BY <1>1
    DEF Create, CountUp, SessionBegun, CountDown, SessionEnded, Unlist, Sessions
  <2>2. visible' \in [Clients -> BOOLEAN] /\ focused' \in [Clients -> BOOLEAN]
    BY <1>1 DEF Create, CountUp, SessionBegun, CountDown, SessionEnded, Unlist
  <2>3. asleep' \in BOOLEAN
    BY <1>1
    DEF Create, CountUp, SessionBegun, CountDown, SessionEnded, Unlist, loopVars
  <2>4. UNCHANGED <<running, setter, state, renderPc, composed, native, mainPc, framesMade>>
    BY <1>1
    DEF Create, CountUp, SessionBegun, CountDown, SessionEnded, Unlist, loopVars
  <2> QED BY <1>0, <2>1, <2>2, <2>3, <2>4 DEF Sessions
<1>2. ASSUME NEW c \in Clients, NEW on \in BOOLEAN, SetVisible(c, on)
      PROVE  TypeOK'
  BY <1>2 DEF SetVisible, loopVars
<1>3. CASE SetFocused
  BY <1>3 DEF SetFocused, loopVars
<1>4. CASE Loop
  BY <1>4 DEF Loop, UpdateSessionState, clientVars
<1>5. CASE Select
  BY <1>5 DEF Select, clientVars
<1>6. CASE BeginFrame \/ Blend \/ Exit
  BY <1>6 DEF BeginFrame, Blend, Exit, clientVars
<1>7. CASE SpuriousWakeup
  <2>1. asleep' \in BOOLEAN
    BY <1>7 DEF SpuriousWakeup
  <2>2. UNCHANGED <<running, activeCount, clientVars, state, renderPc, composed, native,
                    framesMade, mainPc>>
    BY <1>7 DEF SpuriousWakeup
  <2> QED BY <2>1, <2>2 DEF clientVars
<1>8. CASE Stop \/ Join
  BY <1>8 DEF Stop, Join, clientVars, loopVars
<1>9. CASE UNCHANGED vars
  BY <1>9 DEF clientVars, loopVars, vars
<1> QED
  BY <1>1, <1>2, <1>3, <1>4, <1>5, <1>6, <1>7, <1>8, <1>9 DEF Next, Client, Render, Gone

(***************************************************************************)
(* The render thread, its sleep and the native session.                    *)
(***************************************************************************)
\* A sleeping render thread has no client to render: only CountDown could
\* make the count differ from 0, and it needs a counted client.
LEMMA SleepStep ==
  ASSUME IInv, [Next]_vars
  PROVE  SleepsOnlyWhenIdle'
<1> USE DEF IInv, TypeOK, SleepsOnlyWhenIdle
<1>1. ASSUME NEW c \in Clients, CountDown(c)
      PROVE  SleepsOnlyWhenIdle'
  <2>1. ~asleep
    BY <1>1, CountedIsPositive DEF CountDown, Counted
  <2> QED BY <1>1, <2>1 DEF CountDown, loopVars
<1>2. CASE Loop
  BY <1>2 DEF Loop, UpdateSessionState, clientVars
<1>3. CASE UNCHANGED <<asleep, activeCount, running>>
  BY <1>3
<1> QED
  BY <1>1, <1>2, <1>3
  DEF Next, Client, Render, vars, clientVars, loopVars, Create, CountUp, SessionBegun,
      SessionEnded, Unlist, SetVisible, SetFocused, BeginFrame, Select, Blend, Exit,
      SpuriousWakeup, Stop, Join, Gone

\* Only the render thread begins and ends the native session, together with
\* the state it keeps.
LEMMA NativeStep ==
  ASSUME IInv, [Next]_vars
  PROVE  NativeSessionMatchesState' /\ ThreadsMeet'
<1> USE DEF IInv, TypeOK, NativeSessionMatchesState, ThreadsMeet
<1>1. CASE Loop
  BY <1>1 DEF Loop, UpdateSessionState, clientVars
<1>2. CASE Exit
  BY <1>2 DEF Exit, clientVars
<1>3. CASE BeginFrame \/ Select \/ Blend
  BY <1>3 DEF BeginFrame, Select, Blend, clientVars
<1>4. CASE SpuriousWakeup \/ Stop \/ Join
  BY <1>4 DEF SpuriousWakeup, Stop, Join, clientVars, loopVars
<1>5. ASSUME NEW c \in Clients, CountUp(c)
      PROVE  NativeSessionMatchesState' /\ ThreadsMeet'
  BY <1>5 DEF CountUp
<1>6. CASE UNCHANGED <<running, asleep, state, renderPc, native, mainPc>>
  BY <1>6
<1> QED
  BY <1>1, <1>2, <1>3, <1>4, <1>5, <1>6
  DEF Next, Client, Render, vars, clientVars, loopVars, Create, SessionBegun, CountDown,
      SessionEnded, Unlist, SetVisible, SetFocused, Gone

\* Only the render thread moves itself and the state, one step of the frame
\* after the other.
LEMMA WarmStep ==
  ASSUME IInv, [Next]_vars
  PROVE  WarmsUp'
<1> USE DEF IInv, TypeOK, WarmsUp
<1>1. CASE Loop
  BY <1>1 DEF Loop, UpdateSessionState, clientVars
<1>2. CASE Exit
  BY <1>2 DEF Exit, clientVars
<1>3. CASE BeginFrame \/ Select \/ Blend
  BY <1>3 DEF BeginFrame, Select, Blend, clientVars
<1>4. CASE UNCHANGED <<state, renderPc, framesMade>>
  BY <1>4
<1> QED
  BY <1>1, <1>2, <1>3, <1>4
  DEF Next, Client, Render, vars, clientVars, loopVars, Create, CountUp, SessionBegun,
      CountDown, SessionEnded, Unlist, SetVisible, SetFocused, SpuriousWakeup, Stop, Join,
      Gone

(***************************************************************************)
(* The invariant and what follows from it.                                 *)
(***************************************************************************)
\* At the start no client is counted and nothing runs.
LEMMA InitIInv == Init => IInv
<1> SUFFICES ASSUME Init PROVE IInv
  OBVIOUS
<1>1. {c \in Clients : Counted(c)} = {}
  BY DEF Init, Counted
<1>2. ActiveCountIsExact
  BY <1>1, FS_EmptySet DEF Init, ActiveCountIsExact
<1>3. TypeOK
  BY WarmStartAssumption DEF Init, TypeOK
<1> QED
  BY <1>2, <1>3
  DEF Init, IInv, NativeSessionMatchesState, SleepsOnlyWhenIdle, ThreadsMeet, WarmsUp

\* The conjunction is inductive.
LEMMA AlwaysIInv == Spec => []IInv
<1>1. IInv /\ [Next]_vars => IInv'
  BY CountStep, TypeStep, SleepStep, NativeStep, WarmStep DEF IInv
<1> QED BY InitIInv, <1>1, PTL DEF Spec

\* Every variable keeps its type, active_count included: it never underflows.
THEOREM TypeCorrect == Spec => []TypeOK
<1>1. IInv => TypeOK
  BY DEF IInv
<1> QED BY AlwaysIInv, <1>1, PTL

\* active_count is the number of clients between the begin and the end of
\* their session (update_session_status), for any number of clients.
THEOREM CountExact == Spec => []ActiveCountIsExact
<1>1. IInv => ActiveCountIsExact
  BY DEF IInv
<1> QED BY AlwaysIInv, <1>1, PTL

\* The native session is open exactly in the states that render, every native
\* frame is made inside it, and shutdown leaves it closed (multi_main_loop).
THEOREM NativeSession == Spec => []NativeSessionMatchesState
<1>1. IInv => NativeSessionMatchesState
  BY DEF IInv
<1> QED BY AlwaysIInv, <1>1, PTL

\* No lost wakeup: the render thread sleeps only while no client is active and
\* nobody asked it to stop (update_session_state_locked).
THEOREM NoSleepWithClients == Spec => []SleepsOnlyWhenIdle
<1>1. IInv => SleepsOnlyWhenIdle
  BY DEF IInv
<1> QED BY AlwaysIInv, <1>1, PTL

\* "Produce at least one frame on init": after a warm start the render thread
\* does not sleep before it has made a frame, whatever the clients do meanwhile.
THEOREM WarmStartFrame == Spec => []WarmStartMakesAFrame
<1>1. IInv => WarmStartMakesAFrame
  BY DEF IInv, ThreadsMeet, WarmsUp, WarmStartMakesAFrame
<1> QED BY AlwaysIInv, <1>1, PTL
=============================================================================
