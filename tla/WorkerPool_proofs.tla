------------------------- MODULE WorkerPool_proofs -------------------------
(***************************************************************************)
(* Proofs about the thread pool: every task is in one place, the limit is  *)
(* what the pool started with plus the sleeping threads, a wait returns    *)
(* only when the tasks of its group are done, and the counters stay within *)
(* their types.                                                            *)
(*                                                                         *)
(* The counters of the code are sizes of sets of the model.  The argument  *)
(* is that each step adds or removes one element of each of these sets     *)
(* (SetChange), and that a signal only moves a thread from asleep to woken *)
(* (SignalWakes).                                                          *)
(***************************************************************************)
EXTENDS WorkerPool, FiniteSetTheorems, WellFoundedInduction, TLAPS

WorkerPlaces == {"ready", "asleep", "woken", "working", "gone"}
UserPlaces == {"idle", "push", "enter", "asleep", "woken", "drop", "stop", "join", "gone"}

\* The types without the bounds of the counters, which depend on all the rest.
Shape ==
  /\ tasks \in [Slots -> Tasks \cup {NoTask}]
  /\ limit \in Int /\ running \in BOOLEAN /\ refs \in Int
  /\ workerPc \in [Threads -> WorkerPlaces]
  /\ task \in [Threads -> Tasks \cup {NoTask}]
  /\ holder \in Threads \cup {None}
  /\ submitted \in [Groups -> Int] /\ released \in [Groups -> Int]
  /\ userPc \in [Users -> UserPlaces]
  /\ returnTo \in [Groups -> {"idle", "push", "drop"}]
  /\ pushed \in [Groups -> Int] /\ finished \subseteq Tasks

\* A thread has a task exactly while it works, and keeps the mutex only
\* between the end of a task and its next decision.
Hands ==
  /\ \A t \in Threads : workerPc[t] = "working" <=> task[t] # NoTask
  /\ holder # None => workerPc[holder] = "ready"

\* current_submitted_tasks_count is the number of tasks of the group in the
\* array and in the hands of threads.
Queued(K) == {i \in Slots : tasks[i] \in K}
Held(K) == {t \in Threads : task[t] \in K}
TasksOf(g) == {k \in Tasks : k[1] = g}
SubmittedIsExact ==
  \A g \in Groups :
    submitted[g] = Cardinality(Queued(TasksOf(g))) + Cardinality(Held(TasksOf(g)))

\* released_count is 0, or 1 from the end of the last task of a group until the
\* thread that waits for it has the mutex again.
ReleasedOnce ==
  \A g \in Groups :
    \/ released[g] = 0
    \/ released[g] = 1 /\ submitted[g] = 0 /\ userPc[g] = "woken"

\* A reference is held from the start until it is dropped; the pool is shut
\* down by the one that dropped the last; and a group that is destroyed has no
\* tasks.
Holders == {u \in Users : userPc[u] \notin {"stop", "join", "gone"}}
ReferencesExact ==
  /\ refs = Cardinality(Holders)
  /\ (~running \/ \E u \in Users : userPc[u] \in {"stop", "join"}) => Holders = {}
  /\ \A g \in Groups : userPc[g] \in {"drop", "stop", "join", "gone"} => submitted[g] = 0
  /\ userPc["creator"] \in {"idle", "stop", "join", "gone"}

\* A group that is about to push has room for one more task under the bound.
Room ==
  \A g \in Groups :
    /\ pushed[g] \in 0..MaxPush
    /\ \/ userPc[g] = "push"
       \/ userPc[g] \in {"enter", "asleep", "woken"} /\ returnTo[g] = "push"
       => pushed[g] < MaxPush

\* Every task is in one place (the first part of TasksConserved).
Placed == \A k \in Tasks : Places(k) = (IF k[2] <= pushed[k[1]] THEN 1 ELSE 0)

PoolInv ==
  /\ Shape /\ Hands /\ SubmittedIsExact /\ ReleasedOnce /\ ReferencesExact /\ Room
  /\ Placed /\ LimitIsExact

(***************************************************************************)
(* Facts about sets and about the operators of the model.                  *)
(***************************************************************************)
One(b) == IF b THEN 1 ELSE 0

\* Two sets that differ in one element at most: their sizes.
LEMMA SetChange ==
  ASSUME NEW A, NEW B, NEW x, IsFiniteSet(A), A \ {x} = B \ {x}
  PROVE  /\ IsFiniteSet(B) /\ Cardinality(A) \in Nat /\ Cardinality(B) \in Nat
         /\ Cardinality(B) = Cardinality(A) - One(x \in A) + One(x \in B)
  <1>1. /\ IsFiniteSet(A \ {x}) /\ Cardinality(A) \in Nat /\ Cardinality(A \ {x}) \in Nat
        /\ Cardinality(A \ {x}) = Cardinality(A) - One(x \in A)
    BY FS_RemoveElement, FS_CardinalityType DEF One
  <1>2. CASE x \in B
    <2>1. B = (A \ {x}) \cup {x} /\ x \notin A \ {x}
      BY <1>2
    <2>2. IsFiniteSet(B) /\ Cardinality(B) = Cardinality(A \ {x}) + 1
      BY <2>1, <1>1, FS_AddElement
    <2> QED BY <2>2, <1>1, <1>2 DEF One
  <1>3. CASE x \notin B
    <2>1. B = A \ {x}
      BY <1>3
    <2> QED BY <2>1, <1>1, <1>3 DEF One
  <1> QED BY <1>2, <1>3

\* A set with an element is not of size 0.
LEMMA SizeOfNonempty ==
  ASSUME NEW S, NEW x \in S, IsFiniteSet(S) PROVE Cardinality(S) \in Nat \ {0}
  BY FS_CardinalityType, FS_EmptySet

\* A set of naturals has a least element: a smallest one of the segments 1..i.
LEMMA LeastExists ==
  ASSUME NEW S, S \subseteq Nat, S # {} PROVE \E i \in S : \A j \in S : i <= j
  <1> DEFINE T == {1..i : i \in S}
  <1>1. T \subseteq FiniteSubsetsOf(Nat) /\ T # {}
    <2>1. \A i \in S : 1..i \subseteq Nat /\ IsFiniteSet(1..i)
      BY FS_Interval
    <2> QED BY <2>1 DEF FiniteSubsetsOf
  <1>2. IsWellFoundedOn(StrictSubsetOrdering(Nat), FiniteSubsetsOf(Nat))
    BY FS_StrictSubsetOrderingWellFounded
  <1>3. PICK x \in T : \A y \in T : ~ (<<y, x>> \in StrictSubsetOrdering(Nat))
    BY <1>1, <1>2, WFMin
  <1>4. PICK i \in S : x = 1..i
    BY <1>3
  <1>5. ASSUME NEW j \in S PROVE i <= j
    <2>1. SUFFICES ASSUME j < i PROVE FALSE
      OBVIOUS
    <2>2. /\ 1..j \subseteq 1..i /\ i \in 1..i /\ i \notin 1..j
          /\ 1..j \subseteq Nat /\ 1..i \subseteq Nat
      BY <2>1
    <2>3. <<1..j, x>> \in StrictSubsetOrdering(Nat)
      BY <2>2, <1>4 DEF StrictSubsetOrdering
    <2> QED BY <2>3, <1>3
  <1> QED BY <1>4, <1>5

\* The first of some slots is one of them.
LEMMA FirstIsOne ==
  ASSUME NEW S, S \subseteq Slots, S # {} PROVE FirstOf(S) \in S
  <1>1. S \subseteq Nat
    BY TaskCountAssumption DEF Slots
  <1> QED BY <1>1, LeastExists DEF FirstOf

\* The empty slot is no task.
LEMMA NoTaskIsNone == NoTask \notin Tasks
  BY DEF NoTask, Tasks

\* The sets the counters are compared with are finite.
LEMMA SetsAreFinite ==
  /\ IsFiniteSet(Users) /\ IsFiniteSet(Holders)
  /\ \A K : IsFiniteSet(Queued(K)) /\ IsFiniteSet(Held(K))
  /\ IsFiniteSet({g \in Waiting : released[g] = 0})
  /\ Shape => IsFiniteSet(At(workerPc, {"working"}))
  <1>1. IsFiniteSet(Users) /\ IsFiniteSet(Groups)
    BY GroupsAssumption, FS_AddElement DEF Users
  <1>2. IsFiniteSet(Slots) /\ IsFiniteSet(Threads)
    BY FS_Interval, TaskCountAssumption, ThreadsAssumption DEF Slots
  <1>3. IsFiniteSet(Holders)
    BY <1>1, FS_Subset DEF Holders
  <1>4. ASSUME NEW K PROVE IsFiniteSet(Queued(K)) /\ IsFiniteSet(Held(K))
    <2>1. Queued(K) \subseteq Slots /\ Held(K) \subseteq Threads
      BY DEF Queued, Held
    <2> QED BY <2>1, <1>2, FS_Subset
  <1>5. IsFiniteSet({g \in Waiting : released[g] = 0})
    <2>1. {g \in Waiting : released[g] = 0} \subseteq Groups
      BY DEF Waiting
    <2> QED BY <2>1, <1>1, FS_Subset
  <1>6. Shape => At(workerPc, {"working"}) \subseteq Threads
    BY DEF Shape, At
  <1> QED BY <1>1, <1>2, <1>3, <1>4, <1>5, <1>6, FS_Subset

\* A signal moves one sleeping thread to woken, or nothing.
OnlyWoken(before, after) ==
  /\ after \in [Threads -> WorkerPlaces]
  /\ \A t \in Threads :
       after[t] = before[t] \/ (before[t] = "asleep" /\ after[t] = "woken")

\* A signal wakes at most one sleeper and moves nobody else.
LEMMA SignalWakes ==
  ASSUME NEW pcs \in [Threads -> WorkerPlaces], NEW after \in Signalled(pcs) \cup {pcs}
  PROVE  OnlyWoken(pcs, after)
  BY DEF Signalled, OnlyWoken, At, WorkerPlaces

\* What the steps that signal the workers do to the threads.
LEMMA WorkerSteps ==
  ASSUME Shape, NEW t \in Threads
  PROVE  /\ StartTask(t) => OnlyWoken([workerPc EXCEPT ![t] = "working"], workerPc')
         /\ LeavePool(t) => OnlyWoken([workerPc EXCEPT ![t] = "gone"], workerPc')
  <1>1. /\ [workerPc EXCEPT ![t] = "working"] \in [Threads -> WorkerPlaces]
        /\ [workerPc EXCEPT ![t] = "gone"] \in [Threads -> WorkerPlaces]
    BY DEF Shape, WorkerPlaces
  <1>2. ASSUME StartTask(t)
        PROVE  OnlyWoken([workerPc EXCEPT ![t] = "working"], workerPc')
    <2> DEFINE pcs == [workerPc EXCEPT ![t] = "working"]
    <2>1. workerPc' \in Signalled(pcs) \cup {pcs}
      BY <1>2 DEF StartTask, WakeWorker
    <2> QED BY <2>1, <1>1, SignalWakes
  <1>3. ASSUME LeavePool(t)
        PROVE  OnlyWoken([workerPc EXCEPT ![t] = "gone"], workerPc')
    <2>1. workerPc' \in Signalled([workerPc EXCEPT ![t] = "gone"])
      BY <1>3 DEF LeavePool
    <2> QED BY <2>1, <1>1, SignalWakes
  <1> QED BY <1>2, <1>3

\* So do the calls of the users that signal the workers.
LEMMA UserSteps ==
  ASSUME Shape, NEW u,
         Push(u) \/ EnterWait(u) \/ LeaveWait(u) \/ StopPool(u)
  PROVE  OnlyWoken(workerPc, workerPc')
  <1>1. workerPc' \in Signalled(workerPc) \cup {workerPc}
    BY DEF Push, EnterWait, LeaveWait, StopPool, WakeWorker
  <1> QED BY <1>1, SignalWakes DEF Shape

\* The slot a step takes its task from, or puts it in.
LEMMA SlotsChosen ==
  /\ InArray # {} => FirstOf(InArray) \in InArray
  /\ InArray # Slots => FirstOf(Slots \ InArray) \in Slots \ InArray
  <1>1. InArray \subseteq Slots
    BY DEF InArray
  <1> QED BY <1>1, FirstIsOne

\* Types are kept.
LEMMA ShapeStep == PoolInv /\ [Next]_vars => Shape'
  <1> SUFFICES ASSUME PoolInv, [Next]_vars PROVE Shape'
    OBVIOUS
  <1> USE DEF poolVars, workerVars, groupVars, userVars, historyVars
  <1>1. ASSUME NEW t \in Threads, StartTask(t) PROVE Shape'
    <2>1. FirstOf(InArray) \in Slots /\ tasks[FirstOf(InArray)] \in Tasks
      BY <1>1, SlotsChosen DEF StartTask, Allowed, InArray, PoolInv, Shape
    <2>2. workerPc' \in [Threads -> WorkerPlaces]
      BY <1>1, WorkerSteps DEF OnlyWoken, PoolInv
    <2> QED BY <1>1, <2>1, <2>2 DEF StartTask, PoolInv, Shape
  <1>2. ASSUME NEW t \in Threads, WaitForWork(t) PROVE Shape'
    BY <1>2 DEF WaitForWork, Goto, PoolInv, Shape, WorkerPlaces, UserPlaces,
      Users
  <1>3. ASSUME NEW t \in Threads, FinishTask(t) PROVE Shape'
    <2>1. task[t] \in Tasks /\ task[t][1] \in Groups
      BY <1>3 DEF FinishTask, PoolInv, Shape, Hands, Tasks
    <2>2. /\ userPc' \in [Users -> UserPlaces] /\ limit' \in Int
          /\ released' \in [Groups -> Int]
      BY <1>3 DEF FinishTask, WakeWaiter, Waiting, PoolInv, Shape, UserPlaces
    <2>3. /\ submitted' \in [Groups -> Int] /\ task' \in [Threads -> Tasks \cup {NoTask}]
          /\ finished' \subseteq Tasks /\ workerPc' \in [Threads -> WorkerPlaces]
      BY <1>3, <2>1 DEF FinishTask, PoolInv, Shape, WorkerPlaces
    <2>4. UNCHANGED <<tasks, running, refs, returnTo, pushed>> /\ holder' \in Threads
      BY <1>3 DEF FinishTask
    <2> QED BY <2>2, <2>3, <2>4 DEF PoolInv, Shape
  <1>4. ASSUME NEW t \in Threads, LeavePool(t) PROVE Shape'
    <2>1. workerPc' \in [Threads -> WorkerPlaces]
      BY <1>4, WorkerSteps DEF OnlyWoken, PoolInv
    <2> QED BY <1>4, <2>1 DEF LeavePool, PoolInv, Shape
  <1>5. ASSUME NEW t \in Threads, WorkerSpuriousWakeup(t) PROVE Shape'
    BY <1>5 DEF WorkerSpuriousWakeup, Goto, PoolInv, Shape, WorkerPlaces,
      UserPlaces, Users
  <1>6. ASSUME NEW g \in Groups, Call(g) PROVE Shape'
    BY <1>6 DEF Call, Goto, PoolInv, Shape, WorkerPlaces, UserPlaces, Users
  <1>7. ASSUME NEW g \in Groups, PushFull(g) PROVE Shape'
    BY <1>7 DEF PushFull, Goto, PoolInv, Shape, WorkerPlaces, UserPlaces, Users
  <1>8. ASSUME NEW g \in Groups, Push(g) PROVE Shape'
    <2>1. workerPc' \in [Threads -> WorkerPlaces]
      BY <1>8, UserSteps DEF OnlyWoken, PoolInv
    <2>2. pushed[g] + 1 \in 1..MaxPush
      BY <1>8, TaskCountAssumption DEF Push, PoolInv, Room
    <2>3. <<g, pushed[g] + 1>> \in Tasks
      BY <2>2 DEF Tasks
    <2>4. tasks' \in [Slots -> Tasks \cup {NoTask}]
      BY <1>8, <2>3 DEF Push, PoolInv, Shape
    <2>5. pushed' \in [Groups -> Int] /\ submitted' \in [Groups -> Int]
      BY <1>8 DEF Push, PoolInv, Shape
    <2>6. userPc' \in [Users -> UserPlaces]
      BY <1>8 DEF Push, Goto, PoolInv, Shape, UserPlaces
    <2> QED BY <1>8, <2>1, <2>4, <2>5, <2>6 DEF Push, PoolInv, Shape
  <1>9. ASSUME NEW g \in Groups, EnterWait(g) PROVE Shape'
    <2>1. workerPc' \in [Threads -> WorkerPlaces]
      BY <1>9, UserSteps DEF OnlyWoken, PoolInv
    <2> QED BY <1>9, <2>1 DEF EnterWait, Goto, PoolInv, Shape, UserPlaces, Users
  <1>10. ASSUME NEW g \in Groups, LeaveWait(g) PROVE Shape'
    <2>1. workerPc' \in [Threads -> WorkerPlaces]
      BY <1>10, UserSteps DEF OnlyWoken, PoolInv
    <2>2. limit' \in Int
      BY <1>10 DEF LeaveWait, PoolInv, Shape
    <2> QED BY <1>10, <2>1, <2>2 DEF LeaveWait, Goto, PoolInv, Shape, UserPlaces, Users
  <1>11. ASSUME NEW g \in Groups, UserSpuriousWakeup(g) PROVE Shape'
    BY <1>11 DEF UserSpuriousWakeup, Goto, PoolInv, Shape, WorkerPlaces,
      UserPlaces, Users
  <1>12. ASSUME NEW u \in Users, DropReference(u) PROVE Shape'
    BY <1>12 DEF DropReference, Goto, PoolInv, Shape, WorkerPlaces, UserPlaces,
      Users
  <1>13. ASSUME NEW u \in Users, StopPool(u) PROVE Shape'
    <2>1. workerPc' \in [Threads -> WorkerPlaces]
      BY <1>13, UserSteps DEF OnlyWoken, PoolInv
    <2> QED BY <1>13, <2>1 DEF StopPool, Goto, PoolInv, Shape, UserPlaces
  <1>14. ASSUME NEW u \in Users, JoinWorkers(u) PROVE Shape'
    BY <1>14 DEF JoinWorkers, Goto, PoolInv, Shape, WorkerPlaces, UserPlaces,
      Users
  <1>15. ASSUME UNCHANGED <<tasks, limit, running, refs, workerPc, task, holder,
      submitted, released, userPc, returnTo, pushed, finished>> PROVE Shape'
    BY <1>15 DEF Goto, PoolInv, Shape, WorkerPlaces, UserPlaces, Users
  <1>16. QED
    BY <1>1, <1>2, <1>3, <1>4, <1>5, <1>6, <1>7, <1>8, <1>9, <1>10, <1>11,
      <1>12, <1>13, <1>14, <1>15 DEF Next, WorkerStep, GroupStep, DestroyStep,
      AllGone, vars

\* A thread has a task exactly while it works: the array has one when a thread
\* takes it, and a signal moves no thread that has one.
LEMMA HandsStep == PoolInv /\ [Next]_vars => Hands'
  <1> SUFFICES ASSUME PoolInv, [Next]_vars PROVE Hands'
    OBVIOUS
  <1> USE DEF PoolInv, Shape, Hands, workerVars
  <1>1. ASSUME NEW t \in Threads, StartTask(t) PROVE Hands'
    <2>1. FirstOf(InArray) \in Slots /\ tasks[FirstOf(InArray)] # NoTask
      BY <1>1, SlotsChosen DEF StartTask, Allowed, InArray
    <2>2. OnlyWoken([workerPc EXCEPT ![t] = "working"], workerPc')
      BY <1>1, WorkerSteps
    <2> QED BY <1>1, <2>1, <2>2, ThreadsAssumption DEF StartTask, OnlyWoken
  <1>2. ASSUME NEW t \in Threads, WaitForWork(t) PROVE Hands'
    BY <1>2, ThreadsAssumption DEF WaitForWork, HasMutex
  <1>3. ASSUME NEW t \in Threads, FinishTask(t) PROVE Hands'
    BY <1>3, ThreadsAssumption DEF FinishTask
  <1>4. ASSUME NEW t \in Threads, LeavePool(t) PROVE Hands'
    <2>1. OnlyWoken([workerPc EXCEPT ![t] = "gone"], workerPc')
      BY <1>4, WorkerSteps
    <2> QED BY <1>4, <2>1, ThreadsAssumption DEF LeavePool, OnlyWoken, HasMutex
  <1>5. ASSUME NEW t \in Threads, WorkerSpuriousWakeup(t) PROVE Hands'
    BY <1>5 DEF WorkerSpuriousWakeup
  <1>6. ASSUME NEW g \in Groups, Push(g) PROVE Hands'
    BY <1>6, UserSteps DEF Push, OnlyWoken
  <1>7. ASSUME NEW g \in Groups, EnterWait(g) PROVE Hands'
    BY <1>7, UserSteps DEF EnterWait, OnlyWoken
  <1>8. ASSUME NEW g \in Groups, LeaveWait(g) PROVE Hands'
    BY <1>8, UserSteps DEF LeaveWait, OnlyWoken
  <1>9. ASSUME NEW u \in Users, StopPool(u) PROVE Hands'
    BY <1>9, UserSteps DEF StopPool, OnlyWoken
  <1>10. ASSUME UNCHANGED <<workerPc, task, holder>> PROVE Hands'
    BY <1>10
  <1>11. QED
    BY <1>1, <1>2, <1>3, <1>4, <1>5, <1>6, <1>7, <1>8, <1>9, <1>10 DEF Next,
      WorkerStep, GroupStep, DestroyStep, AllGone, vars, poolVars, groupVars,
      userVars, historyVars, Call, PushFull, UserSpuriousWakeup, DropReference,
      JoinWorkers


\* How the tasks of a set K move: into the array, from it to a thread, and out
\* of the thread's hands.
LEMMA TasksMove ==
  ASSUME PoolInv, NEW K \in SUBSET Tasks
  PROVE  /\ \A t \in Threads : StartTask(t) =>
              LET k == tasks[FirstOf(InArray)] IN
                /\ k \in Tasks
                /\ Cardinality(Queued(K)') = Cardinality(Queued(K)) - One(k \in K)
                /\ Cardinality(Held(K)') = Cardinality(Held(K)) + One(k \in K)
         /\ \A t \in Threads : FinishTask(t) =>
                /\ task[t] \in Tasks
                /\ Cardinality(Held(K)') = Cardinality(Held(K)) - One(task[t] \in K)
                /\ task[t] \in K => Cardinality(Held(K)) > 0
         /\ \A g \in Groups : Push(g) =>
                /\ <<g, pushed[g] + 1>> \in Tasks
                /\ Cardinality(Queued(K)') =
                     Cardinality(Queued(K)) + One(<<g, pushed[g] + 1>> \in K)
  <1> USE DEF PoolInv
  <1>1. NoTask \notin K /\ IsFiniteSet(Queued(K)) /\ IsFiniteSet(Held(K))
    BY NoTaskIsNone, SetsAreFinite
  <1>2. ASSUME NEW t \in Threads, StartTask(t), NEW k, k = tasks[FirstOf(InArray)]
        PROVE  /\ k \in Tasks
               /\ Cardinality(Queued(K)') = Cardinality(Queued(K)) - One(k \in K)
               /\ Cardinality(Held(K)') = Cardinality(Held(K)) + One(k \in K)
    <2> DEFINE i == FirstOf(InArray)
    <2>1. i \in Slots /\ k \in Tasks
      BY <1>2, SlotsChosen DEF StartTask, Allowed, InArray, Shape
    <2>2. tasks' = [tasks EXCEPT ![i] = NoTask] /\ task' = [task EXCEPT ![t] = k]
      BY <1>2 DEF StartTask
    <2>3. workerPc[t] # "working" /\ task[t] = NoTask
      BY <1>2, ThreadsAssumption DEF StartTask, HasMutex, Hands
    <2> HIDE DEF i
    <2>4. /\ Queued(K) \ {i} = Queued(K)' \ {i} /\ i \notin Queued(K)'
          /\ i \in Queued(K) <=> k \in K
      BY <2>1, <2>2, <1>1, <1>2 DEF Queued, Shape, i
    <2>5. Held(K) \ {t} = Held(K)' \ {t} /\ t \notin Held(K) /\ (t \in Held(K)' <=> k \in K)
      BY <2>2, <2>3, <1>1 DEF Held, Shape
    <2> QED BY <2>1, <2>4, <2>5, <1>1, SetChange DEF One
  <1>3. ASSUME NEW t \in Threads, FinishTask(t)
        PROVE  /\ task[t] \in Tasks
               /\ Cardinality(Held(K)') = Cardinality(Held(K)) - One(task[t] \in K)
               /\ task[t] \in K => Cardinality(Held(K)) > 0
    <2>1. workerPc[t] = "working" /\ task' = [task EXCEPT ![t] = NoTask]
      BY <1>3 DEF FinishTask
    <2>2. task[t] \in Tasks
      BY <2>1 DEF Hands, Shape
    <2>3. /\ Held(K) \ {t} = Held(K)' \ {t} /\ t \notin Held(K)'
          /\ t \in Held(K) <=> task[t] \in K
      BY <2>1, <1>1 DEF Held, Shape
    <2>4. task[t] \in K => Cardinality(Held(K)) > 0
      BY <2>3, <1>1, SizeOfNonempty
    <2> QED BY <2>2, <2>3, <2>4, <1>1, SetChange DEF One
  <1>4. ASSUME NEW g \in Groups, Push(g), NEW k, k = <<g, pushed[g] + 1>>
        PROVE  /\ k \in Tasks
               /\ Cardinality(Queued(K)') = Cardinality(Queued(K)) + One(k \in K)
    <2> DEFINE i == FirstOf(Slots \ InArray)
    <2>1. i \in Slots /\ tasks[i] = NoTask
      BY <1>4, SlotsChosen DEF Push, InArray
    <2>2. tasks' = [tasks EXCEPT ![i] = k]
      BY <1>4 DEF Push
    <2>3. pushed[g] + 1 \in 1..MaxPush
      BY <1>4, TaskCountAssumption DEF Push, Room
    <2> HIDE DEF i
    <2>4. /\ Queued(K) \ {i} = Queued(K)' \ {i} /\ i \notin Queued(K)
          /\ i \in Queued(K)' <=> k \in K
      BY <2>1, <2>2, <1>1 DEF Queued, Shape
    <2>5. k \in Tasks
      BY <2>3, <1>4 DEF Tasks
    <2> QED BY <2>4, <2>5, <1>1, SetChange DEF One
  <1> QED BY <1>2, <1>3, <1>4

\* A group with a task in the hands of a thread has tasks to wait for.
LEMMA BusyGroup ==
  ASSUME PoolInv, NEW t \in Threads, FinishTask(t)
  PROVE  task[t] \in Tasks /\ task[t][1] \in Groups /\ submitted[task[t][1]] > 0
  <1> DEFINE h == task[t][1]
  <1>1. task[t] \in Tasks /\ (task[t] \in TasksOf(h) => Cardinality(Held(TasksOf(h))) > 0)
    BY TasksMove DEF TasksOf
  <1>2. h \in Groups /\ task[t] \in TasksOf(h)
    BY <1>1 DEF Tasks, TasksOf
  <1>3. Cardinality(Queued(TasksOf(h))) \in Nat /\ Cardinality(Held(TasksOf(h))) \in Nat
    BY SetsAreFinite, FS_CardinalityType
  <1> QED BY <1>1, <1>2, <1>3 DEF PoolInv, SubmittedIsExact

\* The count of a group follows its tasks: push counts one more, the end of the
\* function one less, and the step from the array to a thread nothing.
LEMMA SubmittedStep == PoolInv /\ [Next]_vars => SubmittedIsExact'
  <1> SUFFICES ASSUME PoolInv, [Next]_vars PROVE SubmittedIsExact'
    OBVIOUS
  <1> USE DEF workerVars, groupVars
  <1>1. ASSUME NEW t \in Threads, StartTask(t) PROVE SubmittedIsExact'
    <2> SUFFICES ASSUME NEW g \in Groups
                 PROVE  submitted'[g] = Cardinality(Queued(TasksOf(g))')
                                          + Cardinality(Held(TasksOf(g))')
      BY DEF SubmittedIsExact, TasksOf
    <2>1. TasksOf(g) \in SUBSET Tasks
      BY DEF TasksOf
    <2>2. /\ Cardinality(Queued(TasksOf(g))) \in Nat /\ Cardinality(Held(TasksOf(g))) \in Nat
          /\ submitted[g] = Cardinality(Queued(TasksOf(g))) + Cardinality(Held(TasksOf(g)))
      BY SetsAreFinite, FS_CardinalityType DEF PoolInv, SubmittedIsExact
    <2>3. UNCHANGED submitted
      BY <1>1 DEF StartTask
    <2> QED BY <1>1, <2>1, <2>2, <2>3, TasksMove DEF One
  <1>2. ASSUME NEW t \in Threads, FinishTask(t) PROVE SubmittedIsExact'
    <2> SUFFICES ASSUME NEW g \in Groups
                 PROVE  submitted'[g] = Cardinality(Queued(TasksOf(g))')
                                          + Cardinality(Held(TasksOf(g))')
      BY DEF SubmittedIsExact, TasksOf
    <2>1. TasksOf(g) \in SUBSET Tasks
      BY DEF TasksOf
    <2>2. /\ Cardinality(Queued(TasksOf(g))) \in Nat /\ Cardinality(Held(TasksOf(g))) \in Nat
          /\ submitted[g] = Cardinality(Queued(TasksOf(g))) + Cardinality(Held(TasksOf(g)))
      BY SetsAreFinite, FS_CardinalityType DEF PoolInv, SubmittedIsExact
    <2>3. submitted' = [submitted EXCEPT ![task[t][1]] = @ - 1] /\ UNCHANGED tasks
      BY <1>2 DEF FinishTask
    <2>4. /\ task[t] \in Tasks
          /\ Cardinality(Held(TasksOf(g))') = Cardinality(Held(TasksOf(g))) - One(task[t] \in TasksOf(g))
      BY <1>2, <2>1, TasksMove
    <2>5. task[t] \in TasksOf(g) <=> task[t][1] = g
      BY <2>4 DEF TasksOf
    <2>6. submitted'[g] = submitted[g] - One(task[t] \in TasksOf(g))
      BY <2>3, <2>5 DEF PoolInv, Shape, One
    <2>7. Cardinality(Queued(TasksOf(g))') = Cardinality(Queued(TasksOf(g)))
      BY <2>3 DEF Queued
    <2> QED BY <2>2, <2>4, <2>6, <2>7 DEF One
  <1>3. ASSUME NEW g \in Groups, Push(g) PROVE SubmittedIsExact'
    <2> SUFFICES ASSUME NEW h \in Groups
                 PROVE  submitted'[h] = Cardinality(Queued(TasksOf(h))')
                                          + Cardinality(Held(TasksOf(h))')
      BY DEF SubmittedIsExact, TasksOf
    <2> DEFINE k == <<g, pushed[g] + 1>>
    <2>1. TasksOf(h) \in SUBSET Tasks
      BY DEF TasksOf
    <2>2. /\ Cardinality(Queued(TasksOf(h))) \in Nat /\ Cardinality(Held(TasksOf(h))) \in Nat
          /\ submitted[h] = Cardinality(Queued(TasksOf(h))) + Cardinality(Held(TasksOf(h)))
      BY SetsAreFinite, FS_CardinalityType DEF PoolInv, SubmittedIsExact
    <2>3. submitted' = [submitted EXCEPT ![g] = @ + 1] /\ UNCHANGED task
      BY <1>3 DEF Push
    <2>4. /\ k \in Tasks
          /\ Cardinality(Queued(TasksOf(h))') = Cardinality(Queued(TasksOf(h))) + One(k \in TasksOf(h))
      BY <1>3, <2>1, TasksMove
    <2>5. k \in TasksOf(h) <=> g = h
      BY <2>4 DEF TasksOf
    <2>6. submitted'[h] = submitted[h] + One(k \in TasksOf(h))
      BY <2>3, <2>5 DEF PoolInv, Shape, One
    <2>7. Cardinality(Held(TasksOf(h))') = Cardinality(Held(TasksOf(h)))
      BY <2>3 DEF Held
    <2> QED BY <2>2, <2>4, <2>6, <2>7 DEF One
  <1>4. ASSUME UNCHANGED <<tasks, task, submitted>> PROVE SubmittedIsExact'
    BY <1>4 DEF PoolInv, SubmittedIsExact, Queued, Held
  <1>5. QED
    BY <1>1, <1>2, <1>3, <1>4 DEF Next, WorkerStep, GroupStep, DestroyStep,
      AllGone, vars, poolVars, userVars, historyVars, WaitForWork, LeavePool,
      WorkerSpuriousWakeup, Call, PushFull, EnterWait, LeaveWait,
      UserSpuriousWakeup, DropReference, StopPool, JoinWorkers

\* A waiting thread is released when the last task of its group ends, which is
\* counted as submitted until then, so it was not released before.
LEMMA ReleasedStep == PoolInv /\ [Next]_vars => ReleasedOnce'
  <1> SUFFICES ASSUME PoolInv, [Next]_vars PROVE ReleasedOnce'
    OBVIOUS
  <1> USE DEF PoolInv, Shape, ReleasedOnce, UserPlaces, Users, groupVars,
      userVars
  <1>1. ASSUME NEW t \in Threads, FinishTask(t) PROVE ReleasedOnce'
    <2>1. task[t][1] \in Groups /\ submitted[task[t][1]] > 0
      BY <1>1, BusyGroup
    <2> DEFINE h == task[t][1]
    <2>2. /\ submitted' = [submitted EXCEPT ![h] = @ - 1]
          /\ \/ submitted'[h] = 0 /\ h \in Waiting /\ userPc' = [userPc EXCEPT ![h] = "woken"]
                /\ released' = [released EXCEPT ![h] = @ + 1]
             \/ UNCHANGED <<released, userPc>>
      BY <1>1 DEF FinishTask, WakeWaiter
    <2> HIDE DEF h
    <2>3. h \in Groups /\ submitted[h] > 0 /\ released[h] = 0
      BY <2>1 DEF h
    <2> QED BY <2>2, <2>3
  <1>2. ASSUME NEW g \in Groups, Call(g) PROVE ReleasedOnce'
    BY <1>2 DEF Call, Goto
  <1>3. ASSUME NEW g \in Groups, PushFull(g) PROVE ReleasedOnce'
    BY <1>3 DEF PushFull, Goto
  <1>4. ASSUME NEW g \in Groups, Push(g) PROVE ReleasedOnce'
    BY <1>4 DEF Push, Goto
  <1>5. ASSUME NEW g \in Groups, EnterWait(g) PROVE ReleasedOnce'
    BY <1>5 DEF EnterWait, Goto
  <1>6. ASSUME NEW g \in Groups, LeaveWait(g) PROVE ReleasedOnce'
    BY <1>6 DEF LeaveWait, Goto
  <1>7. ASSUME NEW g \in Groups, UserSpuriousWakeup(g) PROVE ReleasedOnce'
    BY <1>7 DEF UserSpuriousWakeup, Goto
  <1>8. ASSUME NEW u \in Users, DropReference(u) PROVE ReleasedOnce'
    BY <1>8 DEF DropReference, Goto
  <1>9. ASSUME NEW u \in Users, StopPool(u) PROVE ReleasedOnce'
    BY <1>9 DEF StopPool, Goto
  <1>10. ASSUME NEW u \in Users, JoinWorkers(u) PROVE ReleasedOnce'
    BY <1>10 DEF JoinWorkers, Goto
  <1>11. ASSUME UNCHANGED <<submitted, released, userPc>> PROVE ReleasedOnce'
    BY <1>11 DEF Goto
  <1>12. QED
    BY <1>1, <1>2, <1>3, <1>4, <1>5, <1>6, <1>7, <1>8, <1>9, <1>10, <1>11 DEF
      Next, WorkerStep, GroupStep, DestroyStep, AllGone, vars, poolVars,
      workerVars, historyVars, StartTask, WaitForWork, LeavePool,
      WorkerSpuriousWakeup

\* A call to push starts with room for its task, and keeps it through the waits
\* for a free slot.
LEMMA RoomStep == PoolInv /\ [Next]_vars => Room'
  <1> SUFFICES ASSUME PoolInv, [Next]_vars PROVE Room'
    OBVIOUS
  <1> USE DEF PoolInv, Shape, Room, UserPlaces, Users, userVars, historyVars
  <1>1. ASSUME NEW t \in Threads, FinishTask(t) PROVE Room'
    <2>1. /\ UNCHANGED <<returnTo, pushed>>
          /\ \A g \in Groups : userPc'[g] = userPc[g] \/ (g \in Waiting /\ userPc'[g] = "woken")
      BY <1>1 DEF FinishTask, WakeWaiter
    <2> QED BY <2>1 DEF Waiting
  <1>2. ASSUME NEW g \in Groups, Call(g) PROVE Room'
    BY <1>2, TaskCountAssumption DEF Call, Goto
  <1>3. ASSUME NEW g \in Groups, PushFull(g) PROVE Room'
    BY <1>3 DEF PushFull, Goto
  <1>4. ASSUME NEW g \in Groups, Push(g) PROVE Room'
    BY <1>4, TaskCountAssumption DEF Push, Goto
  <1>5. ASSUME NEW g \in Groups, EnterWait(g) PROVE Room'
    BY <1>5 DEF EnterWait, Goto
  <1>6. ASSUME NEW g \in Groups, LeaveWait(g) PROVE Room'
    BY <1>6 DEF LeaveWait, Goto
  <1>7. ASSUME NEW g \in Groups, UserSpuriousWakeup(g) PROVE Room'
    BY <1>7 DEF UserSpuriousWakeup, Goto
  <1>8. ASSUME NEW u \in Users, DropReference(u) PROVE Room'
    BY <1>8, GroupsAssumption DEF DropReference, Goto
  <1>9. ASSUME NEW u \in Users, StopPool(u) PROVE Room'
    BY <1>9 DEF StopPool, Goto
  <1>10. ASSUME NEW u \in Users, JoinWorkers(u) PROVE Room'
    BY <1>10 DEF JoinWorkers, Goto
  <1>11. ASSUME UNCHANGED <<userPc, returnTo, pushed>> PROVE Room'
    BY <1>11 DEF Goto
  <1>12. QED
    BY <1>1, <1>2, <1>3, <1>4, <1>5, <1>6, <1>7, <1>8, <1>9, <1>10, <1>11 DEF
      Next, WorkerStep, GroupStep, DestroyStep, AllGone, vars, poolVars,
      workerVars, groupVars, StartTask, WaitForWork, LeavePool,
      WorkerSpuriousWakeup


\* A user that holds a reference has not shut the pool down, nor has anyone.
LEMMA HolderKeepsPool ==
  ASSUME PoolInv, NEW u \in Users, userPc[u] \notin {"stop", "join", "gone"}
  PROVE  running /\ \A v \in Users : userPc[v] \notin {"stop", "join"}
  BY DEF PoolInv, Shape, ReferencesExact, Holders

\* A reference is given up once.  The last to go shuts the pool down, and finds
\* every group without tasks.
LEMMA ReferencesStep == PoolInv /\ [Next]_vars => ReferencesExact'
  <1> SUFFICES ASSUME PoolInv, [Next]_vars PROVE ReferencesExact'
    OBVIOUS
  <1> USE DEF PoolInv, Shape, ReferencesExact, UserPlaces, Users, Goto,
      poolVars, groupVars, userVars
  <1>1. ASSUME NEW t \in Threads, FinishTask(t) PROVE ReferencesExact'
    <2>1. /\ UNCHANGED <<refs, running>>
          /\ \A u \in Users : userPc'[u] = userPc[u] \/ (userPc[u] = "asleep" /\ userPc'[u] = "woken")
      BY <1>1 DEF FinishTask, WakeWaiter, Waiting
    <2>2. Holders' = Holders
      BY <2>1 DEF Holders
    <2>3. task[t][1] \in Groups /\ submitted[task[t][1]] > 0
      BY <1>1, BusyGroup
    <2>4. submitted' = [submitted EXCEPT ![task[t][1]] = @ - 1]
      BY <1>1 DEF FinishTask
    <2>5. \A g \in Groups : submitted[g] = 0 => submitted'[g] = 0
      BY <2>3, <2>4
    <2> QED BY <2>1, <2>2, <2>5
  <1>2. ASSUME NEW g \in Groups, Call(g) PROVE ReferencesExact'
    <2>1. Holders' = Holders /\ UNCHANGED <<refs, running>>
      BY <1>2 DEF Call, Holders
    <2>2. running /\ \A v \in Users : userPc[v] \notin {"stop", "join"}
      BY <1>2, HolderKeepsPool DEF Call, Users
    <2>3. /\ userPc'[g] \notin {"drop", "stop", "join", "gone"}
          /\ \A h \in Groups : h # g => submitted'[h] = submitted[h]
          /\ \A v \in Users : v # g => userPc'[v] = userPc[v]
      BY <1>2 DEF Call
    <2> QED BY <2>1, <2>2, <2>3, GroupsAssumption
  <1>3. ASSUME NEW g \in Groups, PushFull(g) PROVE ReferencesExact'
    <2>1. Holders' = Holders /\ UNCHANGED <<refs, running>>
      BY <1>3 DEF PushFull, Holders
    <2>2. running /\ \A v \in Users : userPc[v] \notin {"stop", "join"}
      BY <1>3, HolderKeepsPool DEF PushFull, Users
    <2>3. /\ userPc'[g] \notin {"drop", "stop", "join", "gone"}
          /\ \A h \in Groups : h # g => submitted'[h] = submitted[h]
          /\ \A v \in Users : v # g => userPc'[v] = userPc[v]
      BY <1>3 DEF PushFull
    <2> QED BY <2>1, <2>2, <2>3, GroupsAssumption
  <1>4. ASSUME NEW g \in Groups, Push(g) PROVE ReferencesExact'
    <2>1. Holders' = Holders /\ UNCHANGED <<refs, running>>
      BY <1>4 DEF Push, Holders
    <2>2. running /\ \A v \in Users : userPc[v] \notin {"stop", "join"}
      BY <1>4, HolderKeepsPool DEF Push, Users
    <2>3. /\ userPc'[g] \notin {"drop", "stop", "join", "gone"}
          /\ \A h \in Groups : h # g => submitted'[h] = submitted[h]
          /\ \A v \in Users : v # g => userPc'[v] = userPc[v]
      BY <1>4 DEF Push
    <2> QED BY <2>1, <2>2, <2>3, GroupsAssumption
  <1>5. ASSUME NEW g \in Groups, EnterWait(g) PROVE ReferencesExact'
    <2>1. Holders' = Holders /\ UNCHANGED <<refs, running>>
      BY <1>5 DEF EnterWait, Holders
    <2>2. running /\ \A v \in Users : userPc[v] \notin {"stop", "join"}
      BY <1>5, HolderKeepsPool DEF EnterWait
    <2>3. userPc'[g] \in {"idle", "push", "drop", "asleep"}
      BY <1>5 DEF EnterWait
    <2> QED BY <1>5, <2>1, <2>2, <2>3 DEF EnterWait
  <1>6. ASSUME NEW g \in Groups, LeaveWait(g) PROVE ReferencesExact'
    <2>1. Holders' = Holders /\ UNCHANGED <<refs, running>>
      BY <1>6 DEF LeaveWait, Holders
    <2>2. running /\ \A v \in Users : userPc[v] \notin {"stop", "join"}
      BY <1>6, HolderKeepsPool DEF LeaveWait
    <2>3. UNCHANGED submitted /\ userPc'[g] \in {"idle", "push", "drop", "asleep"}
      BY <1>6 DEF LeaveWait
    <2>4. userPc'[g] = "drop" => submitted[g] = 0
      BY <1>6 DEF LeaveWait
    <2> QED BY <1>6, <2>1, <2>2, <2>3, <2>4 DEF LeaveWait
  <1>7. ASSUME NEW g \in Groups, UserSpuriousWakeup(g) PROVE ReferencesExact'
    <2>1. Holders' = Holders /\ UNCHANGED <<refs, running>>
      BY <1>7 DEF UserSpuriousWakeup, Holders
    <2>2. running /\ \A v \in Users : userPc[v] \notin {"stop", "join"}
      BY <1>7, HolderKeepsPool DEF UserSpuriousWakeup, Users
    <2>3. /\ userPc'[g] \notin {"drop", "stop", "join", "gone"}
          /\ \A h \in Groups : h # g => submitted'[h] = submitted[h]
          /\ \A v \in Users : v # g => userPc'[v] = userPc[v]
      BY <1>7 DEF UserSpuriousWakeup
    <2> QED BY <2>1, <2>2, <2>3, GroupsAssumption
  <1>8. ASSUME NEW u \in Users, DropReference(u) PROVE ReferencesExact'
    <2>1. userPc[u] \in {"idle", "drop"} /\ u \in Holders
      BY <1>8 DEF DropReference, Holders
    <2>2. running /\ \A v \in Users : userPc[v] \notin {"stop", "join"}
      BY <2>1, HolderKeepsPool DEF Holders
    <2>3. /\ userPc' = [userPc EXCEPT ![u] = IF refs = 1 THEN "stop" ELSE "gone"]
          /\ refs' = refs - 1 /\ UNCHANGED <<running, submitted>>
      BY <1>8 DEF DropReference
    <2>4. Holders \ {u} = Holders' \ {u} /\ u \notin Holders'
      BY <2>3 DEF Holders
    <2>5. IsFiniteSet(Holders') /\ refs' = Cardinality(Holders')
      BY <2>1, <2>3, <2>4, SetsAreFinite, SetChange DEF One
    <2>6. CASE refs = 1
      <3>1. Holders' = {}
        BY <2>3, <2>5, <2>6, FS_EmptySet
      <3> QED BY <1>8, <2>3, <2>5, <3>1, <2>6, GroupsAssumption DEF DropReference
    <2>7. CASE refs # 1
      <3>1. \A v \in Users : userPc'[v] \notin {"stop", "join"}
        BY <2>2, <2>3, <2>7
      <3> QED BY <1>8, <2>2, <2>3, <2>5, <3>1, <2>7, GroupsAssumption DEF DropReference
    <2> QED BY <2>6, <2>7
  <1>9. ASSUME NEW u \in Users, StopPool(u) PROVE ReferencesExact'
    <2>1. Holders' = Holders /\ UNCHANGED <<refs, submitted>> /\ userPc' = [userPc EXCEPT ![u] = "join"]
      BY <1>9 DEF StopPool, Holders
    <2> QED BY <1>9, <2>1 DEF StopPool
  <1>10. ASSUME NEW u \in Users, JoinWorkers(u) PROVE ReferencesExact'
    <2>1. /\ Holders' = Holders /\ UNCHANGED <<refs, running, submitted>>
          /\ userPc' = [userPc EXCEPT ![u] = "gone"]
      BY <1>10 DEF JoinWorkers, Holders
    <2> QED BY <1>10, <2>1 DEF JoinWorkers
  <1>11. ASSUME UNCHANGED <<refs, running, submitted, userPc>> PROVE
      ReferencesExact'
    BY <1>11 DEF Holders
  <1>12. QED
    BY <1>1, <1>2, <1>3, <1>4, <1>5, <1>6, <1>7, <1>8, <1>9, <1>10, <1>11 DEF
      Next, WorkerStep, GroupStep, DestroyStep, AllGone, vars, workerVars,
      historyVars, StartTask, WaitForWork, LeavePool, WorkerSpuriousWakeup


\* The places of a task, in the terms of TasksMove.
LEMMA PlacesCounted ==
  ASSUME NEW k
  PROVE  /\ Places(k) = Cardinality(Queued({k})) + Cardinality(Held({k})) + One(k \in finished)
         /\ Places(k)' = Cardinality(Queued({k})') + Cardinality(Held({k})')
                           + One(k \in finished')
         /\ Cardinality(Queued({k})) \in Nat /\ Cardinality(Held({k})) \in Nat
         /\ Cardinality(Queued({k})') \in Nat /\ Cardinality(Held({k})') \in Nat
  <1>1. /\ {i \in Slots : tasks[i] = k} = Queued({k}) /\ {t \in Threads : task[t] = k} = Held({k})
        /\ {i \in Slots : tasks'[i] = k} = Queued({k})'
        /\ {t \in Threads : task'[t] = k} = Held({k})'
    BY DEF Queued, Held
  <1>2. IsFiniteSet(Slots) /\ IsFiniteSet(Threads)
    BY FS_Interval, TaskCountAssumption, ThreadsAssumption DEF Slots
  <1>3. /\ IsFiniteSet(Queued({k})) /\ IsFiniteSet(Held({k}))
        /\ IsFiniteSet(Queued({k})') /\ IsFiniteSet(Held({k})')
    BY <1>1, <1>2, FS_Subset DEF Queued, Held
  <1> QED BY <1>1, <1>3, FS_CardinalityType DEF Places, One

\* A task moves from the array to one thread and from there to the finished
\* ones; push makes the next one of its group.
LEMMA PlacedStep == PoolInv /\ [Next]_vars => Placed'
  <1> SUFFICES ASSUME PoolInv, [Next]_vars PROVE Placed'
    OBVIOUS
  <1> USE DEF workerVars, historyVars
  <1>1. ASSUME NEW t \in Threads, StartTask(t) PROVE Placed'
    <2> SUFFICES ASSUME NEW k \in Tasks
                 PROVE  Places(k)' = (IF k[2] <= pushed'[k[1]] THEN 1 ELSE 0)
      BY DEF Placed
    <2>1. /\ Cardinality(Queued({k})) \in Nat /\ Cardinality(Held({k})) \in Nat
          /\ Cardinality(Queued({k})') \in Nat /\ Cardinality(Held({k})') \in Nat
          /\ Cardinality(Queued({k})) + Cardinality(Held({k})) + One(k \in finished)
               = (IF k[2] <= pushed[k[1]] THEN 1 ELSE 0)
          /\ Places(k)' = Cardinality(Queued({k})') + Cardinality(Held({k})') + One(k \in finished')
      BY PlacesCounted DEF PoolInv, Placed
    <2>2. /\ Cardinality(Queued({k})') = Cardinality(Queued({k})) - One(tasks[FirstOf(InArray)] = k)
          /\ Cardinality(Held({k})') = Cardinality(Held({k})) + One(tasks[FirstOf(InArray)] = k)
      BY <1>1, TasksMove DEF One
    <2>3. UNCHANGED <<pushed, finished>>
      BY <1>1 DEF StartTask, historyVars
    <2> QED BY <2>1, <2>2, <2>3 DEF One
  <1>2. ASSUME NEW t \in Threads, FinishTask(t) PROVE Placed'
    <2> SUFFICES ASSUME NEW k \in Tasks
                 PROVE  Places(k)' = (IF k[2] <= pushed'[k[1]] THEN 1 ELSE 0)
      BY DEF Placed
    <2>1. /\ Cardinality(Queued({k})) \in Nat /\ Cardinality(Held({k})) \in Nat
          /\ Cardinality(Queued({k})') \in Nat /\ Cardinality(Held({k})') \in Nat
          /\ Cardinality(Queued({k})) + Cardinality(Held({k})) + One(k \in finished)
               = (IF k[2] <= pushed[k[1]] THEN 1 ELSE 0)
          /\ Places(k)' = Cardinality(Queued({k})') + Cardinality(Held({k})') + One(k \in finished')
      BY PlacesCounted DEF PoolInv, Placed
    <2>2. /\ Cardinality(Held({k})') = Cardinality(Held({k})) - One(task[t] = k)
          /\ task[t] = k => Cardinality(Held({k})) > 0
      BY <1>2, TasksMove DEF One
    <2>3. UNCHANGED <<tasks, pushed>> /\ finished' = finished \cup {task[t]}
      BY <1>2 DEF FinishTask
    <2>4. Cardinality(Queued({k})') = Cardinality(Queued({k}))
      BY <2>3 DEF Queued
    <2>5. task[t] = k => k \notin finished
      BY <2>1, <2>2 DEF One
    <2>6. One(k \in finished') = One(k \in finished) + One(task[t] = k)
      BY <2>3, <2>5 DEF One
    <2> QED BY <2>1, <2>2, <2>3, <2>4, <2>6 DEF One
  <1>3. ASSUME NEW g \in Groups, Push(g) PROVE Placed'
    <2> SUFFICES ASSUME NEW k \in Tasks
                 PROVE  Places(k)' = (IF k[2] <= pushed'[k[1]] THEN 1 ELSE 0)
      BY DEF Placed
    <2>1. /\ Cardinality(Queued({k})) \in Nat /\ Cardinality(Held({k})) \in Nat
          /\ Cardinality(Queued({k})') \in Nat /\ Cardinality(Held({k})') \in Nat
          /\ Cardinality(Queued({k})) + Cardinality(Held({k})) + One(k \in finished)
               = (IF k[2] <= pushed[k[1]] THEN 1 ELSE 0)
          /\ Places(k)' = Cardinality(Queued({k})') + Cardinality(Held({k})') + One(k \in finished')
      BY PlacesCounted DEF PoolInv, Placed
    <2> DEFINE new == <<g, pushed[g] + 1>>
    <2>2. /\ new \in Tasks
          /\ Cardinality(Queued({k})') = Cardinality(Queued({k})) + One(new = k)
      BY <1>3, TasksMove DEF One
    <2>3. UNCHANGED <<task, finished>> /\ pushed' = [pushed EXCEPT ![g] = @ + 1]
      BY <1>3 DEF Push
    <2>4. Cardinality(Held({k})') = Cardinality(Held({k}))
      BY <2>3 DEF Held
    <2>5. k[1] \in Groups /\ k[2] \in Nat /\ pushed[g] \in Nat /\ k = <<k[1], k[2]>>
      BY TaskCountAssumption DEF PoolInv, Room, Tasks
    <2>6. k[2] <= pushed'[k[1]] <=> k[2] <= pushed[k[1]] \/ new = k
      BY <2>3, <2>5 DEF PoolInv, Shape
    <2>7. new = k => ~(k[2] <= pushed[k[1]])
      BY <2>5
    <2> QED BY <2>1, <2>2, <2>3, <2>4, <2>6, <2>7 DEF One
  <1>4. ASSUME UNCHANGED <<tasks, task, pushed, finished>> PROVE Placed'
    BY <1>4 DEF PoolInv, Placed, Places
  <1>5. QED
    BY <1>1, <1>2, <1>3, <1>4 DEF Next, WorkerStep, GroupStep, DestroyStep,
      AllGone, vars, poolVars, groupVars, userVars, WaitForWork, LeavePool,
      WorkerSpuriousWakeup, Call, PushFull, EnterWait, LeaveWait,
      UserSpuriousWakeup, DropReference, StopPool, JoinWorkers


\* The threads at work: a signal changes none of them.
LEMMA WorkingChange ==
  ASSUME Shape, NEW t \in Threads
  PROVE  /\ Working(workerPc) \in Nat
         /\ OnlyWoken(workerPc, workerPc') => Working(workerPc') = Working(workerPc)
         /\ /\ OnlyWoken([workerPc EXCEPT ![t] = "working"], workerPc')
            /\ workerPc[t] # "working"
            => Working(workerPc') = Working(workerPc) + 1
         /\ /\ OnlyWoken([workerPc EXCEPT ![t] = "ready"], workerPc')
            /\ workerPc[t] = "working"
            => Working(workerPc') = Working(workerPc) - 1
         /\ \A pc \in {"asleep", "gone"} :
              /\ OnlyWoken([workerPc EXCEPT ![t] = pc], workerPc')
              /\ workerPc[t] # "working"
              => Working(workerPc') = Working(workerPc)
  <1>1. IsFiniteSet(At(workerPc, {"working"})) /\ Working(workerPc) \in Nat
    BY SetsAreFinite, FS_CardinalityType DEF Working
  <1>2. ASSUME OnlyWoken(workerPc, workerPc') PROVE Working(workerPc') = Working(workerPc)
    <2>1. At(workerPc', {"working"}) = At(workerPc, {"working"})
      BY <1>2 DEF OnlyWoken, At, Shape
    <2> QED BY <2>1 DEF Working
  <1>3. ASSUME NEW pc, OnlyWoken([workerPc EXCEPT ![t] = pc], workerPc')
        PROVE  Working(workerPc') = Working(workerPc) - One(t \in At(workerPc, {"working"}))
                                      + One(t \in At(workerPc', {"working"}))
    <2>1. At(workerPc, {"working"}) \ {t} = At(workerPc', {"working"}) \ {t}
      BY <1>3 DEF OnlyWoken, At, Shape
    <2> QED BY <2>1, <1>1, SetChange DEF Working
  <1>4. t \in At(workerPc, {"working"}) <=> workerPc[t] = "working"
    BY DEF At, Shape
  <1>5. ASSUME NEW pc \in {"working", "ready", "asleep", "gone"},
               OnlyWoken([workerPc EXCEPT ![t] = pc], workerPc')
        PROVE  t \in At(workerPc', {"working"}) <=> pc = "working"
    BY <1>5 DEF OnlyWoken, At, Shape
  <1>6. ASSUME OnlyWoken([workerPc EXCEPT ![t] = "working"], workerPc'), workerPc[t] # "working"
        PROVE  Working(workerPc') = Working(workerPc) + 1
    <2>1. Working(workerPc') = Working(workerPc) - One(t \in At(workerPc, {"working"}))
                                 + One(t \in At(workerPc', {"working"}))
      BY <1>6, <1>3
    <2>2. t \in At(workerPc', {"working"}) /\ t \notin At(workerPc, {"working"})
      BY <1>6, <1>4, <1>5
    <2> QED BY <2>1, <2>2, <1>1 DEF One
  <1>7. ASSUME OnlyWoken([workerPc EXCEPT ![t] = "ready"], workerPc'), workerPc[t] = "working"
        PROVE  Working(workerPc') = Working(workerPc) - 1
    <2>1. Working(workerPc') = Working(workerPc) - One(t \in At(workerPc, {"working"}))
                                 + One(t \in At(workerPc', {"working"}))
      BY <1>7, <1>3
    <2>2. t \notin At(workerPc', {"working"}) /\ t \in At(workerPc, {"working"})
      BY <1>7, <1>4, <1>5
    <2> QED BY <2>1, <2>2, <1>1 DEF One
  <1>8. ASSUME NEW pc \in {"asleep", "gone"},
               OnlyWoken([workerPc EXCEPT ![t] = pc], workerPc'), workerPc[t] # "working"
        PROVE  Working(workerPc') = Working(workerPc)
    <2>1. Working(workerPc') = Working(workerPc) - One(t \in At(workerPc, {"working"}))
                                 + One(t \in At(workerPc', {"working"}))
      BY <1>8, <1>3
    <2>2. t \notin At(workerPc', {"working"}) /\ t \notin At(workerPc, {"working"})
      BY <1>8, <1>4, <1>5
    <2> QED BY <2>1, <2>2, <1>1 DEF One
  <1> QED BY <1>1, <1>2, <1>6, <1>7, <1>8

\* The sleeping threads that donated themselves: one user at a time joins or
\* leaves them.
Donors == {g \in Waiting : released[g] = 0}

\* The number of donors changes by the one group whose user moves.
LEMMA DonorsChange ==
  ASSUME NEW g, \A h \in Groups \ {g} : h \in Donors <=> h \in Donors'
  PROVE  /\ Cardinality(Donors) \in Nat
         /\ Cardinality(Donors') = Cardinality(Donors) - One(g \in Donors) + One(g \in Donors')
  <1>1. Donors \ {g} = Donors' \ {g}
    BY DEF Donors, Waiting
  <1>2. IsFiniteSet(Donors)
    BY SetsAreFinite DEF Donors
  <1> QED BY <1>1, <1>2, SetChange


\* A signal given by a user changes nobody at work.
LEMMA WorkingStays ==
  ASSUME Shape, OnlyWoken(workerPc, workerPc')
  PROVE  Working(workerPc') = Working(workerPc) /\ Working(workerPc) \in Nat
  <1>1. Threads # {}
    BY LimitAssumption, ThreadsAssumption, FS_EmptySet
  <1> QED BY <1>1, WorkingChange

\* The limit rises with each thread that goes to sleep in wait_all and falls when
\* the last task of its group ends, whose worker then stops working: so at most
\* worker_limit threads work.
LEMMA LimitStep == PoolInv /\ [Next]_vars => LimitIsExact'
  <1> SUFFICES ASSUME PoolInv, [Next]_vars PROVE LimitIsExact'
    OBVIOUS
  <1> USE DEF PoolInv, Shape, LimitIsExact, poolVars, workerVars, groupVars,
      userVars
  <1>1. ASSUME NEW t \in Threads, StartTask(t) PROVE LimitIsExact'
    <2>1. Donors' = Donors /\ limit' = limit /\ Working(workerPc) < limit
      BY <1>1 DEF StartTask, Donors, Waiting, Allowed
    <2>2. workerPc[t] # "working"
      BY <1>1, ThreadsAssumption DEF StartTask, HasMutex, Hands
    <2>3. Working(workerPc') = Working(workerPc) + 1 /\ Working(workerPc) \in Nat
      BY <1>1, <2>2, WorkerSteps, WorkingChange
    <2>4. Working(workerPc') <= limit'
      BY <2>1, <2>3
    <2> QED BY <2>1, <2>4 DEF Donors
  <1>2. ASSUME NEW t \in Threads, WaitForWork(t) PROVE LimitIsExact'
    <2>1. Donors' = Donors /\ limit' = limit
      BY <1>2 DEF WaitForWork, Donors, Waiting
    <2>2. workerPc[t] # "working" /\ OnlyWoken([workerPc EXCEPT ![t] = "asleep"], workerPc')
      BY <1>2, ThreadsAssumption DEF WaitForWork, HasMutex, Hands, OnlyWoken, WorkerPlaces
    <2>3. Working(workerPc') = Working(workerPc)
      BY <2>2, WorkingChange
    <2> QED BY <2>1, <2>3 DEF Donors
  <1>3. ASSUME NEW t \in Threads, FinishTask(t) PROVE LimitIsExact'
    <2>1. task[t][1] \in Groups /\ submitted[task[t][1]] > 0
      BY <1>3, BusyGroup
    <2>2. workerPc[t] = "working" /\ OnlyWoken([workerPc EXCEPT ![t] = "ready"], workerPc')
      BY <1>3 DEF FinishTask, OnlyWoken, WorkerPlaces
    <2>3. Working(workerPc') = Working(workerPc) - 1 /\ Working(workerPc) \in Nat
      BY <2>2, WorkingChange
    <2> DEFINE h == task[t][1]
    <2>4. \/ /\ h \in Waiting /\ userPc' = [userPc EXCEPT ![h] = "woken"]
             /\ limit' = limit - 1 /\ released' = [released EXCEPT ![h] = @ + 1]
          \/ UNCHANGED <<limit, released, userPc>>
      BY <1>3 DEF FinishTask, WakeWaiter
    <2> HIDE DEF h
    <2>5. h \in Groups /\ submitted[h] > 0 /\ released[h] = 0
      BY <2>1 DEF h, ReleasedOnce
    <2>6. CASE UNCHANGED <<limit, released, userPc>>
      <3>1. Donors' = Donors
        BY <2>6 DEF Donors, Waiting
      <3>2. Working(workerPc') <= limit'
        BY <2>3, <2>6
      <3> QED BY <2>6, <3>1, <3>2 DEF Donors
    <2>7. CASE /\ h \in Waiting /\ userPc' = [userPc EXCEPT ![h] = "woken"]
               /\ limit' = limit - 1 /\ released' = [released EXCEPT ![h] = @ + 1]
      <3>1. h \in Donors /\ h \notin Donors'
        BY <2>5, <2>7 DEF Donors
      <3>2. \A g \in Groups \ {h} : g \in Donors <=> g \in Donors'
        BY <2>5, <2>7 DEF Donors, Waiting, Users
      <3>3. Cardinality(Donors') = Cardinality(Donors) - 1 /\ Cardinality(Donors) \in Nat
        BY <3>1, <3>2, DonorsChange DEF One
      <3> QED BY <2>3, <2>7, <3>3, LimitAssumption DEF Donors
    <2> QED BY <2>4, <2>6, <2>7
  <1>4. ASSUME NEW t \in Threads, LeavePool(t) PROVE LimitIsExact'
    <2>1. Donors' = Donors /\ limit' = limit
      BY <1>4 DEF LeavePool, Donors, Waiting
    <2>2. workerPc[t] # "working"
      BY <1>4, ThreadsAssumption DEF LeavePool, HasMutex, Hands
    <2>3. Working(workerPc') = Working(workerPc)
      BY <1>4, <2>2, WorkerSteps, WorkingChange
    <2> QED BY <2>1, <2>3 DEF Donors
  <1>5. ASSUME NEW t \in Threads, WorkerSpuriousWakeup(t) PROVE LimitIsExact'
    <2>1. Donors' = Donors /\ limit' = limit
      BY <1>5 DEF WorkerSpuriousWakeup, Donors, Waiting
    <2>2. OnlyWoken(workerPc, workerPc')
      BY <1>5 DEF WorkerSpuriousWakeup, OnlyWoken, WorkerPlaces
    <2>3. Working(workerPc') = Working(workerPc)
      BY <2>2, WorkingChange
    <2> QED BY <2>1, <2>3 DEF Donors
  <1>6. ASSUME NEW g \in Groups, Call(g) PROVE LimitIsExact'
    <2>1. UNCHANGED <<limit, workerPc, released>>
      BY <1>6 DEF Call
    <2>2. Donors' = Donors
      BY <1>6, <2>1 DEF Call, Goto, Donors, Waiting, Users
    <2> QED BY <2>1, <2>2 DEF Donors
  <1>7. ASSUME NEW g \in Groups, PushFull(g) PROVE LimitIsExact'
    <2>1. UNCHANGED <<limit, workerPc, released>>
      BY <1>7 DEF PushFull
    <2>2. Donors' = Donors
      BY <1>7, <2>1 DEF PushFull, Goto, Donors, Waiting, Users
    <2> QED BY <2>1, <2>2 DEF Donors
  <1>8. ASSUME NEW g \in Groups, Push(g) PROVE LimitIsExact'
    <2>1. Donors' = Donors /\ limit' = limit
      BY <1>8 DEF Push, Goto, Donors, Waiting, Users
    <2>2. Working(workerPc') = Working(workerPc)
      BY <1>8, UserSteps, ThreadsAssumption, WorkingStays
    <2> QED BY <2>1, <2>2 DEF Donors
  <1>9. ASSUME NEW g \in Groups, EnterWait(g) PROVE LimitIsExact'
    <2>1. Working(workerPc') = Working(workerPc) /\ Working(workerPc) \in Nat
      BY <1>9, UserSteps, WorkingStays
    <2>2. /\ released' = released /\ userPc[g] = "enter" /\ released[g] = 0
          /\ \/ limit' = limit /\ submitted[g] = 0 /\ userPc' = [userPc EXCEPT ![g] = returnTo[g]]
             \/ limit' = limit + 1 /\ userPc' = [userPc EXCEPT ![g] = "asleep"]
      BY <1>9 DEF EnterWait, Goto, ReleasedOnce
    <2>3. /\ g \notin Donors /\ (g \in Donors' <=> userPc'[g] = "asleep")
          /\ \A h \in Groups \ {g} : h \in Donors <=> h \in Donors'
      BY <2>2 DEF Donors, Waiting, Users
    <2>4. /\ Cardinality(Donors) \in Nat
          /\ Cardinality(Donors') = Cardinality(Donors) + One(userPc'[g] = "asleep")
      BY <2>3, DonorsChange DEF One
    <2>5. limit' = limit + One(userPc'[g] = "asleep")
      BY <2>2 DEF One, Users
    <2> QED BY <2>1, <2>4, <2>5, LimitAssumption DEF Donors, One
  <1>10. ASSUME NEW g \in Groups, LeaveWait(g) PROVE LimitIsExact'
    <2>1. Working(workerPc') = Working(workerPc) /\ Working(workerPc) \in Nat
      BY <1>10, UserSteps, WorkingStays
    <2>2. userPc[g] = "woken" /\ (released[g] = 0 \/ (released[g] = 1 /\ submitted[g] = 0))
      <3>1. userPc[g] = "woken"
        BY <1>10 DEF LeaveWait
      <3> QED BY <3>1 DEF ReleasedOnce
    <2>3. limit' = limit + (IF submitted[g] > 0 /\ released[g] > 0 THEN 1 ELSE 0)
      BY <1>10 DEF LeaveWait
    <2>4. limit' = limit
      BY <2>2, <2>3
    <2>5. released' = [released EXCEPT ![g] = 0]
      <3>1. released' = [released EXCEPT ![g] = IF released[g] > 0 THEN released[g] - 1 ELSE 0]
        BY <1>10 DEF LeaveWait
      <3>2. (IF released[g] > 0 THEN released[g] - 1 ELSE 0) = 0
        BY <2>2
      <3> QED BY <3>1, <3>2
    <2>6. userPc' = [userPc EXCEPT ![g] = IF submitted[g] = 0 /\ released[g] > 0
                                         THEN returnTo[g] ELSE "asleep"]
      BY <1>10 DEF LeaveWait, Goto
    <2>7. Donors' = Donors
      BY <2>2, <2>5, <2>6 DEF Donors, Waiting, Users
    <2> QED BY <2>1, <2>4, <2>7 DEF Donors
  <1>11. ASSUME NEW g \in Groups, UserSpuriousWakeup(g) PROVE LimitIsExact'
    <2>1. UNCHANGED <<limit, workerPc, released>>
      BY <1>11 DEF UserSpuriousWakeup
    <2>2. Donors' = Donors
      BY <1>11, <2>1 DEF UserSpuriousWakeup, Goto, Donors, Waiting, Users
    <2> QED BY <2>1, <2>2 DEF Donors
  <1>12. ASSUME NEW u \in Users, DropReference(u) PROVE LimitIsExact'
    <2>1. UNCHANGED <<limit, workerPc, released>>
      BY <1>12 DEF DropReference
    <2>2. Donors' = Donors
      BY <1>12, <2>1, GroupsAssumption DEF DropReference, Goto, Donors, Waiting, Users
    <2> QED BY <2>1, <2>2 DEF Donors
  <1>13. ASSUME NEW u \in Users, StopPool(u) PROVE LimitIsExact'
    <2>1. Donors' = Donors /\ limit' = limit
      BY <1>13 DEF StopPool, Goto, Donors, Waiting, Users
    <2>2. Working(workerPc') = Working(workerPc)
      BY <1>13, UserSteps, ThreadsAssumption, WorkingStays
    <2> QED BY <2>1, <2>2 DEF Donors
  <1>14. ASSUME NEW u \in Users, JoinWorkers(u) PROVE LimitIsExact'
    <2>1. UNCHANGED <<limit, workerPc, released>>
      BY <1>14 DEF JoinWorkers
    <2>2. Donors' = Donors
      BY <1>14, <2>1 DEF JoinWorkers, Goto, Donors, Waiting, Users
    <2> QED BY <2>1, <2>2 DEF Donors
  <1>15. ASSUME UNCHANGED <<limit, workerPc, userPc, released>> PROVE
      LimitIsExact'
    BY <1>15 DEF Working, At, Waiting
  <1>16. QED
    BY <1>1, <1>2, <1>3, <1>4, <1>5, <1>6, <1>7, <1>8, <1>9, <1>10, <1>11,
      <1>12, <1>13, <1>14, <1>15 DEF Next, WorkerStep, GroupStep, DestroyStep,
      AllGone, vars, historyVars


\* What the strengthened invariant says of the counters.
LEMMA CountersBounded == PoolInv => TypeOK
  <1> SUFFICES ASSUME PoolInv PROVE TypeOK
    OBVIOUS
  <1>1. limit \in Nat
    BY SetsAreFinite, FS_CardinalityType, LimitAssumption DEF PoolInv, LimitIsExact
  <1>2. submitted \in [Groups -> Nat]
    <2>1. \A g \in Groups : submitted[g] \in Nat
      BY SetsAreFinite, FS_CardinalityType DEF PoolInv, SubmittedIsExact
    <2> QED BY <2>1 DEF PoolInv, Shape
  <1>3. released \in [Groups -> Nat] /\ pushed \in [Groups -> 0..MaxPush]
    BY DEF PoolInv, Shape, ReleasedOnce, Room
  <1>4. refs \in 0..Cardinality(Users)
    <2>1. Holders \subseteq Users
      BY DEF Holders
    <2>2. Cardinality(Holders) \in Nat /\ Cardinality(Users) \in Nat
          /\ Cardinality(Holders) <= Cardinality(Users)
      BY <2>1, SetsAreFinite, FS_Subset, FS_CardinalityType
    <2> QED BY <2>2 DEF PoolInv, ReferencesExact
  <1> QED BY <1>1, <1>2, <1>3, <1>4 DEF PoolInv, Shape, TypeOK, WorkerPlaces, UserPlaces

\* A group without submitted tasks has none in the array and none running.
LEMMA NothingSubmitted ==
  ASSUME PoolInv, NEW g \in Groups, submitted[g] = 0
  PROVE  \A k \in TasksOf(g) : Queued({k}) = {} /\ Held({k}) = {}
  <1>1. /\ Cardinality(Queued(TasksOf(g))) \in Nat /\ Cardinality(Held(TasksOf(g))) \in Nat
        /\ Cardinality(Queued(TasksOf(g))) + Cardinality(Held(TasksOf(g))) = 0
    BY SetsAreFinite, FS_CardinalityType DEF PoolInv, SubmittedIsExact
  <1>2. Queued(TasksOf(g)) = {} /\ Held(TasksOf(g)) = {}
    BY <1>1, SetsAreFinite, FS_EmptySet
  <1> QED BY <1>2 DEF Queued, Held

\* When the pool stops, every group is destroyed, so it has nothing left to do.
LEMMA StoppedIsEmpty ==
  PoolInv /\ ~running => InArray = {} /\ \A g \in Groups : submitted[g] = 0
  <1> SUFFICES ASSUME PoolInv, ~running
               PROVE  InArray = {} /\ \A g \in Groups : submitted[g] = 0
    OBVIOUS
  <1>1. Holders = {}
    BY DEF PoolInv, ReferencesExact
  <1>2. ASSUME NEW g \in Groups PROVE submitted[g] = 0
    BY <1>1 DEF Holders, Users, PoolInv, ReferencesExact
  <1>3. ASSUME NEW i \in InArray PROVE FALSE
    <2>1. i \in Slots /\ tasks[i] \in Tasks
      BY DEF InArray, PoolInv, Shape
    <2>2. tasks[i][1] \in Groups /\ tasks[i] \in TasksOf(tasks[i][1])
      BY <2>1 DEF Tasks, TasksOf
    <2> QED BY <2>1, <2>2, <1>2, NothingSubmitted DEF Queued
  <1> QED BY <1>2, <1>3

(***************************************************************************)
(* The theorems.                                                           *)
(***************************************************************************)
\* The strengthened invariant holds in every state: it starts with an empty
\* array and a reference for each user, and every step of run_func, of the
\* groups and of the references keeps it.
THEOREM PoolInvariant == Spec => []PoolInv
  <1>1. Init => PoolInv
    <2> SUFFICES ASSUME Init PROVE PoolInv
      OBVIOUS
    <2>1. Shape /\ Hands /\ ReleasedOnce /\ Room
      <3>1. IsFiniteSet(Users) /\ Cardinality(Users) \in Nat
        BY SetsAreFinite, FS_CardinalityType
      <3>2. Shape
        BY <3>1, LimitAssumption DEF Init, Shape, WorkerPlaces, UserPlaces
      <3> QED BY <3>2, TaskCountAssumption DEF Init, Hands, ReleasedOnce, Room, Users
    <2>2. \A K \in SUBSET Tasks : Queued(K) = {} /\ Held(K) = {}
      BY NoTaskIsNone DEF Init, Queued, Held
    <2>3. Cardinality({}) = 0
      BY FS_EmptySet
    <2>4. SubmittedIsExact
      <3> SUFFICES ASSUME NEW g \in Groups
                   PROVE  submitted[g] = Cardinality(Queued(TasksOf(g)))
                                           + Cardinality(Held(TasksOf(g)))
        BY DEF SubmittedIsExact
      <3>1. TasksOf(g) \in SUBSET Tasks
        BY DEF TasksOf
      <3> QED BY <3>1, <2>2, <2>3 DEF Init
    <2>5. ReferencesExact
      <3>1. Holders = Users
        BY DEF Holders, Init
      <3> QED BY <3>1 DEF ReferencesExact, Init, Users
    <2>6. Placed
      <3> SUFFICES ASSUME NEW k \in Tasks PROVE Places(k) = (IF k[2] <= pushed[k[1]] THEN 1 ELSE 0)
        BY DEF Placed
      <3>1. Places(k) = 0
        <4>1. Queued({k}) = {} /\ Held({k}) = {} /\ k \notin finished
          BY <2>2 DEF Init
        <4>2. Cardinality(Queued({k})) = 0 /\ Cardinality(Held({k})) = 0
          BY <4>1, <2>3
        <4> QED BY <4>1, <4>2, PlacesCounted DEF One
      <3>2. k[1] \in Groups /\ k[2] \in 1..MaxPush
        BY DEF Tasks
      <3> QED BY <3>1, <3>2, TaskCountAssumption DEF Init
    <2>7. LimitIsExact
      <3>1. {g \in Waiting : released[g] = 0} = {} /\ At(workerPc, {"working"}) = {}
        BY DEF Init, Waiting, At, Users
      <3> QED BY <3>1, <2>3, LimitAssumption DEF LimitIsExact, Working, Init
    <2> QED BY <2>1, <2>4, <2>5, <2>6, <2>7 DEF PoolInv
  <1>2. PoolInv /\ [Next]_vars => PoolInv'
    BY ShapeStep, HandsStep, SubmittedStep, ReleasedStep, ReferencesStep, RoomStep,
       PlacedStep, LimitStep DEF PoolInv
  <1> QED BY <1>1, <1>2, PTL DEF Spec

\* Every variable keeps its type: no count of u_worker.c goes below zero and
\* the references do not exceed the users.
THEOREM TypeCorrect == Spec => []TypeOK
  <1> QED BY PoolInvariant, CountersBounded, PTL

\* No task is lost and none runs twice, and a pool that stops has nothing left
\* to do.
THEOREM TasksAreConserved == Spec => []TasksConserved
  <1>1. PoolInv => TasksConserved
    BY StoppedIsEmpty DEF PoolInv, Placed, TasksConserved
  <1> QED BY <1>1, PoolInvariant, PTL

\* The worker limit is what the pool started with and one for each thread that
\* sleeps in wait_all, and no more threads than that are at work.
THEOREM LimitExact == Spec => []LimitIsExact
  <1>1. PoolInv => LimitIsExact
    BY DEF PoolInv
  <1> QED BY <1>1, PoolInvariant, PTL

\* wait_all returns only when all tasks pushed to the group have run.
THEOREM WaitsForAll == Spec => WaitReturnsWhenDone
  <1> DEFINE Done ==
        \A g \in Groups :
          userPc[g] \in {"enter", "woken"} /\ userPc'[g] \in {"idle", "push", "drop"}
            => \A n \in 1..pushed[g] : <<g, n>> \in finished
  <1>1. ASSUME PoolInv, [Next]_vars PROVE [Done]_vars
    <2> SUFFICES ASSUME NEW g \in Groups, userPc[g] \in {"enter", "woken"},
                        userPc'[g] \in {"idle", "push", "drop"}, NEW n \in 1..pushed[g]
                 PROVE  <<g, n>> \in finished
      OBVIOUS
    <2>1. submitted[g] = 0
      <3>1. CASE EnterWait(g)
        BY <1>1, <3>1 DEF EnterWait, Goto, PoolInv, Shape, Users
      <3>2. CASE LeaveWait(g)
        BY <1>1, <3>2 DEF LeaveWait, Goto, PoolInv, Shape, Users
      <3>3. ASSUME NEW h \in Users, h # g,
                   \/ Call(h) \/ GroupStep(h) \/ UserSpuriousWakeup(h)
                   \/ DropReference(h) \/ DestroyStep(h)
            PROVE  FALSE
        BY <1>1, <3>3 DEF Call, GroupStep, PushFull, Push, EnterWait, LeaveWait, Goto,
             UserSpuriousWakeup, DropReference, DestroyStep, StopPool, JoinWorkers,
             PoolInv, Shape, Users
      <3>4. ASSUME \/ Call(g) \/ PushFull(g) \/ Push(g) \/ UserSpuriousWakeup(g)
                   \/ DropReference(g) \/ DestroyStep(g)
            PROVE  FALSE
        BY <1>1, <3>4, GroupsAssumption DEF Call, PushFull, Push, Goto, UserSpuriousWakeup,
             DropReference, DestroyStep, StopPool, JoinWorkers, PoolInv, Shape, Users
      <3>5. ASSUME NEW t \in Threads, WorkerStep(t) \/ WorkerSpuriousWakeup(t) PROVE FALSE
        <4>1. CASE FinishTask(t)
          BY <1>1, <4>1 DEF FinishTask, WakeWaiter, Waiting, PoolInv, Shape, Users
        <4>2. CASE StartTask(t) \/ WaitForWork(t) \/ LeavePool(t) \/ WorkerSpuriousWakeup(t)
          BY <4>2 DEF StartTask, WaitForWork, LeavePool, WorkerSpuriousWakeup, userVars
        <4> QED BY <3>5, <4>1, <4>2 DEF WorkerStep
      <3>6. CASE UNCHANGED vars
        BY <3>6 DEF vars, userVars
      <3> QED BY <1>1, <3>1, <3>2, <3>3, <3>4, <3>5, <3>6
            DEF Next, GroupStep, AllGone, Users
    <2>2. pushed[g] \in 0..MaxPush
      BY <1>1 DEF PoolInv, Room
    <2>3. <<g, n>> \in Tasks /\ <<g, n>> \in TasksOf(g)
      BY <2>2, TaskCountAssumption DEF Tasks, TasksOf
    <2>4. Queued({<<g, n>>}) = {} /\ Held({<<g, n>>}) = {}
      BY <1>1, <2>1, <2>3, NothingSubmitted
    <2>5. Places(<<g, n>>) = One(<<g, n>> \in finished)
      <3>1. Cardinality({}) = 0
        BY FS_EmptySet
      <3>2. Cardinality(Queued({<<g, n>>})) = 0 /\ Cardinality(Held({<<g, n>>})) = 0
        BY <3>1, <2>4
      <3> QED BY <3>2, PlacesCounted DEF One
    <2>6. Places(<<g, n>>) = 1
      BY <1>1, <2>2, <2>3 DEF PoolInv, Placed
    <2> QED BY <2>5, <2>6 DEF One
  <1>2. PoolInv /\ [Next]_vars => [Done]_vars
    BY <1>1
  <1>3. Spec => [][Done]_vars
    BY <1>2, PoolInvariant, PTL DEF Spec
  <1> QED BY <1>3 DEF WaitReturnsWhenDone
=============================================================================
