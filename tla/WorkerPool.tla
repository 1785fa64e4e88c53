----------------------------- MODULE WorkerPool -----------------------------
(***************************************************************************)
(* The thread pool and the task groups of auxiliary/util/u_worker.c.       *)
(*                                                                         *)
(* Worker threads take tasks from an array shared by all groups, at most   *)
(* worker_limit of them at a time.  The thread that waits for its group    *)
(* donates itself: it raises the limit while it sleeps.  Each group is     *)
(* used by one thread, as the callers do; the pool goes away with the last *)
(* reference, which its creator or the last group drops.                   *)
(*                                                                         *)
(* Everything but the tasks themselves runs with the mutex of the pool     *)
(* held.  A worker keeps it from the end of a task to its next decision:   *)
(* holder.                                                                 *)
(***************************************************************************)
EXTENDS Integers, FiniteSets

CONSTANTS Threads,        \* the worker threads (thread_count of them)
          Groups,         \* the groups, each with the thread that uses it
          StartingLimit,  \* initial_worker_limit
          MaxTaskCount,   \* MAX_TASK_COUNT
          MaxPush,        \* bound: tasks pushed to each group
          None

ASSUME ThreadsAssumption == IsFiniteSet(Threads) /\ None \notin Threads
ASSUME GroupsAssumption == IsFiniteSet(Groups) /\ Groups # {} /\ "creator" \notin Groups
ASSUME LimitAssumption == StartingLimit \in Nat /\ StartingLimit < Cardinality(Threads)
ASSUME TaskCountAssumption == MaxTaskCount \in Nat \ {0} /\ MaxPush \in Nat

Slots == 1..MaxTaskCount
Tasks == Groups \X (1..MaxPush)   \* the n-th task of a group
NoTask == <<>>
Users == Groups \cup {"creator"}  \* who holds a reference to the pool

VARIABLES
  tasks,      \* the array of tasks not yet started
  limit,      \* worker_limit
  running,    \* running
  refs,       \* reference count of the pool
  workerPc,   \* run_func of each thread
  task,       \* the task a thread is working on
  submitted,  \* current_submitted_tasks_count of each group
  released,   \* released_count of each group
  userPc,     \* the thread that uses a group, and the creator
  returnTo,   \* where its wait_all returns to
  holder,     \* the worker that keeps the mutex between two steps
  pushed,     \* history: number of tasks pushed to each group
  finished    \* history: tasks whose function has returned

poolVars == <<limit, running, refs>>
workerVars == <<workerPc, task, holder>>
groupVars == <<submitted, released>>
userVars == <<userPc, returnTo>>
historyVars == <<pushed, finished>>
vars == <<tasks, poolVars, workerVars, groupVars, userVars, historyVars>>

Init ==
  /\ tasks = [i \in Slots |-> NoTask]
  /\ limit = StartingLimit /\ running = TRUE /\ refs = Cardinality(Users)
  /\ workerPc = [t \in Threads |-> "ready"] /\ task = [t \in Threads |-> NoTask]
  /\ holder = None
  /\ submitted = [g \in Groups |-> 0] /\ released = [g \in Groups |-> 0]
  /\ userPc = [u \in Users |-> "idle"] /\ returnTo = [g \in Groups |-> "idle"]
  /\ pushed = [g \in Groups |-> 0] /\ finished = {}

(***************************************************************************)
(* The counters are the sizes of sets.  A thread that was signalled counts *)
(* as available, and as waiting, until it has the mutex again.             *)
(***************************************************************************)
InArray == {i \in Slots : tasks[i] # NoTask}
At(pcs, places) == {t \in DOMAIN pcs : pcs[t] \in places}
Working(pcs) == Cardinality(At(pcs, {"working"}))
Available(pcs) == At(pcs, {"asleep", "woken"})
Waiting == {g \in Groups : userPc[g] \in {"asleep", "woken"}}

FirstOf(slots) == CHOOSE i \in slots : \A j \in slots : i <= j

\* What pthread_cond_signal on the condition of the workers may do.
Signalled(pcs) ==
  IF At(pcs, {"asleep"}) = {} THEN {pcs}
    ELSE {[pcs EXCEPT ![t] = "woken"] : t \in At(pcs, {"asleep"})}

\* locked_pool_wake_worker_if_allowed, for the given tasks, threads and limit.
WakeWorker(some, pcs, max) ==
  IF some /\ Working(pcs) < max /\ Available(pcs) # {} THEN Signalled(pcs) ELSE {pcs}

(***************************************************************************)
(* run_func.                                                               *)
(***************************************************************************)
HasMutex(t) == holder = t \/ (holder = None /\ workerPc[t] \in {"ready", "woken"})

\* locked_thread_allowed_to_work.
Allowed == InArray # {} /\ Working(workerPc) < limit

StartTask_NotRemoved(t) ==
  /\ HasMutex(t) /\ running /\ Allowed
  /\ task' = [task EXCEPT ![t] = tasks[FirstOf(InArray)]]
  /\ workerPc' \in WakeWorker(Cardinality(InArray) > 1, [workerPc EXCEPT ![t] = "working"], limit)
  /\ holder' = None
  /\ UNCHANGED <<tasks, poolVars, groupVars, userVars, historyVars>>

StartTask_CountedDone(t) ==
  /\ HasMutex(t) /\ running /\ Allowed
  /\ task' = [task EXCEPT ![t] = tasks[FirstOf(InArray)]]
  /\ tasks' = [tasks EXCEPT ![FirstOf(InArray)] = NoTask]
  /\ submitted' = [submitted EXCEPT ![tasks[FirstOf(InArray)][1]] = @ - 1]
  /\ workerPc' \in WakeWorker(Cardinality(InArray) > 1, [workerPc EXCEPT ![t] = "working"], limit)
  /\ holder' = None
  /\ UNCHANGED <<poolVars, released, userVars, historyVars>>

\* The task is taken out, and another thread is woken when there are more.
StartTask(t) ==
  /\ HasMutex(t) /\ running /\ Allowed
  /\ task' = [task EXCEPT ![t] = tasks[FirstOf(InArray)]]
  /\ tasks' = [tasks EXCEPT ![FirstOf(InArray)] = NoTask]
  /\ workerPc' \in WakeWorker(Cardinality(InArray) > 1, [workerPc EXCEPT ![t] = "working"], limit)
  /\ holder' = None
  /\ UNCHANGED <<poolVars, groupVars, userVars, historyVars>>

WaitForWork(t) ==
  /\ HasMutex(t) /\ running /\ ~Allowed
  /\ workerPc' = [workerPc EXCEPT ![t] = "asleep"]
  /\ holder' = None
  /\ UNCHANGED <<tasks, poolVars, task, groupVars, userVars, historyVars>>

WorkerSpuriousWakeup(t) ==
  /\ workerPc[t] = "asleep"
  /\ workerPc' = [workerPc EXCEPT ![t] = "woken"]
  /\ UNCHANGED <<tasks, poolVars, task, holder, groupVars, userVars, historyVars>>

\* locked_group_wake_waiter_if_allowed: the waiting thread takes its donation
\* back, before it has woken up.
WakeWaiter_KeepsLimit(g) ==
  IF submitted'[g] = 0 /\ g \in Waiting
    THEN /\ userPc' = [userPc EXCEPT ![g] = "woken"]
         /\ released' = [released EXCEPT ![g] = @ + 1]
         /\ UNCHANGED limit
    ELSE UNCHANGED <<limit, released, userPc>>

WakeWaiter(g) ==
  IF submitted'[g] = 0 /\ g \in Waiting
    THEN /\ userPc' = [userPc EXCEPT ![g] = "woken"]
         /\ limit' = limit - 1
         /\ released' = [released EXCEPT ![g] = @ + 1]
    ELSE UNCHANGED <<limit, released, userPc>>

\* The function has returned; the thread has the mutex and keeps it.
FinishTask(t) ==
  /\ workerPc[t] = "working" /\ holder = None
  /\ LET g == task[t][1] IN
       /\ submitted' = [submitted EXCEPT ![g] = @ - 1]
       /\ WakeWaiter(g)
  /\ finished' = finished \cup {task[t]}
  /\ task' = [task EXCEPT ![t] = NoTask]
  /\ workerPc' = [workerPc EXCEPT ![t] = "ready"] /\ holder' = t
  /\ UNCHANGED <<tasks, running, refs, returnTo, pushed>>

LeavePool_NoSignal(t) ==
  /\ HasMutex(t) /\ ~running
  /\ workerPc' = [workerPc EXCEPT ![t] = "gone"]
  /\ holder' = None
  /\ UNCHANGED <<tasks, poolVars, task, groupVars, userVars, historyVars>>

\* The pool is shut down: wake the next thread and return.
LeavePool(t) ==
  /\ HasMutex(t) /\ ~running
  /\ workerPc' \in Signalled([workerPc EXCEPT ![t] = "gone"])
  /\ holder' = None
  /\ UNCHANGED <<tasks, poolVars, task, groupVars, userVars, historyVars>>

(***************************************************************************)
(* The functions of a group.                                               *)
(***************************************************************************)
Goto(g, pc) == userPc' = [userPc EXCEPT ![g] = pc]

\* A call of u_worker_group_push, _wait_all or _destroy.
Call(g) ==
  /\ userPc[g] = "idle"
  /\ \/ pushed[g] < MaxPush /\ Goto(g, "push") /\ UNCHANGED returnTo
     \/ \E back \in {"idle", "drop"} :
          Goto(g, "enter") /\ returnTo' = [returnTo EXCEPT ![g] = back]
  /\ UNCHANGED <<tasks, poolVars, workerVars, groupVars, historyVars>>

\* The array is full: wait for all tasks of this group, then try again.
PushFull(g) ==
  /\ userPc[g] = "push" /\ holder = None
  /\ InArray = Slots
  /\ Goto(g, "enter") /\ returnTo' = [returnTo EXCEPT ![g] = "push"]
  /\ UNCHANGED <<tasks, poolVars, workerVars, groupVars, historyVars>>

Push(g) ==
  /\ userPc[g] = "push" /\ holder = None
  /\ InArray # Slots
  /\ tasks' = [tasks EXCEPT ![FirstOf(Slots \ InArray)] = <<g, pushed[g] + 1>>]
  /\ pushed' = [pushed EXCEPT ![g] = @ + 1]
  /\ submitted' = [submitted EXCEPT ![g] = @ + 1]
  /\ workerPc' \in Signalled(workerPc)
  /\ Goto(g, "idle")
  /\ UNCHANGED <<poolVars, task, holder, released, returnTo, finished>>

\* wait_all, until it returns or sleeps.  A thread that enters counts as
\* released once and gives that up at once, see locked_group_should_wait.
EnterWait(g) ==
  /\ userPc[g] = "enter" /\ holder = None
  /\ \/ /\ submitted[g] = 0
        /\ Goto(g, returnTo[g])
        /\ UNCHANGED <<limit, workerPc>>
     \/ /\ submitted[g] > 0
        /\ limit' = limit + 1
        /\ workerPc' \in WakeWorker(InArray # {}, workerPc, limit')
        /\ Goto(g, "asleep")
  /\ UNCHANGED <<tasks, running, refs, task, holder, groupVars, returnTo, historyVars>>

UserSpuriousWakeup(g) ==
  /\ userPc[g] = "asleep"
  /\ Goto(g, "woken")
  /\ UNCHANGED <<tasks, poolVars, workerVars, groupVars, returnTo, historyVars>>

\* Back from the wait with the mutex, locked_group_should_wait again: only a
\* released thread returns, and one that finds new tasks donates itself anew.
LeaveWait(g) ==
  /\ userPc[g] = "woken" /\ holder = None
  /\ LET again == submitted[g] > 0 /\ released[g] > 0 IN
       /\ limit' = limit + (IF again THEN 1 ELSE 0)
       /\ workerPc' \in WakeWorker(again /\ InArray # {}, workerPc, limit')
  /\ released' = [released EXCEPT ![g] = IF @ > 0 THEN @ - 1 ELSE 0]
  /\ Goto(g, IF submitted[g] = 0 /\ released[g] > 0 THEN returnTo[g] ELSE "asleep")
  /\ UNCHANGED <<tasks, running, refs, task, holder, submitted, returnTo, historyVars>>

(***************************************************************************)
(* The references to the pool.                                             *)
(***************************************************************************)
\* A group that is destroyed, or the creator of the pool, lets it go.
DropReference(u) ==
  /\ userPc[u] = (IF u = "creator" THEN "idle" ELSE "drop")
  /\ refs' = refs - 1
  /\ Goto(u, IF refs = 1 THEN "stop" ELSE "gone")
  /\ UNCHANGED <<tasks, limit, running, workerVars, groupVars, returnTo, historyVars>>

StopPool(u) ==
  /\ userPc[u] = "stop" /\ holder = None
  /\ running' = FALSE
  /\ workerPc' \in Signalled(workerPc)
  /\ Goto(u, "join")
  /\ UNCHANGED <<tasks, limit, refs, task, holder, groupVars, returnTo, historyVars>>

JoinWorkers(u) ==
  /\ userPc[u] = "join" /\ \A t \in Threads : workerPc[t] = "gone"
  /\ Goto(u, "gone")
  /\ UNCHANGED <<tasks, poolVars, workerVars, groupVars, returnTo, historyVars>>

AllGone == (\A u \in Users : userPc[u] = "gone") /\ UNCHANGED vars

WorkerStep(t) == StartTask(t) \/ WaitForWork(t) \/ FinishTask(t) \/ LeavePool(t)
GroupStep(g) == PushFull(g) \/ Push(g) \/ EnterWait(g) \/ LeaveWait(g)
DestroyStep(u) == StopPool(u) \/ JoinWorkers(u)

Next ==
  \/ \E t \in Threads : WorkerStep(t) \/ WorkerSpuriousWakeup(t)
  \/ \E g \in Groups : Call(g) \/ GroupStep(g) \/ UserSpuriousWakeup(g)
  \/ \E u \in Users : DropReference(u) \/ DestroyStep(u)
  \/ AllGone

Spec == Init /\ [][Next]_vars

\* A thread that can run does, tasks end, and a call that started goes on.
\* Nothing forces a user to call.
FairSpec ==
  /\ Spec
  /\ \A t \in Threads : WF_vars(WorkerStep(t))
  /\ \A g \in Groups : WF_vars(GroupStep(g))
  /\ \A u \in Users : WF_vars(DestroyStep(u))

(***************************************************************************)
(* Properties.                                                             *)
(***************************************************************************)
\* Every variable has the type of the field or thread position it models.
TypeOK ==
  /\ tasks \in [Slots -> Tasks \cup {NoTask}]
  /\ limit \in Nat /\ running \in BOOLEAN /\ refs \in 0..Cardinality(Users)
  /\ workerPc \in [Threads -> {"ready", "asleep", "woken", "working", "gone"}]
  /\ task \in [Threads -> Tasks \cup {NoTask}]
  /\ holder \in Threads \cup {None}
  /\ submitted \in [Groups -> Nat] /\ released \in [Groups -> Nat]
  /\ userPc \in [Users -> {"idle", "push", "enter", "asleep", "woken", "drop", "stop",
                           "join", "gone"}]
  /\ returnTo \in [Groups -> {"idle", "push", "drop"}]
  /\ pushed \in [Groups -> 0..MaxPush] /\ finished \subseteq Tasks

\* A task that was pushed is in the array, in the hands of one thread, or
\* finished: none is lost and none is run twice (locked_pool_push_task and
\* locked_pool_pop_task with the threads of run_func).  The pool stops with
\* nothing left to do.
Places(k) ==
  Cardinality({i \in Slots : tasks[i] = k}) + Cardinality({t \in Threads : task[t] = k})
    + (IF k \in finished THEN 1 ELSE 0)
TasksConserved ==
  /\ \A k \in Tasks : Places(k) = (IF k[2] <= pushed[k[1]] THEN 1 ELSE 0)
  /\ ~running => InArray = {} /\ \A g \in Groups : submitted[g] = 0

\* The limit is what the pool started with and one for each thread that sleeps
\* in wait_all and was not released: every donation is taken back once, so the
\* assert of locked_group_wake_waiter_if_allowed holds and the limit does not
\* creep over the life of the pool.  At most worker_limit threads work, also
\* right after a donation was taken back while other groups' tasks go on.
LimitIsExact ==
  /\ limit = StartingLimit + Cardinality({g \in Waiting : released[g] = 0})
  /\ Working(workerPc) <= limit

\* u_worker_group_wait_all: "Wait for all pushed tasks to be completed".
WaitReturnsWhenDone ==
  [][\A g \in Groups :
       userPc[g] \in {"enter", "woken"} /\ userPc'[g] \in {"idle", "push", "drop"}
         => \A n \in 1..pushed[g] : <<g, n>> \in finished]_vars

\* wait_all returns, whatever the other groups push and wait for, and so does
\* u_worker_thread_pool_destroy: the single signal it gives is handed on from
\* thread to thread.
WaitAllReturns ==
  /\ \A g \in Groups : (userPc[g] = "enter") ~> (userPc[g] \in {"idle", "drop"})
  /\ \A u \in Users : (userPc[u] = "stop") ~> (userPc[u] = "gone")
=============================================================================
