----------------------------- MODULE IpcServer -----------------------------
(***************************************************************************)
(* The service process: its main loop accepts connections, one thread      *)
(* serves each client, and all of them share the choice of the active      *)
(* client, the use count of a reference space and the countdown to the     *)
(* exit of an idle server (ipc/server/ipc_server_process.c,                *)
(* ipc_server_per_client_thread.c, the session and reference space calls   *)
(* of ipc_server_handler.c, ref_space_inc and ref_space_dec of             *)
(* auxiliary/util/u_space_overseer.c).                                     *)
(*                                                                         *)
(* A critical section of global_state.lock is one step, except that of     *)
(* handle_client_connected, which joins a thread inside it.  A client is   *)
(* shown and focused, or neither; the model has one flag for both.         *)
(***************************************************************************)
EXTENDS Integers, FiniteSets, FiniteSetsExt

CONSTANTS NSlots,        \* IPC_MAX_CLIENTS
          ExitWhenIdle,  \* exit_when_idle
          MaxConnect,    \* bound: connections
          MaxSession     \* bound: sessions created in one connection

ASSUME NSlotsAssumption == NSlots \in Nat \ {0}
ASSUME ExitWhenIdleAssumption == ExitWhenIdle \in BOOLEAN
ASSUME MaxConnectAssumption == MaxConnect \in Nat \ {0}
ASSUME MaxSessionAssumption == MaxSession \in Nat \ {0}

Slots == 1..NSlots
NoClient == 0     \* the index -1 and the id 0

VARIABLES
  running,               \* of the server
  mainPc,                \* "poll", or the slot whose thread main joins, with the lock
  thread,                \* threads[s].state
  pc,                    \* where the thread of each slot is
  used,                  \* server_thread_index >= 0
  client,                \* client_state of each slot
  session,               \* each slot has a session and compositor
  sessionsMade,          \* how many it made in this connection
  createArg,             \* what session_create is about to tell the compositor
  shown,                 \* what the compositor was told last of each slot's client
  activeIndex, lastActive,
  connectedCount, idGenerator,
  lastDisconnect,        \* last_client_disconnect_ns, counted in disconnects
  disconnects,           \* the clock of lastDisconnect
  delays,                \* delayed_exit threads: those that sleep
  exiting,               \* and those that found that the server should exit
  spaceUsed,             \* ref_space_used of each slot, for one reference space
  spaceUses,             \* ref_space_use of the space overseer
  deviceTold,            \* what the device was told last: the space is in use
  refused                \* history: connections refused, there was no free slot

clientVars == <<pc, client, session, sessionsMade, createArg, shown>>
activeVars == <<activeIndex, lastActive>>
connVars == <<mainPc, thread, used, connectedCount, idGenerator, refused>>
exitVars == <<running, lastDisconnect, disconnects, delays, exiting>>
spaceVars == <<spaceUsed, spaceUses, deviceTold>>
vars == <<clientVars, activeVars, connVars, exitVars, spaceVars>>

NewClient(id) == [id |-> id, active |-> FALSE, overlay |-> FALSE, visible |-> FALSE]

Init ==
  /\ running = TRUE /\ mainPc = "poll"
  /\ thread = [s \in Slots |-> "ready"] /\ pc = [s \in Slots |-> "none"]
  /\ used = [s \in Slots |-> FALSE]
  /\ client = [s \in Slots |-> NewClient(NoClient)]
  /\ session = [s \in Slots |-> FALSE] /\ sessionsMade = [s \in Slots |-> 0]
  /\ createArg = [s \in Slots |-> FALSE] /\ shown = [s \in Slots |-> FALSE]
  /\ activeIndex = NoClient /\ lastActive = NoClient
  /\ connectedCount = 0 /\ idGenerator = 0
  /\ lastDisconnect = 0 /\ disconnects = 0 /\ delays = {} /\ exiting = {}
  /\ spaceUsed = [s \in Slots |-> FALSE] /\ spaceUses = 0 /\ deviceTold = FALSE
  /\ refused = 0

LockFree == mainPc = "poll"

(***************************************************************************)
(* ipc_server_handle_client_connected.                                     *)
(***************************************************************************)
StartThread(s) ==
  /\ thread' = [thread EXCEPT ![s] = "starting"]
  /\ used' = [used EXCEPT ![s] = TRUE]
  /\ idGenerator' = idGenerator + 1
  /\ client' = [client EXCEPT ![s] = NewClient(idGenerator + 1)]
  /\ pc' = [pc EXCEPT ![s] = "start"]
  /\ session' = [session EXCEPT ![s] = FALSE]
  /\ sessionsMade' = [sessionsMade EXCEPT ![s] = 0]
  /\ spaceUsed' = [spaceUsed EXCEPT ![s] = FALSE]

FreeSlots == {s \in Slots : ~used[s]}

Accepts == LockFree /\ running /\ idGenerator + refused < MaxConnect

Connect_NoJoin ==
  /\ Accepts /\ FreeSlots # {}
  /\ connectedCount' = connectedCount + 1 /\ lastDisconnect' = 0
  /\ StartThread(Min(FreeSlots))
  /\ UNCHANGED <<mainPc, createArg, shown, refused, activeVars, running, disconnects, delays,
                 exiting, spaceUses, deviceTold>>

\* The first free slot; its last thread may have to be joined.
Connect ==
  /\ Accepts
  /\ connectedCount' = connectedCount + 1 /\ lastDisconnect' = 0
  /\ \/ /\ FreeSlots = {}
        /\ refused' = refused + 1
        /\ UNCHANGED <<mainPc, thread, used, idGenerator, clientVars, spaceUsed>>
     \/ /\ FreeSlots # {} /\ thread[Min(FreeSlots)] = "ready"
        /\ StartThread(Min(FreeSlots))
        /\ UNCHANGED <<mainPc, createArg, shown, refused>>
     \/ /\ FreeSlots # {} /\ thread[Min(FreeSlots)] = "stopping"
        /\ mainPc' = "join"
        /\ UNCHANGED <<thread, used, idGenerator, refused, clientVars, spaceUsed>>
  /\ UNCHANGED <<activeVars, running, disconnects, delays, exiting, spaceUses, deviceTold>>

\* os_thread_join returned: the slot is ready and gets its new thread.
Joined ==
  /\ mainPc = "join" /\ pc[Min(FreeSlots)] = "dead"
  /\ mainPc' = "poll"
  /\ StartThread(Min(FreeSlots))
  /\ UNCHANGED <<createArg, shown, connectedCount, refused, activeVars, exitVars, spaceUses,
                 deviceTold>>

\* setup_epoll: when it fails the thread returns and its slot stays taken.
StartServing(s) ==
  /\ pc[s] = "start"
  /\ pc' = [pc EXCEPT ![s] = "serve"] \/ pc' = [pc EXCEPT ![s] = "dead"]
  /\ UNCHANGED <<client, session, sessionsMade, createArg, shown, activeVars, connVars, exitVars,
                 spaceVars>>

(***************************************************************************)
(* update_server_state_locked.                                             *)
(***************************************************************************)
IsMainApp(c) == c.active /\ ~c.overlay

\* The applications that can be fallen back to, the last one wins.
Fallbacks(clients) == {s \in Slots : used[s] /\ IsMainApp(clients[s])}

NewActive(clients, active) ==
  IF Fallbacks(clients) = {} THEN NoClient
  ELSE IF active # NoClient /\ ~IsMainApp(clients[active]) THEN Max(Fallbacks(clients))
  ELSE active

\* handle_focused_client_events.
Visible(c, isActive) == isActive \/ c.overlay

\* flush_state_to_all_clients_locked: the flags, and what the compositor is told.
Flushed(clients, active) ==
  [s \in Slots |-> IF used[s] THEN [clients[s] EXCEPT !.visible = Visible(clients[s], s = active)]
                   ELSE clients[s]]

Told_ActiveOnly(clients, active) ==
  [s \in Slots |-> IF used[s] /\ session[s] /\ s = active THEN TRUE ELSE shown[s]]

Told(clients, active) ==
  [s \in Slots |-> IF used[s] /\ session[s] THEN Visible(clients[s], s = active) ELSE shown[s]]

\* With the clients and the active index as the caller set them.
UpdateServerState(clients, active) ==
  IF active # NoClient /\ clients[active].active /\ active = lastActive
  THEN client' = clients /\ activeIndex' = active /\ UNCHANGED <<lastActive, shown>>
  ELSE LET new == NewActive(clients, active) IN
         /\ activeIndex' = new /\ lastActive' = new
         /\ client' = Flushed(clients, new)
         /\ shown' = Told(clients, new)

(***************************************************************************)
(* The calls of a client.                                                  *)
(***************************************************************************)
Serving(s) == pc[s] = "serve" /\ running

\* session_create works without the lock: between reading the client's flags
\* and telling the compositor another thread may change them.
CreateSession(s) ==
  /\ Serving(s) /\ ~session[s] /\ sessionsMade[s] < MaxSession
  /\ \E overlay \in BOOLEAN : client' = [client EXCEPT ![s].overlay = overlay]
  /\ session' = [session EXCEPT ![s] = TRUE]
  /\ sessionsMade' = [sessionsMade EXCEPT ![s] = @ + 1]
  /\ createArg' = [createArg EXCEPT ![s] = client[s].visible]
  /\ pc' = [pc EXCEPT ![s] = "create"]
  /\ UNCHANGED <<shown, activeVars, connVars, exitVars, spaceVars>>

CreateSetState(s) ==
  /\ pc[s] = "create"
  /\ shown' = [shown EXCEPT ![s] = createArg[s]]
  /\ createArg' = [createArg EXCEPT ![s] = FALSE]
  /\ pc' = [pc EXCEPT ![s] = "serve"]
  /\ UNCHANGED <<client, session, sessionsMade, activeVars, connVars, exitVars, spaceVars>>

\* predict_frame signals that the session has started.
Activate(s) ==
  /\ Serving(s) /\ session[s] /\ ~client[s].active /\ LockFree
  /\ \/ /\ client[s].overlay
        /\ client' = [client EXCEPT ![s].active = TRUE, ![s].visible = TRUE]
        /\ shown' = [shown EXCEPT ![s] = TRUE]
        /\ UNCHANGED activeVars
     \/ /\ ~client[s].overlay
        /\ UpdateServerState([client EXCEPT ![s].active = TRUE], s)
  /\ UNCHANGED <<pc, session, sessionsMade, createArg, connVars, exitVars, spaceVars>>

\* Ending the session leaves the client active; destroying it does too.  The
\* swapchains go under the lock, then the compositor and the session without it.
DestroySession(s) ==
  /\ Serving(s) /\ session[s] /\ LockFree
  /\ pc' = [pc EXCEPT ![s] = "destroy"]
  /\ UNCHANGED <<client, session, sessionsMade, createArg, shown, activeVars, connVars, exitVars,
                 spaceVars>>

DestroyCompositor(s) ==
  /\ pc[s] = "destroy"
  /\ session' = [session EXCEPT ![s] = FALSE]
  /\ shown' = [shown EXCEPT ![s] = FALSE]
  /\ pc' = [pc EXCEPT ![s] = "serve"]
  /\ UNCHANGED <<client, sessionsMade, createArg, activeVars, connVars, exitVars, spaceVars>>

\* system_set_primary_client sets the index, and nothing else.
SetPrimaryClient(s) ==
  /\ Serving(s) /\ LockFree
  /\ \E c \in Slots : used[c] /\ c # activeIndex /\ activeIndex' = c
  /\ UNCHANGED <<clientVars, lastActive, connVars, exitVars, spaceVars>>

(***************************************************************************)
(* The use of a reference space: the handlers, and ref_space_inc and       *)
(* ref_space_dec, which count atomically and then tell the device, with no *)
(* lock around the two.                                                    *)
(***************************************************************************)
Mark(s, b) == spaceUsed' = [spaceUsed EXCEPT ![s] = b]
GoTo(s, to) == pc' = [pc EXCEPT ![s] = to]

\* The handler refuses a space that the client has marked already.
MarkRefSpace(s) ==
  /\ Serving(s) /\ ~spaceUsed[s]
  /\ spaceUses' = spaceUses + 1
  /\ \/ spaceUses = 0 /\ GoTo(s, "tell_used") /\ UNCHANGED spaceUsed
     \/ spaceUses # 0 /\ Mark(s, TRUE) /\ UNCHANGED pc
  /\ UNCHANGED <<client, session, sessionsMade, createArg, shown, activeVars, connVars, exitVars,
                 deviceTold>>

TellUsed(s) ==
  /\ pc[s] = "tell_used"
  /\ deviceTold' = TRUE
  /\ Mark(s, TRUE) /\ GoTo(s, "serve")
  /\ UNCHANGED <<client, session, sessionsMade, createArg, shown, activeVars, connVars, exitVars,
                 spaceUses>>

\* Back from a call to serving, from the clean up to the next use.
CountDown(s, tell) ==
  /\ spaceUsed[s]
  /\ spaceUses' = spaceUses - 1
  /\ \/ spaceUses = 1 /\ GoTo(s, tell) /\ UNCHANGED spaceUsed
     \/ spaceUses # 1 /\ Mark(s, FALSE) /\ UNCHANGED pc
  /\ UNCHANGED <<client, session, sessionsMade, createArg, shown, activeVars, connVars, exitVars,
                 deviceTold>>

UnmarkRefSpace(s) == Serving(s) /\ CountDown(s, "tell_unused")

TellUnused(s) ==
  /\ pc[s] \in {"tell_unused", "give_back_tell"}
  /\ deviceTold' = FALSE
  /\ Mark(s, FALSE) /\ GoTo(s, IF pc[s] = "tell_unused" THEN "serve" ELSE "give_back")
  /\ UNCHANGED <<client, session, sessionsMade, createArg, shown, activeVars, connVars, exitVars,
                 spaceUses>>

\* The client hangs up, sends something invalid, or the server stops.
LeaveLoop(s) ==
  /\ pc[s] = "serve"
  /\ pc' = [pc EXCEPT ![s] = "shutdown"]
  /\ UNCHANGED <<client, session, sessionsMade, createArg, shown, activeVars, connVars, exitVars, spaceVars>>

(***************************************************************************)
(* common_shutdown.                                                        *)
(***************************************************************************)
Shutdown_CountedTwice(s) ==
  /\ pc[s] = "shutdown" /\ LockFree
  /\ thread' = [thread EXCEPT ![s] = "stopping"] /\ used' = [used EXCEPT ![s] = FALSE]
  /\ client' = [client EXCEPT ![s] = NewClient(NoClient)]
  /\ connectedCount' = connectedCount - 2
  /\ pc' = [pc EXCEPT ![s] = "cleanup"]
  /\ UNCHANGED <<session, sessionsMade, createArg, shown, activeVars, mainPc, idGenerator,
                 refused, exitVars, spaceVars>>

Shutdown(s) ==
  /\ pc[s] = "shutdown" /\ LockFree
  /\ thread' = [thread EXCEPT ![s] = "stopping"] /\ used' = [used EXCEPT ![s] = FALSE]
  /\ client' = [client EXCEPT ![s] = NewClient(NoClient)]
  /\ connectedCount' = connectedCount - 1
  /\ pc' = [pc EXCEPT ![s] = "cleanup"]
  /\ UNCHANGED <<session, sessionsMade, createArg, shown, activeVars, mainPc, idGenerator,
                 refused, exitVars, spaceVars>>

\* Swapchains go under the lock, then the compositor and the session.
Cleanup(s) ==
  /\ pc[s] = "cleanup" /\ LockFree
  /\ session' = [session EXCEPT ![s] = FALSE]
  /\ shown' = [shown EXCEPT ![s] = FALSE]
  /\ pc' = [pc EXCEPT ![s] = "give_back"]
  /\ UNCHANGED <<client, sessionsMade, createArg, activeVars, connVars, exitVars, spaceVars>>

\* Uses the client did not give back, one space after the other.
GiveBack(s) == pc[s] = "give_back" /\ CountDown(s, "give_back_tell")

GaveBack_NotChecked(s) ==
  /\ pc[s] = "give_back"
  /\ GoTo(s, "exit_check")
  /\ UNCHANGED <<client, session, sessionsMade, createArg, shown, activeVars, connVars, exitVars,
                 spaceVars>>

GaveBack(s) ==
  /\ pc[s] = "give_back" /\ ~spaceUsed[s]
  /\ GoTo(s, "exit_check")
  /\ UNCHANGED <<client, session, sessionsMade, createArg, shown, activeVars, connVars, exitVars,
                 spaceVars>>

ExitCheck_CountsItself(s) ==
  /\ pc[s] = "exit_check"
  /\ \/ /\ ExitWhenIdle /\ connectedCount = 1
        /\ disconnects' = disconnects + 1
        /\ lastDisconnect' = disconnects + 1
        /\ delays' = delays \cup {disconnects + 1}
     \/ /\ ~(ExitWhenIdle /\ connectedCount = 1)
        /\ UNCHANGED <<disconnects, lastDisconnect, delays>>
  /\ pc' = [pc EXCEPT ![s] = "deactivate"]
  /\ UNCHANGED <<client, session, sessionsMade, createArg, shown, activeVars, connVars,
                 running, exiting, spaceVars>>

\* Without the lock: start the countdown when no client is left.
ExitCheck(s) ==
  /\ pc[s] = "exit_check"
  /\ \/ /\ ExitWhenIdle /\ connectedCount = 0
        /\ disconnects' = disconnects + 1
        /\ lastDisconnect' = disconnects + 1
        /\ delays' = delays \cup {disconnects + 1}
     \/ /\ ~(ExitWhenIdle /\ connectedCount = 0)
        /\ UNCHANGED <<disconnects, lastDisconnect, delays>>
  /\ pc' = [pc EXCEPT ![s] = "deactivate"]
  /\ UNCHANGED <<client, session, sessionsMade, createArg, shown, activeVars, connVars,
                 running, exiting, spaceVars>>

Deactivate_NoUpdate(s) ==
  /\ pc[s] = "deactivate" /\ LockFree
  /\ pc' = [pc EXCEPT ![s] = "dead"]
  /\ client' = [client EXCEPT ![s].active = FALSE]
  /\ UNCHANGED <<session, sessionsMade, createArg, shown, activeVars, connVars, exitVars, spaceVars>>

Deactivate(s) ==
  /\ pc[s] = "deactivate" /\ LockFree
  /\ pc' = [pc EXCEPT ![s] = "dead"]
  /\ UpdateServerState([client EXCEPT ![s].active = FALSE], activeIndex)
  /\ UNCHANGED <<session, sessionsMade, createArg, connVars, exitVars, spaceVars>>

(***************************************************************************)
(* delayed_exit_thread.  The oldest sleeps shortest.                       *)
(***************************************************************************)
DelayOver(d) ==
  /\ d \in delays /\ d = Min(delays) /\ LockFree
  /\ delays' = delays \ {d}
  /\ exiting' = IF connectedCount = 0 /\ lastDisconnect > 0 THEN exiting \cup {d} ELSE exiting
  /\ UNCHANGED <<clientVars, activeVars, connVars, running, lastDisconnect, disconnects, spaceVars>>

DelayedExit(d) ==
  /\ d \in exiting
  /\ exiting' = exiting \ {d}
  /\ running' = FALSE
  /\ UNCHANGED <<clientVars, activeVars, connVars, lastDisconnect, disconnects, delays, spaceVars>>

ClientContinues(s) ==
  \/ StartServing(s) \/ CreateSetState(s) \/ DestroyCompositor(s) \/ TellUsed(s) \/ TellUnused(s)
  \/ Shutdown(s) \/ Cleanup(s) \/ GiveBack(s) \/ GaveBack(s) \/ ExitCheck(s) \/ Deactivate(s)
Calls(s) ==
  \/ CreateSession(s) \/ Activate(s) \/ DestroySession(s) \/ SetPrimaryClient(s)
  \/ MarkRefSpace(s) \/ UnmarkRefSpace(s) \/ LeaveLoop(s)
Exit == (\E d \in delays : DelayOver(d)) \/ (\E d \in exiting : DelayedExit(d))

Next == \/ Connect \/ Joined
        \/ \E s \in Slots : Calls(s) \/ ClientContinues(s)
        \/ Exit

Spec == Init /\ [][Next]_vars

\* A thread that can go on does, and a delay ends.  Clients need not do anything.
FairSpec ==
  /\ Spec
  /\ WF_vars(Joined) /\ WF_vars(Exit) /\ \A s \in Slots : WF_vars(ClientContinues(s))

(***************************************************************************)
(* Properties.                                                             *)
(***************************************************************************)
Client == [id : Nat, active : BOOLEAN, overlay : BOOLEAN, visible : BOOLEAN]
Pcs == {"none", "start", "serve", "create", "destroy", "tell_used", "tell_unused", "shutdown",
        "cleanup", "give_back", "give_back_tell", "exit_check", "deactivate", "dead"}

\* Every variable has the type of the field or thread position it models; the
\* unsigned count of clients does not wrap.
TypeOK ==
  /\ running \in BOOLEAN /\ mainPc \in {"poll", "join"}
  /\ thread \in [Slots -> {"ready", "starting", "stopping"}] /\ pc \in [Slots -> Pcs]
  /\ used \in [Slots -> BOOLEAN] /\ client \in [Slots -> Client]
  /\ session \in [Slots -> BOOLEAN] /\ sessionsMade \in [Slots -> 0..MaxSession]
  /\ createArg \in [Slots -> BOOLEAN] /\ shown \in [Slots -> BOOLEAN]
  /\ activeIndex \in Slots \cup {NoClient} /\ lastActive \in Slots \cup {NoClient}
  /\ connectedCount \in Nat /\ idGenerator \in 0..MaxConnect
  /\ lastDisconnect \in Nat /\ disconnects \in Nat
  /\ delays \subseteq Nat /\ exiting \subseteq Nat
  /\ spaceUsed \in [Slots -> BOOLEAN] /\ spaceUses \in Nat /\ deviceTold \in BOOLEAN
  /\ refused \in 0..MaxConnect

ShuttingDown == {"cleanup", "give_back", "give_back_tell", "exit_check", "deactivate"}

\* A client keeps its flags and its activity when it destroys its session, and
\* session_create lets it make another one, of either kind.  The next two
\* properties are about the clients in the first session of their connection:
\* for later ones both are false of the code (see UpdateReachesAll).
InFirst(s) == sessionsMade[s] <= 1

\* Of the clients in their first session at most one application has the flags
\* of the primary one.  When such an application is active exactly one has
\* them, unless the client chosen last is in a later session, or a client shuts
\* down, whose place may be empty until its last step: set_primary_client,
\* overlays, disconnects and the fallback never leave two or none.
OneApplicationIsPrimary ==
  LET flagged == {s \in Slots : used[s] /\ ~client[s].overlay /\ client[s].visible /\ InFirst(s)}
  IN /\ Cardinality(flagged) <= 1
     /\ /\ \A s \in Slots : pc[s] \notin ShuttingDown
        /\ lastActive # NoClient => InFirst(lastActive)
        => Cardinality(flagged) = (IF \E s \in Fallbacks(client) : InFirst(s) THEN 1 ELSE 0)

\* The compositor shows an active client in its first session exactly when its
\* flags say so.
ShownAsFlagged(s) ==
  used[s] /\ session[s] /\ client[s].active /\ pc[s] \notin {"create", "destroy"}
    => shown[s] = client[s].visible

CompositorAgrees == \A s \in Slots : InFirst(s) => ShownAsFlagged(s)

\* A slot gets a new client only when the thread that served the last one is
\* gone: that thread still works on the slot after it set the index to -1.
SlotIsReusedAfterJoin ==
  [][\A s \in Slots : client'[s].id > client[s].id => pc[s] \in {"none", "dead"}]_client

\* Nothing is counted twice or forgotten.  connected_client_count is the number
\* of slots taken, and the connections that were refused stay in it.  The use
\* count of the reference space is the number of clients that use it, through
\* calls and the clean up after a client that just went away; and when nobody
\* uses it and all was told, the device was told so.
Telling(s) == pc[s] \in {"tell_used", "tell_unused", "give_back_tell"}
CountsAreExact ==
  /\ connectedCount =
       Cardinality({s \in Slots : used[s]}) + refused + (IF mainPc = "join" THEN 1 ELSE 0)
  /\ spaceUses = Cardinality({s \in Slots : pc[s] = "tell_used" \/ (spaceUsed[s] /\ ~Telling(s))})
  /\ spaceUses = 0 /\ (\A s \in Slots : ~Telling(s)) => ~deviceTold

\* A server told to exit when idle does, unless somebody connects: whichever
\* client is the last one to leave starts the delay.
IdleServerExits ==
  (ExitWhenIdle /\ connectedCount = 0 /\ idGenerator > 0) ~> (~running \/ connectedCount > 0)

(***************************************************************************)
(* What the source says and the code does not keep.                        *)
(***************************************************************************)
\* activate_session: "For new active regular sessions update all clients".  A
\* client that makes its second session is still active and may have read its
\* old flags: it tells them to the compositor after the update told it the new.
UpdateReachesAll == \A s \in Slots : ShownAsFlagged(s)

\* handle_client_connected: "find the next free thread in our array ... and have
\* it handle this connection".
ConnectionIsHandled == (mainPc = "join") ~> (mainPc = "poll")
=============================================================================
