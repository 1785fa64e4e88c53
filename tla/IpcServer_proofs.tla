------------------------- MODULE IpcServer_proofs -------------------------
(***************************************************************************)
(* Proofs about the server: what is counted is counted exactly, a slot is  *)
(* used again only when its last thread is gone, and, of the clients in    *)
(* the first session of their connection, one application has the flags of *)
(* the primary one and the compositor agrees with the flags.               *)
(*                                                                         *)
(* Clients in later sessions are there all the time: an invariant has to   *)
(* say what they may do to the others, who then choose the active client.  *)
(***************************************************************************)
EXTENDS IpcServer, FiniteSetTheorems, WellFoundedInduction, TLAPS

\* The types without the bounds that depend on all the rest.
Shape ==
  /\ running \in BOOLEAN /\ mainPc \in {"poll", "join"}
  /\ thread \in [Slots -> {"ready", "starting", "stopping"}] /\ pc \in [Slots -> Pcs]
  /\ used \in [Slots -> BOOLEAN] /\ client \in [Slots -> Client]
  /\ session \in [Slots -> BOOLEAN] /\ sessionsMade \in [Slots -> 0..MaxSession]
  /\ createArg \in [Slots -> BOOLEAN] /\ shown \in [Slots -> BOOLEAN]
  /\ activeIndex \in Slots \cup {NoClient} /\ lastActive \in Slots \cup {NoClient}
  /\ connectedCount \in Int /\ idGenerator \in Nat /\ refused \in Nat
  /\ lastDisconnect \in Nat /\ disconnects \in Nat
  /\ delays \subseteq Nat /\ exiting \subseteq Nat
  /\ spaceUsed \in [Slots -> BOOLEAN] /\ spaceUses \in Int /\ deviceTold \in BOOLEAN

\* A slot is taken while its thread is starting.  A thread that gave up its
\* slot is in the clean up, or done.
Threads ==
  \A s \in Slots :
    /\ used[s] <=> thread[s] = "starting"
    /\ thread[s] = "ready" <=> pc[s] = "none"
    /\ thread[s] = "stopping" => pc[s] \in ShuttingDown \cup {"dead"}
    /\ pc[s] \in ShuttingDown => ~used[s]

\* Main joins the thread of the first free slot, with the lock, so that no
\* other slot becomes free meanwhile.
Joining == mainPc = "join" => FreeSlots # {} /\ thread[Min(FreeSlots)] = "stopping"

\* The client of a slot that was given up has no flags.
Emptied ==
  \A s \in Slots :
    ~used[s] => ~client[s].active /\ ~client[s].overlay /\ ~client[s].visible

\* A connection is being accepted while main joins.
One(b) == IF b THEN 1 ELSE 0
Taken == {s \in Slots : used[s]}
Counted ==
  /\ idGenerator + refused + One(mainPc = "join") <= MaxConnect
  /\ connectedCount = Cardinality(Taken) + refused + One(mainPc = "join")

\* The client that tells the device about its use has not marked the space
\* yet, and the one that tells it about the end still has; a thread that is
\* past the clean up has nothing marked.
SpaceMarks ==
  \A s \in Slots :
    /\ pc[s] \in {"none", "start", "tell_used", "exit_check", "deactivate"} => ~spaceUsed[s]
    /\ pc[s] = "dead" => ~spaceUsed[s]
    /\ pc[s] \in {"tell_unused", "give_back_tell"} => spaceUsed[s]

\* The device is told of the end by the client that counted down to zero.
SpaceUsers == {s \in Slots : pc[s] = "tell_used" \/ (spaceUsed[s] /\ ~Telling(s))}
SpaceCounted ==
  /\ spaceUses = Cardinality(SpaceUsers)
  /\ spaceUses = 0 /\ deviceTold => \E s \in Slots : pc[s] \in {"tell_unused", "give_back_tell"}

CountInv ==
  Shape /\ Threads /\ Joining /\ Emptied /\ Counted /\ SpaceMarks /\ SpaceCounted

\* A client has no flags before its first session, and is not active while it
\* makes that one.
Fresh ==
  \A s \in Slots :
    /\ session[s] => sessionsMade[s] > 0
    /\ sessionsMade[s] = 0 => ~client[s].active /\ ~client[s].visible /\ ~client[s].overlay
    /\ pc[s] = "create" /\ InFirst(s) => ~client[s].active

\* The last client that was made the primary one has the flags and is active,
\* or gave up its slot and has not looked for its successor yet, or is in a
\* later session and still active, maybe as an overlay.
Flagged == {s \in Slots : used[s] /\ ~client[s].overlay /\ client[s].visible}
Followed ==
  /\ (\E s \in Fallbacks(client) : InFirst(s)) => activeIndex # NoClient /\ lastActive # NoClient
  /\ lastActive # NoClient =>
       \/ lastActive \in Flagged /\ client[lastActive].active
       \/ pc[lastActive] \in ShuttingDown
       \/ used[lastActive] /\ ~InFirst(lastActive) /\ client[lastActive].active
  /\ \A s \in Flagged : InFirst(s) => s = lastActive

PrimaryInv == CountInv /\ Fresh /\ Followed /\ CompositorAgrees

(***************************************************************************)
(* Facts about sets and about the operators of the model.                  *)
(***************************************************************************)
\* Two sets that differ in one element at most: their sizes.
LEMMA SetChange ==
  ASSUME NEW A, NEW B, NEW x, IsFiniteSet(A), A \ {x} = B \ {x}
  PROVE  /\ IsFiniteSet(B) /\ Cardinality(A) \in Nat /\ Cardinality(B) \in Nat
         /\ Cardinality(B) = Cardinality(A) - One(x \in A) + One(x \in B)
  <1>1. /\ IsFiniteSet(A \ {x}) /\ Cardinality(A) \in Nat /\ Cardinality(A \ {x}) \in Nat
        /\ Cardinality(A \ {x}) = Cardinality(A) - One(x \in A)
    BY FS_RemoveElement, FS_CardinalityType DEF One
  <1>2. CASE x \in B
    <2>1. B = (A \ {x}) \cup {x} /\ x \notin A \ {x}
      BY <1>2
    <2>2. IsFiniteSet(B) /\ Cardinality(B) = Cardinality(A \ {x}) + 1
      BY <2>1, <1>1, FS_AddElement
    <2> QED BY <2>2, <1>1, <1>2 DEF One
  <1>3. CASE x \notin B
    <2>1. B = A \ {x}
      BY <1>3
    <2> QED BY <2>1, <1>1, <1>3 DEF One
  <1> QED BY <1>2, <1>3

\* A set of naturals has a least element: a smallest one of the segments 1..i.
LEMMA LeastExists ==
  ASSUME NEW S, S \subseteq Nat, S # {} PROVE \E i \in S : \A j \in S : i <= j
  <1> DEFINE T == {1..i : i \in S}
  <1>1. T \subseteq FiniteSubsetsOf(Nat) /\ T # {}
    <2>1. \A i \in S : 1..i \subseteq Nat /\ IsFiniteSet(1..i)
      BY FS_Interval
    <2> QED BY <2>1 DEF FiniteSubsetsOf
  <1>2. IsWellFoundedOn(StrictSubsetOrdering(Nat), FiniteSubsetsOf(Nat))
    BY FS_StrictSubsetOrderingWellFounded
  <1>3. PICK x \in T : \A y \in T : ~ (<<y, x>> \in StrictSubsetOrdering(Nat))
    BY <1>1, <1>2, WFMin
  <1>4. PICK i \in S : x = 1..i
    BY <1>3
  <1>5. ASSUME NEW j \in S PROVE i <= j
    <2>1. SUFFICES ASSUME j < i PROVE FALSE
      OBVIOUS
    <2>2. /\ 1..j \subseteq 1..i /\ i \in 1..i /\ i \notin 1..j
          /\ 1..j \subseteq Nat /\ 1..i \subseteq Nat
      BY <2>1
    <2>3. <<1..j, x>> \in StrictSubsetOrdering(Nat)
      BY <2>2, <1>4 DEF StrictSubsetOrdering
    <2> QED BY <2>3, <1>3
  <1> QED BY <1>4, <1>5

\* The first and the last of some slots are among them.
LEMMA FirstAndLast ==
  ASSUME NEW S, S \subseteq Slots, S # {} PROVE Min(S) \in S /\ Max(S) \in S
  <1>1. S \subseteq Nat /\ NSlots \in Nat /\ \A i \in S : i <= NSlots
    BY NSlotsAssumption DEF Slots
  <1>2. \E i \in S : \A j \in S : i <= j
    BY <1>1, LeastExists
  <1>3. \E i \in S : \A j \in S : i >= j
    <2> DEFINE T == {NSlots - i : i \in S}
    <2>1. T \subseteq Nat /\ T # {}
      <3>1. \A i \in S : NSlots - i \in Nat
        BY <1>1
      <3> QED BY <3>1
    <2>2. PICK t \in T : \A u \in T : t <= u
      BY <2>1, LeastExists
    <2>3. PICK i \in S : t = NSlots - i
      OBVIOUS
    <2>4. ASSUME NEW j \in S PROVE i >= j
      <3>1. NSlots - i <= NSlots - j
        BY <2>2, <2>3
      <3> QED BY <3>1, <1>1
    <2> QED BY <2>4
  <1>4. Min(S) \in S
    BY <1>2 DEF Min
  <1>5. Max(S) \in S
    BY <1>3 DEF Max
  <1> QED BY <1>4, <1>5

\* The slots, and what is counted of them, are finite sets.
LEMMA SetsAreFinite ==
  /\ IsFiniteSet(Slots) /\ IsFiniteSet(Taken) /\ IsFiniteSet(SpaceUsers)
  /\ NoClient \notin Slots
  <1>1. IsFiniteSet(Slots) /\ NoClient \notin Slots
    BY NSlotsAssumption, FS_Interval DEF Slots, NoClient
  <1>2. Taken \subseteq Slots /\ SpaceUsers \subseteq Slots
    BY DEF Taken, SpaceUsers
  <1> QED BY <1>1, <1>2, FS_Subset

\* The first free slot.
LEMMA FirstFree ==
  FreeSlots # {} => Min(FreeSlots) \in Slots /\ ~used[Min(FreeSlots)]
  <1>1. FreeSlots \subseteq Slots
    BY DEF FreeSlots
  <1> QED BY <1>1, FirstAndLast DEF FreeSlots

\* What a flush leaves in the client states.
LEMMA FlushedFields ==
  ASSUME Shape, NEW clients \in [Slots -> Client], NEW active
  PROVE  /\ Flushed(clients, active) \in [Slots -> Client]
         /\ Told(clients, active) \in [Slots -> BOOLEAN]
         /\ \A s \in Slots :
              /\ Flushed(clients, active)[s].id = clients[s].id
              /\ Flushed(clients, active)[s].active = clients[s].active
              /\ Flushed(clients, active)[s].overlay = clients[s].overlay
              /\ used[s] => Flushed(clients, active)[s].visible = Visible(clients[s], s = active)
              /\ ~used[s] => Flushed(clients, active)[s] = clients[s]
  <1>1. \A s \in Slots : Visible(clients[s], s = active) \in BOOLEAN
    BY DEF Visible, Client
  <1>2. ASSUME NEW s \in Slots
        PROVE  /\ Flushed(clients, active)[s] \in Client
               /\ Flushed(clients, active)[s].id = clients[s].id
               /\ Flushed(clients, active)[s].active = clients[s].active
               /\ Flushed(clients, active)[s].overlay = clients[s].overlay
               /\ used[s] => Flushed(clients, active)[s].visible = Visible(clients[s], s = active)
               /\ ~used[s] => Flushed(clients, active)[s] = clients[s]
    BY <1>1 DEF Flushed, Client
  <1>3. Told(clients, active) \in [Slots -> BOOLEAN]
    BY <1>1 DEF Told, Shape
  <1>4. Flushed(clients, active) \in [Slots -> Client]
    BY <1>2 DEF Flushed
  <1> QED BY <1>2, <1>3, <1>4

\* What update_server_state_locked does: nothing more, when the active client
\* is the last one that was made so; or it makes somebody, or nobody, the
\* active client and flushes the flags.
LEMMA UpdateOutcome ==
  ASSUME NEW clients \in [Slots -> Client], NEW active \in Slots \cup {NoClient},
         UpdateServerState(clients, active)
  PROVE  \/ /\ active # NoClient /\ clients[active].active /\ active = lastActive
            /\ client' = clients /\ activeIndex' = active /\ UNCHANGED <<lastActive, shown>>
         \/ \E new \in Slots \cup {NoClient} :
              /\ activeIndex' = new /\ lastActive' = new
              /\ client' = Flushed(clients, new) /\ shown' = Told(clients, new)
              /\ new = NoClient => Fallbacks(clients) = {} \/ active = NoClient
              /\ new # NoClient => /\ IsMainApp(clients[new])
                                   /\ new \in Fallbacks(clients) \/ new = active
  <1> DEFINE new == NewActive(clients, active)
  <1>1. CASE active # NoClient /\ clients[active].active /\ active = lastActive
    BY <1>1 DEF UpdateServerState
  <1>2. CASE ~(active # NoClient /\ clients[active].active /\ active = lastActive)
    <2>1. /\ activeIndex' = new /\ lastActive' = new
          /\ client' = Flushed(clients, new) /\ shown' = Told(clients, new)
      BY <1>2 DEF UpdateServerState
    <2>2. Fallbacks(clients) # {} => Max(Fallbacks(clients)) \in Fallbacks(clients)
      <3>1. Fallbacks(clients) \subseteq Slots
        BY DEF Fallbacks
      <3> QED BY <3>1, FirstAndLast
    <2>3. \A s \in Fallbacks(clients) : s \in Slots /\ IsMainApp(clients[s])
      BY DEF Fallbacks
    <2>4. /\ new \in Slots \cup {NoClient}
          /\ new = NoClient => Fallbacks(clients) = {} \/ active = NoClient
          /\ new # NoClient => /\ IsMainApp(clients[new])
                               /\ new \in Fallbacks(clients) \/ new = active
      BY <2>2, <2>3, SetsAreFinite DEF NewActive
    <2> HIDE DEF new
    <2> QED BY <2>1, <2>4
  <1> QED BY <1>1, <1>2

\* A slot that becomes a client's: the thread of the one before it is gone.
LEMMA StartedSlot ==
  ASSUME Shape, Threads, Joining
  PROVE  /\ Connect /\ FreeSlots # {} /\ thread[Min(FreeSlots)] = "ready" =>
              Min(FreeSlots) \in Slots /\ ~used[Min(FreeSlots)] /\ pc[Min(FreeSlots)] = "none"
         /\ Joined => /\ Min(FreeSlots) \in Slots /\ ~used[Min(FreeSlots)]
                      /\ pc[Min(FreeSlots)] = "dead"
  BY FirstFree DEF Threads, Joining, Joined

(***************************************************************************)
(* The counts.                                                             *)
(***************************************************************************)
\* Every step keeps the types.
LEMMA ShapeStep == CountInv /\ [Next]_vars => Shape'
  <1> SUFFICES ASSUME CountInv, [Next]_vars PROVE Shape'
    OBVIOUS
  <1> USE DEF CountInv, clientVars, activeVars, connVars, exitVars, spaceVars
  <1>1. ASSUME Connect PROVE Shape'
    <2>1. CASE FreeSlots # {} /\ thread[Min(FreeSlots)] = "ready"
      <3>1. Min(FreeSlots) \in Slots
        BY <2>1, FirstFree
      <3>2. NewClient(idGenerator + 1) \in Client /\ 0 \in 0..MaxSession
        BY MaxSessionAssumption DEF NewClient, Client, Shape
      <3>3. StartThread(Min(FreeSlots))
        BY <1>1, <2>1 DEF Connect
      <3>4. /\ connectedCount' = connectedCount + 1 /\ lastDisconnect' = 0
            /\ UNCHANGED <<mainPc, createArg, shown, refused, activeIndex, lastActive, running,
                           disconnects, delays, exiting, spaceUses, deviceTold>>
        BY <1>1, <2>1 DEF Connect, activeVars
      <3> QED BY <3>1, <3>2, <3>3, <3>4 DEF StartThread, Shape, Pcs
    <2>2. CASE ~(FreeSlots # {} /\ thread[Min(FreeSlots)] = "ready")
      BY <1>1, <2>2 DEF Connect, Shape, clientVars, activeVars
    <2> QED BY <2>1, <2>2
  <1>2. ASSUME Joined PROVE Shape'
    <2>1. Min(FreeSlots) \in Slots
      BY <1>2, StartedSlot DEF CountInv
    <2>2. NewClient(idGenerator + 1) \in Client /\ 0 \in 0..MaxSession
      BY MaxSessionAssumption DEF NewClient, Client, Shape
    <2>3. StartThread(Min(FreeSlots)) /\ mainPc' = "poll"
      BY <1>2 DEF Joined
    <2>4. UNCHANGED <<createArg, shown, connectedCount, refused, activeIndex, lastActive,
                      running, lastDisconnect, disconnects, delays, exiting, spaceUses, deviceTold>>
      BY <1>2 DEF Joined, activeVars, exitVars
    <2> QED BY <2>1, <2>2, <2>3, <2>4 DEF StartThread, Shape, Pcs
  <1>3. ASSUME NEW s \in Slots, StartServing(s) PROVE Shape'
    BY <1>3 DEF StartServing, Shape, Pcs
  <1>4. ASSUME NEW s \in Slots, CreateSetState(s) PROVE Shape'
    BY <1>4 DEF CreateSetState, Shape, Pcs
  <1>5. ASSUME NEW s \in Slots, DestroyCompositor(s) PROVE Shape'
    BY <1>5 DEF DestroyCompositor, Shape, Pcs
  <1>6. ASSUME NEW s \in Slots, TellUsed(s) PROVE Shape'
    BY <1>6 DEF TellUsed, Shape, Pcs, GoTo, Mark
  <1>7. ASSUME NEW s \in Slots, TellUnused(s) PROVE Shape'
    BY <1>7 DEF TellUnused, Shape, Pcs, GoTo, Mark
  <1>8. ASSUME NEW s \in Slots, Shutdown(s) PROVE Shape'
    <2>1. NewClient(NoClient) \in Client
      BY DEF NewClient, NoClient, Client
    <2> QED BY <1>8, <2>1 DEF Shutdown, Shape, Pcs, activeVars, exitVars, spaceVars
  <1>9. ASSUME NEW s \in Slots, Cleanup(s) PROVE Shape'
    BY <1>9 DEF Cleanup, Shape, Pcs
  <1>10. ASSUME NEW s \in Slots, GiveBack(s) PROVE Shape'
    <2>1. /\ pc' \in [Slots -> Pcs]
          /\ UNCHANGED <<client, session, sessionsMade, createArg, shown, activeVars, connVars,
                         exitVars, deviceTold>>
      BY <1>10 DEF GiveBack, CountDown, GoTo, Shape, Pcs
    <2>2. spaceUsed' \in [Slots -> BOOLEAN]
      BY <1>10 DEF GiveBack, CountDown, Mark, Shape
    <2>3. spaceUses' \in Int
      BY <1>10 DEF GiveBack, CountDown, Shape
    <2> QED BY <2>1, <2>2, <2>3 DEF Shape
  <1>11. ASSUME NEW s \in Slots, GaveBack(s) PROVE Shape'
    BY <1>11 DEF GaveBack, Shape, Pcs, GoTo
  <1>12. ASSUME NEW s \in Slots, ExitCheck(s) PROVE Shape'
    <2>1. disconnects' \in Nat /\ lastDisconnect' \in Nat /\ delays' \subseteq Nat
      <3>1. disconnects + 1 \in Nat
        BY DEF Shape
      <3> QED BY <1>12, <3>1 DEF ExitCheck, Shape
    <2>2. pc' \in [Slots -> Pcs]
      BY <1>12 DEF ExitCheck, Shape, Pcs
    <2> QED BY <1>12, <2>1, <2>2 DEF ExitCheck, Shape, activeVars, connVars, spaceVars
  <1>13. ASSUME NEW s \in Slots, Deactivate(s) PROVE Shape'
    <2> DEFINE c == [client EXCEPT ![s].active = FALSE]
    <2>1. c \in [Slots -> Client]
      BY DEF Shape, Client
    <2>2. UpdateServerState(c, activeIndex) => /\ client' \in [Slots -> Client]
                                          /\ shown' \in [Slots -> BOOLEAN]
                                          /\ activeIndex' \in Slots \cup {NoClient}
                                          /\ lastActive' \in Slots \cup {NoClient}
      <3> HIDE DEF c
      <3> SUFFICES ASSUME UpdateServerState(c, activeIndex)
                   PROVE  /\ client' \in [Slots -> Client] /\ shown' \in [Slots -> BOOLEAN]
                          /\ activeIndex' \in Slots \cup {NoClient}
                          /\ lastActive' \in Slots \cup {NoClient}
        OBVIOUS
      <3>1. activeIndex \in Slots \cup {NoClient}
        BY DEF Shape
      <3> QED BY <2>1, <3>1, UpdateOutcome, FlushedFields DEF Shape
    <2>3. /\ UpdateServerState(c, activeIndex) /\ pc' = [pc EXCEPT ![s] = "dead"]
          /\ UNCHANGED <<session, sessionsMade, createArg, connVars, exitVars, spaceVars>>
      BY <1>13 DEF Deactivate
    <2> HIDE DEF c
    <2> QED BY <2>2, <2>3 DEF Shape, Pcs, connVars, exitVars, spaceVars
  <1>14. ASSUME NEW s \in Slots, CreateSession(s) PROVE Shape'
    <2>1. sessionsMade' \in [Slots -> 0..MaxSession]
      BY <1>14, MaxSessionAssumption DEF CreateSession, Shape
    <2>2. client' \in [Slots -> Client] /\ createArg' \in [Slots -> BOOLEAN]
      <3>1. PICK overlay \in BOOLEAN : client' = [client EXCEPT ![s].overlay = overlay]
        BY <1>14 DEF CreateSession
      <3>2. [client[s] EXCEPT !.overlay = overlay] \in Client /\ client[s].visible \in BOOLEAN
        BY DEF Shape, Client
      <3>3. createArg' = [createArg EXCEPT ![s] = client[s].visible]
        BY <1>14 DEF CreateSession
      <3> QED BY <3>1, <3>2, <3>3 DEF Shape
    <2> QED BY <1>14, <2>1, <2>2 DEF CreateSession, Shape, Pcs, activeVars, connVars,
      exitVars, spaceVars
  <1>15. ASSUME NEW s \in Slots, Activate(s) PROVE Shape'
    <2>0. /\ client[s].overlay => /\ client' = [client EXCEPT ![s].active = TRUE, ![s].visible = TRUE]
                                  /\ shown' = [shown EXCEPT ![s] = TRUE]
                                  /\ UNCHANGED activeVars
          /\ ~client[s].overlay => UpdateServerState([client EXCEPT ![s].active = TRUE], s)
          /\ UNCHANGED <<pc, session, sessionsMade, createArg, connVars, exitVars, spaceVars>>
      BY <1>15 DEF Activate
    <2> DEFINE c == [client EXCEPT ![s].active = TRUE]
    <2>1. c \in [Slots -> Client]
      BY DEF Shape, Client
    <2>2. UpdateServerState(c, s) => /\ client' \in [Slots -> Client]
                                          /\ shown' \in [Slots -> BOOLEAN]
                                          /\ activeIndex' \in Slots \cup {NoClient}
                                          /\ lastActive' \in Slots \cup {NoClient}
      <3> HIDE DEF c
      <3> SUFFICES ASSUME UpdateServerState(c, s)
                   PROVE  /\ client' \in [Slots -> Client] /\ shown' \in [Slots -> BOOLEAN]
                          /\ activeIndex' \in Slots \cup {NoClient}
                          /\ lastActive' \in Slots \cup {NoClient}
        OBVIOUS
      <3>1. s \in Slots \cup {NoClient}
        BY DEF Shape
      <3> QED BY <2>1, <3>1, UpdateOutcome, FlushedFields DEF Shape
    <2>3. client[s].overlay => /\ client' \in [Slots -> Client] /\ shown' \in [Slots -> BOOLEAN]
                               /\ UNCHANGED activeVars
      <3> DEFINE d == [client[s] EXCEPT !.active = TRUE]
      <3>1. client[s] \in Client
        BY DEF Shape
      <3>2. d \in Client
        BY <3>1 DEF Client
      <3>3. [d EXCEPT !.visible = TRUE] \in Client
        <4> HIDE DEF d
        <4> QED BY <3>2 DEF Client
      <3> DEFINE e == [d EXCEPT !.visible = TRUE]
      <3>4. client[s].overlay => client' = [client EXCEPT ![s] = e]
        BY <2>0, <3>1 DEF Shape
      <3> HIDE DEF e
      <3> QED BY <2>0, <3>3, <3>4 DEF Shape, e
    <2> HIDE DEF c
    <2>4. /\ client' \in [Slots -> Client] /\ shown' \in [Slots -> BOOLEAN]
          /\ activeIndex' \in Slots \cup {NoClient} /\ lastActive' \in Slots \cup {NoClient}
      <3>1. CASE client[s].overlay
        BY <2>3, <3>1 DEF activeVars, Shape
      <3>2. CASE ~client[s].overlay
        BY <2>0, <2>2, <3>2 DEF c
      <3> QED BY <3>1, <3>2
    <2> QED BY <2>0, <2>4 DEF Shape, connVars, exitVars, spaceVars
  <1>16. ASSUME NEW s \in Slots, DestroySession(s) PROVE Shape'
    BY <1>16 DEF DestroySession, Shape, Pcs
  <1>17. ASSUME NEW s \in Slots, SetPrimaryClient(s) PROVE Shape'
    BY <1>17 DEF SetPrimaryClient, Shape, Pcs
  <1>18. ASSUME NEW s \in Slots, MarkRefSpace(s) PROVE Shape'
    <2>1. /\ pc' \in [Slots -> Pcs]
          /\ UNCHANGED <<client, session, sessionsMade, createArg, shown, activeVars, connVars,
                         exitVars, deviceTold>>
      BY <1>18 DEF MarkRefSpace, GoTo, Shape, Pcs
    <2>2. spaceUsed' \in [Slots -> BOOLEAN]
      BY <1>18 DEF MarkRefSpace, Mark, Shape
    <2>3. spaceUses' \in Int
      BY <1>18 DEF MarkRefSpace, Shape
    <2> QED BY <2>1, <2>2, <2>3 DEF Shape
  <1>19. ASSUME NEW s \in Slots, UnmarkRefSpace(s) PROVE Shape'
    <2>1. /\ pc' \in [Slots -> Pcs]
          /\ UNCHANGED <<client, session, sessionsMade, createArg, shown, activeVars, connVars,
                         exitVars, deviceTold>>
      BY <1>19 DEF UnmarkRefSpace, CountDown, GoTo, Shape, Pcs
    <2>2. spaceUsed' \in [Slots -> BOOLEAN]
      BY <1>19 DEF UnmarkRefSpace, CountDown, Mark, Shape
    <2>3. spaceUses' \in Int
      BY <1>19 DEF UnmarkRefSpace, CountDown, Shape
    <2> QED BY <2>1, <2>2, <2>3 DEF Shape
  <1>20. ASSUME NEW s \in Slots, LeaveLoop(s) PROVE Shape'
    BY <1>20 DEF LeaveLoop, Shape, Pcs
  <1>21. ASSUME NEW d \in delays, DelayOver(d) PROVE Shape'
    BY <1>21 DEF DelayOver, Shape, Pcs
  <1>22. ASSUME NEW d \in exiting, DelayedExit(d) PROVE Shape'
    BY <1>22 DEF DelayedExit, Shape, Pcs
  <1>23. ASSUME UNCHANGED <<running, mainPc, thread, pc, used, client, session,
      sessionsMade, createArg, shown, activeIndex, lastActive, connectedCount,
      idGenerator, refused, lastDisconnect, disconnects, delays, exiting,
      spaceUsed, spaceUses, deviceTold>> PROVE Shape'
    BY <1>23 DEF Shape, Pcs
  <1>24. QED
    BY <1>1, <1>2, <1>3, <1>4, <1>5, <1>6, <1>7, <1>8, <1>9, <1>10, <1>11,
      <1>12, <1>13, <1>14, <1>15, <1>16, <1>17, <1>18, <1>19, <1>20, <1>21,
      <1>22, <1>23 DEF Next, Calls, ClientContinues, Exit, CountDown, vars

\* A thread that serves has its slot, as does one that enters the shutdown.
LEMMA ServedIsUsed ==
  ASSUME Shape, Threads, NEW s \in Slots, pc[s] \notin ShuttingDown \cup {"none", "dead"}
  PROVE  used[s]
  BY DEF Shape, Threads

\* A thread gives up its slot when it enters the clean up, and no thread is
\* started on a slot before that.
LEMMA ThreadsStep == CountInv /\ [Next]_vars => Threads'
  <1> SUFFICES ASSUME CountInv, [Next]_vars PROVE Threads'
    OBVIOUS
  <1> USE DEF CountInv, Shape, clientVars, connVars
  <1>1. ASSUME Connect PROVE Threads'
    <2>1. CASE FreeSlots # {} /\ thread[Min(FreeSlots)] = "ready"
      <3>1. StartThread(Min(FreeSlots)) /\ Min(FreeSlots) \in Slots
        BY <1>1, <2>1, FirstFree DEF Connect
      <3> QED BY <3>1 DEF StartThread, Shape, Threads, ShuttingDown
    <2>2. CASE ~(FreeSlots # {} /\ thread[Min(FreeSlots)] = "ready")
      BY <1>1, <2>2 DEF Connect, Threads, clientVars
    <2> QED BY <2>1, <2>2
  <1>2. ASSUME Joined PROVE Threads'
    <2>1. StartThread(Min(FreeSlots)) /\ Min(FreeSlots) \in Slots
      BY <1>2, StartedSlot DEF Joined
    <2> QED BY <2>1 DEF StartThread, Shape, Threads, ShuttingDown
  <1>3. ASSUME NEW s \in Slots, StartServing(s) PROVE Threads'
    BY <1>3 DEF StartServing, Threads, ShuttingDown, activeVars, exitVars,
      spaceVars, connVars
  <1>4. ASSUME NEW s \in Slots, CreateSetState(s) PROVE Threads'
    BY <1>4 DEF CreateSetState, Threads, ShuttingDown, activeVars, exitVars,
      spaceVars, connVars
  <1>5. ASSUME NEW s \in Slots, DestroyCompositor(s) PROVE Threads'
    BY <1>5 DEF DestroyCompositor, Threads, ShuttingDown, activeVars, exitVars,
      spaceVars, connVars
  <1>6. ASSUME NEW s \in Slots, TellUsed(s) PROVE Threads'
    BY <1>6 DEF TellUsed, Threads, ShuttingDown, activeVars, exitVars,
      spaceVars, connVars, GoTo, Mark
  <1>7. ASSUME NEW s \in Slots, TellUnused(s) PROVE Threads'
    BY <1>7 DEF TellUnused, Threads, ShuttingDown, activeVars, exitVars,
      spaceVars, connVars, GoTo, Mark
  <1>8. ASSUME NEW s \in Slots, Shutdown(s) PROVE Threads'
    BY <1>8 DEF Shutdown, Threads, ShuttingDown, activeVars, exitVars,
      spaceVars, connVars
  <1>9. ASSUME NEW s \in Slots, Cleanup(s) PROVE Threads'
    BY <1>9 DEF Cleanup, Threads, ShuttingDown, activeVars, exitVars, spaceVars,
      connVars
  <1>10. ASSUME NEW s \in Slots, GiveBack(s) PROVE Threads'
    BY <1>10 DEF GiveBack, Threads, ShuttingDown, activeVars, exitVars,
      spaceVars, connVars, CountDown, GoTo, Mark
  <1>11. ASSUME NEW s \in Slots, GaveBack(s) PROVE Threads'
    BY <1>11 DEF GaveBack, Threads, ShuttingDown, activeVars, exitVars,
      spaceVars, connVars, GoTo
  <1>12. ASSUME NEW s \in Slots, ExitCheck(s) PROVE Threads'
    BY <1>12 DEF ExitCheck, Threads, ShuttingDown, activeVars, exitVars,
      spaceVars, connVars
  <1>13. ASSUME NEW s \in Slots, Deactivate(s) PROVE Threads'
    BY <1>13 DEF Deactivate, Threads, ShuttingDown, activeVars, exitVars,
      spaceVars, connVars
  <1>14. ASSUME NEW s \in Slots, CreateSession(s) PROVE Threads'
    BY <1>14 DEF CreateSession, Threads, ShuttingDown, activeVars, exitVars,
      spaceVars, connVars, Serving
  <1>15. ASSUME NEW s \in Slots, DestroySession(s) PROVE Threads'
    BY <1>15 DEF DestroySession, Threads, ShuttingDown, activeVars, exitVars,
      spaceVars, connVars, Serving
  <1>16. ASSUME NEW s \in Slots, MarkRefSpace(s) PROVE Threads'
    BY <1>16 DEF MarkRefSpace, Threads, ShuttingDown, activeVars, exitVars,
      spaceVars, connVars, Serving, GoTo, Mark
  <1>17. ASSUME NEW s \in Slots, UnmarkRefSpace(s) PROVE Threads'
    BY <1>17 DEF UnmarkRefSpace, Threads, ShuttingDown, activeVars, exitVars,
      spaceVars, connVars, Serving, CountDown, GoTo, Mark
  <1>18. ASSUME NEW s \in Slots, LeaveLoop(s) PROVE Threads'
    BY <1>18 DEF LeaveLoop, Threads, ShuttingDown, activeVars, exitVars,
      spaceVars, connVars
  <1>19. ASSUME UNCHANGED <<thread, pc, used>> PROVE Threads'
    BY <1>19 DEF Threads, ShuttingDown, activeVars, exitVars, spaceVars, connVars
  <1>20. QED
    BY <1>1, <1>2, <1>3, <1>4, <1>5, <1>6, <1>7, <1>8, <1>9, <1>10, <1>11,
      <1>12, <1>13, <1>14, <1>15, <1>16, <1>17, <1>18, <1>19 DEF Next, Calls,
      ClientContinues, Exit, CountDown, vars, activeVars, exitVars, spaceVars,
      Activate, SetPrimaryClient, DelayOver, DelayedExit

\* While main joins nobody gives up a slot or takes one.
LEMMA JoiningStep == CountInv /\ [Next]_vars => Joining'
  <1> SUFFICES ASSUME CountInv, [Next]_vars PROVE Joining'
    OBVIOUS
  <1> USE DEF CountInv, Shape, connVars
  <1>1. ASSUME Connect PROVE Joining'
    <2>1. mainPc = "poll"
      BY <1>1 DEF Connect, Accepts, LockFree
    <2>2. CASE mainPc' = "join"
      <3>1. FreeSlots # {} /\ thread[Min(FreeSlots)] = "stopping" /\ UNCHANGED <<thread, used>>
        BY <1>1, <2>1, <2>2 DEF Connect, StartThread
      <3> QED BY <3>1 DEF Joining, FreeSlots
    <2> QED BY <2>2 DEF Joining
  <1>2. ASSUME Joined PROVE Joining'
    <2>1. mainPc' = "poll"
      BY <1>2 DEF Joined
    <2> QED BY <2>1 DEF Joining
  <1>3. ASSUME NEW s \in Slots, Shutdown(s) PROVE Joining'
    <2>1. mainPc' = "poll"
      BY <1>3 DEF Shutdown, LockFree
    <2> QED BY <2>1 DEF Joining
  <1>4. ASSUME UNCHANGED <<mainPc, thread, used>> PROVE Joining'
    BY <1>4 DEF Joining, FreeSlots
  <1>5. QED
    BY <1>1, <1>2, <1>3, <1>4 DEF Next, Calls, ClientContinues, Exit, CountDown,
      vars, clientVars, activeVars, exitVars, spaceVars, StartServing,
      CreateSetState, DestroyCompositor, TellUsed, TellUnused, Cleanup,
      GiveBack, GaveBack, ExitCheck, Deactivate, CreateSession, Activate,
      DestroySession, SetPrimaryClient, MarkRefSpace, UnmarkRefSpace, LeaveLoop,
      DelayOver, DelayedExit

\* The client state of a slot is reset when it is given up; the flush passes
\* over it.
LEMMA EmptiedStep == CountInv /\ [Next]_vars => Emptied'
  <1> SUFFICES ASSUME CountInv, [Next]_vars PROVE Emptied'
    OBVIOUS
  <1> USE DEF CountInv, clientVars, connVars
  <1>1. ASSUME Connect PROVE Emptied'
    <2>1. CASE FreeSlots # {} /\ thread[Min(FreeSlots)] = "ready"
      <3>1. StartThread(Min(FreeSlots)) /\ Min(FreeSlots) \in Slots
        BY <1>1, <2>1, FirstFree DEF Connect
      <3> QED BY <3>1 DEF StartThread, Shape, Emptied, NewClient
    <2>2. CASE ~(FreeSlots # {} /\ thread[Min(FreeSlots)] = "ready")
      BY <1>1, <2>2 DEF Connect, Emptied, clientVars
    <2> QED BY <2>1, <2>2
  <1>2. ASSUME Joined PROVE Emptied'
    <2>1. StartThread(Min(FreeSlots)) /\ Min(FreeSlots) \in Slots
      BY <1>2, StartedSlot DEF Joined
    <2> QED BY <2>1 DEF StartThread, Shape, Emptied, NewClient
  <1>3. ASSUME NEW s \in Slots, Shutdown(s) PROVE Emptied'
    BY <1>3 DEF Shutdown, Emptied, Shape, NewClient
  <1>4. ASSUME NEW s \in Slots, Deactivate(s) PROVE Emptied'
    <2>1. UNCHANGED used
      BY <1>4 DEF Deactivate, connVars
    <2>2. ASSUME NEW t \in Slots, ~used[t]
          PROVE  ~client'[t].active /\ ~client'[t].overlay /\ ~client'[t].visible
      <3> DEFINE c == [client EXCEPT ![s].active = FALSE]
      <3>1. c \in [Slots -> Client] /\ activeIndex \in Slots \cup {NoClient}
        BY DEF Shape, Client
      <3>2. ~client[t].active /\ ~client[t].overlay /\ ~client[t].visible
        BY <2>2 DEF Emptied
      <3>3. ~c[t].active /\ ~c[t].overlay /\ ~c[t].visible
        BY <3>2 DEF Shape, Client
      <3>4. UpdateServerState(c, activeIndex)
        BY <1>4 DEF Deactivate
      <3> HIDE DEF c
      <3>5. client'[t] = c[t]
        BY <3>1, <3>4, <2>2, UpdateOutcome, FlushedFields
      <3> QED BY <3>3, <3>5
    <2> QED BY <2>1, <2>2 DEF Emptied
  <1>5. ASSUME NEW s \in Slots, CreateSession(s) PROVE Emptied'
    <2>1. used[s] /\ \A t \in Slots \ {s} : client'[t] = client[t]
      BY <1>5, ServedIsUsed DEF CreateSession, Serving, ShuttingDown, Shape
    <2>2. UNCHANGED used
      BY <1>5 DEF CreateSession, connVars
    <2> QED BY <2>1, <2>2 DEF Emptied
  <1>6. ASSUME NEW s \in Slots, Activate(s) PROVE Emptied'
    <2>1. used[s] /\ UNCHANGED used
      BY <1>6, ServedIsUsed DEF Activate, Serving, ShuttingDown, connVars
    <2>2. ASSUME NEW t \in Slots, ~used[t] PROVE client'[t] = client[t]
      <3>1. CASE client[s].overlay
        BY <1>6, <2>1, <2>2, <3>1 DEF Activate, Shape
      <3>2. CASE ~client[s].overlay
        <4> DEFINE c == [client EXCEPT ![s].active = TRUE]
        <4>1. c \in [Slots -> Client] /\ c[t] = client[t]
          BY <2>1, <2>2 DEF Shape, Client
        <4>2. UpdateServerState(c, s)
          BY <1>6, <3>2 DEF Activate
        <4> HIDE DEF c
        <4> QED BY <4>1, <4>2, <2>2, UpdateOutcome, FlushedFields
      <3> QED BY <3>1, <3>2
    <2> QED BY <2>1, <2>2 DEF Emptied
  <1>7. ASSUME UNCHANGED <<used, client>> PROVE Emptied'
    BY <1>7 DEF Emptied, Shape
  <1>8. QED
    BY <1>1, <1>2, <1>3, <1>4, <1>5, <1>6, <1>7 DEF Next, Calls,
      ClientContinues, Exit, CountDown, vars, activeVars, exitVars, spaceVars,
      StartServing, CreateSetState, DestroyCompositor, TellUsed, TellUnused,
      Cleanup, GiveBack, GaveBack, ExitCheck, DestroySession, SetPrimaryClient,
      MarkRefSpace, UnmarkRefSpace, LeaveLoop, DelayOver, DelayedExit

\* What a thread started on the first free slot does to the counts.
LEMMA StartCounts ==
  ASSUME Shape, FreeSlots # {}, StartThread(Min(FreeSlots))
  PROVE  /\ Cardinality(Taken') = Cardinality(Taken) + 1 /\ Cardinality(Taken) \in Nat
         /\ idGenerator' = idGenerator + 1
  <1> DEFINE m == Min(FreeSlots)
  <1>1. m \in Slots /\ ~used[m]
    BY FirstFree
  <1>2. used' = [used EXCEPT ![m] = TRUE] /\ idGenerator' = idGenerator + 1
    BY DEF StartThread
  <1> HIDE DEF m
  <1>3. Taken \ {m} = Taken' \ {m} /\ m \notin Taken /\ m \in Taken'
    BY <1>1, <1>2 DEF Taken, Shape
  <1> QED BY <1>2, <1>3, SetsAreFinite, SetChange DEF One

\* The count of clients follows the slots; a connection that waits for a join
\* is counted before its slot is taken, and one that is refused for ever.
LEMMA CountedStep == CountInv /\ [Next]_vars => Counted'
  <1> SUFFICES ASSUME CountInv, [Next]_vars PROVE Counted'
    OBVIOUS
  <1> USE DEF CountInv, connVars
  <1>1. ASSUME Connect PROVE Counted'
    <2>1. /\ mainPc = "poll" /\ idGenerator + refused < MaxConnect
          /\ connectedCount' = connectedCount + 1
      BY <1>1 DEF Connect, Accepts, LockFree
    <2>2. /\ connectedCount = Cardinality(Taken) + refused /\ Cardinality(Taken) \in Nat
          /\ connectedCount \in Int /\ refused \in Nat /\ idGenerator \in Nat /\ MaxConnect \in Nat
      BY <2>1, SetsAreFinite, FS_CardinalityType, MaxConnectAssumption DEF Counted, One, Shape
    <2>3. CASE FreeSlots = {}
      <3>1. /\ refused' = refused + 1 /\ mainPc' = "poll" /\ idGenerator' = idGenerator
            /\ Taken' = Taken
        BY <1>1, <2>1, <2>3 DEF Connect, Taken
      <3> QED BY <2>1, <2>2, <3>1 DEF Counted, One
    <2>4. CASE FreeSlots # {} /\ thread[Min(FreeSlots)] = "ready"
      <3>1. StartThread(Min(FreeSlots)) /\ refused' = refused /\ mainPc' = "poll"
        BY <1>1, <2>1, <2>4 DEF Connect
      <3>2. Cardinality(Taken') = Cardinality(Taken) + 1 /\ idGenerator' = idGenerator + 1
        BY <2>4, <3>1, StartCounts
      <3> QED BY <2>1, <2>2, <3>1, <3>2 DEF Counted, One
    <2>5. CASE FreeSlots # {} /\ thread[Min(FreeSlots)] # "ready"
      <3>1. /\ mainPc' = "join" /\ idGenerator' = idGenerator /\ refused' = refused
            /\ Taken' = Taken
        BY <1>1, <2>1, <2>5 DEF Connect, Taken
      <3> QED BY <2>1, <2>2, <3>1 DEF Counted, One
    <2> QED BY <2>3, <2>4, <2>5
  <1>2. ASSUME Joined PROVE Counted'
    <2>1. /\ mainPc = "join" /\ mainPc' = "poll" /\ FreeSlots # {}
          /\ StartThread(Min(FreeSlots)) /\ UNCHANGED <<connectedCount, refused>>
      BY <1>2 DEF Joined, Joining
    <2>2. /\ connectedCount = Cardinality(Taken) + refused + 1 /\ Cardinality(Taken) \in Nat
          /\ idGenerator + refused + 1 <= MaxConnect
          /\ refused \in Nat /\ idGenerator \in Nat /\ MaxConnect \in Nat
      BY <2>1, SetsAreFinite, FS_CardinalityType, MaxConnectAssumption DEF Counted, One, Shape
    <2>3. Cardinality(Taken') = Cardinality(Taken) + 1 /\ idGenerator' = idGenerator + 1
      BY <2>1, StartCounts
    <2> QED BY <2>1, <2>2, <2>3 DEF Counted, One
  <1>3. ASSUME NEW s \in Slots, Shutdown(s) PROVE Counted'
    <2>1. /\ mainPc = "poll" /\ used' = [used EXCEPT ![s] = FALSE]
          /\ connectedCount' = connectedCount - 1
          /\ UNCHANGED <<mainPc, refused, idGenerator>>
      BY <1>3 DEF Shutdown, LockFree
    <2>2. used[s]
      BY <1>3, ServedIsUsed DEF Shutdown, ShuttingDown
    <2>3. Taken \ {s} = Taken' \ {s} /\ s \in Taken /\ s \notin Taken'
      BY <2>1, <2>2 DEF Taken, Shape
    <2>4. /\ Cardinality(Taken') = Cardinality(Taken) - 1
          /\ Cardinality(Taken) \in Nat /\ Cardinality(Taken') \in Nat
      BY <2>3, SetsAreFinite, SetChange DEF One
    <2>5. connectedCount \in Int /\ refused \in Nat
      BY DEF Shape
    <2> QED BY <2>1, <2>4, <2>5 DEF Counted, One
  <1>4. ASSUME UNCHANGED <<connectedCount, mainPc, used, refused, idGenerator>>
      PROVE Counted'
    BY <1>4 DEF Counted, Taken, One
  <1>5. ASSUME NEW s \in Slots, Calls(s)
        PROVE  UNCHANGED <<connectedCount, mainPc, used, refused, idGenerator>>
    BY <1>5 DEF Calls, CreateSession, Activate, DestroySession, SetPrimaryClient, MarkRefSpace,
      UnmarkRefSpace, LeaveLoop, CountDown
  <1>6. ASSUME NEW s \in Slots, ClientContinues(s), ~Shutdown(s)
        PROVE  UNCHANGED <<connectedCount, mainPc, used, refused, idGenerator>>
    BY <1>6 DEF ClientContinues, StartServing, CreateSetState, DestroyCompositor, TellUsed,
      TellUnused, Cleanup, GiveBack, GaveBack, ExitCheck, Deactivate, CountDown
  <1>7. Exit => UNCHANGED <<connectedCount, mainPc, used, refused, idGenerator>>
    BY DEF Exit, DelayOver, DelayedExit
  <1>8. UNCHANGED vars => UNCHANGED <<connectedCount, mainPc, used, refused, idGenerator>>
    BY DEF vars
  <1> QED
    <2> HIDE DEF CountInv
    <2> QED BY <1>1, <1>2, <1>3, <1>4, <1>5, <1>6, <1>7, <1>8 DEF Next

(***************************************************************************)
(* The uses of the reference space.                                        *)
(***************************************************************************)
\* A client marks and unmarks when it is told so, and the clean up leaves
\* nothing marked.
LEMMA SpaceMarksStep == CountInv /\ [Next]_vars => SpaceMarks'
  <1> SUFFICES ASSUME CountInv, [Next]_vars PROVE SpaceMarks'
    OBVIOUS
  <1> USE DEF CountInv, Shape, clientVars, spaceVars
  <1>1. ASSUME Connect PROVE SpaceMarks'
    <2>1. CASE FreeSlots # {} /\ thread[Min(FreeSlots)] = "ready"
      <3>1. StartThread(Min(FreeSlots)) /\ Min(FreeSlots) \in Slots
        BY <1>1, <2>1, FirstFree DEF Connect
      <3> QED BY <3>1 DEF StartThread, SpaceMarks
    <2>2. CASE ~(FreeSlots # {} /\ thread[Min(FreeSlots)] = "ready")
      BY <1>1, <2>2 DEF Connect, SpaceMarks, clientVars
    <2> QED BY <2>1, <2>2
  <1>2. ASSUME Joined PROVE SpaceMarks'
    <2>1. StartThread(Min(FreeSlots)) /\ Min(FreeSlots) \in Slots
      BY <1>2, StartedSlot DEF Joined
    <2> QED BY <2>1 DEF StartThread, SpaceMarks
  <1>3. ASSUME NEW s \in Slots, StartServing(s) PROVE SpaceMarks'
    BY <1>3 DEF StartServing, SpaceMarks
  <1>4. ASSUME NEW s \in Slots, CreateSetState(s) PROVE SpaceMarks'
    BY <1>4 DEF CreateSetState, SpaceMarks
  <1>5. ASSUME NEW s \in Slots, DestroyCompositor(s) PROVE SpaceMarks'
    BY <1>5 DEF DestroyCompositor, SpaceMarks
  <1>6. ASSUME NEW s \in Slots, TellUsed(s) PROVE SpaceMarks'
    BY <1>6 DEF TellUsed, SpaceMarks, GoTo, Mark
  <1>7. ASSUME NEW s \in Slots, TellUnused(s) PROVE SpaceMarks'
    BY <1>7 DEF TellUnused, SpaceMarks, GoTo, Mark
  <1>8. ASSUME NEW s \in Slots, Shutdown(s) PROVE SpaceMarks'
    BY <1>8 DEF Shutdown, SpaceMarks
  <1>9. ASSUME NEW s \in Slots, Cleanup(s) PROVE SpaceMarks'
    BY <1>9 DEF Cleanup, SpaceMarks
  <1>10. ASSUME NEW s \in Slots, GiveBack(s) PROVE SpaceMarks'
    BY <1>10 DEF GiveBack, SpaceMarks, CountDown, GoTo, Mark
  <1>11. ASSUME NEW s \in Slots, GaveBack(s) PROVE SpaceMarks'
    BY <1>11 DEF GaveBack, SpaceMarks, GoTo
  <1>12. ASSUME NEW s \in Slots, ExitCheck(s) PROVE SpaceMarks'
    BY <1>12 DEF ExitCheck, SpaceMarks
  <1>13. ASSUME NEW s \in Slots, Deactivate(s) PROVE SpaceMarks'
    BY <1>13 DEF Deactivate, SpaceMarks
  <1>14. ASSUME NEW s \in Slots, CreateSession(s) PROVE SpaceMarks'
    BY <1>14 DEF CreateSession, SpaceMarks, Serving
  <1>15. ASSUME NEW s \in Slots, DestroySession(s) PROVE SpaceMarks'
    BY <1>15 DEF DestroySession, SpaceMarks, Serving
  <1>16. ASSUME NEW s \in Slots, MarkRefSpace(s) PROVE SpaceMarks'
    BY <1>16 DEF MarkRefSpace, SpaceMarks, Serving, GoTo, Mark
  <1>17. ASSUME NEW s \in Slots, UnmarkRefSpace(s) PROVE SpaceMarks'
    BY <1>17 DEF UnmarkRefSpace, SpaceMarks, Serving, CountDown, GoTo, Mark
  <1>18. ASSUME NEW s \in Slots, LeaveLoop(s) PROVE SpaceMarks'
    BY <1>18 DEF LeaveLoop, SpaceMarks, activeVars
  <1>19. ASSUME UNCHANGED <<pc, spaceUsed>> PROVE SpaceMarks'
    BY <1>19 DEF SpaceMarks
  <1>20. QED
    BY <1>1, <1>2, <1>3, <1>4, <1>5, <1>6, <1>7, <1>8, <1>9, <1>10, <1>11,
      <1>12, <1>13, <1>14, <1>15, <1>16, <1>17, <1>18, <1>19 DEF Next, Calls,
      ClientContinues, Exit, CountDown, vars, activeVars, connVars, exitVars,
      Activate, SetPrimaryClient, DelayOver, DelayedExit

\* A step that leaves the users of the space, their count and what the device
\* was told alone, and lets those that tell it go on.
TellsEnd(s) == pc[s] \in {"tell_unused", "give_back_tell"}
Quiet ==
  /\ SpaceUsers' = SpaceUsers /\ UNCHANGED <<spaceUses, deviceTold>>
  /\ \A s \in Slots : TellsEnd(s) => TellsEnd(s)'

\* Such a step keeps the count exact.
LEMMA QuietCounts == SpaceCounted /\ Quiet => SpaceCounted'
  BY DEF SpaceCounted, Quiet, TellsEnd

\* A thread that moves on without a use to tell is quiet.
LEMMA MoveIsQuiet ==
  ASSUME Shape, NEW s \in Slots, ~Telling(s), NEW to, pc' = [pc EXCEPT ![s] = to],
         to \notin {"tell_used", "tell_unused", "give_back_tell"}, UNCHANGED spaceVars
  PROVE  Quiet
  <1>1. \A t \in Slots : pc'[t] = IF t = s THEN to ELSE pc[t]
    BY DEF Shape
  <1>2. ASSUME NEW t \in Slots
        PROVE (pc'[t] = "tell_used" \/ (spaceUsed'[t] /\ ~Telling(t)'))
                <=> (pc[t] = "tell_used" \/ (spaceUsed[t] /\ ~Telling(t)))
    BY <1>1 DEF Telling, spaceVars
  <1>3. SpaceUsers' = SpaceUsers
    BY <1>2 DEF SpaceUsers
  <1> QED BY <1>1, <1>3 DEF Quiet, TellsEnd, Telling, spaceVars

\* A new thread has no use: the one before it left none.
LEMMA StartIsQuiet ==
  ASSUME CountInv, NEW m \in Slots, StartThread(m), pc[m] \in {"none", "dead"},
         UNCHANGED <<spaceUses, deviceTold>>
  PROVE  Quiet
  <1>1. /\ \A t \in Slots : pc'[t] = IF t = m THEN "start" ELSE pc[t]
        /\ \A t \in Slots : spaceUsed'[t] = IF t = m THEN FALSE ELSE spaceUsed[t]
    BY DEF CountInv, Shape, StartThread
  <1>2. ~spaceUsed[m] /\ ~Telling(m)
    BY DEF CountInv, SpaceMarks, Telling
  <1>3. ASSUME NEW t \in Slots
        PROVE (pc'[t] = "tell_used" \/ (spaceUsed'[t] /\ ~Telling(t)'))
                <=> (pc[t] = "tell_used" \/ (spaceUsed[t] /\ ~Telling(t)))
    BY <1>1, <1>2 DEF Telling
  <1>4. SpaceUsers' = SpaceUsers
    BY <1>3 DEF SpaceUsers
  <1> QED BY <1>1, <1>2, <1>4 DEF Quiet, TellsEnd, Telling

\* A client is counted from the moment it counts up, and no more when it has
\* counted down.
LEMMA CountsUp ==
  ASSUME CountInv, NEW s \in Slots, MarkRefSpace(s)
  PROVE  Cardinality(SpaceUsers') = Cardinality(SpaceUsers) + 1 /\ Cardinality(SpaceUsers) \in Nat
  <1>1. /\ pc[s] = "serve" /\ ~spaceUsed[s]
        /\ \/ pc' = [pc EXCEPT ![s] = "tell_used"] /\ UNCHANGED spaceUsed
           \/ spaceUsed' = [spaceUsed EXCEPT ![s] = TRUE] /\ UNCHANGED pc
    BY DEF MarkRefSpace, Serving, GoTo, Mark
  <1>2. \A t \in Slots \ {s} : pc'[t] = pc[t] /\ spaceUsed'[t] = spaceUsed[t]
    BY <1>1 DEF CountInv, Shape
  <1>3. s \notin SpaceUsers
    BY <1>1 DEF SpaceUsers
  <1>4. pc'[s] = "tell_used" \/ (spaceUsed'[s] /\ pc'[s] = "serve")
    BY <1>1 DEF CountInv, Shape
  <1>5. s \in SpaceUsers'
    BY <1>4 DEF SpaceUsers, Telling
  <1>6. SpaceUsers \ {s} = SpaceUsers' \ {s}
    BY <1>2 DEF SpaceUsers, Telling
  <1> QED BY <1>3, <1>5, <1>6, SetsAreFinite, SetChange DEF One

\* The client that counts down to zero tells the device; the others are done.
LEMMA CountsDown ==
  ASSUME CountInv, NEW s \in Slots, NEW tell \in {"tell_unused", "give_back_tell"},
         CountDown(s, tell), pc[s] \in {"serve", "give_back"}
  PROVE  /\ Cardinality(SpaceUsers') = Cardinality(SpaceUsers) - 1
         /\ Cardinality(SpaceUsers) \in Nat
         /\ spaceUses' = 0 => TellsEnd(s)'
  <1>1. /\ spaceUsed[s] /\ spaceUses' = spaceUses - 1
        /\ \/ spaceUses = 1 /\ pc' = [pc EXCEPT ![s] = tell] /\ UNCHANGED spaceUsed
           \/ spaceUses # 1 /\ spaceUsed' = [spaceUsed EXCEPT ![s] = FALSE] /\ UNCHANGED pc
    BY DEF CountDown, GoTo, Mark
  <1>2. \A t \in Slots \ {s} : pc'[t] = pc[t] /\ spaceUsed'[t] = spaceUsed[t]
    BY <1>1 DEF CountInv, Shape
  <1>3. s \in SpaceUsers
    BY <1>1 DEF SpaceUsers, Telling
  <1>4. pc'[s] = tell \/ (~spaceUsed'[s] /\ pc'[s] # "tell_used")
    BY <1>1 DEF CountInv, Shape
  <1>5. s \notin SpaceUsers'
    BY <1>4 DEF SpaceUsers, Telling
  <1>6. SpaceUsers \ {s} = SpaceUsers' \ {s}
    BY <1>2 DEF SpaceUsers, Telling
  <1>7. spaceUses' = 0 => TellsEnd(s)'
    BY <1>1 DEF CountInv, Shape, TellsEnd
  <1> QED BY <1>3, <1>5, <1>6, <1>7, SetsAreFinite, SetChange DEF One

\* The use count is exact, and the device hears of the last end.
LEMMA SpaceCountedStep == CountInv /\ [Next]_vars => SpaceCounted'
  <1> SUFFICES ASSUME CountInv, [Next]_vars PROVE SpaceCounted'
    OBVIOUS
  <1> USE DEF CountInv, Shape, clientVars, spaceVars
  <1>1. ASSUME Connect PROVE SpaceCounted'
    <2>1. CASE FreeSlots # {} /\ thread[Min(FreeSlots)] = "ready"
      <3>1. StartThread(Min(FreeSlots)) /\ UNCHANGED <<spaceUses, deviceTold>>
        BY <1>1, <2>1 DEF Connect
      <3>2. Min(FreeSlots) \in Slots /\ pc[Min(FreeSlots)] = "none"
        BY <1>1, <2>1, StartedSlot
      <3>3. Quiet
        BY <3>1, <3>2, StartIsQuiet
      <3> QED BY <3>3, QuietCounts
    <2>2. CASE ~(FreeSlots # {} /\ thread[Min(FreeSlots)] = "ready")
      <3>1. UNCHANGED <<pc, spaceUsed, spaceUses, deviceTold>>
        BY <1>1, <2>2 DEF Connect, clientVars
      <3> QED BY <3>1 DEF SpaceCounted, SpaceUsers, Telling
    <2> QED BY <2>1, <2>2
  <1>2. ASSUME Joined PROVE SpaceCounted'
    <2>1. StartThread(Min(FreeSlots)) /\ UNCHANGED <<spaceUses, deviceTold>>
      BY <1>2 DEF Joined
    <2>2. Min(FreeSlots) \in Slots /\ pc[Min(FreeSlots)] = "dead"
      BY <1>2, StartedSlot
    <2>3. Quiet
      BY <2>1, <2>2, StartIsQuiet
    <2> QED BY <2>3, QuietCounts
  <1>3. ASSUME NEW s \in Slots, StartServing(s) PROVE SpaceCounted'
    <2>1. PICK to \in {"serve", "dead"} : pc' = [pc EXCEPT ![s] = to]
      BY <1>3 DEF StartServing
    <2>2. ~Telling(s) /\ UNCHANGED spaceVars
      BY <1>3 DEF StartServing, Telling
    <2>3. to \notin {"tell_used", "tell_unused", "give_back_tell"}
      OBVIOUS
    <2> QED BY <2>1, <2>2, <2>3, MoveIsQuiet, QuietCounts
  <1>4. ASSUME NEW s \in Slots, CreateSetState(s) PROVE SpaceCounted'
    <2>1. /\ ~Telling(s) /\ pc' = [pc EXCEPT ![s] = "serve"] /\ UNCHANGED spaceVars
      BY <1>4 DEF CreateSetState, Telling
    <2> QED BY <2>1, MoveIsQuiet, QuietCounts
  <1>5. ASSUME NEW s \in Slots, DestroyCompositor(s) PROVE SpaceCounted'
    <2>1. /\ ~Telling(s) /\ pc' = [pc EXCEPT ![s] = "serve"] /\ UNCHANGED spaceVars
      BY <1>5 DEF DestroyCompositor, Telling
    <2> QED BY <2>1, MoveIsQuiet, QuietCounts
  <1>6. ASSUME NEW s \in Slots, TellUsed(s) PROVE SpaceCounted'
    <2>1. /\ pc[s] = "tell_used" /\ pc' = [pc EXCEPT ![s] = "serve"]
          /\ spaceUsed' = [spaceUsed EXCEPT ![s] = TRUE] /\ UNCHANGED spaceUses
      BY <1>6 DEF TellUsed, Mark, GoTo
    <2>2. ASSUME NEW t \in Slots PROVE t \in SpaceUsers' <=> t \in SpaceUsers
      <3>1. CASE t = s
        BY <2>1, <3>1 DEF SpaceUsers, Telling
      <3>2. CASE t # s
        <4>1. pc'[t] = pc[t] /\ spaceUsed'[t] = spaceUsed[t]
          BY <2>1, <3>2
        <4> QED BY <4>1 DEF SpaceUsers, Telling
      <3> QED BY <3>1, <3>2
    <2>3. SpaceUsers' = SpaceUsers
      <3>1. SpaceUsers \subseteq Slots /\ SpaceUsers' \subseteq Slots
        BY DEF SpaceUsers
      <3> QED BY <2>2, <3>1
    <2>4. s \in SpaceUsers
      BY <2>1 DEF SpaceUsers
    <2>5. spaceUses = Cardinality(SpaceUsers)
      BY DEF SpaceCounted
    <2>6. spaceUses # 0
      BY <2>4, <2>5, SetsAreFinite, FS_EmptySet
    <2> QED BY <2>1, <2>3, <2>5, <2>6 DEF SpaceCounted
  <1>7. ASSUME NEW s \in Slots, TellUnused(s) PROVE SpaceCounted'
    <2>1. /\ pc[s] \in {"tell_unused", "give_back_tell"} /\ ~deviceTold'
          /\ spaceUsed' = [spaceUsed EXCEPT ![s] = FALSE] /\ UNCHANGED spaceUses
      BY <1>7 DEF TellUnused, Mark
    <2>2. pc' = [pc EXCEPT ![s] = IF pc[s] = "tell_unused" THEN "serve" ELSE "give_back"]
      BY <1>7 DEF TellUnused, GoTo
    <2>3. ASSUME NEW t \in Slots PROVE t \in SpaceUsers' <=> t \in SpaceUsers
      <3>1. CASE t = s
        BY <2>1, <2>2, <3>1 DEF SpaceUsers, Telling
      <3>2. CASE t # s
        <4>1. pc'[t] = pc[t] /\ spaceUsed'[t] = spaceUsed[t]
          BY <2>1, <2>2, <3>2
        <4> QED BY <4>1 DEF SpaceUsers, Telling
      <3> QED BY <3>1, <3>2
    <2>4. SpaceUsers' = SpaceUsers
      <3>1. SpaceUsers \subseteq Slots /\ SpaceUsers' \subseteq Slots
        BY DEF SpaceUsers
      <3> QED BY <2>3, <3>1
    <2> QED BY <2>1, <2>4 DEF SpaceCounted
  <1>8. ASSUME NEW s \in Slots, Shutdown(s) PROVE SpaceCounted'
    <2>1. /\ ~Telling(s) /\ pc' = [pc EXCEPT ![s] = "cleanup"] /\ UNCHANGED spaceVars
      BY <1>8 DEF Shutdown, Telling
    <2> QED BY <2>1, MoveIsQuiet, QuietCounts
  <1>9. ASSUME NEW s \in Slots, Cleanup(s) PROVE SpaceCounted'
    <2>1. /\ ~Telling(s) /\ pc' = [pc EXCEPT ![s] = "give_back"] /\ UNCHANGED spaceVars
      BY <1>9 DEF Cleanup, Telling
    <2> QED BY <2>1, MoveIsQuiet, QuietCounts
  <1>10. ASSUME NEW s \in Slots, GiveBack(s) PROVE SpaceCounted'
    <2>1. CountDown(s, "give_back_tell") /\ pc[s] = "give_back"
      BY <1>10 DEF GiveBack, Serving
    <2>2. spaceUses' = spaceUses - 1 /\ spaceUses = Cardinality(SpaceUsers)
      BY <2>1 DEF CountDown, SpaceCounted
    <2>3. /\ Cardinality(SpaceUsers') = Cardinality(SpaceUsers) - 1
          /\ Cardinality(SpaceUsers) \in Nat
          /\ spaceUses' = 0 => TellsEnd(s)'
      BY <2>1, CountsDown
    <2>4. spaceUses' = Cardinality(SpaceUsers')
      BY <2>2, <2>3
    <2> QED BY <2>3, <2>4 DEF SpaceCounted, TellsEnd
  <1>11. ASSUME NEW s \in Slots, GaveBack(s) PROVE SpaceCounted'
    <2>1. /\ ~Telling(s) /\ pc' = [pc EXCEPT ![s] = "exit_check"] /\ UNCHANGED spaceVars
      BY <1>11 DEF GaveBack, GoTo, Telling
    <2> QED BY <2>1, MoveIsQuiet, QuietCounts
  <1>12. ASSUME NEW s \in Slots, ExitCheck(s) PROVE SpaceCounted'
    <2>1. /\ ~Telling(s) /\ pc' = [pc EXCEPT ![s] = "deactivate"] /\ UNCHANGED spaceVars
      BY <1>12 DEF ExitCheck, Telling
    <2> QED BY <2>1, MoveIsQuiet, QuietCounts
  <1>13. ASSUME NEW s \in Slots, Deactivate(s) PROVE SpaceCounted'
    <2>1. /\ ~Telling(s) /\ pc' = [pc EXCEPT ![s] = "dead"] /\ UNCHANGED spaceVars
      BY <1>13 DEF Deactivate, Telling
    <2> QED BY <2>1, MoveIsQuiet, QuietCounts
  <1>14. ASSUME NEW s \in Slots, CreateSession(s) PROVE SpaceCounted'
    <2>1. /\ ~Telling(s) /\ pc' = [pc EXCEPT ![s] = "create"] /\ UNCHANGED spaceVars
      BY <1>14 DEF CreateSession, Serving, Telling
    <2> QED BY <2>1, MoveIsQuiet, QuietCounts
  <1>15. ASSUME NEW s \in Slots, DestroySession(s) PROVE SpaceCounted'
    <2>1. /\ ~Telling(s) /\ pc' = [pc EXCEPT ![s] = "destroy"] /\ UNCHANGED spaceVars
      BY <1>15 DEF DestroySession, Serving, Telling
    <2> QED BY <2>1, MoveIsQuiet, QuietCounts
  <1>16. ASSUME NEW s \in Slots, MarkRefSpace(s) PROVE SpaceCounted'
    <2>1. spaceUses' = spaceUses + 1 /\ spaceUses = Cardinality(SpaceUsers)
      BY <1>16 DEF MarkRefSpace, SpaceCounted
    <2>2. Cardinality(SpaceUsers') = Cardinality(SpaceUsers) + 1 /\ Cardinality(SpaceUsers) \in Nat
      BY <1>16, CountsUp
    <2>3. spaceUses' = Cardinality(SpaceUsers') /\ spaceUses' # 0
      BY <2>1, <2>2
    <2> QED BY <2>3 DEF SpaceCounted
  <1>17. ASSUME NEW s \in Slots, UnmarkRefSpace(s) PROVE SpaceCounted'
    <2>1. CountDown(s, "tell_unused") /\ pc[s] = "serve"
      BY <1>17 DEF UnmarkRefSpace, Serving
    <2>2. spaceUses' = spaceUses - 1 /\ spaceUses = Cardinality(SpaceUsers)
      BY <2>1 DEF CountDown, SpaceCounted
    <2>3. /\ Cardinality(SpaceUsers') = Cardinality(SpaceUsers) - 1
          /\ Cardinality(SpaceUsers) \in Nat
          /\ spaceUses' = 0 => TellsEnd(s)'
      BY <2>1, CountsDown
    <2>4. spaceUses' = Cardinality(SpaceUsers')
      BY <2>2, <2>3
    <2> QED BY <2>3, <2>4 DEF SpaceCounted, TellsEnd
  <1>18. ASSUME NEW s \in Slots, LeaveLoop(s) PROVE SpaceCounted'
    <2>1. /\ ~Telling(s) /\ pc' = [pc EXCEPT ![s] = "shutdown"] /\ UNCHANGED spaceVars
      BY <1>18 DEF LeaveLoop, Telling
    <2> QED BY <2>1, MoveIsQuiet, QuietCounts
  <1>19. ASSUME UNCHANGED <<pc, spaceUsed, spaceUses, deviceTold>> PROVE
      SpaceCounted'
    BY <1>19 DEF SpaceCounted, SpaceUsers, Telling
  <1>20. QED
    BY <1>1, <1>2, <1>3, <1>4, <1>5, <1>6, <1>7, <1>8, <1>9, <1>10, <1>11,
      <1>12, <1>13, <1>14, <1>15, <1>16, <1>17, <1>18, <1>19 DEF Next, Calls,
      ClientContinues, Exit, CountDown, vars, activeVars, connVars, exitVars,
      Activate, SetPrimaryClient, DelayOver, DelayedExit

(***************************************************************************)
(* The theorems about the counts and the slots.                            *)
(***************************************************************************)
\* At first nobody is connected and nothing is used.
LEMMA InitCount == Init => CountInv
  <1> SUFFICES ASSUME Init PROVE CountInv
    OBVIOUS
  <1>1. Shape
    <2>1. NewClient(NoClient) \in Client /\ 0 \in 0..MaxSession
      BY MaxSessionAssumption DEF NewClient, NoClient, Client
    <2>2. client \in [Slots -> Client] /\ sessionsMade \in [Slots -> 0..MaxSession]
      BY <2>1 DEF Init
    <2>3. /\ pc \in [Slots -> Pcs] /\ thread \in [Slots -> {"ready", "starting", "stopping"}]
          /\ used \in [Slots -> BOOLEAN] /\ session \in [Slots -> BOOLEAN]
          /\ createArg \in [Slots -> BOOLEAN] /\ shown \in [Slots -> BOOLEAN]
          /\ spaceUsed \in [Slots -> BOOLEAN]
      BY DEF Init, Pcs
    <2>4. /\ running \in BOOLEAN /\ mainPc \in {"poll", "join"} /\ deviceTold \in BOOLEAN
          /\ activeIndex \in Slots \cup {NoClient} /\ lastActive \in Slots \cup {NoClient}
      BY DEF Init
    <2>5. /\ connectedCount \in Int /\ idGenerator \in Nat /\ refused \in Nat
          /\ lastDisconnect \in Nat /\ disconnects \in Nat /\ spaceUses \in Int
      BY DEF Init
    <2>6. delays \subseteq Nat /\ exiting \subseteq Nat
      BY DEF Init
    <2> QED BY <2>2, <2>3, <2>4, <2>5, <2>6 DEF Shape
  <1>2. Threads /\ Joining
    BY DEF Init, Threads, Joining, ShuttingDown
  <1>3. Emptied
    BY DEF Init, Emptied, NewClient
  <1>4. Counted
    <2>1. Taken = {} /\ Cardinality({}) = 0
      BY FS_EmptySet DEF Init, Taken
    <2>2. MaxConnect \in Nat
      BY MaxConnectAssumption
    <2> QED BY <2>1, <2>2 DEF Init, Counted, One
  <1>5. SpaceMarks
    BY DEF Init, SpaceMarks
  <1>6. SpaceCounted
    <2>1. SpaceUsers = {} /\ Cardinality({}) = 0
      BY FS_EmptySet DEF Init, SpaceUsers
    <2> QED BY <2>1 DEF Init, SpaceCounted
  <1> QED BY <1>1, <1>2, <1>3, <1>4, <1>5, <1>6 DEF CountInv

\* Every step keeps it.
LEMMA NextCount == CountInv /\ [Next]_vars => CountInv'
  BY ShapeStep, ThreadsStep, JoiningStep, EmptiedStep, CountedStep, SpaceMarksStep,
     SpaceCountedStep DEF CountInv

\* The inductive invariant: types, which thread has which slot, and what is
\* counted, whatever the clients do.
THEOREM CountInvariant == Spec => []CountInv
  BY InitCount, NextCount, PTL DEF Spec

\* Every variable keeps the type of the field or position it models; neither
\* count wraps below zero.
THEOREM TypeCorrect == Spec => []TypeOK
  <1>1. CountInv => TypeOK
    <2> SUFFICES ASSUME CountInv PROVE TypeOK
      OBVIOUS
    <2>1. /\ connectedCount = Cardinality(Taken) + refused + One(mainPc = "join")
          /\ idGenerator + refused + One(mainPc = "join") <= MaxConnect
          /\ spaceUses = Cardinality(SpaceUsers)
          /\ Cardinality(Taken) \in Nat /\ Cardinality(SpaceUsers) \in Nat
      BY SetsAreFinite, FS_CardinalityType DEF CountInv, Counted, SpaceCounted
    <2>2. One(mainPc = "join") \in Nat /\ refused \in Nat /\ idGenerator \in Nat
          /\ MaxConnect \in Nat
      BY MaxConnectAssumption DEF One, CountInv, Shape
    <2>3. /\ connectedCount \in Nat /\ spaceUses \in Nat
          /\ idGenerator \in 0..MaxConnect /\ refused \in 0..MaxConnect
      BY <2>1, <2>2
    <2> QED BY <2>3 DEF TypeOK, CountInv, Shape
  <1> QED BY <1>1, CountInvariant, PTL

\* connected_client_count is the slots taken and the connections refused, and
\* the use count the clients that use the space; when nobody uses it and all
\* was told, the device was told so.
THEOREM CountsExact == Spec => []CountsAreExact
  <1>1. CountInv => CountsAreExact
    <2> SUFFICES ASSUME CountInv PROVE CountsAreExact
      OBVIOUS
    <2>1. connectedCount =
            Cardinality({s \in Slots : used[s]}) + refused + (IF mainPc = "join" THEN 1 ELSE 0)
      BY DEF CountInv, Counted, Taken, One
    <2>2. spaceUses = Cardinality({s \in Slots : pc[s] = "tell_used" \/ (spaceUsed[s] /\ ~Telling(s))})
      BY DEF CountInv, SpaceCounted, SpaceUsers
    <2>3. spaceUses = 0 /\ (\A s \in Slots : ~Telling(s)) => ~deviceTold
      BY DEF CountInv, SpaceCounted, Telling
    <2> QED BY <2>1, <2>2, <2>3 DEF CountsAreExact
  <1> QED BY <1>1, CountInvariant, PTL

\* The client states that the two callers of update_server_state_locked give it.
Activated(s) == [client EXCEPT ![s].active = TRUE]
Deactivated(s) == [client EXCEPT ![s].active = FALSE]

LEMMA ActivatedFlags ==
  ASSUME Shape, NEW s \in Slots
  PROVE  /\ Activated(s) \in [Slots -> Client] /\ Activated(s)[s].active
         /\ \A t \in Slots : /\ Activated(s)[t].id = client[t].id
                             /\ Activated(s)[t].overlay = client[t].overlay
                             /\ Activated(s)[t].visible = client[t].visible
                             /\ t # s => Activated(s)[t] = client[t]
  <1> DEFINE d == [client[s] EXCEPT !.active = TRUE]
  <1>1. client[s] \in Client
    BY DEF Shape
  <1>2. /\ d \in Client /\ d.active /\ d.id = client[s].id
        /\ d.overlay = client[s].overlay /\ d.visible = client[s].visible
    BY <1>1 DEF Client
  <1>3. Activated(s) = [client EXCEPT ![s] = d]
    BY DEF Activated
  <1> HIDE DEF d
  <1> QED BY <1>2, <1>3 DEF Shape

LEMMA DeactivatedFlags ==
  ASSUME Shape, NEW s \in Slots
  PROVE  /\ Deactivated(s) \in [Slots -> Client] /\ ~Deactivated(s)[s].active
         /\ \A t \in Slots : /\ Deactivated(s)[t].id = client[t].id
                             /\ Deactivated(s)[t].overlay = client[t].overlay
                             /\ Deactivated(s)[t].visible = client[t].visible
                             /\ t # s => Deactivated(s)[t] = client[t]
  <1> DEFINE d == [client[s] EXCEPT !.active = FALSE]
  <1>1. client[s] \in Client
    BY DEF Shape
  <1>2. /\ d \in Client /\ ~d.active /\ d.id = client[s].id
        /\ d.overlay = client[s].overlay /\ d.visible = client[s].visible
    BY <1>1 DEF Client
  <1>3. Deactivated(s) = [client EXCEPT ![s] = d]
    BY DEF Deactivated
  <1> HIDE DEF d
  <1> QED BY <1>2, <1>3 DEF Shape

\* Only a new client gives a slot a greater id.
LEMMA IdsStep ==
  CountInv /\ [Next]_vars =>
    \A s \in Slots : client'[s].id > client[s].id => pc[s] \in {"none", "dead"}
  <1> DEFINE Reused(s) == client'[s].id > client[s].id => pc[s] \in {"none", "dead"}
  <1> SUFFICES ASSUME CountInv, [Next]_vars, NEW t \in Slots PROVE Reused(t)
    OBVIOUS
  <1> USE DEF CountInv, Shape
  <1>0. ASSUME client'[t].id = client[t].id \/ client'[t].id = 0 PROVE Reused(t)
    <2>1. client[t].id \in Nat
      BY DEF Client
    <2> QED BY <1>0, <2>1
  <1>1. ASSUME NEW m \in Slots, pc[m] \in {"none", "dead"}, StartThread(m) PROVE Reused(t)
    <2>1. CASE t = m
      BY <1>1, <2>1
    <2>2. CASE t # m
      <3>1. client'[t] = client[t]
        BY <1>1, <2>2 DEF StartThread
      <3> QED BY <3>1, <1>0
    <2> QED BY <2>1, <2>2
  <1>2. ASSUME Connect PROVE Reused(t)
    <2>1. CASE FreeSlots # {} /\ thread[Min(FreeSlots)] = "ready"
      <3>1. /\ StartThread(Min(FreeSlots)) /\ Min(FreeSlots) \in Slots
            /\ pc[Min(FreeSlots)] = "none"
        BY <1>2, <2>1, StartedSlot DEF Connect
      <3> QED BY <3>1, <1>1
    <2>2. CASE ~(FreeSlots # {} /\ thread[Min(FreeSlots)] = "ready")
      <3>1. client' = client
        BY <1>2, <2>2 DEF Connect, clientVars
      <3> QED BY <3>1, <1>0
    <2> QED BY <2>1, <2>2
  <1>3. ASSUME Joined PROVE Reused(t)
    <2>1. /\ StartThread(Min(FreeSlots)) /\ Min(FreeSlots) \in Slots
          /\ pc[Min(FreeSlots)] = "dead"
      BY <1>3, StartedSlot DEF Joined
    <2> QED BY <2>1, <1>1
  <1>4. ASSUME NEW c \in [Slots -> Client], c[t].id = client[t].id,
               NEW active \in Slots \cup {NoClient}, UpdateServerState(c, active)
        PROVE  Reused(t)
    <2>1. client'[t].id = c[t].id
      BY <1>4, UpdateOutcome, FlushedFields
    <2> QED BY <2>1, <1>4, <1>0
  <1>5. ASSUME NEW s \in Slots, Shutdown(s) PROVE Reused(t)
    <2>1. client'[t].id = client[t].id \/ client'[t].id = 0
      BY <1>5 DEF Shutdown, NewClient, NoClient
    <2> QED BY <2>1, <1>0
  <1>6. ASSUME NEW s \in Slots, Deactivate(s) PROVE Reused(t)
    <2>1. Deactivated(s) \in [Slots -> Client] /\ Deactivated(s)[t].id = client[t].id
      BY DeactivatedFlags
    <2>2. UpdateServerState(Deactivated(s), activeIndex)
      BY <1>6 DEF Deactivate, Deactivated
    <2> QED BY <2>1, <2>2, <1>4
  <1>7. ASSUME NEW s \in Slots, CreateSession(s) PROVE Reused(t)
    <2>1. PICK overlay \in BOOLEAN : client' = [client EXCEPT ![s].overlay = overlay]
      BY <1>7 DEF CreateSession
    <2>2. client'[t].id = client[t].id
      BY <2>1 DEF Client
    <2> QED BY <2>2, <1>0
  <1>8. ASSUME NEW s \in Slots, Activate(s) PROVE Reused(t)
    <2>1. CASE client[s].overlay
      <3>1. client'[t].id = client[t].id
        BY <1>8, <2>1 DEF Activate, Client
      <3> QED BY <3>1, <1>0
    <2>2. CASE ~client[s].overlay
      <3>1. Activated(s) \in [Slots -> Client] /\ Activated(s)[t].id = client[t].id
        BY ActivatedFlags
      <3>2. UpdateServerState(Activated(s), s)
        BY <1>8, <2>2 DEF Activate, Activated
      <3> QED BY <3>1, <3>2, <1>4
    <2> QED BY <2>1, <2>2
  <1>9. ASSUME UNCHANGED client PROVE Reused(t)
    BY <1>9, <1>0
  <1> HIDE DEF Reused, CountInv, Shape
  <1> QED
    BY <1>2, <1>3, <1>5, <1>6, <1>7, <1>8, <1>9 DEF Next, Calls, ClientContinues,
      Exit, vars, clientVars, StartServing, CreateSetState, DestroyCompositor, TellUsed,
      TellUnused, Cleanup, GiveBack, GaveBack, ExitCheck, DestroySession, SetPrimaryClient,
      MarkRefSpace, UnmarkRefSpace, LeaveLoop, CountDown, DelayOver, DelayedExit

\* A slot gets a new client only when the thread of the last one is gone.
THEOREM SlotReused == Spec => SlotIsReusedAfterJoin
  <1>1. CountInv /\ [Next]_vars =>
          [\A s \in Slots : client'[s].id > client[s].id => pc[s] \in {"none", "dead"}]_client
    BY IdsStep
  <1> QED BY <1>1, CountInvariant, PTL DEF Spec, SlotIsReusedAfterJoin

(***************************************************************************)
(* The primary application.                                                *)
(***************************************************************************)
\* An update of the server's state keeps who is active and who is an overlay,
\* and makes nobody visible but overlays and an active application.
LEMMA UpdateFlags ==
  ASSUME Shape, NEW c \in [Slots -> Client], NEW active \in Slots \cup {NoClient},
         UpdateServerState(c, active), NEW t \in Slots
  PROVE  /\ client'[t].active = c[t].active /\ client'[t].overlay = c[t].overlay
         /\ client'[t].visible => c[t].visible \/ c[t].overlay \/ c[t].active
  <1>1. CASE client' = c
    BY <1>1
  <1>2. CASE client' # c
    <2>1. PICK new \in Slots \cup {NoClient} :
            client' = Flushed(c, new) /\ (new # NoClient => IsMainApp(c[new]))
      BY <1>2, UpdateOutcome
    <2>2. /\ client'[t].active = c[t].active /\ client'[t].overlay = c[t].overlay
          /\ used[t] => client'[t].visible = Visible(c[t], t = new)
          /\ ~used[t] => client'[t] = c[t]
      BY <2>1, FlushedFields
    <2>3. t # NoClient
      BY SetsAreFinite
    <2> QED BY <2>1, <2>2, <2>3 DEF Visible, IsMainApp
  <1> QED BY <1>1, <1>2

\* The flags come with the session: a client has none before its first one.
LEMMA FreshStep ==
  PrimaryInv /\ [Next]_vars => Fresh'
  <1> SUFFICES ASSUME PrimaryInv, [Next]_vars PROVE Fresh'
    OBVIOUS
  <1> USE DEF PrimaryInv, CountInv, clientVars, InFirst
  <1>1. ASSUME Connect PROVE Fresh'
    <2>1. CASE FreeSlots # {} /\ thread[Min(FreeSlots)] = "ready"
      <3>1. StartThread(Min(FreeSlots)) /\ Min(FreeSlots) \in Slots
        BY <1>1, <2>1, FirstFree DEF Connect
      <3> QED BY <3>1 DEF StartThread, Shape, Fresh, NewClient
    <2>2. CASE ~(FreeSlots # {} /\ thread[Min(FreeSlots)] = "ready")
      BY <1>1, <2>2 DEF Connect, Fresh, clientVars
    <2> QED BY <2>1, <2>2
  <1>2. ASSUME Joined PROVE Fresh'
    <2>1. StartThread(Min(FreeSlots)) /\ Min(FreeSlots) \in Slots
      BY <1>2, StartedSlot DEF Joined
    <2> QED BY <2>1 DEF StartThread, Shape, Fresh, NewClient
  <1>3. ASSUME NEW s \in Slots, StartServing(s) PROVE Fresh'
    BY <1>3 DEF StartServing, Fresh, Shape
  <1>4. ASSUME NEW s \in Slots, CreateSetState(s) PROVE Fresh'
    BY <1>4 DEF CreateSetState, Fresh, Shape
  <1>5. ASSUME NEW s \in Slots, DestroyCompositor(s) PROVE Fresh'
    BY <1>5 DEF DestroyCompositor, Fresh, Shape
  <1>6. ASSUME NEW s \in Slots, TellUsed(s) PROVE Fresh'
    BY <1>6 DEF TellUsed, Fresh, Shape, GoTo, Mark
  <1>7. ASSUME NEW s \in Slots, TellUnused(s) PROVE Fresh'
    BY <1>7 DEF TellUnused, Fresh, Shape, GoTo, Mark
  <1>8. ASSUME NEW s \in Slots, Shutdown(s) PROVE Fresh'
    <2>1. /\ client' = [client EXCEPT ![s] = NewClient(NoClient)] /\ pc' = [pc EXCEPT ![s] = "cleanup"]
          /\ UNCHANGED <<session, sessionsMade>>
      BY <1>8 DEF Shutdown
    <2> QED BY <2>1 DEF Fresh, Shape, NewClient
  <1>9. ASSUME NEW s \in Slots, Cleanup(s) PROVE Fresh'
    BY <1>9 DEF Cleanup, Fresh, Shape
  <1>10. ASSUME NEW s \in Slots, GiveBack(s) PROVE Fresh'
    BY <1>10 DEF GiveBack, Fresh, Shape, CountDown, GoTo, Mark
  <1>11. ASSUME NEW s \in Slots, GaveBack(s) PROVE Fresh'
    BY <1>11 DEF GaveBack, Fresh, Shape, GoTo
  <1>12. ASSUME NEW s \in Slots, ExitCheck(s) PROVE Fresh'
    BY <1>12 DEF ExitCheck, Fresh, Shape
  <1>13. ASSUME NEW s \in Slots, Deactivate(s) PROVE Fresh'
    <2>1. UNCHANGED <<session, sessionsMade>> /\ \A t \in Slots : pc'[t] = "create" => pc[t] = "create"
      BY <1>13 DEF Deactivate, Shape
    <2>2. ASSUME NEW t \in Slots
          PROVE  /\ sessionsMade[t] = 0 => ~client'[t].active /\ ~client'[t].visible /\ ~client'[t].overlay
                 /\ pc[t] = "create" /\ InFirst(t) => ~client'[t].active
      <3>1. PICK c : c = Deactivated(s) /\ UpdateServerState(c, activeIndex)
        BY <1>13 DEF Deactivate, Deactivated
      <3>2. /\ c \in [Slots -> Client] /\ (t # s => c[t] = client[t]) /\ ~c[s].active
            /\ c[t].overlay = client[t].overlay /\ c[t].visible = client[t].visible
        BY <3>1, DeactivatedFlags
      <3>3. activeIndex \in Slots \cup {NoClient}
        BY DEF Shape
      <3>4. /\ client'[t].active = c[t].active /\ client'[t].overlay = c[t].overlay
            /\ client'[t].visible => c[t].visible \/ c[t].overlay \/ c[t].active
        BY <3>1, <3>2, <3>3, UpdateFlags
      <3> QED BY <3>2, <3>4 DEF Fresh
    <2> QED BY <2>1, <2>2 DEF Fresh
  <1>14. ASSUME NEW s \in Slots, CreateSession(s) PROVE Fresh'
    <2>1. PICK overlay \in BOOLEAN : client' = [client EXCEPT ![s].overlay = overlay]
      BY <1>14 DEF CreateSession
    <2>2. \A t \in Slots \ {s} : client'[t] = client[t]
      BY <2>1 DEF Shape
    <2>3. /\ sessionsMade' = [sessionsMade EXCEPT ![s] = sessionsMade[s] + 1]
          /\ session' = [session EXCEPT ![s] = TRUE] /\ pc' = [pc EXCEPT ![s] = "create"]
          /\ sessionsMade[s] \in Nat
      BY <1>14, MaxSessionAssumption DEF CreateSession, Shape
    <2>4. sessionsMade'[s] <= 1 => ~client'[s].active
      BY <2>1, <2>3 DEF Fresh, Shape, Client
    <2> QED BY <2>2, <2>3, <2>4 DEF Fresh, Shape
  <1>15. ASSUME NEW s \in Slots, Activate(s) PROVE Fresh'
    <2>1. /\ UNCHANGED <<session, sessionsMade, pc>> /\ pc[s] = "serve" /\ sessionsMade[s] # 0
      BY <1>15 DEF Activate, Serving, Fresh
    <2>2. ASSUME NEW t \in Slots
          PROVE  /\ sessionsMade[t] = 0 => ~client'[t].active /\ ~client'[t].visible /\ ~client'[t].overlay
                 /\ pc[t] = "create" /\ InFirst(t) => ~client'[t].active
      <3>1. CASE client[s].overlay
        <4>1. t # s => client'[t] = client[t]
          BY <1>15, <3>1 DEF Activate, Shape
        <4> QED BY <2>1, <4>1 DEF Fresh
      <3>2. CASE ~client[s].overlay
        <4>1. PICK c : c = Activated(s) /\ UpdateServerState(c, s)
          BY <1>15, <3>2 DEF Activate, Activated
        <4>2. c \in [Slots -> Client] /\ (t # s => c[t] = client[t])
          BY <4>1, ActivatedFlags
        <4>3. /\ client'[t].active = c[t].active /\ client'[t].overlay = c[t].overlay
              /\ client'[t].visible => c[t].visible \/ c[t].overlay \/ c[t].active
          BY <4>1, <4>2, UpdateFlags
        <4> QED BY <2>1, <4>2, <4>3 DEF Fresh
      <3> QED BY <3>1, <3>2
    <2> QED BY <2>1, <2>2 DEF Fresh
  <1>16. ASSUME NEW s \in Slots, DestroySession(s) PROVE Fresh'
    BY <1>16 DEF DestroySession, Fresh, Shape, Serving
  <1>17. ASSUME NEW s \in Slots, MarkRefSpace(s) PROVE Fresh'
    BY <1>17 DEF MarkRefSpace, Fresh, Shape, Serving, GoTo, Mark
  <1>18. ASSUME NEW s \in Slots, UnmarkRefSpace(s) PROVE Fresh'
    BY <1>18 DEF UnmarkRefSpace, Fresh, Shape, Serving, CountDown, GoTo, Mark
  <1>19. ASSUME NEW s \in Slots, LeaveLoop(s) PROVE Fresh'
    BY <1>19 DEF LeaveLoop, Fresh, Shape
  <1>20. ASSUME UNCHANGED <<session, sessionsMade, client, pc>> PROVE Fresh'
    BY <1>20 DEF Fresh, Shape
  <1>21. QED
    BY <1>1, <1>2, <1>3, <1>4, <1>5, <1>6, <1>7, <1>8, <1>9, <1>10, <1>11,
      <1>12, <1>13, <1>14, <1>15, <1>16, <1>17, <1>18, <1>19, <1>20 DEF Next,
      Calls, ClientContinues, Exit, CountDown, vars, activeVars, connVars,
      exitVars, spaceVars, SetPrimaryClient, DelayOver, DelayedExit

\* After a flush for a new active client, or for none because there is no
\* application in its first session, the invariant holds.
LEMMA FlushFollows ==
  ASSUME Shape, NEW c \in [Slots -> Client], NEW new \in Slots \cup {NoClient},
         client' = Flushed(c, new), lastActive' = new, activeIndex' = new, UNCHANGED used,
         new # NoClient => IsMainApp(c[new]) /\ used[new],
         UNCHANGED sessionsMade, new = NoClient => \A t \in Fallbacks(c) : ~InFirst(t)
  PROVE  Followed'
  <1>1. \A t \in Slots : /\ client'[t].active = c[t].active /\ client'[t].overlay = c[t].overlay
                         /\ used[t] => client'[t].visible = Visible(c[t], t = new)
    BY FlushedFields
  <1>2. NoClient \notin Slots
    BY SetsAreFinite
  <1>3. (\E t \in Fallbacks(client)' : InFirst(t)') => new # NoClient
    <2>1. ASSUME NEW t \in Fallbacks(client)' PROVE t \in Fallbacks(c)
      BY <1>1 DEF Fallbacks, IsMainApp
    <2> QED BY <2>1 DEF InFirst
  <1>4. new # NoClient => new \in Flagged' /\ client'[new].active
    BY <1>1 DEF Flagged, Visible, IsMainApp
  <1>5. Flagged' \subseteq {new}
    <2>1. ASSUME NEW t \in Flagged' PROVE t = new
      BY <1>1 DEF Flagged, Visible
    <2> QED BY <2>1
  <1> QED BY <1>3, <1>4, <1>5 DEF Followed

\* An application that is activated is not the one that was active last: that
\* one is still active, or gave up its slot.
LEMMA ActivateFlushes ==
  ASSUME PrimaryInv, NEW s \in Slots, Activate(s), ~client[s].overlay
  PROVE  \E c \in [Slots -> Client], new \in Slots :
           /\ c = Activated(s)
           /\ client' = Flushed(c, new) /\ shown' = Told(c, new)
           /\ lastActive' = new /\ activeIndex' = new
           /\ IsMainApp(c[new]) /\ used[new]
  <1>1. PICK c : c = Activated(s) /\ UpdateServerState(c, s)
    BY DEF Activate, Activated
  <1>2. /\ c \in [Slots -> Client] /\ c[s].active /\ c[s].overlay = client[s].overlay
        /\ \A t \in Slots \ {s} : c[t] = client[t]
    BY <1>1, ActivatedFlags DEF PrimaryInv, CountInv
  <1>3. pc[s] = "serve" /\ used[s] /\ ~client[s].active
    BY ServedIsUsed DEF Activate, Serving, ShuttingDown, PrimaryInv, CountInv
  <1>4. s # lastActive
    BY <1>3, SetsAreFinite DEF PrimaryInv, Followed, ShuttingDown
  <1>5. s \in Fallbacks(c) /\ s # NoClient
    BY <1>2, <1>3, SetsAreFinite DEF Fallbacks, IsMainApp
  <1>6. PICK new \in Slots \cup {NoClient} :
          /\ activeIndex' = new /\ lastActive' = new
          /\ client' = Flushed(c, new) /\ shown' = Told(c, new)
          /\ new = NoClient => Fallbacks(c) = {} \/ s = NoClient
          /\ new # NoClient => IsMainApp(c[new]) /\ (new \in Fallbacks(c) \/ new = s)
    BY <1>1, <1>2, <1>4, UpdateOutcome
  <1>7. new \in Slots /\ used[new]
    BY <1>3, <1>5, <1>6 DEF Fallbacks
  <1> QED BY <1>1, <1>2, <1>5, <1>6, <1>7

\* A client that goes looks for its successor only when it was the one that was
\* active last, or when the index was moved.
LEMMA DeactivateOutcome ==
  ASSUME PrimaryInv, NEW s \in Slots, Deactivate(s)
  PROVE  \E c \in [Slots -> Client] :
           /\ c = Deactivated(s) /\ ~used[s]
           /\ \A t \in Slots : used[t] => c[t] = client[t]
           /\ \/ /\ client' = c /\ lastActive # s
                 /\ UNCHANGED <<activeIndex, lastActive, shown>>
              \/ \E new \in Slots \cup {NoClient} :
                   /\ client' = Flushed(c, new) /\ shown' = Told(c, new)
                   /\ lastActive' = new /\ activeIndex' = new
                   /\ new # NoClient => IsMainApp(c[new]) /\ used[new]
                   /\ new = NoClient => \A t \in Fallbacks(c) : ~InFirst(t)
  <1> USE DEF PrimaryInv, CountInv
  <1>1. PICK c : c = Deactivated(s) /\ UpdateServerState(c, activeIndex)
    BY DEF Deactivate, Deactivated
  <1>2. c \in [Slots -> Client] /\ ~c[s].active /\ \A t \in Slots \ {s} : c[t] = client[t]
    BY <1>1, DeactivatedFlags
  <1>3. ~used[s] /\ activeIndex \in Slots \cup {NoClient}
    BY DEF Deactivate, Threads, ShuttingDown, Shape
  <1>4. \A t \in Slots : used[t] => c[t] = client[t]
    BY <1>2, <1>3
  <1>5. Fallbacks(c) = Fallbacks(client)
    BY <1>4 DEF Fallbacks
  <1>6. activeIndex = NoClient => \A t \in Fallbacks(c) : ~InFirst(t)
    BY <1>5 DEF Followed
  <1>7. \A t \in Slots : c[t].active => used[t]
    BY <1>2 DEF Emptied
  <1>8. CASE /\ activeIndex # NoClient /\ c[activeIndex].active /\ activeIndex = lastActive
             /\ client' = c /\ UNCHANGED <<activeIndex, lastActive, shown>>
    <2>1. lastActive # s
      BY <1>2, <1>8
    <2> QED BY <1>1, <1>2, <1>3, <1>4, <1>8, <2>1
  <1>9. ASSUME NEW new \in Slots \cup {NoClient},
               activeIndex' = new /\ lastActive' = new,
               client' = Flushed(c, new) /\ shown' = Told(c, new),
               new = NoClient => Fallbacks(c) = {} \/ activeIndex = NoClient,
               new # NoClient => IsMainApp(c[new]) /\ (new \in Fallbacks(c) \/ new = activeIndex)
        PROVE  \E d \in [Slots -> Client] :
           /\ d = Deactivated(s) /\ ~used[s]
           /\ \A t \in Slots : used[t] => d[t] = client[t]
           /\ \/ /\ client' = d /\ lastActive # s
                 /\ UNCHANGED <<activeIndex, lastActive, shown>>
              \/ \E n \in Slots \cup {NoClient} :
                   /\ client' = Flushed(d, n) /\ shown' = Told(d, n)
                   /\ lastActive' = n /\ activeIndex' = n
                   /\ n # NoClient => IsMainApp(d[n]) /\ used[n]
                   /\ n = NoClient => \A t \in Fallbacks(d) : ~InFirst(t)
    <2>1. new # NoClient => used[new]
      BY <1>7, <1>9 DEF IsMainApp
    <2>2. new = NoClient => \A t \in Fallbacks(c) : ~InFirst(t)
      BY <1>6, <1>9
    <2>3. /\ client' = Flushed(c, new) /\ shown' = Told(c, new)
          /\ lastActive' = new /\ activeIndex' = new
          /\ new # NoClient => IsMainApp(c[new]) /\ used[new]
          /\ new = NoClient => \A t \in Fallbacks(c) : ~InFirst(t)
      BY <1>9, <2>1, <2>2
    <2> QED BY <1>1, <1>2, <1>3, <1>4, <2>3
  <1>10. \/ /\ activeIndex # NoClient /\ c[activeIndex].active /\ activeIndex = lastActive
            /\ client' = c /\ UNCHANGED <<activeIndex, lastActive, shown>>
         \/ \E new \in Slots \cup {NoClient} :
              /\ activeIndex' = new /\ lastActive' = new
              /\ client' = Flushed(c, new) /\ shown' = Told(c, new)
              /\ new = NoClient => Fallbacks(c) = {} \/ activeIndex = NoClient
              /\ new # NoClient => IsMainApp(c[new]) /\ (new \in Fallbacks(c) \/ new = activeIndex)
    BY <1>1, <1>2, <1>3, UpdateOutcome
  <1> QED BY <1>8, <1>9, <1>10

\* A step that changes at most the state of one client.
SameBut(s) ==
  \A t \in Slots \ {s} :
    /\ client'[t] = client[t] /\ used'[t] = used[t] /\ pc'[t] = pc[t]
    /\ sessionsMade'[t] = sessionsMade[t]

\* A step that leaves the flags, the last active client and who is shutting
\* down alone keeps the invariant.
LEMMA QuietFollows ==
  ASSUME Shape, Followed, UNCHANGED <<used, client, sessionsMade, lastActive>>,
         activeIndex # NoClient => activeIndex' # NoClient,
         \A t \in Slots : pc[t] \in ShuttingDown => pc'[t] \in ShuttingDown
  PROVE  Followed'
  <1>1. /\ Fallbacks(client)' = Fallbacks(client) /\ Flagged' = Flagged
        /\ \A t \in Slots : InFirst(t)' = InFirst(t)
    BY DEF Fallbacks, Flagged, InFirst
  <1>3. Fallbacks(client) \subseteq Slots /\ Flagged \subseteq Slots
    BY DEF Fallbacks, Flagged
  <1>2. lastActive \in Slots \cup {NoClient}
    BY DEF Shape
  <1> QED BY <1>1, <1>2, <1>3 DEF Followed

\* As does one that changes the state of a client that has no flag before and
\* after, or is in a later session after, and is not the last active one.
LEMMA UnflaggedFollows ==
  ASSUME Shape, Followed, NEW s \in Slots, s # lastActive, UNCHANGED <<activeIndex, lastActive>>,
         \/ ~(used[s]' /\ ~client'[s].overlay /\ (client'[s].visible \/ client'[s].active))
         \/ ~InFirst(s)',
         SameBut(s)
  PROVE  Followed'
  <1> USE DEF SameBut
  <1>1. ASSUME NEW t \in Fallbacks(client)', InFirst(t)' PROVE t \in Fallbacks(client) /\ InFirst(t)
    <2>1. t \in Slots \ {s}
      BY <1>1 DEF Fallbacks, IsMainApp
    <2> QED BY <1>1, <2>1 DEF Fallbacks, IsMainApp, InFirst
  <1>2. ASSUME NEW t \in Flagged', InFirst(t)' PROVE t \in Flagged /\ InFirst(t)
    <2>1. t \in Slots \ {s}
      BY <1>2 DEF Flagged
    <2> QED BY <1>2, <2>1 DEF Flagged, InFirst
  <1>3. ASSUME lastActive # NoClient
        PROVE  \/ lastActive \in Flagged' /\ client'[lastActive].active
               \/ pc'[lastActive] \in ShuttingDown
               \/ used'[lastActive] /\ ~InFirst(lastActive)' /\ client'[lastActive].active
    <2>1. lastActive \in Slots \ {s}
      BY <1>3 DEF Shape
    <2>2. CASE lastActive \in Flagged /\ client[lastActive].active
      BY <2>1, <2>2 DEF Flagged
    <2>3. CASE pc[lastActive] \in ShuttingDown
      BY <2>1, <2>3
    <2>4. CASE used[lastActive] /\ ~InFirst(lastActive) /\ client[lastActive].active
      BY <2>1, <2>4 DEF InFirst
    <2> QED BY <1>3, <2>2, <2>3, <2>4 DEF Followed
  <1>4. (\E t \in Fallbacks(client)' : InFirst(t)') => activeIndex' # NoClient /\ lastActive' # NoClient
    BY <1>1 DEF Followed
  <1>5. \A t \in Flagged' : InFirst(t)' => t = lastActive'
    BY <1>2 DEF Followed
  <1>6. InFirst(lastActive)' <=> sessionsMade'[lastActive] <= 1
    BY DEF InFirst
  <1> QED BY <1>3, <1>4, <1>5, <1>6 DEF Followed, InFirst

\* A thread that is started.
LEMMA StartFollows ==
  ASSUME PrimaryInv, NEW s \in Slots, StartThread(s), ~used[s], pc[s] \in {"none", "dead"},
         UNCHANGED <<activeIndex, lastActive>>
  PROVE  Followed'
  <1> USE DEF PrimaryInv, CountInv
  <1>1. s # lastActive
    BY SetsAreFinite DEF Followed, Flagged, ShuttingDown
  <1>2. ~client'[s].visible /\ ~client'[s].active
    BY DEF StartThread, Shape, NewClient
  <1>3. SameBut(s)
    BY DEF StartThread, Shape, SameBut
  <1> QED BY <1>1, <1>2, <1>3, UnflaggedFollows

\* The flags follow the choice of the active client through every step.
LEMMA FollowedStep ==
  PrimaryInv /\ [Next]_vars => Followed'
  <1> SUFFICES ASSUME PrimaryInv, [Next]_vars PROVE Followed'
    OBVIOUS
  <1> USE DEF PrimaryInv, CountInv
  <1>1. ASSUME Connect PROVE Followed'
    <2>1. CASE FreeSlots # {} /\ thread[Min(FreeSlots)] = "ready"
      <3>1. StartThread(Min(FreeSlots)) /\ UNCHANGED <<activeIndex, lastActive>>
        BY <1>1, <2>1 DEF Connect, activeVars
      <3>2. /\ Min(FreeSlots) \in Slots /\ ~used[Min(FreeSlots)]
            /\ pc[Min(FreeSlots)] \in {"none", "dead"}
        BY <1>1, <2>1, StartedSlot
      <3> QED BY <3>1, <3>2, StartFollows DEF PrimaryInv
    <2>2. CASE ~(FreeSlots # {} /\ thread[Min(FreeSlots)] = "ready")
      <3>1. UNCHANGED <<used, client, sessionsMade, lastActive, activeIndex, pc>>
        BY <1>1, <2>2 DEF Connect, clientVars, activeVars
      <3> QED BY <3>1, QuietFollows
    <2> QED BY <2>1, <2>2
  <1>2. ASSUME Joined PROVE Followed'
    <2>1. StartThread(Min(FreeSlots)) /\ UNCHANGED <<activeIndex, lastActive>>
      BY <1>2 DEF Joined, activeVars
    <2>2. /\ Min(FreeSlots) \in Slots /\ ~used[Min(FreeSlots)]
          /\ pc[Min(FreeSlots)] \in {"none", "dead"}
      BY <1>2, StartedSlot
    <2> QED BY <2>1, <2>2, StartFollows DEF PrimaryInv
  <1>3. ASSUME NEW s \in Slots, StartServing(s) PROVE Followed'
    <2>1. /\ UNCHANGED <<used, client, sessionsMade, lastActive>>
          /\ activeIndex # NoClient => activeIndex' # NoClient
      BY <1>3, SetsAreFinite DEF StartServing, connVars, clientVars, activeVars
    <2>2. \A t \in Slots : pc[t] \in ShuttingDown => pc'[t] \in ShuttingDown
      BY <1>3 DEF StartServing, Shape, ShuttingDown
    <2> QED BY <2>1, <2>2, QuietFollows
  <1>4. ASSUME NEW s \in Slots, CreateSetState(s) PROVE Followed'
    <2>1. /\ UNCHANGED <<used, client, sessionsMade, lastActive>>
          /\ activeIndex # NoClient => activeIndex' # NoClient
      BY <1>4, SetsAreFinite DEF CreateSetState, connVars, clientVars, activeVars
    <2>2. \A t \in Slots : pc[t] \in ShuttingDown => pc'[t] \in ShuttingDown
      BY <1>4 DEF CreateSetState, Shape, ShuttingDown
    <2> QED BY <2>1, <2>2, QuietFollows
  <1>5. ASSUME NEW s \in Slots, DestroyCompositor(s) PROVE Followed'
    <2>1. /\ UNCHANGED <<used, client, sessionsMade, lastActive>>
          /\ activeIndex # NoClient => activeIndex' # NoClient
      BY <1>5, SetsAreFinite DEF DestroyCompositor, connVars, clientVars, activeVars
    <2>2. \A t \in Slots : pc[t] \in ShuttingDown => pc'[t] \in ShuttingDown
      BY <1>5 DEF DestroyCompositor, Shape, ShuttingDown
    <2> QED BY <2>1, <2>2, QuietFollows
  <1>6. ASSUME NEW s \in Slots, TellUsed(s) PROVE Followed'
    <2>1. /\ UNCHANGED <<used, client, sessionsMade, lastActive>>
          /\ activeIndex # NoClient => activeIndex' # NoClient
      BY <1>6, SetsAreFinite DEF TellUsed, connVars, clientVars, activeVars, GoTo, Mark
    <2>2. \A t \in Slots : pc[t] \in ShuttingDown => pc'[t] \in ShuttingDown
      BY <1>6 DEF TellUsed, Shape, ShuttingDown, GoTo, Mark
    <2> QED BY <2>1, <2>2, QuietFollows
  <1>7. ASSUME NEW s \in Slots, TellUnused(s) PROVE Followed'
    <2>1. /\ UNCHANGED <<used, client, sessionsMade, lastActive>>
          /\ activeIndex # NoClient => activeIndex' # NoClient
      BY <1>7, SetsAreFinite DEF TellUnused, connVars, clientVars, activeVars, GoTo, Mark
    <2>2. \A t \in Slots : pc[t] \in ShuttingDown => pc'[t] \in ShuttingDown
      BY <1>7 DEF TellUnused, Shape, ShuttingDown, GoTo, Mark
    <2> QED BY <2>1, <2>2, QuietFollows
  <1>8. ASSUME NEW s \in Slots, Shutdown(s) PROVE Followed'
    <2>1. UNCHANGED <<activeIndex, lastActive>> /\ ~used'[s] /\ pc'[s] \in ShuttingDown
      BY <1>8 DEF Shutdown, activeVars, ShuttingDown, Shape
    <2>2. SameBut(s)
      BY <1>8 DEF Shutdown, Shape, SameBut
    <2>3. CASE s # lastActive
      BY <2>1, <2>2, <2>3, UnflaggedFollows
    <2>4. CASE s = lastActive
      <3>1. /\ Fallbacks(client)' \subseteq Fallbacks(client) /\ Flagged' \subseteq Flagged
            /\ \A t \in Fallbacks(client)' \cup Flagged' : InFirst(t)' = InFirst(t)
        BY <2>1, <2>2 DEF Fallbacks, Flagged, SameBut, InFirst
      <3> QED BY <2>1, <2>4, <3>1 DEF Followed
    <2> QED BY <2>3, <2>4
  <1>9. ASSUME NEW s \in Slots, Cleanup(s) PROVE Followed'
    <2>1. /\ UNCHANGED <<used, client, sessionsMade, lastActive>>
          /\ activeIndex # NoClient => activeIndex' # NoClient
      BY <1>9, SetsAreFinite DEF Cleanup, connVars, clientVars, activeVars
    <2>2. \A t \in Slots : pc[t] \in ShuttingDown => pc'[t] \in ShuttingDown
      BY <1>9 DEF Cleanup, Shape, ShuttingDown
    <2> QED BY <2>1, <2>2, QuietFollows
  <1>10. ASSUME NEW s \in Slots, GiveBack(s) PROVE Followed'
    <2>1. /\ UNCHANGED <<used, client, sessionsMade, lastActive>>
          /\ activeIndex # NoClient => activeIndex' # NoClient
      BY <1>10, SetsAreFinite DEF GiveBack, connVars, clientVars, activeVars, CountDown, GoTo,
        Mark
    <2>2. \A t \in Slots : pc[t] \in ShuttingDown => pc'[t] \in ShuttingDown
      BY <1>10 DEF GiveBack, Shape, ShuttingDown, CountDown, GoTo, Mark
    <2> QED BY <2>1, <2>2, QuietFollows
  <1>11. ASSUME NEW s \in Slots, GaveBack(s) PROVE Followed'
    <2>1. /\ UNCHANGED <<used, client, sessionsMade, lastActive>>
          /\ activeIndex # NoClient => activeIndex' # NoClient
      BY <1>11, SetsAreFinite DEF GaveBack, connVars, clientVars, activeVars, GoTo
    <2>2. \A t \in Slots : pc[t] \in ShuttingDown => pc'[t] \in ShuttingDown
      BY <1>11 DEF GaveBack, Shape, ShuttingDown, GoTo
    <2> QED BY <2>1, <2>2, QuietFollows
  <1>12. ASSUME NEW s \in Slots, ExitCheck(s) PROVE Followed'
    <2>1. /\ UNCHANGED <<used, client, sessionsMade, lastActive>>
          /\ activeIndex # NoClient => activeIndex' # NoClient
      BY <1>12, SetsAreFinite DEF ExitCheck, connVars, clientVars, activeVars
    <2>2. \A t \in Slots : pc[t] \in ShuttingDown => pc'[t] \in ShuttingDown
      BY <1>12 DEF ExitCheck, Shape, ShuttingDown
    <2> QED BY <2>1, <2>2, QuietFollows
  <1>13. ASSUME NEW s \in Slots, Deactivate(s) PROVE Followed'
    <2>1. PICK c \in [Slots -> Client] :
           /\ c = Deactivated(s) /\ ~used[s]
           /\ \A t \in Slots : used[t] => c[t] = client[t]
           /\ \/ /\ client' = c /\ lastActive # s
                 /\ UNCHANGED <<activeIndex, lastActive, shown>>
              \/ \E new \in Slots \cup {NoClient} :
                   /\ client' = Flushed(c, new) /\ shown' = Told(c, new)
                   /\ lastActive' = new /\ activeIndex' = new
                   /\ new # NoClient => IsMainApp(c[new]) /\ used[new]
                   /\ new = NoClient => \A t \in Fallbacks(c) : ~InFirst(t)
      BY <1>13, DeactivateOutcome DEF PrimaryInv
    <2>2. UNCHANGED <<used, sessionsMade>> /\ \A t \in Slots \ {s} : pc'[t] = pc[t]
      BY <1>13 DEF Deactivate, connVars, Shape
    <2>3. CASE client' = c /\ lastActive # s /\ UNCHANGED <<activeIndex, lastActive, shown>>
      <3>1. \A t \in Slots \ {s} : c[t] = client[t]
        BY <2>1, DeactivatedFlags
      <3>2. SameBut(s)
        BY <2>2, <2>3, <3>1 DEF SameBut
      <3> QED BY <2>1, <2>2, <2>3, <3>2, UnflaggedFollows
    <2>4. ASSUME NEW new \in Slots \cup {NoClient},
                 client' = Flushed(c, new), lastActive' = new, activeIndex' = new,
                 new # NoClient => IsMainApp(c[new]) /\ used[new],
                 new = NoClient => \A t \in Fallbacks(c) : ~InFirst(t)
          PROVE  Followed'
      BY <2>2, <2>4, FlushFollows
    <2> QED BY <2>1, <2>3, <2>4
  <1>14. ASSUME NEW s \in Slots, CreateSession(s) PROVE Followed'
    <2>1. /\ pc[s] = "serve" /\ UNCHANGED <<activeIndex, lastActive, used>>
          /\ sessionsMade[s] \in Nat /\ sessionsMade'[s] = sessionsMade[s] + 1
      BY <1>14, MaxSessionAssumption DEF CreateSession, Serving, Shape, activeVars, connVars
    <2>2. PICK overlay \in BOOLEAN : client' = [client EXCEPT ![s].overlay = overlay]
      BY <1>14 DEF CreateSession
    <2>3. client'[s].active = client[s].active /\ client'[s].visible = client[s].visible
      BY <2>2 DEF Shape, Client
    <2>4. SameBut(s)
      BY <1>14, <2>1, <2>2 DEF CreateSession, Shape, SameBut
    <2>5. InFirst(s)' => ~client'[s].active /\ ~client'[s].visible
      BY <2>1, <2>3 DEF Fresh, InFirst
    <2>6. CASE s # lastActive
      BY <2>1, <2>4, <2>5, <2>6, UnflaggedFollows
    <2>7. CASE s = lastActive
      <3>1. used[s] /\ client[s].active
        BY <2>1, <2>7, SetsAreFinite DEF Followed, Flagged, ShuttingDown
      <3>2. ~InFirst(s)' /\ used'[s] /\ client'[s].active
        BY <2>1, <2>3, <2>5, <3>1
      <3>3. ASSUME NEW t \in Slots, InFirst(t)' PROVE t # s /\ InFirst(t)
        BY <2>4, <3>2, <3>3 DEF SameBut, InFirst
      <3>4. \A t \in Fallbacks(client)' : InFirst(t)' => t \in Fallbacks(client) /\ InFirst(t)
        BY <2>4, <3>3 DEF Fallbacks, SameBut
      <3>5. \A t \in Flagged' : InFirst(t)' => t \in Flagged /\ InFirst(t)
        BY <2>4, <3>3 DEF Flagged, SameBut
      <3> QED BY <2>1, <2>7, <3>2, <3>4, <3>5 DEF Followed, InFirst
    <2> QED BY <2>6, <2>7
  <1>15. ASSUME NEW s \in Slots, Activate(s) PROVE Followed'
    <2>1. pc[s] = "serve" /\ UNCHANGED <<pc, used, sessionsMade>> /\ ~client[s].active
      BY <1>15 DEF Activate, Serving, connVars
    <2>2. CASE client[s].overlay
      <3>1. /\ client' = [client EXCEPT ![s].active = TRUE, ![s].visible = TRUE]
            /\ UNCHANGED <<activeIndex, lastActive>>
        BY <1>15, <2>2 DEF Activate, activeVars
      <3>2. client'[s].overlay
        BY <2>2, <3>1 DEF Shape, Client
      <3>3. SameBut(s)
        BY <2>1, <3>1 DEF Shape, SameBut
      <3>4. s # lastActive
        BY <2>1, <2>2, SetsAreFinite DEF Followed, Flagged, ShuttingDown
      <3> QED BY <3>1, <3>2, <3>3, <3>4, UnflaggedFollows
    <2>3. CASE ~client[s].overlay
      <3>1. PICK c \in [Slots -> Client], new \in Slots :
              /\ client' = Flushed(c, new) /\ lastActive' = new /\ activeIndex' = new
              /\ IsMainApp(c[new]) /\ used[new]
        BY <1>15, <2>3, ActivateFlushes DEF PrimaryInv
      <3>2. new # NoClient
        BY SetsAreFinite
      <3> QED BY <2>1, <3>1, <3>2, FlushFollows
    <2> QED BY <2>2, <2>3
  <1>16. ASSUME NEW s \in Slots, DestroySession(s) PROVE Followed'
    <2>1. /\ UNCHANGED <<used, client, sessionsMade, lastActive>>
          /\ activeIndex # NoClient => activeIndex' # NoClient
      BY <1>16, SetsAreFinite DEF DestroySession, connVars, clientVars, activeVars, Serving
    <2>2. \A t \in Slots : pc[t] \in ShuttingDown => pc'[t] \in ShuttingDown
      BY <1>16 DEF DestroySession, Shape, ShuttingDown, Serving
    <2> QED BY <2>1, <2>2, QuietFollows
  <1>17. ASSUME NEW s \in Slots, SetPrimaryClient(s) PROVE Followed'
    <2>1. /\ UNCHANGED <<used, client, sessionsMade, lastActive>>
          /\ activeIndex # NoClient => activeIndex' # NoClient
      BY <1>17, SetsAreFinite DEF SetPrimaryClient, connVars, clientVars, activeVars, Serving
    <2>2. \A t \in Slots : pc[t] \in ShuttingDown => pc'[t] \in ShuttingDown
      BY <1>17 DEF SetPrimaryClient, Shape, ShuttingDown, clientVars
    <2> QED BY <2>1, <2>2, QuietFollows
  <1>18. ASSUME NEW s \in Slots, MarkRefSpace(s) PROVE Followed'
    <2>1. /\ UNCHANGED <<used, client, sessionsMade, lastActive>>
          /\ activeIndex # NoClient => activeIndex' # NoClient
      BY <1>18, SetsAreFinite DEF MarkRefSpace, connVars, clientVars, activeVars, Serving,
        GoTo, Mark
    <2>2. \A t \in Slots : pc[t] \in ShuttingDown => pc'[t] \in ShuttingDown
      BY <1>18 DEF MarkRefSpace, Shape, ShuttingDown, Serving, GoTo, Mark
    <2> QED BY <2>1, <2>2, QuietFollows
  <1>19. ASSUME NEW s \in Slots, UnmarkRefSpace(s) PROVE Followed'
    <2>1. /\ UNCHANGED <<used, client, sessionsMade, lastActive>>
          /\ activeIndex # NoClient => activeIndex' # NoClient
      BY <1>19, SetsAreFinite DEF UnmarkRefSpace, connVars, clientVars, activeVars, Serving,
        CountDown, GoTo, Mark
    <2>2. \A t \in Slots : pc[t] \in ShuttingDown => pc'[t] \in ShuttingDown
      BY <1>19 DEF UnmarkRefSpace, Shape, ShuttingDown, Serving, CountDown, GoTo, Mark
    <2> QED BY <2>1, <2>2, QuietFollows
  <1>20. ASSUME NEW s \in Slots, LeaveLoop(s) PROVE Followed'
    <2>1. /\ UNCHANGED <<used, client, sessionsMade, lastActive>>
          /\ activeIndex # NoClient => activeIndex' # NoClient
      BY <1>20, SetsAreFinite DEF LeaveLoop, connVars, clientVars, activeVars
    <2>2. \A t \in Slots : pc[t] \in ShuttingDown => pc'[t] \in ShuttingDown
      BY <1>20 DEF LeaveLoop, Shape, ShuttingDown
    <2> QED BY <2>1, <2>2, QuietFollows
  <1>21. ASSUME UNCHANGED <<used, client, sessionsMade, pc, activeIndex, lastActive>>
         PROVE Followed'
    BY <1>21 DEF Followed, Fallbacks, Flagged, InFirst
  <1>22. QED
    BY <1>1, <1>2, <1>3, <1>4, <1>5, <1>6, <1>7, <1>8, <1>9, <1>10, <1>11,
      <1>12, <1>13, <1>14, <1>15, <1>16, <1>17, <1>18, <1>19, <1>20, <1>21 DEF
      clientVars, activeVars, connVars, Next, Calls, ClientContinues, Exit,
      CountDown, vars, exitVars, spaceVars,
      DelayOver, DelayedExit

(***************************************************************************)
(* What the compositor was told.                                           *)
(***************************************************************************)
\* A step that changes none of it, and takes no thread out of the creation or
\* the end of its session.
LEMMA QuietAgrees ==
  ASSUME CompositorAgrees, UNCHANGED <<used, session, sessionsMade, client, shown>>,
         \A t \in Slots : pc[t] \in {"create", "destroy"} => pc'[t] = pc[t]
  PROVE  CompositorAgrees'
  BY DEF CompositorAgrees, ShownAsFlagged, InFirst

\* A step of one thread that leaves it without a slot, a session or the active
\* flag, or in a later session, or in the creation or the end of its session,
\* or shown as its flags say.
LEMMA OwnAgrees ==
  ASSUME CompositorAgrees, NEW s \in Slots,
         \/ ~used'[s] \/ ~session'[s] \/ ~client'[s].active
         \/ ~InFirst(s)' \/ pc'[s] \in {"create", "destroy"} \/ shown'[s] = client'[s].visible,
         \A t \in Slots \ {s} :
           /\ used'[t] = used[t] /\ session'[t] = session[t] /\ client'[t] = client[t]
           /\ shown'[t] = shown[t] /\ pc'[t] = pc[t]
           /\ sessionsMade'[t] = sessionsMade[t]
  PROVE  CompositorAgrees'
  <1> SUFFICES ASSUME NEW t \in Slots, InFirst(t)', used'[t], session'[t], client'[t].active,
                      pc'[t] \notin {"create", "destroy"}
               PROVE  shown'[t] = client'[t].visible
    BY DEF CompositorAgrees, ShownAsFlagged
  <1>1. CASE t = s
    BY <1>1
  <1>2. CASE t # s
    BY <1>2 DEF CompositorAgrees, ShownAsFlagged, InFirst
  <1> QED BY <1>1, <1>2

\* A flush tells the compositor the flags it sets.
LEMMA FlushAgrees ==
  ASSUME Shape, NEW c \in [Slots -> Client], NEW new,
         client' = Flushed(c, new), shown' = Told(c, new), UNCHANGED <<used, session>>
  PROVE  CompositorAgrees'
  <1> SUFFICES ASSUME NEW t \in Slots, used[t], session[t] PROVE shown'[t] = client'[t].visible
    BY DEF CompositorAgrees, ShownAsFlagged
  <1>1. client'[t].visible = Visible(c[t], t = new)
    BY FlushedFields
  <1>2. shown'[t] = Visible(c[t], t = new)
    BY DEF Told
  <1> QED BY <1>1, <1>2

\* A thread that is started has no session.
LEMMA StartAgrees ==
  ASSUME PrimaryInv, NEW s \in Slots, StartThread(s), UNCHANGED shown
  PROVE  CompositorAgrees'
  <1> USE DEF PrimaryInv, CountInv
  <1>1. ~session'[s]
    BY DEF StartThread, Shape
  <1>2. \A t \in Slots \ {s} :
          /\ used'[t] = used[t] /\ session'[t] = session[t] /\ client'[t] = client[t]
          /\ shown'[t] = shown[t] /\ pc'[t] = pc[t]
          /\ sessionsMade'[t] = sessionsMade[t]
    BY DEF StartThread, Shape
  <1> QED BY <1>1, <1>2, OwnAgrees

\* The compositor shows an active client when its flags say so, whatever
\* handler changed the flags.
LEMMA AgreesStep ==
  PrimaryInv /\ [Next]_vars => CompositorAgrees'
  <1> SUFFICES ASSUME PrimaryInv, [Next]_vars PROVE CompositorAgrees'
    OBVIOUS
  <1> USE DEF PrimaryInv, CountInv
  <1>1. ASSUME Connect PROVE CompositorAgrees'
    <2>1. CASE FreeSlots # {} /\ thread[Min(FreeSlots)] = "ready"
      <3>1. StartThread(Min(FreeSlots)) /\ UNCHANGED shown /\ Min(FreeSlots) \in Slots
        BY <1>1, <2>1, FirstFree DEF Connect
      <3> QED BY <3>1, StartAgrees DEF PrimaryInv
    <2>2. CASE ~(FreeSlots # {} /\ thread[Min(FreeSlots)] = "ready")
      <3>1. UNCHANGED <<used, session, sessionsMade, client, shown, pc>>
        BY <1>1, <2>2 DEF Connect, clientVars
      <3> QED BY <3>1, QuietAgrees
    <2> QED BY <2>1, <2>2
  <1>2. ASSUME Joined PROVE CompositorAgrees'
    <2>1. StartThread(Min(FreeSlots)) /\ UNCHANGED shown /\ Min(FreeSlots) \in Slots
      BY <1>2, StartedSlot DEF Joined
    <2> QED BY <2>1, StartAgrees DEF PrimaryInv
  <1>3. ASSUME NEW s \in Slots, StartServing(s) PROVE CompositorAgrees'
    <2>1. UNCHANGED <<used, session, sessionsMade, client, shown>>
      BY <1>3 DEF StartServing, connVars, clientVars
    <2>2. \A t \in Slots : pc[t] \in {"create", "destroy"} => pc'[t] = pc[t]
      BY <1>3 DEF StartServing, Shape
    <2> QED BY <2>1, <2>2, QuietAgrees
  <1>4. ASSUME NEW s \in Slots, CreateSetState(s) PROVE CompositorAgrees'
    <2>1. ~client'[s].active \/ ~InFirst(s)'
      BY <1>4 DEF Fresh, InFirst, CreateSetState, Shape, connVars, clientVars
    <2>2. \A t \in Slots \ {s} :
            /\ used'[t] = used[t] /\ session'[t] = session[t] /\ client'[t] = client[t]
            /\ shown'[t] = shown[t] /\ pc'[t] = pc[t]
            /\ sessionsMade'[t] = sessionsMade[t]
      BY <1>4 DEF CreateSetState, Shape, connVars, clientVars
    <2> QED BY <2>1, <2>2, OwnAgrees
  <1>5. ASSUME NEW s \in Slots, DestroyCompositor(s) PROVE CompositorAgrees'
    <2>1. ~session'[s]
      BY <1>5 DEF DestroyCompositor, Shape, connVars, clientVars
    <2>2. \A t \in Slots \ {s} :
            /\ used'[t] = used[t] /\ session'[t] = session[t] /\ client'[t] = client[t]
            /\ shown'[t] = shown[t] /\ pc'[t] = pc[t]
            /\ sessionsMade'[t] = sessionsMade[t]
      BY <1>5 DEF DestroyCompositor, Shape, connVars, clientVars
    <2> QED BY <2>1, <2>2, OwnAgrees
  <1>6. ASSUME NEW s \in Slots, TellUsed(s) PROVE CompositorAgrees'
    <2>1. UNCHANGED <<used, session, sessionsMade, client, shown>>
      BY <1>6 DEF TellUsed, connVars, clientVars, GoTo, Mark
    <2>2. \A t \in Slots : pc[t] \in {"create", "destroy"} => pc'[t] = pc[t]
      BY <1>6 DEF TellUsed, Shape, GoTo, Mark
    <2> QED BY <2>1, <2>2, QuietAgrees
  <1>7. ASSUME NEW s \in Slots, TellUnused(s) PROVE CompositorAgrees'
    <2>1. UNCHANGED <<used, session, sessionsMade, client, shown>>
      BY <1>7 DEF TellUnused, connVars, clientVars, GoTo, Mark
    <2>2. \A t \in Slots : pc[t] \in {"create", "destroy"} => pc'[t] = pc[t]
      BY <1>7 DEF TellUnused, Shape, GoTo, Mark
    <2> QED BY <2>1, <2>2, QuietAgrees
  <1>8. ASSUME NEW s \in Slots, Shutdown(s) PROVE CompositorAgrees'
    <2>1. ~used'[s]
      BY <1>8 DEF Shutdown, Shape, connVars, clientVars
    <2>2. \A t \in Slots \ {s} :
            /\ used'[t] = used[t] /\ session'[t] = session[t] /\ client'[t] = client[t]
            /\ shown'[t] = shown[t] /\ pc'[t] = pc[t]
            /\ sessionsMade'[t] = sessionsMade[t]
      BY <1>8 DEF Shutdown, Shape, connVars, clientVars
    <2> QED BY <2>1, <2>2, OwnAgrees
  <1>9. ASSUME NEW s \in Slots, Cleanup(s) PROVE CompositorAgrees'
    <2>1. ~session'[s]
      BY <1>9 DEF Cleanup, Shape, connVars, clientVars
    <2>2. \A t \in Slots \ {s} :
            /\ used'[t] = used[t] /\ session'[t] = session[t] /\ client'[t] = client[t]
            /\ shown'[t] = shown[t] /\ pc'[t] = pc[t]
            /\ sessionsMade'[t] = sessionsMade[t]
      BY <1>9 DEF Cleanup, Shape, connVars, clientVars
    <2> QED BY <2>1, <2>2, OwnAgrees
  <1>10. ASSUME NEW s \in Slots, GiveBack(s) PROVE CompositorAgrees'
    <2>1. UNCHANGED <<used, session, sessionsMade, client, shown>>
      BY <1>10 DEF GiveBack, connVars, clientVars, CountDown, GoTo, Mark
    <2>2. \A t \in Slots : pc[t] \in {"create", "destroy"} => pc'[t] = pc[t]
      BY <1>10 DEF GiveBack, Shape, CountDown, GoTo, Mark
    <2> QED BY <2>1, <2>2, QuietAgrees
  <1>11. ASSUME NEW s \in Slots, GaveBack(s) PROVE CompositorAgrees'
    <2>1. UNCHANGED <<used, session, sessionsMade, client, shown>>
      BY <1>11 DEF GaveBack, connVars, clientVars, GoTo
    <2>2. \A t \in Slots : pc[t] \in {"create", "destroy"} => pc'[t] = pc[t]
      BY <1>11 DEF GaveBack, Shape, GoTo
    <2> QED BY <2>1, <2>2, QuietAgrees
  <1>12. ASSUME NEW s \in Slots, ExitCheck(s) PROVE CompositorAgrees'
    <2>1. UNCHANGED <<used, session, sessionsMade, client, shown>>
      BY <1>12 DEF ExitCheck, connVars, clientVars
    <2>2. \A t \in Slots : pc[t] \in {"create", "destroy"} => pc'[t] = pc[t]
      BY <1>12 DEF ExitCheck, Shape
    <2> QED BY <2>1, <2>2, QuietAgrees
  <1>13. ASSUME NEW s \in Slots, Deactivate(s) PROVE CompositorAgrees'
    <2>1. UNCHANGED <<used, session, sessionsMade>> /\ ~used[s] /\ \A t \in Slots \ {s} : pc'[t] = pc[t]
      BY <1>13 DEF Deactivate, connVars, Shape, Threads, ShuttingDown
    <2>2. PICK c \in [Slots -> Client] :
           /\ \A t \in Slots : used[t] => c[t] = client[t]
           /\ \/ client' = c /\ UNCHANGED shown
              \/ \E new \in Slots \cup {NoClient} : client' = Flushed(c, new) /\ shown' = Told(c, new)
      BY <1>13, DeactivateOutcome DEF PrimaryInv
    <2>3. CASE client' = c /\ UNCHANGED shown
      BY <2>1, <2>2, <2>3 DEF CompositorAgrees, ShownAsFlagged, InFirst
    <2>4. ASSUME NEW new \in Slots \cup {NoClient}, client' = Flushed(c, new), shown' = Told(c, new)
          PROVE  CompositorAgrees'
      BY <2>1, <2>4, FlushAgrees
    <2> QED BY <2>2, <2>3, <2>4
  <1>14. ASSUME NEW s \in Slots, CreateSession(s) PROVE CompositorAgrees'
    <2>1. PICK overlay \in BOOLEAN : client' = [client EXCEPT ![s].overlay = overlay]
      BY <1>14 DEF CreateSession
    <2>2. pc'[s] = "create"
      BY <1>14 DEF CreateSession, Shape
    <2>3. \A t \in Slots \ {s} :
            /\ used'[t] = used[t] /\ session'[t] = session[t] /\ client'[t] = client[t]
            /\ shown'[t] = shown[t] /\ pc'[t] = pc[t]
            /\ sessionsMade'[t] = sessionsMade[t]
      BY <1>14, <2>1 DEF CreateSession, Shape, connVars
    <2> QED BY <2>2, <2>3, OwnAgrees
  <1>15. ASSUME NEW s \in Slots, Activate(s) PROVE CompositorAgrees'
    <2>1. UNCHANGED <<pc, used, session, sessionsMade>>
      BY <1>15 DEF Activate, connVars
    <2>2. CASE client[s].overlay
      <3>1. /\ client' = [client EXCEPT ![s].active = TRUE, ![s].visible = TRUE]
            /\ shown' = [shown EXCEPT ![s] = TRUE]
        BY <1>15, <2>2 DEF Activate
      <3>2. shown'[s] = TRUE /\ client'[s].visible = TRUE
        BY <3>1 DEF Shape, Client
      <3>3. \A t \in Slots \ {s} :
              /\ used'[t] = used[t] /\ session'[t] = session[t] /\ client'[t] = client[t]
              /\ shown'[t] = shown[t] /\ pc'[t] = pc[t]
              /\ sessionsMade'[t] = sessionsMade[t]
        BY <2>1, <3>1 DEF Shape
      <3> QED BY <3>2, <3>3, OwnAgrees
    <2>3. CASE ~client[s].overlay
      <3>1. PICK c \in [Slots -> Client], new \in Slots :
              client' = Flushed(c, new) /\ shown' = Told(c, new)
        BY <1>15, <2>3, ActivateFlushes DEF PrimaryInv
      <3> QED BY <2>1, <3>1, FlushAgrees
    <2> QED BY <2>2, <2>3
  <1>16. ASSUME NEW s \in Slots, DestroySession(s) PROVE CompositorAgrees'
    <2>1. pc'[s] = "destroy"
      BY <1>16 DEF DestroySession, Shape, connVars, clientVars, Serving
    <2>2. \A t \in Slots \ {s} :
            /\ used'[t] = used[t] /\ session'[t] = session[t] /\ client'[t] = client[t]
            /\ shown'[t] = shown[t] /\ pc'[t] = pc[t]
            /\ sessionsMade'[t] = sessionsMade[t]
      BY <1>16 DEF DestroySession, Shape, connVars, clientVars, Serving
    <2> QED BY <2>1, <2>2, OwnAgrees
  <1>17. ASSUME NEW s \in Slots, MarkRefSpace(s) PROVE CompositorAgrees'
    <2>1. UNCHANGED <<used, session, sessionsMade, client, shown>>
      BY <1>17 DEF MarkRefSpace, connVars, clientVars, Serving, GoTo, Mark
    <2>2. \A t \in Slots : pc[t] \in {"create", "destroy"} => pc'[t] = pc[t]
      BY <1>17 DEF MarkRefSpace, Shape, Serving, GoTo, Mark
    <2> QED BY <2>1, <2>2, QuietAgrees
  <1>18. ASSUME NEW s \in Slots, UnmarkRefSpace(s) PROVE CompositorAgrees'
    <2>1. UNCHANGED <<used, session, sessionsMade, client, shown>>
      BY <1>18 DEF UnmarkRefSpace, connVars, clientVars, Serving, CountDown, GoTo, Mark
    <2>2. \A t \in Slots : pc[t] \in {"create", "destroy"} => pc'[t] = pc[t]
      BY <1>18 DEF UnmarkRefSpace, Shape, Serving, CountDown, GoTo, Mark
    <2> QED BY <2>1, <2>2, QuietAgrees
  <1>19. ASSUME NEW s \in Slots, LeaveLoop(s) PROVE CompositorAgrees'
    <2>1. UNCHANGED <<used, session, sessionsMade, client, shown>>
      BY <1>19 DEF LeaveLoop, connVars, clientVars
    <2>2. \A t \in Slots : pc[t] \in {"create", "destroy"} => pc'[t] = pc[t]
      BY <1>19 DEF LeaveLoop, Shape
    <2> QED BY <2>1, <2>2, QuietAgrees
  <1>20. ASSUME UNCHANGED <<used, session, sessionsMade, client, pc, shown>> PROVE
      CompositorAgrees'
    BY <1>20 DEF CompositorAgrees, ShownAsFlagged, InFirst
  <1>21. QED
    BY <1>1, <1>2, <1>3, <1>4, <1>5, <1>6, <1>7, <1>8, <1>9, <1>10, <1>11,
      <1>12, <1>13, <1>14, <1>15, <1>16, <1>17, <1>18, <1>19, <1>20 DEF
      clientVars, connVars, Next, Calls, ClientContinues, Exit, CountDown, vars, activeVars, exitVars,
      spaceVars, SetPrimaryClient, DelayOver, DelayedExit

\* The flags at the start.
LEMMA InitPrimary == Init => PrimaryInv
  <1> SUFFICES ASSUME Init PROVE PrimaryInv
    OBVIOUS
  <1>1. Fresh /\ CompositorAgrees
    BY DEF Init, Fresh, CompositorAgrees, ShownAsFlagged, NewClient
  <1>2. Fallbacks(client) = {} /\ Flagged = {}
    BY DEF Init, Fallbacks, Flagged
  <1>3. Followed
    BY <1>2 DEF Init, Followed
  <1> QED BY <1>1, <1>3, InitCount DEF PrimaryInv

\* Every step keeps them.
LEMMA NextPrimary == PrimaryInv /\ [Next]_vars => PrimaryInv'
  BY NextCount, FreshStep, FollowedStep, AgreesStep DEF PrimaryInv

\* The inductive invariant of the flags.
THEOREM PrimaryInvariant == Spec => []PrimaryInv
  <1> QED BY InitPrimary, NextPrimary, PTL DEF Spec

\* Of the clients in their first session never two applications have the flags
\* of the primary one; and one has them as soon as any is active, when nobody is
\* going away and the client chosen last is not in a later session.
THEOREM OnePrimary == Spec => []OneApplicationIsPrimary
  <1>1. PrimaryInv => OneApplicationIsPrimary
    <2> SUFFICES ASSUME PrimaryInv PROVE OneApplicationIsPrimary
      OBVIOUS
    <2> USE DEF PrimaryInv, CountInv
    <2> DEFINE first == {s \in Slots : used[s] /\ ~client[s].overlay /\ client[s].visible /\ InFirst(s)}
    <2>1. /\ first \subseteq {lastActive} /\ Cardinality({lastActive}) = 1
          /\ Cardinality({}) = 0
      BY FS_Singleton, FS_EmptySet DEF Followed, Flagged
    <2>2. first = {} \/ first = {lastActive}
      BY <2>1
    <2>3. Cardinality(first) <= 1
      BY <2>1, <2>2
    <2>4. ASSUME \A s \in Slots : pc[s] \notin ShuttingDown,
                 lastActive # NoClient => InFirst(lastActive)
          PROVE  Cardinality(first) = IF \E s \in Fallbacks(client) : InFirst(s) THEN 1 ELSE 0
      <3>1. lastActive # NoClient => /\ lastActive \in first /\ lastActive \in Fallbacks(client)
                                     /\ InFirst(lastActive)
        BY <2>4 DEF Shape, Followed, Flagged, Fallbacks, IsMainApp
      <3>2. CASE \E s \in Fallbacks(client) : InFirst(s)
        <4>1. first = {lastActive}
          BY <2>1, <3>1, <3>2 DEF Followed
        <4> QED BY <2>1, <3>2, <4>1
      <3>3. CASE ~\E s \in Fallbacks(client) : InFirst(s)
        <4>1. lastActive = NoClient
          BY <3>1, <3>3
        <4>2. first = {}
          BY <2>1, <4>1, SetsAreFinite
        <4> QED BY <2>1, <3>3, <4>2
      <3> QED BY <3>2, <3>3
    <2> HIDE DEF first
    <2>5. /\ Cardinality(first) <= 1
          /\ /\ \A s \in Slots : pc[s] \notin ShuttingDown
             /\ lastActive # NoClient => InFirst(lastActive)
             => Cardinality(first) = (IF \E s \in Fallbacks(client) : InFirst(s) THEN 1 ELSE 0)
      BY <2>3, <2>4
    <2> QED BY <2>5 DEF OneApplicationIsPrimary, first
  <1> QED BY <1>1, PrimaryInvariant, PTL

\* The compositor shows an active client in its first session exactly when its
\* flags say so.
THEOREM CompositorAgreement == Spec => []CompositorAgrees
  <1>1. PrimaryInv => CompositorAgrees
    BY DEF PrimaryInv
  <1> QED BY <1>1, PrimaryInvariant, PTL
=============================================================================
