-------------------------- MODULE Swapchain_proofs --------------------------
(***************************************************************************)
(* Proofs about the swapchains of a client: every image is in one place,   *)
(* every reference is counted, nothing that is drawn from is freed, and    *)
(* the images of frames on their way to the display are left alone.        *)
(*                                                                         *)
(* The last one needs the order of things: frames leave the two slots      *)
(* before the delivered one in order (Numbered), and the images of a       *)
(* swapchain are handed out in turn, so that an image that comes round     *)
(* again was last submitted two frames ago (Rotation).                     *)
(***************************************************************************)
EXTENDS Swapchain, FiniteSetTheorems, SequenceTheorems, TLAPS

Layers == {l \in Swapchains \X (0..2) : l[2] \in Images(l[1])}
ImageStates == {"ready", "acquired", "waited"}
One(b) == IF b THEN 1 ELSE 0

\* The types, without the bounds that depend on the rest.
Shape ==
  /\ life \in [Swapchains -> {"none", "live", "stacked", "freed"}]
  /\ refs \in [Swapchains -> Int]
  /\ handle \in [Swapchains -> BOOLEAN] /\ waiting \in [Swapchains -> BOOLEAN]
  /\ unsent \in [Swapchains -> BOOLEAN] /\ oneAtATime \in [Swapchains -> BOOLEAN]
  /\ DOMAIN available = Swapchains /\ DOMAIN acquired = Swapchains
  /\ DOMAIN image = Swapchains /\ DOMAIN failed = Swapchains
  /\ inflight \in [Swapchains -> Int] /\ released \in [Swapchains -> Int]
  /\ acquiredNum \in [Swapchains -> Int]
  /\ \A s \in Swapchains :
       /\ available[s] \in Seq(Images(s)) /\ acquired[s] \in Seq(Images(s))
       /\ image[s] \in [Images(s) -> ImageStates] /\ failed[s] \subseteq Images(s)
       /\ {inflight[s], released[s]} \subseteq Images(s) \cup {None}
  /\ layers \in [Frames -> SUBSET Layers] /\ drawing \subseteq Layers
  /\ client \in {"listed", "unlisted", "closed"}
  /\ renderPc \in {"idle", "transfer", "drawing", "gone"}

\* The frames are numbered from 1 without gaps; the newest one or two of them
\* are in flight, and a frame is in one place.
Newest == Cardinality(Pipeline!Known \ {0})
Numbered ==
  /\ inFlight \subseteq Frames /\ past \subseteq Frames /\ shown \in Frames \cup {0}
  /\ complete \subseteq inFlight
  /\ Pipeline!Known \ {0} = 1..Newest /\ Newest \in Nat
  /\ inFlight \in {{}, {Newest}, {Newest - 1, Newest}}
  /\ inFlight \cap past = {} /\ shown \notin inFlight \cup past

\* Layers are in the slots of frames in flight and of the delivered one, and
\* the client that is closed has none left.
Slots == inFlight \cup ({shown} \ {0})
SlotsHoldLayers ==
  /\ \A f \in Frames \ Slots : layers[f] = {}
  /\ client # "listed" => \A s \in Swapchains : ~handle[s]
  /\ client = "closed" => Slots = {}

\* Where the images of a swapchain are, as long as the application has it.  An
\* image whose release failed lies in the compositor's fifo until it is met.
Stuck(s) == failed[s] \cap ToSet(available[s])
Turns(s) ==
  /\ IsInjective(available[s]) /\ IsInjective(acquired[s])
  /\ \A i \in Images(s) :
       /\ image[s][i] = "ready" <=> i \in ToSet(available[s]) /\ i \notin failed[s]
       /\ i \in ToSet(acquired[s]) <=> image[s][i] = "acquired" /\ i \notin failed[s]
       /\ i = inflight[s] <=> image[s][i] = "waited" /\ i \notin failed[s]
  /\ Len(available[s]) + acquiredNum[s] = ImageCount(s) + Cardinality(Stuck(s))
  /\ acquiredNum[s] = Len(acquired[s]) + One(inflight[s] # None) + Cardinality(failed[s])
  /\ acquiredNum[s] <= ImageCount(s)
  /\ released[s] # None => image[s][released[s]] = "ready"
  /\ waiting[s] => acquired[s] # <<>> /\ inflight[s] = None
Unused(s) ==
  /\ \A i \in Images(s) : image[s][i] = "ready"
  /\ acquired[s] = <<>> /\ acquiredNum[s] = 0 /\ inflight[s] = None
  /\ released[s] = None /\ ~waiting[s] /\ ~unsent[s] /\ failed[s] = {}
ImagesInTurn == \A s \in Swapchains : IF handle[s] THEN Turns(s) ELSE Unused(s)

\* The references of a swapchain, and what its life says of them.
Users(s) == {f \in Frames : Uses(f, s)}
Counted == \A s \in Swapchains : refs[s] = One(handle[s]) + Cardinality(Users(s))
Lives ==
  /\ \A s \in Swapchains : life[s] = "live" <=> refs[s] > 0
  /\ renderPc # "drawing" => drawing = {}
  /\ \A l \in drawing : life[l[1]] # "freed"
  /\ renderPc = "gone" => client = "closed" /\ \A s \in Swapchains : life[s] \in {"none", "freed"}

\* The images that the newest k frames, where still in flight, do not use.
Aged(s, k) == {i \in Images(s) : \A f \in inFlight : <<s, i>> \in layers[f] => f + k <= Newest}

\* With three images and one at a time: the image that is handed out next, or
\* in the hands of the application, was last submitted two frames ago, the one
\* after it one frame ago, and what xrEndFrame submits is the newest.
Rotates(s) ==
  /\ acquiredNum[s] \in {0, 1}
  /\ released[s] \in {None, available[s][3 - acquiredNum[s]]}
  /\ \A i \in Images(s) : image[s][i] # "ready" => i \in Aged(s, 2)
  /\ acquiredNum[s] = 1 => ~unsent[s] /\ available[s][1] \in Aged(s, 1)
  /\ acquiredNum[s] = 0 /\ unsent[s] =>
       available[s][3] \in Aged(s, 2) /\ available[s][1] \in Aged(s, 1)
  /\ acquiredNum[s] = 0 /\ ~unsent[s] =>
       available[s][1] \in Aged(s, 2) /\ available[s][2] \in Aged(s, 1)

\* The one image of a static swapchain is not handed out once it was released.
Submitted(s) == \A f \in Frames : <<s, 0>> \in layers[f] => released[s] = 0
InRotation(s) == IF s \in Static THEN Submitted(s) ELSE oneAtATime[s] => Rotates(s)
Rotation == \A s \in Swapchains : handle[s] => InRotation(s)

ChainInv ==
  Shape /\ Numbered /\ SlotsHoldLayers /\ ImagesInTurn /\ Counted /\ Lives /\ Rotation

(***************************************************************************)
(* Facts about sets and sequences.                                         *)
(***************************************************************************)
\* Two sets that differ in one element at most: their sizes.
LEMMA SetChange ==
  ASSUME NEW A, NEW B, NEW x, IsFiniteSet(A), A \ {x} = B \ {x}
  PROVE  /\ IsFiniteSet(B) /\ Cardinality(A) \in Nat /\ Cardinality(B) \in Nat
         /\ Cardinality(B) = Cardinality(A) - One(x \in A) + One(x \in B)
  <1>1. /\ IsFiniteSet(A \ {x}) /\ Cardinality(A) \in Nat /\ Cardinality(A \ {x}) \in Nat
        /\ Cardinality(A \ {x}) = Cardinality(A) - One(x \in A)
    BY FS_RemoveElement, FS_CardinalityType DEF One
  <1>2. CASE x \in B
    <2>1. B = (A \ {x}) \cup {x} /\ x \notin A \ {x}
      BY <1>2
    <2>2. IsFiniteSet(B) /\ Cardinality(B) = Cardinality(A \ {x}) + 1
      BY <2>1, <1>1, FS_AddElement
    <2> QED BY <2>2, <1>1, <1>2 DEF One
  <1>3. CASE x \notin B
    <2>1. B = A \ {x}
      BY <1>3
    <2> QED BY <2>1, <1>1, <1>3 DEF One
  <1> QED BY <1>2, <1>3

\* Taking the first element off a fifo without duplicates.
LEMMA TakeFirst ==
  ASSUME NEW S, NEW q \in Seq(S), q # <<>>, IsInjective(q)
  PROVE  /\ Head(q) = q[1] /\ Head(q) \in S /\ Head(q) \in ToSet(q)
         /\ Tail(q) \in Seq(S) /\ IsInjective(Tail(q))
         /\ ToSet(Tail(q)) = ToSet(q) \ {Head(q)}
         /\ Len(q) \in Nat \ {0} /\ Len(Tail(q)) = Len(q) - 1
         /\ \A k \in 1..(Len(q) - 1) : Tail(q)[k] = q[k + 1]
  <1>1. /\ Head(q) = q[1] /\ Head(q) \in S /\ Tail(q) \in Seq(S)
        /\ Len(q) \in Nat \ {0} /\ DOMAIN q = 1..Len(q)
        /\ Len(Tail(q)) = Len(q) - 1 /\ DOMAIN Tail(q) = 1..(Len(q) - 1)
        /\ \A k \in 1..(Len(q) - 1) : Tail(q)[k] = q[k + 1]
    BY HeadTailProperties, LenProperties, EmptySeq
  <1>2. IsInjective(Tail(q))
    BY <1>1 DEF IsInjective
  <1>3. Head(q) \in ToSet(q)
    BY <1>1 DEF ToSet
  <1>4. ASSUME NEW x \in ToSet(Tail(q)) PROVE x \in ToSet(q) \ {Head(q)}
    <2>1. PICK k \in 1..(Len(q) - 1) : x = q[k + 1]
      BY <1>1 DEF ToSet
    <2>2. k + 1 \in DOMAIN q /\ 1 \in DOMAIN q /\ k + 1 # 1
      BY <1>1
    <2> QED BY <2>1, <2>2, <1>1 DEF ToSet, IsInjective
  <1>5. ASSUME NEW x \in ToSet(q) \ {Head(q)} PROVE x \in ToSet(Tail(q))
    <2>1. PICK k \in 1..Len(q) : x = q[k]
      BY <1>1 DEF ToSet
    <2>2. k # 1
      BY <2>1, <1>1
    <2>3. k - 1 \in 1..(Len(q) - 1) /\ Tail(q)[k - 1] = q[k]
      BY <2>2, <1>1
    <2> QED BY <2>1, <2>3, <1>1 DEF ToSet
  <1> QED BY <1>1, <1>2, <1>3, <1>4, <1>5

\* Putting a new element at the end of a fifo without duplicates.
LEMMA PutLast ==
  ASSUME NEW S, NEW q \in Seq(S), NEW e \in S, e \notin ToSet(q), IsInjective(q)
  PROVE  /\ Append(q, e) \in Seq(S) /\ IsInjective(Append(q, e))
         /\ ToSet(Append(q, e)) = ToSet(q) \cup {e}
         /\ Len(q) \in Nat /\ Len(Append(q, e)) = Len(q) + 1
         /\ \A k \in 1..Len(q) : Append(q, e)[k] = q[k]
         /\ Append(q, e)[Len(q) + 1] = e
  <1>1. /\ Append(q, e) \in Seq(S) /\ Len(q) \in Nat /\ Len(Append(q, e)) = Len(q) + 1
        /\ DOMAIN q = 1..Len(q) /\ DOMAIN Append(q, e) = 1..(Len(q) + 1)
        /\ \A k \in 1..Len(q) : Append(q, e)[k] = q[k]
        /\ Append(q, e)[Len(q) + 1] = e
    BY AppendProperties, LenProperties
  <1>2. \A k \in 1..Len(q) : q[k] # e
    BY <1>1 DEF ToSet
  <1>3. IsInjective(Append(q, e))
    <2> SUFFICES ASSUME NEW a \in 1..(Len(q) + 1), NEW b \in 1..(Len(q) + 1),
                        Append(q, e)[a] = Append(q, e)[b]
                 PROVE  a = b
      BY <1>1 DEF IsInjective
    <2>1. CASE a \in 1..Len(q) /\ b \in 1..Len(q)
      BY <2>1, <1>1 DEF IsInjective
    <2>2. CASE a = Len(q) + 1 \/ b = Len(q) + 1
      BY <2>2, <1>1, <1>2
    <2> QED BY <2>1, <2>2, <1>1
  <1>4. ToSet(Append(q, e)) = ToSet(q) \cup {e}
    <2>1. 1..(Len(q) + 1) = 1..Len(q) \cup {Len(q) + 1}
      BY <1>1
    <2> QED BY <2>1, <1>1 DEF ToSet
  <1> QED BY <1>1, <1>3, <1>4

\* The empty fifo.
LEMMA EmptyFifo ==
  /\ \A S : <<>> \in Seq(S) /\ Len(<<>>) = 0
  /\ ToSet(<<>>) = {} /\ IsInjective(<<>>)
  /\ \A S : \A q \in Seq(S) : Len(q) \in Nat /\ (q # <<>> <=> Len(q) > 0)
  <1>1. \A S : \A q \in Seq(S) : Len(q) \in Nat /\ (q # <<>> <=> Len(q) > 0)
    BY EmptySeq, LenProperties
  <1>2. ToSet(<<>>) = {} /\ IsInjective(<<>>)
    BY DEF ToSet, IsInjective
  <1> QED BY <1>1, <1>2, EmptySeq

\* A swapchain has the image 0, and three images unless it is static.
LEMMA ImageNumbers ==
  \A s : /\ Images(s) \subseteq 0..2 /\ 0 \in Images(s) /\ None \notin Images(s)
         /\ IsFiniteSet(Images(s)) /\ Cardinality(Images(s)) = ImageCount(s)
         /\ s \in Static => ImageCount(s) = 1 /\ Images(s) = {0}
         /\ s \notin Static => ImageCount(s) = 3 /\ Images(s) = 0..2
  <1> SUFFICES ASSUME NEW s
               PROVE /\ Images(s) \subseteq 0..2 /\ 0 \in Images(s) /\ None \notin Images(s)
                     /\ IsFiniteSet(Images(s)) /\ Cardinality(Images(s)) = ImageCount(s)
                     /\ s \in Static => ImageCount(s) = 1 /\ Images(s) = {0}
                     /\ s \notin Static => ImageCount(s) = 3 /\ Images(s) = 0..2
    OBVIOUS
  <1>1. ImageCount(s) = (IF s \in Static THEN 1 ELSE 3) /\ ImageCount(s) \in Nat
    BY DEF ImageCount
  <1>2. Images(s) = 0..(ImageCount(s) - 1)
    BY DEF Images
  <1>3. IsFiniteSet(Images(s)) /\ Cardinality(Images(s)) = ImageCount(s)
    BY <1>1, <1>2, FS_Interval
  <1> QED BY <1>1, <1>2, <1>3 DEF None


(***************************************************************************)
(* The frames.                                                             *)
(***************************************************************************)
\* A step that retires the frames F: their slots are cleared, and no frame
\* enters one.
Retire(F) ==
  /\ F \subseteq Frames /\ ClearSlots(F)
  /\ Slots' = Slots \ F /\ inFlight' \subseteq inFlight
  /\ Pipeline!Known' \ {0} = Pipeline!Known \ {0}

\* Showing a frame retires the one that was shown before.
LEMMA RetireShow ==
  ASSUME Numbered, NEW f \in inFlight, Pipeline!Show(f), ClearSlots({shown} \ {0})
  PROVE  Retire({shown} \ {0})
  <1>1. 0 \notin Frames
    BY DEF Frames
  <1> QED BY <1>1 DEF Pipeline!Show, Retire, Numbered, Slots, Pipeline!Known

\* Hiding the client retires the frame that is shown.
LEMMA RetireHide ==
  ASSUME Numbered, Pipeline!Hide, ClearSlots({shown})
  PROVE  Retire({shown})
  <1>1. 0 \notin Frames
    BY DEF Frames
  <1> QED BY <1>1 DEF Pipeline!Hide, Retire, Numbered, Slots, Pipeline!Known

\* Which frames each step of the pipeline retires.
LEMMA Retires ==
  ASSUME Numbered
  PROVE  /\ \A old, new \in Frames : Replace(old, new) => Retire({old})
         /\ Close => Retire(Pipeline!Known \ (past \cup {0}))
         /\ Deliver => Retire({shown} \ {0}) \/ UNCHANGED <<frameVars, refs, life, layers>>
         /\ TransferLayers => Retire({shown}) \/ UNCHANGED <<frameVars, refs, life, layers>>
  <1> USE DEF Numbered, Slots, Pipeline!Known
  <1>0. 0 \notin Frames
    BY DEF Frames
  <1>1. ASSUME NEW old \in Frames, NEW new \in Frames, Replace(old, new)
        PROVE  Retire({old})
    BY <1>0, <1>1 DEF Replace, Pipeline!Replace, Retire
  <1>2. ASSUME Close PROVE Retire(Pipeline!Known \ (past \cup {0}))
    <2>1. Pipeline!Close /\ ClearSlots(Pipeline!Known \ (past \cup {0}))
      BY <1>2 DEF Close
    <2> QED BY <1>0, <2>1 DEF Pipeline!Close, Retire
  <1> QED BY <1>1, <1>2, RetireShow, RetireHide DEF Deliver, TransferLayers

\* The frame xrEndFrame makes is the next one.
LEMMA NextFrame ==
  ASSUME Numbered, NEW S, EndFrame(S)
  PROVE  /\ Newest + 1 \in Frames /\ Newest \in Nat /\ Newest + 1 \notin Slots
         /\ inFlight' = inFlight \cup {Newest + 1} /\ UNCHANGED <<complete, shown, past>>
         /\ Newest' = Newest + 1 /\ Pipeline!Known' \ {0} = 1..(Newest + 1)
         /\ inFlight \in {{}, {Newest}}
         /\ layers' = [layers EXCEPT ![Newest + 1] = {<<s, released[s]>> : s \in S}]
         /\ refs' = [s \in Swapchains |-> refs[s] + IF s \in S THEN 1 ELSE 0]
         /\ unsent' = [s \in Swapchains |-> unsent[s] /\ s \notin S]
         /\ client = "listed" /\ S \subseteq Submittable
         /\ UNCHANGED <<life, available, oxrVars, client, renderVars, failed, oneAtATime>>
  <1>1. /\ Newest + 1 \in Frames /\ Cardinality(inFlight) < 2 /\ Pipeline!Submit(Newest + 1)
        /\ layers' = [layers EXCEPT ![Newest + 1] = {<<s, released[s]>> : s \in S}]
        /\ refs' = [s \in Swapchains |-> refs[s] + IF s \in S THEN 1 ELSE 0]
        /\ unsent' = [s \in Swapchains |-> unsent[s] /\ s \notin S]
        /\ client = "listed" /\ S \subseteq Submittable
        /\ UNCHANGED <<life, available, oxrVars, client, renderVars, failed, oneAtATime>>
    BY DEF EndFrame, Newest
  <1>2. inFlight' = inFlight \cup {Newest + 1} /\ UNCHANGED <<complete, shown, past>>
    BY <1>1 DEF Pipeline!Submit
  <1>3. Newest \in Nat /\ Pipeline!Known \ {0} = 1..Newest
    BY DEF Numbered
  <1>4. Pipeline!Known' \ {0} = 1..(Newest + 1)
    BY <1>2, <1>3 DEF Pipeline!Known
  <1>5. Newest' = Newest + 1
    <2>1. Cardinality(1..(Newest + 1)) = Newest + 1
      BY <1>3, FS_Interval
    <2> QED BY <1>4, <2>1 DEF Newest
  <1>6. inFlight # {Newest - 1, Newest}
    <2>1. SUFFICES ASSUME inFlight = {Newest - 1} \cup {Newest} PROVE FALSE
      OBVIOUS
    <2>2. Cardinality(inFlight) = 2
      <3>1. IsFiniteSet({Newest - 1}) /\ Cardinality({Newest - 1}) = 1
        BY FS_Singleton
      <3>2. Newest \notin {Newest - 1}
        BY <1>3
      <3> QED BY <2>1, <3>1, <3>2, FS_AddElement
    <2> QED BY <1>1, <2>2
  <1>7. Newest + 1 \notin Slots
    BY <1>3 DEF Slots, Pipeline!Known
  <1> QED BY <1>1, <1>2, <1>3, <1>4, <1>5, <1>6, <1>7 DEF Numbered


\* A step that retires frames in one of the ways of the pipeline keeps them
\* numbered: the older of two frames in flight is the one that leaves.
LEMMA NumberedRetire ==
  ASSUME Numbered, NEW F, Retire(F), F \subseteq Slots,
         inFlight' \in {{}, {Newest}, inFlight}, complete' \subseteq inFlight',
         past' = past \cup F, shown' \in Slots \cup {0}, shown' \notin F, shown' \notin inFlight'
  PROVE  Numbered'
  <1>1. Newest' = Newest
    BY DEF Retire, Newest
  <1>2. /\ F \subseteq Frames /\ Slots' = Slots \ F /\ inFlight' \subseteq inFlight
        /\ Pipeline!Known' \ {0} = Pipeline!Known \ {0}
    BY DEF Retire
  <1>3. 0 \notin Frames /\ inFlight' \cap F = {}
    BY <1>2 DEF Frames, Slots
  <1>4. past' \cap inFlight' = {} /\ shown' \notin past'
    BY <1>2, <1>3 DEF Numbered, Slots
  <1>5. past' \subseteq Frames /\ shown' \in Frames \cup {0} /\ inFlight' \subseteq Frames
    BY <1>2 DEF Numbered, Slots
  <1> QED BY <1>1, <1>2, <1>4, <1>5 DEF Numbered

\* The frames in flight are the newest ones: frames are shown in order, and one
\* is only replaced by a newer one.
LEMMA NumberedStep == ChainInv /\ [Next]_vars => Numbered'
  <1> SUFFICES ASSUME ChainInv, [Next]_vars PROVE Numbered'
    OBVIOUS
  <1> USE DEF ChainInv, frameVars
  <1>1. ASSUME NEW S \in SUBSET Swapchains, EndFrame(S) PROVE Numbered'
    <2>1. /\ Newest + 1 \in Frames /\ Newest \in Nat /\ Newest' = Newest + 1
          /\ inFlight' = inFlight \cup {Newest + 1} /\ UNCHANGED <<complete, shown, past>>
          /\ Pipeline!Known' \ {0} = 1..(Newest + 1) /\ inFlight \in {{}, {Newest}}
          /\ Newest + 1 \notin Slots
      BY <1>1, NextFrame
    <2>2. Newest + 1 \notin past
      BY <2>1 DEF Numbered, Pipeline!Known
    <2>3. inFlight' \in {{}, {Newest'}, {Newest' - 1, Newest'}}
      BY <2>1
    <2>4. 0 # Newest + 1 /\ 0 \notin inFlight
      BY <2>1 DEF Numbered, Frames
    <2> QED BY <2>1, <2>2, <2>3, <2>4 DEF Numbered, Slots
  <1>2. ASSUME NEW f \in Frames, Complete(f) PROVE Numbered'
    BY <1>2 DEF Complete, Pipeline!Complete, Numbered, Newest, Pipeline!Known
  <1>3. ASSUME NEW old \in Frames, NEW new \in Frames, Replace(old, new) PROVE
        Numbered'
    <2>1. Retire({old}) /\ Pipeline!Replace(old, new)
      BY <1>3, Retires DEF Replace
    <2>2. inFlight = {Newest - 1, Newest} /\ old = Newest - 1
      BY <2>1 DEF Pipeline!Replace, Numbered, Frames
    <2>3. inFlight' = {Newest} /\ Newest - 1 # Newest /\ shown \notin inFlight
      BY <2>1, <2>2 DEF Pipeline!Replace, Numbered
    <2>4. /\ complete' \subseteq inFlight' /\ past' = past \cup {old} /\ shown' = shown
          /\ {old} \subseteq Slots
      BY <2>1 DEF Pipeline!Replace, Numbered, Slots
    <2> QED BY <2>1, <2>2, <2>3, <2>4, NumberedRetire DEF Slots
  <1>4. ASSUME Close PROVE Numbered'
    <2> DEFINE F == Pipeline!Known \ (past \cup {0})
    <2>1. Retire(F) /\ Pipeline!Close
      BY <1>4, Retires DEF Close
    <2>2. F \subseteq Slots /\ past' = past \cup F
      BY <2>1 DEF Pipeline!Close, Pipeline!Known, Slots, Numbered, Frames
    <2>3. inFlight' = {} /\ complete' = {} /\ shown' = 0
      BY <2>1 DEF Pipeline!Close
    <2> HIDE DEF F
    <2>4. 0 \notin F
      BY DEF F
    <2> QED BY <2>1, <2>2, <2>3, <2>4, NumberedRetire
  <1>5. ASSUME Deliver PROVE Numbered'
    <2>1. CASE UNCHANGED frameVars
      BY <2>1 DEF frameVars, Numbered, Newest, Pipeline!Known
    <2>2. ASSUME NEW f \in inFlight, Pipeline!Show(f), ClearSlots({shown} \ {0})
          PROVE  Numbered'
      <3> DEFINE F == {shown} \ {0}
      <3>1. Retire(F)
        BY <2>2, RetireShow
      <3>2. /\ shown' = f /\ inFlight' = inFlight \ {f} /\ complete' = complete \ {f}
            /\ past' = past \cup F /\ \A g \in inFlight : f <= g
        BY <2>2 DEF Pipeline!Show
      <3>3. inFlight' \in {{}, {Newest}}
        BY <3>2 DEF Numbered
      <3>4. /\ shown' \in Slots /\ shown' \notin F /\ shown' \notin inFlight'
            /\ F \subseteq Slots /\ complete' \subseteq inFlight'
        BY <3>2 DEF Numbered, Slots
      <3> HIDE DEF F
      <3> QED BY <3>1, <3>2, <3>3, <3>4, NumberedRetire
    <2> QED BY <1>5, <2>1, <2>2 DEF Deliver
  <1>6. ASSUME TransferLayers PROVE Numbered'
    <2>1. CASE UNCHANGED frameVars
      BY <2>1 DEF frameVars, Numbered, Newest, Pipeline!Known
    <2>2. ASSUME Pipeline!Hide, ClearSlots({shown})
          PROVE  Numbered'
      <3>1. Retire({shown})
        BY <2>2, RetireHide
      <3>2. /\ shown' = 0 /\ inFlight' = inFlight /\ complete' = complete
            /\ past' = past \cup {shown} /\ shown # 0
        BY <2>2 DEF Pipeline!Hide
      <3>3. {shown} \subseteq Slots /\ 0 \notin inFlight
        BY <3>2 DEF Slots, Numbered, Frames
      <3> QED BY <3>1, <3>2, <3>3, NumberedRetire DEF Numbered
    <2> QED BY <1>6, <2>1, <2>2 DEF TransferLayers
  <1>7. ASSUME UNCHANGED <<inFlight, complete, shown, past>> PROVE Numbered'
    BY <1>7 DEF Numbered, Newest, Pipeline!Known
  <1>8. QED
    BY <1>1, <1>2, <1>3, <1>4, <1>5, <1>6, <1>7 DEF Next, vars, compVars,
      oxrVars, renderVars, histVars, Create, Acquire, AcquireFails, BeginWait,
      EndWait, WaitTimesOut, WaitFails, Release, ReleaseFails, DestroyHandle, Unlist, LayerCommit, DestroySystem


(***************************************************************************)
(* Types and slots.                                                        *)
(***************************************************************************)
\* Clearing slots keeps the types, and drops references without adding any.
LEMMA ClearTypes ==
  ASSUME Shape, NEW F, Retire(F)
  PROVE  /\ layers' \in [Frames -> SUBSET Layers] /\ refs' \in [Swapchains -> Int]
         /\ life' \in [Swapchains -> {"none", "live", "stacked", "freed"}]
         /\ \A f \in Frames : layers'[f] = IF f \in F THEN {} ELSE layers[f]
  <1>1. \A s : IsFiniteSet({f \in F : Uses(f, s)}) /\ Cardinality({f \in F : Uses(f, s)}) \in Int
    <2>1. IsFiniteSet(Frames)
      BY SwapchainAssumption, FS_Interval DEF Frames
    <2>2. \A s : {f \in F : Uses(f, s)} \subseteq Frames
      BY DEF Retire
    <2> QED BY <2>1, <2>2, FS_Subset, FS_CardinalityType
  <1>2. layers' = [f \in Frames |-> IF f \in F THEN {} ELSE layers[f]]
    BY DEF Retire, ClearSlots
  <1>3. Drop([s \in Swapchains |-> Cardinality({f \in F : Uses(f, s)})])
    BY DEF Retire, ClearSlots
  <1>4. /\ refs' = [s \in Swapchains |-> refs[s] - Cardinality({f \in F : Uses(f, s)})]
        /\ life' \in [Swapchains -> {"none", "live", "stacked", "freed"}]
    BY <1>3 DEF Drop, Shape
  <1>5. refs' \in [Swapchains -> Int]
    <2>1. \A s \in Swapchains : refs[s] - Cardinality({f \in F : Uses(f, s)}) \in Int
      <3> SUFFICES ASSUME NEW s \in Swapchains
                   PROVE  refs[s] - Cardinality({f \in F : Uses(f, s)}) \in Int
        OBVIOUS
      <3>1. Cardinality({f \in F : Uses(f, s)}) \in Int
        BY <1>1
      <3>2. refs[s] \in Int
        BY DEF Shape
      <3> QED BY <3>1, <3>2
    <2> QED BY <1>4, <2>1
  <1>6. layers' \in [Frames -> SUBSET Layers]
    BY <1>2 DEF Shape
  <1> QED BY <1>2, <1>4, <1>5, <1>6


\* The fifo of a new swapchain.
LEMMA NewFifo ==
  ASSUME NEW s
  PROVE  LET q == [k \in 1..ImageCount(s) |-> k - 1] IN
           /\ q \in Seq(Images(s)) /\ Len(q) = ImageCount(s) /\ IsInjective(q)
           /\ ToSet(q) = Images(s) /\ q # <<>>
  <1> DEFINE q == [k \in 1..ImageCount(s) |-> k - 1]
  <1>1. ImageCount(s) \in Nat \ {0} /\ Images(s) = 0..(ImageCount(s) - 1)
    BY DEF ImageCount, Images
  <1>2. q \in [1..ImageCount(s) -> Images(s)]
    BY <1>1
  <1>3. q \in Seq(Images(s)) /\ Len(q) = ImageCount(s)
    <2>1. q \in Seq(Images(s))
      BY <1>1, <1>2, SeqDef
    <2>2. DOMAIN q = 1..ImageCount(s) /\ DOMAIN q = 1..Len(q) /\ Len(q) \in Nat
      BY <2>1, LenProperties
    <2> QED BY <1>1, <2>1, <2>2
  <1>4. IsInjective(q)
    BY <1>1 DEF IsInjective
  <1>5. ToSet(q) = Images(s)
    <2>1. \A i \in Images(s) : i + 1 \in DOMAIN q /\ q[i + 1] = i
      BY <1>1
    <2>2. DOMAIN q = 1..ImageCount(s) /\ \A k \in DOMAIN q : q[k] \in Images(s)
      BY <1>2
    <2>3. ToSet(q) \subseteq Images(s)
      BY <2>2 DEF ToSet
    <2>4. Images(s) \subseteq ToSet(q)
      BY <2>1 DEF ToSet
    <2> QED BY <2>3, <2>4
  <1> QED BY <1>1, <1>3, <1>4, <1>5, EmptyFifo

\* The numbers of images in the places of a swapchain.
Numbers(s) ==
  /\ Len(available[s]) \in Nat /\ Len(acquired[s]) \in Nat /\ ImageCount(s) \in Nat
  /\ IsFiniteSet(failed[s]) /\ Cardinality(failed[s]) \in Nat
  /\ IsFiniteSet(Stuck(s)) /\ Cardinality(Stuck(s)) \in Nat
  /\ Cardinality(failed[s]) = 0 => Cardinality(Stuck(s)) = 0
  /\ One(inflight[s] # None) \in Nat /\ acquiredNum[s] \in 0..ImageCount(s)
  /\ Len(available[s]) + acquiredNum[s] = ImageCount(s) + Cardinality(Stuck(s))
  /\ acquiredNum[s] = Len(acquired[s]) + One(inflight[s] # None) + Cardinality(failed[s])

LEMMA TurnsNumbers ==
  ASSUME ChainInv, NEW s \in Swapchains, Turns(s)
  PROVE  Numbers(s)
  <1>1. Len(available[s]) \in Nat /\ Len(acquired[s]) \in Nat /\ failed[s] \subseteq Images(s)
    BY EmptyFifo DEF ChainInv, Shape
  <1>2. IsFiniteSet(failed[s]) /\ Cardinality(failed[s]) \in Nat
    BY <1>1, ImageNumbers, FS_Subset, FS_CardinalityType
  <1>3. /\ IsFiniteSet(Stuck(s)) /\ Cardinality(Stuck(s)) \in Nat
        /\ Cardinality(Stuck(s)) <= Cardinality(failed[s])
    BY <1>2, FS_Subset, FS_CardinalityType DEF Stuck
  <1>4. ImageCount(s) \in Nat /\ One(inflight[s] # None) \in Nat /\ acquiredNum[s] \in Int
    BY DEF ImageCount, One, ChainInv, Shape
  <1>5. /\ Len(available[s]) + acquiredNum[s] = ImageCount(s) + Cardinality(Stuck(s))
        /\ acquiredNum[s] = Len(acquired[s]) + One(inflight[s] # None)
                               + Cardinality(failed[s])
        /\ acquiredNum[s] <= ImageCount(s)
    BY DEF Turns
  <1> QED BY <1>1, <1>2, <1>3, <1>4, <1>5 DEF Numbers

\* An image is free when one may be acquired, and one is acquired when the
\* compositor waits for one.
LEMMA CanAcquire ==
  ASSUME ChainInv, NEW s \in Swapchains, handle[s], acquiredNum[s] < ImageCount(s)
  PROVE  available[s] # <<>>
  <1>1. Turns(s)
    BY DEF ChainInv, ImagesInTurn
  <1>2. Len(available[s]) > 0
    BY <1>1, TurnsNumbers DEF Numbers
  <1> QED BY <1>2, EmptyFifo DEF ChainInv, Shape

\* A call in wait_image has an image to wait for, and the swapchain its handle.
LEMMA CanWait ==
  ASSUME ChainInv, NEW s \in Swapchains, waiting[s]
  PROVE  handle[s] /\ Turns(s) /\ acquired[s] # <<>> /\ inflight[s] = None
  <1>1. handle[s]
    BY DEF ChainInv, ImagesInTurn, Unused
  <1> QED BY <1>1 DEF ChainInv, ImagesInTurn, Turns

\* Types are kept.
LEMMA ShapeStep == ChainInv /\ [Next]_vars => Shape'
  <1> SUFFICES ASSUME ChainInv, [Next]_vars PROVE Shape'
    OBVIOUS
  <1> USE DEF ChainInv, compVars, oxrVars, renderVars, histVars
  <1>1. ASSUME NEW s \in Swapchains, Create(s) PROVE Shape'
    <2>1. available' = [available EXCEPT ![s] = [k \in 1..ImageCount(s) |-> k - 1]]
      BY <1>1 DEF Create
    <2>2. [k \in 1..ImageCount(s) |-> k - 1] \in Seq(Images(s))
      BY ImageNumbers, NewFifo
    <2>3. /\ life' = [life EXCEPT ![s] = "live"] /\ refs' = [refs EXCEPT ![s] = 1]
          /\ handle' = [handle EXCEPT ![s] = TRUE]
          /\ UNCHANGED <<image, acquired, acquiredNum, waiting, inflight, released, layers,
                         client, renderVars, histVars>>
      BY <1>1 DEF Create
    <2>4. \A t \in Swapchains : available'[t] \in Seq(Images(t))
      BY <2>1, <2>2 DEF Shape
    <2>5. DOMAIN available' = Swapchains
      BY <2>1 DEF Shape
    <2> QED BY <2>3, <2>4, <2>5 DEF Shape
  <1>2. ASSUME NEW s \in Swapchains, Acquire(s) PROVE Shape'
    <2>1. available[s] \in Seq(Images(s)) /\ available[s] # <<>> /\ IsInjective(available[s])
      BY <1>2 DEF Acquire, MayAcquire, ImagesInTurn, Shape, Turns
    <2> DEFINE i == Head(available[s])
    <2>2. i \in Images(s) /\ Tail(available[s]) \in Seq(Images(s))
      BY <2>1, TakeFirst
    <2>3. /\ available' = [available EXCEPT ![s] = Tail(@)]
          /\ acquired' = [acquired EXCEPT ![s] = Append(@, i)]
          /\ image' = [image EXCEPT ![s][i] = "acquired"]
          /\ released' = [released EXCEPT ![s] = IF @ = i THEN None ELSE @]
      BY <1>2 DEF Acquire
    <2>4. UNCHANGED <<life, refs, handle, waiting, inflight, layers, client, renderVars, unsent,
                      failed>>
      BY <1>2 DEF Acquire
    <2>5. /\ acquiredNum' \in [Swapchains -> Int] /\ oneAtATime' \in [Swapchains -> BOOLEAN]
          /\ DOMAIN available' = Swapchains /\ DOMAIN acquired' = Swapchains
          /\ DOMAIN image' = Swapchains /\ released' \in [Swapchains -> Int]
      BY <1>2, <2>3 DEF Acquire, Shape, None
    <2> HIDE DEF i
    <2>6. ASSUME NEW t \in Swapchains
          PROVE  /\ available'[t] \in Seq(Images(t)) /\ acquired'[t] \in Seq(Images(t))
                 /\ image'[t] \in [Images(t) -> ImageStates]
                 /\ {inflight'[t], released'[t]} \subseteq Images(t) \cup {None}
      <3>1. CASE t = s
        BY <2>2, <2>3, <2>4, <3>1, AppendProperties DEF Shape, ImageStates
      <3>2. CASE t # s
        BY <2>3, <2>4, <3>2 DEF Shape
      <3> QED BY <3>1, <3>2
    <2> QED BY <2>4, <2>5, <2>6 DEF Shape
  <1>3. ASSUME NEW s \in Swapchains, BeginWait(s) PROVE Shape'
    BY <1>3 DEF BeginWait, Shape
  <1>4. ASSUME NEW s \in Swapchains, EndWait(s) PROVE Shape'
    <2>1. acquired[s] \in Seq(Images(s)) /\ acquired[s] # <<>> /\ IsInjective(acquired[s])
      BY <1>4, CanWait DEF Shape, Turns, EndWait
    <2> DEFINE i == Head(acquired[s])
    <2>2. i \in Images(s) /\ Tail(acquired[s]) \in Seq(Images(s)) /\ i \in Int
      BY <2>1, TakeFirst, ImageNumbers
    <2>3. /\ acquired' = [acquired EXCEPT ![s] = Tail(@)]
          /\ inflight' = [inflight EXCEPT ![s] = i]
          /\ image' = [image EXCEPT ![s][i] = "waited"]
          /\ waiting' = [waiting EXCEPT ![s] = FALSE]
      BY <1>4 DEF EndWait
    <2>4. UNCHANGED <<compVars, handle, acquiredNum, released, layers, client, renderVars,
                      histVars>>
      BY <1>4 DEF EndWait
    <2> HIDE DEF i
    <2>5. ASSUME NEW t \in Swapchains
          PROVE  /\ acquired'[t] \in Seq(Images(t))
                 /\ image'[t] \in [Images(t) -> ImageStates]
                 /\ {inflight'[t], released'[t]} \subseteq Images(t) \cup {None}
      <3>1. CASE t = s
        BY <2>2, <2>3, <2>4, <3>1 DEF Shape, ImageStates
      <3>2. CASE t # s
        BY <2>3, <2>4, <3>2 DEF Shape
      <3> QED BY <3>1, <3>2
    <2>6. /\ inflight' \in [Swapchains -> Int] /\ waiting' \in [Swapchains -> BOOLEAN]
          /\ DOMAIN acquired' = Swapchains /\ DOMAIN image' = Swapchains
      BY <2>2, <2>3 DEF Shape
    <2> QED BY <2>4, <2>5, <2>6 DEF Shape
  <1>5. ASSUME NEW s \in Swapchains, WaitTimesOut(s) PROVE Shape'
    BY <1>5 DEF WaitTimesOut, Shape
  <1>6. ASSUME NEW s \in Swapchains, Release(s) PROVE Shape'
    <2> DEFINE i == inflight[s]
    <2>1. i \in Images(s) /\ i \in Int
      BY <1>6, ImageNumbers DEF Release, Shape
    <2>2. /\ available' = [available EXCEPT ![s] = Append(@, i)]
          /\ inflight' = [inflight EXCEPT ![s] = None]
          /\ image' = [image EXCEPT ![s][i] = "ready"]
          /\ released' = [released EXCEPT ![s] = i]
          /\ acquiredNum' = [acquiredNum EXCEPT ![s] = @ - 1]
          /\ unsent' = [unsent EXCEPT ![s] = oneAtATime[s]]
      BY <1>6 DEF Release
    <2>3. UNCHANGED <<life, refs, handle, acquired, waiting, layers, client, renderVars, failed,
                      oneAtATime>>
      BY <1>6 DEF Release
    <2> HIDE DEF i
    <2>4. ASSUME NEW t \in Swapchains
          PROVE  /\ available'[t] \in Seq(Images(t))
                 /\ image'[t] \in [Images(t) -> ImageStates]
                 /\ {inflight'[t], released'[t]} \subseteq Images(t) \cup {None}
      <3>1. CASE t = s
        BY <2>1, <2>2, <3>1, AppendProperties DEF Shape, ImageStates
      <3>2. CASE t # s
        BY <2>2, <3>2 DEF Shape
      <3> QED BY <3>1, <3>2
    <2>5. /\ inflight' \in [Swapchains -> Int] /\ released' \in [Swapchains -> Int]
          /\ acquiredNum' \in [Swapchains -> Int] /\ unsent' \in [Swapchains -> BOOLEAN]
          /\ DOMAIN available' = Swapchains /\ DOMAIN image' = Swapchains
      BY <2>1, <2>2 DEF Shape, None
    <2> QED BY <2>3, <2>4, <2>5 DEF Shape
  <1>7. ASSUME NEW s \in Swapchains, DestroyHandle(s) PROVE Shape'
    <2>1. Drop([t \in Swapchains |-> IF t = s THEN 1 ELSE 0])
      BY <1>7 DEF DestroyHandle
    <2>2. /\ refs' = [t \in Swapchains |-> refs[t] - (IF t = s THEN 1 ELSE 0)]
          /\ life' \in [Swapchains -> {"none", "live", "stacked", "freed"}]
      BY <2>1 DEF Drop, Shape
    <2>3. refs' \in [Swapchains -> Int]
      BY <2>2 DEF Shape
    <2>4. <<>> \in Seq(Images(s)) /\ [i \in Images(s) |-> "ready"] \in [Images(s) -> ImageStates]
      BY EmptyFifo DEF ImageStates
    <2>5. /\ handle' = [handle EXCEPT ![s] = FALSE]
          /\ image' = [image EXCEPT ![s] = [i \in Images(s) |-> "ready"]]
          /\ acquired' = [acquired EXCEPT ![s] = <<>>]
          /\ acquiredNum' = [acquiredNum EXCEPT ![s] = 0]
          /\ inflight' = [inflight EXCEPT ![s] = None]
          /\ released' = [released EXCEPT ![s] = None]
          /\ unsent' = [unsent EXCEPT ![s] = FALSE] /\ failed' = [failed EXCEPT ![s] = {}]
          /\ UNCHANGED <<available, waiting, layers, client, renderVars, oneAtATime>>
      BY <1>7 DEF DestroyHandle
    <2>6. ASSUME NEW t \in Swapchains
          PROVE  /\ acquired'[t] \in Seq(Images(t)) /\ failed'[t] \subseteq Images(t)
                 /\ image'[t] \in [Images(t) -> ImageStates]
                 /\ {inflight'[t], released'[t]} \subseteq Images(t) \cup {None}
      <3>1. CASE t = s
        BY <2>4, <2>5, <3>1 DEF Shape
      <3>2. CASE t # s
        BY <2>5, <3>2 DEF Shape
      <3> QED BY <3>1, <3>2
    <2>7. /\ handle' \in [Swapchains -> BOOLEAN] /\ unsent' \in [Swapchains -> BOOLEAN]
          /\ acquiredNum' \in [Swapchains -> Int] /\ inflight' \in [Swapchains -> Int]
          /\ released' \in [Swapchains -> Int]
          /\ DOMAIN acquired' = Swapchains /\ DOMAIN image' = Swapchains
          /\ DOMAIN failed' = Swapchains
      BY <2>5 DEF Shape, None
    <2> QED BY <2>2, <2>3, <2>5, <2>6, <2>7 DEF Shape
  <1>18. ASSUME NEW s \in Swapchains, AcquireFails(s) PROVE Shape'
    <2>1. /\ available[s] \in Seq(Images(s)) /\ available[s] # <<>>
          /\ IsInjective(available[s])
      BY <1>18 DEF AcquireFails, MayAcquire, ImagesInTurn, Shape, Turns
    <2>2. Tail(available[s]) \in Seq(Images(s))
      BY <2>1, TakeFirst
    <2>3. /\ available' = [available EXCEPT ![s] = Tail(@)]
          /\ oneAtATime' = [oneAtATime EXCEPT ![s] = FALSE]
          /\ UNCHANGED <<life, refs, oxrVars, layers, client, renderVars, failed, unsent>>
      BY <1>18 DEF AcquireFails
    <2>4. /\ DOMAIN available' = Swapchains /\ oneAtATime' \in [Swapchains -> BOOLEAN]
          /\ \A t \in Swapchains : available'[t] \in Seq(Images(t))
      BY <2>2, <2>3 DEF Shape
    <2> QED BY <2>3, <2>4 DEF Shape
  <1>19. ASSUME NEW s \in Swapchains, WaitFails(s) PROVE Shape'
    <2>1. acquired[s] \in Seq(Images(s)) /\ acquired[s] # <<>> /\ IsInjective(acquired[s])
      BY <1>19, CanWait DEF Shape, Turns, WaitFails
    <2> DEFINE i == Head(acquired[s])
    <2>2. i \in Images(s) /\ Tail(acquired[s]) \in Seq(Images(s))
      BY <2>1, TakeFirst
    <2>3. /\ acquired' = [acquired EXCEPT ![s] = Tail(@)]
          /\ waiting' = [waiting EXCEPT ![s] = FALSE]
          /\ failed' = [failed EXCEPT ![s] = @ \cup {i}]
          /\ UNCHANGED <<compVars, handle, image, acquiredNum, inflight, released, layers,
                         client, renderVars, unsent, oneAtATime>>
      BY <1>19 DEF WaitFails
    <2> HIDE DEF i
    <2>4. /\ DOMAIN acquired' = Swapchains /\ DOMAIN failed' = Swapchains
          /\ waiting' \in [Swapchains -> BOOLEAN]
          /\ \A t \in Swapchains : acquired'[t] \in Seq(Images(t)) /\ failed'[t] \subseteq Images(t)
      BY <2>2, <2>3 DEF Shape
    <2> QED BY <2>3, <2>4 DEF Shape
  <1>20. ASSUME NEW s \in Swapchains, ReleaseFails(s) PROVE Shape'
    <2> DEFINE i == inflight[s]
    <2>1. i \in Images(s)
      BY <1>20 DEF ReleaseFails, Shape
    <2>2. /\ available' = [available EXCEPT ![s] = Append(@, i)]
          /\ inflight' = [inflight EXCEPT ![s] = None]
          /\ failed' = [failed EXCEPT ![s] = @ \cup {i}]
          /\ UNCHANGED <<life, refs, handle, image, acquired, acquiredNum, waiting, released,
                         layers, client, renderVars, unsent, oneAtATime>>
      BY <1>20 DEF ReleaseFails
    <2> HIDE DEF i
    <2>3. ASSUME NEW t \in Swapchains
          PROVE  available'[t] \in Seq(Images(t)) /\ failed'[t] \subseteq Images(t)
      BY <2>1, <2>2, AppendProperties DEF Shape
    <2>4. /\ DOMAIN available' = Swapchains /\ DOMAIN failed' = Swapchains
          /\ inflight' \in [Swapchains -> Int]
          /\ \A t \in Swapchains : {inflight'[t], released'[t]} \subseteq Images(t) \cup {None}
      BY <2>2 DEF Shape, None
    <2> QED BY <2>2, <2>3, <2>4 DEF Shape
  <1>8. ASSUME NEW S \in SUBSET Swapchains, EndFrame(S) PROVE Shape'
    <2>1. /\ Newest + 1 \in Frames
          /\ layers' = [layers EXCEPT ![Newest + 1] = {<<s, released[s]>> : s \in S}]
          /\ refs' = [s \in Swapchains |-> refs[s] + IF s \in S THEN 1 ELSE 0]
          /\ unsent' = [s \in Swapchains |-> unsent[s] /\ s \notin S]
          /\ S \subseteq Submittable
          /\ UNCHANGED <<life, available, oxrVars, client, renderVars, failed, oneAtATime>>
      BY <1>8, NextFrame
    <2>2. {<<s, released[s]>> : s \in S} \subseteq Layers
      BY <2>1, ImageNumbers DEF Submittable, Shape, Layers
    <2>3. layers' \in [Frames -> SUBSET Layers]
      BY <2>1, <2>2 DEF Shape
    <2>4. refs' \in [Swapchains -> Int] /\ unsent' \in [Swapchains -> BOOLEAN]
      BY <2>1 DEF Shape
    <2> QED BY <2>1, <2>3, <2>4 DEF Shape
  <1>9. ASSUME NEW old \in Frames, NEW new \in Frames, Replace(old, new) PROVE
        Shape'
    <2>1. Retire({old})
      BY <1>9, Retires
    <2>2. CASE UNCHANGED <<layers, refs, life>>
      BY <1>9, <2>2 DEF Replace, Shape
    <2>3. ASSUME NEW F, Retire(F) PROVE Shape'
      BY <1>9, <2>3, ClearTypes DEF Replace, Shape
    <2> QED BY <2>1, <2>2, <2>3
  <1>10. ASSUME Unlist PROVE Shape'
    BY <1>10 DEF Unlist, Shape
  <1>11. ASSUME Close PROVE Shape'
    <2>1. \E F : Retire(F)
      BY <1>11, Retires
    <2>2. CASE UNCHANGED <<layers, refs, life>>
      BY <1>11, <2>2 DEF Close, Shape
    <2>3. ASSUME NEW F, Retire(F) PROVE Shape'
      BY <1>11, <2>3, ClearTypes DEF Close, Shape
    <2> QED BY <2>1, <2>2, <2>3
  <1>12. ASSUME Deliver PROVE Shape'
    <2>1. (\E F : Retire(F)) \/ UNCHANGED <<layers, refs, life>>
      BY <1>12, Retires
    <2>2. /\ renderPc' = "transfer"
          /\ UNCHANGED <<available, oxrVars, client, drawing, histVars>>
      BY <1>12 DEF Deliver
    <2>3. CASE UNCHANGED <<layers, refs, life>>
      BY <2>2, <2>3 DEF Shape
    <2>4. ASSUME NEW F, Retire(F) PROVE Shape'
      BY <2>2, <2>4, ClearTypes DEF Shape
    <2> QED BY <2>1, <2>3, <2>4
  <1>13. ASSUME TransferLayers PROVE Shape'
    <2>1. (\E F : Retire(F)) \/ UNCHANGED <<layers, refs, life>>
      BY <1>13, Retires
    <2>2. /\ renderPc' = "drawing"
          /\ UNCHANGED <<available, oxrVars, client, histVars>>
      BY <1>13 DEF TransferLayers
    <2>3. drawing' \subseteq Layers
      BY <1>13 DEF TransferLayers, Numbered, Shape
    <2>4. CASE UNCHANGED <<layers, refs, life>>
      BY <2>2, <2>3, <2>4 DEF Shape
    <2>5. ASSUME NEW F, Retire(F) PROVE Shape'
      BY <2>2, <2>3, <2>5, ClearTypes DEF Shape
    <2> QED BY <2>1, <2>4, <2>5
  <1>14. ASSUME LayerCommit PROVE Shape'
    <2>1. life' \in [Swapchains -> {"none", "live", "stacked", "freed"}]
      BY <1>14 DEF LayerCommit, FreeStacked, Shape
    <2> QED BY <1>14, <2>1 DEF LayerCommit, Shape
  <1>15. ASSUME DestroySystem PROVE Shape'
    <2>1. life' \in [Swapchains -> {"none", "live", "stacked", "freed"}]
      BY <1>15 DEF DestroySystem, FreeStacked, Shape
    <2> QED BY <1>15, <2>1 DEF DestroySystem, Shape
  <1>16. ASSUME UNCHANGED <<life, refs, available, handle, image, acquired,
      acquiredNum, waiting, inflight, released, layers, client, renderPc,
      drawing, failed, unsent, oneAtATime>> PROVE Shape'
    BY <1>16 DEF Shape
  <1>17. QED
    BY <1>1, <1>2, <1>3, <1>4, <1>5, <1>6, <1>7, <1>8, <1>9, <1>10, <1>11,
      <1>12, <1>13, <1>14, <1>15, <1>16, <1>18, <1>19, <1>20
      DEF Next, vars, frameVars, Complete


\* The slots of retired frames are empty, the others are as they were.
LEMMA SlotsRetire ==
  ASSUME ChainInv, NEW F, Retire(F), UNCHANGED <<handle, client>>
  PROVE  SlotsHoldLayers'
  <1>1. \A f \in Frames \ Slots' : layers'[f] = {}
    BY ClearTypes DEF ChainInv, SlotsHoldLayers, Retire
  <1> QED BY <1>1 DEF ChainInv, SlotsHoldLayers, Retire

\* Layers go into the slots with the newest frame and leave with the retired
\* ones; a client without handles gets no new ones.
LEMMA SlotsStep == ChainInv /\ [Next]_vars => SlotsHoldLayers'
  <1> SUFFICES ASSUME ChainInv, [Next]_vars PROVE SlotsHoldLayers'
    OBVIOUS
  <1> USE DEF ChainInv, frameVars, oxrVars
  <1>1. ASSUME NEW s \in Swapchains, Create(s) PROVE SlotsHoldLayers'
    BY <1>1 DEF Create, SlotsHoldLayers, Slots, Shape
  <1>2. ASSUME NEW s \in Swapchains, DestroyHandle(s) PROVE SlotsHoldLayers'
    BY <1>2 DEF DestroyHandle, SlotsHoldLayers, Slots, Shape
  <1>3. ASSUME NEW S \in SUBSET Swapchains, EndFrame(S) PROVE SlotsHoldLayers'
    <2>1. /\ Newest + 1 \in Frames /\ inFlight' = inFlight \cup {Newest + 1} /\ shown' = shown
          /\ layers' = [layers EXCEPT ![Newest + 1] = {<<s, released[s]>> : s \in S}]
          /\ client = "listed" /\ UNCHANGED <<handle, client>>
      BY <1>3, NextFrame DEF oxrVars
    <2> QED BY <2>1 DEF SlotsHoldLayers, Slots, Shape
  <1>4. ASSUME NEW f \in Frames, Complete(f) PROVE SlotsHoldLayers'
    BY <1>4 DEF Complete, Pipeline!Complete, SlotsHoldLayers, Slots
  <1>5. ASSUME NEW old \in Frames, NEW new \in Frames, Replace(old, new) PROVE
        SlotsHoldLayers'
    <2>1. Retire({old}) /\ UNCHANGED <<handle, client>>
      BY <1>5, Retires DEF Replace
    <2> QED BY <2>1, SlotsRetire
  <1>6. ASSUME Unlist PROVE SlotsHoldLayers'
    BY <1>6 DEF Unlist, SlotsHoldLayers, Slots, Shape
  <1>7. ASSUME Close PROVE SlotsHoldLayers'
    <2>1. Retire(Pipeline!Known \ (past \cup {0})) /\ handle' = handle /\ client = "unlisted"
      BY <1>7, Retires DEF Close
    <2>2. \A f \in Frames \ Slots' : layers'[f] = {}
      BY <2>1, ClearTypes DEF SlotsHoldLayers, Retire
    <2>3. Slots' = {}
      BY <1>7 DEF Close, Pipeline!Close, Slots
    <2> QED BY <2>1, <2>2, <2>3 DEF SlotsHoldLayers
  <1>8. ASSUME Deliver PROVE SlotsHoldLayers'
    <2>1. UNCHANGED <<handle, client>>
      BY <1>8 DEF Deliver
    <2>2. (\E F : Retire(F)) \/ UNCHANGED <<frameVars, layers>>
      BY <1>8, Retires
    <2> QED BY <2>1, <2>2, SlotsRetire DEF SlotsHoldLayers, Slots, frameVars
  <1>9. ASSUME TransferLayers PROVE SlotsHoldLayers'
    <2>1. UNCHANGED <<handle, client>>
      BY <1>9 DEF TransferLayers
    <2>2. (\E F : Retire(F)) \/ UNCHANGED <<frameVars, layers>>
      BY <1>9, Retires
    <2> QED BY <2>1, <2>2, SlotsRetire DEF SlotsHoldLayers, Slots, frameVars
  <1>10. ASSUME UNCHANGED <<inFlight, shown, layers, handle, client>> PROVE
      SlotsHoldLayers'
    BY <1>10 DEF SlotsHoldLayers, Slots, Shape
  <1>11. QED
    BY <1>1, <1>2, <1>3, <1>4, <1>5, <1>6, <1>7, <1>8, <1>9, <1>10 DEF Next,
      vars, compVars, renderVars, histVars, Acquire, AcquireFails, BeginWait, EndWait,
      WaitTimesOut, WaitFails, Release, ReleaseFails, LayerCommit, DestroySystem


(***************************************************************************)
(* The images.                                                             *)
(***************************************************************************)
\* The images of a swapchain do not change.
LEMMA ImagesConstant ==
  ASSUME NEW s PROVE Images(s)' = Images(s) /\ ImageCount(s)' = ImageCount(s)
  BY DEF Images, ImageCount

\* A step on one swapchain leaves the images of the others where they are.
LEMMA OthersInTurn ==
  ASSUME ChainInv, NEW s \in Swapchains,
         \A t \in Swapchains \ {s} :
           /\ available'[t] = available[t] /\ acquired'[t] = acquired[t]
           /\ image'[t] = image[t] /\ inflight'[t] = inflight[t]
           /\ released'[t] = released[t] /\ acquiredNum'[t] = acquiredNum[t]
           /\ waiting'[t] = waiting[t] /\ handle'[t] = handle[t] /\ unsent'[t] = unsent[t]
           /\ failed'[t] = failed[t],
         IF handle'[s] THEN Turns(s)' ELSE Unused(s)'
  PROVE  ImagesInTurn'
  <1>1. ASSUME NEW t \in Swapchains, t # s
        PROVE  IF handle'[t] THEN Turns(t)' ELSE Unused(t)'
    <2>1. Stuck(t)' = Stuck(t)
      BY <1>1 DEF Stuck
    <2>2. CASE handle[t]
      <3>1. Turns(t)
        BY <2>2 DEF ChainInv, ImagesInTurn
      <3> QED BY <1>1, <2>1, <2>2, <3>1, ImagesConstant DEF Turns
    <2>3. CASE ~handle[t]
      <3>1. Unused(t)
        BY <2>3 DEF ChainInv, ImagesInTurn
      <3> QED BY <1>1, <2>3, <3>1, ImagesConstant DEF Unused
    <2> QED BY <1>1, <2>2, <2>3
  <1> QED BY <1>1 DEF ImagesInTurn


\* Who holds references in the slots is a set of frames.
LEMMA UsersFinite ==
  \A s : IsFiniteSet(Users(s)) /\ Cardinality(Users(s)) \in Nat /\ Users(s) \subseteq Frames
  <1>1. IsFiniteSet(Frames)
    BY SwapchainAssumption, FS_Interval DEF Frames
  <1>2. \A s : Users(s) \subseteq Frames
    BY DEF Users
  <1> QED BY <1>1, <1>2, FS_Subset, FS_CardinalityType

\* The application has only swapchains that live.
LEMMA HandleLives ==
  ASSUME ChainInv, NEW s \in Swapchains, life[s] # "live"
  PROVE  ~handle[s] /\ Users(s) = {} /\ refs[s] = 0
  <1>1. IsFiniteSet(Users(s)) /\ Cardinality(Users(s)) \in Nat
    BY UsersFinite
  <1>2. refs[s] <= 0 /\ refs[s] = One(handle[s]) + Cardinality(Users(s))
    BY DEF ChainInv, Shape, Lives, Counted
  <1> QED BY <1>1, <1>2, FS_EmptySet DEF One

\* A new swapchain: all images are in the fifo.
LEMMA TurnsCreate ==
  ASSUME ChainInv, NEW s \in Swapchains, Create(s)
  PROVE  handle'[s] /\ Turns(s)'
  <1> USE DEF ChainInv, oxrVars, histVars
  <1>1. life[s] = "none" /\ ~handle[s] /\ Unused(s)
    <2>1. life[s] = "none"
      BY DEF Create
    <2>2. ~handle[s]
      BY <2>1, HandleLives
    <2> QED BY <2>1, <2>2 DEF ImagesInTurn
  <1> DEFINE q == [k \in 1..ImageCount(s) |-> k - 1]
  <1>2. /\ q \in Seq(Images(s)) /\ Len(q) = ImageCount(s) /\ IsInjective(q)
        /\ ToSet(q) = Images(s)
    BY NewFifo
  <1> HIDE DEF q
  <1>3. /\ available'[s] = q /\ handle'[s]
        /\ UNCHANGED <<image, acquired, acquiredNum, waiting, inflight, released, failed>>
    BY DEF Create, Shape, q
  <1>4. /\ acquired'[s] = <<>> /\ acquiredNum'[s] = 0 /\ inflight'[s] = None
        /\ released'[s] = None /\ ~waiting'[s] /\ failed'[s] = {}
        /\ \A j \in Images(s) : image'[s][j] = "ready"
    BY <1>1, <1>3 DEF Unused
  <1>5. Len(acquired'[s]) = 0 /\ ToSet(acquired'[s]) = {} /\ IsInjective(acquired'[s])
    BY <1>4, EmptyFifo
  <1>6. Stuck(s)' = {} /\ Cardinality({}) = 0
    BY <1>4, FS_EmptySet DEF Stuck
  <1>7. \A j \in Images(s) :
          /\ image'[s][j] = "ready" <=> j \in ToSet(available'[s]) /\ j \notin failed'[s]
          /\ j \in ToSet(acquired'[s]) <=> image'[s][j] = "acquired" /\ j \notin failed'[s]
          /\ j = inflight'[s] <=> image'[s][j] = "waited" /\ j \notin failed'[s]
    BY <1>2, <1>3, <1>4, <1>5, ImageNumbers
  <1>8. /\ Len(available'[s]) + acquiredNum'[s] = ImageCount(s) + Cardinality(Stuck(s)')
        /\ acquiredNum'[s] = Len(acquired'[s]) + One(inflight'[s] # None)
                               + Cardinality(failed'[s])
        /\ acquiredNum'[s] <= ImageCount(s)
    <2>1. ImageCount(s) \in Nat /\ One(inflight'[s] # None) = 0
      BY <1>4 DEF ImageCount, One
    <2> QED BY <1>2, <1>3, <1>4, <1>5, <1>6, <2>1
  <1> QED BY <1>2, <1>3, <1>4, <1>5, <1>7, <1>8, ImagesConstant DEF Turns

\* The first image of the fifo is acquired.
LEMMA TurnsAcquire ==
  ASSUME ChainInv, NEW s \in Swapchains, Acquire(s)
  PROVE  handle'[s] /\ Turns(s)'
  <1> USE DEF ChainInv, oxrVars, histVars
  <1> DEFINE i == Head(available[s])
  <1>1. /\ available[s] # <<>> /\ Turns(s) /\ available[s] \in Seq(Images(s))
        /\ acquired[s] \in Seq(Images(s)) /\ IsInjective(available[s])
        /\ IsInjective(acquired[s]) /\ failed[s] \subseteq Images(s)
    BY DEF Acquire, MayAcquire, Shape, Turns, ImagesInTurn
  <1>2. /\ i \in Images(s) /\ i \in ToSet(available[s])
        /\ IsInjective(Tail(available[s])) /\ ToSet(Tail(available[s])) = ToSet(available[s]) \ {i}
        /\ Len(available[s]) \in Nat /\ Len(Tail(available[s])) = Len(available[s]) - 1
    BY <1>1, TakeFirst
  <1>3. /\ available'[s] = Tail(available[s]) /\ acquired'[s] = Append(acquired[s], i)
        /\ image'[s] = [image[s] EXCEPT ![i] = "acquired"] /\ image[s][i] = "ready"
        /\ released'[s] = (IF released[s] = i THEN None ELSE released[s])
        /\ acquiredNum'[s] = acquiredNum[s] + 1 /\ acquiredNum[s] < ImageCount(s)
        /\ UNCHANGED <<inflight, waiting, failed>> /\ handle'[s] /\ ~waiting[s]
    BY DEF Acquire, MayAcquire, Shape
  <1> HIDE DEF i
  <1>4. i # inflight[s] /\ i \notin failed[s] /\ i \notin ToSet(acquired[s])
    BY <1>1, <1>2, <1>3 DEF Turns
  <1>5. /\ IsInjective(acquired'[s]) /\ ToSet(acquired'[s]) = ToSet(acquired[s]) \cup {i}
        /\ Len(acquired'[s]) = Len(acquired[s]) + 1 /\ Len(acquired[s]) \in Nat
    BY <1>1, <1>2, <1>3, <1>4, PutLast
  <1>6. \A j \in Images(s) : image'[s][j] = IF j = i THEN "acquired" ELSE image[s][j]
    BY <1>3 DEF Shape
  <1>7. Stuck(s)' = Stuck(s)
    BY <1>2, <1>3, <1>4 DEF Stuck
  <1>8. /\ \A j \in Images(s) :
             /\ image'[s][j] = "ready" <=> j \in ToSet(available'[s]) /\ j \notin failed'[s]
             /\ j \in ToSet(acquired'[s]) <=> image'[s][j] = "acquired" /\ j \notin failed'[s]
             /\ j = inflight'[s] <=> image'[s][j] = "waited" /\ j \notin failed'[s]
        /\ released'[s] # None => image'[s][released'[s]] = "ready"
    BY <1>1, <1>2, <1>3, <1>4, <1>5, <1>6 DEF Turns, Shape
  <1>9. /\ Len(available'[s]) + acquiredNum'[s] = ImageCount(s) + Cardinality(Stuck(s)')
        /\ acquiredNum'[s] = Len(acquired'[s]) + One(inflight'[s] # None)
                               + Cardinality(failed'[s])
        /\ acquiredNum'[s] <= ImageCount(s)
    <2>1. Numbers(s)
      BY <1>1, TurnsNumbers
    <2> DEFINE n == Len(available[s])
               q == Len(acquired[s])
               c == Cardinality(Stuck(s))
               k == acquiredNum[s]
               e == One(inflight[s] # None)
               d == Cardinality(failed[s])
               m == ImageCount(s)
    <2>2. /\ n + k = m + c /\ k = q + e + d /\ k < m
          /\ n \in Nat /\ q \in Nat /\ c \in Nat /\ e \in Nat /\ d \in Nat /\ m \in Nat /\ k \in Int
      BY <1>3, <2>1 DEF Numbers
    <2>3. /\ Len(available'[s]) = n - 1 /\ acquiredNum'[s] = k + 1 /\ Len(acquired'[s]) = q + 1
          /\ One(inflight'[s] # None) = e /\ Cardinality(failed'[s]) = d
          /\ Cardinality(Stuck(s)') = c
      BY <1>2, <1>3, <1>5, <1>7
    <2> HIDE DEF n, q, c, k, e, d, m
    <2>4. (n - 1) + (k + 1) = m + c /\ k + 1 = (q + 1) + e + d /\ k + 1 <= m
      BY <2>2
    <2> QED BY <2>3, <2>4 DEF m
  <1> QED BY <1>2, <1>3, <1>5, <1>8, <1>9, ImagesConstant DEF Turns

\* An image whose release failed is met in the fifo, and gone.
LEMMA TurnsAcquireFails ==
  ASSUME ChainInv, NEW s \in Swapchains, AcquireFails(s)
  PROVE  handle'[s] /\ Turns(s)'
  <1> USE DEF ChainInv, oxrVars
  <1> DEFINE i == Head(available[s])
  <1>1. /\ available[s] # <<>> /\ handle[s] /\ Turns(s) /\ available[s] \in Seq(Images(s))
        /\ IsInjective(available[s]) /\ failed[s] \subseteq Images(s)
    BY DEF AcquireFails, MayAcquire, Shape, Turns, ImagesInTurn
  <1>2. /\ i \in Images(s) /\ i \in ToSet(available[s])
        /\ IsInjective(Tail(available[s])) /\ ToSet(Tail(available[s])) = ToSet(available[s]) \ {i}
        /\ Len(available[s]) \in Nat /\ Len(Tail(available[s])) = Len(available[s]) - 1
    BY <1>1, TakeFirst
  <1>3. /\ available'[s] = Tail(available[s]) /\ image[s][i] # "ready"
        /\ UNCHANGED <<handle, image, acquired, acquiredNum, waiting, inflight, released,
                       failed>>
    BY DEF AcquireFails, Shape
  <1> HIDE DEF i
  <1>4. i \in failed[s]
    BY <1>1, <1>2, <1>3 DEF Turns
  <1>5. Stuck(s)' = Stuck(s) \ {i} /\ i \in Stuck(s)
    BY <1>2, <1>3, <1>4 DEF Stuck
  <1>6. Cardinality(Stuck(s)') = Cardinality(Stuck(s)) - 1
    <2>1. IsFiniteSet(Stuck(s)) /\ Stuck(s) \ {i} = Stuck(s)' \ {i} /\ i \notin Stuck(s)'
      BY <1>1, <1>5, TurnsNumbers DEF Numbers
    <2>2. One(i \in Stuck(s)) = 1 /\ One(i \in Stuck(s)') = 0
      BY <1>5, <2>1 DEF One
    <2>3. Cardinality(Stuck(s)') = Cardinality(Stuck(s)) - One(i \in Stuck(s)) + One(i \in Stuck(s)')
      BY <2>1, SetChange
    <2>4. Cardinality(Stuck(s)) \in Nat
      BY <2>1, FS_CardinalityType
    <2> QED BY <2>2, <2>3, <2>4
  <1>7. \A j \in Images(s) :
          image'[s][j] = "ready" <=> j \in ToSet(available'[s]) /\ j \notin failed'[s]
    BY <1>1, <1>2, <1>3, <1>4 DEF Turns
  <1>8. Len(available'[s]) + acquiredNum'[s] = ImageCount(s) + Cardinality(Stuck(s)')
    <2>1. Numbers(s)
      BY <1>1, TurnsNumbers
    <2> DEFINE n == Len(available[s])
               c == Cardinality(Stuck(s))
               k == acquiredNum[s]
               m == ImageCount(s)
    <2>2. n + k = m + c /\ n \in Nat /\ c \in Nat /\ m \in Nat /\ k \in Int
      BY <2>1 DEF Numbers
    <2>3. Len(available'[s]) = n - 1 /\ acquiredNum'[s] = k /\ Cardinality(Stuck(s)') = c - 1
      BY <1>2, <1>3, <1>6
    <2> HIDE DEF n, c, k, m
    <2>4. (n - 1) + k = m + (c - 1)
      BY <2>2
    <2> QED BY <2>3, <2>4 DEF m
  <1> QED BY <1>1, <1>2, <1>3, <1>7, <1>8, ImagesConstant DEF Turns

\* The image waited for leaves the fifo of acquired ones, for the application's
\* hands or, when the wait fails, for nowhere.
LEMMA TurnsWait ==
  ASSUME ChainInv, NEW s \in Swapchains, EndWait(s) \/ WaitFails(s)
  PROVE  handle'[s] /\ Turns(s)'
  <1> USE DEF ChainInv, compVars, oxrVars, histVars
  <1> DEFINE i == Head(acquired[s])
  <1>1. /\ acquired[s] # <<>> /\ Turns(s) /\ acquired[s] \in Seq(Images(s))
        /\ IsInjective(acquired[s]) /\ handle[s] /\ inflight[s] = None
        /\ failed[s] \subseteq Images(s)
    BY CanWait DEF Shape, Turns, EndWait, WaitFails
  <1>2. /\ i \in Images(s) /\ i \in ToSet(acquired[s]) /\ i # None
        /\ IsInjective(Tail(acquired[s])) /\ ToSet(Tail(acquired[s])) = ToSet(acquired[s]) \ {i}
        /\ Len(acquired[s]) \in Nat /\ Len(Tail(acquired[s])) = Len(acquired[s]) - 1
    BY <1>1, TakeFirst, ImageNumbers
  <1>3. /\ acquired'[s] = Tail(acquired[s]) /\ ~waiting'[s]
        /\ UNCHANGED <<available, handle, acquiredNum, released>>
    BY DEF EndWait, WaitFails, Shape
  <1>4. \/ inflight'[s] = i /\ image'[s] = [image[s] EXCEPT ![i] = "waited"] /\ failed' = failed
        \/ /\ inflight' = inflight /\ image' = image
           /\ failed'[s] = failed[s] \cup {i}
    BY DEF EndWait, WaitFails, Shape
  <1> HIDE DEF i
  <1>5. image[s][i] = "acquired" /\ i \notin failed[s] /\ i \notin ToSet(available[s])
    BY <1>1, <1>2 DEF Turns
  <1>6. Stuck(s)' = Stuck(s)
    BY <1>3, <1>4, <1>5 DEF Stuck
  <1>7. One(inflight[s] # None) = 0
    BY <1>1 DEF One
  <1>10. Numbers(s)
    BY <1>1, TurnsNumbers
  <1>8. /\ \A j \in Images(s) :
             /\ image'[s][j] = "ready" <=> j \in ToSet(available'[s]) /\ j \notin failed'[s]
             /\ j \in ToSet(acquired'[s]) <=> image'[s][j] = "acquired" /\ j \notin failed'[s]
             /\ j = inflight'[s] <=> image'[s][j] = "waited" /\ j \notin failed'[s]
        /\ released'[s] # None => image'[s][released'[s]] = "ready"
        /\ acquiredNum'[s] = Len(acquired'[s]) + One(inflight'[s] # None)
                               + Cardinality(failed'[s])
    <2>1. CASE /\ inflight'[s] = i /\ image'[s] = [image[s] EXCEPT ![i] = "waited"]
               /\ failed' = failed
      <3>1. \A j \in Images(s) : image'[s][j] = IF j = i THEN "waited" ELSE image[s][j]
        BY <2>1 DEF Shape
      <3>2. \A j \in Images(s) : image[s][j] = "waited" => j \in failed[s]
        BY <1>1, ImageNumbers DEF Turns
      <3>3. One(inflight'[s] # None) = 1
        BY <1>2, <2>1 DEF One
      <3>4. acquiredNum'[s] = Len(acquired'[s]) + One(inflight'[s] # None)
                                + Cardinality(failed'[s])
        BY <1>2, <1>3, <1>7, <1>10, <2>1, <3>3 DEF Numbers
      <3> QED BY <1>1, <1>2, <1>3, <1>5, <2>1, <3>1, <3>2, <3>4 DEF Turns, Shape
    <2>2. CASE /\ inflight' = inflight /\ image' = image
               /\ failed'[s] = failed[s] \cup {i}
      <3>1. Cardinality(failed'[s]) = Cardinality(failed[s]) + 1
        BY <1>5, <1>10, <2>2, FS_AddElement DEF Numbers
      <3>2. acquiredNum'[s] = Len(acquired'[s]) + One(inflight'[s] # None)
                                + Cardinality(failed'[s])
        BY <1>2, <1>3, <1>7, <1>10, <2>2, <3>1 DEF Numbers
      <3>3. \A j \in Images(s) : j # inflight[s]
        BY <1>1, ImageNumbers
      <3> QED BY <1>1, <1>2, <1>3, <1>5, <2>2, <3>2, <3>3 DEF Turns, Shape
    <2> QED BY <1>4, <2>1, <2>2
  <1>9. /\ Len(available'[s]) + acquiredNum'[s] = ImageCount(s) + Cardinality(Stuck(s)')
        /\ IsInjective(available'[s]) /\ IsInjective(acquired'[s])
        /\ acquiredNum'[s] <= ImageCount(s)
    BY <1>1, <1>2, <1>3, <1>6 DEF Turns
  <1> QED BY <1>1, <1>3, <1>8, <1>9, ImagesConstant DEF Turns

\* The image in flight goes back to the fifo, to be used again or, when the
\* release fails, to get stuck there.
LEMMA TurnsRelease ==
  ASSUME ChainInv, NEW s \in Swapchains, Release(s) \/ ReleaseFails(s)
  PROVE  handle'[s] /\ Turns(s)'
  <1> USE DEF ChainInv, oxrVars, histVars
  <1> DEFINE i == inflight[s]
  <1>1. /\ handle[s] /\ ~waiting[s] /\ i # None /\ i \in Images(s)
        /\ available[s] \in Seq(Images(s)) /\ acquired[s] \in Seq(Images(s))
        /\ failed[s] \subseteq Images(s)
    BY DEF Release, ReleaseFails, Shape
  <1>2. Turns(s)
    BY <1>1 DEF ImagesInTurn
  <1>3. /\ available'[s] = Append(available[s], i) /\ inflight'[s] = None
        /\ UNCHANGED <<acquired, handle, waiting>>
    BY DEF Release, ReleaseFails, Shape
  <1>4. \/ /\ image'[s] = [image[s] EXCEPT ![i] = "ready"] /\ released'[s] = i
           /\ acquiredNum'[s] = acquiredNum[s] - 1 /\ failed' = failed
        \/ /\ UNCHANGED <<image, released, acquiredNum>>
           /\ failed'[s] = failed[s] \cup {i}
    <2>1. CASE Release(s)
      BY <2>1 DEF Release, Shape
    <2>2. CASE ReleaseFails(s)
      BY <2>2 DEF ReleaseFails, Shape
    <2> QED BY <2>1, <2>2
  <1>12. Numbers(s)
    BY <1>2, TurnsNumbers
  <1>5. One(inflight[s] # None) = 1 /\ One(inflight'[s] # None) = 0
    BY <1>1, <1>3 DEF One
  <1>6. image[s][i] = "waited" /\ i \notin failed[s] /\ i \notin ToSet(available[s])
    BY <1>1, <1>2 DEF Turns
  <1>7. \A j \in Images(s) : image[s][j] = "waited" => j = i \/ j \in failed[s]
    BY <1>2 DEF Turns
  <1> HIDE DEF i
  <1>8. /\ IsInjective(available'[s]) /\ ToSet(available'[s]) = ToSet(available[s]) \cup {i}
        /\ Len(available'[s]) = Len(available[s]) + 1 /\ Len(available[s]) \in Nat
    BY <1>1, <1>2, <1>3, <1>6, PutLast DEF Turns
  <1>9. \A j \in Images(s) : j # inflight'[s]
    BY <1>3, ImageNumbers
  <1>10. CASE /\ image'[s] = [image[s] EXCEPT ![i] = "ready"] /\ released'[s] = i
              /\ acquiredNum'[s] = acquiredNum[s] - 1 /\ failed' = failed
    <2>1. \A j \in Images(s) : image'[s][j] = IF j = i THEN "ready" ELSE image[s][j]
      BY <1>10 DEF Shape
    <2>2. /\ \A j \in Images(s) :
               /\ image'[s][j] = "ready" <=> j \in ToSet(available'[s]) /\ j \notin failed'[s]
               /\ j \in ToSet(acquired'[s]) <=> image'[s][j] = "acquired" /\ j \notin failed'[s]
               /\ j = inflight'[s] <=> image'[s][j] = "waited" /\ j \notin failed'[s]
          /\ image'[s][released'[s]] = "ready"
      BY <1>1, <1>2, <1>3, <1>6, <1>7, <1>8, <1>9, <1>10, <2>1 DEF Turns
    <2>3. Stuck(s)' = Stuck(s)
      BY <1>6, <1>8, <1>10 DEF Stuck
    <2>4. /\ Len(available'[s]) + acquiredNum'[s] = ImageCount(s) + Cardinality(Stuck(s)')
          /\ acquiredNum'[s] = Len(acquired'[s]) + One(inflight'[s] # None)
                                 + Cardinality(failed'[s])
          /\ acquiredNum'[s] <= ImageCount(s)
      <3> DEFINE n == Len(available[s])
                 q == Len(acquired[s])
                 c == Cardinality(Stuck(s))
                 k == acquiredNum[s]
                 d == Cardinality(failed[s])
                 m == ImageCount(s)
      <3>1. /\ n + k = m + c /\ k = q + 1 + d /\ k <= m
            /\ n \in Nat /\ q \in Nat /\ c \in Nat /\ d \in Nat /\ m \in Nat /\ k \in Int
        BY <1>5, <1>12 DEF Numbers
      <3>2. /\ Len(available'[s]) = n + 1 /\ acquiredNum'[s] = k - 1 /\ Len(acquired'[s]) = q
            /\ One(inflight'[s] # None) = 0 /\ Cardinality(failed'[s]) = d
            /\ Cardinality(Stuck(s)') = c
        BY <1>3, <1>5, <1>8, <1>10, <2>3
      <3> HIDE DEF n, q, c, k, d, m
      <3>3. (n + 1) + (k - 1) = m + (c) /\ k - 1 = q + 0 + (d) /\ k - 1 <= m
        BY <3>1
      <3> QED BY <3>2, <3>3 DEF m
    <2> QED BY <1>1, <1>2, <1>3, <1>8, <2>2, <2>4, ImagesConstant DEF Turns
  <1>11. CASE /\ UNCHANGED <<image, released, acquiredNum>>
              /\ failed'[s] = failed[s] \cup {i}
    <2>1. /\ \A j \in Images(s) :
               /\ image'[s][j] = "ready" <=> j \in ToSet(available'[s]) /\ j \notin failed'[s]
               /\ j \in ToSet(acquired'[s]) <=> image'[s][j] = "acquired" /\ j \notin failed'[s]
               /\ j = inflight'[s] <=> image'[s][j] = "waited" /\ j \notin failed'[s]
          /\ released'[s] # None => image'[s][released'[s]] = "ready"
      BY <1>1, <1>2, <1>3, <1>6, <1>7, <1>8, <1>9, <1>11 DEF Turns
    <2>2. Stuck(s)' = Stuck(s) \cup {i} /\ i \notin Stuck(s)
      BY <1>6, <1>8, <1>11 DEF Stuck
    <2>3. /\ Cardinality(Stuck(s)') = Cardinality(Stuck(s)) + 1
          /\ Cardinality(failed'[s]) = Cardinality(failed[s]) + 1
      <3>1. IsFiniteSet(Stuck(s)) /\ IsFiniteSet(failed[s])
        BY <1>12 DEF Numbers
      <3>2. Cardinality(Stuck(s) \cup {i}) = Cardinality(Stuck(s)) + 1
        BY <2>2, <3>1, FS_AddElement
      <3>3. Cardinality(failed[s] \cup {i}) = Cardinality(failed[s]) + 1
        BY <1>6, <3>1, FS_AddElement
      <3> QED BY <1>11, <2>2, <3>2, <3>3
    <2>4. /\ Len(available'[s]) + acquiredNum'[s] = ImageCount(s) + Cardinality(Stuck(s)')
          /\ acquiredNum'[s] = Len(acquired'[s]) + One(inflight'[s] # None)
                                 + Cardinality(failed'[s])
          /\ acquiredNum'[s] <= ImageCount(s)
      <3> DEFINE n == Len(available[s])
                 q == Len(acquired[s])
                 c == Cardinality(Stuck(s))
                 k == acquiredNum[s]
                 d == Cardinality(failed[s])
                 m == ImageCount(s)
      <3>1. /\ n + k = m + c /\ k = q + 1 + d /\ k <= m
            /\ n \in Nat /\ q \in Nat /\ c \in Nat /\ d \in Nat /\ m \in Nat /\ k \in Int
        BY <1>5, <1>12 DEF Numbers
      <3>2. /\ Len(available'[s]) = n + 1 /\ acquiredNum'[s] = k /\ Len(acquired'[s]) = q
            /\ One(inflight'[s] # None) = 0 /\ Cardinality(failed'[s]) = d + 1
            /\ Cardinality(Stuck(s)') = c + 1
        BY <1>3, <1>5, <1>8, <1>11, <2>3
      <3> HIDE DEF n, q, c, k, d, m
      <3>3. (n + 1) + (k) = m + (c + 1) /\ k = q + 0 + (d + 1) /\ k <= m
        BY <3>1
      <3> QED BY <3>2, <3>3 DEF m
    <2> QED BY <1>1, <1>2, <1>3, <1>8, <2>1, <2>4, ImagesConstant DEF Turns
  <1> QED BY <1>4, <1>10, <1>11

\* An image goes from the fifo to the application and back, one at a time, or
\* gets lost on the way when a call fails; every list and count that names it
\* follows.
LEMMA TurnsStep == ChainInv /\ [Next]_vars => ImagesInTurn'
  <1> SUFFICES ASSUME ChainInv, [Next]_vars PROVE ImagesInTurn'
    OBVIOUS
  <1> USE DEF ChainInv, compVars, oxrVars, histVars
  <1>1. ASSUME NEW s \in Swapchains,
               \/ Create(s) \/ Acquire(s) \/ AcquireFails(s) \/ BeginWait(s) \/ EndWait(s)
               \/ WaitFails(s) \/ WaitTimesOut(s) \/ Release(s) \/ ReleaseFails(s)
               \/ DestroyHandle(s)
        PROVE ImagesInTurn'
    <2>1. \A t \in Swapchains \ {s} :
            /\ available'[t] = available[t] /\ acquired'[t] = acquired[t]
            /\ image'[t] = image[t] /\ inflight'[t] = inflight[t]
            /\ released'[t] = released[t] /\ acquiredNum'[t] = acquiredNum[t]
            /\ waiting'[t] = waiting[t] /\ handle'[t] = handle[t] /\ unsent'[t] = unsent[t]
            /\ failed'[t] = failed[t]
      <3>1. CASE Create(s) \/ Acquire(s) \/ AcquireFails(s)
        BY <3>1 DEF Create, Acquire, AcquireFails, Shape
      <3>2. CASE BeginWait(s) \/ EndWait(s) \/ WaitFails(s) \/ WaitTimesOut(s)
        BY <3>2 DEF BeginWait, EndWait, WaitFails, WaitTimesOut, Shape
      <3>3. CASE Release(s) \/ ReleaseFails(s) \/ DestroyHandle(s)
        BY <3>3 DEF Release, ReleaseFails, DestroyHandle, Shape
      <3> QED BY <1>1, <3>1, <3>2, <3>3
    <2>2. CASE BeginWait(s)
      <3>1. handle[s] /\ Turns(s) /\ acquired[s] # <<>> /\ inflight[s] = None
        BY <2>2 DEF BeginWait, ImagesInTurn
      <3>2. UNCHANGED <<available, handle, image, acquired, acquiredNum, inflight, released,
                        failed>>
        BY <2>2 DEF BeginWait
      <3>3. handle'[s] /\ Turns(s)'
        BY <3>1, <3>2, ImagesConstant DEF Turns, Stuck
      <3> QED BY <2>1, <3>3, OthersInTurn
    <2>3. CASE WaitTimesOut(s)
      <3>1. handle[s] /\ Turns(s)
        BY <2>3, CanWait DEF WaitTimesOut
      <3>2. /\ UNCHANGED <<available, handle, image, acquired, acquiredNum, inflight, released,
                           failed>>
            /\ ~waiting'[s]
        BY <2>3 DEF WaitTimesOut, Shape
      <3>3. handle'[s] /\ Turns(s)'
        BY <3>1, <3>2, ImagesConstant DEF Turns, Stuck
      <3> QED BY <2>1, <3>3, OthersInTurn
    <2>4. CASE DestroyHandle(s)
      <3>1. ~handle'[s] /\ Unused(s)'
        BY <2>4, ImagesConstant DEF DestroyHandle, Unused, Shape
      <3> QED BY <2>1, <3>1, OthersInTurn
    <2>5. CASE \/ Create(s) \/ Acquire(s) \/ AcquireFails(s) \/ EndWait(s)
               \/ WaitFails(s) \/ Release(s) \/ ReleaseFails(s)
      <3>1. handle'[s] /\ Turns(s)'
        BY <2>5, TurnsCreate, TurnsAcquire, TurnsAcquireFails, TurnsWait, TurnsRelease
      <3> QED BY <2>1, <3>1, OthersInTurn
    <2> QED BY <1>1, <2>2, <2>3, <2>4, <2>5
  <1>2. ASSUME NEW S \in SUBSET Swapchains, EndFrame(S) PROVE ImagesInTurn'
    <2>1. /\ unsent' = [s \in Swapchains |-> unsent[s] /\ s \notin S]
          /\ UNCHANGED <<available, oxrVars, failed>>
      BY <1>2, NextFrame
    <2>2. ASSUME NEW s \in Swapchains PROVE IF handle'[s] THEN Turns(s)' ELSE Unused(s)'
      <3>1. IF handle[s] THEN Turns(s) ELSE Unused(s)
        BY DEF ImagesInTurn
      <3>2. unsent'[s] = (unsent[s] /\ s \notin S)
        BY <2>1
      <3>3. CASE handle[s]
        BY <2>1, <3>1, <3>3, ImagesConstant DEF Turns, Stuck
      <3>4. CASE ~handle[s]
        BY <2>1, <3>1, <3>2, <3>4, ImagesConstant DEF Unused
      <3> QED BY <2>1, <3>3, <3>4
    <2> QED BY <2>2 DEF ImagesInTurn
  <1>3. ASSUME UNCHANGED <<available, handle, image, acquired, acquiredNum, waiting, inflight,
                           released, unsent, failed>>
        PROVE  ImagesInTurn'
    <2>1. \A s : Stuck(s)' = Stuck(s) /\ Images(s)' = Images(s) /\ ImageCount(s)' = ImageCount(s)
      BY <1>3, ImagesConstant DEF Stuck
    <2>2. ASSUME NEW s \in Swapchains PROVE (Turns(s) => Turns(s)') /\ (Unused(s) => Unused(s)')
      BY <1>3, <2>1 DEF Turns, Unused
    <2> QED BY <1>3, <2>2 DEF ImagesInTurn
  <1> QED
    BY <1>1, <1>2, <1>3 DEF Next, vars, frameVars, renderVars, Complete, Replace, Unlist,
      Close, Deliver, TransferLayers, LayerCommit, DestroySystem



(***************************************************************************)
(* The references.                                                         *)
(***************************************************************************)
\* A layer of a slot is a use of its swapchain.
LEMMA LayerUses ==
  ASSUME Shape, NEW f \in Frames, NEW l \in layers[f]
  PROVE  l[1] \in Swapchains /\ f \in Users(l[1])
  <1>1. l \in Layers
    BY DEF Shape
  <1>2. l = <<l[1], l[2]>> /\ l[1] \in Swapchains /\ l[2] \in Images(l[1])
    BY <1>1 DEF Layers
  <1> QED BY <1>2 DEF Users, Uses

\* Clearing slots gives back one reference for each of them that used the
\* swapchain.
LEMMA RetireCount ==
  ASSUME ChainInv, NEW F, Retire(F), UNCHANGED handle, NEW s \in Swapchains
  PROVE  refs'[s] = One(handle'[s]) + Cardinality(Users(s)')
  <1>1. /\ F \subseteq Frames
        /\ \A f \in Frames : layers'[f] = IF f \in F THEN {} ELSE layers[f]
    BY ClearTypes DEF ChainInv, Retire
  <1>2. Users(s)' = Users(s) \ F
    BY <1>1, ImagesConstant DEF Users, Uses
  <1>3. {f \in F : Uses(f, s)} = Users(s) \cap F
    BY <1>1 DEF Users
  <1>4. refs'[s] = refs[s] - Cardinality({f \in F : Uses(f, s)})
    BY DEF Retire, ClearSlots, Drop
  <1>5. /\ Cardinality(Users(s) \ F) = Cardinality(Users(s)) - Cardinality(Users(s) \cap F)
        /\ Cardinality(Users(s)) \in Nat /\ Cardinality(Users(s) \cap F) \in Nat
    BY UsersFinite, FS_Difference, FS_Intersection, FS_CardinalityType
  <1>6. refs[s] = One(handle[s]) + Cardinality(Users(s)) /\ One(handle[s]) \in Nat
    BY DEF ChainInv, Counted, One
  <1>7. refs'[s] = refs[s] - Cardinality(Users(s) \cap F)
    BY <1>3, <1>4
  <1>8. refs'[s] = One(handle[s]) + Cardinality(Users(s) \ F)
    BY <1>5, <1>6, <1>7
  <1> QED BY <1>2, <1>8

\* A step that leaves the slots alone leaves their uses alone.
LEMMA SameUsers ==
  ASSUME UNCHANGED layers, NEW s PROVE Users(s)' = Users(s)
  BY ImagesConstant DEF Users, Uses

\* A reference is taken with every handle and every slot, and given back with
\* it, on each of the paths a frame can take.
LEMMA CountedStep == ChainInv /\ [Next]_vars => Counted'
  <1> SUFFICES ASSUME ChainInv, [Next]_vars PROVE Counted'
    OBVIOUS
  <1> USE DEF ChainInv, compVars, oxrVars
  <1>1. ASSUME NEW s \in Swapchains, Create(s) PROVE Counted'
    <2>1. /\ life[s] = "none" /\ refs' = [refs EXCEPT ![s] = 1]
          /\ handle' = [handle EXCEPT ![s] = TRUE] /\ UNCHANGED layers
      BY <1>1 DEF Create
    <2>2. Users(s) = {}
      BY <2>1, HandleLives
    <2>3. ASSUME NEW t \in Swapchains PROVE refs'[t] = One(handle'[t]) + Cardinality(Users(t)')
      <3>1. Users(t)' = Users(t) /\ refs[t] = One(handle[t]) + Cardinality(Users(t))
        BY <2>1, SameUsers DEF Counted
      <3>2. CASE t = s
        <4>1. refs'[t] = 1 /\ handle'[t]
          BY <2>1, <3>2 DEF Shape
        <4>2. Cardinality(Users(t)') = 0
          BY <2>2, <3>1, <3>2, FS_EmptySet
        <4> QED BY <4>1, <4>2 DEF One
      <3>3. CASE t # s
        BY <2>1, <3>1, <3>3 DEF Shape
      <3> QED BY <3>2, <3>3
    <2> QED BY <2>3 DEF Counted
  <1>2. ASSUME NEW s \in Swapchains, DestroyHandle(s) PROVE Counted'
    <2>1. /\ handle[s] /\ handle' = [handle EXCEPT ![s] = FALSE] /\ UNCHANGED layers
          /\ Drop([t \in Swapchains |-> IF t = s THEN 1 ELSE 0])
      BY <1>2 DEF DestroyHandle
    <2>2. refs' = [t \in Swapchains |-> refs[t] - (IF t = s THEN 1 ELSE 0)]
      BY <2>1 DEF Drop
    <2>3. ASSUME NEW t \in Swapchains PROVE refs'[t] = One(handle'[t]) + Cardinality(Users(t)')
      <3>1. /\ Users(t)' = Users(t) /\ refs[t] = One(handle[t]) + Cardinality(Users(t))
            /\ Cardinality(Users(t)) \in Nat
        BY <2>1, SameUsers, UsersFinite DEF Counted
      <3>2. CASE t = s
        BY <2>1, <2>2, <3>1, <3>2 DEF One, Shape
      <3>3. CASE t # s
        BY <2>1, <2>2, <3>1, <3>3 DEF One, Shape
      <3> QED BY <3>2, <3>3
    <2> QED BY <2>3 DEF Counted
  <1>3. ASSUME NEW S \in SUBSET Swapchains, EndFrame(S) PROVE Counted'
    <2> DEFINE f == Newest + 1
    <2>1. /\ f \in Frames /\ f \notin Slots
          /\ layers' = [layers EXCEPT ![f] = {<<s, released[s]>> : s \in S}]
          /\ refs' = [s \in Swapchains |-> refs[s] + IF s \in S THEN 1 ELSE 0]
          /\ S \subseteq Submittable /\ UNCHANGED handle
      BY <1>3, NextFrame
    <2> HIDE DEF f
    <2>2. layers[f] = {} /\ layers'[f] = {<<s, released[s]>> : s \in S}
      BY <2>1 DEF SlotsHoldLayers, Shape
    <2>3. ASSUME NEW t \in Swapchains PROVE refs'[t] = One(handle'[t]) + Cardinality(Users(t)')
      <3>1. Users(t) \ {f} = Users(t)' \ {f} /\ f \notin Users(t)
        BY <2>1, <2>2, ImagesConstant DEF Users, Uses, Shape
      <3>2. f \in Users(t)' <=> t \in S
        <4>1. f \in Users(t)' <=> \E i \in Images(t) : <<t, i>> \in layers'[f]
          BY <2>1, ImagesConstant DEF Users, Uses
        <4>2. t \in S => released[t] \in Images(t)
          BY <2>1 DEF Submittable, Shape
        <4> QED BY <2>2, <4>1, <4>2
      <3>3. /\ Cardinality(Users(t)) \in Nat /\ Cardinality(Users(t)') \in Nat
            /\ Cardinality(Users(t)') = Cardinality(Users(t)) + One(t \in S)
        <4>1. /\ Cardinality(Users(t)) \in Nat /\ Cardinality(Users(t)') \in Nat
              /\ Cardinality(Users(t)') = Cardinality(Users(t)) - One(f \in Users(t))
                                            + One(f \in Users(t)')
          BY <3>1, UsersFinite, SetChange
        <4>2. One(f \in Users(t)) = 0 /\ One(f \in Users(t)') = One(t \in S)
          BY <3>1, <3>2 DEF One
        <4> QED BY <4>1, <4>2
      <3>4. refs[t] = One(handle[t]) + Cardinality(Users(t)) /\ One(handle[t]) \in Nat
        BY DEF Counted, One
      <3>5. refs'[t] = refs[t] + One(t \in S)
        BY <2>1 DEF One
      <3> QED BY <2>1, <3>3, <3>4, <3>5 DEF One
    <2> QED BY <2>3 DEF Counted
  <1>4. ASSUME NEW old \in Frames, NEW new \in Frames, Replace(old, new) PROVE
        Counted'
    BY <1>4, Retires, RetireCount DEF Replace, Counted
  <1>5. ASSUME Close PROVE Counted'
    BY <1>5, Retires, RetireCount DEF Close, Counted
  <1>6. ASSUME Deliver PROVE Counted'
    <2>1. UNCHANGED handle
      BY <1>6 DEF Deliver
    <2>2. (\E F : Retire(F)) \/ UNCHANGED <<refs, layers>>
      BY <1>6, Retires
    <2>3. CASE \E F : Retire(F)
      BY <2>1, <2>3, RetireCount DEF Counted
    <2>4. CASE UNCHANGED <<refs, layers>>
      BY <2>1, <2>4, SameUsers DEF Counted
    <2> QED BY <2>2, <2>3, <2>4
  <1>7. ASSUME TransferLayers PROVE Counted'
    <2>1. UNCHANGED handle
      BY <1>7 DEF TransferLayers
    <2>2. (\E F : Retire(F)) \/ UNCHANGED <<refs, layers>>
      BY <1>7, Retires
    <2>3. CASE \E F : Retire(F)
      BY <2>1, <2>3, RetireCount DEF Counted
    <2>4. CASE UNCHANGED <<refs, layers>>
      BY <2>1, <2>4, SameUsers DEF Counted
    <2> QED BY <2>2, <2>3, <2>4
  <1>8. ASSUME UNCHANGED <<refs, handle, layers>> PROVE Counted'
    BY <1>8, SameUsers DEF Counted
  <1>9. QED
    BY <1>1, <1>2, <1>3, <1>4, <1>5, <1>6, <1>7, <1>8 DEF Next, vars, frameVars,
      renderVars, histVars, Acquire, AcquireFails, BeginWait, EndWait, WaitTimesOut,
      WaitFails, Release, ReleaseFails, Complete, Unlist, LayerCommit, DestroySystem


\* A swapchain whose layers are in a slot lives.
LEMMA SlotLives ==
  ASSUME ChainInv, NEW f \in Frames, NEW l \in layers[f]
  PROVE  life[l[1]] = "live"
  <1>1. l[1] \in Swapchains /\ f \in Users(l[1])
    BY LayerUses DEF ChainInv
  <1> QED BY <1>1, HandleLives

\* With the client gone nothing lives.
LEMMA ClosedHolds ==
  ASSUME ChainInv, client = "closed", NEW s \in Swapchains
  PROVE  ~handle[s] /\ refs[s] = 0 /\ life[s] # "live"
  <1>1. ~handle[s] /\ Users(s) = {}
    <2>1. ~handle[s] /\ \A f \in Frames : layers[f] = {}
      BY DEF ChainInv, SlotsHoldLayers
    <2> QED BY <2>1 DEF Users, Uses
  <1>2. refs[s] = 0
    BY <1>1, FS_EmptySet DEF ChainInv, Counted, One
  <1> QED BY <1>1, <1>2 DEF ChainInv, Lives

\* The last reference puts a swapchain on the stack; nothing is freed there.
LEMMA DropLives ==
  ASSUME ChainInv, Counted', NEW n \in [Swapchains -> Nat], Drop(n), NEW s \in Swapchains
  PROVE  (life'[s] = "live" <=> refs'[s] > 0) /\ (life'[s] = "freed" => life[s] = "freed")
  <1>1. refs'[s] >= 0
    <2>1. IsFiniteSet(Frames) /\ Users(s)' \subseteq Frames
      BY SwapchainAssumption, FS_Interval DEF Frames, Users
    <2>2. Cardinality(Users(s)') \in Nat
      BY <2>1, FS_Subset, FS_CardinalityType
    <2>3. refs'[s] = One(handle'[s]) + Cardinality(Users(s)') /\ One(handle'[s]) \in Nat
      BY DEF Counted, One
    <2> QED BY <2>2, <2>3
  <1>2. /\ refs'[s] = refs[s] - n[s] /\ n[s] \in Nat /\ refs[s] \in Int
        /\ life'[s] = IF n[s] > 0 /\ refs'[s] = 0 THEN "stacked" ELSE life[s]
    BY DEF Drop, ChainInv, Shape
  <1>3. life[s] = "live" <=> refs[s] > 0
    BY DEF ChainInv, Lives
  <1> QED BY <1>1, <1>2, <1>3

\* The same of a step that clears slots.
LEMMA RetireLives ==
  ASSUME ChainInv, Counted', NEW F, Retire(F), NEW s \in Swapchains
  PROVE  (life'[s] = "live" <=> refs'[s] > 0) /\ (life'[s] = "freed" => life[s] = "freed")
  <1> DEFINE n == [t \in Swapchains |-> Cardinality({f \in F : Uses(f, t)})]
  <1>1. Drop(n)
    BY DEF Retire, ClearSlots
  <1>2. n \in [Swapchains -> Nat]
    <2>1. IsFiniteSet(Frames)
      BY SwapchainAssumption, FS_Interval DEF Frames
    <2>2. \A t : Cardinality({f \in F : Uses(f, t)}) \in Nat
      BY <2>1, FS_Subset, FS_CardinalityType DEF Retire
    <2> QED BY <2>2
  <1> HIDE DEF n
  <1> QED BY <1>1, <1>2, DropLives

\* What the application or a slot holds lives, and what is drawn from is not
\* freed before the drawing is over: a swapchain is freed in two steps.
LEMMA LivesStep == ChainInv /\ Counted' /\ [Next]_vars => Lives'
  <1> SUFFICES ASSUME ChainInv, Counted', [Next]_vars PROVE Lives'
    OBVIOUS
  <1> USE DEF ChainInv, Lives, compVars, renderVars
  <1>1. ASSUME NEW s \in Swapchains, Create(s) PROVE Lives'
    <2>1. /\ client = "listed" /\ life[s] = "none" /\ refs' = [refs EXCEPT ![s] = 1]
          /\ life' = [life EXCEPT ![s] = "live"] /\ UNCHANGED <<client, renderPc, drawing>>
      BY <1>1 DEF Create
    <2>2. renderPc # "gone"
      BY <2>1
    <2>3. ASSUME NEW t \in Swapchains
          PROVE  (life'[t] = "live" <=> refs'[t] > 0) /\ (life'[t] = "freed" => life[t] = "freed")
      BY <2>1 DEF Shape
    <2>4. \A l \in drawing : l[1] \in Swapchains
      BY DEF Shape, Layers
    <2> QED BY <2>1, <2>2, <2>3, <2>4
  <1>2. ASSUME NEW s \in Swapchains, DestroyHandle(s) PROVE Lives'
    <2>1. /\ UNCHANGED <<client, renderPc, drawing>> /\ handle[s]
          /\ Drop([t \in Swapchains |-> IF t = s THEN 1 ELSE 0])
      BY <1>2 DEF DestroyHandle
    <2>2. renderPc # "gone"
      BY <2>1, ClosedHolds
    <2>3. [t \in Swapchains |-> IF t = s THEN 1 ELSE 0] \in [Swapchains -> Nat]
      OBVIOUS
    <2>4. ASSUME NEW t \in Swapchains
          PROVE  (life'[t] = "live" <=> refs'[t] > 0) /\ (life'[t] = "freed" => life[t] = "freed")
      BY <2>1, <2>3, DropLives
    <2>5. \A l \in drawing : l[1] \in Swapchains
      BY DEF Shape, Layers
    <2> QED BY <2>1, <2>2, <2>4, <2>5
  <1>3. ASSUME NEW S \in SUBSET Swapchains, EndFrame(S) PROVE Lives'
    <2>1. /\ UNCHANGED <<life, client, renderPc, drawing>> /\ client = "listed"
          /\ refs' = [s \in Swapchains |-> refs[s] + IF s \in S THEN 1 ELSE 0]
          /\ S \subseteq Submittable
      BY <1>3, NextFrame
    <2>2. ASSUME NEW t \in Swapchains PROVE life'[t] = "live" <=> refs'[t] > 0
      <3>1. t \in S => handle[t]
        BY <2>1 DEF Submittable
      <3>2. t \in S => refs[t] > 0
        BY <3>1, HandleLives
      <3> QED BY <2>1, <3>2 DEF Shape
    <2> QED BY <2>1, <2>2
  <1>4. ASSUME NEW old \in Frames, NEW new \in Frames, Replace(old, new) PROVE
        Lives'
    <2>1. UNCHANGED <<client, renderPc, drawing>> /\ client # "closed" /\ Retire({old})
      BY <1>4, Retires DEF Replace
    <2>2. ASSUME NEW t \in Swapchains
          PROVE  (life'[t] = "live" <=> refs'[t] > 0) /\ (life'[t] = "freed" => life[t] = "freed")
      BY <2>1, RetireLives
    <2>3. \A l \in drawing : l[1] \in Swapchains
      BY DEF Shape, Layers
    <2> QED BY <2>1, <2>2, <2>3
  <1>5. ASSUME Unlist PROVE Lives'
    BY <1>5 DEF Unlist
  <1>6. ASSUME Close PROVE Lives'
    <2>1. /\ UNCHANGED <<renderPc, drawing>> /\ client = "unlisted"
          /\ Retire(Pipeline!Known \ (past \cup {0}))
      BY <1>6, Retires DEF Close
    <2>2. ASSUME NEW t \in Swapchains
          PROVE  (life'[t] = "live" <=> refs'[t] > 0) /\ (life'[t] = "freed" => life[t] = "freed")
      BY <2>1, RetireLives
    <2>3. \A l \in drawing : l[1] \in Swapchains
      BY DEF Shape, Layers
    <2> QED BY <2>1, <2>2, <2>3
  <1>7. ASSUME Deliver PROVE Lives'
    <2>1. UNCHANGED <<client, drawing>> /\ renderPc = "idle" /\ renderPc' = "transfer"
      BY <1>7 DEF Deliver
    <2>2. Retire({shown} \ {0}) \/ UNCHANGED <<refs, life>>
      BY <1>7, Retires
    <2>3. ASSUME NEW t \in Swapchains PROVE life'[t] = "live" <=> refs'[t] > 0
      BY <2>2, RetireLives
    <2> QED BY <2>1, <2>3
  <1>8. ASSUME TransferLayers PROVE Lives'
    <2>1. UNCHANGED client /\ renderPc = "transfer" /\ renderPc' = "drawing"
      BY <1>8 DEF TransferLayers
    <2>2. CASE Pipeline!Hide /\ ClearSlots({shown}) /\ drawing' = {}
      <3>1. Retire({shown})
        BY <2>2, RetireHide
      <3>2. ASSUME NEW t \in Swapchains PROVE life'[t] = "live" <=> refs'[t] > 0
        BY <3>1, RetireLives
      <3> QED BY <2>1, <2>2, <3>2
    <2>3. CASE /\ drawing' = IF client = "listed" /\ shown # 0 THEN layers[shown] ELSE {}
               /\ UNCHANGED <<refs, life>>
      <3>1. shown # 0 => shown \in Frames
        BY DEF Numbered
      <3>2. \A l \in drawing' : life[l[1]] = "live"
        BY <2>3, <3>1, SlotLives
      <3> QED BY <2>1, <2>3, <3>2
    <2> QED BY <1>8, <2>2, <2>3 DEF TransferLayers
  <1>9. ASSUME LayerCommit PROVE Lives'
    <2>1. /\ drawing' = {} /\ renderPc' = "idle" /\ UNCHANGED <<refs, client>>
          /\ FreeStacked \/ UNCHANGED life
      BY <1>9 DEF LayerCommit
    <2>2. \A t \in Swapchains : life'[t] = "live" <=> life[t] = "live"
      BY <2>1 DEF FreeStacked
    <2> QED BY <2>1, <2>2
  <1>10. ASSUME DestroySystem PROVE Lives'
    <2>1. /\ client = "closed" /\ renderPc = "idle" /\ renderPc' = "gone" /\ FreeStacked
          /\ UNCHANGED <<refs, client, drawing>>
      BY <1>10 DEF DestroySystem
    <2>2. \A t \in Swapchains : refs[t] = 0 /\ life[t] \in {"none", "stacked", "freed"}
      BY <2>1, ClosedHolds DEF Shape
    <2>3. \A t \in Swapchains : life'[t] \in {"none", "freed"}
      BY <2>1, <2>2 DEF FreeStacked
    <2> QED BY <2>1, <2>2, <2>3
  <1>11. ASSUME UNCHANGED <<life, refs, drawing, renderPc, client>> PROVE Lives'
    BY <1>11
  <1>12. QED
    BY <1>1, <1>2, <1>3, <1>4, <1>5, <1>6, <1>7, <1>8, <1>9, <1>10, <1>11 DEF
      Next, vars, frameVars, oxrVars, histVars, Acquire, AcquireFails, BeginWait, EndWait,
      WaitTimesOut, WaitFails, Release, ReleaseFails, Complete



(***************************************************************************)
(* The rotation of the images.                                             *)
(***************************************************************************)
\* Every image that any frame in flight uses is at least 0 frames old.
LEMMA AgedAll ==
  ASSUME Numbered, NEW s PROVE Aged(s, 0) = Images(s) /\ Aged(s, 2) \subseteq Aged(s, 1)
  <1>1. /\ Newest \in Nat /\ inFlight \subseteq Frames
        /\ \A f \in inFlight : f \in Int /\ f <= Newest
    BY DEF Numbered, Frames
  <1>2. \A f \in inFlight : f + 0 <= Newest /\ (f + 2 <= Newest => f + 1 <= Newest)
    BY <1>1
  <1> QED BY <1>2 DEF Aged

\* Frames that leave their slots make no image younger.
LEMMA AgedKept ==
  ASSUME Newest' = Newest, inFlight' \subseteq inFlight,
         \A f \in inFlight : layers'[f] \subseteq layers[f], NEW s, NEW k
  PROVE  Aged(s, k) \subseteq Aged(s, k)'
  BY ImagesConstant DEF Aged

\* Nor does a step that changes none of the rest.
LEMMA RotationKept ==
  ASSUME ChainInv, Newest' = Newest, inFlight' \subseteq inFlight,
         \A f \in Frames : layers'[f] \subseteq layers[f],
         NEW s \in Swapchains, handle[s],
         available'[s] = available[s] /\ image'[s] = image[s] /\ released'[s] = released[s],
         acquiredNum'[s] = acquiredNum[s] /\ unsent'[s] = unsent[s],
         oneAtATime'[s] = oneAtATime[s]
  PROVE  InRotation(s)'
  <1>1. InRotation(s) /\ inFlight \subseteq Frames
    BY DEF ChainInv, Rotation, Numbered
  <1>2. Aged(s, 1) \subseteq Aged(s, 1)' /\ Aged(s, 2) \subseteq Aged(s, 2)'
    BY <1>1, AgedKept
  <1>3. CASE s \in Static
    BY <1>1, <1>3 DEF InRotation, Submitted
  <1>4. CASE s \notin Static
    <2>1. oneAtATime[s] => Rotates(s)
      BY <1>1, <1>4 DEF InRotation
    <2>2. Rotates(s) => Rotates(s)'
      BY <1>2, ImagesConstant DEF Rotates
    <2> QED BY <1>4, <2>1, <2>2 DEF InRotation
  <1> QED BY <1>3, <1>4

\* A step that retires frames.
LEMMA RotationRetire ==
  ASSUME ChainInv, NEW F, Retire(F),
         UNCHANGED <<available, handle, image, acquiredNum, released, unsent, oneAtATime>>
  PROVE  Rotation'
  <1>1. Newest' = Newest /\ inFlight' \subseteq inFlight
    BY DEF Retire, Newest
  <1>2. \A f \in Frames : layers'[f] \subseteq layers[f]
    BY ClearTypes DEF ChainInv
  <1> QED BY <1>1, <1>2, RotationKept DEF Rotation

\* A step of the application on one swapchain.
LEMMA RotationOthers ==
  ASSUME ChainInv, NEW s \in Swapchains, UNCHANGED <<layers, inFlight, shown, past>>,
         \A t \in Swapchains \ {s} :
           /\ available'[t] = available[t] /\ image'[t] = image[t]
           /\ released'[t] = released[t] /\ acquiredNum'[t] = acquiredNum[t]
           /\ handle'[t] = handle[t] /\ unsent'[t] = unsent[t]
           /\ oneAtATime'[t] = oneAtATime[t],
         handle'[s] => InRotation(s)'
  PROVE  Rotation'
  <1>1. Newest' = Newest
    BY DEF Newest, Pipeline!Known
  <1>2. ASSUME NEW t \in Swapchains, t # s, handle'[t] PROVE InRotation(t)'
    BY <1>1, <1>2, RotationKept
  <1> QED BY <1>2 DEF Rotation

\* While nothing is submitted, images keep their age.
LEMMA AgedSame ==
  ASSUME UNCHANGED <<layers, inFlight, shown, past>>, NEW s, NEW k
  PROVE  Aged(s, k)' = Aged(s, k)
  <1>1. Newest' = Newest
    BY DEF Newest, Pipeline!Known
  <1> QED BY <1>1, ImagesConstant DEF Aged

\* A frame makes every image a frame older, but for those it is made of.
LEMMA AgedNext ==
  ASSUME ChainInv, NEW S \in SUBSET Swapchains, EndFrame(S), NEW s \in Swapchains,
         NEW k \in Nat, NEW i \in Aged(s, k), s \in S => i # released[s]
  PROVE  i \in Aged(s, k + 1)' /\ i \in Aged(s, k)'
  <1>1. /\ Newest \in Nat /\ Newest' = Newest + 1 /\ inFlight' = inFlight \cup {Newest + 1}
        /\ layers' = [layers EXCEPT ![Newest + 1] = {<<t, released[t]>> : t \in S}]
        /\ Newest + 1 \in Frames /\ Newest + 1 \notin inFlight
    BY NextFrame DEF ChainInv, Slots
  <1>2. i \in Images(s) /\ \A f \in inFlight : <<s, i>> \in layers[f] => f + k <= Newest
    BY DEF Aged
  <1>3. ASSUME NEW f \in inFlight', <<s, i>> \in layers'[f]
        PROVE  f + (k + 1) <= Newest + 1 /\ f + k <= Newest + 1
    <2>1. f # Newest + 1
      <3>1. layers'[Newest + 1] = {<<t, released[t]>> : t \in S}
        BY <1>1 DEF ChainInv, Shape
      <3>2. <<s, i>> \notin {<<t, released[t]>> : t \in S}
        OBVIOUS
      <3> QED BY <1>3, <3>1, <3>2
    <2>2. f \in inFlight /\ layers'[f] = layers[f]
      BY <1>1, <1>3, <2>1 DEF ChainInv, Shape
    <2>3. f + k <= Newest /\ f \in Int
      BY <1>2, <1>3, <2>2 DEF ChainInv, Numbered, Frames
    <2> QED BY <1>1, <2>3
  <1> QED BY <1>1, <1>2, <1>3, ImagesConstant DEF Aged


\* Steps that touch neither images nor frames.
LEMMA RotationSame ==
  ASSUME ChainInv, UNCHANGED <<layers, inFlight, shown, past>>,
         UNCHANGED <<available, handle, image, acquiredNum, released, unsent, oneAtATime>>
  PROVE  Rotation'
  <1>1. Newest' = Newest
    BY DEF Newest, Pipeline!Known
  <1> QED BY <1>1, RotationKept DEF Rotation

\* The images go round: an image is handed out again when two frames were made
\* since the one it is part of.
LEMMA RotationStep == ChainInv /\ [Next]_vars => Rotation'
  <1> SUFFICES ASSUME ChainInv, [Next]_vars PROVE Rotation'
    OBVIOUS
  <1> USE DEF ChainInv, frameVars, compVars, oxrVars, histVars
  <1>1. ASSUME NEW s \in Swapchains, Create(s) PROVE Rotation'
    <2>1. /\ UNCHANGED <<layers, inFlight, shown, past>>
          /\ \A t \in Swapchains \ {s} :
               /\ available'[t] = available[t] /\ image'[t] = image[t]
               /\ released'[t] = released[t] /\ acquiredNum'[t] = acquiredNum[t]
               /\ handle'[t] = handle[t] /\ unsent'[t] = unsent[t]
               /\ oneAtATime'[t] = oneAtATime[t]
      BY <1>1 DEF Create, Shape, frameVars
    <2>2. Users(s) = {} /\ ~handle[s]
      BY <1>1, HandleLives DEF Create
    <2>3. \A f \in Frames, i \in Images(s) : <<s, i>> \notin layers'[f]
      BY <2>1, <2>2 DEF Users, Uses
    <2>4. /\ acquiredNum'[s] = 0 /\ released'[s] = None /\ ~unsent'[s]
          /\ \A i \in Images(s) : image'[s][i] = "ready"
      BY <1>1, <2>2 DEF Create, ImagesInTurn, Unused
    <2>5. Aged(s, 1)' = Images(s) /\ Aged(s, 2)' = Images(s)
      BY <2>1, <2>3, ImagesConstant DEF Aged, Numbered
    <2>6. CASE s \in Static
      BY <2>1, <2>3, <2>6, ImageNumbers, RotationOthers DEF InRotation, Submitted
    <2>7. CASE s \notin Static
      <3>1. available'[s] = [k \in 1..3 |-> k - 1] /\ Images(s) = 0..2
        BY <1>1, <2>7, ImageNumbers DEF Create, Shape
      <3>2. available'[s][1] \in Images(s) /\ available'[s][2] \in Images(s)
        BY <3>1
      <3>3. Rotates(s)'
        BY <2>4, <2>5, <3>2, ImagesConstant DEF Rotates
      <3> QED BY <2>1, <2>7, <3>3, RotationOthers DEF InRotation
    <2> QED BY <2>6, <2>7
  <1>2. ASSUME NEW s \in Swapchains, Acquire(s) PROVE Rotation'
    <2>1. /\ UNCHANGED <<layers, inFlight, shown, past>>
          /\ \A t \in Swapchains \ {s} :
               /\ available'[t] = available[t] /\ image'[t] = image[t]
               /\ released'[t] = released[t] /\ acquiredNum'[t] = acquiredNum[t]
               /\ handle'[t] = handle[t] /\ unsent'[t] = unsent[t]
               /\ oneAtATime'[t] = oneAtATime[t]
      BY <1>2 DEF Acquire, Shape, frameVars
    <2> DEFINE i == Head(available[s])
    <2>2. /\ handle[s] /\ InRotation(s) /\ Turns(s) /\ available[s] # <<>>
          /\ available[s] \in Seq(Images(s)) /\ IsInjective(available[s])
      BY <1>2, CanAcquire DEF Acquire, MayAcquire, Rotation, ImagesInTurn, Turns, Shape
    <2>3. /\ i \in Images(s) /\ i = available[s][1] /\ Len(available[s]) \in Nat \ {0}
          /\ Len(Tail(available[s])) = Len(available[s]) - 1
          /\ \A k \in 1..(Len(available[s]) - 1) : Tail(available[s])[k] = available[s][k + 1]
      BY <2>2, TakeFirst
    <2>4. /\ available'[s] = Tail(available[s]) /\ acquiredNum'[s] = acquiredNum[s] + 1
          /\ image'[s] = [image[s] EXCEPT ![i] = "acquired"]
          /\ released'[s] = (IF released[s] = i THEN None ELSE released[s])
          /\ unsent'[s] = unsent[s]
          /\ oneAtATime'[s] = (oneAtATime[s] /\ ~unsent[s] /\ acquiredNum[s] = 0)
          /\ s \in Static => released[s] = None
      BY <1>2 DEF Acquire, MayAcquire, Shape
    <2> HIDE DEF i
    <2>5. CASE s \in Static
      <3>1. \A f \in Frames : <<s, 0>> \notin layers[f]
        BY <2>2, <2>4, <2>5 DEF InRotation, Submitted, None
      <3> QED BY <2>1, <2>5, <3>1, RotationOthers DEF InRotation, Submitted
    <2>6. CASE s \notin Static /\ oneAtATime'[s]
      <3>1. Rotates(s) /\ ~unsent[s] /\ acquiredNum[s] = 0 /\ Len(available[s]) = 3
        <4>1. Rotates(s) /\ ~unsent[s] /\ acquiredNum[s] = 0
          BY <2>2, <2>4, <2>6 DEF InRotation
        <4>2. ImageCount(s) = 3
          BY <2>6, ImageNumbers
        <4>3. Numbers(s)
          BY <2>2, TurnsNumbers
        <4>4. Cardinality(failed[s]) = 0
          <5>1. acquiredNum[s] = Len(acquired[s]) + One(inflight[s] # None)
                                   + Cardinality(failed[s])
            BY <4>3 DEF Numbers
          <5> DEFINE q == Len(acquired[s])
                     e == One(inflight[s] # None)
                     d == Cardinality(failed[s])
          <5>2. 0 = q + e + d /\ q \in Nat /\ e \in Nat /\ d \in Nat
            BY <4>1, <4>3, <5>1 DEF Numbers
          <5> HIDE DEF q, e, d
          <5>3. d = 0
            BY <5>2
          <5> QED BY <5>3 DEF d
        <4>5. Len(available[s]) + 0 = 3 + 0 /\ Len(available[s]) \in Nat
          BY <4>1, <4>2, <4>3, <4>4 DEF Numbers
        <4> QED BY <4>1, <4>5
      <3>2. available[s][1] \in Aged(s, 2) /\ available[s][2] \in Aged(s, 1)
        BY <3>1 DEF Rotates
      <3>3. /\ Len(available'[s]) = 2 /\ available'[s][1] = available[s][2]
            /\ available'[s][2] = available[s][3]
        BY <2>3, <2>4, <3>1
      <3>4. \A j \in Images(s) : image'[s][j] # "ready" => j \in Aged(s, 2)
        BY <2>3, <2>4, <3>1, <3>2 DEF Rotates, Shape
      <3>6. acquiredNum'[s] = 1 /\ ~unsent'[s]
        BY <2>4, <3>1
      <3>5. released'[s] \in {None, available'[s][3 - acquiredNum'[s]]}
        BY <2>4, <3>1, <3>3, <3>6 DEF Rotates
      <3>7. Aged(s, 1)' = Aged(s, 1) /\ Aged(s, 2)' = Aged(s, 2)
        BY <2>1, AgedSame
      <3>8. Rotates(s)'
        BY <3>2, <3>3, <3>4, <3>5, <3>6, <3>7, ImagesConstant DEF Rotates
      <3> QED BY <2>1, <2>6, <3>8, RotationOthers DEF InRotation
    <2>7. CASE s \notin Static /\ ~oneAtATime'[s]
      BY <2>1, <2>7, RotationOthers DEF InRotation
    <2> QED BY <2>5, <2>6, <2>7
  <1>3. ASSUME NEW s \in Swapchains, EndWait(s) PROVE Rotation'
    <2>1. /\ UNCHANGED <<layers, inFlight, shown, past>>
          /\ \A t \in Swapchains \ {s} :
               /\ available'[t] = available[t] /\ image'[t] = image[t]
               /\ released'[t] = released[t] /\ acquiredNum'[t] = acquiredNum[t]
               /\ handle'[t] = handle[t] /\ unsent'[t] = unsent[t]
               /\ oneAtATime'[t] = oneAtATime[t]
      BY <1>3 DEF EndWait, Shape, frameVars
    <2> DEFINE i == Head(acquired[s])
    <2>2. /\ acquired[s] # <<>> /\ Turns(s) /\ acquired[s] \in Seq(Images(s))
          /\ IsInjective(acquired[s]) /\ handle[s] /\ InRotation(s)
      BY <1>3, CanWait DEF Shape, Turns, EndWait, Rotation
    <2>3. i \in Images(s) /\ i \in ToSet(acquired[s])
      BY <2>2, TakeFirst
    <2>4. image[s][i] = "acquired"
      BY <2>2, <2>3 DEF Turns
    <2>5. /\ image'[s] = [image[s] EXCEPT ![i] = "waited"]
          /\ UNCHANGED <<available, acquiredNum, released, unsent, oneAtATime>>
      BY <1>3 DEF EndWait, Shape
    <2> HIDE DEF i
    <2>6. \A j \in Images(s) : image'[s][j] # "ready" => image[s][j] # "ready"
      BY <2>4, <2>5 DEF Shape
    <2>7. Aged(s, 1)' = Aged(s, 1) /\ Aged(s, 2)' = Aged(s, 2)
      BY <2>1, AgedSame
    <2>8. Rotates(s) => Rotates(s)'
      BY <2>5, <2>6, <2>7, ImagesConstant DEF Rotates
    <2>9. Submitted(s) => Submitted(s)'
      BY <2>1, <2>5 DEF Submitted
    <2> QED BY <2>1, <2>2, <2>5, <2>8, <2>9, RotationOthers DEF InRotation
  <1>4. ASSUME NEW s \in Swapchains, Release(s) PROVE Rotation'
    <2>1. /\ UNCHANGED <<layers, inFlight, shown, past>>
          /\ \A t \in Swapchains \ {s} :
               /\ available'[t] = available[t] /\ image'[t] = image[t]
               /\ released'[t] = released[t] /\ acquiredNum'[t] = acquiredNum[t]
               /\ handle'[t] = handle[t] /\ unsent'[t] = unsent[t]
               /\ oneAtATime'[t] = oneAtATime[t]
      BY <1>4 DEF Release, Shape, frameVars
    <2> DEFINE i == inflight[s]
    <2>2. /\ handle[s] /\ i \in Images(s) /\ i # None /\ available[s] \in Seq(Images(s))
      BY <1>4 DEF Release, Shape
    <2>3. Turns(s) /\ InRotation(s) /\ image[s][i] = "waited"
      BY <2>2 DEF ImagesInTurn, Rotation, Turns
    <2>4. /\ available'[s] = Append(available[s], i) /\ released'[s] = i
          /\ image'[s] = [image[s] EXCEPT ![i] = "ready"]
          /\ acquiredNum'[s] = acquiredNum[s] - 1
          /\ unsent'[s] = oneAtATime[s] /\ oneAtATime'[s] = oneAtATime[s]
      BY <1>4 DEF Release, Shape
    <2> HIDE DEF i
    <2>5. /\ Len(available[s]) \in Nat /\ Len(available'[s]) = Len(available[s]) + 1
          /\ \A k \in 1..Len(available[s]) : available'[s][k] = available[s][k]
          /\ available'[s][Len(available[s]) + 1] = i
      BY <2>2, <2>4, AppendProperties, LenProperties
    <2>6. CASE s \in Static
      <3>1. released'[s] = 0
        BY <2>2, <2>4, <2>6, ImageNumbers
      <3> QED BY <2>1, <2>6, <3>1, RotationOthers DEF InRotation, Submitted
    <2>7. CASE s \notin Static /\ oneAtATime[s]
      <3>1. Rotates(s)
        BY <2>3, <2>7 DEF InRotation
      <3>2. i \in Aged(s, 2)
        BY <2>2, <2>3, <3>1 DEF Rotates
      <3>3. acquiredNum[s] = 1 /\ Len(available[s]) = 2
        <4>1. One(inflight[s] # None) = 1 /\ ImageCount(s) = 3
          BY <2>2, <2>7, ImageNumbers DEF One, i
        <4>2. acquiredNum[s] \in {0, 1}
          BY <3>1 DEF Rotates
        <4>3. Numbers(s)
          BY <2>3, TurnsNumbers
        <4> DEFINE n == Len(available[s])
                   q == Len(acquired[s])
                   c == Cardinality(Stuck(s))
                   d == Cardinality(failed[s])
                   k == acquiredNum[s]
        <4>4. /\ n + k = 3 + c /\ k = q + 1 + d /\ k \in {0, 1} /\ (d = 0 => c = 0)
              /\ n \in Nat /\ q \in Nat /\ c \in Nat /\ d \in Nat
          BY <4>1, <4>2, <4>3 DEF Numbers
        <4> HIDE DEF n, q, c, d, k
        <4>5. d = 0
          BY <4>4
        <4>6. k = 1 /\ n = 2
          BY <4>4, <4>5
        <4> QED BY <4>6 DEF n, k
      <3>5. /\ Len(available'[s]) = 3 /\ available'[s][1] = available[s][1]
            /\ available'[s][3] = i
        BY <2>5, <3>3
      <3>6. available[s][1] \in Aged(s, 1)
        BY <3>1, <3>3 DEF Rotates
      <3>7. \A j \in Images(s) : image'[s][j] # "ready" => j \in Aged(s, 2)
        BY <2>4, <3>1 DEF Rotates, Shape
      <3>8. acquiredNum'[s] = 0 /\ unsent'[s]
        BY <2>4, <2>7, <3>3
      <3>9. Aged(s, 1)' = Aged(s, 1) /\ Aged(s, 2)' = Aged(s, 2)
        BY <2>1, AgedSame
      <3>10. released'[s] \in {None, available'[s][3 - acquiredNum'[s]]}
        BY <2>4, <3>5, <3>8
      <3>11. Rotates(s)'
        BY <3>2, <3>5, <3>6, <3>7, <3>8, <3>9, <3>10, ImagesConstant DEF Rotates
      <3> QED BY <2>1, <2>7, <3>11, RotationOthers DEF InRotation
    <2>8. CASE s \notin Static /\ ~oneAtATime[s]
      BY <2>1, <2>4, <2>8, RotationOthers DEF InRotation
    <2> QED BY <2>6, <2>7, <2>8
  <1>14. ASSUME NEW s \in Swapchains, AcquireFails(s) PROVE Rotation'
    <2>1. /\ UNCHANGED <<layers, inFlight, shown, past>>
          /\ \A t \in Swapchains \ {s} :
               /\ available'[t] = available[t] /\ image'[t] = image[t]
               /\ released'[t] = released[t] /\ acquiredNum'[t] = acquiredNum[t]
               /\ handle'[t] = handle[t] /\ unsent'[t] = unsent[t]
               /\ oneAtATime'[t] = oneAtATime[t]
      BY <1>14 DEF AcquireFails, Shape, frameVars
    <2>2. handle[s] /\ InRotation(s) /\ UNCHANGED released /\ ~oneAtATime'[s]
      BY <1>14 DEF AcquireFails, MayAcquire, Rotation, Shape
    <2>3. InRotation(s)'
      BY <2>1, <2>2 DEF InRotation, Submitted
    <2> QED BY <2>1, <2>3, RotationOthers
  <1>15. ASSUME NEW s \in Swapchains, WaitFails(s) PROVE Rotation'
    BY <1>15, RotationSame DEF WaitFails
  <1>16. ASSUME NEW s \in Swapchains, ReleaseFails(s) PROVE Rotation'
    <2>1. /\ UNCHANGED <<layers, inFlight, shown, past>>
          /\ \A t \in Swapchains \ {s} :
               /\ available'[t] = available[t] /\ image'[t] = image[t]
               /\ released'[t] = released[t] /\ acquiredNum'[t] = acquiredNum[t]
               /\ handle'[t] = handle[t] /\ unsent'[t] = unsent[t]
               /\ oneAtATime'[t] = oneAtATime[t]
      BY <1>16 DEF ReleaseFails, Shape, frameVars
    <2> DEFINE i == inflight[s]
    <2>2. /\ handle[s] /\ i \in Images(s) /\ i # None /\ available[s] \in Seq(Images(s))
          /\ Turns(s) /\ InRotation(s)
      BY <1>16 DEF ReleaseFails, Shape, ImagesInTurn, Rotation
    <2>3. /\ available'[s] = Append(available[s], i)
          /\ UNCHANGED <<image, released, acquiredNum, unsent, oneAtATime>>
      BY <1>16 DEF ReleaseFails, Shape
    <2>4. One(inflight[s] # None) = 1
      BY <2>2 DEF One
    <2> HIDE DEF i
    <2>5. CASE s \in Static
      BY <2>1, <2>2, <2>3, <2>5, RotationOthers DEF InRotation, Submitted
    <2>6. CASE s \notin Static /\ oneAtATime[s]
      <3>1. Rotates(s) /\ acquiredNum[s] = 1 /\ Len(available[s]) >= 2
        <4>1. Rotates(s) /\ ImageCount(s) = 3
          BY <2>2, <2>6, ImageNumbers DEF InRotation
        <4>2. Numbers(s)
          BY <2>2, TurnsNumbers
        <4>3. acquiredNum[s] = 1
          BY <2>4, <4>1, <4>2 DEF Numbers, Rotates
        <4> QED BY <4>1, <4>2, <4>3 DEF Numbers
      <3>2. available'[s][1] = available[s][1] /\ available'[s][2] = available[s][2]
        <4>1. Len(available[s]) \in Nat
          BY <2>2, LenProperties
        <4>2. 1 \in 1..Len(available[s]) /\ 2 \in 1..Len(available[s])
          BY <3>1, <4>1
        <4> QED BY <2>2, <2>3, <4>2, AppendProperties
      <3>3. released'[s] \in {None, available'[s][3 - acquiredNum'[s]]}
        BY <2>3, <3>1, <3>2 DEF Rotates
      <3>4. Aged(s, 1)' = Aged(s, 1) /\ Aged(s, 2)' = Aged(s, 2)
        BY <2>1, AgedSame
      <3>5. Rotates(s)'
        BY <2>3, <3>1, <3>2, <3>3, <3>4, ImagesConstant DEF Rotates
      <3> QED BY <2>1, <2>6, <3>5, RotationOthers DEF InRotation
    <2>7. CASE s \notin Static /\ ~oneAtATime[s]
      BY <2>1, <2>3, <2>7, RotationOthers DEF InRotation
    <2> QED BY <2>5, <2>6, <2>7
  <1>5. ASSUME NEW s \in Swapchains, DestroyHandle(s) PROVE Rotation'
    <2>1. /\ UNCHANGED <<layers, inFlight, shown, past>>
          /\ \A t \in Swapchains \ {s} :
               /\ available'[t] = available[t] /\ image'[t] = image[t]
               /\ released'[t] = released[t] /\ acquiredNum'[t] = acquiredNum[t]
               /\ handle'[t] = handle[t] /\ unsent'[t] = unsent[t]
               /\ oneAtATime'[t] = oneAtATime[t]
      BY <1>5 DEF DestroyHandle, Shape, frameVars
    <2>2. ~handle'[s]
      BY <1>5 DEF DestroyHandle, Shape
    <2> QED BY <2>1, <2>2, RotationOthers
  <1>6. ASSUME NEW S \in SUBSET Swapchains, EndFrame(S) PROVE Rotation'
    <2>1. /\ unsent' = [s \in Swapchains |-> unsent[s] /\ s \notin S]
          /\ UNCHANGED <<available, handle, image, acquiredNum, released, oneAtATime>>
          /\ S \subseteq Submittable
      BY <1>6, NextFrame
    <2>2. ASSUME NEW s \in Swapchains, handle[s], s \in Static PROVE Submitted(s)'
      <3>1. Submitted(s)
        BY <2>2 DEF Rotation, InRotation
      <3>2. s \in S => released[s] = 0
        BY <2>1, <2>2, ImageNumbers DEF Submittable, Shape
      <3>3. layers' = [layers EXCEPT ![Newest + 1] = {<<t, released[t]>> : t \in S}]
        BY <1>6, NextFrame
      <3>4. ASSUME NEW f \in Frames, <<s, 0>> \in layers'[f] PROVE released[s] = 0
        <4>1. <<s, 0>> \in layers[f] \/ <<s, 0>> \in {<<t, released[t]>> : t \in S}
          BY <3>3, <3>4 DEF Shape
        <4>2. CASE <<s, 0>> \in layers[f]
          BY <3>1, <4>2 DEF Submitted
        <4>3. CASE <<s, 0>> \in {<<t, released[t]>> : t \in S}
          BY <4>3, <3>2
        <4> QED BY <4>1, <4>2, <4>3
      <3> QED BY <2>1, <3>4 DEF Submitted
    <2>3. ASSUME NEW s \in Swapchains, handle[s], s \notin Static, oneAtATime[s]
          PROVE  Rotates(s)'
      <3> DEFINE a == available[s]
      <3>1. Rotates(s) /\ Turns(s) /\ a \in Seq(Images(s)) /\ IsInjective(a)
        BY <2>3 DEF Rotation, InRotation, ImagesInTurn, Turns, Shape
      <3>2. /\ acquiredNum[s] \in {0, 1} /\ Len(a) \in Nat /\ Len(a) >= 3 - acquiredNum[s]
            /\ acquiredNum[s] = 0 => Len(a) = 3
        <4>1. acquiredNum[s] \in {0, 1} /\ ImageCount(s) = 3
          BY <2>3, <3>1, ImageNumbers DEF Rotates
        <4> HIDE DEF a
        <4>5. Numbers(s)
          BY <3>1, TurnsNumbers
        <4>2. Len(a) + acquiredNum[s] = 3 + Cardinality(Stuck(s))
          BY <4>1, <4>5 DEF a, Numbers
        <4>3. Len(a) \in Nat /\ Cardinality(Stuck(s)) \in Nat
          BY <4>5 DEF a, Numbers
        <4>4. acquiredNum[s] = 0 => Cardinality(Stuck(s)) = 0
          BY <4>5 DEF Numbers
        <4> DEFINE n == Len(a)
                   c == Cardinality(Stuck(s))
                   k == acquiredNum[s]
        <4>6. k \in {0, 1} /\ n + k = 3 + c /\ n \in Nat /\ c \in Nat /\ (k = 0 => c = 0)
          BY <4>1, <4>2, <4>3, <4>4
        <4> HIDE DEF n, c, k
        <4>7. n >= 3 - k /\ (k = 0 => n = 3)
          BY <4>6
        <4> QED BY <4>6, <4>7 DEF n, k
      <3>3. DOMAIN a = 1..Len(a)
        BY <3>1, LenProperties
      <3>4. s \in S => released[s] = a[3 - acquiredNum[s]] /\ image[s][released[s]] = "ready"
        BY <2>1, <3>1 DEF Rotates, Turns, Submittable
      <3>5. \A k \in 1..(2 - acquiredNum[s]) :
              (s \in S => a[k] # released[s]) /\ a[k] \in Images(s)
        <4> HIDE DEF a
        <4> SUFFICES ASSUME NEW k \in 1..(2 - acquiredNum[s])
                     PROVE  (s \in S => a[k] # released[s]) /\ a[k] \in Images(s)
          OBVIOUS
        <4>1. k \in DOMAIN a /\ 3 - acquiredNum[s] \in DOMAIN a /\ k # 3 - acquiredNum[s]
          BY <3>2, <3>3
        <4>2. a[k] # a[3 - acquiredNum[s]] /\ a[k] \in Images(s)
          BY <3>1, <3>3, <4>1, LenProperties, ElementOfSeq DEF IsInjective
        <4> QED BY <3>4, <4>2
      <3>6. unsent'[s] = (unsent[s] /\ s \notin S)
        BY <2>1
      <3> HIDE DEF a
      <3>7. \A j \in Images(s) : image[s][j] # "ready" => j \in Aged(s, 2)'
        <4> SUFFICES ASSUME NEW j \in Images(s), image[s][j] # "ready"
                     PROVE  j \in Aged(s, 2)'
          OBVIOUS
        <4>1. j \in Aged(s, 2) /\ (s \in S => j # released[s])
          BY <3>1, <3>4 DEF Rotates
        <4> QED BY <1>6, <4>1, AgedNext
      <3>8. acquiredNum[s] = 1 => ~unsent[s] /\ a[1] \in Aged(s, 1)'
        <4>1. SUFFICES ASSUME acquiredNum[s] = 1 PROVE ~unsent[s] /\ a[1] \in Aged(s, 1)'
          OBVIOUS
        <4>2. ~unsent[s] /\ a[1] \in Aged(s, 1) /\ (s \in S => a[1] # released[s])
          BY <3>1, <3>5, <4>1 DEF Rotates, a
        <4> QED BY <1>6, <4>2, AgedNext
      <3>9. acquiredNum[s] = 0 /\ unsent'[s] => a[3] \in Aged(s, 2)' /\ a[1] \in Aged(s, 1)'
        <4>1. SUFFICES ASSUME acquiredNum[s] = 0, unsent'[s]
                       PROVE  a[3] \in Aged(s, 2)' /\ a[1] \in Aged(s, 1)'
          OBVIOUS
        <4>2. s \notin S /\ a[3] \in Aged(s, 2) /\ a[1] \in Aged(s, 1)
          BY <3>1, <3>6, <4>1 DEF Rotates, a
        <4> QED BY <1>6, <4>2, AgedNext
      <3>10. acquiredNum[s] = 0 /\ ~unsent'[s] => a[1] \in Aged(s, 2)' /\ a[2] \in Aged(s, 1)'
        <4>1. SUFFICES ASSUME acquiredNum[s] = 0, ~unsent'[s]
                       PROVE  a[1] \in Aged(s, 2)' /\ a[2] \in Aged(s, 1)'
          OBVIOUS
        <4>2. /\ Len(a) = 3 /\ a[2] \in Aged(s, 0)
              /\ s \in S => a[1] # released[s] /\ a[2] # released[s]
          BY <3>2, <3>5, <4>1, AgedAll
        <4>3. a[2] \in Aged(s, 1)'
          BY <1>6, <4>2, AgedNext
        <4>4. a[1] \in Aged(s, 2)'
          <5>1. CASE unsent[s]
            <6>1. a[1] \in Aged(s, 1)
              BY <3>1, <4>1, <5>1 DEF Rotates, a
            <6> QED BY <1>6, <4>2, <6>1, AgedNext
          <5>2. CASE ~unsent[s]
            <6>1. a[1] \in Aged(s, 2)
              BY <3>1, <4>1, <5>2 DEF Rotates, a
            <6> QED BY <1>6, <4>2, <6>1, AgedNext
          <5> QED BY <5>1, <5>2
        <4> QED BY <4>3, <4>4
      <3>11. /\ released'[s] \in {None, available'[s][3 - acquiredNum'[s]]}
             /\ acquiredNum'[s] \in {0, 1} /\ image' = image
             /\ acquiredNum' = acquiredNum /\ available'[s] = a
        BY <2>1, <3>1 DEF Rotates, a
      <3>12. ~unsent[s] => ~unsent'[s]
        BY <3>6
      <3> QED BY <3>7, <3>8, <3>9, <3>10, <3>11, <3>12, ImagesConstant DEF Rotates
    <2> QED BY <2>1, <2>2, <2>3 DEF Rotation, InRotation
  <1>7. ASSUME NEW f \in Frames, Complete(f) PROVE Rotation'
    <2>1. UNCHANGED <<layers, inFlight, shown, past>>
      BY <1>7 DEF Complete, Pipeline!Complete
    <2> QED BY <1>7, <2>1, RotationSame DEF Complete
  <1>8. ASSUME NEW old \in Frames, NEW new \in Frames, Replace(old, new) PROVE
        Rotation'
    BY <1>8, Retires, RotationRetire DEF Replace
  <1>9. ASSUME Close PROVE Rotation'
    BY <1>9, Retires, RotationRetire DEF Close
  <1>10. ASSUME Deliver PROVE Rotation'
    <2>1. UNCHANGED <<available, handle, image, acquiredNum, released, unsent, oneAtATime>>
      BY <1>10 DEF Deliver
    <2>2. (\E F : Retire(F)) \/ UNCHANGED <<frameVars, layers>>
      BY <1>10, Retires
    <2>3. CASE \E F : Retire(F)
      BY <2>1, <2>3, RotationRetire
    <2>4. CASE UNCHANGED <<frameVars, layers>>
      BY <2>1, <2>4, RotationSame DEF frameVars
    <2> QED BY <2>2, <2>3, <2>4
  <1>11. ASSUME TransferLayers PROVE Rotation'
    <2>1. UNCHANGED <<available, handle, image, acquiredNum, released, unsent, oneAtATime>>
      BY <1>11 DEF TransferLayers
    <2>2. (\E F : Retire(F)) \/ UNCHANGED <<frameVars, layers>>
      BY <1>11, Retires
    <2>3. CASE \E F : Retire(F)
      BY <2>1, <2>3, RotationRetire
    <2>4. CASE UNCHANGED <<frameVars, layers>>
      BY <2>1, <2>4, RotationSame DEF frameVars
    <2> QED BY <2>2, <2>3, <2>4
  <1>12. ASSUME UNCHANGED <<available, handle, image, acquiredNum, released,
      unsent, oneAtATime, layers, inFlight, complete, shown, past>> PROVE
      Rotation'
    BY <1>12, RotationSame
  <1>13. QED
    BY <1>1, <1>2, <1>3, <1>4, <1>5, <1>6, <1>7, <1>8, <1>9, <1>10, <1>11, <1>12,
      <1>14, <1>15, <1>16
      DEF Next, vars, renderVars, BeginWait, WaitTimesOut, Unlist, LayerCommit,
      DestroySystem



(***************************************************************************)
(* The theorems.                                                           *)
(***************************************************************************)
\* At first there is no swapchain and no frame.
LEMMA ChainInit == Init => ChainInv
  <1> SUFFICES ASSUME Init PROVE ChainInv
    OBVIOUS
  <1>1. /\ inFlight = {} /\ complete = {} /\ shown = 0 /\ past = {}
        /\ client = "listed" /\ renderPc = "idle" /\ drawing = {}
        /\ layers = [f \in Frames |-> {}]
    BY DEF Init, Pipeline!Init
  <1>2. Shape
    <2>1. \A s : <<>> \in Seq(Images(s))
      BY EmptyFifo
    <2> QED BY <1>1, <2>1 DEF Init, Shape, None, ImageStates
  <1>3. Numbered
    <2>1. Pipeline!Known \ {0} = {} /\ Newest = 0
      BY <1>1, FS_EmptySet DEF Pipeline!Known, Newest
    <2> QED BY <1>1, <2>1 DEF Numbered
  <1>4. SlotsHoldLayers
    BY <1>1 DEF Init, SlotsHoldLayers, Slots
  <1>5. ImagesInTurn
    BY DEF Init, ImagesInTurn, Unused
  <1>6. Counted
    <2> SUFFICES ASSUME NEW s \in Swapchains
                 PROVE  refs[s] = One(handle[s]) + Cardinality(Users(s))
      BY DEF Counted
    <2>1. Users(s) = {} /\ Cardinality({}) = 0
      BY <1>1, FS_EmptySet DEF Users, Uses
    <2>2. refs[s] = 0 /\ One(handle[s]) = 0
      BY DEF Init, One
    <2> QED BY <2>1, <2>2
  <1>7. Lives
    BY <1>1 DEF Init, Lives
  <1>8. Rotation
    BY DEF Init, Rotation
  <1> QED BY <1>2, <1>3, <1>4, <1>5, <1>6, <1>7, <1>8 DEF ChainInv

\* The inductive invariant: types, where the frames, the images and the
\* references are, and in which order the images go round.
THEOREM ChainInvariant == Spec => []ChainInv
  <1>1. ChainInv /\ [Next]_vars => ChainInv'
    BY ShapeStep, NumberedStep, SlotsStep, TurnsStep, CountedStep, LivesStep, RotationStep
    DEF ChainInv
  <1> QED BY ChainInit, <1>1, PTL DEF Spec

\* Three slots at most hold a reference.
LEMMA FewUsers ==
  ASSUME ChainInv, NEW s \in Swapchains
  PROVE  Cardinality(Users(s)) \in 0..3
  <1>1. Users(s) \subseteq {Newest - 1} \cup {Newest} \cup {shown}
    <2>1. Users(s) \subseteq Slots
      BY DEF ChainInv, SlotsHoldLayers, Users, Uses
    <2> QED BY <2>1 DEF ChainInv, Numbered, Slots
  <1>2. /\ IsFiniteSet({Newest - 1} \cup {Newest} \cup {shown})
        /\ Cardinality({Newest - 1} \cup {Newest} \cup {shown}) <= 3
    <2>1. IsFiniteSet({Newest - 1}) /\ Cardinality({Newest - 1}) = 1
      BY FS_Singleton
    <2>2. /\ IsFiniteSet({Newest - 1} \cup {Newest})
          /\ Cardinality({Newest - 1} \cup {Newest}) \in {1, 2}
      BY <2>1, FS_AddElement
    <2> QED BY <2>2, FS_AddElement
  <1>3. Cardinality(Users(s)) <= Cardinality({Newest - 1} \cup {Newest} \cup {shown})
    BY <1>1, <1>2, FS_Subset
  <1>4. /\ Cardinality(Users(s)) \in Nat
        /\ Cardinality({Newest - 1} \cup {Newest} \cup {shown}) \in Nat
    BY UsersFinite, <1>2, FS_CardinalityType
  <1> QED BY <1>2, <1>3, <1>4

\* Every variable keeps the type of the field or place it models: the counts
\* too, of images in hand and of references, which four holders bound.
THEOREM TypeCorrect == Spec => []TypeOK
  <1>1. ChainInv => TypeOK
    <2> SUFFICES ASSUME ChainInv PROVE TypeOK
      OBVIOUS
    <2>1. \A s \in Swapchains : refs[s] \in 0..4
      <3> SUFFICES ASSUME NEW s \in Swapchains PROVE refs[s] \in 0..4
        OBVIOUS
      <3>1. refs[s] = One(handle[s]) + Cardinality(Users(s)) /\ One(handle[s]) \in {0, 1}
        BY DEF ChainInv, Counted, One
      <3> QED BY <3>1, FewUsers
    <2>2. \A s \in Swapchains : acquiredNum[s] \in 0..ImageCount(s)
      <3> SUFFICES ASSUME NEW s \in Swapchains PROVE acquiredNum[s] \in 0..ImageCount(s)
        OBVIOUS
      <3>1. ImageCount(s) \in Nat /\ acquiredNum[s] \in Int
        BY DEF ImageCount, ChainInv, Shape
      <3>2. CASE ~handle[s]
        BY <3>1, <3>2 DEF ChainInv, ImagesInTurn, Unused
      <3>3. CASE handle[s]
        BY <3>3, TurnsNumbers DEF ChainInv, ImagesInTurn, Numbers
      <3> QED BY <3>2, <3>3
    <2>3. \A f \in Frames : \A l \in layers[f] : l[1] \in Swapchains /\ l[2] \in Images(l[1])
      BY DEF ChainInv, Shape, Layers
    <2>4. refs \in [Swapchains -> 0..4]
      BY <2>1 DEF ChainInv, Shape
    <2> QED BY <2>2, <2>3, <2>4 DEF ChainInv, Shape, TypeOK, ImageStates
  <1> QED BY <1>1, ChainInvariant, PTL

\* Every image of a swapchain is in one place, or out of use after a failed
\* call, and the fifos, the count and the states in the two objects agree on it.
THEOREM ImagesInPlace == Spec => []ImagesConserved
  <1>1. ChainInv => ImagesConserved
    <2> SUFFICES ASSUME ChainInv, NEW s \in Swapchains, handle[s]
        PROVE  /\ IsInjective(available[s]) /\ IsInjective(acquired[s])
               /\ released[s] # None => image[s][released[s]] = "ready"
               /\ {i \in Images(s) : image[s][i] = "ready"} = ToSet(available[s]) \ failed[s]
               /\ {i \in Images(s) : image[s][i] = "acquired"} \ failed[s] = ToSet(acquired[s])
               /\ {i \in Images(s) : image[s][i] = "waited"} \ failed[s] = {inflight[s]} \ {None}
               /\ acquiredNum[s] = Len(acquired[s]) + Cardinality({inflight[s]} \ {None})
                                      + Cardinality(failed[s])
               /\ acquiredNum[s] < ImageCount(s) => available[s] # <<>>
      BY DEF ImagesConserved
    <2>1. Turns(s)
      BY DEF ChainInv, ImagesInTurn
    <2>2. /\ available[s] \in Seq(Images(s)) /\ acquired[s] \in Seq(Images(s))
          /\ inflight[s] \in Images(s) \cup {None} /\ None \notin Images(s)
      BY ImageNumbers DEF ChainInv, Shape
    <2>3. ToSet(available[s]) \subseteq Images(s) /\ ToSet(acquired[s]) \subseteq Images(s)
      BY <2>2, LenProperties, ElementOfSeq DEF ToSet
    <2>4. Cardinality({inflight[s]} \ {None}) = One(inflight[s] # None)
      <3>1. CASE inflight[s] = None
        <4>1. {inflight[s]} \ {None} = {}
          BY <3>1
        <4> QED BY <3>1, <4>1, FS_EmptySet DEF One
      <3>2. CASE inflight[s] # None
        <4>1. {inflight[s]} \ {None} = {inflight[s]}
          BY <3>2
        <4> QED BY <3>2, <4>1, FS_Singleton DEF One
      <3> QED BY <3>1, <3>2
    <2>5. /\ {i \in Images(s) : image[s][i] = "ready"} = ToSet(available[s]) \ failed[s]
          /\ {i \in Images(s) : image[s][i] = "acquired"} \ failed[s] = ToSet(acquired[s])
      BY <2>1, <2>3 DEF Turns
    <2>6. {i \in Images(s) : image[s][i] = "waited"} \ failed[s] = {inflight[s]} \ {None}
      BY <2>1, <2>2 DEF Turns
    <2>7. /\ IsInjective(available[s]) /\ IsInjective(acquired[s])
          /\ released[s] # None => image[s][released[s]] = "ready"
          /\ acquiredNum[s] = Len(acquired[s]) + One(inflight[s] # None)
                                 + Cardinality(failed[s])
      BY <2>1 DEF Turns
    <2> QED BY <2>4, <2>5, <2>6, <2>7, CanAcquire
  <1> QED BY <1>1, ChainInvariant, PTL

\* An application that submits each image before it goes on never has an image
\* in hand that a frame on its way to the display uses: it was last submitted
\* two frames ago, and only the newest two are on their way.
THEOREM FramesUntouched == Spec => []FramesInFlightUntouched
  <1>1. ChainInv => FramesInFlightUntouched
    <2> SUFFICES ASSUME ChainInv, NEW s \in Swapchains, NEW f \in inFlight, oneAtATime[s],
                        <<s, inflight[s]>> \in layers[f]
                 PROVE  FALSE
      BY DEF FramesInFlightUntouched
    <2> DEFINE i == inflight[s]
    <2>1. f \in Frames /\ f \in Int /\ Newest \in Nat /\ f \in {Newest - 1, Newest}
      BY DEF ChainInv, Numbered, Frames
    <2>2. i \in Images(s) /\ i # None
      <3>1. <<s, i>> \in Layers
        BY <2>1 DEF ChainInv, Shape
      <3>2. i \in Images(s)
        BY <3>1 DEF Layers
      <3> QED BY <3>2, ImageNumbers
    <2>3. handle[s] /\ Turns(s) /\ InRotation(s)
      BY <2>2 DEF ChainInv, ImagesInTurn, Unused, Rotation
    <2>4. image[s][i] = "waited"
      BY <2>2, <2>3 DEF Turns
    <2>5. CASE s \in Static
      <3>1. i = 0
        BY <2>2, <2>5, ImageNumbers
      <3>2. released[s] = 0
        BY <2>1, <2>3, <2>5, <3>1 DEF InRotation, Submitted
      <3> QED BY <2>3, <2>4, <3>1, <3>2 DEF Turns, None
    <2>6. CASE s \notin Static
      <3>1. i \in Aged(s, 2)
        BY <2>2, <2>3, <2>4, <2>6 DEF InRotation, Rotates
      <3>2. f + 2 <= Newest
        BY <3>1 DEF Aged
      <3> QED BY <2>1, <3>2
    <2> QED BY <2>5, <2>6
  <1> QED BY <1>1, ChainInvariant, PTL

\* The reference count of a swapchain is the number of its holders, and when
\* the system is gone all swapchains were freed.
THEOREM RefsExact == Spec => []RefsAreExact
  <1>1. ChainInv => RefsAreExact
    BY DEF ChainInv, Counted, Lives, RefsAreExact, One, Users
  <1> QED BY <1>1, ChainInvariant, PTL

\* Nothing that is drawn from, or that a slot may hand to the drawing, is freed.
THEOREM NothingFreedInUse == Spec => []NoUseAfterFree
  <1>1. ChainInv => NoUseAfterFree
    <2> SUFFICES ASSUME ChainInv PROVE NoUseAfterFree
      OBVIOUS
    <2>1. inFlight \cup ({shown} \ {0}) \subseteq Frames
      BY DEF ChainInv, Numbered
    <2>2. \A f \in inFlight \cup ({shown} \ {0}) : \A l \in layers[f] : life[l[1]] = "live"
      BY <2>1, SlotLives
    <2> QED BY <2>2 DEF NoUseAfterFree, ChainInv, Lives
  <1> QED BY <1>1, ChainInvariant, PTL
=============================================================================
