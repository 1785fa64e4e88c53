----------------------------- MODULE Swapchain -----------------------------
(***************************************************************************)
(* The swapchains of one client, from the OpenXR calls down to the native  *)
(* compositor that draws from them: struct oxr_swapchain keeps which image *)
(* the application may write to, struct comp_swapchain hands the images    *)
(* out in turn and is reference counted, the layer slots of the client's   *)
(* multi_compositor hold references, and the render thread draws with the  *)
(* plain pointers that it copied from the delivered slot.                  *)
(*                                                                         *)
(* What happens to the frames themselves is FramePipeline, the contract    *)
(* that MultiCompositor implements: every step on a frame is a step of it. *)
(*                                                                         *)
(* The calls on one swapchain do not overlap, as OpenXR demands; calls on  *)
(* different swapchains, the waiter, the render thread and xrEndFrame do.  *)
(* A call that fails with an error of the graphics API leaves the session  *)
(* alive, and the image it was for out of use.  A call that fails because  *)
(* the service is gone loses the session; only destruction follows, and it *)
(* is not modelled.                                                        *)
(***************************************************************************)
EXTENDS Integers, Sequences, FiniteSets, SequencesExt

CONSTANTS Swapchains,  \* the swapchains the client ever creates
          Static,      \* those created with XRT_SWAPCHAIN_CREATE_STATIC_IMAGE
          MaxFrame     \* bound: frames the client ever submits

ASSUME SwapchainAssumption == Static \subseteq Swapchains /\ MaxFrame \in Nat \ {0}

Frames == 1..MaxFrame

VARIABLES
  life,       \* of a comp_swapchain: none, live, stacked for destruction, freed
  refs,       \* its reference count
  available,  \* its fifo of free images
  handle,     \* the application holds the XrSwapchain
  image,      \* oxr: the state of every image
  acquired,   \* oxr: acquired.fifo, the images acquired and not yet waited for
  acquiredNum,\* oxr: acquired.num
  waiting,    \* a call is in the compositor's wait_image
  inflight,   \* oxr: the image waited for, or None
  released,   \* oxr: the image xrEndFrame submits, or None
  layers,     \* the layers of every frame in a slot: swapchain and image
  inFlight, complete, shown, past,  \* the frames, see FramePipeline
  client,     \* of multi_compositor: listed, unlisted, closed
  renderPc,   \* where the render thread is
  drawing,    \* the layers the native compositor draws
  failed,     \* history: the images whose wait or release failed
  unsent,     \* history: an image was released and not submitted since, as long
              \* as oneAtATime holds
  oneAtATime  \* history: the app never went on to a second image with one unsent

frameVars == <<inFlight, complete, shown, past>>
compVars == <<life, refs, available>>
oxrVars == <<handle, image, acquired, acquiredNum, waiting, inflight, released>>
renderVars == <<renderPc, drawing>>
histVars == <<failed, unsent, oneAtATime>>
vars == <<compVars, oxrVars, layers, frameVars, client, renderVars, histVars>>

Pipeline == INSTANCE FramePipeline

None == -1

ImageCount_Two(s) == IF s \in Static THEN 1 ELSE 2

\* comp_swapchain_get_create_properties
ImageCount(s) == IF s \in Static THEN 1 ELSE 3

Images(s) == 0..(ImageCount(s) - 1)

Init ==
  /\ life = [s \in Swapchains |-> "none"]
  /\ refs = [s \in Swapchains |-> 0]
  /\ available = [s \in Swapchains |-> <<>>]
  /\ handle = [s \in Swapchains |-> FALSE]
  /\ image = [s \in Swapchains |-> [i \in Images(s) |-> "ready"]]
  /\ acquired = [s \in Swapchains |-> <<>>]
  /\ acquiredNum = [s \in Swapchains |-> 0]
  /\ waiting = [s \in Swapchains |-> FALSE]
  /\ inflight = [s \in Swapchains |-> None]
  /\ released = [s \in Swapchains |-> None]
  /\ layers = [f \in Frames |-> {}]
  /\ Pipeline!Init
  /\ client = "listed"
  /\ renderPc = "idle" /\ drawing = {}
  /\ failed = [s \in Swapchains |-> {}]
  /\ unsent = [s \in Swapchains |-> FALSE]
  /\ oneAtATime = [s \in Swapchains |-> TRUE]

(***************************************************************************)
(* References.                                                             *)
(***************************************************************************)
Uses(f, s) == \E i \in Images(s) : <<s, i>> \in layers[f]

Drop_FreesAtOnce(n) ==
  /\ refs' = [s \in Swapchains |-> refs[s] - n[s]]
  /\ life' = [s \in Swapchains |->
                IF n[s] > 0 /\ refs'[s] = 0 THEN "freed" ELSE life[s]]

\* xrt_swapchain_reference to NULL, n[s] times: the last one calls destroy,
\* which only puts the swapchain on the stack of those to be destroyed.
Drop(n) ==
  /\ refs' = [s \in Swapchains |-> refs[s] - n[s]]
  /\ life' = [s \in Swapchains |->
                IF n[s] > 0 /\ refs'[s] = 0 THEN "stacked" ELSE life[s]]

ClearSlots_LayersForgotten(F) ==
  /\ layers' = [f \in Frames |-> IF f \in F THEN {} ELSE layers[f]]
  /\ UNCHANGED <<refs, life>>

\* slot_clear_locked on the slots of the frames F.
ClearSlots(F) ==
  /\ Drop([s \in Swapchains |-> Cardinality({f \in F : Uses(f, s)})])
  /\ layers' = [f \in Frames |-> IF f \in F THEN {} ELSE layers[f]]

(***************************************************************************)
(* The calls of the application on one swapchain.                          *)
(***************************************************************************)
Create(s) ==
  /\ life[s] = "none" /\ client = "listed"
  /\ life' = [life EXCEPT ![s] = "live"]
  /\ refs' = [refs EXCEPT ![s] = 1]
  /\ available' = [available EXCEPT ![s] = [k \in 1..ImageCount(s) |-> k - 1]]
  /\ handle' = [handle EXCEPT ![s] = TRUE]
  /\ UNCHANGED <<image, acquired, acquiredNum, waiting, inflight, released, layers,
                 frameVars, client, renderVars, histVars>>

\* xrAcquireSwapchainImage gets as far as the compositor's fifo.
MayAcquire(s) ==
  /\ handle[s] /\ ~waiting[s]
  /\ acquiredNum[s] < ImageCount(s)
  /\ s \in Static => released[s] = None /\ image[s][0] = "ready"
  /\ available[s] # <<>>

\* An image that is acquired again is no longer the one xrEndFrame submits.
Acquire(s) ==
  LET i == Head(available[s]) IN
  /\ MayAcquire(s) /\ image[s][i] = "ready"
  /\ available' = [available EXCEPT ![s] = Tail(@)]
  /\ acquired' = [acquired EXCEPT ![s] = Append(@, i)]
  /\ acquiredNum' = [acquiredNum EXCEPT ![s] = @ + 1]
  /\ image' = [image EXCEPT ![s][i] = "acquired"]
  /\ released' = [released EXCEPT ![s] = IF @ = i THEN None ELSE @]
  /\ oneAtATime' = [oneAtATime EXCEPT ![s] = @ /\ ~unsent[s] /\ acquiredNum[s] = 0]
  /\ UNCHANGED <<life, refs, handle, waiting, inflight, layers, frameVars, client,
                 renderVars, failed, unsent>>

\* The compositor hands out an image whose release failed: "returned non-ready
\* image", with the image taken from the fifo.
AcquireFails(s) ==
  /\ MayAcquire(s) /\ image[s][Head(available[s])] # "ready"
  /\ available' = [available EXCEPT ![s] = Tail(@)]
  /\ oneAtATime' = [oneAtATime EXCEPT ![s] = FALSE]
  /\ UNCHANGED <<life, refs, oxrVars, layers, frameVars, client, renderVars, failed,
                 unsent>>

\* xrWaitSwapchainImage up to the compositor's wait_image: the image stays in
\* the fifo.
BeginWait(s) ==
  /\ handle[s] /\ ~waiting[s]
  /\ inflight[s] = None /\ acquired[s] # <<>>
  /\ waiting' = [waiting EXCEPT ![s] = TRUE]
  /\ UNCHANGED <<compVars, handle, image, acquired, acquiredNum, inflight, released,
                 layers, frameVars, client, renderVars, histVars>>

\* wait_image succeeds: it finds a use count of zero.  Nothing ever raises it,
\* so what the compositor does with the image plays no part.
EndWait(s) ==
  LET i == Head(acquired[s]) IN
  /\ waiting[s]
  /\ waiting' = [waiting EXCEPT ![s] = FALSE]
  /\ acquired' = [acquired EXCEPT ![s] = Tail(@)]
  /\ inflight' = [inflight EXCEPT ![s] = i]
  /\ image' = [image EXCEPT ![s][i] = "waited"]
  /\ UNCHANGED <<compVars, handle, acquiredNum, released, layers, frameVars, client,
                 renderVars, histVars>>

WaitTimesOut_ImagePopped(s) ==
  /\ waiting[s]
  /\ waiting' = [waiting EXCEPT ![s] = FALSE]
  /\ acquired' = [acquired EXCEPT ![s] = Tail(@)]
  /\ UNCHANGED <<compVars, handle, image, acquiredNum, inflight, released, layers,
                 frameVars, client, renderVars, histVars>>

\* wait_image fails, as it does when the keyed mutex of a D3D client cannot be
\* acquired: the image leaves the fifo and goes nowhere, and stays counted.
WaitFails(s) ==
  /\ waiting[s]
  /\ waiting' = [waiting EXCEPT ![s] = FALSE]
  /\ acquired' = [acquired EXCEPT ![s] = Tail(@)]
  /\ failed' = [failed EXCEPT ![s] = @ \cup {Head(acquired[s])}]
  /\ UNCHANGED <<compVars, handle, image, acquiredNum, inflight, released, layers,
                 frameVars, client, renderVars, unsent, oneAtATime>>

\* XRT_TIMEOUT, from the keyed mutex of a D3D client: the call may be repeated.
WaitTimesOut(s) ==
  /\ waiting[s]
  /\ waiting' = [waiting EXCEPT ![s] = FALSE]
  /\ UNCHANGED <<compVars, handle, image, acquired, acquiredNum, inflight, released,
                 layers, frameVars, client, renderVars, histVars>>

Release_InflightKept(s) ==
  LET i == inflight[s] IN
  /\ handle[s] /\ ~waiting[s] /\ i # None
  /\ available' = [available EXCEPT ![s] = Append(@, i)]
  /\ acquiredNum' = [acquiredNum EXCEPT ![s] = @ - 1]
  /\ released' = [released EXCEPT ![s] = i]
  /\ image' = [image EXCEPT ![s][i] = "ready"]
  /\ unsent' = [unsent EXCEPT ![s] = oneAtATime[s]]
  /\ UNCHANGED <<life, refs, handle, acquired, waiting, inflight, layers, frameVars,
                 client, renderVars, failed, oneAtATime>>

\* xrReleaseSwapchainImage
Release(s) ==
  LET i == inflight[s] IN
  /\ handle[s] /\ ~waiting[s] /\ i # None
  /\ inflight' = [inflight EXCEPT ![s] = None]
  /\ available' = [available EXCEPT ![s] = Append(@, i)]
  /\ acquiredNum' = [acquiredNum EXCEPT ![s] = @ - 1]
  /\ released' = [released EXCEPT ![s] = i]
  /\ image' = [image EXCEPT ![s][i] = "ready"]
  /\ unsent' = [unsent EXCEPT ![s] = oneAtATime[s]]
  /\ UNCHANGED <<life, refs, handle, acquired, waiting, layers, frameVars, client,
                 renderVars, failed, oneAtATime>>

\* release_image fails, as it does when the keyed mutex of a D3D client cannot
\* be released.  The native compositor has the image back by then; here it is
\* no longer in flight, and stays counted.
ReleaseFails(s) ==
  LET i == inflight[s] IN
  /\ handle[s] /\ ~waiting[s] /\ i # None
  /\ inflight' = [inflight EXCEPT ![s] = None]
  /\ available' = [available EXCEPT ![s] = Append(@, i)]
  /\ failed' = [failed EXCEPT ![s] = @ \cup {i}]
  /\ UNCHANGED <<life, refs, handle, image, acquired, acquiredNum, waiting, released,
                 layers, frameVars, client, renderVars, unsent, oneAtATime>>

\* xrDestroySwapchain, whatever the state of the images: the oxr_swapchain is
\* freed, the comp_swapchain loses a reference.
DestroyHandle(s) ==
  /\ handle[s] /\ ~waiting[s]
  /\ handle' = [handle EXCEPT ![s] = FALSE]
  /\ image' = [image EXCEPT ![s] = [i \in Images(s) |-> "ready"]]
  /\ acquired' = [acquired EXCEPT ![s] = <<>>]
  /\ acquiredNum' = [acquiredNum EXCEPT ![s] = 0]
  /\ inflight' = [inflight EXCEPT ![s] = None]
  /\ released' = [released EXCEPT ![s] = None]
  /\ Drop([t \in Swapchains |-> IF t = s THEN 1 ELSE 0])
  /\ failed' = [failed EXCEPT ![s] = {}]
  /\ unsent' = [unsent EXCEPT ![s] = FALSE]
  /\ UNCHANGED <<available, waiting, layers, frameVars, client, renderVars, oneAtATime>>

(***************************************************************************)
(* Frames.                                                                 *)
(***************************************************************************)
Submittable == {s \in Swapchains : handle[s] /\ released[s] # None}

EndFrame_NoReference(S) ==
  LET f == Cardinality(Pipeline!Known \ {0}) + 1 IN
  /\ client = "listed" /\ S # {} /\ S \subseteq Submittable
  /\ f \in Frames /\ Cardinality(inFlight) < 2
  /\ Pipeline!Submit(f)
  /\ layers' = [layers EXCEPT ![f] = {<<s, released[s]>> : s \in S}]
  /\ unsent' = [s \in Swapchains |-> unsent[s] /\ s \notin S]
  /\ UNCHANGED <<compVars, oxrVars, client, renderVars, failed, oneAtATime>>

\* xrEndFrame with layers from the swapchains S: layer_begin, the layers and
\* layer_commit.  Two frames at most are in the progress and scheduled slots.
EndFrame(S) ==
  LET f == Cardinality(Pipeline!Known \ {0}) + 1 IN
  /\ client = "listed" /\ S # {} /\ S \subseteq Submittable
  /\ f \in Frames /\ Cardinality(inFlight) < 2
  /\ Pipeline!Submit(f)
  /\ layers' = [layers EXCEPT ![f] = {<<s, released[s]>> : s \in S}]
  /\ refs' = [s \in Swapchains |-> refs[s] + IF s \in S THEN 1 ELSE 0]
  /\ unsent' = [s \in Swapchains |-> unsent[s] /\ s \notin S]
  /\ UNCHANGED <<life, available, oxrVars, client, renderVars, failed, oneAtATime>>

\* The fence of a frame is signalled.
Complete(f) ==
  /\ client # "closed"
  /\ Pipeline!Complete(f)
  /\ UNCHANGED <<compVars, oxrVars, layers, client, renderVars, histVars>>

\* A newer frame takes the scheduled slot.  This takes the list lock, which
\* the render thread holds from Deliver to TransferLayers.
Replace(old, new) ==
  /\ client # "closed" /\ renderPc # "transfer"
  /\ Pipeline!Replace(old, new)
  /\ ClearSlots({old})
  /\ UNCHANGED <<available, oxrVars, client, renderVars, histVars>>

(***************************************************************************)
(* The end of the client: multi_compositor_destroy.  All swapchain handles *)
(* are destroyed before.                                                   *)
(***************************************************************************)
Unlist ==
  /\ client = "listed" /\ renderPc # "transfer"
  /\ \A s \in Swapchains : ~handle[s]
  /\ client' = "unlisted"
  /\ UNCHANGED <<compVars, oxrVars, layers, frameVars, renderVars, histVars>>

Close ==
  /\ client = "unlisted" /\ renderPc # "transfer"
  /\ Pipeline!Close
  /\ ClearSlots(Pipeline!Known \ (past \cup {0}))
  /\ client' = "closed"
  /\ UNCHANGED <<available, oxrVars, renderVars, histVars>>

(***************************************************************************)
(* The render thread: one iteration of multi_main_loop.                    *)
(***************************************************************************)
\* multi_compositor_deliver_any_frames, for a client on the list.
Deliver ==
  /\ renderPc = "idle"
  /\ \/ \E f \in inFlight : /\ client = "listed"
                            /\ Pipeline!Show(f)
                            /\ ClearSlots({shown} \ {0})
     \/ UNCHANGED <<frameVars, refs, life, layers>>
  /\ renderPc' = "transfer"
  /\ UNCHANGED <<available, oxrVars, client, drawing, histVars>>

\* The rest of transfer_layers_locked: a hidden client's delivered frame is
\* retired, a visible one's layers are handed to the native compositor.
TransferLayers ==
  /\ renderPc = "transfer"
  /\ \/ /\ client = "listed" /\ Pipeline!Hide
        /\ ClearSlots({shown})
        /\ drawing' = {}
     \/ /\ drawing' = IF client = "listed" /\ shown # 0 THEN layers[shown] ELSE {}
        /\ UNCHANGED <<frameVars, refs, life, layers>>
  /\ renderPc' = "drawing"
  /\ UNCHANGED <<available, oxrVars, client, histVars>>

FreeStacked == life' = [s \in Swapchains |-> IF life[s] = "stacked" THEN "freed" ELSE life[s]]

\* layer_commit: draw, then garbage collect unless the drawing failed.
LayerCommit ==
  /\ renderPc = "drawing"
  /\ drawing' = {} /\ renderPc' = "idle"
  /\ FreeStacked \/ UNCHANGED life
  /\ UNCHANGED <<refs, available, oxrVars, layers, frameVars, client, histVars>>

\* The render thread was joined; comp_compositor_destroy collects what is left.
DestroySystem ==
  /\ client = "closed" /\ renderPc = "idle"
  /\ FreeStacked
  /\ renderPc' = "gone"
  /\ UNCHANGED <<refs, available, oxrVars, layers, frameVars, client, drawing, histVars>>

Next ==
  \/ \E s \in Swapchains :
       \/ Create(s) \/ DestroyHandle(s)
       \/ Acquire(s) \/ AcquireFails(s)
       \/ BeginWait(s) \/ EndWait(s) \/ WaitTimesOut(s) \/ WaitFails(s)
       \/ Release(s) \/ ReleaseFails(s)
  \/ \E S \in SUBSET Swapchains : EndFrame(S)
  \/ \E f \in Frames : Complete(f)
  \/ \E old, new \in Frames : Replace(old, new)
  \/ Unlist \/ Close
  \/ Deliver \/ TransferLayers \/ LayerCommit \/ DestroySystem

Spec == Init /\ [][Next]_vars

(***************************************************************************)
(* Properties.                                                             *)
(***************************************************************************)
(* Every variable has the type of the field or place it models; a          *)
(* reference count stays below the number of possible holders.             *)
TypeOK ==
  /\ life \in [Swapchains -> {"none", "live", "stacked", "freed"}]
  /\ refs \in [Swapchains -> 0..4]
  /\ handle \in [Swapchains -> BOOLEAN] /\ waiting \in [Swapchains -> BOOLEAN]
  /\ unsent \in [Swapchains -> BOOLEAN] /\ oneAtATime \in [Swapchains -> BOOLEAN]
  /\ \A s \in Swapchains :
       /\ available[s] \in Seq(Images(s)) /\ acquired[s] \in Seq(Images(s))
       /\ image[s] \in [Images(s) -> {"ready", "acquired", "waited"}]
       /\ acquiredNum[s] \in 0..ImageCount(s) /\ failed[s] \subseteq Images(s)
       /\ {inflight[s], released[s]} \subseteq Images(s) \cup {None}
  /\ \A f \in Frames : \A l \in layers[f] : l[1] \in Swapchains /\ l[2] \in Images(l[1])
  /\ client \in {"listed", "unlisted", "closed"}
  /\ renderPc \in {"idle", "transfer", "drawing", "gone"}

(* The images of a swapchain are in one place each: free in the            *)
(* compositor's fifo, acquired in order, or waited for; the state of the   *)
(* image says where, and the count is exact.  An image whose wait or       *)
(* release failed is out of use: it stays counted, so that with acquire    *)
(* allowed by the count the fifo is never empty, and acquire reports a     *)
(* non-ready image for no other.  No image is in a fifo twice, which is    *)
(* why none overflows.  What xrEndFrame submits, `released', is an image   *)
(* the application gave back and did not get again.                        *)
ImagesConserved ==
  \A s \in Swapchains : handle[s] =>
    /\ IsInjective(available[s]) /\ IsInjective(acquired[s])
    /\ released[s] # None => image[s][released[s]] = "ready"
    /\ {i \in Images(s) : image[s][i] = "ready"} = ToSet(available[s]) \ failed[s]
    /\ {i \in Images(s) : image[s][i] = "acquired"} \ failed[s] = ToSet(acquired[s])
    /\ {i \in Images(s) : image[s][i] = "waited"} \ failed[s] = {inflight[s]} \ {None}
    /\ acquiredNum[s] = Len(acquired[s]) + Cardinality({inflight[s]} \ {None})
                                         + Cardinality(failed[s])
    /\ acquiredNum[s] < ImageCount(s) => available[s] # <<>>

(* An application that submits each image before it acquires the next one  *)
(* never writes to an image of a frame that is still on its way to the     *)
(* display: three images are enough for the two slots before the delivered *)
(* one.  After a failed wait or release only two are left, and an          *)
(* application that goes on then is not one of these: what it acquires     *)
(* next, it acquires with an image still counted as acquired.              *)
FramesInFlightUntouched ==
  \A s \in Swapchains : \A f \in inFlight :
    oneAtATime[s] => <<s, inflight[s]>> \notin layers[f]

(* The reference count of a swapchain is the number of its holders: the    *)
(* handle and the slots.  A slot moved or cleared on any path keeps it, and *)
(* when the system compositor is gone every swapchain that was created was  *)
(* freed, those left over by an iteration whose drawing failed too.         *)
RefsAreExact ==
  /\ \A s \in Swapchains :
       refs[s] = (IF handle[s] THEN 1 ELSE 0) + Cardinality({f \in Frames : Uses(f, s)})
  /\ renderPc = "gone" => \A s \in Swapchains : life[s] \in {"none", "freed"}

(* The render thread draws from swapchains it has no reference to, after   *)
(* it released the lock on the client list: none of them is freed before   *)
(* the drawing is over, and none that a slot may still hand to it is.      *)
NoUseAfterFree ==
  /\ \A l \in drawing : life[l[1]] # "freed"
  /\ \A f \in inFlight \cup ({shown} \ {0}) : \A l \in layers[f] : life[l[1]] = "live"

(* xrt_compositor.h says of wait_image "Wait until image @p index is       *)
(* available for exclusive use": an image the application waited for is    *)
(* not one the render thread draws from.                                   *)
WaitedImageIsExclusive ==
  \A s \in Swapchains : oneAtATime[s] => <<s, inflight[s]>> \notin drawing
=============================================================================
