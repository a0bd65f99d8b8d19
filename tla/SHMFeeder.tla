----------------------------- MODULE SHMFeeder -----------------------------
(***************************************************************************)
(* The feeder: InterprocessRenderer and the SHM::Writer it owns.  Its      *)
(* actions run on VisorVR's user interface thread; `wphase' is where that  *)
(* thread is in RenderNow(), in the constructor or in the destructor.  A   *)
(* step ends where the thread takes or drops the mutex, touches state that *)
(* readers see without it, or suspends.                                    *)
(***************************************************************************)
EXTENDS SHMSegment

CONSTANTS
  MaxSession,  \* bound: no renderer and no resize starts beyond it
  MaxFrame     \* bound on the frames of a session and of a writer

VARIABLES
  wphase,       \* where the renderer is; "none" when there is none
  visible,      \* mVisible
  previousFrameWasVisible,  \* mPreviousFrameWasVisible
  canvasReady,  \* mCanvasSize is not the empty size
  swapchain,    \* mIPCSwapchain: the open handle of each slot
  fenceValue,   \* Writer::Impl::mReadyReadFenceValue
  signalled     \* per object ever created: highest value queued on its fence

feederVars == <<wphase, visible, previousFrameWasVisible, canvasReady,
                swapchain, fenceValue, signalled>>
renderState == <<visible, previousFrameWasVisible, canvasReady>>
resources   == <<swapchain, fenceValue, signalled>>

WriterPhases ==
  {"none", "constructing", "idle", "resizing", "rendering", "locked",
   "copying", "hiding", "closing"}

EmptySwapchain == [i \in Slots |-> NoHandle]

FeederTypeOK ==
  /\ wphase \in WriterPhases
  /\ visible \in BOOLEAN
  /\ previousFrameWasVisible \in BOOLEAN
  /\ canvasReady \in BOOLEAN
  /\ swapchain \in [Slots -> Handles \cup {NoHandle}]
  /\ fenceValue \in Nat
  /\ signalled \in Seq(Nat)

FeederInit ==
  /\ wphase = "none"
  /\ visible = TRUE
  /\ previousFrameWasVisible = FALSE
  /\ canvasReady = FALSE
  /\ swapchain = EmptySwapchain
  /\ fenceValue = 0
  /\ signalled = <<>>

\* The handles of a cleared mIPCSwapchain are closed.
CloseSwapchainHandles ==
  /\ table' = [h \in Handles |->
                 IF \E i \in Slots : swapchain[i] = h THEN 0 ELSE table[h]]
  /\ swapchain' = EmptySwapchain

\* Mutant: the slot that readers were last given.
NextSlot_Current == Slot(frameNumber)

\* The slot that BeginFrame() hands out and SubmitFrame() publishes.
NextSlot == Slot(frameNumber + 1)

----------------------------------------------------------------------------

(***************************************************************************)
(* A VisorVR process starts, and constructs its only InterprocessRenderer  *)
(* and Writer.  Writer::Writer resets the header WITHOUT taking the mutex. *)
(***************************************************************************)
ConstructWriter ==
  /\ wphase = "none"
  /\ ~running
  /\ sessions < MaxSession
  /\ wphase' = "constructing"
  /\ ResetWords
  /\ running' = TRUE
  /\ process' = process + 1
  /\ visible' = TRUE
  /\ previousFrameWasVisible' = FALSE
  /\ canvasReady' = FALSE
  /\ swapchain' = EmptySwapchain
  /\ fenceValue' = 0
  /\ UNCHANGED <<frames, table, signalled>>
  /\ UNCHANGED mutex

ConstructWriterFrames ==
  /\ wphase = "constructing"
  /\ wphase' = "idle"
  /\ frames' = NoFrames
  /\ UNCHANGED <<headerWords, sessions, mutex, processVars>>
  /\ UNCHANGED <<renderState, resources>>

(***************************************************************************)
(* RenderNow() when visible, up to the first co_await: the canvas already  *)
(* has the size that the layers need, ...                                  *)
(***************************************************************************)
RenderSameCanvas ==
  /\ wphase = "idle"
  /\ visible /\ canvasReady
  /\ frameNumber < MaxFrame /\ fenceValue < MaxFrame
  /\ wphase' = "rendering"
  /\ previousFrameWasVisible' = TRUE
  /\ UNCHANGED <<segmentVars, visible, canvasReady, resources>>

\* ... or not: InitializeCanvas() closes the shared handles, then asks for
\* the mutex to detach.
InitializeCanvas ==
  /\ wphase = "idle"
  /\ visible
  /\ frameNumber < MaxFrame /\ fenceValue < MaxFrame
  /\ sessions < MaxSession
  /\ wphase' = "resizing"
  /\ previousFrameWasVisible' = TRUE
  /\ canvasReady' = TRUE
  /\ CloseSwapchainHandles
  /\ UNCHANGED <<header, mutex, process, running, visible, fenceValue,
                 signalled>>

\* Mutant: the session ID survives.
DetachUnderLock_KeepsSession ==
  /\ owner = Nobody
  /\ attached' = FALSE
  /\ feederPID' = 0
  /\ frameNumber' = 0
  /\ frames' = NoFrames
  /\ abandoned' = FALSE
  /\ UNCHANGED <<session, sessions, owner>>

\* Writer::Detach() between lock() and unlock().
DetachUnderLock ==
  /\ owner = Nobody
  /\ ResetHeader
  /\ abandoned' = FALSE
  /\ UNCHANGED owner

\* Mutant: readers are not told that the swapchain was replaced.
DetachAfterResize_Forgotten ==
  /\ wphase = "resizing"
  /\ wphase' = "rendering"
  /\ UNCHANGED <<segmentVars, renderState, resources>>

DetachAfterResize ==
  /\ wphase = "resizing"
  /\ wphase' = "rendering"
  /\ DetachUnderLock
  /\ UNCHANGED <<processVars, renderState, resources>>

\* SubmitFrame() of the renderer, once all layers are rendered.
LockForFrame ==
  /\ wphase = "rendering"
  /\ wphase' = "locked"
  /\ Lock(Feeder)
  /\ UNCHANGED <<processVars, renderState, resources>>

\* Mutant: the fence is signalled with the value before the increment.
BeginFrame_SignalsOldValue ==
  /\ wphase = "locked"
  /\ wphase' = "copying"
  /\ fenceValue' = fenceValue + 1
  /\ \/ /\ swapchain[NextSlot] = NoHandle
        /\ \E h \in Handles :
             /\ table[h] = 0
             /\ table' = [table EXCEPT ![h] = Len(signalled) + 1]
             /\ swapchain' = [swapchain EXCEPT ![NextSlot] = h]
        /\ signalled' = Append(signalled, fenceValue)
     \/ /\ swapchain[NextSlot] # NoHandle
        /\ signalled' =
             [signalled EXCEPT ![table[swapchain[NextSlot]]] = fenceValue]
        /\ UNCHANGED <<swapchain, table>>
  /\ UNCHANGED <<header, mutex, process, running, renderState>>

(***************************************************************************)
(* BeginFrame(), GetIPCTextureResources(), and the copy and the signal     *)
(* queued on the GPU.  A slot without resources gets new ones, whose       *)
(* handle may have any value that is not open.                             *)
(***************************************************************************)
BeginFrame ==
  /\ wphase = "locked"
  /\ wphase' = "copying"
  /\ fenceValue' = fenceValue + 1
  /\ \/ /\ swapchain[NextSlot] = NoHandle
        /\ \E h \in Handles :
             /\ table[h] = 0
             /\ table' = [table EXCEPT ![h] = Len(signalled) + 1]
             /\ swapchain' = [swapchain EXCEPT ![NextSlot] = h]
        /\ signalled' = Append(signalled, fenceValue')
     \/ /\ swapchain[NextSlot] # NoHandle
        /\ signalled' =
             [signalled EXCEPT ![table[swapchain[NextSlot]]] = fenceValue']
        /\ UNCHANGED <<swapchain, table>>
  /\ UNCHANGED <<header, mutex, process, running, renderState>>

\* Writer::SubmitFrame(), and the unlock at the end of the renderer's.
SubmitFrame ==
  /\ wphase = "copying"
  /\ wphase' = "idle"
  /\ attached' = TRUE
  /\ feederPID' = process
  /\ frameNumber' = frameNumber + 1
  /\ frames' = [frames EXCEPT ![NextSlot] =
                  [handle |-> swapchain[NextSlot],
                   object |-> table[swapchain[NextSlot]],
                   fence  |-> fenceValue,
                   layers |-> TRUE]]
  /\ Unlock(Feeder)
  /\ UNCHANGED <<session, sessions, processVars, renderState, resources>>

(***************************************************************************)
(* RenderNow() when there is nothing to show: an empty frame, once.  The   *)
(* empty frame keeps whatever handles its slot had.                        *)
(***************************************************************************)
RenderInvisible ==
  /\ wphase = "idle"
  /\ ~visible /\ previousFrameWasVisible
  /\ frameNumber < MaxFrame
  /\ wphase' = "hiding"
  /\ Lock(Feeder)
  /\ UNCHANGED <<processVars, renderState, resources>>

SubmitEmptyFrame ==
  /\ wphase = "hiding"
  /\ wphase' = "idle"
  /\ frameNumber' = frameNumber + 1
  /\ frames' = [frames EXCEPT ![NextSlot].layers = FALSE]
  /\ previousFrameWasVisible' = FALSE
  /\ Unlock(Feeder)
  /\ UNCHANGED <<session, attached, feederPID, sessions, processVars,
                 visible, canvasReady, resources>>

\* PostUserAction(): on the same thread, between frames or while RenderNow()
\* awaits a layer.
Hide ==
  /\ wphase \in {"idle", "rendering"}
  /\ visible' = FALSE
  /\ previousFrameWasVisible' = TRUE
  /\ UNCHANGED <<segmentVars, wphase, canvasReady, resources>>

Show ==
  /\ wphase \in {"idle", "rendering"}
  /\ ~visible
  /\ visible' = TRUE
  /\ UNCHANGED <<segmentVars, wphase, previousFrameWasVisible, canvasReady,
                 resources>>

\* Mutant: the destructor drops the resources while readers see them.
DetachToClose_ResourcesFirst ==
  /\ wphase = "idle"
  /\ wphase' = "closing"
  /\ CloseSwapchainHandles
  /\ UNCHANGED <<header, mutex, process, running, renderState, fenceValue,
                 signalled>>

\* ~InterprocessRenderer(): first detach, ...
DetachToClose ==
  /\ wphase = "idle"
  /\ wphase' = "closing"
  /\ DetachUnderLock
  /\ UNCHANGED <<processVars, renderState, resources>>

\* ... then drop the resources; ~Writer() detaches once more.
DestroyWriter ==
  /\ wphase = "closing"
  /\ wphase' = "none"
  /\ DetachUnderLock
  /\ CloseSwapchainHandles
  /\ UNCHANGED <<process, running, renderState, fenceValue, signalled>>

\* The process ends, by itself or not, wherever its threads are.
ProcessEnds ==
  /\ running
  /\ running' = FALSE
  /\ wphase' = "none"
  /\ table' = [h \in Handles |-> 0]
  /\ swapchain' = EmptySwapchain
  /\ ReleaseOnDeath(Feeder)
  /\ UNCHANGED <<header, process, renderState, fenceValue, signalled>>

FeederProgress ==
  \/ ConstructWriterFrames
  \/ DetachAfterResize
  \/ LockForFrame
  \/ BeginFrame
  \/ SubmitFrame
  \/ SubmitEmptyFrame
  \/ DestroyWriter

FeederNext ==
  \/ ConstructWriter
  \/ RenderSameCanvas
  \/ InitializeCanvas
  \/ RenderInvisible
  \/ Hide
  \/ Show
  \/ DetachToClose
  \/ ProcessEnds
  \/ FeederProgress

=============================================================================
