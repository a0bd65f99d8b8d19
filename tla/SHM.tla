-------------------------------- MODULE SHM --------------------------------
(***************************************************************************)
(* The feeder and any number of readers on one shared memory segment.      *)
(***************************************************************************)
EXTENDS SHMFeeder, SHMReader

vars == <<segmentVars, feederVars, readerVars>>

Init == SegmentInit /\ FeederInit /\ ReaderInit

Next ==
  \/ FeederNext /\ UNCHANGED readerVars
  \/ \E r \in Readers : ReaderNext(r) /\ UNCHANGED feederVars

Spec == Init /\ [][Next]_vars

(***************************************************************************)
(* A thread that is inside the code keeps running, and a mutex that is     *)
(* free again is eventually granted to a waiter.  Nobody is obliged to     *)
(* render, to poll or to end, except after an uncaught exception.          *)
(***************************************************************************)
Fairness ==
  /\ WF_vars(FeederProgress /\ UNCHANGED readerVars)
  /\ \A r \in Readers : SF_vars(ReaderProgress(r) /\ UNCHANGED feederVars)

FairSpec == Spec /\ Fairness

----------------------------------------------------------------------------

\* Every variable has its type.
TypeOK == SegmentTypeOK /\ FeederTypeOK /\ ReaderTypeOK

(***************************************************************************)
(* The mutex: who is in a step that MaybeGet() or the renderer runs under  *)
(* the lock owns it, and nobody else does.                                 *)
(***************************************************************************)
MutexHeld ==
  /\ owner = Feeder <=> wphase \in {"locked", "copying", "hiding"}
  /\ \A r \in Readers : owner = r <=> rphase[r] \in HoldingPhases

(***************************************************************************)
(* A frame that a reader is about to map holds a duplicate of the very     *)
(* object that the feeder published in that frame, although handle values  *)
(* are reused after a resize or a restart (Reader::MaybeGet and            *)
(* IPCHandle::Update compare handle values only).                          *)
(***************************************************************************)
ReadsPublishedObject ==
  \A r \in Readers :
    rphase[r] \in {"mapping", "reading"} => got[r].object = got[r].published

(***************************************************************************)
(* What a reader draws from is that object too: the textures opened by     *)
(* D3D11::Reader::Map, cached by duplicated handle value, never outlive    *)
(* the session they were opened in.                                        *)
(***************************************************************************)
DrawsPublishedObject ==
  \A r \in Readers :
    rphase[r] = "reading" => rmapped[r][got[r].slot] = got[r].published

(***************************************************************************)
(* The GPU wait that a reader queues (mFenceIn) is on a fence on which the *)
(* feeder has queued a signal of at least that value, so that it ends.     *)
(***************************************************************************)
FenceWillBeSignalled ==
  \A r \in Readers :
    rphase[r] \in {"mapping", "reading"} =>
      got[r].fence <= signalled[got[r].object]

(***************************************************************************)
(* A reader draws after it dropped the mutex.  While the session it read   *)
(* lasts, the feeder does not copy into the texture it draws from before   *)
(* the SwapChainLength-th frame after the one it read: with the length of  *)
(* 2, a reader has one whole frame of the feeder to finish its draw.       *)
(***************************************************************************)
TornOnlyWhenLapped ==
  \A r \in Readers :
    /\ rphase[r] = "reading" /\ wphase = "copying"
    /\ session = rsession[r]
    /\ rmapped[r][got[r].slot] = table[swapchain[NextSlot]]
    => frameNumber + 1 >= got[r].number + SwapChainLength

(***************************************************************************)
(* A reader faults only where the handles of the current frame are gone:   *)
(* the slot of an empty frame never had any, the renderer is replacing     *)
(* them, the segment is being reset, or the feeder's process has ended.    *)
(***************************************************************************)
FaultsExplained ==
  \A r \in Readers :
    rphase[r] = "threw" =>
      \/ frames[CurrentSlot].handle = NoHandle
      \/ wphase = "resizing"
      \/ ~running \/ rprocess[r] # process

(***************************************************************************)
(* While a session lasts, a slot keeps the handle and the object that were *)
(* first published in it: all that readers cache relies on this.           *)
(***************************************************************************)
SlotsStableInSession ==
  [][attached /\ attached' /\ session' = session =>
       \A i \in Slots :
         frames[i].handle # NoHandle =>
           /\ frames'[i].handle = frames[i].handle
           /\ frames'[i].object = frames[i].object]_vars

(***************************************************************************)
(* Frame numbers go backwards only with a new session, and a session ID    *)
(* never comes back.                                                       *)
(***************************************************************************)
FrameNumbersGrow ==
  [][/\ session' >= session
     /\ frameNumber' < frameNumber => session' > session]_headerWords

(***************************************************************************)
(* Every call of MaybeGet() ends, also when the feeder or another reader   *)
(* dies holding the mutex.                                                 *)
(***************************************************************************)
EveryPollEnds ==
  \A r \in Readers :
    rphase[r] = "waiting" ~> rphase[r] \in {"idle", "mapping", "ended"}

----------------------------------------------------------------------------
(* What the code's comments say, and the code does not do.                 *)

(***************************************************************************)
(* While the feeder is alive no reader faults: one that replaces its       *)
(* swapchain gives readers a clean start (InitializeCanvas), and a frame   *)
(* whose handles cannot be used is answered with UnusableHandles.          *)
(***************************************************************************)
ReadersNeverFault ==
  \A r \in Readers :
    rphase[r] = "threw" => ~running \/ rprocess[r] # process

(***************************************************************************)
(* The texture a reader draws from is not the one the feeder is copying    *)
(* into, although the mutex is held only for MaybeGet() and not for the    *)
(* draw.                                                                   *)
(***************************************************************************)
NoTornRead ==
  \A r \in Readers :
    (rphase[r] = "reading" /\ wphase = "copying") =>
      rmapped[r][got[r].slot] # table[swapchain[NextSlot]]

=============================================================================
