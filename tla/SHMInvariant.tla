--------------------------- MODULE SHMInvariant ---------------------------
(***************************************************************************)
(* The inductive invariant behind ReadsPublishedObject and                 *)
(* DrawsPublishedObject.  Its heart is CachedInSession: what a reader has  *)
(* duplicated in the header's session is what the slots show.  The rest    *)
(* says why the steps that run without the mutex cannot break it.          *)
(***************************************************************************)
EXTENDS SHM

\* Session IDs and process IDs that are remembered have been given out.
RememberedIsOld ==
  /\ session <= sessions
  /\ \A r \in Readers : rsession[r] <= sessions /\ rprocess[r] <= process

\* A renderer lives in a running process; it has a slot's resources from
\* BeginFrame() on, and their handles are open.
OpenSwapchain ==
  /\ wphase # "none" => running
  /\ running => process # 0
  /\ wphase = "copying" => swapchain[NextSlot] # NoHandle
  /\ \A i \in Slots : swapchain[i] # NoHandle => table[swapchain[i]] # 0

\* While the feeder is attached, a published handle still means the published
\* object or has been closed, the latter only during a resize.
PublishedIsOpen ==
  attached /\ running =>
    /\ wphase \notin {"none", "constructing", "closing"}
    /\ \A i \in Slots :
         frames[i].handle # NoHandle =>
           /\ table[frames[i].handle] \in {0, frames[i].object}
           /\ wphase # "resizing" =>
                /\ swapchain[i] = frames[i].handle
                /\ table[frames[i].handle] = frames[i].object

\* Without a feeder there is no process to open; a renderer that has not
\* attached yet works on empty slots.
EmptyUnlessAttached ==
  ~attached =>
    /\ feederPID = 0
    /\ wphase \notin {"none", "constructing"} =>
         \A i \in Slots : frames[i].handle = NoHandle

\* What a reader has duplicated.
DuplicatesOK ==
  \A r \in Readers :
    /\ rphase[r] = "handles" => rprocess[r] # 0
    /\ \A i \in Slots :
         rhandles[r][i].object # 0 => rhandles[r][i].foreign # NoHandle

CachedInSession ==
  \A r \in Readers :
    rsession[r] = session =>
      IF attached
      THEN \A i \in Slots :
             rhandles[r][i].object # 0 =>
               /\ rhandles[r][i].foreign = frames[i].handle
               /\ rhandles[r][i].object = frames[i].object
      ELSE /\ rprocess[r] = 0
           /\ \A i \in Slots : rhandles[r][i].object = 0

\* A new writer reset the header while the reader was inside MaybeGet().
ResetUnderReader ==
  \A r \in Readers :
    rphase[r] \in {"handles", "gpu", "frame"} /\ rsession[r] # session =>
      /\ ~attached
      /\ ~running \/ rprocess[r] # process
      /\ \A i \in Slots :
           frames[i].layers /\ rhandles[r][i].object # 0 =>
             rhandles[r][i].object = frames[i].object

\* The textures opened on the device are those of the duplicated handles.
MappedIsDuplicated ==
  \A r \in Readers :
    /\ rphase[r] # "threw" =>
         \A i \in Slots :
           rmapped[r][i] # 0 => rmapped[r][i] = rhandles[r][i].object
    /\ rphase[r] \in {"mapping", "reading"} =>
         got[r].object = rhandles[r][got[r].slot].object
    /\ rphase[r] = "reading" => rmapped[r][got[r].slot] = got[r].object

IInv ==
  /\ TypeOK
  /\ MutexHeld
  /\ RememberedIsOld
  /\ OpenSwapchain
  /\ PublishedIsOpen
  /\ EmptyUnlessAttached
  /\ DuplicatesOK
  /\ CachedInSession
  /\ ResetUnderReader
  /\ MappedIsDuplicated
  /\ ReadsPublishedObject

----------------------------------------------------------------------------
(* What the invariants about fences and about the draw rest on, besides.   *)

\* A fence is signalled in order, and up to what the frames ask for.
SignalsInOrder ==
  /\ \A i \in Slots :
       /\ swapchain[i] # NoHandle =>
            /\ table[swapchain[i]] \in 1 .. Len(signalled)
            /\ signalled[table[swapchain[i]]] <= fenceValue
       /\ frames[i].object # 0 =>
            /\ frames[i].object \in 1 .. Len(signalled)
            /\ frames[i].fence <= signalled[frames[i].object]
  /\ wphase = "copying" =>
       signalled[table[swapchain[NextSlot]]] = fenceValue

\* So are the fences that readers wait for.
ReadersWaitInOrder ==
  \A r \in Readers :
    rphase[r] \in {"mapping", "reading"} =>
      /\ got[r].object \in 1 .. Len(signalled)
      /\ got[r].fence <= signalled[got[r].object]

\* Each slot has a texture of its own.
TexturesDiffer ==
  \A i, j \in Slots :
    /\ swapchain[i] # NoHandle /\ swapchain[j] # NoHandle
    /\ table[swapchain[i]] = table[swapchain[j]]
    => i = j

\* A frame that was read in the header's session is not of the future.
ReadInSession ==
  \A r \in Readers :
    rphase[r] \in {"mapping", "reading"} =>
      /\ got[r].slot = Slot(got[r].number)
      /\ rsession[r] = session => got[r].number <= frameNumber

FramesInv ==
  SignalsInOrder /\ ReadersWaitInOrder /\ TexturesDiffer /\ ReadInSession

=============================================================================
