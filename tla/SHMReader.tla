----------------------------- MODULE SHMReader -----------------------------
(***************************************************************************)
(* A reader: SHM::Reader with the D3D11 mapping on top of it, called once  *)
(* per game frame by the OpenXR layer, or by the SteamVR overlay or the    *)
(* viewer.  MaybeGet() holds the mutex from LockForRead to its answer;     *)
(* what a writer that is being constructed or is closing handles does      *)
(* without the mutex interleaves with its steps.                           *)
(***************************************************************************)
EXTENDS SHMSegment

CONSTANT OtherGPUReaders  \* readers whose mGpuLUID is not the feeder's

ASSUME ReaderAssumption == OtherGPUReaders \subseteq Readers

VARIABLES
  rphase,    \* where the reader's thread is
  rsession,  \* mSessionID; 0 stands for its initial value
  rprocess,  \* mFeederProcess: process ID of the open process handle, or 0
  rhandles,  \* mFrameHandles: the foreign handle and the object duplicated
  rmapped,   \* D3D11::Reader::mFrames: the object opened on the device
  got        \* the SHM::Frame that MaybeGet() returned

readerVars == <<rphase, rsession, rprocess, rhandles, rmapped, got>>

ReaderPhases ==
  {"idle", "waiting", "session", "handles", "gpu", "frame", "mapping",
   "reading", "threw", "ended"}

HoldingPhases == {"session", "handles", "gpu", "frame", "threw"}

IPCHandle == [foreign : Handles \cup {NoHandle}, object : Nat]
NoIPCHandle == [foreign |-> NoHandle, object |-> 0]
NoResources == [i \in Slots |-> NoIPCHandle]
NothingMapped == [i \in Slots |-> 0]

\* `number' and `published' are the frame's number and the object that the
\* feeder published in it: not in SHM::Frame, but what properties speak of.
GotFrame == [slot : Slots, object : Nat, fence : Nat, number : Nat,
             published : Nat]
NothingGot == [slot |-> 0, object |-> 0, fence |-> 0, number |-> 0,
               published |-> 0]

ReaderTypeOK ==
  /\ rphase \in [Readers -> ReaderPhases]
  /\ rsession \in [Readers -> Nat]
  /\ rprocess \in [Readers -> Nat]
  /\ rhandles \in [Readers -> [Slots -> IPCHandle]]
  /\ rmapped \in [Readers -> [Slots -> Nat]]
  /\ got \in [Readers -> GotFrame]

ReaderInit ==
  /\ rphase = [r \in Readers |-> "idle"]
  /\ rsession = [r \in Readers |-> 0]
  /\ rprocess = [r \in Readers |-> 0]
  /\ rhandles = [r \in Readers |-> NoResources]
  /\ rmapped = [r \in Readers |-> NothingMapped]
  /\ got = [r \in Readers |-> NothingGot]

Goes(r, from, to) ==
  /\ rphase[r] = from
  /\ rphase' = [rphase EXCEPT ![r] = to]

\* Mutant: BeginFrame() and MaybeGet() disagree by one.
CurrentSlot_Next == Slot(frameNumber + 1)

CurrentSlot == Slot(frameNumber)

(***************************************************************************)
(* OpenProcess(): a process can be opened while it runs, and as long as    *)
(* another process keeps a handle on it.                                   *)
(***************************************************************************)
CanOpen(r, pid) ==
  /\ pid # 0
  /\ \/ running /\ pid = process
     \/ \E other \in Readers \ {r} : rprocess[other] = pid

\* DuplicateHandle() out of the process the reader has opened.
CanDuplicate(r, h) ==
  /\ h # NoHandle
  /\ running /\ rprocess[r] = process
  /\ table[h] # 0

----------------------------------------------------------------------------

\* The host calls; MaybeGet() starts to wait for the mutex.
Poll(r) ==
  /\ Goes(r, "idle", "waiting")
  /\ UNCHANGED <<segmentVars, rsession, rprocess, rhandles, rmapped, got>>

\* MaybeGet() answers NoFeeder; a reader also repairs an abandoned header.
AnswerNoFeeder(r) ==
  /\ Goes(r, "waiting", "idle")
  /\ owner = Nobody
  /\ abandoned \/ ~attached
  /\ RecoverIfAbandoned
  /\ UNCHANGED <<owner, processVars>>
  /\ UNCHANGED <<rsession, rprocess, rhandles, rmapped, got>>

LockForRead(r) ==
  /\ Goes(r, "waiting", "session")
  /\ attached /\ ~abandoned
  /\ Lock(r)
  /\ UNCHANGED <<processVars, rsession, rprocess, rhandles, rmapped, got>>

\* Mutant: OnSessionChanged() does not clear what is mapped.
UpdateSession_KeepsMapped(r) ==
  LET changed == rsession[r] # session
      opened  == IF rprocess[r] # 0 /\ ~changed THEN rprocess[r]
                 ELSE IF CanOpen(r, feederPID) THEN feederPID ELSE 0
  IN
  /\ Goes(r, "session", IF opened = 0 THEN "gpu" ELSE "handles")
  /\ rsession' = [rsession EXCEPT ![r] = session]
  /\ rprocess' = [rprocess EXCEPT ![r] = opened]
  /\ rhandles' = [rhandles EXCEPT ![r] = IF changed THEN NoResources ELSE @]
  /\ UNCHANGED <<segmentVars, rmapped, got>>

(***************************************************************************)
(* UpdateSession() up to the handles.  A new session drops everything the  *)
(* reader kept of the old one: the process and handles here, and what is   *)
(* mapped in OnSessionChanged() (called when UpdateSession() returns; if   *)
(* that throws instead the process ends).                                  *)
(***************************************************************************)
UpdateSession(r) ==
  LET changed == rsession[r] # session
      kept    == IF changed THEN 0 ELSE rprocess[r]
      opened  == IF kept # 0 THEN kept
                 ELSE IF CanOpen(r, feederPID) THEN feederPID ELSE 0
  IN
  /\ Goes(r, "session", IF opened = 0 THEN "gpu" ELSE "handles")
  /\ rsession' = [rsession EXCEPT ![r] = session]
  /\ rprocess' = [rprocess EXCEPT ![r] = opened]
  /\ rhandles' = [rhandles EXCEPT ![r] = IF changed THEN NoResources ELSE @]
  /\ rmapped' = [rmapped EXCEPT ![r] = IF changed THEN NothingMapped ELSE @]
  /\ UNCHANGED <<segmentVars, got>>

\* IPCHandle::Update() has nothing to do: same foreign handle, and we have ours.
HaveCurrent(r) ==
  /\ rhandles[r][CurrentSlot].foreign = frames[CurrentSlot].handle
  /\ rhandles[r][CurrentSlot].object # 0

KeepHandles(r) ==
  /\ Goes(r, "handles", "gpu")
  /\ HaveCurrent(r)
  /\ UNCHANGED <<segmentVars, rsession, rprocess, rhandles, rmapped, got>>

DuplicateHandles(r) ==
  LET h == frames[CurrentSlot].handle IN
  /\ Goes(r, "handles", "gpu")
  /\ ~HaveCurrent(r)
  /\ CanDuplicate(r, h)
  /\ rhandles' = [rhandles EXCEPT ![r] = [@ EXCEPT ![CurrentSlot] =
                    [foreign |-> h, object |-> table[h]]]]
  /\ UNCHANGED <<segmentVars, rsession, rprocess, rmapped, got>>

\* check_bool(DuplicateHandle()) throws; the mutex is still held.
DuplicateThrows(r) ==
  LET h == frames[CurrentSlot].handle IN
  /\ Goes(r, "handles", "threw")
  /\ ~HaveCurrent(r)
  /\ ~CanDuplicate(r, h)
  /\ rhandles' = [rhandles EXCEPT ![r] = [@ EXCEPT ![CurrentSlot] =
                    [foreign |-> h, object |-> 0]]]
  /\ UNCHANGED <<segmentVars, rsession, rprocess, rmapped, got>>

AnswerIncorrectGPU(r) ==
  /\ Goes(r, "gpu", "idle")
  /\ ~attached \/ r \in OtherGPUReaders
  /\ Unlock(r)
  /\ UNCHANGED <<header, processVars, rsession, rprocess, rhandles, rmapped,
                 got>>

CheckGPU(r) ==
  /\ Goes(r, "gpu", "frame")
  /\ attached /\ r \notin OtherGPUReaders
  /\ UNCHANGED <<segmentVars, rsession, rprocess, rhandles, rmapped, got>>

\* Mutant: an early return that does not unlock.
AnswerUnusableHandles_StaysLocked(r) ==
  /\ Goes(r, "frame", "idle")
  /\ rhandles[r][CurrentSlot].object = 0
  /\ UNCHANGED <<segmentVars, rsession, rprocess, rhandles, rmapped, got>>

AnswerUnusableHandles(r) ==
  /\ Goes(r, "frame", "idle")
  /\ rhandles[r][CurrentSlot].object = 0
  /\ Unlock(r)
  /\ UNCHANGED <<header, processVars, rsession, rprocess, rhandles, rmapped,
                 got>>

\* A frame without layers makes the caller return at once.
AnswerFrame(r) ==
  LET i == CurrentSlot IN
  /\ Goes(r, "frame", IF frames[i].layers THEN "mapping" ELSE "idle")
  /\ rhandles[r][i].object # 0
  /\ got' = [got EXCEPT ![r] =
               [slot |-> i, object |-> rhandles[r][i].object,
                fence |-> frames[i].fence, number |-> frameNumber,
                published |-> frames[i].object]]
  /\ Unlock(r)
  /\ UNCHANGED <<header, processVars, rsession, rprocess, rhandles, rmapped>>

(***************************************************************************)
(* D3D11::Reader::Map(), then the GPU wait for the fence and the draw.     *)
(* Map() keeps an opened texture if the duplicated handle has the same     *)
(* VALUE as the one it was opened from; a handle that replaced a closed    *)
(* one may have the value of the closed one.                               *)
(***************************************************************************)
Map(r) ==
  /\ Goes(r, "mapping", "reading")
  /\ \E texture \in {rmapped[r][got[r].slot], got[r].object} :
       /\ texture # 0
       /\ rmapped' = [rmapped EXCEPT ![r] =
                        [@ EXCEPT ![got[r].slot] = texture]]
  /\ UNCHANGED <<segmentVars, rsession, rprocess, rhandles, got>>

FinishReading(r) ==
  /\ Goes(r, "reading", "idle")
  /\ got' = [got EXCEPT ![r] = NothingGot]
  /\ UNCHANGED <<segmentVars, rsession, rprocess, rhandles, rmapped>>

\* The host process ends; after an uncaught exception it always does, as the
\* layer's entry point is noexcept.
ReaderEnds(r) ==
  /\ rphase[r] # "ended"
  /\ rphase' = [rphase EXCEPT ![r] = "ended"]
  /\ rsession' = [rsession EXCEPT ![r] = 0]
  /\ rprocess' = [rprocess EXCEPT ![r] = 0]
  /\ rhandles' = [rhandles EXCEPT ![r] = NoResources]
  /\ rmapped' = [rmapped EXCEPT ![r] = NothingMapped]
  /\ got' = [got EXCEPT ![r] = NothingGot]
  /\ ReleaseOnDeath(r)
  /\ UNCHANGED <<header, processVars>>

Terminate(r) == rphase[r] = "threw" /\ ReaderEnds(r)

ReaderProgress(r) ==
  \/ AnswerNoFeeder(r)
  \/ LockForRead(r)
  \/ UpdateSession(r)
  \/ KeepHandles(r)
  \/ DuplicateHandles(r)
  \/ DuplicateThrows(r)
  \/ AnswerIncorrectGPU(r)
  \/ CheckGPU(r)
  \/ AnswerUnusableHandles(r)
  \/ AnswerFrame(r)
  \/ Map(r)
  \/ FinishReading(r)
  \/ Terminate(r)

ReaderNext(r) == Poll(r) \/ ReaderEnds(r) \/ ReaderProgress(r)

=============================================================================
