---------------------------- MODULE SHM_proofs ----------------------------
(***************************************************************************)
(* Proofs about the shared memory segment, for any number of readers, any  *)
(* handle values and any swapchain length.  The invariant IInv and what it *)
(* is made of are in SHMInvariant.                                         *)
(***************************************************************************)
EXTENDS SHMInvariant, SequenceTheorems, TLAPS

----------------------------------------------------------------------------
(* Data.                                                                   *)

\* A frame number names one of the slots.
LEMMA SlotOf == \A n \in Nat : Slot(n) \in Slots
  BY SegmentAssumption DEF Slot, Slots

\* The initial values have the types of the variables they are assigned to.
LEMMA EmptyValues ==
  /\ NoFrames \in [Slots -> Frame]
  /\ EmptySwapchain \in [Slots -> Handles \cup {NoHandle}]
  /\ NoResources \in [Slots -> IPCHandle]
  /\ NothingMapped \in [Slots -> Nat]
  /\ NothingGot \in GotFrame
<1>1. NoFrame \in Frame
  BY DEF NoFrame, Frame
<1>2. NoIPCHandle \in IPCHandle
  BY DEF NoIPCHandle, IPCHandle
<1>3. 0 \in Slots
  BY SlotOf, SegmentAssumption DEF Slots
<1>4. NothingGot \in GotFrame
  BY <1>3 DEF NothingGot, GotFrame
<1> QED
  BY <1>1, <1>2, <1>4 DEF NoFrames, EmptySwapchain, NoResources, NothingMapped

\* Queueing a signal on a fence keeps the list of the signals a list.
LEMMA SignalKeepsType ==
  ASSUME NEW s \in Seq(Nat), NEW k, NEW v \in Nat
  PROVE  [s EXCEPT ![k] = v] \in Seq(Nat)
<1>1. PICK n \in Nat : s \in [1 .. n -> Nat]
  OBVIOUS
<1>2. [s EXCEPT ![k] = v] \in [1 .. n -> Nat]
  BY <1>1
<1> QED
  BY <1>2

\* A disjunction is a truth value.
LEMMA OrIsBoolean == ASSUME NEW a, NEW b PROVE (a \/ b) \in BOOLEAN
  BY Zenon

----------------------------------------------------------------------------
(* Type correctness.                                                       *)

\* The initial state is well typed.
LEMMA TypeInit == Init => TypeOK
<1> SUFFICES ASSUME Init PROVE TypeOK
  OBVIOUS
<1>1. session \in Nat /\ feederPID \in Nat /\ frameNumber \in Nat
      /\ sessions \in Nat /\ process \in Nat
  BY DEF Init, SegmentInit
<1>2. attached \in BOOLEAN /\ abandoned \in BOOLEAN /\ running \in BOOLEAN
  BY Zenon DEF Init, SegmentInit
<1>3. /\ frames \in [Slots -> Frame]
      /\ owner \in Readers \cup {Feeder, Nobody}
      /\ table \in [Handles -> Nat]
  BY EmptyValues DEF Init, SegmentInit
<1>4. SegmentTypeOK
  BY <1>1, <1>2, <1>3, Zenon DEF SegmentTypeOK
<1>5. FeederTypeOK
  <2>1. /\ visible \in BOOLEAN
        /\ previousFrameWasVisible \in BOOLEAN
        /\ canvasReady \in BOOLEAN
    BY Zenon DEF Init, FeederInit
  <2>2. wphase \in WriterPhases
    BY DEF Init, FeederInit, WriterPhases
  <2>3. /\ swapchain \in [Slots -> Handles \cup {NoHandle}]
        /\ fenceValue \in Nat
        /\ signalled \in Seq(Nat)
    BY EmptyValues DEF Init, FeederInit
  <2> QED
    BY <2>1, <2>2, <2>3, Zenon DEF FeederTypeOK
<1>6. ReaderTypeOK
  BY EmptyValues DEF Init, ReaderInit, ReaderTypeOK, ReaderPhases
<1> QED
  BY <1>4, <1>5, <1>6 DEF TypeOK

\* The truth values that the feeder's steps change.
LEMMA FeederBooleans ==
  ASSUME TypeOK, FeederNext
  PROVE  /\ attached' \in BOOLEAN
         /\ abandoned' \in BOOLEAN
         /\ running' \in BOOLEAN
         /\ visible' \in BOOLEAN
         /\ previousFrameWasVisible' \in BOOLEAN
         /\ canvasReady' \in BOOLEAN
<1> USE OrIsBoolean
    DEF TypeOK, SegmentTypeOK, FeederTypeOK, segmentVars, header, headerWords,
        mutex, processVars, renderState, resources, ResetHeader, ResetWords,
        Lock, Unlock, RecoverIfAbandoned, ReleaseOnDeath, DetachUnderLock
<1>1. CASE ConstructWriter
  BY <1>1, Zenon DEF ConstructWriter
<1>2. CASE ConstructWriterFrames
  BY <1>2, Zenon DEF ConstructWriterFrames
<1>3. CASE RenderSameCanvas
  BY <1>3, Zenon DEF RenderSameCanvas
<1>4. CASE InitializeCanvas
  BY <1>4, Zenon DEF InitializeCanvas
<1>5. CASE DetachAfterResize
  BY <1>5, Zenon DEF DetachAfterResize
<1>6. CASE LockForFrame
  BY <1>6, Zenon DEF LockForFrame
<1>7. CASE BeginFrame
  BY <1>7, Zenon DEF BeginFrame
<1>8. CASE SubmitFrame
  BY <1>8, Zenon DEF SubmitFrame
<1>9. CASE RenderInvisible
  BY <1>9, Zenon DEF RenderInvisible
<1>10. CASE SubmitEmptyFrame
  BY <1>10, Zenon DEF SubmitEmptyFrame
<1>11. CASE Hide
  BY <1>11, Zenon DEF Hide
<1>12. CASE Show
  BY <1>12, Zenon DEF Show
<1>13. CASE DetachToClose
  BY <1>13, Zenon DEF DetachToClose
<1>14. CASE DestroyWriter
  BY <1>14, Zenon DEF DestroyWriter
<1>15. CASE ProcessEnds
  BY <1>15, Zenon DEF ProcessEnds
<1> QED
  BY <1>1, <1>2, <1>3, <1>4, <1>5, <1>6, <1>7, <1>8, <1>9, <1>10, <1>11,
     <1>12, <1>13, <1>14, <1>15, Zenon DEF FeederNext, FeederProgress

\* The rest of what they change.  SubmitFrame() publishes a handle that is
\* in the handle table, which is why OpenSwapchain is needed here.
LEMMA FeederData ==
  ASSUME TypeOK, OpenSwapchain, FeederNext
  PROVE  /\ session' \in Nat /\ feederPID' \in Nat /\ frameNumber' \in Nat
         /\ sessions' \in Nat /\ process' \in Nat /\ fenceValue' \in Nat
         /\ wphase' \in WriterPhases
         /\ owner' \in Readers \cup {Feeder, Nobody}
         /\ table' \in [Handles -> Nat]
         /\ swapchain' \in [Slots -> Handles \cup {NoHandle}]
         /\ frames' \in [Slots -> Frame]
         /\ signalled' \in Seq(Nat)
<1> USE DEF TypeOK, SegmentTypeOK, FeederTypeOK, segmentVars, header,
        headerWords, mutex, processVars, renderState, resources, ResetHeader,
        ResetWords, Lock, Unlock, RecoverIfAbandoned, ReleaseOnDeath,
        DetachUnderLock, CloseSwapchainHandles, FeederNext, FeederProgress,
        ConstructWriterFrames, RenderSameCanvas, DetachAfterResize,
        LockForFrame, RenderInvisible, Hide, Show, DetachToClose
<1>1. /\ session' \in Nat /\ feederPID' \in Nat /\ frameNumber' \in Nat
      /\ sessions' \in Nat /\ process' \in Nat /\ fenceValue' \in Nat
  BY SMTT(20)
     DEF ConstructWriter, InitializeCanvas, BeginFrame, SubmitFrame,
         SubmitEmptyFrame, DestroyWriter, ProcessEnds
<1>2. wphase' \in WriterPhases
  BY DEF ConstructWriter, InitializeCanvas, BeginFrame, SubmitFrame,
         SubmitEmptyFrame, DestroyWriter, ProcessEnds, WriterPhases
<1>3. owner' \in Readers \cup {Feeder, Nobody}
  BY DEF ConstructWriter, InitializeCanvas, BeginFrame, SubmitFrame,
         SubmitEmptyFrame, DestroyWriter, ProcessEnds
<1>4. table' \in [Handles -> Nat]
  <2>1. CASE BeginFrame
    BY <2>1 DEF BeginFrame
  <2>2. CASE InitializeCanvas \/ DestroyWriter
    BY <2>2 DEF InitializeCanvas, DestroyWriter
  <2>3. CASE ProcessEnds
    BY <2>3 DEF ProcessEnds
  <2>4. CASE UNCHANGED table
    BY <2>4
  <2> QED
    BY <2>1, <2>2, <2>3, <2>4 DEF ConstructWriter, SubmitFrame, SubmitEmptyFrame
<1>5. swapchain' \in [Slots -> Handles \cup {NoHandle}]
  <2>1. CASE BeginFrame
    BY <2>1 DEF BeginFrame
  <2>2. CASE swapchain' = EmptySwapchain
    BY <2>2, EmptyValues
  <2>3. CASE UNCHANGED swapchain
    BY <2>3
  <2> QED
    BY <2>1, <2>2, <2>3 DEF ConstructWriter, InitializeCanvas, SubmitFrame,
       SubmitEmptyFrame, DestroyWriter, ProcessEnds
<1>6. frames' \in [Slots -> Frame]
  <2>1. CASE SubmitFrame
    <3>1. NextSlot \in Slots /\ swapchain[NextSlot] \in Handles
      BY <2>1, SlotOf DEF NextSlot, OpenSwapchain, SubmitFrame
    <3>2. [handle |-> swapchain[NextSlot],
           object |-> table[swapchain[NextSlot]],
           fence  |-> fenceValue,
           layers |-> TRUE] \in Frame
      BY <3>1 DEF Frame
    <3> QED
      BY <2>1, <3>2 DEF SubmitFrame
  <2>2. CASE SubmitEmptyFrame
    BY <2>2 DEF SubmitEmptyFrame, Frame
  <2>3. CASE frames' = NoFrames
    BY <2>3, EmptyValues
  <2>4. CASE UNCHANGED frames
    BY <2>4
  <2> QED
    BY <2>1, <2>2, <2>3, <2>4
      DEF ConstructWriter, InitializeCanvas, BeginFrame, DestroyWriter, ProcessEnds
<1>7. signalled' \in Seq(Nat)
  <2>1. CASE BeginFrame
    <3>1. signalled \in Seq(Nat) /\ fenceValue' \in Nat
      BY <1>1
    <3>2. CASE signalled' = Append(signalled, fenceValue')
      BY <3>1, <3>2, AppendProperties
    <3>3. CASE \E k : signalled' = [signalled EXCEPT ![k] = fenceValue']
      <4>1. PICK k : signalled' = [signalled EXCEPT ![k] = fenceValue']
        BY <3>3
      <4> QED
        BY <3>1, <4>1, SignalKeepsType, Zenon
    <3> QED
      BY <2>1, <3>2, <3>3 DEF BeginFrame
  <2>2. CASE UNCHANGED signalled
    BY <2>2
  <2> QED
    BY <2>1, <2>2 DEF ConstructWriter, InitializeCanvas, SubmitFrame,
       SubmitEmptyFrame, DestroyWriter, ProcessEnds
<1> QED
  BY <1>1, <1>2, <1>3, <1>4, <1>5, <1>6, <1>7

\* What a reader's steps change in the segment.
LEMMA ReaderSegment ==
  ASSUME TypeOK, NEW r \in Readers, ReaderNext(r)
  PROVE  SegmentTypeOK'
<1> USE DEF TypeOK, SegmentTypeOK, segmentVars, header, headerWords,
        processVars, ResetHeader, ResetWords, Lock, Unlock,
        RecoverIfAbandoned, ReleaseOnDeath, ReaderNext, ReaderProgress, Poll,
        AnswerNoFeeder, LockForRead, UpdateSession, KeepHandles,
        DuplicateHandles, DuplicateThrows, AnswerIncorrectGPU, CheckGPU,
        AnswerUnusableHandles, AnswerFrame, Map, FinishReading, Terminate,
        ReaderEnds
<1>1. /\ session' \in Nat /\ feederPID' \in Nat /\ frameNumber' \in Nat
      /\ sessions' \in Nat /\ process' \in Nat
  OBVIOUS
<1>2. /\ attached' \in BOOLEAN
      /\ abandoned' \in BOOLEAN
      /\ running' \in BOOLEAN
  BY OrIsBoolean, Zenon
<1>3. /\ frames' \in [Slots -> Frame]
      /\ owner' \in Readers \cup {Feeder, Nobody}
      /\ table' \in [Handles -> Nat]
  BY EmptyValues
<1> QED
  BY <1>1, <1>2, <1>3, Zenon DEF SegmentTypeOK

\* What they change of the reader.
LEMMA ReaderType ==
  ASSUME TypeOK, NEW r \in Readers, ReaderNext(r)
  PROVE  ReaderTypeOK'
<1> USE DEF TypeOK, SegmentTypeOK, ReaderTypeOK, ReaderNext, ReaderProgress,
        Poll, AnswerNoFeeder, LockForRead, KeepHandles, AnswerIncorrectGPU,
        CheckGPU, AnswerUnusableHandles, FinishReading, Terminate
<1>0. CurrentSlot \in Slots
  BY SlotOf DEF CurrentSlot
<1>1. rphase' \in [Readers -> ReaderPhases]
  BY DEF Goes, ReaderPhases, UpdateSession, DuplicateHandles,
         DuplicateThrows, AnswerFrame, Map, ReaderEnds
<1>2. rsession' \in [Readers -> Nat]
  <2>1. CASE UpdateSession(r)
    BY <2>1 DEF UpdateSession
  <2>2. CASE ReaderEnds(r)
    BY <2>2 DEF ReaderEnds
  <2>3. CASE UNCHANGED rsession
    BY <2>3
  <2> QED
    BY <2>1, <2>2, <2>3
       DEF DuplicateHandles, DuplicateThrows, AnswerFrame, Map
<1>3. rprocess' \in [Readers -> Nat]
  <2>1. CASE UpdateSession(r)
    <3>1. PICK p \in Nat : rprocess' = [rprocess EXCEPT ![r] = p]
      BY <2>1 DEF UpdateSession
    <3> QED
      BY <3>1
  <2>2. CASE ReaderEnds(r)
    BY <2>2 DEF ReaderEnds
  <2>3. CASE UNCHANGED rprocess
    BY <2>3
  <2> QED
    BY <2>1, <2>2, <2>3
       DEF DuplicateHandles, DuplicateThrows, AnswerFrame, Map
<1>4. rhandles' \in [Readers -> [Slots -> IPCHandle]]
  <2>1. CASE UpdateSession(r) \/ ReaderEnds(r)
    BY <2>1, EmptyValues DEF UpdateSession, ReaderEnds
  <2>2. CASE DuplicateHandles(r) \/ DuplicateThrows(r)
    <3>1. PICK h \in IPCHandle :
            rhandles' = [rhandles EXCEPT ![r] = [@ EXCEPT ![CurrentSlot] = h]]
      BY <1>0, <2>2 DEF DuplicateHandles, DuplicateThrows, CanDuplicate,
                        IPCHandle, Frame
    <3> QED
      BY <1>0, <3>1
  <2>3. CASE UNCHANGED rhandles
    BY <2>3
  <2> QED
    BY <2>1, <2>2, <2>3 DEF AnswerFrame, Map
<1>5. rmapped' \in [Readers -> [Slots -> Nat]]
  <2>1. CASE UpdateSession(r) \/ ReaderEnds(r)
    BY <2>1, EmptyValues DEF UpdateSession, ReaderEnds
  <2>2. CASE Map(r)
    <3>1. /\ got[r].slot \in Slots
          /\ {rmapped[r][got[r].slot], got[r].object} \subseteq Nat
      BY DEF GotFrame
    <3>2. PICK texture \in {rmapped[r][got[r].slot], got[r].object} :
            rmapped' = [rmapped EXCEPT ![r] =
                          [@ EXCEPT ![got[r].slot] = texture]]
      BY <2>2 DEF Map
    <3> QED
      BY <3>1, <3>2
  <2>3. CASE UNCHANGED rmapped
    BY <2>3
  <2> QED
    BY <2>1, <2>2, <2>3 DEF DuplicateHandles, DuplicateThrows, AnswerFrame
<1>6. got' \in [Readers -> GotFrame]
  <2>1. CASE AnswerFrame(r)
    BY <1>0, <2>1 DEF AnswerFrame, GotFrame, IPCHandle, Frame
  <2>2. CASE FinishReading(r) \/ ReaderEnds(r)
    BY <2>2, EmptyValues DEF ReaderEnds
  <2>3. CASE UNCHANGED got
    BY <2>3
  <2> QED
    BY <2>1, <2>2, <2>3 DEF UpdateSession, DuplicateHandles, DuplicateThrows,
       Map
<1> QED
  BY <1>1, <1>2, <1>3, <1>4, <1>5, <1>6

\* Every step keeps the types.
LEMMA TypeStep == ASSUME TypeOK, OpenSwapchain, [Next]_vars PROVE TypeOK'
<1>1. CASE FeederNext /\ UNCHANGED readerVars
  <2>1. ReaderTypeOK'
    BY <1>1 DEF TypeOK, ReaderTypeOK, readerVars
  <2> QED
    BY <1>1, <2>1, FeederBooleans, FeederData, Zenon
       DEF TypeOK, SegmentTypeOK, FeederTypeOK
<1>2. ASSUME NEW r \in Readers, ReaderNext(r), UNCHANGED feederVars
      PROVE  TypeOK'
  <2>1. FeederTypeOK'
    BY <1>2, Zenon DEF TypeOK, FeederTypeOK, feederVars
  <2> QED
    BY <1>2, <2>1, ReaderSegment, ReaderType DEF TypeOK
<1>3. CASE UNCHANGED vars
  <2>1. SegmentTypeOK'
    BY <1>3, Zenon DEF TypeOK, SegmentTypeOK, vars, segmentVars
  <2>2. FeederTypeOK'
    BY <1>3, Zenon DEF TypeOK, FeederTypeOK, vars, feederVars
  <2>3. ReaderTypeOK'
    BY <1>3, Zenon DEF TypeOK, ReaderTypeOK, vars, readerVars
  <2> QED
    BY <2>1, <2>2, <2>3 DEF TypeOK
<1> QED
  BY <1>1, <1>2, <1>3 DEF Next

----------------------------------------------------------------------------
(* The invariant.                                                          *)

\* Nobody uses the segment yet: every part of the invariant is vacuous.
LEMMA InvInit == Init => IInv
<1> SUFFICES ASSUME Init PROVE IInv
  OBVIOUS
<1>1. /\ session = 0 /\ sessions = 0 /\ process = 0 /\ feederPID = 0
      /\ wphase = "none" /\ owner = Nobody /\ swapchain = EmptySwapchain
  BY DEF Init, SegmentInit, FeederInit
<1>2. ~attached /\ ~running
  BY DEF Init, SegmentInit
<1>3. \A r \in Readers :
        /\ rphase[r] = "idle" /\ rsession[r] = 0 /\ rprocess[r] = 0
        /\ rhandles[r] = NoResources /\ rmapped[r] = NothingMapped
  BY DEF Init, ReaderInit
<1>4. TypeOK
  BY TypeInit
<1>5. MutexHeld
  BY <1>1, <1>3, SegmentAssumption DEF MutexHeld, HoldingPhases
<1>6. RememberedIsOld
  BY <1>1, <1>3 DEF RememberedIsOld
<1>7. OpenSwapchain
  BY <1>1, <1>2 DEF OpenSwapchain, EmptySwapchain
<1>8. PublishedIsOpen
  BY <1>2 DEF PublishedIsOpen
<1>9. EmptyUnlessAttached
  BY <1>1 DEF EmptyUnlessAttached
<1>10. DuplicatesOK /\ CachedInSession
  BY <1>3 DEF DuplicatesOK, CachedInSession, NoResources, NoIPCHandle
<1>11. ResetUnderReader /\ MappedIsDuplicated /\ ReadsPublishedObject
  BY <1>3 DEF ResetUnderReader, MappedIsDuplicated, ReadsPublishedObject,
              NothingMapped
<1> QED
  BY <1>4, <1>5, <1>6, <1>7, <1>8, <1>9, <1>10, <1>11 DEF IInv

(***************************************************************************)
(* The header is reset by a thread that got the mutex: no reader is inside *)
(* MaybeGet(), and none remembers the session that begins.                 *)
(***************************************************************************)
LEMMA ResetUnderLock ==
  ASSUME IInv, ResetHeader, owner = Nobody,
         UNCHANGED <<process, rsession, rprocess>>,
         \A r \in Readers : rphase'[r] \notin {"handles", "gpu", "frame"}
  PROVE  /\ RememberedIsOld'
         /\ PublishedIsOpen'
         /\ EmptyUnlessAttached'
         /\ CachedInSession'
         /\ ResetUnderReader'
<1>1. /\ session \in Nat /\ sessions \in Nat /\ rsession \in [Readers -> Nat]
      /\ rprocess \in [Readers -> Nat]
  BY DEF IInv, TypeOK, SegmentTypeOK, ReaderTypeOK
<1>2. /\ session' = sessions + 1 /\ sessions' = sessions + 1
      /\ ~attached' /\ feederPID' = 0 /\ frames' = NoFrames
  BY DEF ResetHeader, ResetWords
<1>3. RememberedIsOld
  BY DEF IInv
<1>4. \A r \in Readers : rsession'[r] <= sessions /\ rprocess'[r] <= process'
  BY <1>1, <1>3 DEF RememberedIsOld
<1>5. RememberedIsOld'
  BY <1>1, <1>2, <1>4 DEF RememberedIsOld
<1>6. PublishedIsOpen'
  BY <1>2 DEF PublishedIsOpen
<1>7. EmptyUnlessAttached'
  BY <1>2 DEF EmptyUnlessAttached, NoFrames, NoFrame
<1>8. CachedInSession'
  BY <1>1, <1>2, <1>4 DEF CachedInSession
<1>9. ResetUnderReader'
  BY DEF ResetUnderReader
<1> QED
  BY <1>5, <1>6, <1>7, <1>8, <1>9

(***************************************************************************)
(* A step of the feeder that keeps the header and the reader's state keeps *)
(* what relates these two.                                                 *)
(***************************************************************************)
LEMMA HeaderKept ==
  ASSUME RememberedIsOld, CachedInSession, ResetUnderReader,
         UNCHANGED <<header, process, running, readerVars>>
  PROVE  RememberedIsOld' /\ CachedInSession' /\ ResetUnderReader'
<1> USE DEF header, headerWords, readerVars
<1>1. RememberedIsOld'
  BY DEF RememberedIsOld
<1>2. CachedInSession'
  BY DEF CachedInSession
<1>3. ResetUnderReader'
  BY DEF ResetUnderReader
<1> QED
  BY <1>1, <1>2, <1>3

\* A step of the feeder preserves the invariant: it takes handles from readers
\* only with a new session.
LEMMA FeederKeepsInv ==
  ASSUME IInv, TypeOK', FeederNext, UNCHANGED readerVars
  PROVE  IInv'
<1>1. /\ session \in Nat /\ sessions \in Nat /\ process \in Nat
      /\ rsession \in [Readers -> Nat] /\ rprocess \in [Readers -> Nat]
      /\ swapchain \in [Slots -> Handles \cup {NoHandle}]
      /\ table \in [Handles -> Nat] /\ frames \in [Slots -> Frame]
      /\ signalled \in Seq(Nat)
  BY DEF IInv, TypeOK, SegmentTypeOK, FeederTypeOK, ReaderTypeOK
<1>2. MutexHeld
  BY DEF IInv
<1>3. RememberedIsOld
  BY DEF IInv
<1>4. OpenSwapchain
  BY DEF IInv
<1>5. PublishedIsOpen
  BY DEF IInv
<1>6. EmptyUnlessAttached
  BY DEF IInv
<1>7. DuplicatesOK
  BY DEF IInv
<1>8. CachedInSession
  BY DEF IInv
<1>9. ResetUnderReader
  BY DEF IInv
<1>10. NextSlot \in Slots
  BY SlotOf DEF IInv, TypeOK, SegmentTypeOK, NextSlot
<1>11. DuplicatesOK' /\ MappedIsDuplicated' /\ ReadsPublishedObject'
  <2>1. DuplicatesOK'
    BY <1>7 DEF DuplicatesOK, readerVars
  <2>2. MappedIsDuplicated'
    BY DEF IInv, MappedIsDuplicated, readerVars
  <2>3. ReadsPublishedObject'
    BY DEF IInv, ReadsPublishedObject, readerVars
  <2> QED
    BY <2>1, <2>2, <2>3
<1> SUFFICES /\ MutexHeld' /\ RememberedIsOld' /\ OpenSwapchain'
             /\ PublishedIsOpen' /\ EmptyUnlessAttached' /\ CachedInSession'
             /\ ResetUnderReader'
  BY <1>11 DEF IInv
<1>12. CASE ConstructWriter
  <2>1. MutexHeld'
    BY <1>2, <1>12 DEF ConstructWriter, MutexHeld, mutex, readerVars
  <2>2. /\ session' = sessions + 1 /\ sessions' = sessions + 1
        /\ process' = process + 1
        /\ running' /\ ~attached' /\ feederPID' = 0
        /\ UNCHANGED <<rphase, rsession, rprocess, rhandles, frames>>
    BY <1>12 DEF ConstructWriter, ResetWords, readerVars
  <2>3. \A r \in Readers : rsession'[r] < session' /\ rprocess'[r] <= process'
    BY <1>1, <1>3, <2>2 DEF RememberedIsOld
  <2>4. RememberedIsOld'
    BY <1>1, <2>2, <2>3 DEF RememberedIsOld
  <2>5. OpenSwapchain'
    BY <1>1, <1>4, <1>12, <2>2
      DEF ConstructWriter, OpenSwapchain, EmptySwapchain
  <2>6. PublishedIsOpen' /\ EmptyUnlessAttached'
    BY <1>12, <2>2 DEF ConstructWriter, PublishedIsOpen, EmptyUnlessAttached
  <2>7. CachedInSession'
    BY <1>1, <2>2, <2>3 DEF CachedInSession
  <2>8. ResetUnderReader'
    <3> SUFFICES ASSUME NEW r \in Readers,
                        rphase[r] \in {"handles", "gpu", "frame"}
                 PROVE  /\ rprocess[r] # process'
                        /\ \A i \in Slots :
                             frames[i].layers /\ rhandles[r][i].object # 0 =>
                               rhandles[r][i].object = frames[i].object
      BY <2>2 DEF ResetUnderReader
    <3>1. rprocess[r] # process'
      BY <1>1, <1>3, <2>2 DEF RememberedIsOld
    <3>2. CASE rsession[r] = session
      BY <1>8, <3>1, <3>2 DEF CachedInSession
    <3>3. CASE rsession[r] # session
      BY <1>9, <3>1, <3>3 DEF ResetUnderReader
    <3> QED
      BY <3>2, <3>3
  <2> QED
    BY <2>1, <2>4, <2>5, <2>6, <2>7, <2>8
<1>13. CASE ConstructWriterFrames
  <2>1. /\ UNCHANGED <<session, attached, feederPID, sessions, owner, process,
                       running, table, swapchain, frameNumber, readerVars>>
        /\ wphase = "constructing" /\ wphase' = "idle" /\ frames' = NoFrames
    BY <1>13 DEF ConstructWriterFrames, headerWords, mutex, processVars,
                 resources
  <2>2. ~attached
    BY <1>4, <1>5, <2>1 DEF OpenSwapchain, PublishedIsOpen
  <2>3. MutexHeld'
    BY <1>2, <2>1 DEF MutexHeld, readerVars
  <2>4. RememberedIsOld'
    BY <1>3, <2>1 DEF RememberedIsOld, readerVars
  <2>5. OpenSwapchain'
    BY <1>4, <2>1 DEF OpenSwapchain
  <2>6. PublishedIsOpen'
    BY <2>1, <2>2 DEF PublishedIsOpen
  <2>7. EmptyUnlessAttached'
    BY <1>6, <2>1, <2>2 DEF EmptyUnlessAttached, NoFrames, NoFrame
  <2>8. CachedInSession'
    BY <1>8, <2>1, <2>2 DEF CachedInSession, readerVars
  <2>9. ResetUnderReader'
    BY <1>9, <2>1, <2>2 DEF ResetUnderReader, readerVars, NoFrames, NoFrame
  <2> QED
    BY <2>3, <2>4, <2>5, <2>6, <2>7, <2>8, <2>9
<1>14. CASE RenderSameCanvas \/ Hide \/ Show
  <2>1. UNCHANGED <<segmentVars, swapchain, readerVars>>
    BY <1>14 DEF RenderSameCanvas, Hide, Show, resources
  <2>2. \/ wphase' = wphase
        \/ wphase = "idle" /\ wphase' = "rendering"
    BY <1>14 DEF RenderSameCanvas, Hide, Show
  <2> USE <2>1, <2>2 DEF segmentVars
  <2>3. MutexHeld'
    BY <1>2 DEF MutexHeld, readerVars
  <2>4. RememberedIsOld' /\ CachedInSession' /\ ResetUnderReader'
    BY <1>3, <1>8, <1>9, HeaderKept DEF header, headerWords
  <2>5. OpenSwapchain'
    BY <1>4 DEF OpenSwapchain, NextSlot
  <2>6. PublishedIsOpen'
    BY <1>5 DEF PublishedIsOpen
  <2>7. EmptyUnlessAttached'
    BY <1>6 DEF EmptyUnlessAttached
  <2> QED
    BY <2>3, <2>4, <2>5, <2>6, <2>7
<1>15. CASE InitializeCanvas
  <2>1. /\ UNCHANGED <<header, mutex, process, running, readerVars>>
        /\ wphase = "idle" /\ wphase' = "resizing"
        /\ swapchain' = EmptySwapchain
        /\ \A h \in Handles : table'[h] \in {0, table[h]}
    BY <1>1, <1>15 DEF InitializeCanvas, CloseSwapchainHandles
  <2>2. MutexHeld'
    BY <1>2, <2>1 DEF MutexHeld, mutex, readerVars
  <2>3. RememberedIsOld' /\ CachedInSession' /\ ResetUnderReader'
    BY <1>3, <1>8, <1>9, <2>1, HeaderKept
  <2>4. OpenSwapchain'
    BY <1>4, <2>1 DEF OpenSwapchain, EmptySwapchain
  <2>5. PublishedIsOpen'
    BY <1>1, <1>5, <2>1 DEF PublishedIsOpen, header, headerWords, Frame
  <2>6. EmptyUnlessAttached'
    BY <1>6, <2>1 DEF EmptyUnlessAttached, header, headerWords
  <2> QED
    BY <2>2, <2>3, <2>4, <2>5, <2>6
<1>16. CASE DetachAfterResize \/ DetachToClose \/ DestroyWriter
  <2>1. /\ owner = Nobody /\ owner' = Nobody /\ ResetHeader
        /\ UNCHANGED <<process, running, readerVars>>
        /\ wphase' \notin {"copying", "locked", "hiding"}
        /\ wphase # "none"
    BY <1>16 DEF DetachAfterResize, DetachToClose, DestroyWriter,
       DetachUnderLock, processVars
  <2>2. MutexHeld'
    BY <1>2, <2>1, SegmentAssumption DEF MutexHeld, readerVars
  <2>3. /\ RememberedIsOld' /\ PublishedIsOpen' /\ EmptyUnlessAttached'
        /\ CachedInSession' /\ ResetUnderReader'
    BY <1>2, <2>1, ResetUnderLock, SegmentAssumption
       DEF MutexHeld, HoldingPhases, readerVars
  <2>4. OpenSwapchain'
    BY <1>1, <1>4, <1>16, <2>1 DEF DetachAfterResize, DetachToClose,
       DestroyWriter, OpenSwapchain, CloseSwapchainHandles, EmptySwapchain,
       processVars, resources
  <2> QED
    BY <2>2, <2>3, <2>4
<1>17. CASE LockForFrame \/ RenderInvisible
  <2>1. /\ owner = Nobody /\ owner' = Feeder
        /\ (ResetHeader \/ UNCHANGED header)
        /\ UNCHANGED <<process, running, table, swapchain, readerVars>>
        /\ wphase \in {"idle", "rendering"} /\ wphase' \in {"locked", "hiding"}
    BY <1>17 DEF LockForFrame, RenderInvisible, Lock, RecoverIfAbandoned,
       processVars, resources
  <2>2. MutexHeld'
    BY <1>2, <2>1, SegmentAssumption DEF MutexHeld, readerVars
  <2>3. OpenSwapchain'
    BY <1>4, <2>1 DEF OpenSwapchain
  <2>4. CASE ResetHeader
    BY <1>2, <2>1, <2>2, <2>3, <2>4, ResetUnderLock, SegmentAssumption
       DEF MutexHeld, HoldingPhases, readerVars
  <2>5. CASE UNCHANGED header
    <3>1. RememberedIsOld' /\ CachedInSession' /\ ResetUnderReader'
      BY <1>3, <1>8, <1>9, <2>1, <2>5, HeaderKept
    <3>2. PublishedIsOpen'
      BY <1>5, <2>1, <2>5 DEF PublishedIsOpen, header, headerWords
    <3>3. EmptyUnlessAttached'
      BY <1>6, <2>1, <2>5 DEF EmptyUnlessAttached, header, headerWords
    <3> QED
      BY <2>2, <2>3, <3>1, <3>2, <3>3
  <2> QED
    BY <2>1, <2>4, <2>5
<1>18. CASE BeginFrame
  <2>1. /\ UNCHANGED <<header, mutex, process, running, readerVars>>
        /\ wphase = "locked" /\ wphase' = "copying"
    BY <1>18 DEF BeginFrame
  <2>2. MutexHeld'
    BY <1>2, <2>1 DEF MutexHeld, mutex, readerVars
  <2>3. RememberedIsOld' /\ CachedInSession' /\ ResetUnderReader'
    BY <1>3, <1>8, <1>9, <2>1, HeaderKept
  <2>4. EmptyUnlessAttached'
    BY <1>6, <2>1 DEF EmptyUnlessAttached, header, headerWords
  <2>5. NextSlot' = NextSlot
    BY <2>1 DEF NextSlot, header, headerWords
  <2>6. CASE swapchain[NextSlot] # NoHandle /\ UNCHANGED <<swapchain, table>>
    <3>1. OpenSwapchain'
      BY <1>4, <2>1, <2>5, <2>6 DEF OpenSwapchain
    <3>2. PublishedIsOpen'
      BY <1>5, <2>1, <2>6 DEF PublishedIsOpen, header, headerWords
    <3> QED
      BY <2>2, <2>3, <2>4, <3>1, <3>2
  <2>7. ASSUME swapchain[NextSlot] = NoHandle,
               NEW h \in Handles, table[h] = 0,
               table' = [table EXCEPT ![h] = Len(signalled) + 1],
               swapchain' = [swapchain EXCEPT ![NextSlot] = h]
        PROVE  OpenSwapchain' /\ PublishedIsOpen'
    <3>1. /\ table'[h] # 0 /\ swapchain'[NextSlot] = h
          /\ \A g \in Handles : g # h => table'[g] = table[g]
          /\ \A i \in Slots : i # NextSlot => swapchain'[i] = swapchain[i]
      BY <1>1, <1>10, <2>7
    <3>2. OpenSwapchain'
      BY <1>1, <1>4, <1>10, <2>1, <2>5, <2>7, <3>1, SegmentAssumption
         DEF OpenSwapchain
    <3>3. PublishedIsOpen'
      BY <1>1, <1>4, <1>5, <1>10, <2>1, <2>7, <3>1
         DEF PublishedIsOpen, OpenSwapchain, header, headerWords, Frame
    <3> QED
      BY <3>2, <3>3
  <2> QED
    BY <1>18, <2>2, <2>3, <2>4, <2>6, <2>7 DEF BeginFrame
<1>19. CASE SubmitFrame
  <2> DEFINE h == swapchain[NextSlot]
  <2>1. /\ wphase = "copying" /\ wphase' = "idle" /\ running
        /\ owner = Feeder /\ owner' = Nobody
        /\ attached' /\ feederPID' = process
        /\ UNCHANGED <<session, sessions, process, running, table, swapchain,
                       readerVars>>
    BY <1>4, <1>19 DEF SubmitFrame, Unlock, OpenSwapchain, processVars,
                       resources
  <2>2. h \in Handles
    BY <1>1, <1>4, <1>10, <2>1 DEF OpenSwapchain
  <2>3. /\ frames'[NextSlot].handle = h /\ frames'[NextSlot].object = table[h]
        /\ \A i \in Slots : i # NextSlot => frames'[i] = frames[i]
    BY <1>1, <1>10, <1>19 DEF SubmitFrame
  <2>4. MutexHeld'
    BY <1>2, <2>1, SegmentAssumption DEF MutexHeld, readerVars
  <2>5. RememberedIsOld'
    BY <1>3, <2>1 DEF RememberedIsOld, readerVars
  <2>6. OpenSwapchain'
    BY <1>4, <2>1 DEF OpenSwapchain
  <2>7. \A i \in Slots : frames[i].handle # NoHandle =>
          /\ swapchain[i] = frames[i].handle
          /\ table[frames[i].handle] = frames[i].object
    BY <1>5, <1>6, <2>1 DEF PublishedIsOpen, EmptyUnlessAttached
  <2>8. PublishedIsOpen'
    BY <1>10, <2>1, <2>2, <2>3, <2>7 DEF PublishedIsOpen
  <2>9. EmptyUnlessAttached'
    BY <2>1 DEF EmptyUnlessAttached
  <2>10. CachedInSession'
    <3> SUFFICES ASSUME NEW r \in Readers, rsession[r] = session,
                        NEW i \in Slots, rhandles[r][i].object # 0
                 PROVE  /\ rhandles[r][i].foreign = frames'[i].handle
                        /\ rhandles[r][i].object = frames'[i].object
      BY <2>1 DEF CachedInSession, readerVars
    <3>1. /\ rhandles[r][i].foreign = frames[i].handle
          /\ rhandles[r][i].object = frames[i].object
          /\ frames[i].handle # NoHandle
      BY <1>7, <1>8 DEF CachedInSession, DuplicatesOK
    <3> QED
      BY <2>3, <2>7, <3>1
  <2>11. ResetUnderReader'
    BY <1>2, <2>1, SegmentAssumption
       DEF ResetUnderReader, MutexHeld, HoldingPhases, readerVars
  <2> QED
    BY <2>4, <2>5, <2>6, <2>8, <2>9, <2>10, <2>11
<1>20. CASE SubmitEmptyFrame
  <2>1. /\ wphase = "hiding" /\ wphase' = "idle"
        /\ owner = Feeder /\ owner' = Nobody
        /\ UNCHANGED <<session, attached, feederPID, sessions, process,
                       running, table, swapchain, readerVars>>
    BY <1>20 DEF SubmitEmptyFrame, Unlock, processVars, resources
  <2>2. \A i \in Slots : /\ frames'[i].handle = frames[i].handle
                         /\ frames'[i].object = frames[i].object
    BY <1>1, <1>10, <1>20 DEF SubmitEmptyFrame, Frame
  <2>3. MutexHeld'
    BY <1>2, <2>1, SegmentAssumption DEF MutexHeld, readerVars
  <2>4. RememberedIsOld'
    BY <1>3, <2>1 DEF RememberedIsOld, readerVars
  <2>5. OpenSwapchain'
    BY <1>4, <2>1 DEF OpenSwapchain
  <2>6. PublishedIsOpen'
    BY <1>5, <2>1, <2>2 DEF PublishedIsOpen
  <2>7. EmptyUnlessAttached'
    BY <1>6, <2>1, <2>2 DEF EmptyUnlessAttached
  <2>8. CachedInSession'
    BY <1>8, <2>1, <2>2 DEF CachedInSession, readerVars
  <2>9. ResetUnderReader'
    BY <1>2, <2>1, SegmentAssumption
       DEF ResetUnderReader, MutexHeld, HoldingPhases, readerVars
  <2> QED
    BY <2>3, <2>4, <2>5, <2>6, <2>7, <2>8, <2>9
<1>21. CASE ProcessEnds
  <2>1. /\ ~running' /\ wphase' = "none" /\ swapchain' = EmptySwapchain
        /\ owner' = (IF owner = Feeder THEN Nobody ELSE owner)
        /\ UNCHANGED <<header, process, readerVars>>
    BY <1>21 DEF ProcessEnds, ReleaseOnDeath
  <2>2. MutexHeld'
    BY <1>2, <2>1, SegmentAssumption DEF MutexHeld, readerVars
  <2>3. RememberedIsOld' /\ CachedInSession' /\ ResetUnderReader'
    <3>1. RememberedIsOld'
      BY <1>3, <2>1 DEF RememberedIsOld, header, headerWords, readerVars
    <3>2. CachedInSession'
      BY <1>8, <2>1 DEF CachedInSession, header, headerWords, readerVars
    <3>3. ResetUnderReader'
      BY <1>9, <2>1 DEF ResetUnderReader, header, headerWords, readerVars
    <3> QED
      BY <3>1, <3>2, <3>3
  <2>4. OpenSwapchain' /\ PublishedIsOpen' /\ EmptyUnlessAttached'
    BY <1>6, <2>1 DEF OpenSwapchain, PublishedIsOpen, EmptyUnlessAttached,
       EmptySwapchain, header, headerWords
  <2> QED
    BY <2>2, <2>3, <2>4
<1> QED
  BY <1>12, <1>13, <1>14, <1>15, <1>16, <1>17, <1>18, <1>19, <1>20, <1>21
     DEF FeederNext, FeederProgress

(***************************************************************************)
(* Every step of a reader that does not reset the header keeps it, and     *)
(* what it says about the feeder; it changes no other reader; and the lock *)
(* follows the reader's phase.                                             *)
(***************************************************************************)
LEMMA ReaderFrame ==
  ASSUME IInv, NEW r \in Readers, ReaderNext(r), UNCHANGED feederVars
  PROVE  /\ \/ UNCHANGED header
            \/ AnswerNoFeeder(r) /\ owner = Nobody /\ ResetHeader
         /\ UNCHANGED processVars
         /\ \A s \in Readers \ {r} :
              /\ rphase'[s] = rphase[s] /\ rsession'[s] = rsession[s]
              /\ rprocess'[s] = rprocess[s] /\ rhandles'[s] = rhandles[s]
              /\ rmapped'[s] = rmapped[s] /\ got'[s] = got[s]
         /\ MutexHeld'
<1>1. /\ rphase \in [Readers -> ReaderPhases]
      /\ rsession \in [Readers -> Nat]
      /\ rprocess \in [Readers -> Nat]
      /\ rhandles \in [Readers -> [Slots -> IPCHandle]]
      /\ rmapped \in [Readers -> [Slots -> Nat]]
      /\ got \in [Readers -> GotFrame]
  BY DEF IInv, TypeOK, ReaderTypeOK
<1> USE DEF ReaderNext, ReaderProgress, Poll, AnswerNoFeeder, LockForRead,
        UpdateSession, KeepHandles, DuplicateHandles, DuplicateThrows,
        AnswerIncorrectGPU, CheckGPU, AnswerUnusableHandles, AnswerFrame, Map,
        FinishReading, Terminate, ReaderEnds
<1>2. \/ UNCHANGED header
      \/ AnswerNoFeeder(r) /\ owner = Nobody /\ ResetHeader
  BY DEF segmentVars, header, headerWords, Lock, RecoverIfAbandoned
<1>3. UNCHANGED processVars
  BY DEF segmentVars, processVars
<1>4. \A s \in Readers \ {r} : rphase'[s] = rphase[s]
  BY <1>1 DEF Goes
<1>5. \A s \in Readers \ {r} :
        rsession'[s] = rsession[s] /\ rprocess'[s] = rprocess[s]
  BY <1>1
<1>6. \A s \in Readers \ {r} :
        /\ rhandles'[s] = rhandles[s]
        /\ rmapped'[s] = rmapped[s]
        /\ got'[s] = got[s]
  BY <1>1
<1>7. \/ /\ owner' = owner
         /\ rphase[r] \in HoldingPhases <=> rphase'[r] \in HoldingPhases
      \/ owner = Nobody /\ owner' = r /\ rphase'[r] \in HoldingPhases
      \/ owner = r /\ owner' = Nobody /\ rphase'[r] \notin HoldingPhases
      \/ owner # r /\ owner' = owner /\ rphase'[r] \notin HoldingPhases
  BY <1>1 DEF Goes, HoldingPhases, segmentVars, Lock, Unlock, ReleaseOnDeath
<1>8. MutexHeld'
  <2>1. /\ owner = Feeder <=> wphase \in {"locked", "copying", "hiding"}
        /\ \A s \in Readers : owner = s <=> rphase[s] \in HoldingPhases
        /\ wphase' = wphase
    BY DEF IInv, MutexHeld, feederVars
  <2> HIDE DEF ReaderNext
  <2> QED
    BY <1>4, <1>7, <2>1, SegmentAssumption DEF MutexHeld
<1> QED
  BY <1>2, <1>3, <1>4, <1>5, <1>6, <1>8

\* A step of a reader preserves it: what it reads under the mutex is what the
\* feeder published, and what it remembers is of its session.
LEMMA ReaderKeepsInv ==
  ASSUME IInv, TypeOK', NEW r \in Readers, ReaderNext(r), UNCHANGED feederVars
  PROVE  IInv'
<1>1. /\ session \in Nat /\ sessions \in Nat /\ process \in Nat
      /\ feederPID \in Nat
      /\ frames \in [Slots -> Frame] /\ table \in [Handles -> Nat]
      /\ CurrentSlot \in Slots
  BY SlotOf DEF IInv, TypeOK, SegmentTypeOK, CurrentSlot
<1>2. /\ rphase \in [Readers -> ReaderPhases]
      /\ rsession \in [Readers -> Nat] /\ rprocess \in [Readers -> Nat]
      /\ rhandles \in [Readers -> [Slots -> IPCHandle]]
      /\ rmapped \in [Readers -> [Slots -> Nat]]
      /\ got \in [Readers -> GotFrame]
  BY DEF IInv, TypeOK, ReaderTypeOK
<1>3. RememberedIsOld
  BY DEF IInv
<1>4. OpenSwapchain
  BY DEF IInv
<1>5. PublishedIsOpen
  BY DEF IInv
<1>6. EmptyUnlessAttached
  BY DEF IInv
<1>7. DuplicatesOK
  BY DEF IInv
<1>8. CachedInSession
  BY DEF IInv
<1>9. ResetUnderReader
  BY DEF IInv
<1>10. MappedIsDuplicated
  BY DEF IInv
<1>11. ReadsPublishedObject
  BY DEF IInv
<1>12. /\ UNCHANGED processVars
       /\ \A s \in Readers \ {r} :
            /\ rphase'[s] = rphase[s] /\ rsession'[s] = rsession[s]
            /\ rprocess'[s] = rprocess[s] /\ rhandles'[s] = rhandles[s]
            /\ rmapped'[s] = rmapped[s] /\ got'[s] = got[s]
       /\ MutexHeld'
  BY ReaderFrame
<1>13. OpenSwapchain'
  <2>1. UNCHANGED <<wphase, swapchain, table, running, process>>
    BY <1>12 DEF feederVars, processVars
  <2>2. wphase = "copying" => UNCHANGED frameNumber
    BY ReaderFrame, SegmentAssumption
       DEF IInv, MutexHeld, header, headerWords
  <2> QED
    BY <1>4, <2>1, <2>2 DEF OpenSwapchain, NextSlot
<1>14. CASE AnswerNoFeeder(r) /\ owner = Nobody /\ ResetHeader
  <2>1. /\ UNCHANGED <<process, rsession, rprocess, rhandles, rmapped, got>>
        /\ rphase[r] = "waiting" /\ rphase'[r] = "idle"
    BY <1>2, <1>14 DEF AnswerNoFeeder, Goes, processVars
  <2>2. \A s \in Readers : rphase'[s] \notin {"handles", "gpu", "frame"}
    BY <1>12, <1>14, <2>1, SegmentAssumption DEF IInv, MutexHeld, HoldingPhases
  <2>3. /\ RememberedIsOld' /\ PublishedIsOpen' /\ EmptyUnlessAttached'
        /\ CachedInSession' /\ ResetUnderReader'
    BY <1>14, <2>1, <2>2, ResetUnderLock
  <2>4. DuplicatesOK'
    BY <1>7, <1>12, <2>1 DEF DuplicatesOK
  <2>5. MappedIsDuplicated'
    BY <1>10, <1>12, <2>1 DEF MappedIsDuplicated
  <2>6. ReadsPublishedObject'
    BY <1>11, <1>12, <2>1 DEF ReadsPublishedObject
  <2> QED
    BY <1>12, <1>13, <2>3, <2>4, <2>5, <2>6 DEF IInv
<1>15. CASE UNCHANGED header
  <2>1. UNCHANGED <<session, attached, feederPID, frameNumber, frames,
                    sessions, process, running, table, wphase, swapchain>>
    BY <1>12, <1>15 DEF header, headerWords, processVars, feederVars
  <2>2. PublishedIsOpen' /\ EmptyUnlessAttached'
    BY <1>5, <1>6, <2>1 DEF PublishedIsOpen, EmptyUnlessAttached
  <2> DEFINE
    Remembers == rsession'[r] <= sessions /\ rprocess'[r] <= process
    Duplicated ==
      /\ rphase'[r] = "handles" => rprocess'[r] # 0
      /\ \A i \in Slots :
           rhandles'[r][i].object # 0 => rhandles'[r][i].foreign # NoHandle
    Cached ==
      rsession'[r] = session =>
        IF attached
        THEN \A i \in Slots :
               rhandles'[r][i].object # 0 =>
                 /\ rhandles'[r][i].foreign = frames[i].handle
                 /\ rhandles'[r][i].object = frames[i].object
        ELSE /\ rprocess'[r] = 0
             /\ \A i \in Slots : rhandles'[r][i].object = 0
    UnderReset ==
      rphase'[r] \in {"handles", "gpu", "frame"} /\ rsession'[r] # session =>
        /\ ~attached
        /\ ~running \/ rprocess'[r] # process
        /\ \A i \in Slots :
             frames[i].layers /\ rhandles'[r][i].object # 0 =>
               rhandles'[r][i].object = frames[i].object
    Mapped ==
      /\ rphase'[r] # "threw" =>
           \A i \in Slots :
             rmapped'[r][i] # 0 => rmapped'[r][i] = rhandles'[r][i].object
      /\ rphase'[r] \in {"mapping", "reading"} =>
           got'[r].object = rhandles'[r][got'[r].slot].object
      /\ rphase'[r] = "reading" => rmapped'[r][got'[r].slot] = got'[r].object
    Reads ==
      rphase'[r] \in {"mapping", "reading"} =>
        got'[r].object = got'[r].published
  <2>3. SUFFICES /\ Remembers /\ Duplicated /\ Cached
                 /\ UnderReset /\ Mapped /\ Reads
    <3> SUFFICES ASSUME Remembers, Duplicated, Cached, UnderReset, Mapped, Reads
                 PROVE  IInv'
      OBVIOUS
    <3>1. RememberedIsOld'
      BY <1>3, <1>12, <2>1 DEF RememberedIsOld
    <3>2. DuplicatesOK'
      BY <1>7, <1>12 DEF DuplicatesOK
    <3>3. CachedInSession'
      BY <1>8, <1>12, <2>1 DEF CachedInSession
    <3>4. ResetUnderReader'
      BY <1>9, <1>12, <2>1 DEF ResetUnderReader
    <3>5. MappedIsDuplicated'
      BY <1>10, <1>12 DEF MappedIsDuplicated
    <3>6. ReadsPublishedObject'
      BY <1>11, <1>12 DEF ReadsPublishedObject
    <3> QED
      BY <1>12, <1>13, <2>2, <3>1, <3>2, <3>3, <3>4, <3>5, <3>6 DEF IInv
  <2>4. CASE \/ Poll(r) \/ AnswerNoFeeder(r) \/ LockForRead(r) \/ KeepHandles(r)
             \/ AnswerIncorrectGPU(r) \/ CheckGPU(r)
             \/ AnswerUnusableHandles(r) \/ FinishReading(r)
    <3>0. /\ UNCHANGED <<rsession, rprocess, rhandles, rmapped>>
          /\ rphase'[r] \in {"handles", "gpu", "frame"} =>
               rphase[r] \in {"handles", "gpu", "frame"}
          /\ rphase'[r] \notin {"handles", "mapping", "reading"}
          /\ rphase[r] # "threw"
      BY <1>2, <2>4 DEF Poll, AnswerNoFeeder, LockForRead, KeepHandles,
         AnswerIncorrectGPU, CheckGPU, AnswerUnusableHandles, FinishReading,
         Goes
    <3>1. Remembers /\ Duplicated /\ Cached
      BY <1>3, <1>7, <1>8, <2>1, <3>0
        DEF RememberedIsOld, DuplicatesOK, CachedInSession
    <3>2. UnderReset
      BY <1>9, <2>1, <3>0 DEF ResetUnderReader
    <3>3. Mapped /\ Reads
      BY <1>10, <3>0 DEF MappedIsDuplicated
    <3> QED
      BY <3>1, <3>2, <3>3
  <2>5. CASE UpdateSession(r)
    <3> DEFINE changed == rsession[r] # session
               kept    == IF changed THEN 0 ELSE rprocess[r]
               opened  == IF kept # 0 THEN kept
                          ELSE IF CanOpen(r, feederPID) THEN feederPID ELSE 0
    <3>1. /\ rphase'[r] = IF opened = 0 THEN "gpu" ELSE "handles"
          /\ rsession'[r] = session
          /\ rprocess'[r] = opened
          /\ rhandles'[r] = IF changed THEN NoResources ELSE rhandles[r]
          /\ rmapped'[r] = IF changed THEN NothingMapped ELSE rmapped[r]
          /\ rphase[r] = "session"
      BY <1>2, <2>5 DEF UpdateSession, Goes
    <3>2. \A i \in Slots : NoResources[i].object = 0 /\ NothingMapped[i] = 0
      BY DEF NoResources, NoIPCHandle, NothingMapped
    <3>3. CanOpen(r, feederPID) => feederPID <= process
      BY <1>1, <1>2, <1>3 DEF CanOpen, RememberedIsOld
    <3>4. Remembers
      BY <1>1, <1>2, <1>3, <3>1, <3>3 DEF RememberedIsOld
    <3>5. Duplicated
      BY <1>7, <3>1, <3>2 DEF DuplicatesOK
    <3>6. Cached
      <4>1. CASE attached
        BY <1>8, <3>1, <3>2, <4>1 DEF CachedInSession
      <4>2. CASE ~attached
        <5>1. feederPID = 0 /\ kept = 0
          BY <1>6, <1>8, <4>2 DEF EmptyUnlessAttached, CachedInSession
        <5> QED
          BY <1>8, <3>1, <3>2, <4>2, <5>1 DEF CachedInSession
      <4> QED
        BY <4>1, <4>2
    <3>7. UnderReset
      BY <3>1
    <3>8. Mapped /\ Reads
      BY <1>10, <3>1, <3>2 DEF MappedIsDuplicated
    <3> QED
      BY <3>4, <3>5, <3>6, <3>7, <3>8
  <2>6. CASE DuplicateHandles(r)
    <3> DEFINE h == frames[CurrentSlot].handle
    <3>1. /\ rphase[r] = "handles" /\ rphase'[r] = "gpu"
          /\ UNCHANGED <<rsession, rprocess, rmapped>>
          /\ ~HaveCurrent(r)
          /\ h # NoHandle /\ running /\ rprocess[r] = process /\ table[h] # 0
          /\ rhandles'[r] = [rhandles[r] EXCEPT ![CurrentSlot] =
                               [foreign |-> h, object |-> table[h]]]
      BY <1>2, <2>6 DEF DuplicateHandles, Goes, CanDuplicate
    <3>2. /\ rhandles'[r][CurrentSlot].foreign = h
          /\ rhandles'[r][CurrentSlot].object = table[h]
          /\ \A i \in Slots \ {CurrentSlot} : rhandles'[r][i] = rhandles[r][i]
      BY <1>1, <1>2, <3>1
    <3>3. rsession[r] = session /\ attached
      BY <1>7, <1>8, <1>9, <3>1
        DEF DuplicatesOK, CachedInSession, ResetUnderReader
    <3>4. table[h] = frames[CurrentSlot].object
      BY <1>1, <1>5, <3>1, <3>3 DEF PublishedIsOpen
    <3>5. Remembers
      BY <1>3, <3>1 DEF RememberedIsOld
    <3>6. Duplicated
      BY <1>1, <1>7, <3>1, <3>2 DEF DuplicatesOK
    <3>7. Cached
      BY <1>1, <1>8, <3>1, <3>2, <3>3, <3>4 DEF CachedInSession
    <3>8. UnderReset
      BY <3>1, <3>3
    <3>9. rmapped[r][CurrentSlot] = 0
      BY <1>1, <1>8, <1>10, <3>1, <3>3
         DEF MappedIsDuplicated, CachedInSession, HaveCurrent
    <3>10. Mapped /\ Reads
      BY <1>10, <3>1, <3>2, <3>9 DEF MappedIsDuplicated
    <3> QED
      BY <3>5, <3>6, <3>7, <3>8, <3>10
  <2>7. CASE DuplicateThrows(r)
    <3>1. /\ rphase'[r] = "threw"
          /\ UNCHANGED <<rsession, rprocess, rmapped>>
          /\ rhandles'[r][CurrentSlot].object = 0
          /\ \A i \in Slots \ {CurrentSlot} : rhandles'[r][i] = rhandles[r][i]
      BY <1>1, <1>2, <2>7 DEF DuplicateThrows, Goes
    <3>2. Remembers /\ Duplicated
      BY <1>3, <1>7, <3>1 DEF RememberedIsOld, DuplicatesOK
    <3>3. Cached
      BY <1>1, <1>8, <3>1 DEF CachedInSession
    <3>4. UnderReset /\ Mapped /\ Reads
      BY <3>1
    <3> QED
      BY <3>2, <3>3, <3>4
  <2>8. CASE AnswerFrame(r)
    <3>1. /\ rphase[r] = "frame"
          /\ rphase'[r] = IF frames[CurrentSlot].layers
                            THEN "mapping" ELSE "idle"
          /\ UNCHANGED <<rsession, rprocess, rhandles, rmapped>>
          /\ rhandles[r][CurrentSlot].object # 0
          /\ got'[r].slot = CurrentSlot
          /\ got'[r].object = rhandles[r][CurrentSlot].object
          /\ got'[r].published = frames[CurrentSlot].object
      BY <1>2, <2>8 DEF AnswerFrame, Goes
    <3>2. Remembers /\ Duplicated /\ Cached
      BY <1>3, <1>7, <1>8, <3>1
        DEF RememberedIsOld, DuplicatesOK, CachedInSession
    <3>3. UnderReset
      BY <3>1
    <3>4. Mapped
      BY <1>10, <3>1 DEF MappedIsDuplicated
    <3>5. Reads
      BY <1>1, <1>8, <1>9, <3>1 DEF CachedInSession, ResetUnderReader
    <3> QED
      BY <3>2, <3>3, <3>4, <3>5
  <2>9. CASE Map(r)
    <3>1. PICK texture \in {rmapped[r][got[r].slot], got[r].object} :
            /\ texture # 0
            /\ rmapped' = [rmapped EXCEPT ![r] =
                             [@ EXCEPT ![got[r].slot] = texture]]
      BY <2>9 DEF Map
    <3>2. /\ rphase[r] = "mapping" /\ rphase'[r] = "reading"
          /\ UNCHANGED <<rsession, rprocess, rhandles, got>>
      BY <1>2, <2>9 DEF Map, Goes
    <3>3. /\ got[r].slot \in Slots
          /\ rmapped'[r][got[r].slot] = texture
          /\ \A i \in Slots : i # got[r].slot => rmapped'[r][i] = rmapped[r][i]
      BY <1>2, <3>1 DEF GotFrame
    <3>4. texture = got[r].object
      BY <1>10, <3>1, <3>2, <3>3 DEF MappedIsDuplicated
    <3>5. Remembers /\ Duplicated /\ Cached /\ UnderReset
      BY <1>3, <1>7, <1>8, <3>2
        DEF RememberedIsOld, DuplicatesOK, CachedInSession
    <3>6. Mapped /\ Reads
      BY <1>10, <1>11, <3>2, <3>3, <3>4
        DEF MappedIsDuplicated, ReadsPublishedObject
    <3> QED
      BY <3>5, <3>6
  <2>10. CASE ReaderEnds(r)
    <3>1. /\ rphase'[r] = "ended" /\ rsession'[r] = 0 /\ rprocess'[r] = 0
          /\ rhandles'[r] = NoResources /\ rmapped'[r] = NothingMapped
      BY <1>2, <2>10 DEF ReaderEnds
    <3>2. \A i \in Slots : NoResources[i].object = 0 /\ NothingMapped[i] = 0
      BY DEF NoResources, NoIPCHandle, NothingMapped
    <3> QED
      BY <1>1, <3>1, <3>2
  <2> QED
    BY <2>3, <2>4, <2>5, <2>6, <2>7, <2>8, <2>9, <2>10
       DEF ReaderNext, ReaderProgress, Terminate
<1> QED
  BY <1>14, <1>15, ReaderFrame

\* The strengthened invariant of SHMInvariant is inductive: every step of the
\* feeder's and of a reader's code preserves it.
THEOREM InvStep == IInv /\ [Next]_vars => IInv'
<1> SUFFICES ASSUME IInv, [Next]_vars PROVE IInv'
  OBVIOUS
<1>1. TypeOK'
  BY TypeStep DEF IInv
<1>2. CASE FeederNext /\ UNCHANGED readerVars
  BY <1>1, <1>2, FeederKeepsInv
<1>3. ASSUME NEW r \in Readers, ReaderNext(r), UNCHANGED feederVars
      PROVE  IInv'
  BY <1>1, <1>3, ReaderKeepsInv
<1>4. CASE UNCHANGED vars
  BY <1>1, <1>4
     DEF vars, segmentVars, feederVars, readerVars, IInv, MutexHeld,
         RememberedIsOld, OpenSwapchain, PublishedIsOpen, EmptyUnlessAttached,
         DuplicatesOK, CachedInSession, ResetUnderReader, MappedIsDuplicated,
         ReadsPublishedObject, NextSlot
<1> QED
  BY <1>2, <1>3, <1>4 DEF Next

----------------------------------------------------------------------------
(* What follows.                                                           *)

(***************************************************************************)
(* The invariant holds in every reachable state.                           *)
(***************************************************************************)
THEOREM Invariance == Spec => []IInv
  BY InvInit, InvStep, PTL DEF Spec

(***************************************************************************)
(* Every variable has its type: in particular the feeder never publishes a *)
(* handle that is not in its handle table.                                 *)
(***************************************************************************)
THEOREM TypeCorrect == Spec => []TypeOK
<1>1. IInv => TypeOK
  BY DEF IInv
<1> QED
  BY <1>1, Invariance, PTL

(***************************************************************************)
(* The mutex is owned by whoever is in a step that the code runs under the *)
(* lock: MaybeGet() unlocks on every return, the renderer after every      *)
(* frame.                                                                  *)
(***************************************************************************)
THEOREM MutexIsHeld == Spec => []MutexHeld
<1>1. IInv => MutexHeld
  BY DEF IInv
<1> QED
  BY <1>1, Invariance, PTL

(***************************************************************************)
(* A frame that MaybeGet() returned holds a duplicate of the very object   *)
(* that the feeder published in it, whatever handle values are reused      *)
(* across resizes and restarts.                                            *)
(***************************************************************************)
THEOREM ReadsPublished == Spec => []ReadsPublishedObject
<1>1. IInv => ReadsPublishedObject
  BY DEF IInv
<1> QED
  BY <1>1, Invariance, PTL

(***************************************************************************)
(* The texture that a reader's mapping draws from is that object: what     *)
(* D3D11::Reader::Map caches never outlives its session.                   *)
(***************************************************************************)
THEOREM DrawsPublished == Spec => []DrawsPublishedObject
<1>1. IInv => DrawsPublishedObject
  BY DEF IInv, MappedIsDuplicated, ReadsPublishedObject, DrawsPublishedObject
<1> QED
  BY <1>1, Invariance, PTL

(***************************************************************************)
(* While a session lasts, SubmitFrame() publishes in a slot only what the  *)
(* slot already showed: a session ends before its resources do.            *)
(***************************************************************************)
THEOREM SlotsStable == Spec => SlotsStableInSession
<1> DEFINE Stable ==
      attached /\ attached' /\ session' = session =>
        \A i \in Slots :
          frames[i].handle # NoHandle =>
            /\ frames'[i].handle = frames[i].handle
            /\ frames'[i].object = frames[i].object
<1>1. IInv /\ [Next]_vars => [Stable]_vars
  <2> SUFFICES ASSUME IInv, Next, attached, attached', session' = session
               PROVE  \A i \in Slots :
                        frames[i].handle # NoHandle =>
                          /\ frames'[i].handle = frames[i].handle
                          /\ frames'[i].object = frames[i].object
    OBVIOUS
  <2>1. /\ session \in Nat /\ sessions \in Nat /\ session <= sessions
        /\ frames \in [Slots -> Frame] /\ NextSlot \in Slots
    BY SlotOf DEF IInv, TypeOK, SegmentTypeOK, NextSlot, RememberedIsOld
  <2>2. ~ResetWords
    BY <2>1 DEF ResetWords
  <2>3. CASE FeederNext
    <3>1. CASE SubmitFrame
      <4>1. running /\ wphase = "copying"
        BY <3>1 DEF SubmitFrame, IInv, OpenSwapchain
      <4>2. \A i \in Slots : frames[i].handle # NoHandle =>
              /\ swapchain[i] = frames[i].handle
              /\ table[swapchain[i]] = frames[i].object
        BY <4>1 DEF IInv, PublishedIsOpen
      <4> QED
        BY <2>1, <3>1, <4>2 DEF SubmitFrame
    <3>2. CASE SubmitEmptyFrame
      BY <2>1, <3>2 DEF SubmitEmptyFrame, Frame
    <3>3. CASE ConstructWriterFrames
      BY <3>3 DEF ConstructWriterFrames, IInv, OpenSwapchain, PublishedIsOpen
    <3>4. CASE UNCHANGED frames
      BY <3>4
    <3> QED
      BY <2>2, <2>3, <3>1, <3>2, <3>3, <3>4
         DEF FeederNext, FeederProgress, ConstructWriter, RenderSameCanvas,
             InitializeCanvas, DetachAfterResize, LockForFrame, BeginFrame,
             RenderInvisible, Hide, Show, DetachToClose, DestroyWriter,
             ProcessEnds, DetachUnderLock, Lock, RecoverIfAbandoned,
             ResetHeader, segmentVars, header
  <2>4. ASSUME NEW r \in Readers, ReaderNext(r), UNCHANGED feederVars
        PROVE  UNCHANGED frames
    BY <2>2, <2>4, ReaderFrame DEF ResetHeader, header
  <2> QED
    BY <2>3, <2>4 DEF Next
<1> QED
  BY <1>1, Invariance, PTL DEF Spec, SlotsStableInSession

(***************************************************************************)
(* Frame numbers go back only with a new session ID, and the header's      *)
(* session ID only grows, whoever resets the header.                       *)
(***************************************************************************)
THEOREM FramesGrow == Spec => FrameNumbersGrow
<1> DEFINE Grows == /\ session' >= session
                    /\ frameNumber' < frameNumber => session' > session
<1>1. IInv /\ [Next]_vars => [Grows]_headerWords
  <2> SUFFICES ASSUME IInv, [Next]_vars, ~UNCHANGED headerWords PROVE Grows
    OBVIOUS
  <2>1. /\ session \in Nat /\ sessions \in Nat /\ session <= sessions
        /\ frameNumber \in Nat
    BY DEF IInv, TypeOK, SegmentTypeOK, RememberedIsOld
  <2>2. CASE ResetWords
    BY <2>1, <2>2 DEF ResetWords
  <2>3. CASE SubmitFrame \/ SubmitEmptyFrame
    BY <2>1, <2>3 DEF SubmitFrame, SubmitEmptyFrame
  <2>4. CASE FeederNext
    BY <2>2, <2>3, <2>4
       DEF FeederNext, FeederProgress, ConstructWriter, ConstructWriterFrames,
           RenderSameCanvas, InitializeCanvas, DetachAfterResize,
           LockForFrame, BeginFrame, RenderInvisible, Hide, Show,
           DetachToClose, DestroyWriter, ProcessEnds, DetachUnderLock, Lock,
           RecoverIfAbandoned, ResetHeader, segmentVars, header, headerWords
  <2>5. ASSUME NEW r \in Readers, ReaderNext(r), UNCHANGED feederVars
        PROVE  Grows
    BY <2>1, <2>2, <2>5, ReaderFrame DEF ResetHeader, header
  <2> QED
    BY <2>4, <2>5 DEF Next, vars, segmentVars, headerWords
<1> QED
  BY <1>1, Invariance, PTL DEF Spec, FrameNumbersGrow
=============================================================================
