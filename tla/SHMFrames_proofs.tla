-------------------------- MODULE SHMFrames_proofs --------------------------
(***************************************************************************)
(* Proofs about fences, faults and overwritten textures, for any number of *)
(* readers, any handle values and any swapchain length.                    *)
(***************************************************************************)
EXTENDS SHMMailbox_proofs

----------------------------------------------------------------------------
(* The feeder's steps, as FramesInv sees them.                             *)

\* Most steps keep the renderer's resources or give all of them up, and keep
\* the frames or empty them.
LEMMA FeederResources ==
  ASSUME IInv, FeederNext
  PROVE  \/ /\ \/ UNCHANGED <<swapchain, table, fenceValue>>
               \/ swapchain' = EmptySwapchain
            /\ UNCHANGED signalled
            /\ frames' = frames \/ frames' = NoFrames
            /\ wphase' # "copying"
         \/ BeginFrame
         \/ SubmitFrame
         \/ SubmitEmptyFrame
<1> USE DEF resources, processVars, CloseSwapchainHandles
<1>1. CASE ConstructWriter \/ ConstructWriterFrames
  BY <1>1 DEF ConstructWriter, ConstructWriterFrames
<1>2. CASE RenderSameCanvas \/ InitializeCanvas \/ Hide \/ Show
  BY <1>2 DEF RenderSameCanvas, InitializeCanvas, Hide, Show, segmentVars,
              header
<1>3. CASE DetachAfterResize \/ DetachToClose \/ DestroyWriter
  BY <1>3 DEF DetachAfterResize, DetachToClose, DestroyWriter,
              DetachUnderLock, ResetHeader
<1>4. CASE LockForFrame \/ RenderInvisible
  BY <1>4 DEF LockForFrame, RenderInvisible, Lock, RecoverIfAbandoned,
              ResetHeader, header
<1>5. CASE ProcessEnds
  BY <1>5 DEF ProcessEnds, header
<1> QED
  BY <1>1, <1>2, <1>3, <1>4, <1>5 DEF FeederNext, FeederProgress

\* The header's session and frame number: kept, counted on, or new.
LEMMA FeederNumbers ==
  ASSUME IInv, FeederNext
  PROVE  \/ UNCHANGED <<session, frameNumber>>
         \/ session' = sessions + 1
         \/ UNCHANGED session /\ frameNumber' = frameNumber + 1
<1>1. CASE SubmitFrame \/ SubmitEmptyFrame
  BY <1>1 DEF SubmitFrame, SubmitEmptyFrame
<1> QED
  BY <1>1
     DEF FeederNext, FeederProgress, ConstructWriter, ConstructWriterFrames,
         RenderSameCanvas, InitializeCanvas, DetachAfterResize, LockForFrame,
         BeginFrame, RenderInvisible, Hide, Show, DetachToClose,
         DestroyWriter, ProcessEnds, DetachUnderLock, Lock,
         RecoverIfAbandoned, ResetHeader, ResetWords, segmentVars, header,
         headerWords

\* The types that the following proofs use.
LEMMA Types ==
  ASSUME IInv
  PROVE  /\ session \in Nat /\ sessions \in Nat /\ frameNumber \in Nat
         /\ process \in Nat /\ fenceValue \in Nat
         /\ frames \in [Slots -> Frame] /\ table \in [Handles -> Nat]
         /\ swapchain \in [Slots -> Handles \cup {NoHandle}]
         /\ signalled \in Seq(Nat)
         /\ rphase \in [Readers -> ReaderPhases]
         /\ rsession \in [Readers -> Nat] /\ rprocess \in [Readers -> Nat]
         /\ rhandles \in [Readers -> [Slots -> IPCHandle]]
         /\ got \in [Readers -> GotFrame]
         /\ NextSlot \in Slots /\ CurrentSlot \in Slots
<1>1. frameNumber \in Nat
  BY DEF IInv, TypeOK, SegmentTypeOK
<1>2. NextSlot \in Slots /\ CurrentSlot \in Slots
  BY <1>1, SlotOf DEF NextSlot, CurrentSlot
<1> QED
  BY <1>2, Zenon
     DEF IInv, TypeOK, SegmentTypeOK, FeederTypeOK, ReaderTypeOK

\* The entries of a sequence of numbers are numbers.
LEMMA EntriesOf ==
  ASSUME NEW s \in Seq(Nat)
  PROVE  Len(s) \in Nat /\ \A n \in 1 .. Len(s) : s[n] \in Nat
  OBVIOUS

\* The initial state has it: nothing is there.
LEMMA FramesInvInit == Init => FramesInv
  BY DEF Init, SegmentInit, FeederInit, ReaderInit, FramesInv, SignalsInOrder,
         ReadersWaitInOrder, TexturesDiffer, ReadInSession, NoFrames, NoFrame,
         EmptySwapchain

\* BeginFrame() signals the fence of a slot with a value above all before; new
\* resources are none that exist.
LEMMA BeginFrameKeeps ==
  ASSUME IInv, FramesInv, BeginFrame
  PROVE  /\ SignalsInOrder' /\ TexturesDiffer'
         /\ Len(signalled) <= Len(signalled')
         /\ \A n \in 1 .. Len(signalled) : signalled[n] <= signalled'[n]
<1> DEFINE i == NextSlot
           L == Len(signalled)
<1>1. /\ fenceValue' = fenceValue + 1 /\ wphase' = "copying"
      /\ UNCHANGED <<frames, frameNumber>> /\ NextSlot' = NextSlot
  BY DEF BeginFrame, header, headerWords, NextSlot
<1>2. /\ SignalsInOrder /\ TexturesDiffer
  BY DEF FramesInv
<1>3. L \in Nat /\ \A n \in 1 .. L : signalled[n] \in Nat
  BY Types, EntriesOf
<1>4. CASE swapchain[i] = NoHandle
  <2>1. PICK h \in Handles :
          /\ table[h] = 0
          /\ table' = [table EXCEPT ![h] = L + 1]
          /\ swapchain' = [swapchain EXCEPT ![i] = h]
    BY <1>4 DEF BeginFrame
  <2>2. signalled' = Append(signalled, fenceValue')
    BY <1>4 DEF BeginFrame
  <2>3. /\ Len(signalled') = L + 1 /\ signalled'[L + 1] = fenceValue'
        /\ \A n \in 1 .. L : signalled'[n] = signalled[n]
    BY <1>1, <2>2, Types
  <2>4. swapchain'[i] = h /\ table'[h] = L + 1 /\ h # NoHandle
    BY <2>1, Types, SegmentAssumption
  <2>5. \A j \in Slots \ {i} :
          /\ swapchain'[j] = swapchain[j]
          /\ swapchain[j] # NoHandle =>
               swapchain[j] # h /\ table'[swapchain[j]] = table[swapchain[j]]
    BY <2>1, Types DEF IInv, OpenSwapchain
  <2>6. SignalsInOrder'
    <3>1. \A j \in Slots : swapchain'[j] # NoHandle =>
            /\ table'[swapchain'[j]] \in 1 .. Len(signalled')
            /\ signalled'[table'[swapchain'[j]]] <= fenceValue'
      <4> TAKE j \in Slots
      <4>1. CASE j = i
        BY <1>1, <1>3, <2>3, <2>4, <4>1, Types
      <4>2. CASE j # i
        <5> HAVE swapchain'[j] # NoHandle
        <5>1. /\ table'[swapchain'[j]] = table[swapchain[j]]
              /\ table[swapchain[j]] \in 1 .. L
              /\ signalled[table[swapchain[j]]] <= fenceValue
          BY <1>2, <2>5, <4>2 DEF SignalsInOrder
        <5>2. fenceValue \in Nat
          BY Types
        <5> QED
          BY <1>1, <1>3, <2>3, <5>1, <5>2
      <4> QED
        BY <4>1, <4>2
    <3>2. \A j \in Slots : frames'[j].object # 0 =>
            /\ frames'[j].object \in 1 .. Len(signalled')
            /\ frames'[j].fence <= signalled'[frames'[j].object]
      BY <1>1, <1>2, <1>3, <2>3 DEF SignalsInOrder
    <3>3. signalled'[table'[swapchain'[NextSlot']]] = fenceValue'
      BY <1>1, <2>3, <2>4
    <3> QED
      BY <3>1, <3>2, <3>3 DEF SignalsInOrder
  <2>7. TexturesDiffer'
    <3> SUFFICES ASSUME NEW j \in Slots, NEW k \in Slots,
                        swapchain'[j] # NoHandle, swapchain'[k] # NoHandle,
                        table'[swapchain'[j]] = table'[swapchain'[k]]
                 PROVE  j = k
      BY DEF TexturesDiffer
    <3>1. \A s \in Slots \ {i} :
            swapchain[s] # NoHandle => table[swapchain[s]] \in 1 .. L
      BY <1>2 DEF SignalsInOrder
    <3> QED
      BY <1>2, <1>3, <2>4, <2>5, <3>1 DEF TexturesDiffer
  <2> QED
    BY <1>3, <2>3, <2>6, <2>7
<1>5. CASE swapchain[i] # NoHandle
  <2>1. /\ UNCHANGED <<swapchain, table>>
        /\ signalled' = [signalled EXCEPT ![table[swapchain[i]]] = fenceValue']
    BY <1>5 DEF BeginFrame
  <2>2. /\ table[swapchain[i]] \in 1 .. L
        /\ signalled[table[swapchain[i]]] <= fenceValue
    BY <1>2, <1>5, Types DEF SignalsInOrder
  <2>3. /\ Len(signalled') = L
        /\ signalled'[table[swapchain[i]]] = fenceValue'
        /\ \A n \in 1 .. L : n # table[swapchain[i]] =>
                               signalled'[n] = signalled[n]
    BY <2>1, <2>2, Types
  <2>4. \A n \in 1 .. L : /\ signalled[n] <= signalled'[n]
                          /\ signalled[n] <= fenceValue =>
                               signalled'[n] <= fenceValue'
    BY <1>1, <1>3, <2>2, <2>3, Types
  <2>5. SignalsInOrder'
    <3>1. \A j \in Slots : swapchain'[j] # NoHandle =>
            /\ table'[swapchain'[j]] \in 1 .. Len(signalled')
            /\ signalled'[table'[swapchain'[j]]] <= fenceValue'
      BY <1>2, <2>1, <2>3, <2>4 DEF SignalsInOrder
    <3>2. \A j \in Slots : frames'[j].object # 0 =>
            /\ frames'[j].object \in 1 .. Len(signalled')
            /\ frames'[j].fence <= signalled'[frames'[j].object]
      <4> TAKE j \in Slots
      <4> HAVE frames'[j].object # 0
      <4>1. /\ frames[j].object \in 1 .. L
            /\ frames[j].fence <= signalled[frames[j].object]
            /\ frames[j].fence \in Nat
        BY <1>1, <1>2, Types DEF SignalsInOrder, Frame
      <4>2. /\ signalled[frames[j].object] <= signalled'[frames[j].object]
            /\ signalled'[frames[j].object] \in Nat
        <5>1. fenceValue' \in Nat
          BY <1>1, Types
        <5> QED
          BY <1>3, <2>3, <2>4, <4>1, <5>1
      <4> QED
        BY <1>1, <1>3, <2>3, <4>1, <4>2
    <3>3. signalled'[table'[swapchain'[NextSlot']]] = fenceValue'
      BY <1>1, <2>1, <2>3
    <3> QED
      BY <3>1, <3>2, <3>3 DEF SignalsInOrder
  <2>6. TexturesDiffer'
    BY <1>2, <2>1 DEF TexturesDiffer
  <2> QED
    BY <1>3, <2>3, <2>4, <2>5, <2>6
<1> QED
  BY <1>4, <1>5

\* SubmitFrame() publishes the value that BeginFrame() has queued the signal of.
LEMMA SubmitFrameKeeps ==
  ASSUME IInv, FramesInv, SubmitFrame
  PROVE  SignalsInOrder' /\ TexturesDiffer'
<1>1. /\ UNCHANGED <<swapchain, table, signalled, fenceValue>>
      /\ wphase = "copying" /\ wphase' = "idle"
  BY DEF SubmitFrame, processVars, resources
<1>2. \A i \in Slots \ {NextSlot} : frames'[i] = frames[i]
  BY Types DEF SubmitFrame
<1>3. /\ frames'[NextSlot].object = table[swapchain[NextSlot]]
      /\ frames'[NextSlot].fence = fenceValue
  BY Types DEF SubmitFrame
<1>4. /\ table[swapchain[NextSlot]] \in 1 .. Len(signalled)
      /\ signalled[table[swapchain[NextSlot]]] = fenceValue
  BY <1>1, PublishedIsThere, Types DEF FramesInv, SignalsInOrder
<1>5. SignalsInOrder'
  <2>1. \A i \in Slots : frames'[i].object # 0 =>
          /\ frames'[i].object \in 1 .. Len(signalled)
          /\ frames'[i].fence <= signalled[frames'[i].object]
    <3> TAKE i \in Slots
    <3>1. CASE i = NextSlot
      <4>1. signalled[table[swapchain[NextSlot]]] <= fenceValue
        BY <1>4, Types
      <4> QED
        BY <1>3, <1>4, <3>1, Types
    <3>2. CASE i # NextSlot
      BY <1>2, <3>2 DEF FramesInv, SignalsInOrder
    <3> QED
      BY <3>1, <3>2
  <2> QED
    BY <1>1, <2>1 DEF FramesInv, SignalsInOrder
<1>6. TexturesDiffer'
  BY <1>1 DEF FramesInv, TexturesDiffer
<1> QED
  BY <1>5, <1>6

\* Every step of the feeder preserves it.
LEMMA FeederKeepsFrames ==
  ASSUME IInv, FramesInv, FeederNext, UNCHANGED readerVars
  PROVE  FramesInv'
<1>1. SignalsInOrder /\ ReadersWaitInOrder /\ TexturesDiffer /\ ReadInSession
  BY DEF FramesInv
<1>2. UNCHANGED <<rphase, rsession, got>>
  BY DEF readerVars
<1>3. ReadInSession'
  <2>1. \A r \in Readers : rsession[r] <= sessions
    BY DEF IInv, RememberedIsOld
  <2> QED
    BY <1>1, <1>2, <2>1, FeederNumbers, Types DEF ReadInSession, GotFrame
<1>4. CASE /\ \/ UNCHANGED <<swapchain, table, fenceValue>>
              \/ swapchain' = EmptySwapchain
           /\ UNCHANGED signalled
           /\ frames' = frames \/ frames' = NoFrames
           /\ wphase' # "copying"
  <2>1. ReadersWaitInOrder'
    BY <1>1, <1>2, <1>4 DEF ReadersWaitInOrder
  <2>2. \A i \in Slots : frames'[i].object # 0 =>
          /\ frames'[i].object \in 1 .. Len(signalled)
          /\ frames'[i].fence <= signalled[frames'[i].object]
    BY <1>1, <1>4 DEF SignalsInOrder, NoFrames, NoFrame
  <2>3. SignalsInOrder'
    BY <1>1, <1>4, <2>2 DEF SignalsInOrder, EmptySwapchain
  <2>4. TexturesDiffer'
    BY <1>1, <1>4 DEF TexturesDiffer, EmptySwapchain
  <2> QED
    BY <1>3, <2>1, <2>3, <2>4 DEF FramesInv
<1>5. CASE BeginFrame
  <2>1. ReadersWaitInOrder'
    <3> SUFFICES ASSUME NEW r \in Readers,
                        rphase[r] \in {"mapping", "reading"}
                 PROVE  /\ got[r].object \in 1 .. Len(signalled')
                        /\ got[r].fence <= signalled'[got[r].object]
      BY <1>2 DEF ReadersWaitInOrder
    <3>1. /\ got[r].object \in 1 .. Len(signalled)
          /\ got[r].fence <= signalled[got[r].object]
          /\ got[r].fence \in Nat
      BY <1>1, Types DEF ReadersWaitInOrder, GotFrame
    <3>2. signalled' \in Seq(Nat)
      <4>1. IInv'
        BY InvStep DEF Next
      <4> QED
        BY <4>1 DEF IInv, TypeOK, FeederTypeOK
    <3>3. /\ Len(signalled) \in Nat /\ Len(signalled') \in Nat
          /\ signalled[got[r].object] \in Nat
          /\ got[r].object \in 1 .. Len(signalled') =>
               signalled'[got[r].object] \in Nat
      BY <3>1, <3>2, Types, EntriesOf
    <3> QED
      BY <1>5, <3>1, <3>3, BeginFrameKeeps
  <2> QED
    BY <1>3, <1>5, <2>1, BeginFrameKeeps DEF FramesInv
<1>6. CASE SubmitFrame
  <2>1. ReadersWaitInOrder'
    BY <1>1, <1>2, <1>6 DEF ReadersWaitInOrder, SubmitFrame, resources
  <2> QED
    BY <1>3, <1>6, <2>1, SubmitFrameKeeps DEF FramesInv
<1>7. CASE SubmitEmptyFrame
  <2>1. /\ UNCHANGED <<swapchain, table, signalled, fenceValue>>
        /\ wphase' = "idle"
        /\ \A i \in Slots : /\ frames'[i].object = frames[i].object
                            /\ frames'[i].fence = frames[i].fence
    BY <1>7, Types DEF SubmitEmptyFrame, processVars, resources, Frame
  <2>2. SignalsInOrder' /\ TexturesDiffer' /\ ReadersWaitInOrder'
    BY <1>1, <1>2, <2>1
       DEF SignalsInOrder, TexturesDiffer, ReadersWaitInOrder
  <2> QED
    BY <1>3, <2>2 DEF FramesInv
<1> QED
  BY <1>4, <1>5, <1>6, <1>7, FeederResources

\* What a reader holds: nothing, what it held, or the current frame.
LEMMA ReaderHolds ==
  ASSUME IInv, NEW r \in Readers, ReaderNext(r), UNCHANGED feederVars,
         rphase'[r] \in {"mapping", "reading"}
  PROVE  /\ UNCHANGED <<header, rsession>>
         /\ \/ rphase[r] \in {"mapping", "reading"} /\ got' = got
            \/ AnswerFrame(r) /\ frames[CurrentSlot].layers
<1>1. rphase \in [Readers -> ReaderPhases]
  BY Types
<1> QED
  BY <1>1
     DEF ReaderNext, ReaderProgress, Poll, AnswerNoFeeder, LockForRead,
         UpdateSession, KeepHandles, DuplicateHandles, DuplicateThrows,
         AnswerIncorrectGPU, CheckGPU, AnswerUnusableHandles, AnswerFrame,
         Map, FinishReading, Terminate, ReaderEnds, Goes, segmentVars, header,
         headerWords

\* MaybeGet() answers the object that is published in the current slot.
LEMMA AnswersPublished ==
  ASSUME IInv, NEW r \in Readers, AnswerFrame(r), frames[CurrentSlot].layers
  PROVE  /\ got'[r].object = frames[CurrentSlot].object
         /\ frames[CurrentSlot].object # 0
         /\ got'[r].fence = frames[CurrentSlot].fence
         /\ got'[r].slot = CurrentSlot /\ got'[r].number = frameNumber
<1>1. /\ rphase[r] = "frame" /\ rhandles[r][CurrentSlot].object # 0
      /\ got'[r].object = rhandles[r][CurrentSlot].object
      /\ got'[r].fence = frames[CurrentSlot].fence
      /\ got'[r].slot = CurrentSlot /\ got'[r].number = frameNumber
  BY Types DEF AnswerFrame, Goes
<1>2. frames[CurrentSlot].object = rhandles[r][CurrentSlot].object
  <2>1. CASE rsession[r] = session
    BY <1>1, <2>1, Types DEF IInv, CachedInSession
  <2>2. CASE rsession[r] # session
    BY <1>1, <2>2, Types DEF IInv, ResetUnderReader
  <2> QED
    BY <2>1, <2>2
<1> QED
  BY <1>1, <1>2

\* Every step of a reader preserves it.
LEMMA ReaderKeepsFrames ==
  ASSUME IInv, FramesInv, NEW r \in Readers, ReaderNext(r),
         UNCHANGED feederVars
  PROVE  FramesInv'
<1>1. SignalsInOrder /\ ReadersWaitInOrder /\ TexturesDiffer /\ ReadInSession
  BY DEF FramesInv
<1>2. UNCHANGED <<wphase, swapchain, fenceValue, signalled, table>>
  BY ReaderFrame DEF feederVars, processVars
<1>3. \/ UNCHANGED header
      \/ owner = Nobody /\ ResetHeader
  BY ReaderFrame
<1>4. \A s \in Readers \ {r} :
        /\ rphase'[s] = rphase[s] /\ rsession'[s] = rsession[s]
        /\ got'[s] = got[s]
  BY ReaderFrame
<1>5. TexturesDiffer'
  BY <1>1, <1>2 DEF TexturesDiffer
<1>6. SignalsInOrder'
  <2>1. CASE UNCHANGED header
    BY <1>1, <1>2, <2>1 DEF SignalsInOrder, header, NextSlot
  <2>2. CASE owner = Nobody /\ ResetHeader
    <3>1. wphase # "copying"
      BY <2>2, SegmentAssumption DEF IInv, MutexHeld
    <3>2. \A i \in Slots : frames'[i].object = 0
      BY <2>2 DEF ResetHeader, NoFrames, NoFrame
    <3> QED
      BY <1>1, <1>2, <3>1, <3>2 DEF SignalsInOrder
  <2> QED
    BY <1>3, <2>1, <2>2
<1>7. ReadersWaitInOrder'
  <2> SUFFICES ASSUME NEW s \in Readers, rphase'[s] \in {"mapping", "reading"}
               PROVE  /\ got'[s].object \in 1 .. Len(signalled)
                      /\ got'[s].fence <= signalled[got'[s].object]
    BY <1>2 DEF ReadersWaitInOrder
  <2>1. CASE rphase[s] \in {"mapping", "reading"} /\ got'[s] = got[s]
    BY <1>1, <2>1 DEF ReadersWaitInOrder
  <2>2. CASE s = r /\ AnswerFrame(r) /\ frames[CurrentSlot].layers
    BY <1>1, <2>2, AnswersPublished, Types DEF SignalsInOrder
  <2> QED
    BY <1>4, <2>1, <2>2, ReaderHolds
<1>8. ReadInSession'
  <2> SUFFICES ASSUME NEW s \in Readers, rphase'[s] \in {"mapping", "reading"}
               PROVE  /\ got'[s].slot = Slot(got'[s].number)
                      /\ rsession'[s] = session' =>
                           got'[s].number <= frameNumber'
    BY DEF ReadInSession
  <2>1. CASE s # r
    <3>1. /\ got[s].slot = Slot(got[s].number)
          /\ rsession[s] = session => got[s].number <= frameNumber
          /\ rsession[s] <= sessions
      BY <1>1, <1>4, <2>1 DEF ReadInSession, IInv, RememberedIsOld
    <3>2. \/ UNCHANGED <<session, frameNumber>>
          \/ session' = sessions + 1
      BY <1>3 DEF header, ResetHeader, ResetWords
    <3> QED
      BY <1>4, <2>1, <3>1, <3>2, Types
  <2>2. CASE s = r
    <3>1. UNCHANGED <<session, frameNumber, rsession>>
      BY <2>2, ReaderHolds DEF header
    <3>2. CASE rphase[r] \in {"mapping", "reading"} /\ got' = got
      BY <1>1, <2>2, <3>1, <3>2 DEF ReadInSession
    <3>3. CASE AnswerFrame(r) /\ frames[CurrentSlot].layers
      BY <2>2, <3>1, <3>3, AnswersPublished, Types DEF CurrentSlot
    <3> QED
      BY <2>2, <3>2, <3>3, ReaderHolds
  <2> QED
    BY <2>1, <2>2
<1> QED
  BY <1>5, <1>6, <1>7, <1>8 DEF FramesInv

\* Every step preserves it.
LEMMA FramesInvStep == IInv /\ FramesInv /\ [Next]_vars => FramesInv'
<1> SUFFICES ASSUME IInv, FramesInv, [Next]_vars PROVE FramesInv'
  OBVIOUS
<1>1. CASE FeederNext /\ UNCHANGED readerVars
  BY <1>1, FeederKeepsFrames
<1>2. ASSUME NEW r \in Readers, ReaderNext(r), UNCHANGED feederVars
      PROVE  FramesInv'
  BY <1>2, ReaderKeepsFrames
<1>3. CASE UNCHANGED vars
  BY <1>3
     DEF vars, segmentVars, feederVars, resources, readerVars, FramesInv,
         SignalsInOrder, ReadersWaitInOrder, TexturesDiffer, ReadInSession,
         NextSlot
<1> QED
  BY <1>1, <1>2, <1>3 DEF Next

LEMMA FramesInvariance == Spec => [](IInv /\ FramesInv)
<1>1. Init => IInv /\ FramesInv
  BY InvInit, FramesInvInit
<1>2. IInv /\ FramesInv /\ [Next]_vars => IInv' /\ FramesInv'
  BY InvStep, FramesInvStep
<1> QED
  BY <1>1, <1>2, PTL DEF Spec

(***************************************************************************)
(* The fence value that MaybeGet() answers is one whose signal the feeder  *)
(* has queued on that very fence: the GPU wait of a reader ends.           *)
(***************************************************************************)
THEOREM FencesAreSignalled == Spec => []FenceWillBeSignalled
<1>1. FramesInv => FenceWillBeSignalled
  BY DEF FramesInv, ReadersWaitInOrder, FenceWillBeSignalled
<1> QED
  BY <1>1, FramesInvariance, PTL

----------------------------------------------------------------------------
(* Draws that overlap copies.                                              *)

\* Division by a positive number.
LEMMA Division ==
  ASSUME NEW n \in Int, NEW d \in Int, d > 0
  PROVE  n \div d \in Int /\ n = d * (n \div d) + (n % d)
<1>1. n \div d \in Int
  BY SMT
<1>2. n = d * (n \div d) + (n % d)
  BY Z3
<1> QED
  BY <1>1, <1>2

\* A slot comes back after SwapChainLength frames.
LEMMA SlotComesBack ==
  ASSUME NEW n \in Nat, NEW m \in Nat, n < m, Slot(n) = Slot(m)
  PROVE  m >= n + SwapChainLength
<1> DEFINE L == SwapChainLength
           p == n \div L
           q == m \div L
<1>1. L \in Nat /\ L >= 1
  BY SegmentAssumption
<1>2. /\ p \in Int /\ n = L * p + (n % L)
      /\ q \in Int /\ m = L * q + (m % L)
  <2>1. L \in Int /\ L > 0
    BY <1>1
  <2> HIDE DEF L
  <2> QED
    BY <2>1, Division
<1>3. n % L = m % L /\ n % L \in Int
  BY <1>1 DEF Slot
<1> HIDE DEF L, p, q
<1>4. L * p \in Int /\ L * q \in Int /\ m - n = L * q - L * p
  BY <1>1, <1>2, <1>3
<1>5. L * q - L * p = L * (q - p)
  BY <1>1, <1>2
<1>6. q - p >= 1
  <2> SUFFICES ASSUME q - p <= 0 PROVE FALSE
    BY <1>2
  <2>1. L * (q - p) <= 0
    BY <1>1, <1>2
  <2> QED
    BY <1>4, <1>5, <2>1
<1>7. L * (q - p) >= L
  BY <1>1, <1>2, <1>6
<1> QED
  BY <1>1, <1>4, <1>5, <1>7 DEF L

(***************************************************************************)
(* While its session lasts, a reader that draws without the mutex from the *)
(* texture the feeder copies into was lapped: the frame it read is         *)
(* SwapChainLength frames old.                                             *)
(***************************************************************************)
THEOREM TornReadsAreLapped == Spec => []TornOnlyWhenLapped
<1>1. IInv /\ FramesInv => TornOnlyWhenLapped
  <2> SUFFICES ASSUME IInv, FramesInv, NEW r \in Readers,
                      rphase[r] = "reading", wphase = "copying",
                      session = rsession[r],
                      rmapped[r][got[r].slot] = table[swapchain[NextSlot]]
               PROVE  frameNumber + 1 >= got[r].number + SwapChainLength
    BY DEF TornOnlyWhenLapped
  <2> DEFINE i == got[r].slot
  <2>1. i \in Slots /\ got[r].number \in Nat /\ frameNumber \in Nat
    BY Types DEF GotFrame
  <2>2. /\ rmapped[r][i] = rhandles[r][i].object
        /\ rhandles[r][i].object # 0
    BY DEF IInv, MappedIsDuplicated, FramesInv, ReadersWaitInOrder
  <2>3. /\ attached
        /\ rhandles[r][i].foreign = frames[i].handle
        /\ rhandles[r][i].object = frames[i].object
    BY <2>1, <2>2 DEF IInv, CachedInSession
  <2>4. frames[i].handle # NoHandle
    BY <2>1, <2>2, <2>3 DEF IInv, DuplicatesOK
  <2>5. /\ swapchain[i] = frames[i].handle
        /\ table[swapchain[i]] = frames[i].object
    BY <2>1, <2>3, <2>4 DEF IInv, PublishedIsOpen, OpenSwapchain
  <2>6. i = NextSlot
    BY <2>1, <2>2, <2>3, <2>4, <2>5, Types
       DEF IInv, OpenSwapchain, FramesInv, TexturesDiffer
  <2>7. Slot(got[r].number) = Slot(frameNumber + 1)
    BY <2>6 DEF FramesInv, ReadInSession, NextSlot
  <2>8. got[r].number <= frameNumber
    BY DEF FramesInv, ReadInSession
  <2> QED
    BY <2>1, <2>7, <2>8, SlotComesBack
<1> QED
  BY <1>1, FramesInvariance, PTL

----------------------------------------------------------------------------
(* Faults.                                                                 *)

\* A reader that faults does so for one of the reasons.
LEMMA ThrowsExplained ==
  ASSUME IInv, MailboxInv, NEW r \in Readers, DuplicateThrows(r)
  PROVE  \/ frames[CurrentSlot].handle = NoHandle
         \/ wphase = "resizing"
         \/ ~running \/ rprocess[r] # process
<1> DEFINE h == frames[CurrentSlot].handle
<1> SUFFICES ASSUME h # NoHandle, running, rprocess[r] = process
             PROVE  wphase = "resizing"
  OBVIOUS
<1>1. rphase[r] = "handles" /\ table[h] = 0
  BY DEF DuplicateThrows, CanDuplicate, Goes
<1>2. frames[CurrentSlot].object # 0
  BY Types DEF MailboxInv, PublishedTogether
<1>3. attached
  <2>1. CASE rsession[r] = session
    BY <2>1 DEF IInv, CachedInSession, OpenSwapchain
  <2>2. CASE rsession[r] # session
    BY <1>1, <2>2 DEF IInv, ResetUnderReader
  <2> QED
    BY <2>1, <2>2
<1> QED
  BY <1>1, <1>2, <1>3, Types DEF IInv, PublishedIsOpen

\* While it holds the mutex, the feeder gives no other.
LEMMA FeederKeepsFaults ==
  ASSUME IInv, FaultsExplained, FeederNext, UNCHANGED readerVars
  PROVE  FaultsExplained'
<1> SUFFICES ASSUME NEW r \in Readers, rphase[r] = "threw"
             PROVE  \/ frames'[CurrentSlot'].handle = NoHandle
                    \/ wphase' = "resizing"
                    \/ ~running' \/ rprocess[r] # process'
  BY DEF FaultsExplained, readerVars
<1>1. \/ frames[CurrentSlot].handle = NoHandle
      \/ wphase = "resizing"
      \/ ~running \/ rprocess[r] # process
  BY DEF FaultsExplained
<1>2. /\ owner = r /\ owner # Nobody
      /\ wphase \notin {"locked", "copying", "hiding"}
  BY SegmentAssumption DEF IInv, MutexHeld, HoldingPhases
<1>3. CASE ConstructWriter
  <2>1. rprocess[r] <= process /\ process' = process + 1
    BY <1>3 DEF IInv, RememberedIsOld, ConstructWriter
  <2> QED
    BY <2>1, Types
<1>4. CASE ConstructWriterFrames
  <2>1. CurrentSlot' = CurrentSlot /\ frames' = NoFrames
    BY <1>4 DEF ConstructWriterFrames, headerWords, CurrentSlot
  <2> QED
    BY <2>1, Types DEF NoFrames, NoFrame
<1>5. CASE RenderSameCanvas \/ Hide \/ Show
  <2>1. /\ UNCHANGED <<frames, frameNumber, process>>
        /\ running' = running
        /\ wphase' = wphase \/ wphase # "resizing"
    BY <1>5 DEF RenderSameCanvas, Hide, Show, segmentVars
  <2> QED
    BY <1>1, <2>1 DEF CurrentSlot
<1>6. CASE InitializeCanvas
  BY <1>6 DEF InitializeCanvas
<1>7. CASE ProcessEnds
  BY <1>7 DEF ProcessEnds
<1> QED
  BY <1>2, <1>3, <1>4, <1>5, <1>6, <1>7
     DEF FeederNext, FeederProgress, DetachAfterResize, LockForFrame,
         BeginFrame, SubmitFrame, RenderInvisible, SubmitEmptyFrame,
         DetachToClose, DestroyWriter, DetachUnderLock, Lock

\* Neither do the other readers.
LEMMA ReaderKeepsFaults ==
  ASSUME IInv, MailboxInv, FaultsExplained, NEW r \in Readers, ReaderNext(r),
         UNCHANGED feederVars
  PROVE  FaultsExplained'
<1> SUFFICES ASSUME NEW s \in Readers, rphase'[s] = "threw"
             PROVE  \/ frames'[CurrentSlot'].handle = NoHandle
                    \/ wphase' = "resizing"
                    \/ ~running' \/ rprocess'[s] # process'
  BY DEF FaultsExplained
<1>1. wphase' = wphase /\ running' = running /\ process' = process
  BY ReaderFrame DEF feederVars, processVars
<1>2. CASE s = r
  <2>1. DuplicateThrows(r)
    BY <1>2, Types
       DEF ReaderNext, ReaderProgress, Poll, AnswerNoFeeder, LockForRead,
           UpdateSession, KeepHandles, DuplicateHandles, AnswerIncorrectGPU,
           CheckGPU, AnswerUnusableHandles, AnswerFrame, Map, FinishReading,
           Terminate, ReaderEnds, Goes
  <2>2. UNCHANGED <<frames, frameNumber, rprocess>>
    BY <2>1 DEF DuplicateThrows, segmentVars
  <2> QED
    BY <1>1, <1>2, <2>1, <2>2, ThrowsExplained DEF CurrentSlot
<1>3. CASE s # r
  <2>1. rphase[s] = "threw" /\ rprocess'[s] = rprocess[s]
    BY <1>3, ReaderFrame
  <2>2. owner = s /\ owner # Nobody
    BY <2>1, SegmentAssumption DEF IInv, MutexHeld, HoldingPhases
  <2>3. UNCHANGED header
    BY <2>2, ReaderFrame
  <2> QED
    BY <1>1, <2>1, <2>3 DEF FaultsExplained, header, CurrentSlot
<1> QED
  BY <1>2, <1>3

(***************************************************************************)
(* A reader faults only where the handles of the current frame are gone.   *)
(***************************************************************************)
THEOREM FaultsAreExplained == Spec => []FaultsExplained
<1>1. Init => IInv /\ MailboxInv /\ FaultsExplained
  <2>1. Init => FaultsExplained
    BY DEF Init, ReaderInit, FaultsExplained
  <2> QED
    BY <2>1, InvInit, MailboxInvInit
<1>2. IInv /\ MailboxInv /\ FaultsExplained /\ [Next]_vars
        => IInv' /\ MailboxInv' /\ FaultsExplained'
  <2> SUFFICES ASSUME IInv, MailboxInv, FaultsExplained, [Next]_vars
               PROVE  FaultsExplained'
    BY InvStep, MailboxInvStep
  <2>1. CASE FeederNext /\ UNCHANGED readerVars
    BY <2>1, FeederKeepsFaults
  <2>2. ASSUME NEW r \in Readers, ReaderNext(r), UNCHANGED feederVars
        PROVE  FaultsExplained'
    BY <2>2, ReaderKeepsFaults
  <2>3. CASE UNCHANGED vars
    BY <2>3
       DEF vars, segmentVars, feederVars, readerVars, FaultsExplained,
           CurrentSlot
  <2> QED
    BY <2>1, <2>2, <2>3 DEF Next
<1> QED
  BY <1>1, <1>2, PTL DEF Spec

=============================================================================
