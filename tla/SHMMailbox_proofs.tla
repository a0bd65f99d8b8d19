------------------------- MODULE SHMMailbox_proofs -------------------------
(***************************************************************************)
(* The proof that the segment with its feeder and readers implements the   *)
(* mailbox, for any number of readers, any handle values and any swapchain *)
(* length.                                                                 *)
(***************************************************************************)
EXTENDS SHM_proofs, SHMMailbox

----------------------------------------------------------------------------
(* What the proof needs besides IInv.                                      *)

\* What a step of the feeder's code does to what readers see.
LEMMA FeederShows ==
  ASSUME IInv, MailboxInv, FeederNext
  PROVE  \/ UNCHANGED <<attached, frameNumber, frames, session>>
         \/ /\ ~attached' /\ frameNumber' = 0
            /\ frames' = frames \/ frames' = NoFrames
         \/ SubmitFrame
         \/ SubmitEmptyFrame
<1>1. CASE ConstructWriterFrames
  BY <1>1
     DEF ConstructWriterFrames, IInv, OpenSwapchain, PublishedIsOpen,
         MailboxInv, NothingPostedSinceReset, headerWords
<1> QED
  BY <1>1
     DEF FeederNext, FeederProgress, ConstructWriter, RenderSameCanvas,
         InitializeCanvas, DetachAfterResize, LockForFrame, BeginFrame,
         RenderInvisible, Hide, Show, DetachToClose, DestroyWriter,
         ProcessEnds, DetachUnderLock, Lock, RecoverIfAbandoned, ResetHeader,
         ResetWords, segmentVars, header, headerWords

\* The feeder publishes while it owns the mutex, so with no reader inside.
LEMMA PublishedAlone ==
  ASSUME IInv, SubmitFrame \/ SubmitEmptyFrame
  PROVE  \A r \in Readers : rphase[r] \notin {"handles", "gpu", "frame"}
  BY SegmentAssumption
     DEF IInv, MutexHeld, HoldingPhases, SubmitFrame, SubmitEmptyFrame

\* What SubmitFrame() publishes is open.
LEMMA PublishedIsThere ==
  ASSUME IInv, SubmitFrame
  PROVE  /\ swapchain[NextSlot] # NoHandle
         /\ table[swapchain[NextSlot]] \in Nat \ {0}
<1>1. /\ NextSlot \in Slots
      /\ swapchain \in [Slots -> Handles \cup {NoHandle}]
      /\ table \in [Handles -> Nat]
  BY SlotOf DEF IInv, TypeOK, SegmentTypeOK, FeederTypeOK, NextSlot
<1>2. /\ swapchain[NextSlot] # NoHandle
      /\ table[swapchain[NextSlot]] # 0
  BY <1>1 DEF SubmitFrame, IInv, OpenSwapchain
<1> QED
  BY <1>1, <1>2

\* The initial state has it: nothing is published.
LEMMA MailboxInvInit == Init => MailboxInv
  BY DEF Init, SegmentInit, FeederInit, ReaderInit, MailboxInv,
         PublishedTogether, NothingPostedSinceReset, NoFrames, NoFrame

\* Every step preserves it.
LEMMA MailboxInvStep == IInv /\ MailboxInv /\ [Next]_vars => MailboxInv'
<1> SUFFICES ASSUME IInv, MailboxInv, [Next]_vars PROVE MailboxInv'
  OBVIOUS
<1> USE DEF MailboxInv, PublishedTogether, NothingPostedSinceReset
<1>1. /\ frames \in [Slots -> Frame] /\ NextSlot \in Slots
      /\ rphase \in [Readers -> ReaderPhases]
      /\ rsession \in [Readers -> Nat]
  BY SlotOf DEF IInv, TypeOK, SegmentTypeOK, ReaderTypeOK, NextSlot
<1>2. NoFrames \in [Slots -> Frame]
      /\ \A i \in Slots : NoFrames[i].handle = NoHandle
                          /\ NoFrames[i].object = 0
  BY EmptyValues DEF NoFrames, NoFrame
<1>3. CASE FeederNext /\ UNCHANGED readerVars
  <2>1. CASE UNCHANGED <<attached, frameNumber, frames, session>>
    <3>1. wphase' = "constructing" => frameNumber' = 0
      BY <1>3, <2>1
         DEF FeederNext, FeederProgress, ConstructWriter, RenderSameCanvas,
             InitializeCanvas, DetachAfterResize, LockForFrame, BeginFrame,
             RenderInvisible, Hide, Show, DetachToClose, DestroyWriter,
             ProcessEnds, ConstructWriterFrames, SubmitFrame,
             SubmitEmptyFrame, ResetWords
    <3> QED
      BY <1>3, <2>1, <3>1 DEF readerVars
  <2>2. CASE /\ ~attached' /\ frameNumber' = 0
             /\ frames' = frames \/ frames' = NoFrames
    BY <1>2, <2>2
  <2>3. CASE SubmitFrame
    <3>1. wphase' = "idle"
          /\ \A i \in Slots : frames'[i].handle = NoHandle <=>
                                frames'[i].object = 0
      BY <1>1, <2>3, PublishedIsThere DEF SubmitFrame
    <3> QED
      BY <1>3, <2>3, <3>1, PublishedAlone DEF readerVars
  <2>4. CASE SubmitEmptyFrame
    <3>1. wphase' = "idle"
          /\ \A i \in Slots : /\ frames'[i].handle = frames[i].handle
                              /\ frames'[i].object = frames[i].object
      BY <1>1, <2>4 DEF SubmitEmptyFrame, Frame
    <3> QED
      BY <1>3, <2>4, <3>1, PublishedAlone DEF readerVars
  <2> QED
    BY <1>3, <2>1, <2>2, <2>3, <2>4, FeederShows
<1>4. ASSUME NEW r \in Readers, ReaderNext(r), UNCHANGED feederVars
      PROVE  MailboxInv'
  <2>1. CASE UNCHANGED header
    <3>1. \A s \in Readers \ {r} :
            rphase'[s] = rphase[s] /\ rsession'[s] = rsession[s]
      BY <1>4, ReaderFrame
    <3>2. rphase'[r] \in {"handles", "gpu", "frame"} =>
            \/ rsession'[r] = session
            \/ /\ rphase[r] \in {"handles", "gpu", "frame"}
               /\ rsession'[r] = rsession[r]
      BY <1>1, <1>4
         DEF ReaderNext, ReaderProgress, Poll, AnswerNoFeeder, LockForRead,
             UpdateSession, KeepHandles, DuplicateHandles, DuplicateThrows,
             AnswerIncorrectGPU, CheckGPU, AnswerUnusableHandles,
             AnswerFrame, Map, FinishReading, Terminate, ReaderEnds, Goes
    <3>3. UNCHANGED <<session, frameNumber, frames, wphase>>
      BY <1>4, <2>1 DEF header, feederVars
    <3> QED
      BY <3>1, <3>2, <3>3
  <2>2. CASE ResetHeader
    BY <1>2, <2>2 DEF ResetHeader, ResetWords
  <2> QED
    BY <1>4, <2>1, <2>2, ReaderFrame
<1>5. CASE UNCHANGED vars
  BY <1>5 DEF vars, segmentVars, feederVars, readerVars
<1> QED
  BY <1>3, <1>4, <1>5 DEF Next

----------------------------------------------------------------------------
(* The steps of the mailbox.                                               *)

\* At first the mailbox is empty.
LEMMA BoxInit == Init => Box!Init
<1>1. Init => Hand = [r \in Readers |-> [number |-> 0, texture |-> 0]]
  BY DEF Init, ReaderInit, Hand
<1>2. Init => Rack = [i \in Slots |-> [texture |-> 0, shows |-> FALSE]]
  BY DEF Init, SegmentInit, Rack, NoFrames, NoFrame
<1> QED
  BY <1>1, <1>2
     DEF Init, SegmentInit, Box!Init, Box!EmptyRack, Box!Places, Box!Nothing,
         Slots

\* A reset of the header clears it, at once or its words first.
LEMMA ResetClears ==
  ASSUME ~attached', frameNumber' = 0, frames' = frames \/ frames' = NoFrames,
         UNCHANGED Hand, attached \in BOOLEAN, attached' \in BOOLEAN
  PROVE  Box!Clear
<1>1. CASE frames' = frames
  <2>1. UNCHANGED Rack
    BY <1>1 DEF Rack
  <2> QED
    BY <2>1, Zenon DEF Box!Clear
<1>2. CASE frames' = NoFrames
  <2>1. Rack' = [i \in Slots |-> [texture |-> 0, shows |-> FALSE]]
    BY <1>2 DEF Rack, NoFrames, NoFrame
  <2>2. Rack' = Box!EmptyRack
    BY <2>1 DEF Box!EmptyRack, Box!Places, Slots
  <2> QED
    BY <2>2, Zenon DEF Box!Clear
<1> QED
  BY <1>1, <1>2

\* SubmitFrame() of a visible frame posts a picture: it puts in its slot the
\* texture that is there already, if there is one.
LEMMA SubmitPosts ==
  ASSUME IInv, MailboxInv, SubmitFrame, UNCHANGED Hand
  PROVE  Box!Post
<1> DEFINE i == NextSlot
           texture == table[swapchain[i]]
<1>1. frames \in [Slots -> Frame] /\ i \in Slots
  BY SlotOf DEF IInv, TypeOK, SegmentTypeOK, NextSlot
<1>2. i = Box!Place(frameNumber + 1)
  BY DEF NextSlot, Slot, Box!Place
<1>3. Rack' = [Rack EXCEPT ![i] = [texture |-> texture, shows |-> TRUE]]
  BY <1>1 DEF SubmitFrame, Rack
<1>4. Rack'[i].texture = texture /\ Rack[i].texture = frames[i].object
  BY <1>1, <1>3 DEF Rack
<1>5. texture # 0
  BY PublishedIsThere
<1>6. frames[i].object \in {0, texture}
  <2>1. CASE frames[i].handle = NoHandle
    BY <1>1, <2>1 DEF MailboxInv, PublishedTogether
  <2>2. CASE frames[i].handle # NoHandle
    BY <1>1, <2>2
       DEF SubmitFrame, IInv, OpenSwapchain, PublishedIsOpen,
           EmptyUnlessAttached
  <2> QED
    BY <2>1, <2>2
<1>7. attached' = TRUE /\ frameNumber' = frameNumber + 1
  BY DEF SubmitFrame
<1> HIDE DEF i, texture
<1> QED
  BY <1>2, <1>3, <1>4, <1>5, <1>6, <1>7 DEF Box!Post

\* An empty frame posts nothing, and leaves the texture in its slot.
LEMMA SubmitEmptyPosts ==
  ASSUME IInv, SubmitEmptyFrame, UNCHANGED Hand
  PROVE  Box!PostNothing
<1>1. frames \in [Slots -> Frame] /\ NextSlot \in Slots
  BY SlotOf DEF IInv, TypeOK, SegmentTypeOK, NextSlot
<1>2. NextSlot = Box!Place(frameNumber + 1)
  BY DEF NextSlot, Slot, Box!Place
<1>3. Rack' = [Rack EXCEPT ![NextSlot].shows = FALSE]
  BY <1>1 DEF SubmitEmptyFrame, Rack, Frame
<1>4. UNCHANGED attached /\ frameNumber' = frameNumber + 1
  BY DEF SubmitEmptyFrame
<1> QED
  BY <1>2, <1>3, <1>4 DEF Box!PostNothing

\* MaybeGet() that answers a frame with layers takes it.
LEMMA AnswerTakes ==
  ASSUME IInv, MailboxInv, NEW r \in Readers, AnswerFrame(r),
         frames[CurrentSlot].layers, UNCHANGED Rack
  PROVE  Box!Take(r)
<1> DEFINE i == CurrentSlot
<1>1. /\ frames \in [Slots -> Frame] /\ i \in Slots
      /\ rphase \in [Readers -> ReaderPhases]
      /\ rhandles \in [Readers -> [Slots -> IPCHandle]]
      /\ got \in [Readers -> GotFrame]
      /\ frameNumber \in Nat /\ attached \in BOOLEAN
  BY SlotOf DEF IInv, TypeOK, SegmentTypeOK, ReaderTypeOK, CurrentSlot
<1>2. i = Box!Place(frameNumber)
  BY DEF CurrentSlot, Slot, Box!Place
<1>3. /\ rphase[r] = "frame" /\ rhandles[r][i].object # 0
      /\ rphase' = [rphase EXCEPT ![r] = "mapping"]
  BY DEF AnswerFrame, Goes
<1>4. frames[i].object = rhandles[r][i].object
  <2>1. CASE rsession[r] = session
    BY <1>1, <1>3, <2>1 DEF IInv, CachedInSession
  <2>2. CASE rsession[r] # session
    BY <1>1, <1>3, <2>2 DEF IInv, ResetUnderReader
  <2> QED
    BY <2>1, <2>2
<1>5. attached \/ frameNumber = 0
  BY <1>1, <1>3
     DEF IInv, CachedInSession, MailboxInv, NothingPostedSinceReset
<1>6. got'[r].number = frameNumber /\ got'[r].object = frames[i].object
  BY <1>1, <1>4 DEF AnswerFrame
<1>7. \A s \in Readers \ {r} : got'[s] = got[s] /\ rphase'[s] = rphase[s]
  BY <1>1, <1>3 DEF AnswerFrame
<1>8. Hand[r] = [number |-> 0, texture |-> 0]
  BY <1>3 DEF Hand
<1>9. Hand' = [Hand EXCEPT ![r] = [number  |-> frameNumber,
                                   texture |-> frames[i].object]]
  BY <1>1, <1>3, <1>6, <1>7 DEF Hand
<1>10. Rack[i].shows /\ Rack[i].texture = frames[i].object
  BY <1>1 DEF Rack
<1>11. UNCHANGED <<attached, frameNumber>>
  BY DEF AnswerFrame, header, headerWords
<1> HIDE DEF i
<1> QED
  BY <1>2, <1>3, <1>4, <1>5, <1>8, <1>9, <1>10, <1>11
     DEF Box!Take, Box!Picture, Box!Nothing

\* The other steps of a reader drop what it holds, or change nothing that the
\* mailbox knows of.
LEMMA ReaderHand ==
  ASSUME IInv, NEW r \in Readers, ReaderNext(r), UNCHANGED feederVars,
         ~AnswerFrame(r) \/ ~frames[CurrentSlot].layers
  PROVE  \/ UNCHANGED Hand
         \/ Hand' = [Hand EXCEPT ![r] = [number |-> 0, texture |-> 0]]
<1>1. rphase \in [Readers -> ReaderPhases] /\ got \in [Readers -> GotFrame]
  BY DEF IInv, TypeOK, ReaderTypeOK
<1>2. \A s \in Readers \ {r} : got'[s] = got[s] /\ rphase'[s] = rphase[s]
  BY ReaderFrame
<1>3. CASE rphase'[r] \notin {"mapping", "reading"}
  BY <1>2, <1>3 DEF Hand
<1>4. CASE rphase'[r] \in {"mapping", "reading"}
  <2>1. /\ rphase[r] \in {"mapping", "reading"}
        /\ got' = got
    BY <1>1, <1>4
       DEF ReaderNext, ReaderProgress, Poll, AnswerNoFeeder, LockForRead,
           UpdateSession, KeepHandles, DuplicateHandles, DuplicateThrows,
           AnswerIncorrectGPU, CheckGPU, AnswerUnusableHandles,
           AnswerFrame, Map, FinishReading, Terminate, ReaderEnds, Goes
  <2> QED
    BY <1>2, <1>4, <2>1 DEF Hand
<1> QED
  BY <1>3, <1>4

\* Every step of the code is a step of the mailbox, or none.
LEMMA BoxStep == IInv /\ MailboxInv /\ [Next]_vars => [Box!Next]_(Box!vars)
<1> SUFFICES ASSUME IInv, MailboxInv, [Next]_vars
             PROVE  Box!Next \/ UNCHANGED <<attached, frameNumber, Rack, Hand>>
  BY DEF Box!vars
<1> USE DEF Box!Next
<1>1. attached \in BOOLEAN /\ attached' \in BOOLEAN
  BY InvStep DEF IInv, TypeOK, SegmentTypeOK
<1>2. CASE FeederNext /\ UNCHANGED readerVars
  <2>1. UNCHANGED Hand
    BY <1>2 DEF Hand, readerVars
  <2>2. CASE UNCHANGED <<attached, frameNumber, frames, session>>
    BY <2>1, <2>2 DEF Rack
  <2>3. CASE /\ ~attached' /\ frameNumber' = 0
             /\ frames' = frames \/ frames' = NoFrames
    BY <1>1, <2>1, <2>3, ResetClears
  <2>4. CASE SubmitFrame
    BY <2>1, <2>4, SubmitPosts
  <2>5. CASE SubmitEmptyFrame
    BY <2>1, <2>5, SubmitEmptyPosts
  <2> QED
    BY <1>2, <2>2, <2>3, <2>4, <2>5, FeederShows
<1>3. ASSUME NEW r \in Readers, ReaderNext(r), UNCHANGED feederVars
      PROVE  Box!Next \/ UNCHANGED <<attached, frameNumber, Rack, Hand>>
  <2>1. CASE AnswerNoFeeder(r) /\ ResetHeader
    <3>1. UNCHANGED Hand
      <4>1. /\ rphase[r] = "waiting" /\ got' = got
            /\ rphase' = [rphase EXCEPT ![r] = "idle"]
            /\ rphase \in [Readers -> ReaderPhases]
        BY <2>1 DEF AnswerNoFeeder, Goes, IInv, TypeOK, ReaderTypeOK
      <4> QED
        BY <4>1 DEF Hand
    <3> QED
      BY <1>1, <2>1, <3>1, ResetClears DEF ResetHeader, ResetWords
  <2>2. CASE UNCHANGED header
    <3>1. UNCHANGED <<attached, frameNumber, Rack>>
      BY <2>2 DEF header, Rack
    <3>2. CASE AnswerFrame(r) /\ frames[CurrentSlot].layers
      BY <3>1, <3>2, AnswerTakes
    <3>3. CASE ~(AnswerFrame(r) /\ frames[CurrentSlot].layers)
      BY <1>3, <3>1, <3>3, ReaderHand DEF Box!Drop, Box!Nothing
    <3> QED
      BY <3>2, <3>3
  <2> QED
    BY <1>3, <2>1, <2>2, ReaderFrame
<1>4. CASE UNCHANGED vars
  BY <1>4 DEF vars, segmentVars, readerVars, Rack, Hand
<1> QED
  BY <1>2, <1>3, <1>4 DEF Next

----------------------------------------------------------------------------
(* The result.                                                             *)

(***************************************************************************)
(* The feeder and its readers implement the mailbox: a frame that          *)
(* MaybeGet() answers is the one that the segment showed at one moment,    *)
(* with the texture published in it, although a writer resets the segment  *)
(* without the mutex and every process may end at any time.                *)
(***************************************************************************)
THEOREM MailboxIsImplemented == Spec => ImplementsMailbox
<1>1. Spec => [](IInv /\ MailboxInv)
  <2>1. Init => IInv /\ MailboxInv
    BY InvInit, MailboxInvInit
  <2>2. IInv /\ MailboxInv /\ [Next]_vars => IInv' /\ MailboxInv'
    BY InvStep, MailboxInvStep
  <2> QED
    BY <2>1, <2>2, PTL DEF Spec
<1> QED
  BY <1>1, BoxInit, BoxStep, PTL DEF Spec, ImplementsMailbox, Box!Spec

=============================================================================
