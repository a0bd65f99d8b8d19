---------------------------- MODULE SHMSegment ----------------------------
(***************************************************************************)
(* The shared memory segment through which the VisorVR process (the        *)
(* "feeder") shows its panels to the OpenXR layer, the SteamVR overlay and *)
(* the viewer (the "readers"): lib/SHM.cpp.                                *)
(*                                                                         *)
(* The segment is one SharedData header protected by one named mutex.  A   *)
(* frame carries the values of a texture handle and a fence handle of the  *)
(* feeder's process; readers duplicate them out of that process.  The two  *)
(* are created, published and closed together, so one handle and one       *)
(* object stand here for the pair.  The adapter LUID is written and reset  *)
(* together with FEEDER_ATTACHED, so `attached' stands for both.           *)
(***************************************************************************)
EXTENDS Integers, Sequences

CONSTANTS
  Readers,          \* reader processes; a restarted one is another element
  Handles,          \* handle values of the feeder's process
  SwapChainLength,  \* Config::SHMSwapchainLength
  Feeder,           \* the mutex owner that is not a reader
  Nobody,           \* the mutex is free
  NoHandle          \* nullptr

ASSUME SegmentAssumption ==
  /\ SwapChainLength \in Nat \ {0}
  /\ Feeder \notin Readers
  /\ Nobody \notin Readers \cup {Feeder}
  /\ NoHandle \notin Handles

VARIABLES
  session,      \* mSessionID; 0 in a segment nobody initialised yet
  attached,     \* FEEDER_ATTACHED in mFlags, and mGPULUID is the feeder's
  feederPID,    \* mFeederProcessID
  frameNumber,  \* mFrameNumber
  frames,       \* mFrames
  owner,        \* who holds the named mutex
  abandoned,    \* its last owner died holding it: next wait: WAIT_ABANDONED
  sessions,     \* how many session IDs CreateSessionID() has returned
  process,      \* process ID of the latest VisorVR process
  running,      \* whether that process is alive
  table         \* its handle table: object behind a handle, 0: not open

headerWords == <<session, attached, feederPID, frameNumber>>
header      == <<session, attached, feederPID, frameNumber, frames, sessions>>
mutex       == <<owner, abandoned>>
processVars == <<process, running, table>>
segmentVars == <<session, attached, feederPID, frameNumber, frames, owner,
                 abandoned, sessions, process, running, table>>

Slots   == 0 .. SwapChainLength - 1
Slot(n) == n % SwapChainLength

(***************************************************************************)
(* SharedData::Frame.  `object' is not in memory: it is the object that    *)
(* the handle meant when it was published.  `layers' is mLayerCount > 0.   *)
(***************************************************************************)
Frame == [handle : Handles \cup {NoHandle}, object : Nat,
          fence : Nat, layers : BOOLEAN]

NoFrame == [handle |-> NoHandle, object |-> 0, fence |-> 0, layers |-> FALSE]
NoFrames == [i \in Slots |-> NoFrame]

SegmentTypeOK ==
  /\ session \in Nat
  /\ attached \in BOOLEAN
  /\ feederPID \in Nat
  /\ frameNumber \in Nat
  /\ frames \in [Slots -> Frame]
  /\ owner \in Readers \cup {Feeder, Nobody}
  /\ abandoned \in BOOLEAN
  /\ sessions \in Nat
  /\ process \in Nat
  /\ running \in BOOLEAN
  /\ table \in [Handles -> Nat]

\* CreateFileMapping returns zeroed memory: no magic, so no feeder.
SegmentInit ==
  /\ session = 0
  /\ attached = FALSE
  /\ feederPID = 0
  /\ frameNumber = 0
  /\ frames = NoFrames
  /\ owner = Nobody
  /\ abandoned = FALSE
  /\ sessions = 0
  /\ process = 0
  /\ running = FALSE
  /\ table = [h \in Handles |-> 0]

----------------------------------------------------------------------------

\* Mutant: numbered so that the first frame is frame 0.
ResetWords_FromMinusOne ==
  /\ session' = sessions + 1
  /\ sessions' = sessions + 1
  /\ attached' = FALSE
  /\ feederPID' = 0
  /\ frameNumber' = -1

(***************************************************************************)
(* *mHeader = SharedData {}: the member initialisers create a new session  *)
(* ID.  The words before mFrames, then mFrames, in address order.          *)
(***************************************************************************)
ResetWords ==
  /\ session' = sessions + 1
  /\ sessions' = sessions + 1
  /\ attached' = FALSE
  /\ feederPID' = 0
  /\ frameNumber' = 0

ResetHeader == ResetWords /\ frames' = NoFrames

\* After a wait that returned WAIT_ABANDONED the header is reset.
RecoverIfAbandoned ==
  /\ abandoned' = FALSE
  /\ \/ abandoned /\ ResetHeader
     \/ ~abandoned /\ UNCHANGED header

\* Impl::lock()
Lock(who) ==
  /\ owner = Nobody
  /\ owner' = who
  /\ RecoverIfAbandoned

\* Impl::unlock()
Unlock(who) ==
  /\ owner = who
  /\ owner' = Nobody
  /\ UNCHANGED abandoned

\* The kernel abandons the mutex of a process that ends.
ReleaseOnDeath(who) ==
  /\ owner' = IF owner = who THEN Nobody ELSE owner
  /\ abandoned' = (abandoned \/ owner = who)

=============================================================================
