------------------------------- MODULE Events -------------------------------
(***************************************************************************)
(* The event system: Event, EventReceiver, EventDelay and the counter that *)
(* shuts it down.  Threads emit events and run their handlers on their own *)
(* stack, where a handler may do anything a thread may do: emit, delay,    *)
(* subscribe, remove listeners.  Nothing here takes a lock.                *)
(*                                                                         *)
(* Data left out: the arguments of an event; hooks (an event stopped by    *)
(* its hook is one that was not emitted); EnqueueForContext (an Emit from  *)
(* the base of another thread).                                            *)
(***************************************************************************)
EXTENDS Integers, Sequences, FiniteSets

CONSTANTS
  Threads,     \* the UI thread, CEF's and the capture frame pool's threads
  Receivers,   \* EventReceiver objects
  AllEvents,   \* Event objects
  Nothing,     \* no handler
  MaxCalls,    \* bound: events emitted and EventDelays made
  MaxFrames    \* bound: depth of a stack

ASSUME EventsAssumption ==
  /\ Nothing \notin Receivers \X AllEvents
  /\ {MaxCalls, MaxFrames} \subseteq Nat

\* A receiver connects to an event at most once.
Connections == Receivers \X AllEvents

VARIABLES
  connection,    \* EventConnection: unborn, valid, or invalid (mHandler empty)
  destroyed,     \* events whose Impl is gone
  stack,         \* per thread: the calls of this code in progress
  mDelayDepth,   \* per thread: EventDelays alive
  mEmitterQueue, \* per thread: emitters held back
  mEventCount,   \* GlobalData: events started and not finished, and 1 for it
  mShuttingDown, \* GlobalData: the flag
  shutdownEvent, \* the HANDLE given to Shutdown: none, unset, set or closed
  status,        \* running, fatal or terminated
  calls          \* bound

globals == <<mEventCount, mShuttingDown, shutdownEvent>>
delays == <<mDelayDepth, mEmitterQueue>>
eventVars ==
  <<connection, destroyed, stack, delays, globals, status, calls>>

(***************************************************************************)
(* A frame of a stack: where it is, the receivers that it has still to     *)
(* call (or is about to invalidate), the handler it is in, and the         *)
(* EventDelays that this handler has made.                                 *)
(***************************************************************************)
Frame == [at : {"started", "emitting", "leaving", "last", "flushing",
                "removing"},
          left : SUBSET Connections,
          handler : Connections \cup {Nothing},
          held : Nat]

NewFrame(at, left) ==
  [at |-> at, left |-> left, handler |-> Nothing, held |-> 0]

Top(t) == stack[t][Len(stack[t])]
At(t, at) == status = "running" /\ stack[t] # <<>> /\ Top(t).at = at

Push(t, frame) == stack' = [stack EXCEPT ![t] = Append(@, frame)]
Pop(t) == stack' = [stack EXCEPT ![t] = SubSeq(@, 1, Len(@) - 1)]
Become(t, frame) ==
  stack' = [stack EXCEPT ![t] = [@ EXCEPT ![Len(@)] = frame]]

\* The thread is in code that may call this one: its own, or a handler's.
InUserCode(t) ==
  /\ status = "running"
  /\ stack[t] # <<>> => Top(t).at = "emitting" /\ Top(t).handler # Nothing
  /\ Len(stack[t]) < MaxFrames

Init ==
  /\ connection = [c \in Connections |-> "unborn"]
  /\ destroyed = {}
  /\ stack = [t \in Threads |-> <<>>]
  /\ mDelayDepth = [t \in Threads |-> 0]
  /\ mEmitterQueue = [t \in Threads |-> <<>>]
  /\ mEventCount = 1
  /\ mShuttingDown = FALSE
  /\ shutdownEvent = "none"
  /\ status = "running"
  /\ calls = 0

----------------------------------------------------------------------------
(* Connections.                                                            *)

\* mReceivers keeps the connections that their receiver has removed.
mReceivers(e) ==
  {c \in Connections : c[2] = e /\ connection[c] # "unborn"}

AddEventListener(t, c) ==
  /\ InUserCode(t)
  /\ c[2] \notin destroyed /\ connection[c] = "unborn"
  /\ connection' = [connection EXCEPT ![c] = "valid"]
  /\ UNCHANGED <<destroyed, stack, delays, globals, status, calls>>

\* Invalidate() is a write of mHandler that takes time.
StartRemoving(t, cs) ==
  /\ InUserCode(t)
  /\ Push(t, NewFrame("removing", cs))
  /\ UNCHANGED <<connection, delays, globals, status, calls>>

RemoveEventListener(t) ==
  \E c \in Connections :
    /\ connection[c] = "valid"
    /\ StartRemoving(t, {c})
    /\ UNCHANGED destroyed

RemoveAllEventListeners(t, r) ==
  LET mSenders == {c \in Connections : c[1] = r /\ connection[c] = "valid"}
  IN  /\ mSenders # {}
      /\ StartRemoving(t, mSenders)
      /\ UNCHANGED destroyed

\* ~Impl(): the owner of an event destroys it.
DestroyEvent(t, e) ==
  /\ e \notin destroyed
  /\ StartRemoving(t, mReceivers(e))
  /\ destroyed' = destroyed \cup {e}

Invalidate(t) ==
  /\ At(t, "removing")
  /\ connection' = [c \in Connections |->
                      IF c \in Top(t).left THEN "invalid" ELSE connection[c]]
  /\ Pop(t)
  /\ UNCHANGED <<destroyed, delays, globals, status, calls>>

\* Some thread is overwriting mHandler of c.
BeingInvalidated(c) ==
  \E t \in Threads : At(t, "removing") /\ c \in Top(t).left

----------------------------------------------------------------------------
(* Emitting.                                                               *)

\* Mutant: StartEvent() does not count the event.
Emit_Uncounted(t, e) ==
  /\ InUserCode(t)
  /\ e \notin destroyed /\ calls < MaxCalls
  /\ Push(t, NewFrame("started", mReceivers(e)))
  /\ calls' = calls + 1
  /\ UNCHANGED <<connection, destroyed, delays, globals, status>>

(***************************************************************************)
(* Emit() copies the receivers and calls StartEvent(), which counts first  *)
(* and looks at the flag afterwards.                                       *)
(***************************************************************************)
Emit(t, e) ==
  /\ InUserCode(t)
  /\ e \notin destroyed /\ calls < MaxCalls
  /\ mEventCount' = mEventCount + 1
  /\ Push(t, NewFrame("started", mReceivers(e)))
  /\ calls' = calls + 1
  /\ UNCHANGED <<connection, destroyed, delays, mShuttingDown, shutdownEvent,
                 status>>

\* Mutant: StartEvent() does not take back the count of a refused event.
Refuse_KeepsCount(t) ==
  /\ At(t, "started") /\ mShuttingDown
  /\ Pop(t)
  /\ UNCHANGED <<connection, destroyed, delays, globals, status, calls>>

\* StartEvent() reads the flag: an event that is late is taken back.
Refuse(t) ==
  /\ At(t, "started") /\ mShuttingDown
  /\ Become(t, NewFrame("leaving", {}))
  /\ UNCHANGED <<connection, destroyed, delays, globals, status, calls>>

\* Mutant: EmitOrEnqueue() finishes the event also when it queues it.
Enqueue_Finishes(t) ==
  /\ At(t, "started") /\ ~mShuttingDown
  /\ mDelayDepth[t] > 0
  /\ mEmitterQueue' = [mEmitterQueue EXCEPT ![t] = Append(@, Top(t).left)]
  /\ Become(t, NewFrame("leaving", {}))
  /\ UNCHANGED <<connection, destroyed, mDelayDepth, globals, status, calls>>

\* An EventDelay is alive in this thread: the emitter is queued, and counted.
Enqueue(t) ==
  /\ At(t, "started") /\ ~mShuttingDown
  /\ mDelayDepth[t] > 0
  /\ mEmitterQueue' = [mEmitterQueue EXCEPT ![t] = Append(@, Top(t).left)]
  /\ Pop(t)
  /\ UNCHANGED <<connection, destroyed, mDelayDepth, globals, status, calls>>

StartEmitting(t) ==
  /\ At(t, "started") /\ ~mShuttingDown
  /\ mDelayDepth[t] = 0
  /\ Become(t, NewFrame("emitting", Top(t).left))
  /\ UNCHANGED <<connection, destroyed, delays, globals, status, calls>>

(***************************************************************************)
(* Call() copies mHandler and calls the copy.  A copy that races with an   *)
(* Invalidate() yields the handler, nothing, or a torn std::function.      *)
(***************************************************************************)
Call(t) ==
  /\ At(t, "emitting") /\ Top(t).handler = Nothing
  /\ \E c \in Top(t).left :
       \/ /\ connection[c] = "valid"
          /\ Become(t, [Top(t) EXCEPT !.left = @ \ {c}, !.handler = c])
          /\ UNCHANGED status
       \/ /\ connection[c] = "invalid" \/ BeingInvalidated(c)
          /\ Become(t, [Top(t) EXCEPT !.left = @ \ {c}])
          /\ UNCHANGED status
       \/ /\ BeingInvalidated(c)
          /\ status' = "terminated"
          /\ UNCHANGED stack
  /\ UNCHANGED <<connection, destroyed, delays, globals, calls>>

\* The EventDelays of a coroutine that is suspended outlive the call.
HandlerReturns(t) ==
  /\ At(t, "emitting") /\ Top(t).handler # Nothing
  /\ Become(t, NewFrame("emitting", Top(t).left))
  /\ UNCHANGED <<connection, destroyed, delays, globals, status, calls>>

\* The handlers of Call() never see it: EventHandler::operator() is noexcept.
HandlerThrows(t) ==
  /\ At(t, "emitting") /\ Top(t).handler # Nothing
  /\ status' = "terminated"
  /\ UNCHANGED <<connection, destroyed, stack, delays, globals, calls>>

(***************************************************************************)
(* Sub1(): an event that is over, one that was refused, and Shutdown()     *)
(* each take 1 from the counter; who takes the last one signals.           *)
(***************************************************************************)
Sub1(t) ==
  /\ \/ At(t, "leaving")
     \/ At(t, "emitting") /\ Top(t).handler = Nothing /\ Top(t).left = {}
  /\ mEventCount' = mEventCount - 1
  /\ IF mEventCount = 1 THEN Become(t, NewFrame("last", {})) ELSE Pop(t)
  /\ UNCHANGED <<connection, destroyed, delays, mShuttingDown, shutdownEvent,
                 status, calls>>

\* SetEvent() on the handle, which is not forgotten when it is closed.
Signal(t) ==
  /\ At(t, "last")
  /\ IF mShuttingDown
       THEN /\ shutdownEvent' = IF shutdownEvent = "closed"
                                  THEN "closed" ELSE "set"
            /\ Pop(t)
            /\ UNCHANGED status
       ELSE /\ status' = "fatal"
            /\ UNCHANGED <<stack, shutdownEvent>>
  /\ UNCHANGED <<connection, destroyed, delays, mEventCount, mShuttingDown,
                 calls>>

----------------------------------------------------------------------------
(* EventDelay.                                                             *)

StartDelay(t) ==
  /\ InUserCode(t)
  /\ calls < MaxCalls
  /\ calls' = calls + 1
  /\ mDelayDepth' = [mDelayDepth EXCEPT ![t] = @ + 1]
  /\ IF stack[t] = <<>>
       THEN UNCHANGED stack
       ELSE Become(t, [Top(t) EXCEPT !.held = @ + 1])
  /\ UNCHANGED <<connection, destroyed, mEmitterQueue, globals, status>>

\* Mutant: the depth is tested before it is decremented, and nothing flushed.
EndDelay_Unflushed(t) ==
  /\ InUserCode(t)
  /\ mDelayDepth[t] > 0
  /\ stack[t] # <<>> => Top(t).held > 0
  /\ mDelayDepth' = [mDelayDepth EXCEPT ![t] = @ - 1]
  /\ IF stack[t] = <<>>
       THEN UNCHANGED stack
       ELSE Become(t, [Top(t) EXCEPT !.held = @ - 1])
  /\ UNCHANGED <<connection, destroyed, mEmitterQueue, globals, status, calls>>

(***************************************************************************)
(* ~EventDelay(): the last one of the thread flushes the queue.  A handler *)
(* ends its own, the base of the thread those of suspended coroutines too. *)
(***************************************************************************)
EndDelay(t) ==
  /\ InUserCode(t)
  /\ mDelayDepth[t] > 0
  /\ stack[t] # <<>> => Top(t).held > 0
  /\ mDelayDepth' = [mDelayDepth EXCEPT ![t] = @ - 1]
  /\ LET below == IF stack[t] = <<>>
                    THEN <<>>
                    ELSE [stack[t] EXCEPT ![Len(stack[t])].held = @ - 1]
     IN  stack' = [stack EXCEPT ![t] =
                     IF mDelayDepth[t] = 1
                       THEN Append(below, NewFrame("flushing", {}))
                       ELSE below]
  /\ UNCHANGED <<connection, destroyed, mEmitterQueue, globals, status, calls>>

\* Flush(): runs what is queued, whatever mDelayDepth has become meanwhile.
FlushNext(t) ==
  /\ At(t, "flushing")
  /\ mEmitterQueue[t] # <<>>
  /\ Push(t, NewFrame("emitting", Head(mEmitterQueue[t])))
  /\ mEmitterQueue' = [mEmitterQueue EXCEPT ![t] = Tail(@)]
  /\ UNCHANGED <<connection, destroyed, mDelayDepth, globals, status, calls>>

\* Mutant: Flush() may leave after one emitter.
FlushDone_Early(t) ==
  /\ At(t, "flushing")
  /\ Pop(t)
  /\ UNCHANGED <<connection, destroyed, delays, globals, status, calls>>

FlushDone(t) ==
  /\ At(t, "flushing")
  /\ mEmitterQueue[t] = <<>>
  /\ Pop(t)
  /\ UNCHANGED <<connection, destroyed, delays, globals, status, calls>>

----------------------------------------------------------------------------
(* MainWindow::DisposeAsync() shuts the event system down.                 *)

\* Mutant: Shutdown() takes its count, but has not set the flag.
Shutdown_Unflagged(t) ==
  /\ InUserCode(t)
  /\ shutdownEvent = "none"
  /\ shutdownEvent' = "unset"
  /\ Push(t, NewFrame("leaving", {}))
  /\ UNCHANGED <<connection, destroyed, delays, mEventCount, mShuttingDown,
                 status, calls>>

\* It keeps the event, sets the flag, and then calls Sub1() for its own count.
Shutdown(t) ==
  /\ InUserCode(t)
  /\ shutdownEvent = "none"
  /\ shutdownEvent' = "unset"
  /\ mShuttingDown' = TRUE
  /\ Push(t, NewFrame("leaving", {}))
  /\ UNCHANGED <<connection, destroyed, delays, mEventCount, status, calls>>

\* The wait is over, and the handle is closed.
ResumeOnSignal ==
  /\ status = "running"
  /\ shutdownEvent = "set"
  /\ shutdownEvent' = "closed"
  /\ UNCHANGED <<connection, destroyed, stack, delays, mEventCount,
                 mShuttingDown, status, calls>>

----------------------------------------------------------------------------

\* What a thread in this code does next, and how its delays end.
Progress(t) ==
  \/ Invalidate(t)
  \/ Refuse(t) \/ Enqueue(t) \/ StartEmitting(t)
  \/ Call(t) \/ HandlerReturns(t)
  \/ Sub1(t) \/ Signal(t)
  \/ FlushNext(t) \/ FlushDone(t)

ThreadNext(t) ==
  \/ Progress(t)
  \/ \E c \in Connections : AddEventListener(t, c)
  \/ RemoveEventListener(t)
  \/ \E r \in Receivers : RemoveAllEventListeners(t, r)
  \/ \E e \in AllEvents : DestroyEvent(t, e) \/ Emit(t, e)
  \/ HandlerThrows(t)
  \/ StartDelay(t) \/ EndDelay(t)
  \/ Shutdown(t)

Next == (\E t \in Threads : ThreadNext(t)) \/ ResumeOnSignal

Spec == Init /\ [][Next]_eventVars

(***************************************************************************)
(* Handlers return, threads go on, and the coroutines that hold an         *)
(* EventDelay are resumed.  Nobody has to emit or to shut down.            *)
(***************************************************************************)
Fairness ==
  /\ \A t \in Threads : WF_eventVars(Progress(t)) /\ WF_eventVars(EndDelay(t))
  /\ WF_eventVars(ResumeOnSignal)

FairSpec == Spec /\ Fairness

----------------------------------------------------------------------------

\* Every variable has its type.
TypeOK ==
  /\ connection \in [Connections -> {"unborn", "valid", "invalid"}]
  /\ destroyed \subseteq AllEvents
  /\ stack \in [Threads -> Seq(Frame)]
  /\ mDelayDepth \in [Threads -> Nat]
  /\ mEmitterQueue \in [Threads -> Seq(SUBSET Connections)]
  /\ mEventCount \in Nat
  /\ mShuttingDown \in BOOLEAN
  /\ shutdownEvent \in {"none", "unset", "set", "closed"}
  /\ status \in {"running", "fatal", "terminated"}
  /\ calls \in 0..MaxCalls

\* Frames that own 1 of mEventCount: of an event, or of Shutdown().
CountedAt == {"started", "emitting", "leaving"}
CountedFrames ==
  UNION {{t} \X {i \in DOMAIN stack[t] : stack[t][i].at \in CountedAt} :
         t \in Threads}

\* Queued emitters own 1 of it too.
QueuedEmitters == UNION {{t} \X (DOMAIN mEmitterQueue[t]) : t \in Threads}

(***************************************************************************)
(* mEventCount is what it has to be for Sub1() to be right: 1 for every    *)
(* event that is being handled or is queued, in any thread, and 1 until    *)
(* Shutdown() takes its own.                                               *)
(***************************************************************************)
CountIsExact ==
  mEventCount = Cardinality(CountedFrames) + Cardinality(QueuedEmitters)
                  + (IF mShuttingDown THEN 0 ELSE 1)

\* No handler runs and none is going to, in any thread.
Quiet ==
  \A t \in Threads :
    /\ mEmitterQueue[t] = <<>>
    /\ \A i \in DOMAIN stack[t] : stack[t][i].at # "emitting"

(***************************************************************************)
(* When DisposeAsync() goes on to take the program apart, no handler is    *)
(* running in any thread and none will, however the counter was reached.   *)
(***************************************************************************)
QuietOnceSignalled == shutdownEvent \in {"set", "closed"} => Quiet

(***************************************************************************)
(* A queued event is never stranded: an EventDelay that will flush it is   *)
(* alive, or Flush() is running below, also with delays that handlers make *)
(* and leave to suspended coroutines.                                      *)
(***************************************************************************)
NothingStranded ==
  \A t \in Threads :
    mEmitterQueue[t] # <<>> =>
      \/ mDelayDepth[t] > 0
      \/ \E i \in DOMAIN stack[t] : stack[t][i].at = "flushing"

(***************************************************************************)
(* "Event count = 0, but not shutting down" is never reported.             *)
(***************************************************************************)
NeverFatal == status # "fatal"

(***************************************************************************)
(* The inductive invariant: nobody sees the counter reach 0 (the thread is *)
(* then at "last") but when the flag is set and everything is quiet, which *)
(* it stays, because StartEvent() counts before it looks at the flag.      *)
(***************************************************************************)
FlagOfEvent == mShuttingDown <=> shutdownEvent # "none"

LastIsQuiet ==
  (\E t \in Threads : \E i \in DOMAIN stack[t] : stack[t][i].at = "last") =>
    mShuttingDown /\ Quiet

IInv ==
  /\ TypeOK
  /\ IsFiniteSet(CountedFrames) /\ IsFiniteSet(QueuedEmitters)
  /\ CountIsExact
  /\ FlagOfEvent /\ LastIsQuiet /\ QuietOnceSignalled
  /\ NothingStranded
  /\ NeverFatal

(***************************************************************************)
(* Shutdown() is answered: DisposeAsync() does not wait for ever.          *)
(***************************************************************************)
ShutdownCompletes ==
  mShuttingDown ~> shutdownEvent = "closed" \/ status # "running"

(***************************************************************************)
(* Queued events are run in the end, however the delays are nested.        *)
(***************************************************************************)
QueuesDrain ==
  \A t \in Threads :
    mEmitterQueue[t] # <<>> ~> mEmitterQueue[t] = <<>> \/ status # "running"

----------------------------------------------------------------------------
(* What the code's comments say, and the code does not do.                 *)

InHandler(t) == {i \in DOMAIN stack[t] : stack[t][i].handler # Nothing}

(***************************************************************************)
(* When the removal of listeners returns, no other thread is in a handler  *)
(* that it removed: "You MUST call RemoveAllEventListeners() [...]         *)
(* otherwise other threads may invoke an event handler while your object   *)
(* is partially destructed".                                               *)
(***************************************************************************)
RemovedMeansQuiet ==
  [][\A t \in Threads : Invalidate(t) =>
       \A u \in Threads \ {t} : \A i \in InHandler(u) :
         stack[u][i].handler \notin Top(t).left]_eventVars
=============================================================================
