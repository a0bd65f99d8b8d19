----------------------------- MODULE SignalWait -----------------------------
(***************************************************************************)
(* resume_on_any_signal(): one coroutine waits for several handles, each   *)
(* through a SignalAwaitable (a ThreadPoolAwaitable) of its own, and the   *)
(* first of them to end, by its signal, its timeout or the caller's stop   *)
(* token, cancels the others through a stop_source that is also the gate   *)
(* to the result.                                                          *)
(*                                                                         *)
(* An awaitable lives in the frame of a coroutine and is destroyed as soon *)
(* as that coroutine is resumed.  Three threads work on it until then: the *)
(* starter, in await_suspend(); the thread pool, in the callback of the    *)
(* wait; and the thread that runs the stop callbacks, in Cancel().         *)
(*                                                                         *)
(* With one wait and no signal this is resume_on_signal() and              *)
(* resume_after(): TimerAwaitable differs from SignalAwaitable only in the *)
(* kind of thread pool object.                                             *)
(***************************************************************************)
EXTENDS Integers

CONSTANT WaitCount  \* how many handles are waited for

ASSUME SignalWaitAssumption == WaitCount \in Nat \ {0}

Waits == 1 .. WaitCount

VARIABLES
  state,      \* mState of each awaitable
  result,     \* mResult of each awaitable
  object,     \* mTPSignal and what the thread pool has been told about it
  callback,   \* mStopCallback: "none", "set", or "running"
  live,       \* awaitables that are constructed and not destroyed
  pc,         \* the next step of each actor
  at,         \* the wait that the actor works on
  from,       \* From of the ResumeFrom() that the actor is in
  outcome,    \* what the thread pool tells the callback
  signalled,  \* handles that are signalled
  winner,     \* whose request_stop() was the first
  out,        \* ret, that the coroutines of the waits write to
  done,       \* waits whose coroutines have ended
  fatal,      \* the assertion that ended the program
  raced       \* history: Cancel() ran into InitThreadPool() of a wait

awaitableVars == <<state, result, object, callback, live>>
threadVars == <<pc, at, from>>
resultVars == <<winner, out, done>>
vars == <<awaitableVars, threadVars, resultVars, outcome, signalled, fatal,
          raced>>

(* The actors: the thread of wait w's callback is w itself.  Canceler is   *)
(* the thread that runs the stop callbacks, whichever that is.             *)
Starter == 0
Canceler == -1
Actors == Waits \cup {Starter, Canceler}

Nobody == 0
External == -1

(* An index among the handles, or an error. *)
Index(w) == [index |-> w, error |-> "none"]
Unexpected(error) == [index |-> 0, error |-> error]

States == {"Init", "StartingWait", "Waiting", "HaveResult",
           "InCallbackBeforeWaiting", "Resuming", "Resumed", "Canceling",
           "CancelingBeforeDispatch"}
Results == {"Pending", "Success", "Timeout", "Canceled"}

Resumption == {"resuming", "reset", "clear", "drain", "resume"}
Suspension == {"suspend", "create", "arm", "wait", "spin"}
Callback == {"fired", "early", "have"}
Canceling == {"cancelClear", "cancelDrain", "cancelStarting",
              "cancelWaiting"}
Steps == Resumption \cup Suspension \cup Callback \cup Canceling
           \cup {"idle", "start", "next", "stop", "stopping", "write", "join",
                 "returned", "refused", "gone"}

(* Steps in which an actor uses the awaitable that it works on, and those  *)
(* for which WaitForThreadpoolWaitCallbacks() waits.                       *)
Uses == Resumption \cup Suspension \cup Callback \cup Canceling
InPoolCallback(w) == pc[w] \in Callback

Init ==
  /\ state = [w \in Waits |-> "Init"]
  /\ result = [w \in Waits |-> "Pending"]
  /\ object = [w \in Waits |-> "none"]
  /\ callback = [w \in Waits |-> "none"]
  /\ live = {}
  /\ pc = [a \in Actors |-> IF a = Starter THEN "start" ELSE "idle"]
  /\ at = [a \in Actors |-> IF a \in Waits THEN a ELSE 1]
  /\ from = [a \in Actors |-> "Init"]
  /\ outcome = [w \in Waits |-> "Pending"]
  /\ signalled = {}
  /\ winner = Nobody
  /\ out = Unexpected("Canceled")
  /\ done = {}
  /\ fatal = "none"
  /\ raced = {}

Goto(a, step) == pc' = [pc EXCEPT ![a] = step]

(* The starter leaves the wait it was at, for the next one or to join.     *)
LeaveFor(w) ==
  IF w = WaitCount
    THEN Goto(Starter, "join") /\ UNCHANGED at
    ELSE Goto(Starter, "start") /\ at' = [at EXCEPT ![Starter] = w + 1]

(* The actor's thread is back from what it did for its wait.               *)
Return(a) ==
  IF a = Starter THEN LeaveFor(at[a]) ELSE Goto(a, "gone") /\ UNCHANGED at

Fatal(assertion) ==
  /\ fatal' = assertion
  /\ UNCHANGED <<awaitableVars, threadVars, resultVars>>

BeginResume(a, state0) ==
  /\ Goto(a, "resuming")
  /\ from' = [from EXCEPT ![a] = state0]
  /\ UNCHANGED at

----------------------------------------------------------------------------
(* The starter: the constructor and await_suspend(). *)

(* The caller's stop came before the call. *)
AlreadyStopped ==
  /\ pc[Starter] = "start" /\ at[Starter] = 1
  /\ winner = External
  /\ Goto(Starter, "refused")
  /\ UNCHANGED <<awaitableVars, at, from, outcome, signalled, resultVars,
                 fatal, raced>>

\* Mutant: a stop callback that comes after the stop is not run.
Construct_StopMissed ==
  /\ pc[Starter] = "start"
  /\ live' = live \cup {at[Starter]}
  /\ callback' = [callback EXCEPT ![at[Starter]] = "set"]
  /\ Goto(Starter, "suspend")
  /\ UNCHANGED <<state, result, object, at, from, outcome, signalled,
                 resultVars, fatal, raced>>

(* The constructor; a stop_callback that comes after the stop runs at once. *)
Construct ==
  /\ pc[Starter] = "start"
  /\ LET w == at[Starter] IN
       /\ live' = live \cup {w}
       /\ IF winner = Nobody
            THEN /\ callback' = [callback EXCEPT ![w] = "set"]
                 /\ UNCHANGED state
            ELSE /\ state' = [state EXCEPT ![w] = "CancelingBeforeDispatch"]
                 /\ UNCHANGED callback
  /\ Goto(Starter, "suspend")
  /\ UNCHANGED <<result, object, at, from, outcome, signalled, resultVars,
                 fatal, raced>>

StartWait ==
  /\ pc[Starter] = "suspend"
  /\ LET w == at[Starter] IN
       IF state[w] = "Init"
         THEN /\ state' = [state EXCEPT ![w] = "StartingWait"]
              /\ Goto(Starter, "create")
              /\ UNCHANGED <<result, object, callback, live, at, from,
                             resultVars, fatal>>
         ELSE IF state[w] = "CancelingBeforeDispatch"
         THEN /\ result' = [result EXCEPT ![w] = "Canceled"]
              /\ BeginResume(Starter, "CancelingBeforeDispatch")
              /\ UNCHANGED <<state, object, callback, live, resultVars, fatal>>
         ELSE Fatal("await_suspend")
  /\ UNCHANGED <<outcome, signalled, raced>>

(* InitThreadPool(), in two steps, as Cancel() may come between them. *)
CreateThreadpoolWait ==
  /\ pc[Starter] = "create"
  /\ object' = [object EXCEPT ![at[Starter]] = "created"]
  /\ Goto(Starter, "arm")
  /\ UNCHANGED <<state, result, callback, live, at, from, outcome, signalled,
                 resultVars, fatal, raced>>

SetThreadpoolWait ==
  /\ pc[Starter] = "arm"
  /\ object' = [object EXCEPT ![at[Starter]] = "armed"]
  /\ Goto(Starter, "wait")
  /\ UNCHANGED <<state, result, callback, live, at, from, outcome, signalled,
                 resultVars, fatal, raced>>

(* The end of await_suspend(): the wait is on, unless the callback or a    *)
(* cancellation has been faster.                                           *)
BeginWaiting ==
  /\ pc[Starter] = "wait"
  /\ LET w == at[Starter] IN
       \/ /\ state[w] = "StartingWait"
          /\ state' = [state EXCEPT ![w] = "Waiting"]
          /\ LeaveFor(w)
          /\ UNCHANGED <<result, object, callback, live, from, resultVars,
                         fatal>>
       \/ /\ state[w] = "InCallbackBeforeWaiting"
          /\ Goto(Starter, "spin")
          /\ UNCHANGED <<awaitableVars, at, from, resultVars, fatal>>
       \/ /\ state[w] = "HaveResult"
          /\ BeginResume(Starter, "HaveResult")
          /\ UNCHANGED <<awaitableVars, resultVars, fatal>>
       \/ /\ state[w] = "Canceling"
          /\ result' = [result EXCEPT ![w] = "Canceled"]
          /\ BeginResume(Starter, "Canceling")
          /\ UNCHANGED <<state, object, callback, live, resultVars, fatal>>
       \/ /\ state[w] \notin {"StartingWait", "InCallbackBeforeWaiting",
                              "HaveResult", "Canceling"}
          /\ Fatal("await_suspend")
  /\ UNCHANGED <<outcome, signalled, raced>>

WaitForCallback ==
  /\ pc[Starter] = "spin"
  /\ LET w == at[Starter] IN
       /\ state[w] # "InCallbackBeforeWaiting"
       /\ IF state[w] = "HaveResult"
            THEN /\ BeginResume(Starter, "HaveResult")
                 /\ UNCHANGED <<awaitableVars, resultVars, fatal>>
            ELSE Fatal("await_suspend")
  /\ UNCHANGED <<outcome, signalled, raced>>

----------------------------------------------------------------------------
(* The environment: the handles and the thread pool. *)

Signal(w) ==
  /\ w \notin signalled
  /\ signalled' = signalled \cup {w}
  /\ UNCHANGED <<awaitableVars, threadVars, resultVars, outcome, fatal, raced>>

(* A wait fires once for each SetThreadpoolWait(), for its handle or, if it *)
(* has a timeout, without it.                                              *)
ThreadPoolCallback(w) ==
  /\ object[w] = "armed"
  /\ \E r \in {"Success", "Timeout"} :
       /\ r = "Success" => w \in signalled
       /\ outcome' = [outcome EXCEPT ![w] = r]
  /\ object' = [object EXCEPT ![w] = "created"]
  /\ Goto(w, "fired")
  /\ UNCHANGED <<state, result, callback, live, at, from, signalled,
                 resultVars, fatal, raced>>

----------------------------------------------------------------------------
(* The callback: OnResult(). *)

OnResult(w) ==
  /\ pc[w] = "fired"
  /\ \/ /\ state[w] = "StartingWait"
        /\ state' = [state EXCEPT ![w] = "InCallbackBeforeWaiting"]
        /\ Goto(w, "early")
        /\ UNCHANGED <<result, object, callback, live, at, from, resultVars,
                       fatal>>
     \/ /\ state[w] = "Waiting"
        /\ state' = [state EXCEPT ![w] = "HaveResult"]
        /\ Goto(w, "have")
        /\ UNCHANGED <<result, object, callback, live, at, from, resultVars,
                       fatal>>
     \/ /\ state[w] = "Canceling"
        /\ Goto(w, "gone")
        /\ UNCHANGED <<awaitableVars, at, from, resultVars, fatal>>
     \/ /\ state[w] \notin {"StartingWait", "Waiting", "Canceling"}
        /\ Fatal("unexpectedState")
  /\ UNCHANGED <<outcome, signalled, raced>>

(* For await_suspend(), which waits for this if it gets here first. *)
LeaveResult(w) ==
  /\ pc[w] = "early"
  /\ result' = [result EXCEPT ![w] = outcome[w]]
  /\ state' = [state EXCEPT ![w] = "HaveResult"]
  /\ Goto(w, "gone")
  /\ UNCHANGED <<object, callback, live, at, from, outcome, signalled,
                 resultVars, fatal, raced>>

(* DisassociateCurrentThreadFromCallback(): a Cancel() that waits for the  *)
(* callback goes on, which ResumeFrom() is about to wait for.              *)
TakeResult(w) ==
  /\ pc[w] = "have"
  /\ result' = [result EXCEPT ![w] = outcome[w]]
  /\ BeginResume(w, "HaveResult")
  /\ UNCHANGED <<state, object, callback, live, outcome, signalled, resultVars,
                 fatal, raced>>

----------------------------------------------------------------------------
(* ResumeFrom(), by any actor, and what the resumed coroutine does. *)

Resuming(a) ==
  /\ pc[a] = "resuming"
  /\ IF result[at[a]] # "Pending" /\ state[at[a]] = from[a]
       THEN /\ state' = [state EXCEPT ![at[a]] = "Resuming"]
            /\ Goto(a, "reset")
            /\ UNCHANGED <<result, object, callback, live, at, from,
                           resultVars, fatal>>
       ELSE Fatal("ResumeFrom")
  /\ UNCHANGED <<outcome, signalled, raced>>

\* Mutant: a Cancel() that is running is not waited for.
ResetStopCallback_NoWait(a) ==
  /\ pc[a] = "reset"
  /\ callback' = [callback EXCEPT ![at[a]] = "none"]
  /\ Goto(a, IF from[a] = "Canceling" THEN "clear" ELSE "resume")
  /\ UNCHANGED <<state, result, object, live, at, from, outcome, signalled,
                 resultVars, fatal, raced>>

(* mStopCallback.reset() waits for a Cancel() that is running, unless it   *)
(* is this Cancel() that resumes.                                          *)
ResetStopCallback(a) ==
  /\ pc[a] = "reset"
  /\ a = Canceler \/ callback[at[a]] # "running"
  /\ callback' = [callback EXCEPT ![at[a]] = "none"]
  /\ Goto(a, IF from[a] = "Canceling" THEN "clear" ELSE "resume")
  /\ UNCHANGED <<state, result, object, live, at, from, outcome, signalled,
                 resultVars, fatal, raced>>

(* CleanupThreadPool<Canceling>(): once more CancelThreadPool(). *)
ClearWait(a) ==
  /\ pc[a] = "clear"
  /\ object' = [object EXCEPT ![at[a]] = "created"]
  /\ Goto(a, "drain")
  /\ UNCHANGED <<state, result, callback, live, at, from, outcome, signalled,
                 resultVars, fatal, raced>>

DrainCallbacks(a) ==
  /\ pc[a] = "drain"
  /\ ~InPoolCallback(at[a])
  /\ Goto(a, "resume")
  /\ UNCHANGED <<awaitableVars, at, from, outcome, signalled, resultVars,
                 fatal, raced>>

(* The coroutine goes on in the thread that resumes it, or, later, in its  *)
(* own; when Cancel() resumes it, it is not the first one to ask for the   *)
(* stop, and just ends.                                                    *)
Resume(a) ==
  /\ pc[a] = "resume"
  /\ LET w == at[a] IN
       /\ object' = [object EXCEPT ![w] = "closed"]
       /\ state' = [state EXCEPT ![w] = "Resumed"]
       /\ live' = live \ {w}
       /\ IF a = Canceler
            THEN done' = done \cup {w} /\ Goto(a, "next")
            ELSE Goto(a, "stop") /\ UNCHANGED done
  /\ UNCHANGED <<result, callback, at, from, outcome, signalled, winner, out,
                 fatal, raced>>

\* Mutant: every wait that ends writes the result, not only the first one.
RequestStop_EachWrites(a) ==
  /\ pc[a] = "stop"
  /\ IF winner = Nobody
       THEN /\ winner' = at[a]
            /\ pc' = [pc EXCEPT ![a] = "stopping", ![Canceler] = "next"]
       ELSE Goto(a, "write") /\ UNCHANGED winner
  /\ UNCHANGED <<awaitableVars, at, from, outcome, signalled, out, done,
                 fatal, raced>>

(* myStopper.request_stop() runs the stop callbacks before it returns. *)
RequestStop(a) ==
  /\ pc[a] = "stop"
  /\ IF winner = Nobody
       THEN /\ winner' = at[a]
            /\ pc' = [pc EXCEPT ![a] = "stopping", ![Canceler] = "next"]
            /\ UNCHANGED <<at, done>>
       ELSE /\ done' = done \cup {at[a]}
            /\ Return(a)
            /\ UNCHANGED winner
  /\ UNCHANGED <<awaitableVars, from, outcome, signalled, out, fatal, raced>>

\* Mutant: the index of the handle is counted from 0.
WriteResult_FromZero(a) ==
  /\ pc[a] = "write"
  /\ LET w == at[a] IN
       /\ out' = IF result[w] = "Success" THEN Index(w - 1)
                 ELSE Unexpected(result[w])
       /\ done' = done \cup {w}
  /\ Return(a)
  /\ UNCHANGED <<awaitableVars, from, outcome, signalled, winner, fatal, raced>>

WriteResult(a) ==
  /\ pc[a] = "write"
  /\ LET w == at[a] IN
       /\ out' = IF result[w] = "Success" THEN Index(w)
                 ELSE Unexpected(result[w])
       /\ done' = done \cup {w}
  /\ Return(a)
  /\ UNCHANGED <<awaitableVars, from, outcome, signalled, winner, fatal, raced>>

----------------------------------------------------------------------------
(* The stop: of the caller's token, on a thread pool thread of its own, or *)
(* of the first wait that ended.                                           *)

StopRequested ==
  /\ winner = Nobody
  /\ winner' = External
  /\ Goto(Canceler, "next")
  /\ UNCHANGED <<awaitableVars, at, from, outcome, signalled, out, done,
                 fatal, raced>>

\* Mutant: Cancel() does not look for a wait that has not started.
Cancel_NotInit(w) ==
  /\ pc[Canceler] = "next"
  /\ callback[w] = "set"
  /\ callback' = [callback EXCEPT ![w] = "running"]
  /\ at' = [at EXCEPT ![Canceler] = w]
  /\ Goto(Canceler, "cancelClear")
  /\ UNCHANGED <<state, result, object, live, from, outcome, signalled,
                 resultVars, fatal, raced>>

(* A stop callback runs: Cancel() of its awaitable, which leaves a wait    *)
(* that has not started to await_suspend().                                *)
Cancel(w) ==
  /\ pc[Canceler] = "next"
  /\ callback[w] = "set"
  /\ IF state[w] = "Init"
       THEN /\ state' = [state EXCEPT ![w] = "CancelingBeforeDispatch"]
            /\ callback' = [callback EXCEPT ![w] = "none"]
            /\ UNCHANGED <<pc, at>>
       ELSE /\ callback' = [callback EXCEPT ![w] = "running"]
            /\ at' = [at EXCEPT ![Canceler] = w]
            /\ Goto(Canceler, "cancelClear")
            /\ UNCHANGED state
  /\ UNCHANGED <<result, object, live, from, outcome, signalled, resultVars,
                 fatal, raced>>

CancelReturns(w) ==
  /\ callback' = [callback EXCEPT ![w] = "none"]
  /\ Goto(Canceler, "next")
  /\ UNCHANGED at

(* CancelThreadPool(), which expects that InitThreadPool() is over. *)
CancelThreadPool ==
  /\ pc[Canceler] = "cancelClear"
  /\ LET w == at[Canceler] IN
       /\ raced' = IF at[Starter] = w /\ pc[Starter] \in {"create", "arm"}
                     THEN raced \cup {w} ELSE raced
       /\ IF object[w] = "none"
            THEN Fatal("mTPSignal")
            ELSE /\ object' = [object EXCEPT ![w] = "created"]
                 /\ Goto(Canceler, "cancelDrain")
                 /\ UNCHANGED <<state, result, callback, live, at, from,
                                resultVars, fatal>>
  /\ UNCHANGED <<outcome, signalled>>

WaitForThreadpoolWaitCallbacks ==
  /\ pc[Canceler] = "cancelDrain"
  /\ ~InPoolCallback(at[Canceler])
  /\ Goto(Canceler, "cancelStarting")
  /\ UNCHANGED <<awaitableVars, at, from, outcome, signalled, resultVars,
                 fatal, raced>>

(* Before the wait is on, it is await_suspend() that resumes. *)
CancelStartingWait ==
  /\ pc[Canceler] = "cancelStarting"
  /\ LET w == at[Canceler] IN
       IF state[w] = "StartingWait"
         THEN /\ state' = [state EXCEPT ![w] = "Canceling"]
              /\ CancelReturns(w)
         ELSE /\ Goto(Canceler, "cancelWaiting")
              /\ UNCHANGED <<state, callback, at>>
  /\ UNCHANGED <<result, object, live, from, outcome, signalled, resultVars,
                 fatal, raced>>

CancelWaiting ==
  /\ pc[Canceler] = "cancelWaiting"
  /\ LET w == at[Canceler] IN
       \/ /\ state[w] = "Waiting"
          /\ state' = [state EXCEPT ![w] = "Canceling"]
          /\ result' = [result EXCEPT ![w] = "Canceled"]
          /\ BeginResume(Canceler, "Canceling")
          /\ UNCHANGED <<object, callback, live, resultVars, fatal>>
       \/ /\ state[w] \in {"HaveResult", "InCallbackBeforeWaiting",
                           "Resuming", "Resumed"}
          /\ CancelReturns(w)
          /\ UNCHANGED <<state, result, object, live, from, resultVars, fatal>>
       \/ /\ state[w] \in {"Init", "StartingWait", "Canceling",
                           "CancelingBeforeDispatch"}
          /\ Fatal("cancel")
  /\ UNCHANGED <<outcome, signalled, raced>>

(* request_stop() returns to the wait whose coroutine called it. *)
EndStop ==
  /\ pc[Canceler] = "next"
  /\ \A w \in Waits : callback[w] # "set"
  /\ pc' = [a \in Actors |-> IF a = Canceler THEN "gone"
                             ELSE IF pc[a] = "stopping" THEN "write"
                             ELSE pc[a]]
  /\ UNCHANGED <<awaitableVars, at, from, outcome, signalled, resultVars,
                 fatal, raced>>

(* The coroutines of all the waits are awaited, and ret is returned. *)
Join ==
  /\ pc[Starter] = "join"
  /\ done = Waits
  /\ Goto(Starter, "returned")
  /\ UNCHANGED <<awaitableVars, at, from, outcome, signalled, resultVars,
                 fatal, raced>>

----------------------------------------------------------------------------

AwaitSuspend ==
  AlreadyStopped \/ Construct \/ StartWait \/ CreateThreadpoolWait
    \/ SetThreadpoolWait \/ BeginWaiting \/ WaitForCallback

PoolCallback(w) == OnResult(w) \/ LeaveResult(w) \/ TakeResult(w)

ResumeFrom(a) ==
  Resuming(a) \/ ResetStopCallback(a) \/ ClearWait(a) \/ DrainCallbacks(a)
    \/ Resume(a) \/ RequestStop(a) \/ WriteResult(a)

RunStopCallbacks ==
  \/ \E w \in Waits : Cancel(w)
  \/ CancelThreadPool \/ WaitForThreadpoolWaitCallbacks
  \/ CancelStartingWait \/ CancelWaiting \/ EndStop

Next ==
  /\ fatal = "none"
  /\ \/ AwaitSuspend
     \/ \E w \in Waits : Signal(w) \/ ThreadPoolCallback(w) \/ PoolCallback(w)
     \/ \E a \in Actors : ResumeFrom(a)
     \/ StopRequested
     \/ RunStopCallbacks
     \/ Join

Spec == Init /\ [][Next]_vars

(* Threads run, and the thread pool serves the waits whose handles are     *)
(* signalled.  No timeout has to come: most callers wait without one, and  *)
(* any stop or cancellation has to reach a wait that would last for ever.  *)
Running(A) == fatal = "none" /\ A
Fairness ==
  /\ WF_vars(Running(AwaitSuspend))
  /\ \A w \in Waits : /\ WF_vars(Running(/\ w \in signalled
                                         /\ ThreadPoolCallback(w)))
                       /\ WF_vars(Running(PoolCallback(w)))
  /\ \A a \in Actors : WF_vars(Running(ResumeFrom(a)))
  /\ WF_vars(Running(RunStopCallbacks))
  /\ WF_vars(Running(Join))

FairSpec == Spec /\ Fairness

----------------------------------------------------------------------------
(* Properties *)

TypeOK ==
  /\ state \in [Waits -> States]
  /\ result \in [Waits -> Results]
  /\ object \in [Waits -> {"none", "created", "armed", "closed"}]
  /\ callback \in [Waits -> {"none", "set", "running"}]
  /\ live \subseteq Waits
  /\ pc \in [Actors -> Steps]
  /\ at \in [Actors -> Waits]
  /\ from \in [Actors -> States]
  /\ outcome \in [Waits -> Results]
  /\ signalled \subseteq Waits
  /\ winner \in Waits \cup {Nobody, External}
  /\ out \in {Index(w) : w \in Waits} \cup {Unexpected(r) : r \in Results}
  /\ done \subseteq Waits
  /\ fatal \in {"none", "await_suspend", "unexpectedState", "ResumeFrom",
                "mTPSignal", "cancel"}
  /\ raced \subseteq Waits

(* An awaitable is destroyed as soon as its coroutine is resumed: no       *)
(* thread, of the pool, of the starter or of the stop, uses it afterwards. *)
NotUsedAfterDestruction ==
  \A a \in Actors : pc[a] \in Uses => at[a] \in live

(* A coroutine is resumed by one thread: result, timeout and stop race for *)
(* the awaitable, and only one of them gets to ResumeFrom().               *)
ResumedByOne ==
  \A a, b \in Actors :
    (a # b /\ at[a] = at[b] /\ pc[a] \in Resumption) => pc[b] \notin Resumption

(* What is returned is what ended the waiting: the index of a handle that  *)
(* is signalled, and "Canceled" only when the caller asked for the stop,   *)
(* although every wait but one ends as canceled.                           *)
ResultIsTrue ==
  pc[Starter] \in {"returned", "refused"} =>
    /\ out.index # 0 => out.index \in signalled /\ winner = out.index
    /\ out.error = "Canceled" <=> winner = External
    /\ live = {}

(* An assertion fails only if a stop came while InitThreadPool() was       *)
(* creating or setting the wait that it cancels.                           *)
AssertsOnlyWhenRaced == fatal # "none" => raced # {}

(* Whatever ends the waiting, a signal or a stop, and whenever it comes:   *)
(* resume_on_any_signal() returns (or an assertion fails, see above),      *)
(* although the other waits would go on for ever.                          *)
EndsWhenSignalledOrStopped ==
  (signalled # {} \/ winner # Nobody) ~>
    (pc[Starter] \in {"returned", "refused"} \/ fatal # "none")
=============================================================================
