------------------------ MODULE SignalWaitInvariant ------------------------
(***************************************************************************)
(* The inductive invariant behind the properties of SignalWait: which      *)
(* states an awaitable can be in when the starter, the thread pool, the    *)
(* stop, or whoever resumes its coroutine is at a given step.              *)
(***************************************************************************)
EXTENDS SignalWait

\* Who resumes a coroutine owns it until it has asked for the stop or written
\* the result.
Asking == {"stop", "stopping", "write"}
Owning == Resumption \cup Asking

\* Every actor takes the steps of its role.
RolesOK ==
  /\ pc[Starter] \in Suspension \cup Owning \cup {"start", "join",
                                                  "returned", "refused"}
  /\ pc[Canceler] \in Canceling \cup Resumption \cup {"idle", "next", "gone"}
  /\ \A w \in Waits : /\ at[w] = w
                      /\ pc[w] \in Callback \cup Owning \cup {"idle", "gone"}

\* An awaitable is constructed in its turn, and destroyed when resumed.
NotStarted ==
  \A w \in Waits :
    (\/ at[Starter] < w
     \/ at[Starter] = w /\ pc[Starter] \in {"start", "refused"}) =>
      /\ w \notin live
      /\ state[w] = "Init" /\ object[w] = "none" /\ callback[w] = "none"
      /\ pc[w] = "idle"

Lifetime ==
  \A w \in Waits : /\ state[w] \notin {"Init", "Resumed"} => w \in live
                   /\ state[w] = "Resumed" => w \notin live

\* await_suspend()
Starting ==
  LET w == at[Starter] IN
  /\ pc[Starter] \in Suspension => w \in live
  /\ pc[Starter] = "suspend" => state[w] \in {"Init", "CancelingBeforeDispatch"}
  /\ pc[Starter] = "create" => object[w] = "none"
  /\ pc[Starter] = "arm" => object[w] = "created"
  /\ pc[Starter] \in {"create", "arm"} =>
       /\ pc[w] = "idle"
       /\ state[w] = "StartingWait" \/ (state[w] = "Canceling" /\ w \in raced)
  /\ pc[Starter] = "wait" =>
       /\ object[w] # "none"
       /\ state[w] \in {"StartingWait", "InCallbackBeforeWaiting",
                        "HaveResult", "Canceling"}
  /\ pc[Starter] = "spin" =>
       state[w] \in {"InCallbackBeforeWaiting", "HaveResult"}

\* A wait that is set, and its callback.  Only where the stop got between the
\* halves of InitThreadPool() can it fire on a wait that is canceled.
FiringOf(w) ==
  /\ object[w] = "armed" => pc[w] = "idle"
  /\ object[w] = "armed" \/ pc[w] = "fired" =>
       \/ state[w] \in {"StartingWait", "Waiting"}
       \/ w \in raced /\ state[w] \in {"Canceling", "Resuming"}
  /\ pc[w] = "early" <=> state[w] = "InCallbackBeforeWaiting"
  /\ pc[w] = "have" => state[w] = "HaveResult"
  /\ state[w] = "HaveResult" =>
       \/ pc[w] = "have"
       \/ pc[w] \in {"gone", "resuming"} /\ result[w] # "Pending"
  /\ state[w] \in {"Init", "CancelingBeforeDispatch"} =>
       pc[w] = "idle" /\ object[w] = "none"
Firing == \A w \in Waits : FiringOf(w)

\* The stop callbacks run once a stop is requested, and only then is there a
\* wait that is canceled.
StopAsked ==
  /\ pc[Canceler] # "idle" <=> winner # Nobody
  /\ \A w \in Waits :
       state[w] \in {"Canceling", "CancelingBeforeDispatch"} => winner # Nobody

\* Cancel()
Cancels ==
  LET w == at[Canceler] IN
  /\ pc[Canceler] \in Canceling \cup {"resuming", "reset"} =>
       callback[w] = "running"
  /\ pc[Canceler] \in Canceling =>
       state[w] \in {"StartingWait", "Waiting", "HaveResult",
                     "InCallbackBeforeWaiting", "Resuming"}
  /\ pc[Canceler] = "cancelWaiting" => state[w] # "StartingWait"
  /\ pc[Canceler] \in Canceling \ {"cancelClear"} /\ w \notin raced =>
       /\ object[w] # "armed"
       /\ at[Starter] = w => pc[Starter] \notin {"create", "arm"}
  /\ pc[Canceler] \in {"cancelStarting", "cancelWaiting"}
       /\ w \notin raced => pc[w] # "fired"

\* The stop callback of a wait, which is to run or running.
StopCallbackOf(w) ==
  /\ callback[w] = "running" =>
       /\ at[Canceler] = w
       /\ pc[Canceler] \in Canceling \cup {"resuming", "reset"}
  /\ callback[w] = "set" =>
       /\ w \in live
       /\ state[w] \in {"Init", "StartingWait", "Waiting", "HaveResult",
                        "InCallbackBeforeWaiting", "Resuming"}
  /\ callback[w] # "none" /\ state[w] # "Init" =>
       \/ object[w] # "none"
       \/ at[Starter] = w /\ pc[Starter] = "create"
StopCallbacks == \A w \in Waits : StopCallbackOf(w)

\* ResumeFrom() of actor a, from the check of the state to the resumption.
Resumer(a) ==
  LET w == at[a] IN
  /\ state[w] = IF pc[a] = "resuming" THEN from[a] ELSE "Resuming"
  /\ result[w] # "Pending"
  /\ from[a] \in {"HaveResult", "Canceling", "CancelingBeforeDispatch"}
  /\ from[a] = "HaveResult" => pc[w] \in Resumption \cup {"gone"}
  /\ from[a] = "CancelingBeforeDispatch" =>
       pc[w] = "idle" /\ object[w] = "none"
  /\ pc[a] \in {"clear", "drain"} => from[a] = "Canceling"
  /\ pc[a] \in {"clear", "drain", "resume"} => callback[w] = "none"
  /\ pc[a] \in {"drain", "resume"} => object[w] # "armed"
  /\ pc[a] = "resume" => pc[w] \notin Callback
Resumers == \A a \in Actors : pc[a] \in Resumption => Resumer(a)

\* One actor gets to ResumeFrom(), and none while await_suspend() goes on.
OneOwner ==
  \A a, b \in Actors :
    a # b /\ at[a] = at[b] /\ pc[a] \in Owning => pc[b] \notin Owning

StarterFirst ==
  \A a \in Actors \ {Starter} :
    at[a] = at[Starter] /\ pc[a] \in Owning \cup {"have"} =>
      pc[Starter] \notin Suspension

\* What the resumed coroutine of wait a does.
Asker(a) ==
  /\ state[at[a]] = "Resumed"
  /\ pc[a] = "stop" <=> at[a] # winner
Asked ==
  /\ \A a \in Actors : pc[a] \in Asking => Asker(a)
  /\ \A w \in done : state[w] = "Resumed"
  /\ done # {} => winner # Nobody
  /\ winner \in Waits => state[winner] = "Resumed"
  /\ pc[Starter] = "returned" => done = Waits
  /\ pc[Starter] = "refused" => at[Starter] = 1 /\ winner = External

\* What the waiting ended with.
Value(w) == IF result[w] = "Success" THEN Index(w) ELSE Unexpected(result[w])

Resulting ==
  /\ \A w \in Waits :
       /\ outcome[w] = "Success" => w \in signalled
       /\ outcome[w] # "Canceled"
       /\ pc[w] \in Callback => outcome[w] # "Pending"
       /\ result[w] = "Success" => w \in signalled
       /\ result[w] = "Canceled" => winner \notin {Nobody, w}
       /\ state[w] \in {"Resuming", "Resumed"} => result[w] # "Pending"
  /\ winner \in done => out = Value(winner)
  /\ winner \notin Waits => out = Unexpected("Canceled")

IInv ==
  /\ TypeOK
  /\ RolesOK
  /\ NotStarted
  /\ Lifetime
  /\ Starting
  /\ Firing
  /\ StopAsked
  /\ Cancels
  /\ StopCallbacks
  /\ Resumers
  /\ OneOwner
  /\ StarterFirst
  /\ Asked
  /\ Resulting
  /\ AssertsOnlyWhenRaced

=============================================================================
