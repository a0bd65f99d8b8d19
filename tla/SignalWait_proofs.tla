------------------------- MODULE SignalWait_proofs -------------------------
(***************************************************************************)
(* The inductive invariant of SignalWait is kept by every step, and the    *)
(* properties of resume_on_any_signal() follow, for any number of waits.   *)
(*                                                                         *)
(* A lemma XKeeps is about one action, or one branch of it.  Its first     *)
(* steps say what the action does and what the invariant tells of the wait *)
(* that it works on; then each part of the invariant that reads a changed  *)
(* variable has a step.                                                    *)
(***************************************************************************)
EXTENDS SignalWaitInvariant, TLAPS

(* The starter, the stop and the waits are different actors. *)
LEMMA WhoIsWho ==
  /\ Starter \in Actors /\ Canceler \in Actors /\ Starter # Canceler
  /\ \A w \in Waits : /\ w \in Actors \ {Starter, Canceler} /\ w \in Nat
                      /\ w # Nobody /\ w # External
  /\ \A a \in Actors : a \in Waits \cup {Starter, Canceler}
  /\ Nobody \notin Waits /\ External \notin Waits /\ External # Nobody
  BY DEF Actors, Starter, Canceler, Waits, Nobody, External

(* The types of the variables. *)
LEMMA Types ==
  ASSUME IInv
  PROVE  /\ state \in [Waits -> States] /\ result \in [Waits -> Results]
         /\ object \in [Waits -> {"none", "created", "armed", "closed"}]
         /\ callback \in [Waits -> {"none", "set", "running"}]
         /\ live \subseteq Waits /\ done \subseteq Waits
         /\ pc \in [Actors -> Steps] /\ at \in [Actors -> Waits]
         /\ from \in [Actors -> States] /\ outcome \in [Waits -> Results]
         /\ winner \in Waits \cup {Nobody, External}
  BY DEF IInv, TypeOK

(* The same of the variables that name waits. *)
LEMMA Places ==
  ASSUME IInv
  PROVE  /\ done \subseteq Waits /\ winner \in Waits \cup {Nobody, External}
         /\ \A a \in Actors : at[a] \in Waits
  BY DEF IInv, TypeOK

(* Every step is one of Steps. *)
LEMMA StepNames ==
  /\ "suspend" \in Steps /\ "create" \in Steps /\ "arm" \in Steps
  /\ "wait" \in Steps /\ "spin" \in Steps /\ "fired" \in Steps
  /\ "early" \in Steps /\ "have" \in Steps /\ "cancelClear" \in Steps
  /\ "cancelDrain" \in Steps /\ "cancelStarting" \in Steps
  /\ "cancelWaiting" \in Steps /\ "resuming" \in Steps /\ "reset" \in Steps
  /\ "clear" \in Steps /\ "drain" \in Steps /\ "resume" \in Steps
  /\ "stop" \in Steps /\ "stopping" \in Steps /\ "write" \in Steps
  /\ "idle" \in Steps /\ "start" \in Steps /\ "next" \in Steps
  /\ "join" \in Steps /\ "returned" \in Steps /\ "refused" \in Steps
  /\ "gone" \in Steps
  BY DEF Steps, Suspension, Callback, Canceling, Resumption

(* The waits are numbered from 1 to WaitCount. *)
LEMMA NextWait == \A w \in Waits : w # WaitCount => w + 1 \in Waits
  BY SignalWaitAssumption DEF Waits

(* The states of a wait whose coroutine an actor resumes, or has resumed. *)
LEMMA Owners ==
  ASSUME IInv, NEW a \in Actors
  PROVE  /\ pc[a] \in Resumption =>
              /\ state[at[a]] \in {"HaveResult", "Canceling", "Resuming",
                                    "CancelingBeforeDispatch"}
              /\ at[a] \in live
         /\ pc[a] \in Asking => state[at[a]] = "Resumed"
<1>1. at[a] \in Waits
  BY Types
<1>2. pc[a] \in Resumption =>
        state[at[a]] \in {"HaveResult", "Canceling", "Resuming",
                         "CancelingBeforeDispatch"}
  BY DEF IInv, Resumers, Resumer
<1>3. pc[a] \in Asking => state[at[a]] = "Resumed"
  BY DEF IInv, Asked, Asker
<1> QED
  BY <1>1, <1>2, <1>3 DEF IInv, Lifetime

----------------------------------------------------------------------------
(* The starter: the constructor and await_suspend(). A branch that goes on *)
(* to ResumeFrom() has a lemma of its own.                                 *)

LEMMA RefusesKeeps ==
  ASSUME IInv, fatal = "none", AlreadyStopped
  PROVE  IInv'
<1>1. /\ pc[Starter] = "start" /\ at[Starter] = 1 /\ winner = External
      /\ \A b \in Actors : pc'[b] = IF b = Starter THEN "refused" ELSE pc[b]
      /\ UNCHANGED <<state, result, object, callback, live, at, from, outcome,
                     signalled, winner, out, done, fatal, raced>>
  BY Types DEF AlreadyStopped, Goto, awaitableVars, resultVars
<1>2. TypeOK'
  <2>1. pc' = [pc EXCEPT ![Starter] = "refused"]
    BY DEF AlreadyStopped, Goto
  <2> QED
    BY <1>1, WhoIsWho, StepNames, <2>1 DEF IInv, TypeOK
<1>3. RolesOK'
  BY <1>1, WhoIsWho DEF IInv, RolesOK
<1>4. NotStarted'
  BY <1>1, WhoIsWho DEF IInv, NotStarted
<1>5. Starting'
  BY <1>1, WhoIsWho DEF Starting, Suspension
<1>6. Firing'
  BY <1>1, WhoIsWho DEF IInv, Firing, FiringOf
<1>7. StopAsked'
  BY <1>1, WhoIsWho DEF IInv, StopAsked
<1>8. Cancels'
  BY <1>1, WhoIsWho, Places DEF IInv, Cancels
<1>9. StopCallbacks'
  BY <1>1, WhoIsWho DEF IInv, StopCallbacks, StopCallbackOf
<1>10. Resumers'
  BY <1>1, WhoIsWho, Places DEF IInv, Resumers, Resumer, Resumption
<1>11. OneOwner'
  BY <1>1 DEF IInv, OneOwner, Owning, Asking, Resumption
<1>12. StarterFirst'
  BY <1>1, WhoIsWho DEF StarterFirst, Suspension
<1>13. Asked'
  BY <1>1, WhoIsWho DEF IInv, Asked, Asker, Asking
<1>14. Resulting'
  BY <1>1, WhoIsWho DEF IInv, Resulting, Value
<1>15. /\ Lifetime' /\ AssertsOnlyWhenRaced'
  BY <1>1 DEF IInv, Lifetime, AssertsOnlyWhenRaced
<1> QED
  BY <1>2, <1>3, <1>4, <1>5, <1>6, <1>7, <1>8, <1>9, <1>10, <1>11, <1>12,
     <1>13, <1>14, <1>15
     DEF IInv

LEMMA ConstructKeeps ==
  ASSUME IInv, fatal = "none", Construct
  PROVE  IInv'
<1>1. PICK w \in Waits : w = at[Starter]
  BY WhoIsWho, Types
<1>2. /\ pc[Starter] = "start"
      /\ \A b \in Actors : pc'[b] = IF b = Starter THEN "suspend" ELSE pc[b]
      /\ live' = live \cup {w}
      /\ \/ /\ winner = Nobody /\ state' = state
            /\ \A v \in Waits :
                 callback'[v] = IF v = w THEN "set" ELSE callback[v]
         \/ /\ winner # Nobody /\ callback' = callback
            /\ \A v \in Waits : state'[v] =
                 IF v = w THEN "CancelingBeforeDispatch" ELSE state[v]
      /\ UNCHANGED <<result, object, at, from, outcome, signalled, winner, out,
                     done, fatal, raced>>
  BY <1>1, Types DEF Construct, Goto, resultVars
<1>3. /\ state[w] = "Init" /\ object[w] = "none" /\ callback[w] = "none"
      /\ pc[w] = "idle"
  BY <1>1, <1>2 DEF IInv, NotStarted
<1>4. \A b \in Actors : at[b] = w => pc[b] \notin Owning
  BY <1>3, Owners DEF Owning
<1>5. TypeOK'
  <2>1. pc' = [pc EXCEPT ![Starter] = "suspend"]
    BY DEF Construct, Goto
  <2>2. PICK s \in States, c \in {"none", "set", "running"} :
               /\ state' = [state EXCEPT ![w] = s]
               /\ callback' = [callback EXCEPT ![w] = c]
    BY <1>2, Types DEF Construct, States
  <2> QED
    BY <1>2, WhoIsWho, StepNames, <2>1, <2>2 DEF IInv, TypeOK
<1>6. RolesOK'
  BY <1>2, WhoIsWho DEF IInv, RolesOK, Suspension
<1>7. NotStarted'
  BY <1>1, <1>2, WhoIsWho DEF IInv, NotStarted
<1>8. Lifetime'
  BY <1>2, <1>3 DEF IInv, Lifetime
<1>9. Starting'
  BY <1>1, <1>2, <1>3, WhoIsWho DEF Starting
<1>10. Firing'
  BY <1>2, <1>3, WhoIsWho DEF IInv, Firing, FiringOf
<1>11. StopAsked'
  BY <1>2, WhoIsWho DEF IInv, StopAsked
<1>12. Cancels'
  BY <1>2, <1>3, WhoIsWho, Places DEF IInv, Cancels
<1>13. StopCallbacks'
  BY <1>2, <1>3, WhoIsWho DEF IInv, StopCallbacks, StopCallbackOf
<1>14. Resumers'
  BY <1>2, <1>3, WhoIsWho, Places DEF IInv, Resumers, Resumer, Resumption
<1>15. OneOwner'
  BY <1>2 DEF IInv, OneOwner, Owning, Asking, Resumption
<1>16. StarterFirst'
  BY <1>1, <1>2, <1>3, <1>4, WhoIsWho
     DEF IInv, StarterFirst, Resumption, RolesOK, Canceling
<1>17. Asked'
  BY <1>2, <1>3, WhoIsWho, Places DEF IInv, Asked, Asker, Asking
<1>18. Resulting'
  BY <1>2, WhoIsWho DEF IInv, Resulting, Value
<1>19. AssertsOnlyWhenRaced'
  BY <1>2 DEF AssertsOnlyWhenRaced
<1> QED
  BY <1>5, <1>6, <1>7, <1>8, <1>9, <1>10, <1>11, <1>12, <1>13, <1>14, <1>15,
     <1>16, <1>17, <1>18, <1>19
     DEF IInv

LEMMA StartsKeeps ==
  ASSUME IInv, fatal = "none", StartWait, state[at[Starter]] = "Init"
  PROVE  IInv'
<1>1. PICK w \in Waits : w = at[Starter]
  BY WhoIsWho, Types
<1>2. /\ state[w] = "Init"
      /\ pc[Starter] = "suspend"
      /\ \A b \in Actors : pc'[b] = IF b = Starter THEN "create" ELSE pc[b]
      /\ \A v \in Waits :
           state'[v] = IF v = w THEN "StartingWait" ELSE state[v]
      /\ UNCHANGED <<result, object, callback, live, at, from, outcome,
                     signalled, winner, out, done, fatal, raced>>
  BY <1>1, Types DEF StartWait, Goto, resultVars
<1>3. w \in live /\ object[w] = "none" /\ pc[w] = "idle"
  BY <1>1, <1>2 DEF IInv, Starting, Firing, FiringOf, Suspension
<1>4. TypeOK'
  <2>1. /\ pc' = [pc EXCEPT ![Starter] = "create"]
        /\ state' = [state EXCEPT ![w] = "StartingWait"]
    BY <1>1 DEF StartWait, Goto
  <2> QED
    BY <1>2, WhoIsWho, StepNames, <2>1 DEF IInv, TypeOK, States
<1>5. RolesOK'
  BY <1>2, WhoIsWho DEF IInv, RolesOK, Suspension
<1>6. NotStarted'
  BY <1>1, <1>2, WhoIsWho DEF IInv, NotStarted
<1>7. Lifetime'
  BY <1>2, <1>3 DEF IInv, Lifetime
<1>8. Starting'
  BY <1>1, <1>2, <1>3, WhoIsWho DEF Starting
<1>9. Firing'
  BY <1>2, WhoIsWho DEF IInv, Firing, FiringOf
<1>10. StopAsked'
  BY <1>2, WhoIsWho DEF IInv, StopAsked
<1>11. Cancels'
  BY <1>2, WhoIsWho, Places DEF IInv, Cancels, Canceling
<1>12. StopCallbacks'
  BY <1>1, <1>2, WhoIsWho DEF IInv, StopCallbacks, StopCallbackOf
<1>13. Resumers'
  BY <1>2, WhoIsWho, Places DEF IInv, Resumers, Resumer, Resumption
<1>14. OneOwner'
  BY <1>2 DEF IInv, OneOwner, Owning, Asking, Resumption
<1>15. StarterFirst'
  BY <1>2 DEF IInv, StarterFirst, Suspension
<1>16. Asked'
  BY <1>2, WhoIsWho, Places DEF IInv, Asked, Asker, Asking
<1>17. Resulting'
  BY <1>2, WhoIsWho DEF IInv, Resulting, Value
<1>18. AssertsOnlyWhenRaced'
  BY <1>2 DEF AssertsOnlyWhenRaced
<1> QED
  BY <1>4, <1>5, <1>6, <1>7, <1>8, <1>9, <1>10, <1>11, <1>12, <1>13, <1>14,
     <1>15, <1>16, <1>17, <1>18
     DEF IInv

LEMMA StartsCanceledKeeps ==
  ASSUME IInv, fatal = "none", StartWait, state[at[Starter]] # "Init"
  PROVE  IInv'
<1>1. PICK w \in Waits : w = at[Starter]
  BY WhoIsWho, Types
<1>2. /\ state[w] # "Init"
      /\ pc[Starter] = "suspend"
      /\ \A b \in Actors : pc'[b] = IF b = Starter THEN "resuming" ELSE pc[b]
      /\ \A v \in Waits : result'[v] = IF v = w THEN "Canceled" ELSE result[v]
      /\ \A b \in Actors :
           from'[b] = IF b = Starter THEN "CancelingBeforeDispatch" ELSE from[b]
      /\ UNCHANGED <<state, object, callback, live, at, outcome, signalled,
                     winner, out, done, fatal, raced>>
  BY <1>1, Types DEF IInv, Starting, StartWait, BeginResume, Goto, resultVars
<1>3. /\ w \in live /\ object[w] = "none" /\ pc[w] = "idle"
      /\ state[w] = "CancelingBeforeDispatch" /\ winner # Nobody
  BY <1>1, <1>2 DEF IInv, Starting, Firing, FiringOf, StopAsked, Suspension
<1>4. winner # w
  BY <1>3 DEF IInv, Asked
<1>5. \A b \in Actors \ {Starter} : at[b] = w => pc[b] \notin Owning
  BY <1>1, <1>2 DEF IInv, StarterFirst, Suspension
<1>6. TypeOK'
  <2>1. /\ pc' = [pc EXCEPT ![Starter] = "resuming"]
        /\ result' = [result EXCEPT ![w] = "Canceled"]
        /\ from' = [from EXCEPT ![Starter] = "CancelingBeforeDispatch"]
    BY <1>1 DEF IInv, Starting, StartWait, BeginResume, Goto
  <2> QED
    BY <1>2, WhoIsWho, StepNames, <2>1 DEF IInv, TypeOK, States, Results
<1>7. RolesOK'
  BY <1>2, WhoIsWho DEF IInv, RolesOK, Owning, Resumption
<1>8. NotStarted'
  BY <1>2, WhoIsWho DEF IInv, NotStarted
<1>9. Starting'
  BY <1>2, WhoIsWho DEF Starting, Suspension
<1>10. Firing'
  BY <1>2, WhoIsWho DEF IInv, Firing, FiringOf
<1>11. StopAsked'
  BY <1>2, WhoIsWho DEF IInv, StopAsked
<1>12. Cancels'
  BY <1>2, WhoIsWho, Places DEF IInv, Cancels
<1>13. StopCallbacks'
  BY <1>2, WhoIsWho DEF IInv, StopCallbacks, StopCallbackOf
<1>14. Resumers'
  BY <1>1, <1>2, <1>3, WhoIsWho, Places DEF IInv, Resumers, Resumer
<1>15. OneOwner'
  BY <1>1, <1>2, <1>5 DEF IInv, OneOwner
<1>16. StarterFirst'
  BY <1>2 DEF IInv, StarterFirst, Suspension
<1>17. Asked'
  BY <1>2, WhoIsWho DEF IInv, Asked, Asker, Asking
<1>18. Resulting'
  BY <1>2, <1>3, <1>4, WhoIsWho, Places DEF IInv, Resulting, Value
<1>19. /\ Lifetime' /\ AssertsOnlyWhenRaced'
  BY <1>2 DEF IInv, Lifetime, AssertsOnlyWhenRaced
<1> QED
  BY <1>6, <1>7, <1>8, <1>9, <1>10, <1>11, <1>12, <1>13, <1>14, <1>15, <1>16,
     <1>17, <1>18, <1>19
     DEF IInv

LEMMA CreatesKeeps ==
  ASSUME IInv, fatal = "none", CreateThreadpoolWait
  PROVE  IInv'
<1>1. PICK w \in Waits : w = at[Starter]
  BY WhoIsWho, Types
<1>2. /\ pc[Starter] = "create"
      /\ \A b \in Actors : pc'[b] = IF b = Starter THEN "arm" ELSE pc[b]
      /\ \A v \in Waits : object'[v] = IF v = w THEN "created" ELSE object[v]
      /\ UNCHANGED <<state, result, callback, live, at, from, outcome,
                     signalled, winner, out, done, fatal, raced>>
  BY <1>1, Types DEF CreateThreadpoolWait, Goto, resultVars
<1>3. /\ w \in live /\ object[w] = "none" /\ pc[w] = "idle"
      /\ state[w] \in {"StartingWait", "Canceling"}
  BY <1>1, <1>2 DEF IInv, Starting, Suspension
<1>4. TypeOK'
  <2>1. /\ pc' = [pc EXCEPT ![Starter] = "arm"]
        /\ object' = [object EXCEPT ![w] = "created"]
    BY <1>1 DEF CreateThreadpoolWait, Goto
  <2> QED
    BY <1>2, WhoIsWho, StepNames, <2>1 DEF IInv, TypeOK
<1>5. RolesOK'
  BY <1>2, WhoIsWho DEF IInv, RolesOK, Suspension
<1>6. NotStarted'
  BY <1>1, <1>2, WhoIsWho DEF IInv, NotStarted
<1>7. Starting'
  BY <1>1, <1>2, WhoIsWho DEF IInv, Starting, Suspension
<1>8. Firing'
  BY <1>2, <1>3, WhoIsWho DEF IInv, Firing, FiringOf
<1>9. StopAsked'
  BY <1>2, WhoIsWho DEF IInv, StopAsked
<1>10. Cancels'
  BY <1>2, WhoIsWho, Places DEF IInv, Cancels
<1>11. StopCallbacks'
  BY <1>1, <1>2, WhoIsWho DEF IInv, StopCallbacks, StopCallbackOf
<1>12. Resumers'
  BY <1>2, <1>3, WhoIsWho, Places DEF IInv, Resumers, Resumer, Resumption
<1>13. OneOwner'
  BY <1>2 DEF IInv, OneOwner, Owning, Asking, Resumption
<1>14. StarterFirst'
  BY <1>2 DEF IInv, StarterFirst, Suspension
<1>15. Asked'
  BY <1>2, WhoIsWho DEF IInv, Asked, Asker, Asking
<1>16. Resulting'
  BY <1>2, WhoIsWho DEF IInv, Resulting, Value
<1>17. /\ Lifetime' /\ AssertsOnlyWhenRaced'
  BY <1>2 DEF IInv, Lifetime, AssertsOnlyWhenRaced
<1> QED
  BY <1>4, <1>5, <1>6, <1>7, <1>8, <1>9, <1>10, <1>11, <1>12, <1>13, <1>14,
     <1>15, <1>16, <1>17
     DEF IInv

LEMMA SetsKeeps ==
  ASSUME IInv, fatal = "none", SetThreadpoolWait
  PROVE  IInv'
<1>1. PICK w \in Waits : w = at[Starter]
  BY WhoIsWho, Types
<1>2. /\ pc[Starter] = "arm"
      /\ \A b \in Actors : pc'[b] = IF b = Starter THEN "wait" ELSE pc[b]
      /\ \A v \in Waits : object'[v] = IF v = w THEN "armed" ELSE object[v]
      /\ UNCHANGED <<state, result, callback, live, at, from, outcome,
                     signalled, winner, out, done, fatal, raced>>
  BY <1>1, Types DEF SetThreadpoolWait, Goto, resultVars
<1>3. /\ w \in live /\ pc[w] = "idle"
      /\ state[w] = "StartingWait" \/ (state[w] = "Canceling" /\ w \in raced)
  BY <1>1, <1>2 DEF IInv, Starting, Suspension
<1>4. TypeOK'
  <2>1. /\ pc' = [pc EXCEPT ![Starter] = "wait"]
        /\ object' = [object EXCEPT ![w] = "armed"]
    BY <1>1 DEF SetThreadpoolWait, Goto
  <2> QED
    BY <1>2, WhoIsWho, StepNames, <2>1 DEF IInv, TypeOK
<1>5. RolesOK'
  BY <1>2, WhoIsWho DEF IInv, RolesOK, Suspension
<1>6. NotStarted'
  BY <1>1, <1>2, WhoIsWho DEF IInv, NotStarted
<1>7. Starting'
  BY <1>1, <1>2, WhoIsWho DEF IInv, Starting, Suspension
<1>8. Firing'
  BY <1>2, <1>3, WhoIsWho DEF IInv, Firing, FiringOf
<1>9. StopAsked'
  BY <1>2, WhoIsWho DEF IInv, StopAsked
<1>10. Cancels'
  BY <1>1, <1>2, WhoIsWho, Places DEF IInv, Cancels
<1>11. StopCallbacks'
  BY <1>2, WhoIsWho DEF IInv, StopCallbacks, StopCallbackOf
<1>12. Resumers'
  BY <1>2, <1>3, WhoIsWho, Places DEF IInv, Resumers, Resumer, Resumption
<1>13. OneOwner'
  BY <1>2 DEF IInv, OneOwner, Owning, Asking, Resumption
<1>14. StarterFirst'
  BY <1>2 DEF IInv, StarterFirst, Suspension
<1>15. Asked'
  BY <1>2, WhoIsWho DEF IInv, Asked, Asker, Asking
<1>16. Resulting'
  BY <1>2, WhoIsWho DEF IInv, Resulting, Value
<1>17. /\ Lifetime' /\ AssertsOnlyWhenRaced'
  BY <1>2 DEF IInv, Lifetime, AssertsOnlyWhenRaced
<1> QED
  BY <1>4, <1>5, <1>6, <1>7, <1>8, <1>9, <1>10, <1>11, <1>12, <1>13, <1>14,
     <1>15, <1>16, <1>17
     DEF IInv

LEMMA WaitsKeeps ==
  ASSUME IInv, fatal = "none", BeginWaiting,
         state[at[Starter]] = "StartingWait"
  PROVE  IInv'
<1>1. PICK w \in Waits : w = at[Starter]
  BY WhoIsWho, Types
<1>2. /\ state[w] = "StartingWait"
      /\ pc[Starter] = "wait"
      /\ \/ /\ w = WaitCount /\ at' = at
            /\ \A b \in Actors : pc'[b] = IF b = Starter THEN "join" ELSE pc[b]
         \/ /\ w + 1 \in Waits
            /\ \A b \in Actors : at'[b] = IF b = Starter THEN w + 1 ELSE at[b]
            /\ \A b \in Actors :
                 pc'[b] = IF b = Starter THEN "start" ELSE pc[b]
      /\ \A v \in Waits : state'[v] = IF v = w THEN "Waiting" ELSE state[v]
      /\ UNCHANGED <<result, object, callback, live, from, outcome, signalled,
                     winner, out, done, fatal, raced>>
  BY <1>1, Types, NextWait DEF BeginWaiting, LeaveFor, Goto, resultVars
<1>3. TypeOK'
  <2>1. state' = [state EXCEPT ![w] = "Waiting"]
    BY <1>1 DEF BeginWaiting
  <2>2. PICK s \in {"join", "start"}, v \in Waits :
            pc' = [pc EXCEPT ![Starter] = s] /\ at' = [at EXCEPT ![Starter] = v]
    BY NextWait, Types DEF BeginWaiting, LeaveFor, Goto
  <2> QED
    BY <1>2, WhoIsWho, StepNames, <2>1, <2>2 DEF IInv, TypeOK, States
<1>4. RolesOK'
  BY <1>2, WhoIsWho DEF IInv, RolesOK
<1>5. NotStarted'
  BY <1>1, <1>2, WhoIsWho DEF IInv, NotStarted
<1>6. Lifetime'
  BY <1>2 DEF IInv, Lifetime
<1>7. Starting'
  BY <1>2, WhoIsWho DEF Starting, Suspension
<1>8. Firing'
  BY <1>2, WhoIsWho DEF IInv, Firing, FiringOf
<1>9. StopAsked'
  BY <1>2, WhoIsWho DEF IInv, StopAsked
<1>10. Cancels'
  BY <1>2, WhoIsWho, Places DEF IInv, Cancels
<1>11. StopCallbacks'
  BY <1>2, WhoIsWho DEF IInv, StopCallbacks, StopCallbackOf
<1>12. Resumers'
  BY <1>2, WhoIsWho, Places DEF IInv, Resumers, Resumer, Resumption
<1>13. OneOwner'
  BY <1>2 DEF IInv, OneOwner, Owning, Asking, Resumption
<1>14. StarterFirst'
  BY <1>2, WhoIsWho DEF StarterFirst, Suspension
<1>15. Asked'
  BY <1>2, WhoIsWho, Places DEF IInv, Asked, Asker, Asking
<1>16. Resulting'
  BY <1>2, WhoIsWho DEF IInv, Resulting, Value
<1>17. AssertsOnlyWhenRaced'
  BY <1>2 DEF AssertsOnlyWhenRaced
<1> QED
  BY <1>3, <1>4, <1>5, <1>6, <1>7, <1>8, <1>9, <1>10, <1>11, <1>12, <1>13,
     <1>14, <1>15, <1>16, <1>17
     DEF IInv

LEMMA SpinsKeeps ==
  ASSUME IInv, fatal = "none", BeginWaiting,
         state[at[Starter]] = "InCallbackBeforeWaiting"
  PROVE  IInv'
<1>1. PICK w \in Waits : w = at[Starter]
  BY WhoIsWho, Types
<1>2. /\ state[w] = "InCallbackBeforeWaiting"
      /\ pc[Starter] = "wait"
      /\ \A b \in Actors : pc'[b] = IF b = Starter THEN "spin" ELSE pc[b]
      /\ UNCHANGED <<state, result, object, callback, live, at, from, outcome,
                     signalled, winner, out, done, fatal, raced>>
  BY <1>1, Types DEF BeginWaiting, Goto, awaitableVars, resultVars
<1>3. TypeOK'
  <2>1. pc' = [pc EXCEPT ![Starter] = "spin"]
    BY DEF BeginWaiting, Goto
  <2> QED
    BY <1>2, WhoIsWho, StepNames, <2>1 DEF IInv, TypeOK
<1>4. RolesOK'
  BY <1>2, WhoIsWho DEF IInv, RolesOK, Suspension
<1>5. NotStarted'
  BY <1>2, WhoIsWho DEF IInv, NotStarted
<1>6. Starting'
  BY <1>2, WhoIsWho DEF IInv, Starting, Suspension
<1>7. Firing'
  BY <1>2, WhoIsWho DEF IInv, Firing, FiringOf
<1>8. StopAsked'
  BY <1>2, WhoIsWho DEF IInv, StopAsked
<1>9. Cancels'
  BY <1>2, WhoIsWho, Places DEF IInv, Cancels
<1>10. StopCallbacks'
  BY <1>2, WhoIsWho DEF IInv, StopCallbacks, StopCallbackOf
<1>11. Resumers'
  BY <1>2, WhoIsWho, Places DEF IInv, Resumers, Resumer, Resumption
<1>12. OneOwner'
  BY <1>2 DEF IInv, OneOwner, Owning, Asking, Resumption
<1>13. StarterFirst'
  BY <1>2 DEF IInv, StarterFirst, Suspension
<1>14. Asked'
  BY <1>2, WhoIsWho DEF IInv, Asked, Asker, Asking
<1>15. Resulting'
  BY <1>2, WhoIsWho DEF IInv, Resulting, Value
<1>16. /\ Lifetime' /\ AssertsOnlyWhenRaced'
  BY <1>2 DEF IInv, Lifetime, AssertsOnlyWhenRaced
<1> QED
  BY <1>3, <1>4, <1>5, <1>6, <1>7, <1>8, <1>9, <1>10, <1>11, <1>12, <1>13,
     <1>14, <1>15, <1>16
     DEF IInv

LEMMA HasResultKeeps ==
  ASSUME IInv, fatal = "none", BeginWaiting \/ WaitForCallback,
         state[at[Starter]] = "HaveResult"
  PROVE  IInv'
<1>1. PICK w \in Waits : w = at[Starter]
  BY WhoIsWho, Types
<1>2. /\ state[w] = "HaveResult"
      /\ pc[Starter] \in {"wait", "spin"}
      /\ \A b \in Actors : pc'[b] = IF b = Starter THEN "resuming" ELSE pc[b]
      /\ \A b \in Actors :
           from'[b] = IF b = Starter THEN "HaveResult" ELSE from[b]
      /\ UNCHANGED <<state, result, object, callback, live, at, outcome,
                     signalled, winner, out, done, fatal, raced>>
  BY <1>1, Types
     DEF BeginWaiting, WaitForCallback, BeginResume, Goto, awaitableVars,
         resultVars
<1>3. w \in live /\ pc[w] = "gone" /\ result[w] # "Pending"
  BY <1>1, <1>2, WhoIsWho
     DEF IInv, RolesOK, Starting, Firing, FiringOf, StarterFirst, Suspension,
         Owning, Resumption
<1>4. \A b \in Actors \ {Starter} : at[b] = w => pc[b] \notin Owning
  BY <1>1, <1>2 DEF IInv, StarterFirst, Suspension
<1>5. TypeOK'
  <2>1. /\ pc' = [pc EXCEPT ![Starter] = "resuming"]
        /\ from' = [from EXCEPT ![Starter] = "HaveResult"]
    BY DEF BeginWaiting, WaitForCallback, BeginResume, Goto
  <2> QED
    BY <1>2, WhoIsWho, StepNames, <2>1 DEF IInv, TypeOK
<1>6. RolesOK'
  BY <1>2, WhoIsWho DEF IInv, RolesOK, Owning, Resumption
<1>7. NotStarted'
  BY <1>2, WhoIsWho DEF IInv, NotStarted
<1>8. Starting'
  BY <1>2, WhoIsWho DEF Starting, Suspension
<1>9. Firing'
  BY <1>2, WhoIsWho DEF IInv, Firing, FiringOf
<1>10. StopAsked'
  BY <1>2, WhoIsWho DEF IInv, StopAsked
<1>11. Cancels'
  BY <1>2, WhoIsWho, Places DEF IInv, Cancels
<1>12. StopCallbacks'
  BY <1>2, WhoIsWho DEF IInv, StopCallbacks, StopCallbackOf
<1>13. Resumers'
  BY <1>1, <1>2, <1>3, WhoIsWho, Places DEF IInv, Resumers, Resumer
<1>14. OneOwner'
  BY <1>1, <1>2, <1>4 DEF IInv, OneOwner
<1>15. StarterFirst'
  BY <1>2 DEF IInv, StarterFirst, Suspension
<1>16. Asked'
  BY <1>2, WhoIsWho DEF IInv, Asked, Asker, Asking
<1>17. Resulting'
  BY <1>2, WhoIsWho DEF IInv, Resulting, Value
<1>18. /\ Lifetime' /\ AssertsOnlyWhenRaced'
  BY <1>2 DEF IInv, Lifetime, AssertsOnlyWhenRaced
<1> QED
  BY <1>5, <1>6, <1>7, <1>8, <1>9, <1>10, <1>11, <1>12, <1>13, <1>14, <1>15,
     <1>16, <1>17, <1>18
     DEF IInv

LEMMA WaitsCanceledKeeps ==
  ASSUME IInv, fatal = "none", BeginWaiting, state[at[Starter]] = "Canceling"
  PROVE  IInv'
<1>1. PICK w \in Waits : w = at[Starter]
  BY WhoIsWho, Types
<1>2. /\ state[w] = "Canceling"
      /\ pc[Starter] = "wait"
      /\ \A b \in Actors : pc'[b] = IF b = Starter THEN "resuming" ELSE pc[b]
      /\ \A v \in Waits : result'[v] = IF v = w THEN "Canceled" ELSE result[v]
      /\ \A b \in Actors :
           from'[b] = IF b = Starter THEN "Canceling" ELSE from[b]
      /\ UNCHANGED <<state, object, callback, live, at, outcome, signalled,
                     winner, out, done, fatal, raced>>
  BY <1>1, Types DEF BeginWaiting, BeginResume, Goto, resultVars
<1>3. w \in live /\ winner # Nobody
  BY <1>1, <1>2 DEF IInv, Starting, StopAsked, Suspension
<1>4. winner # w
  BY <1>2 DEF IInv, Asked
<1>5. \A b \in Actors \ {Starter} : at[b] = w => pc[b] \notin Owning
  BY <1>1, <1>2 DEF IInv, StarterFirst, Suspension
<1>6. TypeOK'
  <2>1. /\ pc' = [pc EXCEPT ![Starter] = "resuming"]
        /\ result' = [result EXCEPT ![w] = "Canceled"]
        /\ from' = [from EXCEPT ![Starter] = "Canceling"]
    BY <1>1 DEF BeginWaiting, BeginResume, Goto
  <2> QED
    BY <1>2, WhoIsWho, StepNames, <2>1 DEF IInv, TypeOK, Results
<1>7. RolesOK'
  BY <1>2, WhoIsWho DEF IInv, RolesOK, Owning, Resumption
<1>8. NotStarted'
  BY <1>2, WhoIsWho DEF IInv, NotStarted
<1>9. Starting'
  BY <1>2, WhoIsWho DEF Starting, Suspension
<1>10. Firing'
  BY <1>2, WhoIsWho DEF IInv, Firing, FiringOf
<1>11. StopAsked'
  BY <1>2, WhoIsWho DEF IInv, StopAsked
<1>12. Cancels'
  BY <1>2, WhoIsWho, Places DEF IInv, Cancels
<1>13. StopCallbacks'
  BY <1>2, WhoIsWho DEF IInv, StopCallbacks, StopCallbackOf
<1>14. Resumers'
  BY <1>1, <1>2, WhoIsWho, Places DEF IInv, Resumers, Resumer
<1>15. OneOwner'
  BY <1>1, <1>2, <1>5 DEF IInv, OneOwner
<1>16. StarterFirst'
  BY <1>2 DEF IInv, StarterFirst, Suspension
<1>17. Asked'
  BY <1>2, WhoIsWho DEF IInv, Asked, Asker, Asking
<1>18. Resulting'
  BY <1>2, <1>3, <1>4, WhoIsWho, Places DEF IInv, Resulting, Value
<1>19. /\ Lifetime' /\ AssertsOnlyWhenRaced'
  BY <1>2 DEF IInv, Lifetime, AssertsOnlyWhenRaced
<1> QED
  BY <1>6, <1>7, <1>8, <1>9, <1>10, <1>11, <1>12, <1>13, <1>14, <1>15, <1>16,
     <1>17, <1>18, <1>19
     DEF IInv

----------------------------------------------------------------------------
(* The environment: handles and the thread pool. *)

LEMMA SignalsKeeps ==
  ASSUME IInv, fatal = "none", NEW w \in Waits, Signal(w)
  PROVE  IInv'
<1>1. /\ signalled' = signalled \cup {w}
      /\ UNCHANGED <<state, result, object, callback, live, pc, at, from,
                     outcome, winner, out, done, fatal, raced>>
  BY DEF Signal, threadVars, awaitableVars, resultVars
<1>2. TypeOK'
  BY <1>1 DEF IInv, TypeOK
<1>3. Resulting'
  BY <1>1 DEF IInv, Resulting, Value
<1>4. /\ RolesOK' /\ NotStarted' /\ Lifetime' /\ Starting' /\ Firing'
      /\ StopAsked' /\ Cancels' /\ StopCallbacks' /\ Resumers' /\ OneOwner'
      /\ StarterFirst' /\ Asked' /\ AssertsOnlyWhenRaced'
  BY <1>1
     DEF IInv, RolesOK, NotStarted, Lifetime, Starting, Firing, StopAsked,
         Cancels, StopCallbacks, Resumers, OneOwner, StarterFirst, Asked,
         AssertsOnlyWhenRaced, FiringOf, StopCallbackOf, Resumer, Asker
<1> QED
  BY <1>2, <1>3, <1>4 DEF IInv

LEMMA FiresKeeps ==
  ASSUME IInv, fatal = "none", NEW w \in Waits, ThreadPoolCallback(w)
  PROVE  IInv'
<1>1. /\ object[w] = "armed"
      /\ \A b \in Actors : pc'[b] = IF b = w THEN "fired" ELSE pc[b]
      /\ \A v \in Waits : object'[v] = IF v = w THEN "created" ELSE object[v]
      /\ \E r \in {"Success", "Timeout"} :
           /\ r = "Success" => w \in signalled
           /\ \A v \in Waits : outcome'[v] = IF v = w THEN r ELSE outcome[v]
      /\ UNCHANGED <<state, result, callback, live, at, from, signalled,
                     winner, out, done, fatal, raced>>
  BY Types DEF ThreadPoolCallback, Goto, resultVars
<1>2. pc[w] = "idle" /\ at[w] = w
  BY <1>1 DEF IInv, Firing, FiringOf, RolesOK
<1>3. TypeOK'
  <2>1. /\ pc' = [pc EXCEPT ![w] = "fired"]
        /\ object' = [object EXCEPT ![w] = "created"]
    BY DEF ThreadPoolCallback, Goto
  <2>2. PICK r \in {"Success", "Timeout"} : outcome' = [outcome EXCEPT ![w] = r]
    BY <1>1, Types DEF ThreadPoolCallback, Goto
  <2> QED
    BY <1>1, WhoIsWho, StepNames, <2>1, <2>2 DEF IInv, TypeOK, Results
<1>4. RolesOK'
  BY <1>1, WhoIsWho DEF IInv, RolesOK, Callback
<1>5. NotStarted'
  BY <1>1, WhoIsWho DEF IInv, NotStarted
<1>6. Starting'
  BY <1>1, WhoIsWho, Places DEF IInv, Starting
<1>7. Firing'
  BY <1>1, WhoIsWho DEF IInv, Firing, FiringOf
<1>8. StopAsked'
  BY <1>1, WhoIsWho DEF IInv, StopAsked
<1>9. Cancels'
  BY <1>1, WhoIsWho, Places DEF IInv, Cancels, Canceling
<1>10. StopCallbacks'
  BY <1>1, WhoIsWho DEF IInv, StopCallbacks, StopCallbackOf
<1>11. Resumers'
  BY <1>1, <1>2, WhoIsWho, Places DEF IInv, Resumers, Resumer, Resumption
<1>12. OneOwner'
  BY <1>1 DEF IInv, OneOwner, Owning, Asking, Resumption
<1>13. StarterFirst'
  BY <1>1, WhoIsWho DEF IInv, StarterFirst, Owning, Asking, Resumption
<1>14. Asked'
  BY <1>1, WhoIsWho DEF IInv, Asked, Asker, Asking
<1>15. Resulting'
  BY <1>1, WhoIsWho DEF IInv, Resulting, Value
<1>16. /\ Lifetime' /\ AssertsOnlyWhenRaced'
  BY <1>1 DEF IInv, Lifetime, AssertsOnlyWhenRaced
<1> QED
  BY <1>3, <1>4, <1>5, <1>6, <1>7, <1>8, <1>9, <1>10, <1>11, <1>12, <1>13,
     <1>14, <1>15, <1>16
     DEF IInv

----------------------------------------------------------------------------
(* The callback: OnResult(). *)

LEMMA ResultsEarlyKeeps ==
  ASSUME IInv, fatal = "none", NEW w \in Waits, OnResult(w),
         state[w] = "StartingWait"
  PROVE  IInv'
<1>1. /\ state[w] = "StartingWait"
      /\ pc[w] = "fired"
      /\ \A b \in Actors : pc'[b] = IF b = w THEN "early" ELSE pc[b]
      /\ \A v \in Waits :
           state'[v] = IF v = w THEN "InCallbackBeforeWaiting" ELSE state[v]
      /\ UNCHANGED <<result, object, callback, live, at, from, outcome,
                     signalled, winner, out, done, fatal, raced>>
  BY Types DEF OnResult, Goto, resultVars
<1>2. TypeOK'
  <2>1. /\ pc' = [pc EXCEPT ![w] = "early"]
        /\ state' = [state EXCEPT ![w] = "InCallbackBeforeWaiting"]
    BY DEF OnResult, Goto
  <2> QED
    BY <1>1, WhoIsWho, StepNames, <2>1 DEF IInv, TypeOK, States
<1>3. RolesOK'
  BY <1>1, WhoIsWho DEF IInv, RolesOK, Callback
<1>4. NotStarted'
  BY <1>1, WhoIsWho DEF IInv, NotStarted
<1>5. Lifetime'
  BY <1>1 DEF IInv, Lifetime
<1>6. Starting'
  BY <1>1, WhoIsWho, Places DEF IInv, Starting
<1>7. Firing'
  BY <1>1, WhoIsWho DEF IInv, Firing, FiringOf
<1>8. StopAsked'
  BY <1>1, WhoIsWho DEF IInv, StopAsked
<1>9. Cancels'
  BY <1>1, WhoIsWho, Places DEF IInv, Cancels
<1>10. StopCallbacks'
  BY <1>1, WhoIsWho DEF IInv, StopCallbacks, StopCallbackOf
<1>11. Resumers'
  BY <1>1, WhoIsWho, Places DEF IInv, Resumers, Resumer, Resumption
<1>12. OneOwner'
  BY <1>1 DEF IInv, OneOwner, Owning, Asking, Resumption
<1>13. StarterFirst'
  BY <1>1, WhoIsWho DEF IInv, StarterFirst, Owning, Asking, Resumption
<1>14. Asked'
  BY <1>1, WhoIsWho, Places DEF IInv, Asked, Asker, Asking
<1>15. Resulting'
  BY <1>1, WhoIsWho DEF IInv, Resulting, Callback, Value
<1>16. AssertsOnlyWhenRaced'
  BY <1>1 DEF AssertsOnlyWhenRaced
<1> QED
  BY <1>2, <1>3, <1>4, <1>5, <1>6, <1>7, <1>8, <1>9, <1>10, <1>11, <1>12,
     <1>13, <1>14, <1>15, <1>16
     DEF IInv

LEMMA ResultsKeeps ==
  ASSUME IInv, fatal = "none", NEW w \in Waits, OnResult(w),
         state[w] = "Waiting"
  PROVE  IInv'
<1>1. /\ state[w] = "Waiting"
      /\ pc[w] = "fired"
      /\ \A b \in Actors : pc'[b] = IF b = w THEN "have" ELSE pc[b]
      /\ \A v \in Waits : state'[v] = IF v = w THEN "HaveResult" ELSE state[v]
      /\ UNCHANGED <<result, object, callback, live, at, from, outcome,
                     signalled, winner, out, done, fatal, raced>>
  BY Types DEF OnResult, Goto, resultVars
<1>2. at[w] = w
  BY DEF IInv, RolesOK
<1>3. at[Starter] = w => pc[Starter] \notin Suspension
  BY DEF IInv, Starting, Suspension
<1>4. TypeOK'
  <2>1. /\ pc' = [pc EXCEPT ![w] = "have"]
        /\ state' = [state EXCEPT ![w] = "HaveResult"]
    BY DEF OnResult, Goto
  <2> QED
    BY <1>1, WhoIsWho, StepNames, <2>1 DEF IInv, TypeOK, States
<1>5. RolesOK'
  BY <1>1, WhoIsWho DEF IInv, RolesOK, Callback
<1>6. NotStarted'
  BY <1>1, WhoIsWho DEF IInv, NotStarted
<1>7. Lifetime'
  BY <1>1 DEF IInv, Lifetime
<1>8. Starting'
  BY <1>1, WhoIsWho, Places DEF IInv, Starting
<1>9. Firing'
  BY <1>1, WhoIsWho DEF IInv, Firing, FiringOf
<1>10. StopAsked'
  BY <1>1, WhoIsWho DEF IInv, StopAsked
<1>11. Cancels'
  BY <1>1, WhoIsWho, Places DEF IInv, Cancels
<1>12. StopCallbacks'
  BY <1>1, WhoIsWho DEF IInv, StopCallbacks, StopCallbackOf
<1>13. Resumers'
  BY <1>1, WhoIsWho, Places DEF IInv, Resumers, Resumer, Resumption
<1>14. OneOwner'
  BY <1>1 DEF IInv, OneOwner, Owning, Asking, Resumption
<1>15. StarterFirst'
  BY <1>1, <1>2, <1>3, WhoIsWho DEF IInv, StarterFirst
<1>16. Asked'
  BY <1>1, WhoIsWho, Places DEF IInv, Asked, Asker, Asking
<1>17. Resulting'
  BY <1>1, WhoIsWho DEF IInv, Resulting, Callback, Value
<1>18. AssertsOnlyWhenRaced'
  BY <1>1 DEF AssertsOnlyWhenRaced
<1> QED
  BY <1>4, <1>5, <1>6, <1>7, <1>8, <1>9, <1>10, <1>11, <1>12, <1>13, <1>14,
     <1>15, <1>16, <1>17, <1>18
     DEF IInv

LEMMA ResultsCanceledKeeps ==
  ASSUME IInv, fatal = "none", NEW w \in Waits, OnResult(w),
         state[w] = "Canceling"
  PROVE  IInv'
<1>1. /\ state[w] = "Canceling"
      /\ pc[w] = "fired"
      /\ \A b \in Actors : pc'[b] = IF b = w THEN "gone" ELSE pc[b]
      /\ UNCHANGED <<state, result, object, callback, live, at, from, outcome,
                     signalled, winner, out, done, fatal, raced>>
  BY Types DEF OnResult, Goto, awaitableVars, resultVars
<1>2. TypeOK'
  <2>1. pc' = [pc EXCEPT ![w] = "gone"]
    BY DEF OnResult, Goto
  <2> QED
    BY <1>1, WhoIsWho, StepNames, <2>1 DEF IInv, TypeOK
<1>3. RolesOK'
  BY <1>1, WhoIsWho DEF IInv, RolesOK
<1>4. NotStarted'
  BY <1>1, WhoIsWho DEF IInv, NotStarted
<1>5. Starting'
  BY <1>1, WhoIsWho, Places DEF IInv, Starting
<1>6. Firing'
  BY <1>1, WhoIsWho DEF IInv, Firing, FiringOf
<1>7. StopAsked'
  BY <1>1, WhoIsWho DEF IInv, StopAsked
<1>8. Cancels'
  BY <1>1, WhoIsWho, Places DEF IInv, Cancels
<1>9. StopCallbacks'
  BY <1>1, WhoIsWho DEF IInv, StopCallbacks, StopCallbackOf
<1>10. Resumers'
  BY <1>1, WhoIsWho, Places DEF IInv, Resumers, Resumer, Resumption
<1>11. OneOwner'
  BY <1>1 DEF IInv, OneOwner, Owning, Asking, Resumption
<1>12. StarterFirst'
  BY <1>1, WhoIsWho DEF IInv, StarterFirst, Owning, Asking, Resumption
<1>13. Asked'
  BY <1>1, WhoIsWho DEF IInv, Asked, Asker, Asking
<1>14. Resulting'
  BY <1>1, WhoIsWho DEF IInv, Resulting, Callback, Value
<1>15. /\ Lifetime' /\ AssertsOnlyWhenRaced'
  BY <1>1 DEF IInv, Lifetime, AssertsOnlyWhenRaced
<1> QED
  BY <1>2, <1>3, <1>4, <1>5, <1>6, <1>7, <1>8, <1>9, <1>10, <1>11, <1>12,
     <1>13, <1>14, <1>15
     DEF IInv

LEMMA LeavesKeeps ==
  ASSUME IInv, fatal = "none", NEW w \in Waits, LeaveResult(w)
  PROVE  IInv'
<1>1. /\ pc[w] = "early"
      /\ \A b \in Actors : pc'[b] = IF b = w THEN "gone" ELSE pc[b]
      /\ \A v \in Waits : state'[v] = IF v = w THEN "HaveResult" ELSE state[v]
      /\ \A v \in Waits : result'[v] = IF v = w THEN outcome[w] ELSE result[v]
      /\ UNCHANGED <<object, callback, live, at, from, outcome, signalled,
                     winner, out, done, fatal, raced>>
  BY Types DEF LeaveResult, Goto, resultVars
<1>2. /\ at[w] = w /\ state[w] = "InCallbackBeforeWaiting"
      /\ outcome[w] \in {"Success", "Timeout"}
      /\ outcome[w] = "Success" => w \in signalled
  BY <1>1
     DEF IInv, RolesOK, Firing, FiringOf, Resulting, TypeOK, Callback, Results
<1>3. w \notin done /\ winner # w
  BY <1>2 DEF IInv, Asked
<1>4. TypeOK'
  <2>1. /\ pc' = [pc EXCEPT ![w] = "gone"]
        /\ state' = [state EXCEPT ![w] = "HaveResult"]
        /\ result' = [result EXCEPT ![w] = outcome[w]]
    BY DEF LeaveResult, Goto
  <2> QED
    BY <1>1, WhoIsWho, StepNames, <2>1 DEF IInv, TypeOK, States
<1>5. RolesOK'
  BY <1>1, WhoIsWho DEF IInv, RolesOK
<1>6. NotStarted'
  BY <1>1, WhoIsWho DEF IInv, NotStarted
<1>7. Lifetime'
  BY <1>1, <1>2 DEF IInv, Lifetime
<1>8. Starting'
  BY <1>1, <1>2, WhoIsWho, Places DEF IInv, Starting
<1>9. Firing'
  BY <1>1, <1>2, WhoIsWho DEF IInv, Firing, FiringOf
<1>10. StopAsked'
  BY <1>1, WhoIsWho DEF IInv, StopAsked
<1>11. Cancels'
  BY <1>1, WhoIsWho, Places DEF IInv, Cancels
<1>12. StopCallbacks'
  BY <1>1, <1>2, WhoIsWho DEF IInv, StopCallbacks, StopCallbackOf
<1>13. Resumers'
  BY <1>1, <1>2, WhoIsWho, Places DEF IInv, Resumers, Resumer, Resumption
<1>14. OneOwner'
  BY <1>1 DEF IInv, OneOwner, Owning, Asking, Resumption
<1>15. StarterFirst'
  BY <1>1, WhoIsWho DEF IInv, StarterFirst, Owning, Asking, Resumption
<1>16. Asked'
  BY <1>1, <1>2, WhoIsWho, Places DEF IInv, Asked, Asker, Asking
<1>17. Resulting'
  BY <1>1, <1>3, WhoIsWho, Places DEF IInv, Resulting, Callback, Value
<1>18. AssertsOnlyWhenRaced'
  BY <1>1 DEF AssertsOnlyWhenRaced
<1> QED
  BY <1>4, <1>5, <1>6, <1>7, <1>8, <1>9, <1>10, <1>11, <1>12, <1>13, <1>14,
     <1>15, <1>16, <1>17, <1>18
     DEF IInv

LEMMA TakesKeeps ==
  ASSUME IInv, fatal = "none", NEW w \in Waits, TakeResult(w)
  PROVE  IInv'
<1>1. /\ pc[w] = "have"
      /\ \A b \in Actors : pc'[b] = IF b = w THEN "resuming" ELSE pc[b]
      /\ \A v \in Waits : result'[v] = IF v = w THEN outcome[w] ELSE result[v]
      /\ \A b \in Actors : from'[b] = IF b = w THEN "HaveResult" ELSE from[b]
      /\ UNCHANGED <<state, object, callback, live, at, outcome, signalled,
                     winner, out, done, fatal, raced>>
  BY Types DEF TakeResult, BeginResume, Goto, resultVars
<1>2. /\ at[w] = w /\ state[w] = "HaveResult"
      /\ outcome[w] \in {"Success", "Timeout"}
      /\ outcome[w] = "Success" => w \in signalled
  BY <1>1
     DEF IInv, RolesOK, Firing, FiringOf, Resulting, TypeOK, Callback, Results
<1>3. winner # w
  BY <1>2 DEF IInv, Asked
<1>4. \A b \in Actors : at[b] = w => pc[b] \notin Owning
  BY <1>1, <1>2, Owners DEF IInv, Resumers, Resumer, Resumption, Owning
<1>5. TypeOK'
  <2>1. /\ pc' = [pc EXCEPT ![w] = "resuming"]
        /\ result' = [result EXCEPT ![w] = outcome[w]]
        /\ from' = [from EXCEPT ![w] = "HaveResult"]
    BY DEF TakeResult, BeginResume, Goto
  <2> QED
    BY <1>1, WhoIsWho, StepNames, <2>1 DEF IInv, TypeOK, States
<1>6. RolesOK'
  BY <1>1, WhoIsWho DEF IInv, RolesOK, Owning, Resumption
<1>7. NotStarted'
  BY <1>1, WhoIsWho DEF IInv, NotStarted
<1>8. Starting'
  BY <1>1, WhoIsWho, Places DEF IInv, Starting
<1>9. Firing'
  BY <1>1, <1>2, WhoIsWho DEF IInv, Firing, FiringOf
<1>10. StopAsked'
  BY <1>1, WhoIsWho DEF IInv, StopAsked
<1>11. Cancels'
  BY <1>1, WhoIsWho, Places DEF IInv, Cancels
<1>12. StopCallbacks'
  BY <1>1, WhoIsWho DEF IInv, StopCallbacks, StopCallbackOf
<1>13. Resumers'
  BY <1>1, <1>2, WhoIsWho, Places DEF IInv, Resumers, Resumer
<1>14. OneOwner'
  BY <1>1, <1>2, <1>4 DEF IInv, OneOwner
<1>15. StarterFirst'
  BY <1>1, WhoIsWho DEF IInv, StarterFirst
<1>16. Asked'
  BY <1>1, WhoIsWho DEF IInv, Asked, Asker, Asking
<1>17. Resulting'
  BY <1>1, <1>3, WhoIsWho, Places DEF IInv, Resulting, Callback, Value
<1>18. /\ Lifetime' /\ AssertsOnlyWhenRaced'
  BY <1>1 DEF IInv, Lifetime, AssertsOnlyWhenRaced
<1> QED
  BY <1>5, <1>6, <1>7, <1>8, <1>9, <1>10, <1>11, <1>12, <1>13, <1>14, <1>15,
     <1>16, <1>17, <1>18
     DEF IInv

----------------------------------------------------------------------------
(* ResumeFrom(), by whoever won the race for the awaitable. *)

LEMMA ResumingsKeeps ==
  ASSUME IInv, fatal = "none", NEW a \in Actors, Resuming(a)
  PROVE  IInv'
<1>1. PICK w \in Waits : w = at[a]
  BY Types
<1>2. /\ pc[a] = "resuming"
      /\ \A b \in Actors : pc'[b] = IF b = a THEN "reset" ELSE pc[b]
      /\ \A v \in Waits : state'[v] = IF v = w THEN "Resuming" ELSE state[v]
      /\ UNCHANGED <<result, object, callback, live, at, from, outcome,
                     signalled, winner, out, done, fatal, raced>>
  BY <1>1, Types
     DEF IInv, Resumers, Resumer, Resumption, Resuming, Goto, resultVars
<1>3. /\ state[w] = from[a] /\ result[w] # "Pending"
      /\ from[a] \in {"HaveResult", "Canceling", "CancelingBeforeDispatch"}
  BY <1>1, <1>2 DEF IInv, Resumers, Resumer, Resumption
<1>4. \A b \in Actors \ {a} : at[b] = w => pc[b] \notin Owning
  BY <1>1, <1>2 DEF IInv, OneOwner, Owning, Resumption
<1>5. a \in Waits => a = w
  BY <1>1 DEF IInv, RolesOK
<1>6. pc[w] \notin {"early", "have"}
  BY <1>1, <1>2 DEF IInv, Resumers, Resumer, Firing, FiringOf, Resumption
<1>7. a # Starter /\ at[Starter] = w => pc[Starter] \notin Suspension
  BY <1>1, <1>2 DEF IInv, StarterFirst, Owning, Resumption
<1>8. TypeOK'
  <2>1. /\ pc' = [pc EXCEPT ![a] = "reset"]
        /\ state' = [state EXCEPT ![w] = "Resuming"]
    BY <1>1 DEF IInv, Resumers, Resumer, Resumption, Resuming, Goto
  <2> QED
    BY <1>2, StepNames, <2>1 DEF IInv, TypeOK, States
<1>9. RolesOK'
  BY <1>2, WhoIsWho DEF IInv, RolesOK, Owning, Resumption
<1>10. NotStarted'
  BY <1>2, <1>3, WhoIsWho DEF IInv, NotStarted
<1>11. Lifetime'
  BY <1>2, <1>3 DEF IInv, Lifetime
<1>12. Starting'
  BY <1>2, <1>7, WhoIsWho, Places DEF IInv, Starting, Suspension
<1>13. Firing'
  BY <1>2, <1>3, <1>5, <1>6, WhoIsWho DEF IInv, Firing, FiringOf
<1>14. StopAsked'
  BY <1>2, WhoIsWho DEF IInv, StopAsked
<1>15. Cancels'
  BY <1>2, WhoIsWho, Places DEF IInv, Cancels, Canceling
<1>16. StopCallbacks'
  BY <1>2, <1>3, WhoIsWho DEF IInv, StopCallbacks, StopCallbackOf
<1>17. Resumers'
  <2>1. ASSUME NEW b \in Actors, b # a, pc'[b] \in Resumption
        PROVE  Resumer(b)'
    <3>1. /\ pc[b] \in Resumption /\ pc'[b] = pc[b]
          /\ at'[b] = at[b] /\ at[b] \in Waits /\ at[b] # w
      BY <2>1, <1>2, <1>4, Places DEF Owning
    <3>2. pc'[at[b]] = pc[at[b]]
      BY <3>1, <1>2, <1>5, WhoIsWho
    <3>3. Resumer(b)
      BY <3>1 DEF IInv, Resumers
    <3> QED
      BY <1>2, <3>1, <3>2, <3>3 DEF Resumer
  <2>2. pc'[a] \in Resumption => Resumer(a)'
    BY <1>1, <1>2, WhoIsWho DEF IInv, Resumers, Resumer, Resumption
  <2> QED
    BY <2>1, <2>2 DEF Resumers
<1>18. OneOwner'
  BY <1>2 DEF IInv, OneOwner, Owning, Resumption
<1>19. StarterFirst'
  BY <1>2, WhoIsWho DEF IInv, StarterFirst, Owning, Resumption, Suspension
<1>20. Asked'
  BY <1>2, <1>3, WhoIsWho, Places DEF IInv, Asked, Asker, Asking
<1>21. Resulting'
  BY <1>2, <1>3, WhoIsWho DEF IInv, Resulting, Callback, Value
<1>22. AssertsOnlyWhenRaced'
  BY <1>2 DEF AssertsOnlyWhenRaced
<1> QED
  BY <1>8, <1>9, <1>10, <1>11, <1>12, <1>13, <1>14, <1>15, <1>16, <1>17,
     <1>18, <1>19, <1>20, <1>21, <1>22
     DEF IInv

LEMMA ResetsKeeps ==
  ASSUME IInv, fatal = "none", NEW a \in Actors, ResetStopCallback(a)
  PROVE  IInv'
<1>1. PICK w \in Waits : w = at[a]
  BY Types
<1>2. /\ pc[a] = "reset"
      /\ a = Canceler \/ callback[w] # "running"
      /\ \A b \in Actors :
           pc'[b] = IF b # a THEN pc[b]
                    ELSE IF from[a] = "Canceling" THEN "clear" ELSE "resume"
      /\ \A v \in Waits : callback'[v] = IF v = w THEN "none" ELSE callback[v]
      /\ UNCHANGED <<state, result, object, live, at, from, outcome, signalled,
                     winner, out, done, fatal, raced>>
  BY <1>1, Types DEF ResetStopCallback, Goto, resultVars
<1>3. from[a] # "Canceling" =>
        object[w] # "armed" /\ (pc[w] \notin Callback \/ a = w)
  BY <1>1, <1>2
     DEF IInv, Resumers, Resumer, Resumption, Firing, FiringOf, Callback
<1>4. TypeOK'
  <2>1. /\ pc' = [pc EXCEPT ![a] =
                    IF from[a] = "Canceling" THEN "clear" ELSE "resume"]
        /\ callback' = [callback EXCEPT ![w] = "none"]
    BY <1>1 DEF ResetStopCallback, Goto
  <2> QED
    BY <1>2, StepNames, <2>1 DEF IInv, TypeOK
<1>5. RolesOK'
  BY <1>2, WhoIsWho DEF IInv, RolesOK, Owning, Resumption
<1>6. NotStarted'
  BY <1>2, WhoIsWho DEF IInv, NotStarted
<1>7. Starting'
  BY <1>2, WhoIsWho, Places DEF IInv, Starting, Suspension
<1>8. Firing'
  BY <1>2, WhoIsWho DEF IInv, Firing, FiringOf
<1>9. StopAsked'
  BY <1>2, WhoIsWho DEF IInv, StopAsked
<1>10. Cancels'
  BY <1>2, WhoIsWho, Places DEF IInv, Cancels, Canceling
<1>11. StopCallbacks'
  BY <1>1, <1>2, WhoIsWho DEF IInv, StopCallbacks, StopCallbackOf
<1>12. Resumers'
  BY <1>1, <1>2, <1>3, WhoIsWho, Places
     DEF IInv, Resumers, Resumer, Resumption, Callback
<1>13. OneOwner'
  BY <1>2 DEF IInv, OneOwner, Owning, Resumption
<1>14. StarterFirst'
  BY <1>2, WhoIsWho DEF IInv, StarterFirst, Owning, Resumption, Suspension
<1>15. Asked'
  BY <1>2, WhoIsWho DEF IInv, Asked, Asker, Asking
<1>16. Resulting'
  BY <1>2, WhoIsWho DEF IInv, Resulting, Callback, Value
<1>17. /\ Lifetime' /\ AssertsOnlyWhenRaced'
  BY <1>2 DEF IInv, Lifetime, AssertsOnlyWhenRaced
<1> QED
  BY <1>4, <1>5, <1>6, <1>7, <1>8, <1>9, <1>10, <1>11, <1>12, <1>13, <1>14,
     <1>15, <1>16, <1>17
     DEF IInv

LEMMA ClearsKeeps ==
  ASSUME IInv, fatal = "none", NEW a \in Actors, ClearWait(a)
  PROVE  IInv'
<1>1. PICK w \in Waits : w = at[a]
  BY Types
<1>2. /\ pc[a] = "clear"
      /\ \A b \in Actors : pc'[b] = IF b = a THEN "drain" ELSE pc[b]
      /\ \A v \in Waits : object'[v] = IF v = w THEN "created" ELSE object[v]
      /\ UNCHANGED <<state, result, callback, live, at, from, outcome,
                     signalled, winner, out, done, fatal, raced>>
  BY <1>1, Types DEF ClearWait, Goto, resultVars
<1>3. state[w] = "Resuming" /\ from[a] = "Canceling" /\ callback[w] = "none"
  BY <1>1, <1>2 DEF IInv, Resumers, Resumer, Resumption
<1>4. \A b \in Actors \ {a} : at[b] = w => pc[b] \notin Owning
  BY <1>1, <1>2 DEF IInv, OneOwner, Owning, Resumption
<1>5. a \in Waits => a = w
  BY <1>1 DEF IInv, RolesOK
<1>6. TypeOK'
  <2>1. /\ pc' = [pc EXCEPT ![a] = "drain"]
        /\ object' = [object EXCEPT ![w] = "created"]
    BY <1>1 DEF ClearWait, Goto
  <2> QED
    BY <1>2, StepNames, <2>1 DEF IInv, TypeOK
<1>7. RolesOK'
  BY <1>2, WhoIsWho DEF IInv, RolesOK, Owning, Resumption
<1>8. NotStarted'
  BY <1>2, <1>3, WhoIsWho DEF IInv, NotStarted
<1>9. Starting'
  BY <1>2, <1>3, WhoIsWho, Places DEF IInv, Starting, Suspension
<1>10. Firing'
  BY <1>2, <1>3, WhoIsWho DEF IInv, Firing, FiringOf
<1>11. StopAsked'
  BY <1>2, WhoIsWho DEF IInv, StopAsked
<1>12. Cancels'
  BY <1>2, WhoIsWho, Places DEF IInv, Cancels, Canceling
<1>13. StopCallbacks'
  BY <1>2, WhoIsWho DEF IInv, StopCallbacks, StopCallbackOf, Canceling
<1>14. Resumers'
  <2>1. ASSUME NEW b \in Actors, b # a, pc'[b] \in Resumption
        PROVE  Resumer(b)'
    <3>1. /\ pc[b] \in Resumption /\ pc'[b] = pc[b]
          /\ at'[b] = at[b] /\ at[b] \in Waits /\ at[b] # w
      BY <2>1, <1>2, <1>4, Places DEF Owning
    <3>2. pc'[at[b]] = pc[at[b]]
      BY <3>1, <1>2, <1>5, WhoIsWho
    <3>3. Resumer(b)
      BY <3>1 DEF IInv, Resumers
    <3> QED
      BY <1>2, <3>1, <3>2, <3>3 DEF Resumer
  <2>2. pc'[a] \in Resumption => Resumer(a)'
    BY <1>1, <1>2 DEF IInv, Resumers, Resumer, Resumption
  <2> QED
    BY <2>1, <2>2 DEF Resumers
<1>15. OneOwner'
  BY <1>2 DEF IInv, OneOwner, Owning, Resumption
<1>16. StarterFirst'
  BY <1>2, WhoIsWho DEF IInv, StarterFirst, Owning, Resumption, Suspension
<1>17. Asked'
  BY <1>2, WhoIsWho DEF IInv, Asked, Asker, Asking
<1>18. Resulting'
  BY <1>2, WhoIsWho DEF IInv, Resulting, Callback, Value
<1>19. /\ Lifetime' /\ AssertsOnlyWhenRaced'
  BY <1>2 DEF IInv, Lifetime, AssertsOnlyWhenRaced
<1> QED
  BY <1>6, <1>7, <1>8, <1>9, <1>10, <1>11, <1>12, <1>13, <1>14, <1>15, <1>16,
     <1>17, <1>18, <1>19
     DEF IInv

LEMMA DrainsKeeps ==
  ASSUME IInv, fatal = "none", NEW a \in Actors, DrainCallbacks(a)
  PROVE  IInv'
<1>1. PICK w \in Waits : w = at[a]
  BY Types
<1>2. /\ pc[a] = "drain"
      /\ pc[w] \notin Callback
      /\ \A b \in Actors : pc'[b] = IF b = a THEN "resume" ELSE pc[b]
      /\ UNCHANGED <<state, result, object, callback, live, at, from, outcome,
                     signalled, winner, out, done, fatal, raced>>
  BY <1>1, Types
     DEF DrainCallbacks, InPoolCallback, Goto, awaitableVars, resultVars
<1>3. TypeOK'
  <2>1. pc' = [pc EXCEPT ![a] = "resume"]
    BY DEF DrainCallbacks, Goto
  <2> QED
    BY <1>2, StepNames, <2>1 DEF IInv, TypeOK
<1>4. RolesOK'
  BY <1>2, WhoIsWho DEF IInv, RolesOK, Owning, Resumption
<1>5. NotStarted'
  BY <1>2, WhoIsWho DEF IInv, NotStarted
<1>6. Starting'
  BY <1>2, WhoIsWho, Places DEF IInv, Starting, Suspension
<1>7. Firing'
  BY <1>2, WhoIsWho DEF IInv, Firing, FiringOf
<1>8. StopAsked'
  BY <1>2, WhoIsWho DEF IInv, StopAsked
<1>9. Cancels'
  BY <1>2, WhoIsWho, Places DEF IInv, Cancels, Canceling
<1>10. StopCallbacks'
  BY <1>2, WhoIsWho DEF IInv, StopCallbacks, StopCallbackOf, Canceling
<1>11. Resumers'
  BY <1>1, <1>2, WhoIsWho, Places
     DEF IInv, Resumers, Resumer, Resumption, Callback
<1>12. OneOwner'
  BY <1>2 DEF IInv, OneOwner, Owning, Resumption
<1>13. StarterFirst'
  BY <1>2, WhoIsWho DEF IInv, StarterFirst, Owning, Resumption, Suspension
<1>14. Asked'
  BY <1>2, WhoIsWho DEF IInv, Asked, Asker, Asking
<1>15. Resulting'
  BY <1>2, WhoIsWho DEF IInv, Resulting, Callback, Value
<1>16. /\ Lifetime' /\ AssertsOnlyWhenRaced'
  BY <1>2 DEF IInv, Lifetime, AssertsOnlyWhenRaced
<1> QED
  BY <1>3, <1>4, <1>5, <1>6, <1>7, <1>8, <1>9, <1>10, <1>11, <1>12, <1>13,
     <1>14, <1>15, <1>16
     DEF IInv

LEMMA ResumesOwnKeeps ==
  ASSUME IInv, fatal = "none", NEW a \in Actors, Resume(a), a # Canceler
  PROVE  IInv'
<1>1. PICK w \in Waits : w = at[a]
  BY Types
<1>2. /\ a # Canceler
      /\ pc[a] = "resume"
      /\ \A b \in Actors : pc'[b] = IF b = a THEN "stop" ELSE pc[b]
      /\ \A v \in Waits : object'[v] = IF v = w THEN "closed" ELSE object[v]
      /\ \A v \in Waits : state'[v] = IF v = w THEN "Resumed" ELSE state[v]
      /\ live' = live \ {w}
      /\ UNCHANGED <<result, callback, at, from, outcome, signalled, winner,
                     out, done, fatal, raced>>
  BY <1>1, Types DEF Resume, Goto
<1>3. /\ state[w] = "Resuming" /\ callback[w] = "none" /\ object[w] # "armed"
      /\ pc[w] \notin Callback
  BY <1>1, <1>2 DEF IInv, Resumers, Resumer, Resumption
<1>4. \A b \in Actors \ {a} : at[b] = w => pc[b] \notin Owning
  BY <1>1, <1>2 DEF IInv, OneOwner, Owning, Resumption
<1>5. a \in Waits => a = w
  BY <1>1 DEF IInv, RolesOK
<1>6. TypeOK'
  <2>1. /\ pc' = [pc EXCEPT ![a] = "stop"]
        /\ object' = [object EXCEPT ![w] = "closed"]
        /\ state' = [state EXCEPT ![w] = "Resumed"]
    BY <1>1 DEF Resume, Goto
  <2> QED
    BY <1>2, StepNames, <2>1 DEF IInv, TypeOK, States
<1>7. RolesOK'
  BY <1>2, WhoIsWho DEF IInv, RolesOK, Owning, Asking
<1>8. NotStarted'
  BY <1>2, <1>3, WhoIsWho DEF IInv, NotStarted
<1>9. Lifetime'
  BY <1>2 DEF IInv, Lifetime
<1>10. Starting'
  BY <1>2, <1>3, WhoIsWho, Places DEF IInv, Starting, Suspension
<1>11. Firing'
  <2>1. FiringOf(w)'
    BY <1>2, <1>3, WhoIsWho DEF FiringOf, Callback
  <2>2. ASSUME NEW v \in Waits, v # w
        PROVE  FiringOf(v)'
    <3>1. FiringOf(v) /\ pc'[v] = pc[v]
      BY <2>2, <1>2, <1>5, WhoIsWho DEF IInv, Firing
    <3> QED
      BY <1>2, <2>2, <3>1 DEF FiringOf
  <2> QED
    BY <2>1, <2>2 DEF Firing
<1>12. StopAsked'
  BY <1>2, WhoIsWho DEF IInv, StopAsked
<1>13. Cancels'
  BY <1>2, <1>3, WhoIsWho, Places DEF IInv, Cancels
<1>14. StopCallbacks'
  BY <1>2, <1>3, WhoIsWho DEF IInv, StopCallbacks, StopCallbackOf
<1>15. Resumers'
  <2>1. ASSUME NEW b \in Actors, b # a, pc'[b] \in Resumption
        PROVE  Resumer(b)'
    <3>1. /\ pc[b] \in Resumption /\ pc'[b] = pc[b]
          /\ at'[b] = at[b] /\ at[b] \in Waits /\ at[b] # w
      BY <2>1, <1>2, <1>4, Places DEF Owning
    <3>2. pc'[at[b]] = pc[at[b]]
      BY <3>1, <1>2, <1>5, WhoIsWho
    <3>3. Resumer(b)
      BY <3>1 DEF IInv, Resumers
    <3> QED
      BY <1>2, <3>1, <3>2, <3>3 DEF Resumer
  <2>2. pc'[a] \in Resumption => Resumer(a)'
    BY <1>2 DEF Resumption
  <2> QED
    BY <2>1, <2>2 DEF Resumers
<1>16. OneOwner'
  BY <1>2 DEF IInv, OneOwner, Owning, Resumption
<1>17. StarterFirst'
  BY <1>2, WhoIsWho DEF IInv, StarterFirst, Owning, Resumption, Suspension
<1>18. Asked'
  BY <1>1, <1>2, <1>3, WhoIsWho, Places DEF IInv, Asked, Asker
<1>19. Resulting'
  BY <1>2, <1>3, WhoIsWho DEF IInv, Resulting, Callback, Value
<1>20. AssertsOnlyWhenRaced'
  BY <1>2 DEF AssertsOnlyWhenRaced
<1> QED
  BY <1>6, <1>7, <1>8, <1>9, <1>10, <1>11, <1>12, <1>13, <1>14, <1>15, <1>16,
     <1>17, <1>18, <1>19, <1>20
     DEF IInv

LEMMA ResumesCanceledKeeps ==
  ASSUME IInv, fatal = "none", Resume(Canceler)
  PROVE  IInv'
<1>1. PICK w \in Waits : w = at[Canceler]
  BY WhoIsWho, Types
<1>2. /\ pc[Canceler] = "resume"
      /\ \A b \in Actors : pc'[b] = IF b = Canceler THEN "next" ELSE pc[b]
      /\ \A v \in Waits : object'[v] = IF v = w THEN "closed" ELSE object[v]
      /\ \A v \in Waits : state'[v] = IF v = w THEN "Resumed" ELSE state[v]
      /\ live' = live \ {w}
      /\ done' = done \cup {w}
      /\ UNCHANGED <<result, callback, at, from, outcome, signalled, winner,
                     out, fatal, raced>>
  BY <1>1, Types DEF Resume, Goto
<1>3. /\ state[w] = "Resuming" /\ callback[w] = "none" /\ object[w] # "armed"
      /\ pc[w] \notin Callback /\ winner # Nobody
  BY <1>1, <1>2, WhoIsWho DEF IInv, Resumers, Resumer, StopAsked, Resumption
<1>4. winner # w
  BY <1>3 DEF IInv, Asked
<1>5. \A b \in Actors \ {Canceler} : at[b] = w => pc[b] \notin Owning
  BY <1>1, <1>2, WhoIsWho DEF IInv, OneOwner, Owning, Resumption
<1>6. TypeOK'
  <2>1. /\ pc' = [pc EXCEPT ![Canceler] = "next"]
        /\ object' = [object EXCEPT ![w] = "closed"]
        /\ state' = [state EXCEPT ![w] = "Resumed"]
    BY <1>1 DEF Resume, Goto
  <2> QED
    BY <1>2, WhoIsWho, StepNames, <2>1 DEF IInv, TypeOK, States
<1>7. RolesOK'
  BY <1>2, WhoIsWho DEF IInv, RolesOK
<1>8. NotStarted'
  BY <1>2, <1>3, WhoIsWho DEF IInv, NotStarted
<1>9. Lifetime'
  BY <1>2 DEF IInv, Lifetime
<1>10. Starting'
  BY <1>2, <1>3, WhoIsWho, Places DEF IInv, Starting, Suspension
<1>11. Firing'
  <2>1. FiringOf(w)'
    BY <1>2, <1>3, WhoIsWho DEF FiringOf, Callback
  <2>2. ASSUME NEW v \in Waits, v # w
        PROVE  FiringOf(v)'
    <3>1. FiringOf(v) /\ pc'[v] = pc[v]
      BY <1>2, WhoIsWho DEF IInv, Firing
    <3> QED
      BY <1>2, <2>2, <3>1 DEF FiringOf
  <2> QED
    BY <2>1, <2>2 DEF Firing
<1>12. StopAsked'
  BY <1>2, WhoIsWho DEF IInv, StopAsked
<1>13. Cancels'
  BY <1>2, WhoIsWho DEF Cancels, Canceling
<1>14. StopCallbacks'
  BY <1>2, <1>3, WhoIsWho DEF IInv, StopCallbacks, StopCallbackOf, Canceling
<1>15. Resumers'
  <2>1. ASSUME NEW b \in Actors, b # Canceler, pc'[b] \in Resumption
        PROVE  Resumer(b)'
    <3>1. /\ pc[b] \in Resumption /\ pc'[b] = pc[b]
          /\ at'[b] = at[b] /\ at[b] \in Waits /\ at[b] # w
      BY <2>1, <1>2, <1>5, Places DEF Owning
    <3>2. pc'[at[b]] = pc[at[b]]
      BY <1>2, WhoIsWho, Places
    <3>3. Resumer(b)
      BY <3>1 DEF IInv, Resumers
    <3> QED
      BY <1>2, <3>1, <3>2, <3>3 DEF Resumer
  <2>2. pc'[Canceler] \in Resumption => Resumer(Canceler)'
    BY <1>2, WhoIsWho DEF Resumption
  <2> QED
    BY <2>1, <2>2 DEF Resumers
<1>16. OneOwner'
  BY <1>2 DEF IInv, OneOwner, Owning, Resumption
<1>17. StarterFirst'
  BY <1>2, WhoIsWho DEF IInv, StarterFirst, Owning, Resumption
<1>18. Asked'
  BY <1>2, <1>3, WhoIsWho, Places DEF IInv, Asked, Asker, Asking
<1>19. Resulting'
  BY <1>2, <1>3, <1>4, WhoIsWho DEF IInv, Resulting, Value
<1>20. AssertsOnlyWhenRaced'
  BY <1>2 DEF AssertsOnlyWhenRaced
<1> QED
  BY <1>6, <1>7, <1>8, <1>9, <1>10, <1>11, <1>12, <1>13, <1>14, <1>15, <1>16,
     <1>17, <1>18, <1>19, <1>20
     DEF IInv

----------------------------------------------------------------------------
(* The resumed coroutine: request_stop() and the result. *)

LEMMA AsksFirstKeeps ==
  ASSUME IInv, fatal = "none", NEW a \in Actors, RequestStop(a),
         winner = Nobody
  PROVE  IInv'
<1>1. PICK w \in Waits : w = at[a]
  BY Types
<1>2. /\ winner = Nobody
      /\ pc[a] = "stop"
      /\ winner = Nobody
      /\ \A b \in Actors : pc'[b] = IF b = Canceler THEN "next"
                                     ELSE IF b = a THEN "stopping" ELSE pc[b]
      /\ winner' = w
      /\ UNCHANGED <<state, result, object, callback, live, at, from, outcome,
                     signalled, out, done, fatal, raced>>
  BY <1>1, Types DEF RequestStop, awaitableVars
<1>3. a # Canceler /\ state[w] = "Resumed" /\ pc[Canceler] = "idle"
  BY <1>1, <1>2 DEF IInv, Asked, Asker, StopAsked, Asking
<1>4. \A b \in Actors \ {a} : at[b] = w => pc[b] \notin Owning
  BY <1>1, <1>2 DEF IInv, OneOwner, Owning, Asking
<1>5. done = {}
  BY DEF IInv, Asked
<1>6. TypeOK'
  <2>1. pc' = [pc EXCEPT ![a] = "stopping", ![Canceler] = "next"]
    BY DEF RequestStop
  <2> QED
    BY <1>2, WhoIsWho, StepNames, <2>1 DEF IInv, TypeOK
<1>7. RolesOK'
  BY <1>2, WhoIsWho DEF IInv, RolesOK, Owning, Asking
<1>8. NotStarted'
  BY <1>2, WhoIsWho DEF IInv, NotStarted
<1>9. Starting'
  BY <1>2, WhoIsWho, Places DEF IInv, Starting, Suspension
<1>10. Firing'
  BY <1>2, WhoIsWho DEF IInv, Firing, FiringOf
<1>11. StopAsked'
  BY <1>2, WhoIsWho DEF StopAsked
<1>12. Cancels'
  BY <1>2, WhoIsWho DEF Cancels, Canceling
<1>13. StopCallbacks'
  BY <1>2, <1>3, WhoIsWho DEF IInv, StopCallbacks, StopCallbackOf, Canceling
<1>14. Resumers'
  BY <1>2, WhoIsWho, Places DEF IInv, Resumers, Resumer, Resumption, Callback
<1>15. OneOwner'
  BY <1>2 DEF IInv, OneOwner, Owning, Asking, Resumption
<1>16. StarterFirst'
  BY <1>2, WhoIsWho
     DEF IInv, StarterFirst, Owning, Asking, Resumption, Suspension
<1>17. Asked'
  <2>1. ASSUME NEW b \in Actors, pc'[b] \in Asking
        PROVE  Asker(b)'
    <3>1. CASE b = a
      BY <1>1, <1>2, <1>3, <3>1 DEF Asker
    <3>2. CASE b # a
      <4>1. pc[b] \in Asking /\ pc'[b] = pc[b] /\ at[b] \in Waits /\ at[b] # w
        BY <1>2, <1>4, <2>1, <3>2, Places DEF Asking, Owning
      <4>2. Asker(b)
        BY <4>1 DEF IInv, Asked
      <4> QED
        BY <1>2, <4>1, <4>2, WhoIsWho DEF Asker
    <3> QED
      BY <3>1, <3>2
  <2>2. /\ \A v \in done' : state'[v] = "Resumed"
        /\ done' # {} => winner' # Nobody
        /\ winner' \in Waits => state'[winner'] = "Resumed"
        /\ pc'[Starter] = "returned" => done' = Waits
        /\ pc'[Starter] = "refused" =>
             at'[Starter] = 1 /\ winner' = External
    BY <1>2, <1>3, WhoIsWho DEF IInv, Asked
  <2> QED
    BY <2>1, <2>2 DEF Asked
<1>18. Resulting'
  BY <1>2, <1>5, WhoIsWho DEF IInv, Resulting, Callback
<1>19. /\ Lifetime' /\ AssertsOnlyWhenRaced'
  BY <1>2 DEF IInv, Lifetime, AssertsOnlyWhenRaced
<1> QED
  BY <1>6, <1>7, <1>8, <1>9, <1>10, <1>11, <1>12, <1>13, <1>14, <1>15, <1>16,
     <1>17, <1>18, <1>19
     DEF IInv

LEMMA AsksKeeps ==
  ASSUME IInv, fatal = "none", NEW a \in Actors, RequestStop(a),
         winner # Nobody /\ a # Starter
  PROVE  IInv'
<1>1. PICK w \in Waits : w = at[a]
  BY Types
<1>2. /\ winner # Nobody /\ a # Starter
      /\ pc[a] = "stop"
      /\ \A b \in Actors : pc'[b] = IF b = a THEN "gone" ELSE pc[b]
      /\ done' = done \cup {w}
      /\ UNCHANGED <<state, result, object, callback, live, at, from, outcome,
                     signalled, winner, out, fatal, raced>>
  BY <1>1, Types DEF RequestStop, Return, Goto, awaitableVars
<1>3. state[w] = "Resumed" /\ w # winner /\ a \in Waits /\ a = w
  BY <1>1, <1>2, WhoIsWho
     DEF IInv, Asked, Asker, Asking, RolesOK, Resumption, Canceling
<1>4. TypeOK'
  <2>1. pc' = [pc EXCEPT ![a] = "gone"]
    BY DEF RequestStop, Return, Goto
  <2> QED
    BY <1>2, StepNames, <2>1 DEF IInv, TypeOK
<1>5. RolesOK'
  BY <1>2, WhoIsWho DEF IInv, RolesOK
<1>6. NotStarted'
  BY <1>2, WhoIsWho DEF IInv, NotStarted
<1>7. Starting'
  BY <1>2, WhoIsWho, Places DEF IInv, Starting
<1>8. Firing'
  BY <1>2, WhoIsWho DEF IInv, Firing, FiringOf
<1>9. StopAsked'
  BY <1>2, WhoIsWho DEF IInv, StopAsked
<1>10. Cancels'
  BY <1>2, WhoIsWho, Places DEF IInv, Cancels, Canceling
<1>11. StopCallbacks'
  BY <1>2, WhoIsWho DEF IInv, StopCallbacks, StopCallbackOf, Canceling
<1>12. Resumers'
  BY <1>2, WhoIsWho, Places DEF IInv, Resumers, Resumer, Resumption, Callback
<1>13. OneOwner'
  BY <1>2 DEF IInv, OneOwner, Owning, Asking
<1>14. StarterFirst'
  BY <1>2, WhoIsWho DEF IInv, StarterFirst, Owning, Asking
<1>15. Asked'
  BY <1>1, <1>2, WhoIsWho DEF IInv, Asked, Asker, Asking
<1>16. Resulting'
  BY <1>2, <1>3, WhoIsWho DEF IInv, Resulting, Callback, Value
<1>17. /\ Lifetime' /\ AssertsOnlyWhenRaced'
  BY <1>2 DEF IInv, Lifetime, AssertsOnlyWhenRaced
<1> QED
  BY <1>4, <1>5, <1>6, <1>7, <1>8, <1>9, <1>10, <1>11, <1>12, <1>13, <1>14,
     <1>15, <1>16, <1>17
     DEF IInv

LEMMA StarterAsksKeeps ==
  ASSUME IInv, fatal = "none", RequestStop(Starter), winner # Nobody
  PROVE  IInv'
<1>1. PICK w \in Waits : w = at[Starter]
  BY WhoIsWho, Types
<1>2. /\ winner # Nobody
      /\ pc[Starter] = "stop"
      /\ \/ /\ w = WaitCount /\ at' = at
            /\ \A b \in Actors : pc'[b] = IF b = Starter THEN "join" ELSE pc[b]
         \/ /\ w + 1 \in Waits
            /\ \A b \in Actors : at'[b] = IF b = Starter THEN w + 1 ELSE at[b]
            /\ \A b \in Actors :
                 pc'[b] = IF b = Starter THEN "start" ELSE pc[b]
      /\ done' = done \cup {w}
      /\ UNCHANGED <<state, result, object, callback, live, from, outcome,
                     signalled, winner, out, fatal, raced>>
  BY <1>1, Types, NextWait
     DEF RequestStop, Return, LeaveFor, Goto, awaitableVars
<1>3. state[w] = "Resumed" /\ w # winner
  BY <1>1, <1>2, WhoIsWho DEF IInv, Asked, Asker, Asking
<1>4. TypeOK'
  <2>1. PICK s \in {"join", "start"}, v \in Waits :
            pc' = [pc EXCEPT ![Starter] = s] /\ at' = [at EXCEPT ![Starter] = v]
    BY NextWait, Types DEF RequestStop, Return, LeaveFor, Goto
  <2> QED
    BY <1>2, WhoIsWho, StepNames, <2>1 DEF IInv, TypeOK
<1>5. RolesOK'
  BY <1>2, WhoIsWho DEF IInv, RolesOK
<1>6. NotStarted'
  BY <1>1, <1>2, WhoIsWho DEF IInv, NotStarted
<1>7. Starting'
  BY <1>2, WhoIsWho DEF Starting, Suspension
<1>8. Firing'
  BY <1>2, WhoIsWho DEF IInv, Firing, FiringOf
<1>9. StopAsked'
  BY <1>2, WhoIsWho DEF IInv, StopAsked
<1>10. Cancels'
  BY <1>2, WhoIsWho, Places DEF IInv, Cancels
<1>11. StopCallbacks'
  BY <1>2, WhoIsWho DEF IInv, StopCallbacks, StopCallbackOf
<1>12. Resumers'
  BY <1>2, WhoIsWho, Places DEF IInv, Resumers, Resumer, Resumption
<1>13. OneOwner'
  BY <1>2 DEF IInv, OneOwner, Owning, Asking, Resumption
<1>14. StarterFirst'
  BY <1>2, WhoIsWho DEF StarterFirst, Suspension
<1>15. Asked'
  BY <1>1, <1>2, WhoIsWho DEF IInv, Asked, Asker, Asking
<1>16. Resulting'
  BY <1>2, <1>3, WhoIsWho DEF IInv, Resulting, Value
<1>17. /\ Lifetime' /\ AssertsOnlyWhenRaced'
  BY <1>2 DEF IInv, Lifetime, AssertsOnlyWhenRaced
<1> QED
  BY <1>4, <1>5, <1>6, <1>7, <1>8, <1>9, <1>10, <1>11, <1>12, <1>13, <1>14,
     <1>15, <1>16, <1>17
     DEF IInv

LEMMA WritesKeeps ==
  ASSUME IInv, fatal = "none", NEW a \in Actors, WriteResult(a), a # Starter
  PROVE  IInv'
<1>1. PICK w \in Waits : w = at[a]
  BY Types
<1>2. /\ a # Starter
      /\ pc[a] = "write"
      /\ \A b \in Actors : pc'[b] = IF b = a THEN "gone" ELSE pc[b]
      /\ out' = Value(w)
      /\ done' = done \cup {w}
      /\ UNCHANGED <<state, result, object, callback, live, at, from, outcome,
                     signalled, winner, fatal, raced>>
  BY <1>1, Types DEF WriteResult, Return, Goto, awaitableVars, Value
<1>3. state[w] = "Resumed" /\ w = winner /\ a \in Waits /\ a = w
  BY <1>1, <1>2, WhoIsWho
     DEF IInv, Asked, Asker, Asking, RolesOK, Resumption, Canceling
<1>4. TypeOK'
  <2>1. pc' = [pc EXCEPT ![a] = "gone"]
    BY DEF WriteResult, Return, Goto
  <2> QED
    BY <1>2, StepNames, <2>1 DEF IInv, TypeOK, Value
<1>5. RolesOK'
  BY <1>2, WhoIsWho DEF IInv, RolesOK
<1>6. NotStarted'
  BY <1>2, WhoIsWho DEF IInv, NotStarted
<1>7. Starting'
  BY <1>2, WhoIsWho, Places DEF IInv, Starting
<1>8. Firing'
  BY <1>2, WhoIsWho DEF IInv, Firing, FiringOf
<1>9. StopAsked'
  BY <1>2, WhoIsWho DEF IInv, StopAsked
<1>10. Cancels'
  BY <1>2, WhoIsWho, Places DEF IInv, Cancels, Canceling
<1>11. StopCallbacks'
  BY <1>2, WhoIsWho DEF IInv, StopCallbacks, StopCallbackOf, Canceling
<1>12. Resumers'
  BY <1>2, WhoIsWho, Places DEF IInv, Resumers, Resumer, Resumption, Callback
<1>13. OneOwner'
  BY <1>2 DEF IInv, OneOwner, Owning, Asking
<1>14. StarterFirst'
  BY <1>2, WhoIsWho DEF IInv, StarterFirst, Owning, Asking
<1>15. Asked'
  BY <1>1, <1>2, WhoIsWho DEF IInv, Asked, Asker, Asking
<1>16. Resulting'
  BY <1>2, <1>3, WhoIsWho DEF IInv, Resulting, Callback, Value
<1>17. /\ Lifetime' /\ AssertsOnlyWhenRaced'
  BY <1>2 DEF IInv, Lifetime, AssertsOnlyWhenRaced
<1> QED
  BY <1>4, <1>5, <1>6, <1>7, <1>8, <1>9, <1>10, <1>11, <1>12, <1>13, <1>14,
     <1>15, <1>16, <1>17
     DEF IInv

LEMMA StarterWritesKeeps ==
  ASSUME IInv, fatal = "none", WriteResult(Starter)
  PROVE  IInv'
<1>1. PICK w \in Waits : w = at[Starter]
  BY WhoIsWho, Types
<1>2. /\ pc[Starter] = "write"
      /\ \/ /\ w = WaitCount /\ at' = at
            /\ \A b \in Actors : pc'[b] = IF b = Starter THEN "join" ELSE pc[b]
         \/ /\ w + 1 \in Waits
            /\ \A b \in Actors : at'[b] = IF b = Starter THEN w + 1 ELSE at[b]
            /\ \A b \in Actors :
                 pc'[b] = IF b = Starter THEN "start" ELSE pc[b]
      /\ out' = Value(w)
      /\ done' = done \cup {w}
      /\ UNCHANGED <<state, result, object, callback, live, from, outcome,
                     signalled, winner, fatal, raced>>
  BY <1>1, Types, NextWait
     DEF WriteResult, Return, LeaveFor, Goto, awaitableVars, Value
<1>3. state[w] = "Resumed" /\ w = winner
  BY <1>1, <1>2, WhoIsWho DEF IInv, Asked, Asker, Asking
<1>4. TypeOK'
  <2>1. PICK s \in {"join", "start"}, v \in Waits :
            pc' = [pc EXCEPT ![Starter] = s] /\ at' = [at EXCEPT ![Starter] = v]
    BY NextWait, Types DEF WriteResult, Return, LeaveFor, Goto
  <2> QED
    BY <1>2, WhoIsWho, StepNames, <2>1 DEF IInv, TypeOK, Value
<1>5. RolesOK'
  BY <1>2, WhoIsWho DEF IInv, RolesOK
<1>6. NotStarted'
  <2>1. ASSUME NEW v \in Waits,
               at'[Starter] < v \/ (at'[Starter] = v /\ pc'[Starter] = "start")
        PROVE  at[Starter] < v
    BY <1>1, <1>2, <2>1, WhoIsWho
  <2> QED
    BY <1>2, <2>1, WhoIsWho DEF IInv, NotStarted
<1>7. Starting'
  BY <1>2, WhoIsWho DEF Starting, Suspension
<1>8. Firing'
  BY <1>2, WhoIsWho DEF IInv, Firing, FiringOf
<1>9. StopAsked'
  BY <1>2, WhoIsWho DEF IInv, StopAsked
<1>10. Cancels'
  BY <1>2, WhoIsWho, Places DEF IInv, Cancels
<1>11. StopCallbacks'
  BY <1>2, WhoIsWho DEF IInv, StopCallbacks, StopCallbackOf
<1>12. Resumers'
  BY <1>2, WhoIsWho, Places DEF IInv, Resumers, Resumer, Resumption
<1>13. OneOwner'
  BY <1>2 DEF IInv, OneOwner, Owning, Asking, Resumption
<1>14. StarterFirst'
  BY <1>2, WhoIsWho DEF StarterFirst, Suspension
<1>15. Asked'
  BY <1>1, <1>2, WhoIsWho DEF IInv, Asked, Asker, Asking
<1>16. Resulting'
  BY <1>2, <1>3, WhoIsWho DEF IInv, Resulting, Value
<1>17. /\ Lifetime' /\ AssertsOnlyWhenRaced'
  BY <1>2 DEF IInv, Lifetime, AssertsOnlyWhenRaced
<1> QED
  BY <1>4, <1>5, <1>6, <1>7, <1>8, <1>9, <1>10, <1>11, <1>12, <1>13, <1>14,
     <1>15, <1>16, <1>17
     DEF IInv

----------------------------------------------------------------------------
(* The stop, and Cancel() of the waits. *)

LEMMA StopsKeeps ==
  ASSUME IInv, fatal = "none", StopRequested
  PROVE  IInv'
<1>1. /\ winner = Nobody
      /\ \A b \in Actors : pc'[b] = IF b = Canceler THEN "next" ELSE pc[b]
      /\ winner' = External
      /\ UNCHANGED <<state, result, object, callback, live, at, from, outcome,
                     signalled, out, done, fatal, raced>>
  BY Types DEF StopRequested, Goto, awaitableVars
<1>2. pc[Canceler] = "idle"
  BY <1>1 DEF IInv, StopAsked
<1>3. TypeOK'
  <2>1. pc' = [pc EXCEPT ![Canceler] = "next"]
    BY DEF StopRequested, Goto
  <2> QED
    BY <1>1, WhoIsWho, StepNames, <2>1 DEF IInv, TypeOK
<1>4. RolesOK'
  BY <1>1, WhoIsWho DEF IInv, RolesOK
<1>5. NotStarted'
  BY <1>1, WhoIsWho DEF IInv, NotStarted
<1>6. Starting'
  BY <1>1, WhoIsWho, Places DEF IInv, Starting
<1>7. Firing'
  BY <1>1, WhoIsWho DEF IInv, Firing, FiringOf
<1>8. StopAsked'
  BY <1>1, WhoIsWho DEF StopAsked
<1>9. Cancels'
  BY <1>1, WhoIsWho DEF Cancels, Canceling
<1>10. StopCallbacks'
  BY <1>1, <1>2, WhoIsWho DEF IInv, StopCallbacks, StopCallbackOf, Canceling
<1>11. Resumers'
  BY <1>1, WhoIsWho, Places DEF IInv, Resumers, Resumer, Resumption
<1>12. OneOwner'
  BY <1>1 DEF IInv, OneOwner, Owning, Asking, Resumption
<1>13. StarterFirst'
  BY <1>1, WhoIsWho DEF IInv, StarterFirst, Owning, Asking, Resumption
<1>14. Asked'
  BY <1>1, WhoIsWho, Places DEF IInv, Asked, Asker, Asking
<1>15. Resulting'
  BY <1>1, WhoIsWho, Places DEF IInv, Resulting
<1>16. /\ Lifetime' /\ AssertsOnlyWhenRaced'
  BY <1>1 DEF IInv, Lifetime, AssertsOnlyWhenRaced
<1> QED
  BY <1>3, <1>4, <1>5, <1>6, <1>7, <1>8, <1>9, <1>10, <1>11, <1>12, <1>13,
     <1>14, <1>15, <1>16
     DEF IInv

LEMMA CancelsEarlyKeeps ==
  ASSUME IInv, fatal = "none", NEW w \in Waits, Cancel(w), state[w] = "Init"
  PROVE  IInv'
<1>1. /\ state[w] = "Init"
      /\ pc[Canceler] = "next"
      /\ callback[w] = "set"
      /\ \A v \in Waits :
           state'[v] = IF v = w THEN "CancelingBeforeDispatch" ELSE state[v]
      /\ \A v \in Waits : callback'[v] = IF v = w THEN "none" ELSE callback[v]
      /\ pc' = pc
      /\ UNCHANGED <<result, object, live, at, from, outcome, signalled,
                     winner, out, done, fatal, raced>>
  BY Types DEF Cancel, resultVars
<1>2. w \in live /\ winner # Nobody /\ object[w] = "none" /\ pc[w] = "idle"
  BY <1>1 DEF IInv, StopAsked, StopCallbacks, StopCallbackOf, Firing, FiringOf
<1>3. TypeOK'
  <2>1. /\ state' = [state EXCEPT ![w] = "CancelingBeforeDispatch"]
        /\ callback' = [callback EXCEPT ![w] = "none"]
    BY DEF Cancel
  <2> QED
    BY <1>1, <2>1 DEF IInv, TypeOK, States
<1>4. RolesOK'
  BY <1>1 DEF IInv, RolesOK
<1>5. NotStarted'
  BY <1>1 DEF IInv, NotStarted
<1>6. Lifetime'
  BY <1>1, <1>2 DEF IInv, Lifetime
<1>7. Starting'
  BY <1>1, WhoIsWho, Places DEF IInv, Starting
<1>8. Firing'
  BY <1>1 DEF IInv, Firing, FiringOf
<1>9. StopAsked'
  BY <1>1 DEF IInv, StopAsked
<1>10. Cancels'
  BY <1>1 DEF Cancels, Canceling
<1>11. StopCallbacks'
  BY <1>1 DEF IInv, StopCallbacks, StopCallbackOf
<1>12. Resumers'
  BY <1>1, Places DEF IInv, Resumers, Resumer
<1>13. OneOwner'
  BY <1>1 DEF IInv, OneOwner
<1>14. StarterFirst'
  BY <1>1 DEF IInv, StarterFirst
<1>15. Asked'
  BY <1>1, Places DEF IInv, Asked, Asker
<1>16. Resulting'
  BY <1>1 DEF IInv, Resulting, Value
<1>17. AssertsOnlyWhenRaced'
  BY <1>1 DEF AssertsOnlyWhenRaced
<1> QED
  BY <1>3, <1>4, <1>5, <1>6, <1>7, <1>8, <1>9, <1>10, <1>11, <1>12, <1>13,
     <1>14, <1>15, <1>16, <1>17
     DEF IInv

LEMMA CancelsKeeps ==
  ASSUME IInv, fatal = "none", NEW w \in Waits, Cancel(w), state[w] # "Init"
  PROVE  IInv'
<1>1. /\ state[w] # "Init"
      /\ pc[Canceler] = "next"
      /\ callback[w] = "set"
      /\ \A b \in Actors :
           pc'[b] = IF b = Canceler THEN "cancelClear" ELSE pc[b]
      /\ \A v \in Waits :
           callback'[v] = IF v = w THEN "running" ELSE callback[v]
      /\ \A b \in Actors : at'[b] = IF b = Canceler THEN w ELSE at[b]
      /\ UNCHANGED <<state, result, object, live, from, outcome, signalled,
                     winner, out, done, fatal, raced>>
  BY Types DEF Cancel, Goto, resultVars
<1>2. /\ w \in live /\ winner # Nobody
      /\ state[w] \in {"StartingWait", "Waiting", "HaveResult",
                      "InCallbackBeforeWaiting", "Resuming"}
  BY <1>1 DEF IInv, StopAsked, StopCallbacks, StopCallbackOf
<1>3. TypeOK'
  <2>1. /\ pc' = [pc EXCEPT ![Canceler] = "cancelClear"]
        /\ callback' = [callback EXCEPT ![w] = "running"]
        /\ at' = [at EXCEPT ![Canceler] = w]
    BY DEF Cancel, Goto
  <2> QED
    BY <1>1, WhoIsWho, StepNames, <2>1 DEF IInv, TypeOK
<1>4. RolesOK'
  BY <1>1, WhoIsWho DEF IInv, RolesOK, Canceling
<1>5. NotStarted'
  BY <1>1, WhoIsWho DEF IInv, NotStarted
<1>6. Starting'
  BY <1>1, WhoIsWho, Places DEF IInv, Starting
<1>7. Firing'
  BY <1>1, WhoIsWho DEF IInv, Firing, FiringOf
<1>8. StopAsked'
  BY <1>1, WhoIsWho DEF IInv, StopAsked
<1>9. Cancels'
  BY <1>1, <1>2, WhoIsWho DEF Cancels
<1>10. StopCallbacks'
  BY <1>1, WhoIsWho DEF IInv, StopCallbacks, StopCallbackOf, Canceling
<1>11. Resumers'
  BY <1>1, WhoIsWho, Places DEF IInv, Resumers, Resumer, Resumption
<1>12. OneOwner'
  BY <1>1 DEF IInv, OneOwner, Owning, Asking, Resumption
<1>13. StarterFirst'
  BY <1>1, WhoIsWho DEF IInv, StarterFirst, Owning, Asking, Resumption
<1>14. Asked'
  BY <1>1, WhoIsWho DEF IInv, Asked, Asker, Asking
<1>15. Resulting'
  BY <1>1, WhoIsWho DEF IInv, Resulting, Value
<1>16. /\ Lifetime' /\ AssertsOnlyWhenRaced'
  BY <1>1 DEF IInv, Lifetime, AssertsOnlyWhenRaced
<1> QED
  BY <1>3, <1>4, <1>5, <1>6, <1>7, <1>8, <1>9, <1>10, <1>11, <1>12, <1>13,
     <1>14, <1>15, <1>16
     DEF IInv

LEMMA ClearsToCancelKeeps ==
  ASSUME IInv, fatal = "none", CancelThreadPool, object[at[Canceler]] # "none"
  PROVE  IInv'
<1>1. PICK w \in Waits : w = at[Canceler]
  BY WhoIsWho, Types
<1>2. /\ object[w] # "none"
      /\ pc[Canceler] = "cancelClear"
      /\ \A b \in Actors :
           pc'[b] = IF b = Canceler THEN "cancelDrain" ELSE pc[b]
      /\ \A v \in Waits : object'[v] = IF v = w THEN "created" ELSE object[v]
      /\ raced' = IF at[Starter] = w /\ pc[Starter] \in {"create", "arm"}
                    THEN raced \cup {w} ELSE raced
      /\ UNCHANGED <<state, result, callback, live, at, from, outcome,
                     signalled, winner, out, done, fatal>>
  BY <1>1, Types DEF CancelThreadPool, Goto, resultVars
<1>3. TypeOK'
  <2>1. /\ pc' = [pc EXCEPT ![Canceler] = "cancelDrain"]
        /\ object' = [object EXCEPT ![w] = "created"]
    BY <1>1 DEF CancelThreadPool, Goto
  <2> QED
    BY <1>2, WhoIsWho, StepNames, <2>1 DEF IInv, TypeOK
<1>4. RolesOK'
  BY <1>2, WhoIsWho DEF IInv, RolesOK, Canceling
<1>5. NotStarted'
  BY <1>2, WhoIsWho DEF IInv, NotStarted
<1>6. Starting'
  BY <1>2, WhoIsWho, Places DEF IInv, Starting
<1>7. Firing'
  BY <1>2, WhoIsWho DEF IInv, Firing, FiringOf
<1>8. StopAsked'
  BY <1>2, WhoIsWho DEF IInv, StopAsked
<1>9. Cancels'
  BY <1>1, <1>2, WhoIsWho DEF IInv, Cancels, Canceling
<1>10. StopCallbacks'
  BY <1>2, WhoIsWho DEF IInv, StopCallbacks, StopCallbackOf, Canceling
<1>11. Resumers'
  BY <1>2, WhoIsWho, Places DEF IInv, Resumers, Resumer, Resumption
<1>12. OneOwner'
  BY <1>2 DEF IInv, OneOwner, Owning, Asking, Resumption
<1>13. StarterFirst'
  BY <1>2, WhoIsWho DEF IInv, StarterFirst, Owning, Asking, Resumption
<1>14. Asked'
  BY <1>2, WhoIsWho DEF IInv, Asked, Asker, Asking
<1>15. Resulting'
  BY <1>2, WhoIsWho DEF IInv, Resulting, Value
<1>16. AssertsOnlyWhenRaced'
  BY <1>2 DEF AssertsOnlyWhenRaced
<1>17. Lifetime'
  BY <1>2 DEF IInv, Lifetime
<1> QED
  BY <1>3, <1>4, <1>5, <1>6, <1>7, <1>8, <1>9, <1>10, <1>11, <1>12, <1>13,
     <1>14, <1>15, <1>16, <1>17
     DEF IInv

LEMMA DrainsToCancelKeeps ==
  ASSUME IInv, fatal = "none", WaitForThreadpoolWaitCallbacks
  PROVE  IInv'
<1>1. PICK w \in Waits : w = at[Canceler]
  BY WhoIsWho, Types
<1>2. /\ pc[Canceler] = "cancelDrain"
      /\ pc[w] \notin Callback
      /\ \A b \in Actors :
           pc'[b] = IF b = Canceler THEN "cancelStarting" ELSE pc[b]
      /\ UNCHANGED <<state, result, object, callback, live, at, from, outcome,
                     signalled, winner, out, done, fatal, raced>>
  BY <1>1, Types
     DEF WaitForThreadpoolWaitCallbacks, InPoolCallback, Goto, awaitableVars,
         resultVars
<1>3. TypeOK'
  <2>1. pc' = [pc EXCEPT ![Canceler] = "cancelStarting"]
    BY DEF WaitForThreadpoolWaitCallbacks, Goto
  <2> QED
    BY <1>2, WhoIsWho, StepNames, <2>1 DEF IInv, TypeOK
<1>4. RolesOK'
  BY <1>2, WhoIsWho DEF IInv, RolesOK, Canceling
<1>5. NotStarted'
  BY <1>2, WhoIsWho DEF IInv, NotStarted
<1>6. Starting'
  BY <1>2, WhoIsWho, Places DEF IInv, Starting
<1>7. Firing'
  BY <1>2, WhoIsWho DEF IInv, Firing, FiringOf
<1>8. StopAsked'
  BY <1>2, WhoIsWho DEF IInv, StopAsked
<1>9. Cancels'
  BY <1>1, <1>2, WhoIsWho DEF IInv, Cancels, Canceling, Callback
<1>10. StopCallbacks'
  BY <1>2, WhoIsWho DEF IInv, StopCallbacks, StopCallbackOf, Canceling
<1>11. Resumers'
  BY <1>2, WhoIsWho, Places DEF IInv, Resumers, Resumer, Resumption
<1>12. OneOwner'
  BY <1>2 DEF IInv, OneOwner, Owning, Asking, Resumption
<1>13. StarterFirst'
  BY <1>2, WhoIsWho DEF IInv, StarterFirst, Owning, Asking, Resumption
<1>14. Asked'
  BY <1>2, WhoIsWho DEF IInv, Asked, Asker, Asking
<1>15. Resulting'
  BY <1>2, WhoIsWho DEF IInv, Resulting, Value
<1>16. /\ Lifetime' /\ AssertsOnlyWhenRaced'
  BY <1>2 DEF IInv, Lifetime, AssertsOnlyWhenRaced
<1> QED
  BY <1>3, <1>4, <1>5, <1>6, <1>7, <1>8, <1>9, <1>10, <1>11, <1>12, <1>13,
     <1>14, <1>15, <1>16
     DEF IInv

LEMMA CancelsStartingKeeps ==
  ASSUME IInv, fatal = "none", CancelStartingWait,
         state[at[Canceler]] = "StartingWait"
  PROVE  IInv'
<1>1. PICK w \in Waits : w = at[Canceler]
  BY WhoIsWho, Types
<1>2. /\ state[w] = "StartingWait"
      /\ pc[Canceler] = "cancelStarting"
      /\ \A b \in Actors : pc'[b] = IF b = Canceler THEN "next" ELSE pc[b]
      /\ \A v \in Waits : state'[v] = IF v = w THEN "Canceling" ELSE state[v]
      /\ \A v \in Waits : callback'[v] = IF v = w THEN "none" ELSE callback[v]
      /\ UNCHANGED <<result, object, live, at, from, outcome, signalled,
                     winner, out, done, fatal, raced>>
  BY <1>1, Types DEF CancelStartingWait, CancelReturns, Goto, resultVars
<1>3. w \notin raced =>
         /\ object[w] # "armed" /\ pc[w] # "fired"
         /\ at[Starter] = w => pc[Starter] \notin {"create", "arm"}
  BY <1>1, <1>2 DEF IInv, Cancels, Canceling
<1>4. TypeOK'
  <2>1. /\ pc' = [pc EXCEPT ![Canceler] = "next"]
        /\ state' = [state EXCEPT ![w] = "Canceling"]
        /\ callback' = [callback EXCEPT ![w] = "none"]
    BY <1>1 DEF CancelStartingWait, CancelReturns, Goto
  <2> QED
    BY <1>2, WhoIsWho, StepNames, <2>1 DEF IInv, TypeOK, States
<1>5. RolesOK'
  BY <1>2, WhoIsWho DEF IInv, RolesOK
<1>6. NotStarted'
  BY <1>2, WhoIsWho DEF IInv, NotStarted
<1>7. Lifetime'
  BY <1>2 DEF IInv, Lifetime
<1>8. Starting'
  BY <1>2, <1>3, WhoIsWho, Places DEF IInv, Starting
<1>9. Firing'
  BY <1>2, <1>3, WhoIsWho DEF IInv, Firing, FiringOf
<1>10. StopAsked'
  BY <1>2, WhoIsWho DEF IInv, StopAsked
<1>11. Cancels'
  BY <1>2, WhoIsWho DEF Cancels, Canceling
<1>12. StopCallbacks'
  BY <1>1, <1>2, WhoIsWho DEF IInv, StopCallbacks, StopCallbackOf
<1>13. Resumers'
  BY <1>2, WhoIsWho, Places DEF IInv, Resumers, Resumer, Resumption
<1>14. OneOwner'
  BY <1>2 DEF IInv, OneOwner, Owning, Asking, Resumption
<1>15. StarterFirst'
  BY <1>2, WhoIsWho DEF IInv, StarterFirst, Owning, Asking, Resumption
<1>16. Asked'
  BY <1>2, WhoIsWho, Places DEF IInv, Asked, Asker, Asking
<1>17. Resulting'
  BY <1>2, WhoIsWho DEF IInv, Resulting, Value
<1>18. AssertsOnlyWhenRaced'
  BY <1>2 DEF AssertsOnlyWhenRaced
<1> QED
  BY <1>4, <1>5, <1>6, <1>7, <1>8, <1>9, <1>10, <1>11, <1>12, <1>13, <1>14,
     <1>15, <1>16, <1>17, <1>18
     DEF IInv

LEMMA CancelsOnKeeps ==
  ASSUME IInv, fatal = "none", CancelStartingWait,
         state[at[Canceler]] # "StartingWait"
  PROVE  IInv'
<1>1. PICK w \in Waits : w = at[Canceler]
  BY WhoIsWho, Types
<1>2. /\ state[w] # "StartingWait"
      /\ pc[Canceler] = "cancelStarting"
      /\ \A b \in Actors :
           pc'[b] = IF b = Canceler THEN "cancelWaiting" ELSE pc[b]
      /\ UNCHANGED <<state, result, object, callback, live, at, from, outcome,
                     signalled, winner, out, done, fatal, raced>>
  BY <1>1, Types DEF CancelStartingWait, Goto, resultVars
<1>3. TypeOK'
  <2>1. pc' = [pc EXCEPT ![Canceler] = "cancelWaiting"]
    BY DEF CancelStartingWait, Goto
  <2> QED
    BY <1>2, WhoIsWho, StepNames, <2>1 DEF IInv, TypeOK
<1>4. RolesOK'
  BY <1>2, WhoIsWho DEF IInv, RolesOK, Canceling
<1>5. NotStarted'
  BY <1>2, WhoIsWho DEF IInv, NotStarted
<1>6. Starting'
  BY <1>2, WhoIsWho, Places DEF IInv, Starting
<1>7. Firing'
  BY <1>2, WhoIsWho DEF IInv, Firing, FiringOf
<1>8. StopAsked'
  BY <1>2, WhoIsWho DEF IInv, StopAsked
<1>9. Cancels'
  BY <1>1, <1>2, WhoIsWho DEF IInv, Cancels, Canceling
<1>10. StopCallbacks'
  BY <1>2, WhoIsWho DEF IInv, StopCallbacks, StopCallbackOf, Canceling
<1>11. Resumers'
  BY <1>2, WhoIsWho, Places DEF IInv, Resumers, Resumer, Resumption
<1>12. OneOwner'
  BY <1>2 DEF IInv, OneOwner, Owning, Asking, Resumption
<1>13. StarterFirst'
  BY <1>2, WhoIsWho DEF IInv, StarterFirst, Owning, Asking, Resumption
<1>14. Asked'
  BY <1>2, WhoIsWho DEF IInv, Asked, Asker, Asking
<1>15. Resulting'
  BY <1>2, WhoIsWho DEF IInv, Resulting, Value
<1>16. /\ Lifetime' /\ AssertsOnlyWhenRaced'
  BY <1>2 DEF IInv, Lifetime, AssertsOnlyWhenRaced
<1> QED
  BY <1>3, <1>4, <1>5, <1>6, <1>7, <1>8, <1>9, <1>10, <1>11, <1>12, <1>13,
     <1>14, <1>15, <1>16
     DEF IInv

LEMMA CancelsWaitingKeeps ==
  ASSUME IInv, fatal = "none", CancelWaiting, state[at[Canceler]] = "Waiting"
  PROVE  IInv'
<1>1. PICK w \in Waits : w = at[Canceler]
  BY WhoIsWho, Types
<1>2. /\ state[w] = "Waiting"
      /\ pc[Canceler] = "cancelWaiting"
      /\ \A b \in Actors : pc'[b] = IF b = Canceler THEN "resuming" ELSE pc[b]
      /\ \A v \in Waits : state'[v] = IF v = w THEN "Canceling" ELSE state[v]
      /\ \A v \in Waits : result'[v] = IF v = w THEN "Canceled" ELSE result[v]
      /\ \A b \in Actors :
           from'[b] = IF b = Canceler THEN "Canceling" ELSE from[b]
      /\ UNCHANGED <<object, callback, live, at, outcome, signalled, winner,
                     out, done, fatal, raced>>
  BY <1>1, Types DEF CancelWaiting, BeginResume, Goto, resultVars
<1>3. winner # Nobody
  BY <1>2 DEF IInv, StopAsked
<1>4. callback[w] = "running" /\ at[Canceler] = w
  BY <1>1, <1>2 DEF IInv, Cancels, Canceling
<1>5. w \notin raced =>
         /\ object[w] # "armed" /\ pc[w] # "fired"
         /\ at[Starter] = w => pc[Starter] \notin {"create", "arm"}
  BY <1>1, <1>2 DEF IInv, Cancels, Canceling
<1>6. at[Starter] = w => pc[Starter] \notin Suspension
  BY <1>2 DEF IInv, Starting, Suspension
<1>7. w \notin done /\ winner # w
  BY <1>2 DEF IInv, Asked
<1>8. \A b \in Actors : at[b] = w => pc[b] \notin Owning
  BY <1>4, Owners DEF Owning
<1>9. TypeOK'
  <2>1. /\ pc' = [pc EXCEPT ![Canceler] = "resuming"]
        /\ state' = [state EXCEPT ![w] = "Canceling"]
        /\ result' = [result EXCEPT ![w] = "Canceled"]
        /\ from' = [from EXCEPT ![Canceler] = "Canceling"]
    BY <1>1 DEF CancelWaiting, BeginResume, Goto
  <2> QED
    BY <1>2, WhoIsWho, StepNames, <2>1 DEF IInv, TypeOK, States, Results
<1>10. RolesOK'
  BY <1>2, WhoIsWho DEF IInv, RolesOK, Resumption
<1>11. NotStarted'
  BY <1>2, WhoIsWho DEF IInv, NotStarted
<1>12. Lifetime'
  BY <1>2 DEF IInv, Lifetime
<1>13. Starting'
  BY <1>2, WhoIsWho, Places DEF IInv, Starting
<1>14. Firing'
  BY <1>2, <1>5, WhoIsWho DEF IInv, Firing, FiringOf
<1>15. StopAsked'
  BY <1>2, WhoIsWho DEF IInv, StopAsked
<1>16. Cancels'
  BY <1>2, WhoIsWho DEF IInv, Cancels, Canceling
<1>17. StopCallbacks'
  BY <1>2, <1>4, WhoIsWho DEF IInv, StopCallbacks, StopCallbackOf
<1>18. Resumers'
  BY <1>1, <1>2, WhoIsWho, Places DEF IInv, Resumers, Resumer
<1>19. OneOwner'
  BY <1>2, <1>4, <1>8 DEF IInv, OneOwner
<1>20. StarterFirst'
  BY <1>2, <1>4, <1>6, WhoIsWho DEF IInv, StarterFirst
<1>21. Asked'
  BY <1>2, WhoIsWho, Places DEF IInv, Asked, Asker, Asking
<1>22. Resulting'
  BY <1>2, <1>3, <1>7, WhoIsWho, Places DEF IInv, Resulting, Value
<1>23. AssertsOnlyWhenRaced'
  BY <1>2 DEF AssertsOnlyWhenRaced
<1> QED
  BY <1>9, <1>10, <1>11, <1>12, <1>13, <1>14, <1>15, <1>16, <1>17, <1>18,
     <1>19, <1>20, <1>21, <1>22, <1>23
     DEF IInv

LEMMA CancelsNothingKeeps ==
  ASSUME IInv, fatal = "none", CancelWaiting, state[at[Canceler]] # "Waiting"
  PROVE  IInv'
<1>1. PICK w \in Waits : w = at[Canceler]
  BY WhoIsWho, Types
<1>2. /\ state[w] # "Waiting"
      /\ pc[Canceler] = "cancelWaiting"
      /\ \A b \in Actors : pc'[b] = IF b = Canceler THEN "next" ELSE pc[b]
      /\ \A v \in Waits : callback'[v] = IF v = w THEN "none" ELSE callback[v]
      /\ UNCHANGED <<state, result, object, live, at, from, outcome, signalled,
                     winner, out, done, fatal, raced>>
  BY <1>1, Types
     DEF IInv, Cancels, Canceling, CancelWaiting, CancelReturns, Goto,
         resultVars
<1>3. TypeOK'
  <2>1. /\ pc' = [pc EXCEPT ![Canceler] = "next"]
        /\ callback' = [callback EXCEPT ![w] = "none"]
    BY <1>1 DEF IInv, Cancels, Canceling, CancelWaiting, CancelReturns, Goto
  <2> QED
    BY <1>2, WhoIsWho, StepNames, <2>1 DEF IInv, TypeOK
<1>4. RolesOK'
  BY <1>2, WhoIsWho DEF IInv, RolesOK
<1>5. NotStarted'
  BY <1>2, WhoIsWho DEF IInv, NotStarted
<1>6. Starting'
  BY <1>2, WhoIsWho, Places DEF IInv, Starting
<1>7. Firing'
  BY <1>2, WhoIsWho DEF IInv, Firing, FiringOf
<1>8. StopAsked'
  BY <1>2, WhoIsWho DEF IInv, StopAsked
<1>9. Cancels'
  BY <1>2, WhoIsWho DEF Cancels, Canceling
<1>10. StopCallbacks'
  BY <1>1, <1>2, WhoIsWho DEF IInv, StopCallbacks, StopCallbackOf
<1>11. Resumers'
  BY <1>2, WhoIsWho, Places DEF IInv, Resumers, Resumer, Resumption
<1>12. OneOwner'
  BY <1>2 DEF IInv, OneOwner, Owning, Asking, Resumption
<1>13. StarterFirst'
  BY <1>2, WhoIsWho DEF IInv, StarterFirst, Owning, Asking, Resumption
<1>14. Asked'
  BY <1>2, WhoIsWho DEF IInv, Asked, Asker, Asking
<1>15. Resulting'
  BY <1>2, WhoIsWho DEF IInv, Resulting, Value
<1>16. /\ Lifetime' /\ AssertsOnlyWhenRaced'
  BY <1>2 DEF IInv, Lifetime, AssertsOnlyWhenRaced
<1> QED
  BY <1>3, <1>4, <1>5, <1>6, <1>7, <1>8, <1>9, <1>10, <1>11, <1>12, <1>13,
     <1>14, <1>15, <1>16
     DEF IInv

LEMMA EndsStopKeeps ==
  ASSUME IInv, fatal = "none", EndStop
  PROVE  IInv'
<1>1. /\ pc[Canceler] = "next"
      /\ \A b \in Actors : pc'[b] = IF b = Canceler THEN "gone"
                             ELSE IF pc[b] = "stopping" THEN "write"
                             ELSE pc[b]
      /\ UNCHANGED <<state, result, object, callback, live, at, from, outcome,
                     signalled, winner, out, done, fatal, raced>>
  BY DEF EndStop, awaitableVars, resultVars
<1>2. TypeOK'
  <2>1. pc' = [b \in Actors |-> IF b = Canceler THEN "gone"
                               ELSE IF pc[b] = "stopping" THEN "write"
                               ELSE pc[b]]
    BY DEF EndStop
  <2> QED
    BY <1>1, StepNames, <2>1 DEF IInv, TypeOK
<1>3. RolesOK'
  BY <1>1, WhoIsWho DEF IInv, RolesOK, Owning, Asking
<1>4. NotStarted'
  BY <1>1, WhoIsWho DEF IInv, NotStarted
<1>5. Starting'
  BY <1>1, WhoIsWho, Places DEF IInv, Starting, Suspension
<1>6. Firing'
  BY <1>1, WhoIsWho DEF IInv, Firing, FiringOf
<1>7. StopAsked'
  BY <1>1, WhoIsWho DEF IInv, StopAsked
<1>8. Cancels'
  BY <1>1, WhoIsWho DEF Cancels, Canceling
<1>9. StopCallbacks'
  BY <1>1, WhoIsWho DEF IInv, StopCallbacks, StopCallbackOf, Canceling
<1>10. Resumers'
  BY <1>1, WhoIsWho, Places DEF IInv, Resumers, Resumer, Resumption, Callback
<1>11. OneOwner'
  BY <1>1 DEF IInv, OneOwner, Owning, Asking, Resumption
<1>12. StarterFirst'
  BY <1>1, WhoIsWho
     DEF IInv, StarterFirst, Owning, Asking, Resumption, Suspension
<1>13. Asked'
  BY <1>1, WhoIsWho DEF IInv, Asked, Asker, Asking
<1>14. Resulting'
  BY <1>1, WhoIsWho DEF IInv, Resulting, Callback, Value
<1>15. /\ Lifetime' /\ AssertsOnlyWhenRaced'
  BY <1>1 DEF IInv, Lifetime, AssertsOnlyWhenRaced
<1> QED
  BY <1>2, <1>3, <1>4, <1>5, <1>6, <1>7, <1>8, <1>9, <1>10, <1>11, <1>12,
     <1>13, <1>14, <1>15
     DEF IInv

----------------------------------------------------------------------------
(* The caller. *)

LEMMA JoinsKeeps ==
  ASSUME IInv, fatal = "none", Join
  PROVE  IInv'
<1>1. /\ pc[Starter] = "join"
      /\ done = Waits
      /\ \A b \in Actors : pc'[b] = IF b = Starter THEN "returned" ELSE pc[b]
      /\ UNCHANGED <<state, result, object, callback, live, at, from, outcome,
                     signalled, winner, out, done, fatal, raced>>
  BY Types DEF Join, Goto, awaitableVars, resultVars
<1>2. TypeOK'
  <2>1. pc' = [pc EXCEPT ![Starter] = "returned"]
    BY DEF Join, Goto
  <2> QED
    BY <1>1, WhoIsWho, StepNames, <2>1 DEF IInv, TypeOK
<1>3. RolesOK'
  BY <1>1, WhoIsWho DEF IInv, RolesOK
<1>4. NotStarted'
  BY <1>1, WhoIsWho DEF IInv, NotStarted
<1>5. Starting'
  BY <1>1, WhoIsWho DEF Starting, Suspension
<1>6. Firing'
  BY <1>1, WhoIsWho DEF IInv, Firing, FiringOf
<1>7. StopAsked'
  BY <1>1, WhoIsWho DEF IInv, StopAsked
<1>8. Cancels'
  BY <1>1, WhoIsWho, Places DEF IInv, Cancels
<1>9. StopCallbacks'
  BY <1>1, WhoIsWho DEF IInv, StopCallbacks, StopCallbackOf
<1>10. Resumers'
  BY <1>1, WhoIsWho, Places DEF IInv, Resumers, Resumer, Resumption
<1>11. OneOwner'
  BY <1>1 DEF IInv, OneOwner, Owning, Asking, Resumption
<1>12. StarterFirst'
  BY <1>1, WhoIsWho DEF StarterFirst, Suspension
<1>13. Asked'
  BY <1>1, WhoIsWho DEF IInv, Asked, Asker, Asking
<1>14. Resulting'
  BY <1>1, WhoIsWho DEF IInv, Resulting, Value
<1>15. /\ Lifetime' /\ AssertsOnlyWhenRaced'
  BY <1>1 DEF IInv, Lifetime, AssertsOnlyWhenRaced
<1> QED
  BY <1>2, <1>3, <1>4, <1>5, <1>6, <1>7, <1>8, <1>9, <1>10, <1>11, <1>12,
     <1>13, <1>14, <1>15
     DEF IInv

----------------------------------------------------------------------------
(* The assertions. *)

(* An assertion that fails leaves everything as it is; what is known of    *)
(* the waits that the stop raced for holds of more of them.                *)
LEMMA FaultKeeps ==
  ASSUME IInv, raced \subseteq raced', raced' \subseteq Waits, raced' # {},
         fatal' \in {"unexpectedState", "mTPSignal"},
         UNCHANGED <<state, result, object, callback, live, pc, at, from,
                     outcome, signalled, winner, out, done>>
  PROVE  IInv'
<1>1. TypeOK'
  BY DEF IInv, TypeOK
<1>2. Starting'
  BY DEF IInv, Starting
<1>3. Firing'
  BY DEF IInv, Firing, FiringOf
<1>4. Cancels'
  BY DEF IInv, Cancels
<1>5. /\ RolesOK' /\ NotStarted' /\ Lifetime' /\ StopAsked'
  BY DEF IInv, RolesOK, NotStarted, Lifetime, StopAsked
<1>6. /\ StopCallbacks' /\ Resumers' /\ OneOwner' /\ StarterFirst'
  BY DEF IInv, StopCallbacks, StopCallbackOf, Resumers, Resumer, OneOwner,
         StarterFirst
<1>7. Asked' /\ Resulting'
  BY DEF IInv, Asked, Asker, Resulting, Value
<1>8. AssertsOnlyWhenRaced'
  BY DEF AssertsOnlyWhenRaced
<1> QED
  BY <1>1, <1>2, <1>3, <1>4, <1>5, <1>6, <1>7, <1>8 DEF IInv

(* OnResult() finds a state that it does not expect only if the wait was   *)
(* set after Cancel() had cleared it.                                      *)
LEMMA UnexpectedKeeps ==
  ASSUME IInv, NEW w \in Waits, OnResult(w),
         state[w] \notin {"StartingWait", "Waiting", "Canceling"}
  PROVE  IInv'
<1>1. /\ pc[w] = "fired" /\ fatal' = "unexpectedState"
      /\ UNCHANGED <<state, result, object, callback, live, pc, at, from,
                     outcome, signalled, winner, out, done, raced>>
  BY DEF OnResult, Fatal, awaitableVars, threadVars, resultVars
<1>2. w \in raced
  BY <1>1 DEF IInv, Firing, FiringOf
<1>3. raced \subseteq Waits
  BY DEF IInv, TypeOK
<1> QED
  BY <1>1, <1>2, <1>3, FaultKeeps

(* CancelThreadPool() finds no thread pool object only if the starter is   *)
(* about to create it.                                                     *)
LEMMA NoObjectKeeps ==
  ASSUME IInv, CancelThreadPool, object[at[Canceler]] = "none"
  PROVE  IInv'
<1>1. PICK w \in Waits : w = at[Canceler]
  BY WhoIsWho, Types
<1>2. /\ pc[Canceler] = "cancelClear" /\ object[w] = "none"
      /\ fatal' = "mTPSignal"
      /\ raced' = IF at[Starter] = w /\ pc[Starter] \in {"create", "arm"}
                    THEN raced \cup {w} ELSE raced
      /\ UNCHANGED <<state, result, object, callback, live, pc, at, from,
                     outcome, signalled, winner, out, done>>
  BY <1>1 DEF CancelThreadPool, Fatal, awaitableVars, threadVars, resultVars
<1>3. callback[w] = "running" /\ state[w] # "Init"
  BY <1>1, <1>2 DEF IInv, Cancels, Canceling
<1>4. at[Starter] = w /\ pc[Starter] = "create"
  BY <1>3 DEF IInv, StopCallbacks, StopCallbackOf
<1>5. raced' = raced \cup {w} /\ raced \subseteq Waits
  BY <1>2, <1>4 DEF IInv, TypeOK
<1> QED
  BY <1>2, <1>5, FaultKeeps

----------------------------------------------------------------------------
(* The steps together. *)

LEMMA InvInit == Init => IInv
<1> SUFFICES ASSUME Init PROVE IInv
  OBVIOUS
<1>1. TypeOK
  <2>1. 1 \in Waits
    BY SignalWaitAssumption DEF Waits
  <2>2. at \in [Actors -> Waits]
    BY <2>1 DEF Init
  <2>3. pc \in [Actors -> Steps]
    BY DEF Init, Steps
  <2> QED
    BY <2>2, <2>3 DEF Init, TypeOK, States, Results
<1>2. /\ \A w \in Waits : /\ state[w] = "Init" /\ result[w] = "Pending"
                          /\ object[w] = "none" /\ callback[w] = "none"
                          /\ outcome[w] = "Pending"
                          /\ at[w] = w /\ pc[w] = "idle"
      /\ \A a \in Actors : pc[a] = IF a = Starter THEN "start" ELSE "idle"
      /\ winner = Nobody /\ out = Unexpected("Canceled")
      /\ done = {} /\ fatal = "none" /\ live = {}
  BY WhoIsWho DEF Init
<1>3. RolesOK
  BY <1>2, WhoIsWho DEF RolesOK
<1>4. NotStarted /\ Lifetime
  BY <1>2 DEF NotStarted, Lifetime
<1>5. Starting /\ Firing
  BY <1>2, WhoIsWho DEF Starting, Firing, FiringOf, Suspension
<1>6. StopAsked /\ Cancels /\ StopCallbacks
  BY <1>2, WhoIsWho
     DEF StopAsked, Cancels, StopCallbacks, StopCallbackOf, Canceling
<1>7. Resumers /\ OneOwner /\ StarterFirst
  BY <1>2 DEF Resumers, OneOwner, StarterFirst, Owning, Asking, Resumption
<1>8. Asked
  BY <1>2, WhoIsWho DEF Asked, Asking
<1>9. Resulting
  BY <1>2 DEF Resulting, Callback
<1>10. AssertsOnlyWhenRaced
  BY <1>2 DEF AssertsOnlyWhenRaced
<1> QED
  BY <1>1, <1>3, <1>4, <1>5, <1>6, <1>7, <1>8, <1>9, <1>10 DEF IInv

LEMMA AwaitSuspendKeeps ==
  ASSUME IInv, fatal = "none", AwaitSuspend
  PROVE  IInv'
<1>1. CASE Construct
  BY <1>1, ConstructKeeps
<1>2. CASE StartWait
  BY <1>2, StartsKeeps, StartsCanceledKeeps
<1>3. CASE CreateThreadpoolWait
  BY <1>3, CreatesKeeps
<1>4. CASE SetThreadpoolWait
  BY <1>4, SetsKeeps
<1>5. CASE BeginWaiting
  <2>1. pc[Starter] = "wait"
    BY <1>5 DEF BeginWaiting
  <2>2. state[at[Starter]] \in {"StartingWait", "InCallbackBeforeWaiting",
                                "HaveResult", "Canceling"}
    BY <2>1 DEF IInv, Starting
  <2> QED
    BY <1>5, <2>2, WaitsKeeps, SpinsKeeps, HasResultKeeps, WaitsCanceledKeeps
<1>6. CASE WaitForCallback
  <2>1. /\ pc[Starter] = "spin"
        /\ state[at[Starter]] # "InCallbackBeforeWaiting"
    BY <1>6 DEF WaitForCallback
  <2>2. state[at[Starter]] = "HaveResult"
    BY <2>1 DEF IInv, Starting
  <2> QED
    BY <1>6, <2>2, HasResultKeeps
<1>7. CASE AlreadyStopped
  BY <1>7, RefusesKeeps
<1> QED
  BY <1>1, <1>2, <1>3, <1>4, <1>5, <1>6, <1>7 DEF AwaitSuspend

LEMMA PoolKeeps ==
  ASSUME IInv, fatal = "none", NEW w \in Waits,
         Signal(w) \/ ThreadPoolCallback(w) \/ PoolCallback(w)
  PROVE  IInv'
<1>1. CASE Signal(w)
  BY <1>1, SignalsKeeps
<1>2. CASE ThreadPoolCallback(w)
  BY <1>2, FiresKeeps
<1>3. CASE OnResult(w)
  BY <1>3, ResultsEarlyKeeps, ResultsKeeps, ResultsCanceledKeeps,
     UnexpectedKeeps
<1>4. CASE LeaveResult(w)
  BY <1>4, LeavesKeeps
<1>5. CASE TakeResult(w)
  BY <1>5, TakesKeeps
<1> QED
  BY <1>1, <1>2, <1>3, <1>4, <1>5 DEF PoolCallback

LEMMA ResumeFromKeeps ==
  ASSUME IInv, fatal = "none", NEW a \in Actors, ResumeFrom(a)
  PROVE  IInv'
<1>1. CASE Resuming(a)
  BY <1>1, ResumingsKeeps
<1>2. CASE ResetStopCallback(a)
  BY <1>2, ResetsKeeps
<1>3. CASE ClearWait(a)
  BY <1>3, ClearsKeeps
<1>4. CASE DrainCallbacks(a)
  BY <1>4, DrainsKeeps
<1>5. CASE Resume(a)
  BY <1>5, ResumesOwnKeeps, ResumesCanceledKeeps
<1>6. CASE RequestStop(a)
  BY <1>6, AsksFirstKeeps, AsksKeeps, StarterAsksKeeps
<1>7. CASE WriteResult(a)
  BY <1>7, WritesKeeps, StarterWritesKeeps
<1> QED
  BY <1>1, <1>2, <1>3, <1>4, <1>5, <1>6, <1>7 DEF ResumeFrom

LEMMA RunStopCallbacksKeeps ==
  ASSUME IInv, fatal = "none", RunStopCallbacks
  PROVE  IInv'
<1>1. ASSUME NEW w \in Waits, Cancel(w)
      PROVE  IInv'
  BY <1>1, CancelsEarlyKeeps, CancelsKeeps
<1>2. CASE CancelThreadPool
  BY <1>2, ClearsToCancelKeeps, NoObjectKeeps
<1>3. CASE WaitForThreadpoolWaitCallbacks
  BY <1>3, DrainsToCancelKeeps
<1>4. CASE CancelStartingWait
  BY <1>4, CancelsStartingKeeps, CancelsOnKeeps
<1>5. CASE CancelWaiting
  BY <1>5, CancelsWaitingKeeps, CancelsNothingKeeps
<1>6. CASE EndStop
  BY <1>6, EndsStopKeeps
<1> QED
  BY <1>1, <1>2, <1>3, <1>4, <1>5, <1>6 DEF RunStopCallbacks

LEMMA InvStep == IInv /\ [Next]_vars => IInv'
<1> SUFFICES ASSUME IInv, [Next]_vars PROVE IInv'
  OBVIOUS
<1>1. CASE UNCHANGED vars
  <2>1. UNCHANGED <<state, result, object, callback, live, pc, at, from,
                    outcome, signalled, winner, out, done, fatal, raced>>
    BY <1>1 DEF vars, awaitableVars, threadVars, resultVars
  <2>2. /\ TypeOK' /\ RolesOK' /\ NotStarted' /\ Lifetime' /\ Starting'
    BY <2>1 DEF IInv, TypeOK, RolesOK, NotStarted, Lifetime, Starting
  <2>3. /\ Firing' /\ StopAsked' /\ Cancels' /\ StopCallbacks' /\ Resumers'
    BY <2>1
       DEF IInv, Firing, FiringOf, StopAsked, Cancels, StopCallbacks,
           StopCallbackOf, Resumers, Resumer
  <2>4. /\ OneOwner' /\ StarterFirst' /\ Asked' /\ Resulting'
        /\ AssertsOnlyWhenRaced'
    BY <2>1
       DEF IInv, OneOwner, StarterFirst, Asked, Asker, Resulting, Value,
           AssertsOnlyWhenRaced
  <2> QED
    BY <2>2, <2>3, <2>4 DEF IInv
<1>2. CASE Next
  <2>1. fatal = "none"
    BY <1>2 DEF Next
  <2>2. CASE AwaitSuspend
    BY <2>1, <2>2, AwaitSuspendKeeps
  <2>3. ASSUME NEW w \in Waits,
               Signal(w) \/ ThreadPoolCallback(w) \/ PoolCallback(w)
        PROVE  IInv'
    BY <2>1, <2>3, PoolKeeps
  <2>4. ASSUME NEW a \in Actors, ResumeFrom(a)
        PROVE  IInv'
    BY <2>1, <2>4, ResumeFromKeeps
  <2>5. CASE StopRequested
    BY <2>1, <2>5, StopsKeeps
  <2>6. CASE RunStopCallbacks
    BY <2>1, <2>6, RunStopCallbacksKeeps
  <2>7. CASE Join
    BY <2>1, <2>7, JoinsKeeps
  <2> QED
    BY <1>2, <2>2, <2>3, <2>4, <2>5, <2>6, <2>7 DEF Next
<1> QED
  BY <1>1, <1>2

(* The invariant holds, for any number of waits, with and without a        *)
(* timeout: which states of an awaitable go with which steps of the        *)
(* threads that use it.                                                    *)
THEOREM Invariance == Spec => []IInv
  BY InvInit, InvStep, PTL DEF Spec

(* The variables of SignalWait.tla have their types.                       *)
THEOREM TypeCorrect == Spec => []TypeOK
<1>1. IInv => TypeOK
  BY DEF IInv
<1> QED
  BY <1>1, Invariance, PTL

(* No thread uses a SignalAwaitable that ResumeFrom() has destroyed by     *)
(* resuming its coroutine: not the starter in await_suspend(), not the     *)
(* thread pool in OnResult(), not Cancel().                                *)
THEOREM NothingUsedAfterDestruction == Spec => []NotUsedAfterDestruction
<1>1. IInv => NotUsedAfterDestruction
  <2> SUFFICES ASSUME IInv, NEW a \in Actors, pc[a] \in Uses
               PROVE  at[a] \in live
    BY DEF NotUsedAfterDestruction
  <2>1. PICK w \in Waits : w = at[a]
    BY Types
  <2>2. CASE pc[a] \in Resumption
    BY <2>2, Owners
  <2>3. CASE pc[a] \in Suspension
    <3>1. a = Starter
      BY <2>3, WhoIsWho
         DEF IInv, RolesOK, Suspension, Callback, Owning, Asking, Resumption,
             Canceling
    <3> QED
      BY <2>3, <3>1 DEF IInv, Starting
  <2>4. CASE pc[a] \in Callback
    <3>1. a = w
      BY <2>1, <2>4, WhoIsWho
         DEF IInv, RolesOK, Suspension, Callback, Owning, Asking, Resumption,
             Canceling
    <3>2. state[w] \notin {"Init", "Resumed"}
      BY <2>4, <3>1 DEF IInv, Firing, FiringOf, Callback
    <3> QED
      BY <2>1, <3>2 DEF IInv, Lifetime
  <2>5. CASE pc[a] \in Canceling
    <3>1. a = Canceler
      BY <2>5, WhoIsWho
         DEF IInv, RolesOK, Suspension, Callback, Owning, Asking, Resumption,
             Canceling
    <3>2. state[w] \notin {"Init", "Resumed"}
      BY <2>1, <2>5, <3>1 DEF IInv, Cancels
    <3> QED
      BY <2>1, <3>2 DEF IInv, Lifetime
  <2> QED
    BY <2>2, <2>3, <2>4, <2>5 DEF Uses
<1> QED
  BY <1>1, Invariance, PTL

(* Result, timeout and stop race for the awaitable: one thread at a time   *)
(* is in ResumeFrom() of it.                                               *)
THEOREM OneResumes == Spec => []ResumedByOne
<1>1. IInv => ResumedByOne
  BY DEF IInv, OneOwner, Owning, ResumedByOne
<1> QED
  BY <1>1, Invariance, PTL

(* resume_on_any_signal() returns the index of a handle that is signalled, *)
(* or the error that ended the waiting: "Canceled" if and only if the      *)
(* caller asked for the stop first; and no awaitable is left.              *)
THEOREM ReturnsTheTruth == Spec => []ResultIsTrue
<1>1. IInv => ResultIsTrue
  <2> SUFFICES ASSUME IInv, pc[Starter] \in {"returned", "refused"}
               PROVE  /\ out.index # 0 => /\ out.index \in signalled
                                          /\ winner = out.index
                      /\ out.error = "Canceled" <=> winner = External
                      /\ live = {}
    BY DEF ResultIsTrue
  <2>1. CASE pc[Starter] = "returned"
    <3>1. done = Waits /\ \A w \in Waits : state[w] = "Resumed"
      BY <2>1 DEF IInv, Asked
    <3>2. live = {}
      BY <3>1, Types DEF IInv, Lifetime
    <3>3. winner \in Waits \/ winner = External
      <4>1. done # {}
        BY <3>1, SignalWaitAssumption DEF Waits
      <4> QED
        BY <4>1, Types DEF IInv, Asked
    <3>4. CASE winner = External
      BY <3>2, <3>4, WhoIsWho DEF IInv, Resulting, Unexpected
    <3>5. CASE winner \in Waits
      <4>1. out = Value(winner) /\ winner # External
        BY <3>1, <3>5, WhoIsWho DEF IInv, Resulting
      <4>2. result[winner] \in {"Success", "Timeout"}
        BY <3>1, <3>5, Types DEF IInv, Resulting, Results
      <4>3. result[winner] = "Success" => winner \in signalled
        BY <3>5 DEF IInv, Resulting
      <4> QED
        BY <3>2, <4>1, <4>2, <4>3 DEF Value, Index, Unexpected
    <3> QED
      BY <3>3, <3>4, <3>5
  <2>2. CASE pc[Starter] = "refused"
    <3>1. at[Starter] = 1 /\ winner = External
      BY <2>2 DEF IInv, Asked
    <3>2. live = {}
      BY <2>2, <3>1, Types DEF IInv, NotStarted, Waits
    <3> QED
      BY <3>1, <3>2, WhoIsWho DEF IInv, Resulting, Unexpected
  <2> QED
    BY <2>1, <2>2
<1> QED
  BY <1>1, Invariance, PTL

(* The assertions of await_suspend(), OnResult(), ResumeFrom() and         *)
(* Cancel() fail only where a stop came in the middle of InitThreadPool(). *)
THEOREM AssertsWhenRaced == Spec => []AssertsOnlyWhenRaced
<1>1. IInv => AssertsOnlyWhenRaced
  BY DEF IInv
<1> QED
  BY <1>1, Invariance, PTL
============================================================================
