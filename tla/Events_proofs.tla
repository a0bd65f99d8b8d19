--------------------------- MODULE Events_proofs ----------------------------
(***************************************************************************)
(* The event system's shutdown is orderly, for any number of threads,      *)
(* receivers and events, and any depth of calls.                           *)
(***************************************************************************)
EXTENDS Events, FiniteSetTheorems, TLAPS

----------------------------------------------------------------------------
(* Stacks.                                                                 *)

\* A new frame is a frame.
LEMMA NewFrameType ==
  ASSUME NEW left \in SUBSET Connections,
         NEW at \in {"started", "emitting", "leaving", "last", "flushing",
                     "removing"}
  PROVE  /\ NewFrame(at, left) \in Frame
         /\ NewFrame(at, left).at = at
BY DEF NewFrame, Frame

\* The top of a stack is one of its frames.
LEMMA TopType ==
  ASSUME stack \in [Threads -> Seq(Frame)], NEW t \in Threads,
         stack[t] # <<>>
  PROVE  /\ Len(stack[t]) \in Nat \ {0}
         /\ Len(stack[t]) \in DOMAIN stack[t]
         /\ Top(t) \in Frame
         /\ Top(t) = stack[t][Len(stack[t])]
BY DEF Top

\* A call puts a frame on the stack and leaves those below alone.
LEMMA PushFrame ==
  ASSUME stack \in [Threads -> Seq(Frame)], NEW t \in Threads,
         NEW f \in Frame, Push(t, f)
  PROVE  /\ stack' \in [Threads -> Seq(Frame)]
         /\ \A u \in Threads \ {t} : stack'[u] = stack[u]
         /\ DOMAIN stack[t] = 1..Len(stack[t])
         /\ DOMAIN stack'[t] = 1..(Len(stack[t]) + 1)
         /\ \A i \in DOMAIN stack[t] : stack'[t][i] = stack[t][i]
         /\ stack'[t][Len(stack[t]) + 1] = f
         /\ Len(stack[t]) \in Nat
BY DEF Push

\* A return takes the top frame off.
LEMMA PopFrame ==
  ASSUME stack \in [Threads -> Seq(Frame)], NEW t \in Threads,
         stack[t] # <<>>, Pop(t)
  PROVE  /\ stack' \in [Threads -> Seq(Frame)]
         /\ \A u \in Threads \ {t} : stack'[u] = stack[u]
         /\ DOMAIN stack[t] = 1..Len(stack[t])
         /\ DOMAIN stack'[t] = 1..(Len(stack[t]) - 1)
         /\ \A i \in DOMAIN stack'[t] : stack'[t][i] = stack[t][i]
         /\ Len(stack[t]) \in Nat \ {0}
BY DEF Pop

\* A step of a call changes the top frame.
LEMMA BecomeFrame ==
  ASSUME stack \in [Threads -> Seq(Frame)], NEW t \in Threads,
         stack[t] # <<>>, NEW f \in Frame, Become(t, f)
  PROVE  /\ stack' \in [Threads -> Seq(Frame)]
         /\ \A u \in Threads \ {t} : stack'[u] = stack[u]
         /\ DOMAIN stack[t] = 1..Len(stack[t])
         /\ DOMAIN stack'[t] = DOMAIN stack[t]
         /\ \A i \in DOMAIN stack[t] \ {Len(stack[t])} :
              stack'[t][i] = stack[t][i]
         /\ stack'[t][Len(stack[t])] = f
         /\ Len(stack[t]) \in Nat \ {0}
BY DEF Become

----------------------------------------------------------------------------
(* What is counted.                                                        *)

\* The counted frames are pairs of a thread and a place of its stack.
LEMMA FrameMembers ==
  ASSUME NEW st \in [Threads -> Seq(Frame)]
  PROVE  LET Counted ==
               UNION {{u} \X {i \in DOMAIN st[u] : st[u][i].at \in CountedAt} :
                      u \in Threads}
         IN  /\ Counted \subseteq Threads \X Nat
             /\ \A u \in Threads : \A i \in Nat :
                  <<u, i>> \in Counted <=>
                    i \in DOMAIN st[u] /\ st[u][i].at \in CountedAt
<1> DEFINE Places(u) == {i \in DOMAIN st[u] : st[u][i].at \in CountedAt}
           Counted == UNION {{u} \X Places(u) : u \in Threads}
<1>1. \A u \in Threads : Places(u) \subseteq Nat
  OBVIOUS
<1>2. Counted \subseteq Threads \X Nat
  BY <1>1
<1>3. \A u \in Threads : \A i \in Nat : <<u, i>> \in Counted <=> i \in Places(u)
  OBVIOUS
<1> QED BY <1>2, <1>3

\* Two sets of places are equal when they have the same places.
LEMMA SamePlaces ==
  ASSUME NEW S \in SUBSET (Threads \X Nat), NEW T \in SUBSET (Threads \X Nat),
         \A u \in Threads : \A i \in Nat : <<u, i>> \in S <=> <<u, i>> \in T
  PROVE  S = T
OBVIOUS

\* So are the queued emitters.
LEMMA EmitterMembers ==
  ASSUME NEW q \in [Threads -> Seq(SUBSET Connections)]
  PROVE  LET Queued == UNION {{u} \X (DOMAIN q[u]) : u \in Threads}
         IN  /\ Queued \subseteq Threads \X Nat
             /\ \A u \in Threads : \A i \in Nat :
                  <<u, i>> \in Queued <=> i \in DOMAIN q[u]
<1> DEFINE Queued == UNION {{u} \X (DOMAIN q[u]) : u \in Threads}
<1>1. \A u \in Threads : DOMAIN q[u] \subseteq Nat
  OBVIOUS
<1> QED BY <1>1

\* Before and after a step.
LEMMA CountedNow ==
  ASSUME stack \in [Threads -> Seq(Frame)], stack' \in [Threads -> Seq(Frame)]
  PROVE  /\ CountedFrames \in SUBSET (Threads \X Nat)
         /\ CountedFrames' \in SUBSET (Threads \X Nat)
         /\ \A u \in Threads : \A i \in Nat :
              /\ <<u, i>> \in CountedFrames <=>
                   i \in DOMAIN stack[u] /\ stack[u][i].at \in CountedAt
              /\ <<u, i>> \in CountedFrames' <=>
                   i \in DOMAIN stack'[u] /\ stack'[u][i].at \in CountedAt
BY FrameMembers DEF CountedFrames

\* What is queued before and after a step is given by the places of the queues.
LEMMA QueuedNow ==
  ASSUME mEmitterQueue \in [Threads -> Seq(SUBSET Connections)],
         mEmitterQueue' \in [Threads -> Seq(SUBSET Connections)]
  PROVE  /\ QueuedEmitters \in SUBSET (Threads \X Nat)
         /\ QueuedEmitters' \in SUBSET (Threads \X Nat)
         /\ \A u \in Threads : \A i \in Nat :
              /\ <<u, i>> \in QueuedEmitters <=> i \in DOMAIN mEmitterQueue[u]
              /\ <<u, i>> \in QueuedEmitters' <=> i \in DOMAIN mEmitterQueue'[u]
BY EmitterMembers DEF QueuedEmitters

\* A call of something that is counted adds one frame to what is counted.
LEMMA PushCounts ==
  ASSUME stack \in [Threads -> Seq(Frame)], NEW t \in Threads,
         NEW f \in Frame, Push(t, f), IsFiniteSet(CountedFrames)
  PROVE  /\ IsFiniteSet(CountedFrames')
         /\ f.at \notin CountedAt => CountedFrames' = CountedFrames
         /\ f.at \in CountedAt =>
              Cardinality(CountedFrames') = Cardinality(CountedFrames) + 1
<1> DEFINE n == Len(stack[t]) + 1
<1>1. /\ stack' \in [Threads -> Seq(Frame)]
      /\ \A u \in Threads \ {t} : stack'[u] = stack[u]
      /\ DOMAIN stack[t] = 1..(n - 1)
      /\ DOMAIN stack'[t] = 1..n
      /\ \A i \in DOMAIN stack[t] : stack'[t][i] = stack[t][i]
      /\ stack'[t][n] = f
      /\ n \in Nat \ {0}
  BY PushFrame
<1>0. /\ CountedFrames \in SUBSET (Threads \X Nat)
      /\ CountedFrames' \in SUBSET (Threads \X Nat)
      /\ \A u \in Threads : \A i \in Nat :
           /\ <<u, i>> \in CountedFrames <=>
                i \in DOMAIN stack[u] /\ stack[u][i].at \in CountedAt
           /\ <<u, i>> \in CountedFrames' <=>
                i \in DOMAIN stack'[u] /\ stack'[u][i].at \in CountedAt
  BY <1>1, CountedNow
<1> HIDE DEF n
<1>2. <<t, n>> \in Threads \X Nat /\ <<t, n>> \notin CountedFrames
  BY <1>0, <1>1
<1>3. \A u \in Threads : \A i \in Nat :
        <<u, i>> \in CountedFrames' <=>
          <<u, i>> \in CountedFrames \/ (f.at \in CountedAt /\ u = t /\ i = n)
  <2> SUFFICES ASSUME NEW u \in Threads, NEW i \in Nat
               PROVE  <<u, i>> \in CountedFrames' <=>
                        \/ <<u, i>> \in CountedFrames
                        \/ f.at \in CountedAt /\ u = t /\ i = n
    OBVIOUS
  <2>1. CASE u # t
    BY <1>0, <1>1, <2>1
  <2>2. CASE u = t
    <3>1. i \in DOMAIN stack'[t] <=> i \in DOMAIN stack[t] \/ i = n
      BY <1>1
    <3>2. n \notin DOMAIN stack[t]
      BY <1>1
    <3> QED BY <1>0, <1>1, <2>2, <3>1, <3>2
  <2> QED BY <2>1, <2>2
<1>4. CASE f.at \notin CountedAt
  <2>1. CountedFrames' = CountedFrames
    BY <1>0, <1>1, <1>3, <1>4, SamePlaces
  <2> QED BY <1>4, <2>1
<1>5. CASE f.at \in CountedAt
  <2>1. CountedFrames' = CountedFrames \cup {<<t, n>>}
    <3>1. CountedFrames \cup {<<t, n>>} \in SUBSET (Threads \X Nat)
      BY <1>0, <1>1, <1>2
    <3> QED BY <1>0, <1>1, <1>3, <1>5, <3>1, SamePlaces
  <2> QED BY <1>2, <1>5, <2>1, FS_AddElement
<1> QED BY <1>4, <1>5

\* A return from it takes one off.
LEMMA PopCounts ==
  ASSUME stack \in [Threads -> Seq(Frame)], NEW t \in Threads,
         stack[t] # <<>>, Pop(t), IsFiniteSet(CountedFrames)
  PROVE  /\ IsFiniteSet(CountedFrames')
         /\ Top(t).at \notin CountedAt => CountedFrames' = CountedFrames
         /\ Top(t).at \in CountedAt =>
              /\ Cardinality(CountedFrames') = Cardinality(CountedFrames) - 1
              /\ CountedFrames' = CountedFrames \ {<<t, Len(stack[t])>>}
              /\ <<t, Len(stack[t])>> \in CountedFrames
<1> DEFINE n == Len(stack[t])
<1>1. /\ stack' \in [Threads -> Seq(Frame)]
      /\ \A u \in Threads \ {t} : stack'[u] = stack[u]
      /\ DOMAIN stack[t] = 1..n
      /\ DOMAIN stack'[t] = 1..(n - 1)
      /\ \A i \in DOMAIN stack'[t] : stack'[t][i] = stack[t][i]
      /\ Top(t) = stack[t][n]
      /\ n \in Nat \ {0}
  BY PopFrame, TopType
<1>0. /\ CountedFrames \in SUBSET (Threads \X Nat)
      /\ CountedFrames' \in SUBSET (Threads \X Nat)
      /\ \A u \in Threads : \A i \in Nat :
           /\ <<u, i>> \in CountedFrames <=>
                i \in DOMAIN stack[u] /\ stack[u][i].at \in CountedAt
           /\ <<u, i>> \in CountedFrames' <=>
                i \in DOMAIN stack'[u] /\ stack'[u][i].at \in CountedAt
  BY <1>1, CountedNow
<1> HIDE DEF n
<1>2. \A u \in Threads : \A i \in Nat :
        <<u, i>> \in CountedFrames' <=>
          <<u, i>> \in CountedFrames /\ ~(u = t /\ i = n)
  <2> SUFFICES ASSUME NEW u \in Threads, NEW i \in Nat
               PROVE  <<u, i>> \in CountedFrames' <=>
                        <<u, i>> \in CountedFrames /\ ~(u = t /\ i = n)
    OBVIOUS
  <2>1. CASE u # t
    BY <1>0, <1>1, <2>1
  <2>2. CASE u = t
    <3>1. i \in DOMAIN stack'[t] <=> i \in DOMAIN stack[t] /\ i # n
      BY <1>1
    <3> QED BY <1>0, <1>1, <2>2, <3>1
  <2> QED BY <2>1, <2>2
<1>3. <<t, n>> \in CountedFrames <=> Top(t).at \in CountedAt
  BY <1>0, <1>1
<1>4. CountedFrames' = CountedFrames \ {<<t, n>>}
  <2>1. CountedFrames \ {<<t, n>>} \in SUBSET (Threads \X Nat)
    BY <1>0, <1>1
  <2> QED BY <1>0, <1>1, <1>2, <2>1, SamePlaces
<1> QED BY <1>3, <1>4, FS_RemoveElement DEF n

\* A step of a call may end its being counted; it never starts it.
LEMMA BecomeCounts ==
  ASSUME stack \in [Threads -> Seq(Frame)], NEW t \in Threads,
         stack[t] # <<>>, NEW f \in Frame, Become(t, f),
         IsFiniteSet(CountedFrames), Top(t).at \in CountedAt
  PROVE  /\ IsFiniteSet(CountedFrames')
         /\ f.at \in CountedAt => CountedFrames' = CountedFrames
         /\ f.at \notin CountedAt =>
              /\ Cardinality(CountedFrames') = Cardinality(CountedFrames) - 1
              /\ CountedFrames' = CountedFrames \ {<<t, Len(stack[t])>>}
              /\ <<t, Len(stack[t])>> \in CountedFrames
<1> DEFINE n == Len(stack[t])
<1>1. /\ stack' \in [Threads -> Seq(Frame)]
      /\ \A u \in Threads \ {t} : stack'[u] = stack[u]
      /\ DOMAIN stack[t] = 1..n
      /\ DOMAIN stack'[t] = 1..n
      /\ \A i \in DOMAIN stack[t] \ {n} : stack'[t][i] = stack[t][i]
      /\ stack'[t][n] = f
      /\ Top(t) = stack[t][n]
      /\ n \in Nat \ {0}
  BY BecomeFrame, TopType
<1>0. /\ CountedFrames \in SUBSET (Threads \X Nat)
      /\ CountedFrames' \in SUBSET (Threads \X Nat)
      /\ \A u \in Threads : \A i \in Nat :
           /\ <<u, i>> \in CountedFrames <=>
                i \in DOMAIN stack[u] /\ stack[u][i].at \in CountedAt
           /\ <<u, i>> \in CountedFrames' <=>
                i \in DOMAIN stack'[u] /\ stack'[u][i].at \in CountedAt
  BY <1>1, CountedNow
<1> HIDE DEF n
<1>2. \A u \in Threads : \A i \in Nat :
        <<u, i>> \in CountedFrames' <=>
          /\ <<u, i>> \in CountedFrames
          /\ f.at \in CountedAt \/ ~(u = t /\ i = n)
  <2> SUFFICES ASSUME NEW u \in Threads, NEW i \in Nat
               PROVE  <<u, i>> \in CountedFrames' <=>
                        /\ <<u, i>> \in CountedFrames
                        /\ f.at \in CountedAt \/ ~(u = t /\ i = n)
    OBVIOUS
  <2>1. CASE u # t
    BY <1>0, <1>1, <2>1
  <2>2. CASE u = t
    BY <1>0, <1>1, <2>2
  <2> QED BY <2>1, <2>2
<1>3. <<t, n>> \in CountedFrames
  BY <1>0, <1>1
<1>4. CASE f.at \in CountedAt
  <2>1. CountedFrames' = CountedFrames
    BY <1>0, <1>1, <1>2, <1>4, SamePlaces
  <2> QED BY <1>4, <2>1
<1>5. CASE f.at \notin CountedAt
  <2>1. CountedFrames \ {<<t, n>>} \in SUBSET (Threads \X Nat)
    BY <1>0, <1>1
  <2>2. CountedFrames' = CountedFrames \ {<<t, n>>}
    BY <1>0, <1>1, <1>2, <1>5, <2>1, SamePlaces
  <2> QED BY <1>3, <1>5, <2>2, FS_RemoveElement DEF n
<1> QED BY <1>4, <1>5

\* Queueing an emitter adds one.
LEMMA EnqueueCounts ==
  ASSUME mEmitterQueue \in [Threads -> Seq(SUBSET Connections)],
         NEW t \in Threads, NEW left \in SUBSET Connections,
         mEmitterQueue' = [mEmitterQueue EXCEPT ![t] = Append(@, left)],
         IsFiniteSet(QueuedEmitters)
  PROVE  /\ mEmitterQueue' \in [Threads -> Seq(SUBSET Connections)]
         /\ \A u \in Threads \ {t} : mEmitterQueue'[u] = mEmitterQueue[u]
         /\ IsFiniteSet(QueuedEmitters')
         /\ Cardinality(QueuedEmitters') = Cardinality(QueuedEmitters) + 1
<1> DEFINE n == Len(mEmitterQueue[t]) + 1
<1>1. /\ mEmitterQueue' \in [Threads -> Seq(SUBSET Connections)]
      /\ \A u \in Threads \ {t} : mEmitterQueue'[u] = mEmitterQueue[u]
      /\ DOMAIN mEmitterQueue[t] = 1..(n - 1)
      /\ DOMAIN mEmitterQueue'[t] = 1..n
      /\ n \in Nat \ {0}
  OBVIOUS
<1>0. /\ QueuedEmitters \in SUBSET (Threads \X Nat)
      /\ QueuedEmitters' \in SUBSET (Threads \X Nat)
      /\ \A u \in Threads : \A i \in Nat :
           /\ <<u, i>> \in QueuedEmitters <=> i \in DOMAIN mEmitterQueue[u]
           /\ <<u, i>> \in QueuedEmitters' <=> i \in DOMAIN mEmitterQueue'[u]
  BY <1>1, QueuedNow
<1> HIDE DEF n
<1>2. <<t, n>> \in Threads \X Nat /\ <<t, n>> \notin QueuedEmitters
  BY <1>0, <1>1
<1>3. \A u \in Threads : \A i \in Nat :
        <<u, i>> \in QueuedEmitters' <=>
          <<u, i>> \in QueuedEmitters \/ (u = t /\ i = n)
  <2> SUFFICES ASSUME NEW u \in Threads, NEW i \in Nat
               PROVE  <<u, i>> \in QueuedEmitters' <=>
                        <<u, i>> \in QueuedEmitters \/ (u = t /\ i = n)
    OBVIOUS
  <2>1. CASE u # t
    BY <1>0, <1>1, <2>1
  <2>2. CASE u = t
    BY <1>0, <1>1, <2>2
  <2> QED BY <2>1, <2>2
<1>4. QueuedEmitters' = QueuedEmitters \cup {<<t, n>>}
  <2>1. QueuedEmitters \cup {<<t, n>>} \in SUBSET (Threads \X Nat)
    BY <1>0, <1>1, <1>2
  <2> QED BY <1>0, <1>1, <1>3, <2>1, SamePlaces
<1> QED BY <1>1, <1>2, <1>4, FS_AddElement

\* Taking the first emitter off the queue removes one: the last place.
LEMMA DequeueCounts ==
  ASSUME mEmitterQueue \in [Threads -> Seq(SUBSET Connections)],
         NEW t \in Threads, mEmitterQueue[t] # <<>>,
         mEmitterQueue' = [mEmitterQueue EXCEPT ![t] = Tail(@)],
         IsFiniteSet(QueuedEmitters)
  PROVE  /\ mEmitterQueue' \in [Threads -> Seq(SUBSET Connections)]
         /\ \A u \in Threads \ {t} : mEmitterQueue'[u] = mEmitterQueue[u]
         /\ Head(mEmitterQueue[t]) \in SUBSET Connections
         /\ IsFiniteSet(QueuedEmitters')
         /\ Cardinality(QueuedEmitters') = Cardinality(QueuedEmitters) - 1
<1> DEFINE n == Len(mEmitterQueue[t])
<1>1. /\ mEmitterQueue' \in [Threads -> Seq(SUBSET Connections)]
      /\ \A u \in Threads \ {t} : mEmitterQueue'[u] = mEmitterQueue[u]
      /\ DOMAIN mEmitterQueue[t] = 1..n
      /\ DOMAIN mEmitterQueue'[t] = 1..(n - 1)
      /\ n \in Nat \ {0}
      /\ Head(mEmitterQueue[t]) \in SUBSET Connections
  OBVIOUS
<1>0. /\ QueuedEmitters \in SUBSET (Threads \X Nat)
      /\ QueuedEmitters' \in SUBSET (Threads \X Nat)
      /\ \A u \in Threads : \A i \in Nat :
           /\ <<u, i>> \in QueuedEmitters <=> i \in DOMAIN mEmitterQueue[u]
           /\ <<u, i>> \in QueuedEmitters' <=> i \in DOMAIN mEmitterQueue'[u]
  BY <1>1, QueuedNow
<1> HIDE DEF n
<1>2. <<t, n>> \in Threads \X Nat /\ <<t, n>> \in QueuedEmitters
  BY <1>0, <1>1
<1>3. \A u \in Threads : \A i \in Nat :
        <<u, i>> \in QueuedEmitters' <=>
          <<u, i>> \in QueuedEmitters /\ ~(u = t /\ i = n)
  <2> SUFFICES ASSUME NEW u \in Threads, NEW i \in Nat
               PROVE  <<u, i>> \in QueuedEmitters' <=>
                        <<u, i>> \in QueuedEmitters /\ ~(u = t /\ i = n)
    OBVIOUS
  <2>1. CASE u # t
    BY <1>0, <1>1, <2>1
  <2>2. CASE u = t
    BY <1>0, <1>1, <2>2
  <2> QED BY <2>1, <2>2
<1>4. QueuedEmitters' = QueuedEmitters \ {<<t, n>>}
  <2>1. QueuedEmitters \ {<<t, n>>} \in SUBSET (Threads \X Nat)
    BY <1>0, <1>1
  <2> QED BY <1>0, <1>1, <1>3, <2>1, SamePlaces
<1>5. /\ IsFiniteSet(QueuedEmitters')
      /\ Cardinality(QueuedEmitters') = Cardinality(QueuedEmitters) - 1
  BY <1>2, <1>4, FS_RemoveElement
<1> QED BY <1>1, <1>5

----------------------------------------------------------------------------
(* What a change of a stack means for the invariant.                       *)

\* Some thread is at a place; a thread is flushing.
Has(st, at) == \E u \in Threads : \E i \in DOMAIN st[u] : st[u][i].at = at
Flushing(st, u) == \E i \in DOMAIN st[u] : st[u][i].at = "flushing"

\* The parts of the invariant about stacks, in these terms.
LEMMA QuietByPlaces ==
  /\ Quiet <=> /\ \A u \in Threads : mEmitterQueue[u] = <<>>
               /\ ~Has(stack, "emitting")
  /\ LastIsQuiet <=> (Has(stack, "last") => mShuttingDown /\ Quiet)
  /\ NothingStranded <=>
       \A u \in Threads : mEmitterQueue[u] # <<>> =>
         mDelayDepth[u] > 0 \/ Flushing(stack, u)
BY DEF Quiet, LastIsQuiet, NothingStranded, Has, Flushing

\* The same of the state after a step.
LEMMA QuietByPlacesNext ==
  /\ Quiet' <=> /\ \A u \in Threads : mEmitterQueue'[u] = <<>>
                /\ ~Has(stack', "emitting")
  /\ LastIsQuiet' <=> (Has(stack', "last") => mShuttingDown' /\ Quiet')
  /\ NothingStranded' <=>
       \A u \in Threads : mEmitterQueue'[u] # <<>> =>
         mDelayDepth'[u] > 0 \/ Flushing(stack', u)
BY DEF Quiet, LastIsQuiet, NothingStranded, Has, Flushing

\* The frame of a new call is the only new place on the stacks.
LEMMA PushPlaces ==
  ASSUME stack \in [Threads -> Seq(Frame)], NEW t \in Threads,
         NEW f \in Frame, Push(t, f)
  PROVE  /\ \A at : Has(stack', at) => Has(stack, at) \/ f.at = at
         /\ \A u \in Threads : Flushing(stack, u) => Flushing(stack', u)
         /\ f.at = "flushing" => Flushing(stack', t)
<1>1. \A at : Has(stack', at) => Has(stack, at) \/ f.at = at
  <2> SUFFICES ASSUME NEW at, NEW u \in Threads, NEW i \in DOMAIN stack'[u],
                      stack'[u][i].at = at, f.at # at
               PROVE  i \in DOMAIN stack[u] /\ stack[u][i].at = at
    BY DEF Has
  <2>1. CASE u # t
    BY <2>1, PushFrame
  <2>2. CASE u = t
    <3>1. i \in DOMAIN stack[t] \/ i = Len(stack[t]) + 1
      BY <2>2, PushFrame
    <3> QED BY <2>2, <3>1, PushFrame
  <2> QED BY <2>1, <2>2
<1>2. \A u \in Threads : Flushing(stack, u) => Flushing(stack', u)
  <2> SUFFICES ASSUME NEW u \in Threads, NEW i \in DOMAIN stack[u],
                      stack[u][i].at = "flushing"
               PROVE  i \in DOMAIN stack'[u] /\ stack'[u][i].at = "flushing"
    BY DEF Flushing
  <2>1. CASE u # t
    BY <2>1, PushFrame
  <2>2. CASE u = t
    <3>1. i \in DOMAIN stack'[t]
      BY <2>2, PushFrame
    <3> QED BY <2>2, <3>1, PushFrame
  <2> QED BY <2>1, <2>2
<1>3. ASSUME f.at = "flushing" PROVE Flushing(stack', t)
  <2>1. Len(stack[t]) + 1 \in DOMAIN stack'[t]
    BY PushFrame
  <2> QED BY <1>3, <2>1, PushFrame DEF Flushing
<1> QED BY <1>1, <1>2, <1>3

\* A return removes one place and changes no other.
LEMMA PopPlaces ==
  ASSUME stack \in [Threads -> Seq(Frame)], NEW t \in Threads,
         stack[t] # <<>>, Pop(t)
  PROVE  /\ \A at : Has(stack', at) => Has(stack, at)
         /\ \A u \in Threads :
              /\ Flushing(stack, u)
              /\ u = t => Top(t).at # "flushing"
              => Flushing(stack', u)
<1>1. \A at : Has(stack', at) => Has(stack, at)
  <2> SUFFICES ASSUME NEW at, NEW u \in Threads, NEW i \in DOMAIN stack'[u],
                      stack'[u][i].at = at
               PROVE  i \in DOMAIN stack[u] /\ stack[u][i].at = at
    BY DEF Has
  <2>1. CASE u # t
    BY <2>1, PopFrame
  <2>2. CASE u = t
    <3>1. i \in DOMAIN stack[t]
      BY <2>2, PopFrame
    <3> QED BY <2>2, <3>1, PopFrame
  <2> QED BY <2>1, <2>2
<1>2. ASSUME NEW u \in Threads, Flushing(stack, u),
             u = t => Top(t).at # "flushing"
      PROVE  Flushing(stack', u)
  <2>1. PICK i \in DOMAIN stack[u] : stack[u][i].at = "flushing"
    BY <1>2 DEF Flushing
  <2>2. CASE u # t
    BY <2>1, <2>2, PopFrame DEF Flushing
  <2>3. CASE u = t
    <3>1. i # Len(stack[t])
      BY <1>2, <2>1, <2>3, TopType
    <3>2. i \in DOMAIN stack'[t]
      BY <2>3, <3>1, PopFrame
    <3> QED BY <2>1, <2>3, <3>2, PopFrame DEF Flushing
  <2> QED BY <2>2, <2>3
<1> QED BY <1>1, <1>2

\* A step of a call changes one place only.
LEMMA BecomePlaces ==
  ASSUME stack \in [Threads -> Seq(Frame)], NEW t \in Threads,
         stack[t] # <<>>, NEW f \in Frame, Become(t, f),
         Top(t).at # "flushing"
  PROVE  /\ \A at : Has(stack', at) => Has(stack, at) \/ f.at = at
         /\ \A u \in Threads : Flushing(stack, u) => Flushing(stack', u)
<1>1. \A at : Has(stack', at) => Has(stack, at) \/ f.at = at
  <2> SUFFICES ASSUME NEW at, NEW u \in Threads, NEW i \in DOMAIN stack'[u],
                      stack'[u][i].at = at, f.at # at
               PROVE  i \in DOMAIN stack[u] /\ stack[u][i].at = at
    BY DEF Has
  <2>1. CASE u # t
    BY <2>1, BecomeFrame
  <2>2. CASE u = t
    BY <2>2, BecomeFrame
  <2> QED BY <2>1, <2>2
<1>2. \A u \in Threads : Flushing(stack, u) => Flushing(stack', u)
  <2> SUFFICES ASSUME NEW u \in Threads, NEW i \in DOMAIN stack[u],
                      stack[u][i].at = "flushing"
               PROVE  i \in DOMAIN stack'[u] /\ stack'[u][i].at = "flushing"
    BY DEF Flushing
  <2>1. CASE u # t
    BY <2>1, BecomeFrame
  <2>2. CASE u = t
    <3>1. i # Len(stack[t])
      BY <2>2, TopType
    <3> QED BY <2>2, <3>1, BecomeFrame
  <2> QED BY <2>1, <2>2
<1> QED BY <1>1, <1>2

\* The top of a stack is somewhere.
LEMMA TopHas ==
  ASSUME stack \in [Threads -> Seq(Frame)], NEW t \in Threads, stack[t] # <<>>
  PROVE  Has(stack, Top(t).at)
BY TopType DEF Has

----------------------------------------------------------------------------
(* The inductive invariant.                                                *)

\* At first nothing is counted but the counter's own 1.
LEMMA InvInit == Init => IInv
<1> SUFFICES ASSUME Init PROVE IInv
  OBVIOUS
<1>1. TypeOK
  <2>1. MaxCalls \in Nat
    BY EventsAssumption
  <2>2. <<>> \in Seq(Frame) /\ <<>> \in Seq(SUBSET Connections)
    OBVIOUS
  <2>3. /\ connection \in [Connections -> {"unborn", "valid", "invalid"}]
        /\ destroyed \subseteq AllEvents
        /\ stack \in [Threads -> Seq(Frame)]
        /\ mDelayDepth \in [Threads -> Nat]
        /\ mEmitterQueue \in [Threads -> Seq(SUBSET Connections)]
    BY <2>2 DEF Init
  <2>4. mEventCount \in Nat /\ calls \in 0..MaxCalls
    BY <2>1 DEF Init
  <2>5. mShuttingDown \in BOOLEAN
    BY Zenon DEF Init
  <2>6. /\ shutdownEvent \in {"none", "unset", "set", "closed"}
        /\ status \in {"running", "fatal", "terminated"}
    BY DEF Init
  <2> QED BY <2>3, <2>4, <2>5, <2>6 DEF TypeOK
<1>2. /\ stack \in [Threads -> Seq(Frame)]
      /\ mEmitterQueue \in [Threads -> Seq(SUBSET Connections)]
      /\ \A u \in Threads : stack[u] = <<>> /\ mEmitterQueue[u] = <<>>
  BY <1>1 DEF Init, TypeOK
<1>3. CountedFrames = {} /\ QueuedEmitters = {}
  BY <1>2 DEF CountedFrames, QueuedEmitters
<1>4. /\ IsFiniteSet(CountedFrames) /\ IsFiniteSet(QueuedEmitters)
      /\ CountIsExact
  BY <1>3, FS_EmptySet DEF Init, CountIsExact
<1>5. FlagOfEvent /\ NeverFatal /\ QuietOnceSignalled
  BY DEF Init, FlagOfEvent, NeverFatal, QuietOnceSignalled
<1>6. LastIsQuiet /\ NothingStranded
  BY <1>2 DEF LastIsQuiet, NothingStranded
<1> QED BY <1>1, <1>4, <1>5, <1>6 DEF IInv

\* The types, one variable at a time.
LEMMA TypeByVariables ==
  ASSUME TypeOK,
         connection' \in [Connections -> {"unborn", "valid", "invalid"}],
         destroyed' \subseteq AllEvents,
         stack' \in [Threads -> Seq(Frame)],
         mDelayDepth' \in [Threads -> Nat],
         mEmitterQueue' \in [Threads -> Seq(SUBSET Connections)],
         mEventCount' \in Nat,
         mShuttingDown' = mShuttingDown \/ mShuttingDown' = TRUE,
         shutdownEvent' \in {"none", "unset", "set", "closed"},
         status' \in {"running", "fatal", "terminated"},
         calls' \in 0..MaxCalls
  PROVE  TypeOK'
<1>1. mShuttingDown' \in BOOLEAN
  BY Zenon DEF TypeOK
<1> QED BY <1>1 DEF TypeOK

\* The types as facts about single variables.
LEMMA Types ==
  ASSUME TypeOK
  PROVE  /\ connection \in [Connections -> {"unborn", "valid", "invalid"}]
         /\ destroyed \subseteq AllEvents
         /\ stack \in [Threads -> Seq(Frame)]
         /\ mDelayDepth \in [Threads -> Nat]
         /\ mEmitterQueue \in [Threads -> Seq(SUBSET Connections)]
         /\ mEventCount \in Nat
         /\ shutdownEvent \in {"none", "unset", "set", "closed"}
         /\ status \in {"running", "fatal", "terminated"}
         /\ calls \in 0..MaxCalls
BY DEF TypeOK

\* A step that nobody could take for the end of the shutdown.
LEMMA PlainStep ==
  ASSUME IInv, TypeOK',
         IsFiniteSet(CountedFrames'), IsFiniteSet(QueuedEmitters'),
         CountIsExact', NothingStranded',
         Has(stack', "last") => Has(stack, "last"),
         mShuttingDown /\ Quiet => Quiet',
         UNCHANGED <<mShuttingDown, shutdownEvent>>,
         status' # "fatal"
  PROVE  IInv'
<1>1. FlagOfEvent' /\ NeverFatal'
  BY DEF IInv, FlagOfEvent, NeverFatal
<1>2. QuietOnceSignalled'
  BY DEF IInv, FlagOfEvent, QuietOnceSignalled
<1>3. LastIsQuiet'
  BY QuietByPlaces, QuietByPlacesNext DEF IInv
<1> QED BY <1>1, <1>2, <1>3 DEF IInv

\* A step that does not count, and does not queue.
LEMMA QuietStep ==
  ASSUME IInv, TypeOK',
         IsFiniteSet(CountedFrames'),
         Cardinality(CountedFrames') = Cardinality(CountedFrames),
         Has(stack', "last") => Has(stack, "last"),
         mShuttingDown /\ Has(stack', "emitting") => Has(stack, "emitting"),
         \A u \in Threads :
           mEmitterQueue[u] # <<>> /\ (mDelayDepth[u] > 0 \/ Flushing(stack, u))
             => mDelayDepth'[u] > 0 \/ Flushing(stack', u),
         UNCHANGED <<mEmitterQueue, globals>>,
         status' # "fatal"
  PROVE  IInv'
<1>1. /\ mEmitterQueue' = mEmitterQueue /\ mEventCount' = mEventCount
      /\ mShuttingDown' = mShuttingDown /\ shutdownEvent' = shutdownEvent
  BY DEF globals
<1>2. QueuedEmitters' = QueuedEmitters
  BY <1>1 DEF QueuedEmitters
<1>3. CountIsExact' /\ IsFiniteSet(QueuedEmitters')
  BY <1>1, <1>2 DEF IInv, CountIsExact
<1>4. mShuttingDown /\ Quiet => Quiet'
  BY <1>1, QuietByPlaces, QuietByPlacesNext
<1>5. NothingStranded'
  BY <1>1, QuietByPlaces, QuietByPlacesNext DEF IInv
<1> QED BY <1>1, <1>3, <1>4, <1>5, PlainStep

\* A step that leaves the stacks alone.
LEMMA SameStackStep ==
  ASSUME IInv, UNCHANGED <<stack, delays, globals>>,
         connection' \in [Connections -> {"unborn", "valid", "invalid"}],
         destroyed' \subseteq AllEvents,
         status' = status \/ status' = "terminated",
         calls' = calls
  PROVE  IInv'
<1>1. /\ stack' = stack /\ mDelayDepth' = mDelayDepth
      /\ mEmitterQueue' = mEmitterQueue /\ mEventCount' = mEventCount
      /\ mShuttingDown' = mShuttingDown /\ shutdownEvent' = shutdownEvent
  BY DEF delays, globals
<1>2. TypeOK'
  BY <1>1, Types, TypeByVariables DEF IInv
<1>3. CountedFrames' = CountedFrames
  BY <1>1 DEF CountedFrames
<1>4. status' # "fatal"
  BY DEF IInv, NeverFatal
<1> QED BY <1>1, <1>2, <1>3, <1>4, QuietStep DEF IInv, globals

\* A call that is not an event's.
LEMMA QuietPush ==
  ASSUME IInv, NEW t \in Threads, NEW left \in SUBSET Connections,
         Push(t, NewFrame("removing", left)),
         UNCHANGED <<connection, delays, globals, status, calls>>,
         destroyed' \subseteq AllEvents
  PROVE  IInv'
<1>1. /\ mDelayDepth' = mDelayDepth /\ connection' = connection
      /\ mEmitterQueue' = mEmitterQueue /\ mEventCount' = mEventCount
      /\ mShuttingDown' = mShuttingDown /\ shutdownEvent' = shutdownEvent
      /\ status' = status /\ calls' = calls
  BY DEF delays, globals
<1> DEFINE f == NewFrame("removing", left)
<1>2. f \in Frame /\ f.at = "removing"
  BY NewFrameType
<1>3. TypeOK /\ stack \in [Threads -> Seq(Frame)]
  BY Types DEF IInv
<1> HIDE DEF f
<1>4. stack' \in [Threads -> Seq(Frame)]
  BY <1>2, <1>3, PushFrame DEF f
<1>5. TypeOK'
  BY <1>1, <1>3, <1>4, Types, TypeByVariables
<1>6. CountedFrames' = CountedFrames /\ IsFiniteSet(CountedFrames')
  BY <1>2, <1>3, PushCounts DEF IInv, CountedAt, f
<1>7. /\ \A at : Has(stack', at) => Has(stack, at) \/ f.at = at
      /\ \A u \in Threads : Flushing(stack, u) => Flushing(stack', u)
  BY <1>2, <1>3, PushPlaces DEF f
<1>8. status' # "fatal"
  BY <1>1 DEF IInv, NeverFatal
<1> QED BY <1>1, <1>2, <1>5, <1>6, <1>7, <1>8, QuietStep DEF globals

\* The return of a call that is not an event's.
LEMMA QuietPop ==
  ASSUME IInv, NEW t \in Threads, stack[t] # <<>>, Pop(t),
         \/ Top(t).at = "removing"
         \/ Top(t).at = "flushing" /\ mEmitterQueue[t] = <<>>,
         UNCHANGED <<delays, globals, status, calls, destroyed>>,
         connection' \in [Connections -> {"unborn", "valid", "invalid"}]
  PROVE  IInv'
<1>1. /\ mDelayDepth' = mDelayDepth /\ destroyed' = destroyed
      /\ mEmitterQueue' = mEmitterQueue /\ mEventCount' = mEventCount
      /\ mShuttingDown' = mShuttingDown /\ shutdownEvent' = shutdownEvent
      /\ status' = status /\ calls' = calls
  BY DEF delays, globals
<1>2. TypeOK /\ stack \in [Threads -> Seq(Frame)]
  BY Types DEF IInv
<1>3. stack' \in [Threads -> Seq(Frame)]
  BY <1>2, PopFrame
<1>4. TypeOK'
  BY <1>1, <1>2, <1>3, Types, TypeByVariables
<1>5. CountedFrames' = CountedFrames /\ IsFiniteSet(CountedFrames')
  BY <1>2, PopCounts DEF IInv, CountedAt
<1>6. /\ \A at : Has(stack', at) => Has(stack, at)
      /\ \A u \in Threads :
           /\ Flushing(stack, u)
           /\ u = t => Top(t).at # "flushing"
           => Flushing(stack', u)
  BY <1>2, PopPlaces
<1>7. status' # "fatal"
  BY <1>1 DEF IInv, NeverFatal
<1> QED BY <1>1, <1>4, <1>5, <1>6, <1>7, QuietStep DEF globals

\* A step of an event's call, which stays counted.
LEMMA QuietBecome ==
  ASSUME IInv, NEW t \in Threads, stack[t] # <<>>,
         NEW f \in Frame, Become(t, f),
         Top(t).at \in CountedAt, f.at \in CountedAt,
         f.at = "emitting" => Top(t).at = "emitting" \/ ~mShuttingDown,
         UNCHANGED <<connection, destroyed, mEmitterQueue, globals, status>>,
         mDelayDepth' \in [Threads -> Nat],
         \A u \in Threads : mDelayDepth'[u] >= mDelayDepth[u],
         calls' \in 0..MaxCalls
  PROVE  IInv'
<1>1. /\ connection' = connection /\ destroyed' = destroyed
      /\ mEmitterQueue' = mEmitterQueue /\ mEventCount' = mEventCount
      /\ mShuttingDown' = mShuttingDown /\ shutdownEvent' = shutdownEvent
      /\ status' = status
  BY DEF globals
<1>2. TypeOK /\ stack \in [Threads -> Seq(Frame)]
  BY Types DEF IInv
<1>3. stack' \in [Threads -> Seq(Frame)]
  BY <1>2, BecomeFrame
<1>4. TypeOK'
  BY <1>1, <1>2, <1>3, Types, TypeByVariables
<1>5. CountedFrames' = CountedFrames /\ IsFiniteSet(CountedFrames')
  BY <1>2, BecomeCounts DEF IInv
<1>6. /\ \A at : Has(stack', at) => Has(stack, at) \/ f.at = at
      /\ \A u \in Threads : Flushing(stack, u) => Flushing(stack', u)
  BY <1>2, BecomePlaces DEF CountedAt
<1>7. mShuttingDown /\ Has(stack', "emitting") => Has(stack, "emitting")
  BY <1>2, <1>6, TopHas
<1>8. Has(stack', "last") => Has(stack, "last")
  BY <1>6 DEF CountedAt
<1>9. \A u \in Threads :
        mEmitterQueue[u] # <<>> /\ (mDelayDepth[u] > 0 \/ Flushing(stack, u))
          => mDelayDepth'[u] > 0 \/ Flushing(stack', u)
  <2>1. mDelayDepth \in [Threads -> Nat]
    BY <1>2, Types
  <2> QED BY <1>6, <2>1
<1>10. status' # "fatal"
  BY <1>1 DEF IInv, NeverFatal
<1> QED BY <1>1, <1>4, <1>5, <1>7, <1>8, <1>9, <1>10, QuietStep DEF globals

----------------------------------------------------------------------------
(* The steps that count.                                                   *)

\* Emit() counts the frame it pushes.
LEMMA EmitStep ==
  ASSUME IInv, NEW t \in Threads, NEW e \in AllEvents, Emit(t, e)
  PROVE  IInv'
<1> DEFINE f == NewFrame("started", mReceivers(e))
<1>1. /\ mDelayDepth' = mDelayDepth /\ connection' = connection
      /\ mEmitterQueue' = mEmitterQueue /\ mEventCount' = mEventCount + 1
      /\ mShuttingDown' = mShuttingDown /\ shutdownEvent' = shutdownEvent
      /\ status' = status /\ status = "running" /\ destroyed' = destroyed
      /\ Push(t, f)
  BY DEF Emit, delays, InUserCode
<1>2. TypeOK /\ stack \in [Threads -> Seq(Frame)]
  BY Types DEF IInv
<1>3. calls' \in 0..MaxCalls
  BY <1>2, Types, EventsAssumption DEF Emit
<1>4. f \in Frame /\ f.at = "started"
  <2>1. mReceivers(e) \in SUBSET Connections
    BY DEF mReceivers
  <2> QED BY <2>1, NewFrameType
<1> HIDE DEF f
<1>5. stack' \in [Threads -> Seq(Frame)]
  BY <1>1, <1>2, <1>4, PushFrame
<1>6. mEventCount' \in Nat
  BY <1>1, <1>2, Types
<1>7. TypeOK'
  BY <1>1, <1>2, <1>3, <1>5, <1>6, Types, TypeByVariables
<1>8. /\ IsFiniteSet(CountedFrames')
      /\ Cardinality(CountedFrames') = Cardinality(CountedFrames) + 1
  BY <1>1, <1>2, <1>4, PushCounts DEF IInv, CountedAt
<1>9. QueuedEmitters' = QueuedEmitters
  BY <1>1 DEF QueuedEmitters
<1>10. /\ Cardinality(CountedFrames) \in Nat
       /\ Cardinality(QueuedEmitters) \in Nat
  BY FS_CardinalityType DEF IInv
<1>11. CountIsExact' /\ IsFiniteSet(QueuedEmitters')
  BY <1>1, <1>8, <1>9, <1>10 DEF IInv, CountIsExact
<1>12. /\ \A at : Has(stack', at) => Has(stack, at) \/ f.at = at
       /\ \A u \in Threads : Flushing(stack, u) => Flushing(stack', u)
  BY <1>1, <1>2, <1>4, PushPlaces
<1>13. NothingStranded'
  BY <1>1, <1>12, QuietByPlaces, QuietByPlacesNext DEF IInv
<1>14. Quiet => Quiet'
  BY <1>1, <1>4, <1>12, QuietByPlaces, QuietByPlacesNext
<1> QED BY <1>1, <1>4, <1>7, <1>8, <1>11, <1>12, <1>13, <1>14, PlainStep

\* Queueing moves the count from the frame to the queue.
LEMMA EnqueueStep ==
  ASSUME IInv, NEW t \in Threads, Enqueue(t)
  PROVE  IInv'
<1> DEFINE left == Top(t).left
<1>1. /\ mDelayDepth' = mDelayDepth /\ connection' = connection
      /\ mEventCount' = mEventCount /\ calls' = calls
      /\ mShuttingDown' = mShuttingDown /\ shutdownEvent' = shutdownEvent
      /\ status' = status /\ status = "running" /\ destroyed' = destroyed
      /\ stack[t] # <<>> /\ Pop(t) /\ Top(t).at = "started"
      /\ mEmitterQueue' = [mEmitterQueue EXCEPT ![t] = Append(@, left)]
      /\ ~mShuttingDown /\ mDelayDepth[t] > 0
  BY DEF Enqueue, globals, At
<1>2. /\ TypeOK /\ stack \in [Threads -> Seq(Frame)]
      /\ mEmitterQueue \in [Threads -> Seq(SUBSET Connections)]
      /\ IsFiniteSet(CountedFrames) /\ IsFiniteSet(QueuedEmitters)
  BY Types DEF IInv
<1>3. left \in SUBSET Connections
  BY <1>1, <1>2, TopType DEF Frame
<1> HIDE DEF left
<1>4. stack' \in [Threads -> Seq(Frame)]
  BY <1>1, <1>2, PopFrame
<1>5. /\ mEmitterQueue' \in [Threads -> Seq(SUBSET Connections)]
      /\ \A u \in Threads \ {t} : mEmitterQueue'[u] = mEmitterQueue[u]
      /\ IsFiniteSet(QueuedEmitters')
      /\ Cardinality(QueuedEmitters') = Cardinality(QueuedEmitters) + 1
  BY <1>1, <1>2, <1>3, EnqueueCounts
<1>6. TypeOK'
  BY <1>1, <1>2, <1>4, <1>5, Types, TypeByVariables
<1>7. /\ IsFiniteSet(CountedFrames')
      /\ Cardinality(CountedFrames') = Cardinality(CountedFrames) - 1
  BY <1>1, <1>2, PopCounts DEF CountedAt
<1>8. /\ Cardinality(CountedFrames) \in Nat
      /\ Cardinality(QueuedEmitters) \in Nat
  BY <1>2, FS_CardinalityType
<1>9. CountIsExact'
  BY <1>1, <1>5, <1>7, <1>8 DEF IInv, CountIsExact
<1>10. /\ \A at : Has(stack', at) => Has(stack, at)
       /\ \A u \in Threads : Flushing(stack, u) => Flushing(stack', u)
  BY <1>1, <1>2, PopPlaces
<1>11. NothingStranded'
  BY <1>1, <1>5, <1>10, QuietByPlaces, QuietByPlacesNext DEF IInv
<1> QED BY <1>1, <1>5, <1>6, <1>7, <1>9, <1>10, <1>11, PlainStep

\* Flush() moves it back.
LEMMA FlushStep ==
  ASSUME IInv, NEW t \in Threads, FlushNext(t)
  PROVE  IInv'
<1> DEFINE f == NewFrame("emitting", Head(mEmitterQueue[t]))
<1>1. /\ mDelayDepth' = mDelayDepth /\ connection' = connection
      /\ mEventCount' = mEventCount /\ calls' = calls
      /\ mShuttingDown' = mShuttingDown /\ shutdownEvent' = shutdownEvent
      /\ status' = status /\ status = "running" /\ destroyed' = destroyed
      /\ stack[t] # <<>> /\ Push(t, f) /\ Top(t).at = "flushing"
      /\ mEmitterQueue[t] # <<>>
      /\ mEmitterQueue' = [mEmitterQueue EXCEPT ![t] = Tail(@)]
  BY DEF FlushNext, globals, At
<1>2. /\ TypeOK /\ stack \in [Threads -> Seq(Frame)]
      /\ mEmitterQueue \in [Threads -> Seq(SUBSET Connections)]
      /\ IsFiniteSet(CountedFrames) /\ IsFiniteSet(QueuedEmitters)
  BY Types DEF IInv
<1>3. /\ mEmitterQueue' \in [Threads -> Seq(SUBSET Connections)]
      /\ \A u \in Threads \ {t} : mEmitterQueue'[u] = mEmitterQueue[u]
      /\ Head(mEmitterQueue[t]) \in SUBSET Connections
      /\ IsFiniteSet(QueuedEmitters')
      /\ Cardinality(QueuedEmitters') = Cardinality(QueuedEmitters) - 1
  BY <1>1, <1>2, DequeueCounts
<1>4. f \in Frame /\ f.at = "emitting"
  BY <1>3, NewFrameType
<1> HIDE DEF f
<1>5. stack' \in [Threads -> Seq(Frame)]
  BY <1>1, <1>2, <1>4, PushFrame
<1>6. TypeOK'
  BY <1>1, <1>2, <1>3, <1>5, Types, TypeByVariables
<1>7. /\ IsFiniteSet(CountedFrames')
      /\ Cardinality(CountedFrames') = Cardinality(CountedFrames) + 1
  BY <1>1, <1>2, <1>4, PushCounts DEF CountedAt
<1>8. /\ Cardinality(CountedFrames) \in Nat
      /\ Cardinality(QueuedEmitters) \in Nat
  BY <1>2, FS_CardinalityType
<1>9. CountIsExact'
  BY <1>1, <1>3, <1>7, <1>8 DEF IInv, CountIsExact
<1>10. /\ \A at : Has(stack', at) => Has(stack, at) \/ f.at = at
       /\ \A u \in Threads : Flushing(stack, u) => Flushing(stack', u)
  BY <1>1, <1>2, <1>4, PushPlaces
<1>11. NothingStranded'
  <2>1. Flushing(stack, t)
    BY <1>1, <1>2, TopType DEF Flushing
  <2> QED BY <1>1, <1>3, <1>10, <2>1, QuietByPlaces, QuietByPlacesNext DEF IInv
<1>12. ~Quiet
  BY <1>1 DEF Quiet
<1> QED BY <1>1, <1>3, <1>4, <1>6, <1>7, <1>9, <1>10, <1>11, <1>12, PlainStep

(***************************************************************************)
(* Sub1().  Who takes the last 1 has had the flag set before it, or there  *)
(* would be 1 more; and it takes it from its own frame, so that no other   *)
(* frame and no emitter is left.                                           *)
(***************************************************************************)
LEMMA Sub1Step ==
  ASSUME IInv, NEW t \in Threads, Sub1(t)
  PROVE  IInv'
<1> DEFINE n == Len(stack[t])
           f == NewFrame("last", {})
<1>1. /\ mDelayDepth' = mDelayDepth /\ connection' = connection
      /\ mEmitterQueue' = mEmitterQueue /\ mEventCount' = mEventCount - 1
      /\ mShuttingDown' = mShuttingDown /\ shutdownEvent' = shutdownEvent
      /\ status' = status /\ status = "running" /\ destroyed' = destroyed
      /\ calls' = calls /\ stack[t] # <<>>
      /\ Top(t).at \in {"leaving", "emitting"}
  BY DEF Sub1, delays, At
<1>2. /\ TypeOK /\ stack \in [Threads -> Seq(Frame)]
      /\ IsFiniteSet(CountedFrames) /\ IsFiniteSet(QueuedEmitters)
  BY Types DEF IInv
<1>3. f \in Frame /\ f.at = "last"
  BY NewFrameType
<1> HIDE DEF f
<1>4. IF mEventCount = 1 THEN Become(t, f) ELSE Pop(t)
  BY DEF Sub1, f
<1>5. /\ stack' \in [Threads -> Seq(Frame)]
      /\ IsFiniteSet(CountedFrames')
      /\ Cardinality(CountedFrames') = Cardinality(CountedFrames) - 1
      /\ CountedFrames' = CountedFrames \ {<<t, n>>}
      /\ <<t, n>> \in CountedFrames
  <2>1. CASE mEventCount = 1
    BY <1>1, <1>2, <1>3, <1>4, <2>1, BecomeFrame, BecomeCounts DEF CountedAt
  <2>2. CASE mEventCount # 1
    BY <1>1, <1>2, <1>4, <2>2, PopFrame, PopCounts DEF CountedAt
  <2> QED BY <2>1, <2>2
<1>6. /\ Cardinality(CountedFrames) \in Nat
      /\ Cardinality(QueuedEmitters) \in Nat
      /\ Cardinality(CountedFrames') \in Nat
  BY <1>2, <1>5, FS_CardinalityType
<1>7. QueuedEmitters' = QueuedEmitters
  BY <1>1 DEF QueuedEmitters
<1>8. mEventCount =
        Cardinality(CountedFrames) + Cardinality(QueuedEmitters)
          + (IF mShuttingDown THEN 0 ELSE 1)
  BY DEF IInv, CountIsExact
<1>9. CountIsExact' /\ mEventCount' \in Nat
  BY <1>1, <1>5, <1>6, <1>7, <1>8 DEF CountIsExact
<1>10. TypeOK'
  BY <1>1, <1>2, <1>5, <1>9, Types, TypeByVariables
<1>11. /\ \A at : Has(stack', at) =>
            Has(stack, at) \/ (mEventCount = 1 /\ at = "last")
       /\ \A u \in Threads : Flushing(stack, u) => Flushing(stack', u)
  <2>1. CASE mEventCount = 1
    BY <1>1, <1>2, <1>3, <1>4, <2>1, BecomePlaces
  <2>2. CASE mEventCount # 1
    BY <1>1, <1>2, <1>4, <2>2, PopPlaces
  <2> QED BY <2>1, <2>2
<1>12. NothingStranded'
  BY <1>1, <1>11, QuietByPlaces, QuietByPlacesNext DEF IInv
<1>13. Quiet => Quiet'
  BY <1>1, <1>11, QuietByPlaces, QuietByPlacesNext
<1>14. CASE mEventCount # 1
  BY <1>1, <1>2, <1>5, <1>7, <1>9, <1>10, <1>11, <1>12, <1>13, <1>14, PlainStep
<1>15. CASE mEventCount = 1
  <2>1. /\ mShuttingDown
        /\ Cardinality(CountedFrames') = 0 /\ Cardinality(QueuedEmitters) = 0
    BY <1>5, <1>6, <1>8, <1>15
  <2>2. CountedFrames' = {} /\ QueuedEmitters = {}
    BY <1>2, <1>5, <2>1, FS_EmptySet
  <2>3. ~Has(stack', "emitting")
    <3>1. SUFFICES ASSUME NEW u \in Threads, NEW i \in DOMAIN stack'[u],
                          stack'[u][i].at = "emitting"
                   PROVE  FALSE
      BY DEF Has
    <3>2. i \in Nat
      BY <1>5
    <3>3. <<u, i>> \in CountedFrames'
      BY <1>2, <1>5, <3>1, <3>2, CountedNow DEF CountedAt
    <3> QED BY <2>2, <3>3
  <2>4. \A u \in Threads : mEmitterQueue[u] = <<>>
    <3>1. SUFFICES ASSUME NEW u \in Threads, mEmitterQueue[u] # <<>>
                   PROVE  FALSE
      OBVIOUS
    <3>2. mEmitterQueue \in [Threads -> Seq(SUBSET Connections)]
      BY <1>2, Types
    <3>3. 1 \in DOMAIN mEmitterQueue[u]
      BY <3>1, <3>2
    <3>4. <<u, 1>> \in QueuedEmitters
      BY <1>1, <3>2, <3>3, QueuedNow
    <3> QED BY <2>2, <3>4
  <2>5. Quiet'
    BY <1>1, <2>3, <2>4, QuietByPlacesNext
  <2>6. LastIsQuiet' /\ QuietOnceSignalled'
    BY <1>1, <2>1, <2>5, QuietByPlacesNext DEF QuietOnceSignalled
  <2>7. FlagOfEvent' /\ NeverFatal'
    BY <1>1 DEF IInv, FlagOfEvent, NeverFatal
  <2> QED BY <1>2, <1>5, <1>7, <1>9, <1>10, <1>12, <2>6, <2>7 DEF IInv
<1> QED BY <1>14, <1>15

\* Whoever signals finds the flag set, and all quiet.
LEMMA SignalStep ==
  ASSUME IInv, NEW t \in Threads, Signal(t)
  PROVE  IInv'
<1>1. /\ mDelayDepth' = mDelayDepth /\ connection' = connection
      /\ mEmitterQueue' = mEmitterQueue /\ mEventCount' = mEventCount
      /\ mShuttingDown' = mShuttingDown /\ destroyed' = destroyed
      /\ calls' = calls /\ stack[t] # <<>> /\ Top(t).at = "last"
      /\ status = "running"
  BY DEF Signal, delays, At
<1>2. /\ TypeOK /\ stack \in [Threads -> Seq(Frame)]
      /\ IsFiniteSet(CountedFrames) /\ IsFiniteSet(QueuedEmitters)
  BY Types DEF IInv
<1>3. mShuttingDown /\ Quiet
  BY <1>1, <1>2, TopHas, QuietByPlaces DEF IInv
<1>4. /\ Pop(t) /\ status' = status
      /\ shutdownEvent' \in {"set", "closed"}
  BY <1>3 DEF Signal
<1>5. stack' \in [Threads -> Seq(Frame)]
  BY <1>1, <1>2, <1>4, PopFrame
<1>6. TypeOK'
  BY <1>1, <1>2, <1>4, <1>5, Types, TypeByVariables
<1>7. CountedFrames' = CountedFrames /\ QueuedEmitters' = QueuedEmitters
  BY <1>1, <1>2, <1>4, PopCounts DEF CountedAt, QueuedEmitters
<1>8. CountIsExact'
  BY <1>1, <1>7 DEF IInv, CountIsExact
<1>9. /\ \A at : Has(stack', at) => Has(stack, at)
      /\ \A u \in Threads : Flushing(stack, u) => Flushing(stack', u)
  BY <1>1, <1>2, <1>4, PopPlaces
<1>10. NothingStranded' /\ Quiet'
  BY <1>1, <1>3, <1>9, QuietByPlaces, QuietByPlacesNext DEF IInv
<1>11. LastIsQuiet' /\ QuietOnceSignalled'
  BY <1>1, <1>3, <1>10, QuietByPlacesNext DEF QuietOnceSignalled
<1>12. FlagOfEvent' /\ NeverFatal'
  BY <1>1, <1>3, <1>4 DEF FlagOfEvent, NeverFatal
<1> QED BY <1>2, <1>6, <1>7, <1>8, <1>10, <1>11, <1>12 DEF IInv

\* Shutdown() sets the flag and makes the counter's own 1 that of its frame.
LEMMA ShutdownStep ==
  ASSUME IInv, NEW t \in Threads, Shutdown(t)
  PROVE  IInv'
<1> DEFINE f == NewFrame("leaving", {})
<1>1. /\ mDelayDepth' = mDelayDepth /\ connection' = connection
      /\ mEmitterQueue' = mEmitterQueue /\ mEventCount' = mEventCount
      /\ destroyed' = destroyed /\ calls' = calls /\ Push(t, f)
      /\ shutdownEvent = "none" /\ shutdownEvent' = "unset"
      /\ mShuttingDown' = TRUE
      /\ status' = status /\ status = "running"
  BY DEF Shutdown, delays, InUserCode
<1>2. /\ TypeOK /\ stack \in [Threads -> Seq(Frame)]
      /\ IsFiniteSet(CountedFrames) /\ IsFiniteSet(QueuedEmitters)
  BY Types DEF IInv
<1>3. f \in Frame /\ f.at = "leaving"
  BY NewFrameType
<1> HIDE DEF f
<1>4. ~mShuttingDown
  BY <1>1 DEF IInv, FlagOfEvent
<1>5. stack' \in [Threads -> Seq(Frame)]
  BY <1>1, <1>2, <1>3, PushFrame
<1>6. TypeOK'
  BY <1>1, <1>2, <1>5, Types, TypeByVariables
<1>7. /\ IsFiniteSet(CountedFrames')
      /\ Cardinality(CountedFrames') = Cardinality(CountedFrames) + 1
      /\ QueuedEmitters' = QueuedEmitters
  BY <1>1, <1>2, <1>3, PushCounts DEF CountedAt, QueuedEmitters
<1>8. /\ Cardinality(CountedFrames) \in Nat
      /\ Cardinality(QueuedEmitters) \in Nat
  BY <1>2, FS_CardinalityType
<1>9. CountIsExact'
  BY <1>1, <1>4, <1>7, <1>8 DEF IInv, CountIsExact
<1>10. /\ \A at : Has(stack', at) => Has(stack, at) \/ f.at = at
       /\ \A u \in Threads : Flushing(stack, u) => Flushing(stack', u)
  BY <1>1, <1>2, <1>3, PushPlaces
<1>11. NothingStranded'
  BY <1>1, <1>10, QuietByPlaces, QuietByPlacesNext DEF IInv
<1>12. ~Has(stack', "last")
  BY <1>3, <1>4, <1>10, QuietByPlaces DEF IInv
<1>13. LastIsQuiet' /\ QuietOnceSignalled' /\ FlagOfEvent' /\ NeverFatal'
  BY <1>1, <1>12, QuietByPlacesNext
  DEF QuietOnceSignalled, FlagOfEvent, NeverFatal
<1> QED BY <1>2, <1>6, <1>7, <1>9, <1>11, <1>13 DEF IInv

\* ~EventDelay() puts Flush() on the stack when it was the last.
LEMMA EndDelayStep ==
  ASSUME IInv, NEW t \in Threads, EndDelay(t)
  PROVE  IInv'
<1> DEFINE flush == NewFrame("flushing", {})
           n == Len(stack[t])
           below == IF stack[t] = <<>>
                      THEN <<>>
                      ELSE [stack[t] EXCEPT ![n].held = @ - 1]
<1>1. /\ connection' = connection /\ calls' = calls
      /\ mEmitterQueue' = mEmitterQueue /\ destroyed' = destroyed
      /\ UNCHANGED globals
      /\ status' = status /\ status = "running"
      /\ mDelayDepth' = [mDelayDepth EXCEPT ![t] = @ - 1]
      /\ mDelayDepth[t] > 0
      /\ stack[t] # <<>> => Top(t).held > 0
      /\ stack' = [stack EXCEPT ![t] =
                     IF mDelayDepth[t] = 1 THEN Append(below, flush) ELSE below]
  BY DEF EndDelay, InUserCode
<1>2. /\ TypeOK /\ stack \in [Threads -> Seq(Frame)]
      /\ mDelayDepth \in [Threads -> Nat]
  BY Types DEF IInv
<1>3. flush \in Frame /\ flush.at = "flushing"
  BY NewFrameType
<1> HIDE DEF flush
<1>4. /\ below \in Seq(Frame)
      /\ DOMAIN stack[t] = 1..n /\ DOMAIN below = 1..n /\ Len(below) = n
      /\ n \in Nat
      /\ \A i \in 1..n : below[i].at = stack[t][i].at
  <2>1. CASE stack[t] = <<>>
    BY <1>2, <2>1
  <2>2. CASE stack[t] # <<>>
    <3>1. /\ n \in Nat \ {0} /\ n \in DOMAIN stack[t]
          /\ stack[t] \in Seq(Frame) /\ DOMAIN stack[t] = 1..n
          /\ stack[t][n] \in Frame /\ stack[t][n].held > 0
      BY <1>1, <1>2, <2>2, TopType
    <3> DEFINE g == [stack[t][n] EXCEPT !.held = @ - 1]
    <3>2. g \in Frame /\ g.at = stack[t][n].at
      BY <3>1 DEF Frame
    <3>3. below = [stack[t] EXCEPT ![n] = g]
      BY <2>2
    <3> HIDE DEF g, n, below
    <3> QED BY <3>1, <3>2, <3>3
  <2> QED BY <2>1, <2>2
<1> HIDE DEF n, below
<1>5. /\ stack' \in [Threads -> Seq(Frame)]
      /\ \A u \in Threads \ {t} : stack'[u] = stack[u]
      /\ \/ DOMAIN stack'[t] = 1..n
         \/ DOMAIN stack'[t] = 1..(n + 1) /\ stack'[t][n + 1] = flush
      /\ mDelayDepth[t] = 1 =>
           n + 1 \in DOMAIN stack'[t] /\ stack'[t][n + 1] = flush
      /\ \A i \in 1..n : i \in DOMAIN stack'[t] /\ stack'[t][i] = below[i]
  <2>1. CASE mDelayDepth[t] = 1
    <3>1. stack' = [stack EXCEPT ![t] = Append(below, flush)]
      BY <1>1, <2>1
    <3> QED BY <1>2, <1>3, <1>4, <3>1
  <2>2. CASE mDelayDepth[t] # 1
    <3>1. stack' = [stack EXCEPT ![t] = below]
      BY <1>1, <2>2
    <3>2. /\ stack' \in [Threads -> Seq(Frame)]
          /\ \A u \in Threads \ {t} : stack'[u] = stack[u]
          /\ stack'[t] = below
      BY <1>2, <1>4, <3>1
    <3> QED BY <1>4, <2>2, <3>2
  <2> QED BY <2>1, <2>2
<1>6. /\ mDelayDepth' \in [Threads -> Nat]
      /\ mDelayDepth'[t] = mDelayDepth[t] - 1
      /\ \A u \in Threads \ {t} : mDelayDepth'[u] = mDelayDepth[u]
  BY <1>1, <1>2
<1>7. TypeOK'
  BY <1>1, <1>2, <1>5, <1>6, Types, TypeByVariables DEF globals
<1>8. CountedFrames' = CountedFrames
  <2>1. \A u \in Threads : \A i \in Nat :
          <<u, i>> \in CountedFrames' <=> <<u, i>> \in CountedFrames
    <3>1. SUFFICES ASSUME NEW u \in Threads, NEW i \in Nat
                   PROVE  /\ i \in DOMAIN stack'[u]
                          /\ stack'[u][i].at \in CountedAt
                          <=> /\ i \in DOMAIN stack[u]
                              /\ stack[u][i].at \in CountedAt
      BY <1>2, <1>5, CountedNow
    <3>2. CASE u # t
      BY <1>5, <3>2
    <3>3. CASE u = t /\ i \in 1..n
      BY <1>4, <1>5, <3>3
    <3>4. CASE u = t /\ i \notin 1..n
      BY <1>3, <1>4, <1>5, <3>4 DEF CountedAt
    <3> QED BY <3>2, <3>3, <3>4
  <2> QED BY <1>2, <1>5, <2>1, CountedNow, SamePlaces
<1>9. \A at : at # "flushing" /\ Has(stack', at) => Has(stack, at)
  <2>1. SUFFICES ASSUME NEW at, at # "flushing", NEW u \in Threads,
                        NEW i \in DOMAIN stack'[u], stack'[u][i].at = at
                 PROVE  i \in DOMAIN stack[u] /\ stack[u][i].at = at
    BY DEF Has
  <2>2. CASE u # t
    BY <1>5, <2>1, <2>2
  <2>3. CASE u = t /\ i \in 1..n
    BY <1>4, <1>5, <2>1, <2>3
  <2>4. CASE u = t /\ i \notin 1..n
    BY <1>3, <1>4, <1>5, <2>1, <2>4
  <2> QED BY <2>2, <2>3, <2>4
<1>10. \A u \in Threads : Flushing(stack, u) => Flushing(stack', u)
  <2>1. SUFFICES ASSUME NEW u \in Threads, NEW i \in DOMAIN stack[u],
                        stack[u][i].at = "flushing"
                 PROVE  i \in DOMAIN stack'[u] /\ stack'[u][i].at = "flushing"
    BY DEF Flushing
  <2>2. CASE u # t
    BY <1>5, <2>1, <2>2
  <2>3. CASE u = t
    BY <1>4, <1>5, <2>1, <2>3
  <2> QED BY <2>2, <2>3
<1>11. mDelayDepth[t] = 1 => Flushing(stack', t)
  BY <1>3, <1>5 DEF Flushing
<1>12. \A u \in Threads :
         mEmitterQueue[u] # <<>> /\ (mDelayDepth[u] > 0 \/ Flushing(stack, u))
           => mDelayDepth'[u] > 0 \/ Flushing(stack', u)
  <2>1. SUFFICES ASSUME NEW u \in Threads,
                        mDelayDepth[u] > 0 \/ Flushing(stack, u)
                 PROVE  mDelayDepth'[u] > 0 \/ Flushing(stack', u)
    OBVIOUS
  <2>2. CASE u # t
    BY <1>6, <1>10, <2>1, <2>2
  <2>3. CASE u = t
    BY <1>2, <1>6, <1>10, <1>11, <2>1, <2>3
  <2> QED BY <2>2, <2>3
<1>13. status' # "fatal"
  BY <1>1
<1> QED BY <1>1, <1>7, <1>8, <1>9, <1>12, <1>13, QuietStep DEF IInv

\* The disjuncts of Next, each by its lemma.
LEMMA InvStep == IInv /\ [Next]_eventVars => IInv'
<1> SUFFICES ASSUME IInv, [Next]_eventVars PROVE IInv'
  OBVIOUS
<1>0. /\ TypeOK /\ status # "fatal"
      /\ connection \in [Connections -> {"unborn", "valid", "invalid"}]
      /\ destroyed \subseteq AllEvents
      /\ stack \in [Threads -> Seq(Frame)]
      /\ mDelayDepth \in [Threads -> Nat]
      /\ calls \in 0..MaxCalls
  BY Types DEF IInv, NeverFatal
<1>1. ASSUME NEW t \in Threads, NEW c \in Connections, AddEventListener(t, c)
      PROVE  IInv'
  BY <1>0, <1>1, SameStackStep DEF AddEventListener
<1>2. ASSUME NEW t \in Threads, RemoveEventListener(t) PROVE IInv'
  <2>1. PICK c \in Connections : StartRemoving(t, {c}) /\ UNCHANGED destroyed
    BY <1>2 DEF RemoveEventListener
  <2> QED BY <1>0, <2>1, QuietPush DEF StartRemoving
<1>3. ASSUME NEW t \in Threads, NEW r \in Receivers,
             RemoveAllEventListeners(t, r)
      PROVE  IInv'
  <2>1. PICK cs \in SUBSET Connections :
          StartRemoving(t, cs) /\ UNCHANGED destroyed
    BY <1>3 DEF RemoveAllEventListeners
  <2> QED BY <1>0, <2>1, QuietPush DEF StartRemoving
<1>4. ASSUME NEW t \in Threads, NEW e \in AllEvents, DestroyEvent(t, e)
      PROVE  IInv'
  <2>1. mReceivers(e) \in SUBSET Connections
    BY DEF mReceivers
  <2>2. StartRemoving(t, mReceivers(e)) /\ destroyed' \subseteq AllEvents
    BY <1>0, <1>4 DEF DestroyEvent
  <2> QED BY <2>1, <2>2, QuietPush DEF StartRemoving
<1>5. ASSUME NEW t \in Threads, Invalidate(t) PROVE IInv'
  <2>1. connection' \in [Connections -> {"unborn", "valid", "invalid"}]
    BY <1>0, <1>5 DEF Invalidate
  <2> QED BY <1>5, <2>1, QuietPop DEF Invalidate, At
<1>6. ASSUME NEW t \in Threads, Refuse(t) PROVE IInv'
  <2>1. /\ NewFrame("leaving", {}) \in Frame
        /\ NewFrame("leaving", {}).at = "leaving"
    BY NewFrameType
  <2>2. /\ stack[t] # <<>> /\ Top(t).at = "started"
        /\ Become(t, NewFrame("leaving", {}))
        /\ UNCHANGED <<connection, destroyed, delays, globals, status, calls>>
    BY <1>6 DEF Refuse, At
  <2> QED BY <1>0, <2>1, <2>2, QuietBecome DEF CountedAt, delays
<1>7. ASSUME NEW t \in Threads, StartEmitting(t) PROVE IInv'
  <2>1. /\ stack[t] # <<>> /\ Top(t).at = "started" /\ ~mShuttingDown
        /\ Become(t, NewFrame("emitting", Top(t).left))
        /\ UNCHANGED <<connection, destroyed, delays, globals, status, calls>>
    BY <1>7 DEF StartEmitting, At
  <2>2. Top(t).left \in SUBSET Connections
    BY <1>0, <2>1, TopType DEF Frame
  <2>3. /\ NewFrame("emitting", Top(t).left) \in Frame
        /\ NewFrame("emitting", Top(t).left).at = "emitting"
    BY <2>2, NewFrameType
  <2> QED BY <1>0, <2>1, <2>3, QuietBecome DEF CountedAt, delays
<1>8. ASSUME NEW t \in Threads, Call(t) PROVE IInv'
  <2>1. /\ stack[t] # <<>> /\ Top(t).at = "emitting"
        /\ UNCHANGED <<connection, destroyed, delays, globals, calls>>
    BY <1>8 DEF Call, At
  <2>2. Top(t) \in Frame
    BY <1>0, <2>1, TopType
  <2>3. PICK c \in Top(t).left :
          \/ /\ Become(t, [Top(t) EXCEPT !.left = @ \ {c}, !.handler = c])
             /\ UNCHANGED status
          \/ /\ Become(t, [Top(t) EXCEPT !.left = @ \ {c}])
             /\ UNCHANGED status
          \/ status' = "terminated" /\ UNCHANGED stack
    BY <1>8 DEF Call
  <2>4. c \in Connections
    BY <2>2 DEF Frame
  <2>5. CASE status' = "terminated" /\ UNCHANGED stack
    BY <1>0, <2>1, <2>5, SameStackStep
  <2>6. ASSUME NEW f \in Frame, f.at = "emitting",
               Become(t, f), UNCHANGED status
        PROVE  IInv'
    BY <1>0, <2>1, <2>6, QuietBecome DEF CountedAt, delays
  <2>7. /\ [Top(t) EXCEPT !.left = @ \ {c}, !.handler = c] \in Frame
        /\ [Top(t) EXCEPT !.left = @ \ {c}, !.handler = c].at = "emitting"
        /\ [Top(t) EXCEPT !.left = @ \ {c}] \in Frame
        /\ [Top(t) EXCEPT !.left = @ \ {c}].at = "emitting"
    BY <2>1, <2>2, <2>4 DEF Frame
  <2> QED BY <2>3, <2>5, <2>6, <2>7
<1>9. ASSUME NEW t \in Threads, HandlerReturns(t) PROVE IInv'
  <2>1. /\ stack[t] # <<>> /\ Top(t).at = "emitting"
        /\ Become(t, NewFrame("emitting", Top(t).left))
        /\ UNCHANGED <<connection, destroyed, delays, globals, status, calls>>
    BY <1>9 DEF HandlerReturns, At
  <2>2. Top(t).left \in SUBSET Connections
    BY <1>0, <2>1, TopType DEF Frame
  <2>3. /\ NewFrame("emitting", Top(t).left) \in Frame
        /\ NewFrame("emitting", Top(t).left).at = "emitting"
    BY <2>2, NewFrameType
  <2> QED BY <1>0, <2>1, <2>3, QuietBecome DEF CountedAt, delays
<1>10. ASSUME NEW t \in Threads, HandlerThrows(t) PROVE IInv'
  BY <1>0, <1>10, SameStackStep DEF HandlerThrows
<1>11. ASSUME NEW t \in Threads, StartDelay(t) PROVE IInv'
  <2>1. /\ mDelayDepth' = [mDelayDepth EXCEPT ![t] = @ + 1]
        /\ InUserCode(t) /\ calls' = calls + 1 /\ calls < MaxCalls
        /\ UNCHANGED <<connection, destroyed, mEmitterQueue, globals, status>>
    BY <1>11 DEF StartDelay
  <2>2. /\ mDelayDepth' \in [Threads -> Nat]
        /\ \A u \in Threads : mDelayDepth'[u] >= mDelayDepth[u]
    BY <1>0, <2>1
  <2>3. calls' \in 0..MaxCalls
    BY <1>0, <2>1, EventsAssumption
  <2>4. CASE stack[t] = <<>>
    <3>1. stack' = stack
      BY <1>11, <2>4 DEF StartDelay
    <3>2. TypeOK'
      BY <1>0, <2>1, <2>2, <2>3, <3>1, Types, TypeByVariables DEF globals
    <3>3. CountedFrames' = CountedFrames
      BY <3>1 DEF CountedFrames
    <3>4. \A u \in Threads : mDelayDepth[u] > 0 => mDelayDepth'[u] > 0
      BY <1>0, <2>2
    <3> QED BY <1>0, <2>1, <3>1, <3>2, <3>3, <3>4, QuietStep DEF IInv
  <2>5. CASE stack[t] # <<>>
    <3>1. /\ Top(t).at = "emitting"
          /\ Become(t, [Top(t) EXCEPT !.held = @ + 1])
      BY <1>11, <2>1, <2>5 DEF StartDelay, InUserCode
    <3>2. Top(t) \in Frame
      BY <1>0, <2>5, TopType
    <3>3. /\ [Top(t) EXCEPT !.held = @ + 1] \in Frame
          /\ [Top(t) EXCEPT !.held = @ + 1].at = "emitting"
      BY <3>1, <3>2 DEF Frame
    <3> QED BY <2>1, <2>2, <2>3, <2>5, <3>1, <3>3, QuietBecome DEF CountedAt
  <2> QED BY <2>4, <2>5
<1>12. ASSUME NEW t \in Threads, FlushDone(t) PROVE IInv'
  BY <1>0, <1>12, QuietPop DEF FlushDone, At
<1>13. CASE ResumeOnSignal
  <2>1. /\ UNCHANGED <<connection, destroyed, stack, delays, mEventCount,
                       mShuttingDown, status, calls>>
        /\ shutdownEvent = "set" /\ shutdownEvent' = "closed"
    BY <1>13 DEF ResumeOnSignal
  <2>2. TypeOK'
    BY <1>0, <2>1, Types, TypeByVariables DEF delays
  <2>3. CountedFrames' = CountedFrames /\ QueuedEmitters' = QueuedEmitters
    BY <2>1 DEF CountedFrames, QueuedEmitters, delays
  <2>4. CountIsExact' /\ NothingStranded' /\ NeverFatal'
    BY <2>1, <2>3
    DEF IInv, CountIsExact, NothingStranded, NeverFatal, delays
  <2>5. Quiet' /\ Quiet
    BY <2>1 DEF IInv, Quiet, QuietOnceSignalled, delays
  <2>6. FlagOfEvent' /\ LastIsQuiet' /\ QuietOnceSignalled'
    BY <2>1, <2>5 DEF IInv, FlagOfEvent, LastIsQuiet, QuietOnceSignalled
  <2> QED BY <2>2, <2>3, <2>4, <2>6 DEF IInv
<1>14. CASE UNCHANGED eventVars
  BY <1>0, <1>14, SameStackStep DEF eventVars
<1>15. ASSUME NEW t \in Threads, ThreadNext(t) PROVE IInv'
  BY <1>1, <1>2, <1>3, <1>4, <1>5, <1>6, <1>7, <1>8, <1>9, <1>10, <1>11,
     <1>12, <1>15, EmitStep, EnqueueStep, FlushStep, Sub1Step, SignalStep,
     EndDelayStep, ShutdownStep
  DEF ThreadNext, Progress
<1> QED BY <1>13, <1>14, <1>15 DEF Next

----------------------------------------------------------------------------

(***************************************************************************)
(* The counter and the flag agree with the stacks and queues at all times. *)
(***************************************************************************)
THEOREM Invariance == Spec => []IInv
BY InvInit, InvStep, PTL DEF Spec

(***************************************************************************)
(* The variables keep their types.                                         *)
(***************************************************************************)
THEOREM TypeCorrect == Spec => []TypeOK
<1>1. IInv => TypeOK
  BY DEF IInv
<1> QED BY <1>1, Invariance, PTL

(***************************************************************************)
(* The counter is the number of events in progress.                        *)
(***************************************************************************)
THEOREM CountCorrect == Spec => []CountIsExact
<1>1. IInv => CountIsExact
  BY DEF IInv
<1> QED BY <1>1, Invariance, PTL

(***************************************************************************)
(* MainWindow::DisposeAsync() never takes anything apart under a handler.  *)
(***************************************************************************)
THEOREM ShutdownIsQuiet == Spec => []QuietOnceSignalled
<1>1. IInv => QuietOnceSignalled
  BY DEF IInv
<1> QED BY <1>1, Invariance, PTL

(***************************************************************************)
(* No queued event is left without a Flush() to come.                      *)
(***************************************************************************)
THEOREM NoneStranded == Spec => []NothingStranded
<1>1. IInv => NothingStranded
  BY DEF IInv
<1> QED BY <1>1, Invariance, PTL

(***************************************************************************)
(* The counter never reaches 0 before Shutdown().                          *)
(***************************************************************************)
THEOREM FatalNever == Spec => []NeverFatal
<1>1. IInv => NeverFatal
  BY DEF IInv
<1> QED BY <1>1, Invariance, PTL
=============================================================================
