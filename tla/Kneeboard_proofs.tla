-------------------------- MODULE Kneeboard_proofs --------------------------
(***************************************************************************)
(* Proofs about Kneeboard: the inductive invariant of KneeboardInvariant,  *)
(* and what follows from it. What SyncViewsWithTabs() makes of the views   *)
(* is proved first, by induction over the panels it has looked at; then    *)
(* each step of the UI thread is shown to keep the invariant.              *)
(***************************************************************************)
EXTENDS KneeboardInvariant, FiniteSetTheorems, SequenceTheorems, TLAPS

-----------------------------------------------------------------------------
(* Numbers and lists. *)

(* The least of some numbers is one of them. *)
LEMMA MinOfNats ==
  ASSUME NEW S \in SUBSET Nat, S # {}
  PROVE  Min(S) \in S /\ \A y \in S : Min(S) =< y
  <1> DEFINE R == {ss \in Nat \X Nat : ss[1] < ss[2]}
  <1>1. IsWellFoundedOn(R, Nat)
    BY NatLessThanWellFounded, Zenon DEF OpToRel
  <1>2. PICK x \in S : \A y \in S : <<y, x>> \notin R
    BY <1>1, WFMin, Zenon
  <1>3. ASSUME NEW y \in S
        PROVE  x =< y
    <2>1. <<y, x>>[1] = y /\ <<y, x>>[2] = x /\ <<y, x>> \in Nat \X Nat
      OBVIOUS
    <2>2. ~(y < x)
      BY <1>2, <2>1, Zenon
    <2>3. QED
      BY <2>2
  <1>4. QED
    BY <1>3, Zenon DEF Min

(* Induction up to L. *)
LEMMA UpTo ==
  ASSUME NEW L \in Nat, NEW S, 0 \in S, \A n \in 1 .. L : n - 1 \in S =>
           n \in S
  PROVE  \A n \in 0 .. L : n \in S
  <1> DEFINE Bad == {n \in 0 .. L : n \notin S}
  <1>1. SUFFICES ASSUME Bad # {} PROVE FALSE
    OBVIOUS
  <1> DEFINE m == Min(Bad)
  <1>2. m \in Bad /\ \A k \in Bad : m =< k
    <2>1. Bad \in SUBSET Nat
      OBVIOUS
    <2> HIDE DEF Bad
    <2>2. QED
      BY <2>1, <1>1, MinOfNats
  <1> HIDE DEF m
  <1>3. QED
    BY <1>2

(* The views s, made from vs, when n of the panels have been looked at. *)
Partial(vs, panels, n, s) ==
  /\ s \in Seq(View)
  /\ Len(vs) <= Len(s)
  /\ OneViewEach(s)
  /\ \A i \in DOMAIN s : Independent(s[i]) =>
       s[i].tab = NoTab \/ s[i].tab \in ToSet(panels)
  /\ \A k \in 1 .. n : ViewsOf(s, panels[k]) # {} \/ Len(s) >= MaxViewCount

-----------------------------------------------------------------------------
(* SyncViewsWithTabs(). *)

(* Before any panel is looked at, each view is spare or its panel is       *)
(* there.                                                                  *)
LEMMA FreedFirst ==
  ASSUME NEW vs \in Seq(View), OneViewEach(vs), NEW panels \in Seq(Tabs)
  PROVE  Partial(vs, panels, 0, Freed(vs, panels))
  <1> DEFINE s == Freed(vs, panels)
  <1>1. ASSUME NEW i \in DOMAIN vs
        PROVE  s[i] \in View
    <2>1. vs[i] \in View
      OBVIOUS
    <2>2. s[i] \in {vs[i], [vs[i] EXCEPT !.tab = NoTab]}
      BY DEF Freed
    <2>3. QED
      BY <2>1, <2>2 DEF View
  <1>2. s \in Seq(View) /\ Len(s) = Len(vs) /\ DOMAIN s = DOMAIN vs
    BY <1>1 DEF Freed
  <1>3. \A i \in DOMAIN s : /\ s[i].guid = vs[i].guid
                            /\ s[i].tab = vs[i].tab \/ s[i].tab = NoTab
                            /\ Independent(s[i]) =>
                                 s[i].tab = NoTab \/ s[i].tab \in ToSet(panels)
    BY DEF Freed
  <1>4. OneViewEach(s)
    BY <1>2, <1>3 DEF OneViewEach, Independent
  <1> HIDE DEF s
  <1>5. QED
    BY <1>2, <1>3, <1>4 DEF Partial, s

(* What is so after n - 1 panels is so after n. *)
LEMMA ClaimNext ==
  ASSUME NEW vs \in Seq(View), NEW panels \in Seq(Tabs),
         NEW n \in 1 .. Len(panels), NEW s, Partial(vs, panels, n - 1, s),
         NEW guid \in Nat, guid > LastGUID
  PROVE  Partial(vs, panels, n, Claim(s, panels[n], guid))
  <1> DEFINE tab == panels[n]
             r == Claim(s, tab, guid)
  <1>1. /\ s \in Seq(View) /\ Len(s) \in Nat /\ DOMAIN s = 1 .. Len(s)
        /\ tab \in Tabs /\ tab # NoTab /\ tab \in ToSet(panels)
    BY KneeboardAssumption DEF Partial, ToSet
  <1>2. \A k \in 1 .. n : k = n \/ k \in 1 .. n - 1
    OBVIOUS
  <1>3. CASE ViewsOf(s, tab) # {}
    <2>1. r = s
      BY <1>3 DEF Claim
    <2>2. QED
      BY <2>1, <1>2, <1>3 DEF Partial
  <1>4. CASE ViewsOf(s, tab) = {} /\ ViewsOf(s, NoTab) # {}
    <2> DEFINE m == Min(ViewsOf(s, NoTab))
    <2>1. ViewsOf(s, NoTab) \in SUBSET Nat
      BY <1>1 DEF ViewsOf
    <2>2. m \in ViewsOf(s, NoTab)
      BY <2>1, <1>4, MinOfNats
    <2> HIDE DEF m
    <2>3. r = [s EXCEPT ![m].tab = tab]
      BY <1>4 DEF Claim, m
    <2>4. m \in DOMAIN s /\ Independent(s[m]) /\ s[m].tab = NoTab
      BY <2>2 DEF ViewsOf
    <2>5. /\ r \in Seq(View) /\ Len(r) = Len(s) /\ DOMAIN r = DOMAIN s
          /\ r[m].tab = tab /\ r[m].guid = s[m].guid
          /\ \A i \in DOMAIN s : i # m => r[i] = s[i]
      <3> DEFINE w == [s[m] EXCEPT !.tab = tab]
      <3>1. s[m] \in View
        BY <1>1, <2>4
      <3>2. w \in View /\ w.tab = tab /\ w.guid = s[m].guid
        BY <3>1 DEF View
      <3>3. r = [s EXCEPT ![m] = w]
        BY <2>3
      <3> HIDE DEF w, r
      <3>4. QED
        BY <1>1, <2>4, <3>2, <3>3
    <2> HIDE DEF r
    <2>6. \A i \in DOMAIN s : Independent(s[i]) => s[i].tab # tab
      BY <1>4 DEF ViewsOf
    <2>7. OneViewEach(r)
      BY <2>5, <2>6 DEF Partial, OneViewEach
    <2>8. \A t : t # NoTab /\ ViewsOf(s, t) # {} => ViewsOf(r, t) # {}
      BY <2>4, <2>5 DEF ViewsOf
    <2>9. m \in ViewsOf(r, tab)
      BY <2>4, <2>5 DEF ViewsOf, Independent
    <2>10. \A k \in 1 .. n : panels[k] # NoTab
      BY KneeboardAssumption
    <2>11. \A k \in 1 .. n : ViewsOf(r, panels[k]) # {}
             \/ Len(r) >= MaxViewCount
      BY <1>2, <2>5, <2>8, <2>9, <2>10 DEF Partial
    <2>12. QED
      BY <1>1, <2>5, <2>7, <2>11 DEF Partial, r
  <1>5. CASE ViewsOf(s, tab) = {} /\ ViewsOf(s, NoTab) = {}
             /\ Len(s) >= MaxViewCount
    <2>1. r = s
      BY <1>5 DEF Claim
    <2>2. QED
      BY <2>1, <1>5 DEF Partial
  <1>6. CASE ViewsOf(s, tab) = {} /\ ViewsOf(s, NoTab) = {}
             /\ ~(Len(s) >= MaxViewCount)
    <2> DEFINE v == [guid |-> guid, tab |-> tab]
    <2>1. r = Append(s, v)
      BY <1>6 DEF Claim
    <2>2. v \in View /\ Independent(v)
      BY KneeboardAssumption DEF View, Independent, LastGUID
    <2>3. /\ r \in Seq(View) /\ Len(r) = Len(s) + 1 /\ r[Len(r)] = v
          /\ DOMAIN r = 1 .. Len(r)
          /\ \A i \in DOMAIN s : r[i] = s[i]
      BY <1>1, <2>1, <2>2
    <2>4. v.tab = tab
      OBVIOUS
    <2> HIDE DEF r, v
    <2>5. \A i \in DOMAIN s : Independent(s[i]) => s[i].tab # tab
      BY <1>6 DEF ViewsOf
    <2>6. OneViewEach(r)
      BY <1>1, <2>3, <2>4, <2>5 DEF Partial, OneViewEach
    <2>7. \A t : ViewsOf(s, t) # {} => ViewsOf(r, t) # {}
      BY <1>1, <2>3 DEF ViewsOf
    <2>8. Len(r) \in ViewsOf(r, tab)
      BY <2>2, <2>3, <2>4 DEF ViewsOf
    <2>9. \A k \in 1 .. n : ViewsOf(r, panels[k]) # {}
            \/ Len(r) >= MaxViewCount
      BY <1>1, <1>2, <1>6, <2>3, <2>7, <2>8, KneeboardAssumption DEF Partial
    <2>10. \A i \in DOMAIN r : Independent(r[i]) =>
             r[i].tab = NoTab \/ r[i].tab \in ToSet(panels)
      BY <1>1, <2>3, <2>4 DEF Partial
    <2>11. Len(vs) <= Len(r)
      BY <2>3 DEF Partial
    <2>12. QED
      BY <2>3, <2>6, <2>9, <2>10, <2>11 DEF Partial, r
  <1>7. QED
    BY <1>3, <1>4, <1>5, <1>6

(* Hence it is so after all of them. The recursive function that Synced    *)
(* names exists, since each of its values is made from the one before.     *)
LEMMA SyncedIsPartial ==
  ASSUME NEW vs \in Seq(View), OneViewEach(vs), NEW panels \in Seq(Tabs),
         made \in Nat, made >= LastGUID
  PROVE  Partial(vs, panels, Len(panels), Synced(vs, panels))
  <1> DEFINE L == Len(panels)
             First == Freed(vs, panels)
             Then(s, k) == Claim(s, panels[k], made + 1 + Len(s) - Len(vs))
             Def(f, n) == f =
               [k \in 0 .. n |-> IF k = 0 THEN First ELSE Then(f[k - 1], k)]
             Defined == {n \in 0 .. L : \E f : Def(f, n)}
             after[n \in 0 .. Len(panels)] ==
               IF n = 0 THEN Freed(vs, panels)
               ELSE Claim(after[n - 1], panels[n],
                          made + 1 + Len(after[n - 1]) - Len(vs))
  <1>1. L \in Nat
    OBVIOUS
  <1> HIDE DEF L, First, Then
  <1>2. 0 \in Defined
    <2>1. Def([k \in 0 .. 0 |-> First], 0)
      OBVIOUS
    <2> HIDE DEF Def
    <2>2. QED
      BY <2>1, <1>1
  <1>3. ASSUME NEW n \in 1 .. L, n - 1 \in Defined
        PROVE  n \in Defined
    <2>1. PICK f : Def(f, n - 1)
      BY <1>3
    <2> DEFINE g == [k \in 0 .. n |-> IF k = n THEN Then(f[n - 1], n)
                     ELSE f[k]]
    <2>2. ASSUME NEW k \in 0 .. n
          PROVE  g[k] = IF k = 0 THEN First ELSE Then(g[k - 1], k)
      BY <2>1
    <2>3. Def(g, n)
      BY <2>2
    <2> HIDE DEF Def, g
    <2>4. QED
      BY <2>3
  <1>4. \E f : Def(f, L)
    <2> HIDE DEF Def
    <2>1. \A n \in 1 .. L : n - 1 \in Defined => n \in Defined
      BY <1>3
    <2> HIDE DEF Defined
    <2>2. \A n \in 0 .. L : n \in Defined
      BY <1>1, <1>2, <2>1, UpTo, Zenon
    <2>3. QED
      BY <1>1, <2>2 DEF Defined
  <1>5. after = [k \in 0 .. L |-> IF k = 0 THEN First
                 ELSE Then(after[k - 1], k)]
    BY <1>4 DEF L, Then
  <1>6. Synced(vs, panels) = after[L]
    BY DEF Synced, L
  <1> HIDE DEF after
  <1> DEFINE Good == {n \in 0 .. L : Partial(vs, panels, n, after[n])}
  <1>7. 0 \in Good
    BY <1>1, <1>5, FreedFirst
  <1>8. ASSUME NEW n \in 1 .. L, n - 1 \in Good
        PROVE  n \in Good
    <2> DEFINE s == after[n - 1]
               guid == made + 1 + Len(s) - Len(vs)
    <2>1. Partial(vs, panels, n - 1, s)
      BY <1>8
    <2>2. after[n] = Then(s, n)
      BY <1>1, <1>5
    <2>3. after[n] = Claim(s, panels[n], guid)
      BY <2>2 DEF Then
    <2> HIDE DEF s
    <2>4. Len(s) \in Nat /\ Len(vs) \in Nat /\ Len(vs) <= Len(s)
      BY <2>1 DEF Partial
    <2>5. guid \in Nat /\ guid > LastGUID
      BY <2>4 DEF LastGUID
    <2> HIDE DEF guid
    <2>6. Partial(vs, panels, n, after[n])
      BY <2>1, <2>5, <2>3, ClaimNext DEF L
    <2>7. QED
      BY <2>6
  <1>9. L \in Good
    <2>1. \A n \in 1 .. L : n - 1 \in Good => n \in Good
      BY <1>8
    <2> HIDE DEF Good
    <2>2. \A n \in 0 .. L : n \in Good
      BY <1>1, <1>7, <2>1, UpTo, Zenon
    <2>3. QED
      BY <1>1, <2>2
  <1>10. QED
    BY <1>6, <1>9 DEF L

(* Each panel has one view of its own, or has none and there is no room    *)
(* for it; no view is bound to another panel.                              *)
LEMMA SyncedFacts ==
  ASSUME NEW vs \in Seq(View), OneViewEach(vs), NEW panels \in Seq(Tabs),
         made \in Nat, made >= LastGUID
  PROVE  LET s == Synced(vs, panels)
         IN /\ s \in Seq(View) /\ Len(vs) <= Len(s)
            /\ OneViewEach(s)
            /\ \A tab \in ToSet(panels) :
                 \/ Cardinality(ViewsOf(s, tab)) = 1
                 \/ ViewsOf(s, tab) = {} /\ Len(s) >= MaxViewCount
            /\ \A tab \in Tabs \ ToSet(panels) : ViewsOf(s, tab) = {}
  <1> DEFINE s == Synced(vs, panels)
  <1>1. Partial(vs, panels, Len(panels), s)
    BY SyncedIsPartial
  <1> HIDE DEF s
  <1>2. \A tab \in Tabs \ ToSet(panels) : ViewsOf(s, tab) = {}
    BY <1>1, KneeboardAssumption DEF Partial, ViewsOf
  <1>3. ASSUME NEW tab \in ToSet(panels)
        PROVE  \/ Cardinality(ViewsOf(s, tab)) = 1
               \/ ViewsOf(s, tab) = {} /\ Len(s) >= MaxViewCount
    <2>1. PICK k \in 1 .. Len(panels) : panels[k] = tab
      BY DEF ToSet
    <2>2. CASE ViewsOf(s, tab) = {}
      BY <1>1, <2>1, <2>2 DEF Partial
    <2>3. ASSUME NEW i \in ViewsOf(s, tab)
          PROVE  Cardinality(ViewsOf(s, tab)) = 1
      <3>1. tab # NoTab
        BY <2>1, KneeboardAssumption
      <3>2. ViewsOf(s, tab) = {i}
        BY <1>1, <3>1 DEF Partial, OneViewEach, ViewsOf
      <3>3. QED
        BY <3>2, FS_Singleton
    <2>4. QED
      BY <2>2, <2>3
  <1>4. QED
    BY <1>1, <1>2, <1>3 DEF Partial, s

-----------------------------------------------------------------------------
(* What the operations do to lists. *)

(* A list without its panel number i. *)
LEMMA RemovedPanel ==
  ASSUME NEW s \in Seq(Tabs), NEW i \in DOMAIN s
  PROVE  /\ RemoveAt(s, i) \in Seq(Tabs)
         /\ IsInjective(s) => /\ ToSet(RemoveAt(s, i)) = ToSet(s) \ {s[i]}
                              /\ IsInjective(RemoveAt(s, i))
  <1> DEFINE r == RemoveAt(s, i)
  <1>1. /\ r \in Seq(Tabs) /\ Len(r) = Len(s) - 1 /\ DOMAIN r = 1 .. Len(s) - 1
        /\ \A j \in 1 .. Len(s) - 1 : r[j] = IF j < i THEN s[j] ELSE s[j + 1]
    <2> DEFINE a == SubSeq(s, 1, i - 1)
               b == SubSeq(s, i + 1, Len(s))
    <2>1. r = a \o b
      BY DEF RemoveAt
    <2>2. /\ a \in Seq(Tabs) /\ b \in Seq(Tabs) /\ Len(a) = i - 1
          /\ Len(b) = Len(s) - i
          /\ \A j \in 1 .. i - 1 : a[j] = s[j]
          /\ \A j \in 1 .. Len(s) - i : b[j] = s[i + j]
      OBVIOUS
    <2> HIDE DEF a, b, r
    <2>3. /\ r \in Seq(Tabs) /\ Len(r) = Len(a) + Len(b)
          /\ DOMAIN r = 1 .. Len(r)
          /\ \A j \in 1 .. Len(a) + Len(b) :
               r[j] = IF j <= Len(a) THEN a[j] ELSE b[j - Len(a)]
      BY <2>1, <2>2, ConcatProperties
    <2>4. ASSUME NEW j \in 1 .. Len(s) - 1
          PROVE  r[j] = IF j < i THEN s[j] ELSE s[j + 1]
      <3>1. CASE j < i
        BY <3>1, <2>2, <2>3
      <3>2. CASE ~(j < i)
        <4>1. j - (i - 1) \in 1 .. Len(s) - i /\ i + (j - (i - 1)) = j + 1
          BY <3>2
        <4>2. r[j] = b[j - Len(a)]
          BY <3>2, <2>2, <2>3
        <4>3. b[j - (i - 1)] = s[i + (j - (i - 1))]
          BY <4>1, <2>2
        <4>4. r[j] = s[j + 1]
          BY <4>2, <4>3, <2>2
        <4>5. QED
          BY <3>2, <4>4
      <3>3. QED
        BY <3>1, <3>2
    <2>5. QED
      BY <2>2, <2>3, <2>4
  <1> HIDE DEF r
  <1>2. ASSUME IsInjective(s)
        PROVE  ToSet(r) = ToSet(s) \ {s[i]} /\ IsInjective(r)
    <2>1. \A x \in ToSet(r) : x \in ToSet(s) \ {s[i]}
      BY <1>1, <1>2 DEF ToSet, IsInjective
    <2>2. ASSUME NEW j \in 1 .. Len(s), s[j] # s[i]
          PROVE  s[j] \in ToSet(r)
      <3>1. CASE j < i
        BY <1>1, <3>1 DEF ToSet
      <3>2. CASE j > i
        <4>1. j - 1 \in 1 .. Len(r) /\ r[j - 1] = s[j]
          BY <1>1, <3>2
        <4>2. QED
          BY <4>1, <1>1 DEF ToSet
      <3>3. QED
        BY <2>2, <3>1, <3>2
    <2>3. ASSUME NEW j \in DOMAIN r, NEW k \in DOMAIN r, r[j] = r[k]
          PROVE  j = k
      <3> DEFINE at(m) == IF m < i THEN m ELSE m + 1
      <3>1. /\ at(j) \in DOMAIN s /\ at(k) \in DOMAIN s
            /\ r[j] = s[at(j)] /\ r[k] = s[at(k)]
        BY <1>1
      <3>2. at(j) = at(k)
        BY <3>1, <2>3, <1>2 DEF IsInjective
      <3>3. QED
        BY <3>2
    <2>4. \A x \in ToSet(s) \ {s[i]} : x \in ToSet(r)
      BY <2>2 DEF ToSet
    <2>5. IsInjective(r)
      BY <2>3 DEF IsInjective
    <2>6. QED
      BY <2>1, <2>4, <2>5
  <1>3. QED
    BY <1>1, <1>2 DEF r

(* A list in reverse has the same panels. *)
LEMMA ReversedPanels ==
  ASSUME NEW s \in Seq(Tabs)
  PROVE  /\ Reverse(s) \in Seq(Tabs)
         /\ ToSet(Reverse(s)) = ToSet(s)
         /\ IsInjective(s) => IsInjective(Reverse(s))
  <1> DEFINE r == Reverse(s)
  <1>1. /\ r \in Seq(Tabs) /\ Len(r) = Len(s)
        /\ DOMAIN r = 1 .. Len(s) /\ DOMAIN s = 1 .. Len(s) /\ Len(s) \in Nat
        /\ \A i \in 1 .. Len(s) : r[i] = s[Len(s) - i + 1]
    BY DEF Reverse
  <1> HIDE DEF r
  <1>2. ASSUME NEW i \in 1 .. Len(s)
        PROVE  /\ r[i] \in ToSet(s) /\ s[i] \in ToSet(r)
    <2>1. Len(s) - i + 1 \in 1 .. Len(s) /\ Len(s) - (Len(s) - i + 1) + 1 = i
      OBVIOUS
    <2>2. r[i] = s[Len(s) - i + 1] /\ r[Len(s) - i + 1] = s[i]
      BY <1>1
    <2>3. QED
      BY <2>1, <2>2, <1>1 DEF ToSet
  <1>3. ToSet(r) = ToSet(s)
    BY <1>1, <1>2 DEF ToSet
  <1>4. ASSUME IsInjective(s), NEW i \in DOMAIN r, NEW j \in DOMAIN r,
               r[i] = r[j]
        PROVE  i = j
    <2>1. Len(s) - i + 1 \in DOMAIN s /\ Len(s) - j + 1 \in DOMAIN s
      BY <1>1
    <2>2. s[Len(s) - i + 1] = s[Len(s) - j + 1]
      BY <1>1, <1>4
    <2>3. Len(s) - i + 1 = Len(s) - j + 1
      BY <2>1, <2>2, <1>4 DEF IsInjective
    <2>4. QED
      BY <2>3, <1>1
  <1>5. IsInjective(s) => IsInjective(r)
    BY <1>4 DEF IsInjective
  <1>6. QED
    BY <1>1, <1>3, <1>5 DEF r

(* A panel is put in front. *)
LEMMA AddedPanel ==
  ASSUME NEW s \in Seq(Tabs), NEW tab \in Tabs
  PROVE  /\ <<tab>> \o s \in Seq(Tabs)
         /\ ToSet(<<tab>> \o s) = ToSet(s) \cup {tab}
         /\ IsInjective(s) /\ tab \notin ToSet(s) => IsInjective(<<tab>> \o s)
  <1> DEFINE r == <<tab>> \o s
  <1>1. /\ r \in Seq(Tabs) /\ Len(r) = Len(s) + 1 /\ DOMAIN r = 1 .. Len(s) + 1
        /\ \A i \in 1 .. Len(s) + 1 :
             r[i] = IF i <= 1 THEN <<tab>>[i] ELSE s[i - 1]
    OBVIOUS
  <1> HIDE DEF r
  <1>2. r[1] = tab /\ \A i \in 1 .. Len(s) : i + 1 \in DOMAIN r
          /\ r[i + 1] = s[i]
    BY <1>1
  <1>3. ASSUME NEW i \in DOMAIN r, i # 1
        PROVE  i - 1 \in DOMAIN s /\ r[i] = s[i - 1]
    <2>1. i \in 1 .. Len(s) + 1 /\ ~(i <= 1)
      BY <1>1, <1>3
    <2>2. i - 1 \in 1 .. Len(s)
      BY <2>1
    <2>3. QED
      BY <2>2, <1>1
  <1>4. ToSet(r) \subseteq ToSet(s) \cup {tab}
    BY <1>2, <1>3 DEF ToSet
  <1>5. tab \in ToSet(r)
    BY <1>1 DEF ToSet
  <1>6. ToSet(s) \subseteq ToSet(r)
    BY <1>2 DEF ToSet
  <1>7. ASSUME IsInjective(s), tab \notin ToSet(s),
               NEW i \in DOMAIN r, NEW j \in DOMAIN r, r[i] = r[j]
        PROVE  i = j
    <2>1. ASSUME NEW k \in DOMAIN s
          PROVE  s[k] # tab
      BY <1>7 DEF ToSet
    <2>2. i # 1 /\ j # 1 => i - 1 = j - 1
      BY <1>3, <1>7 DEF IsInjective
    <2>3. i = 1 <=> j = 1
      BY <2>1, <1>2, <1>3, <1>7
    <2>4. QED
      BY <2>2, <2>3
  <1>8. IsInjective(s) /\ tab \notin ToSet(s) => IsInjective(r)
    BY <1>7 DEF IsInjective
  <1>9. QED
    BY <1>4, <1>5, <1>6, <1>8 DEF r

(* The first view is taken away. *)
LEMMA TailViews ==
  ASSUME NEW s \in Seq(View), Len(s) > 1, OneViewEach(s)
  PROVE  Tail(s) \in Seq(View) /\ OneViewEach(Tail(s))
  <1>1. QED
    BY DEF OneViewEach

(* The first event is taken from the queue. *)
LEMMA TailEvents ==
  ASSUME NEW q \in Seq(Event), q # <<>>
  PROVE  /\ Tail(q) \in Seq(Event) /\ Head(q) \in Event
         /\ \A e : e \in ToSet(q) <=> e = Head(q) \/ e \in ToSet(Tail(q))
  <1>1. /\ Tail(q) \in Seq(Event) /\ Len(Tail(q)) = Len(q) - 1
        /\ DOMAIN Tail(q) = 1 .. Len(q) - 1
        /\ \A i \in 1 .. Len(q) - 1 : Tail(q)[i] = q[i + 1]
    OBVIOUS
  <1>2. ASSUME NEW i \in 1 .. Len(q)
        PROVE  q[i] = Head(q) \/ q[i] \in ToSet(Tail(q))
    <2>1. CASE i # 1
      <3>1. i - 1 \in 1 .. Len(q) - 1 /\ (i - 1) + 1 = i
        BY <2>1
      <3>2. Tail(q)[i - 1] = q[i]
        BY <3>1
      <3>3. QED
        BY <3>1, <3>2, <1>1 DEF ToSet
    <2>2. QED
      BY <2>1
  <1>3. QED
    BY <1>2 DEF ToSet

(* An event is put at the end of the queue. *)
LEMMA AppendEvents ==
  ASSUME NEW q \in Seq(Event), NEW e \in Event
  PROVE  /\ Append(q, e) \in Seq(Event)
         /\ ToSet(Append(q, e)) = ToSet(q) \cup {e}
  <1>1. /\ Append(q, e) \in Seq(Event) /\ Len(Append(q, e)) = Len(q) + 1
        /\ Append(q, e)[Len(q) + 1] = e
        /\ \A i \in 1 .. Len(q) : Append(q, e)[i] = q[i]
    OBVIOUS
  <1>2. QED
    BY <1>1 DEF ToSet

(* What a coroutine may be suspended in. *)
State == [op: {"none", "remove", "debug", "restore", "switch", "views"},
          step: {"none", "asking", "choosing", "loading", "disposing"},
          tabs: Seq(Tabs), views: Seq(View)]

(* One coroutine goes on, the others stay where they are. *)
LEMMA Moved ==
  ASSUME TypeOK, NEW c \in Coroutines, NEW r \in State,
         co' = [co EXCEPT ![c] = r]
  PROVE  /\ co'[c] = r
         /\ \A b \in Coroutines \ {c} : co'[b] = co[b]
         /\ co' \in [Coroutines -> State]
  <1>1. co \in [Coroutines -> State]
    BY DEF TypeOK, State
  <1> HIDE DEF State
  <1>2. QED
    BY <1>1

(* SaveSettings() writes the active profile's file or nothing. *)
LEMMA Saved ==
  ASSUME TypeOK, SaveSettings, tabs' \in Seq(Tabs), views' \in Seq(View)
  PROVE  /\ saved' \in [Profiles -> File]
         /\ \A p \in Profiles :
              \/ saved'[p] = saved[p]
              \/ /\ p = profile /\ saving
                 /\ saved'[p].tabs = tabs' /\ saved'[p].views = views'
         /\ saving =>
              saved'[profile].tabs = tabs' /\ saved'[profile].views = views'
  <1> DEFINE r == [tabs |-> tabs', views |-> views']
  <1>1. r \in File /\ r.tabs = tabs' /\ r.views = views'
    BY DEF File
  <1>2. /\ saved \in [Profiles -> File] /\ profile \in Profiles
        /\ saved' = IF saving THEN [saved EXCEPT ![profile] = r] ELSE saved
    BY DEF TypeOK, SaveSettings
  <1> HIDE DEF r
  <1>3. CASE saving
    <2>1. saved' \in [Profiles -> File]
      BY <1>1, <1>2
    <2>2. saved'[profile] = r
          /\ \A p \in Profiles \ {profile} : saved'[p] = saved[p]
      BY <1>2, <1>3
    <2>3. QED
      BY <1>1, <1>3, <2>1, <2>2
  <1>4. CASE ~saving
    BY <1>2, <1>4
  <1>5. QED
    BY <1>3, <1>4, Zenon

(* The empty list. *)
LEMMA NoList ==
  /\ <<>> \in Seq(Tabs) /\ <<>> \in Seq(View)
  /\ OneViewEach(<<>>) /\ IsInjective(<<>>) /\ ToSet(<<>>) = {}
  BY DEF OneViewEach, IsInjective, ToSet

(* A coroutine that is suspended in nothing. *)
LEMMA NothingRuns == NotRunning \in State
  BY DEF NotRunning, State

(* The views drawn are named by their GUIDs. *)
LEMMA ShownViews ==
  ASSUME NEW vs \in Seq(View)
  PROVE  GUIDs(vs) \in Seq(Nat)
  <1>1. \A i \in DOMAIN vs : vs[i].guid \in Nat
    <2>1. \A i \in DOMAIN vs : vs[i] \in View
      OBVIOUS
    <2>2. QED
      BY <2>1 DEF View
  <1>2. [i \in 1 .. Len(vs) |-> vs[i].guid] \in Seq(Nat)
    <2>1. \A i \in 1 .. Len(vs) : vs[i].guid \in Nat
      BY <1>1
    <2>2. QED
      BY <2>1
  <1>3. QED
    BY <1>2 DEF GUIDs

-----------------------------------------------------------------------------
(* Every step keeps the invariant; a lemma for each. *)

(* The UI thread waits for itself: nothing is awaited from then on. *)
LEMMA BlockKeeps ==
  ASSUME IInv, BlockAtOnce, ops' \in 0 .. MaxOps
  PROVE  IInv'
  <1>1. /\ UNCHANGED <<tabs, views, shown, given, made, profile, saving, saved,
                       queue, delayed, co, frame, want, raced, edited>>
        /\ stuck'
        /\ ops' \in 0 .. MaxOps
    BY DEF panelVars, fileVars, eventVars, threadVars, historyVars, Request,
           Block, BlockAtOnce, Suspend, Return, Wants, NoteRace
  <1>2. TypeOK'
    BY <1>1 DEF IInv, TypeOK
  <1>3. Steps' /\ Exclusive' /\ OneChange' /\ Pending' /\ NoTwice'
        /\ ViewsAreSingle' /\ ViewsShown' /\ ProfilesKeepTheirPanels'
        /\ ActiveProfileSaved' /\ ViewsInStep'
    BY <1>1
       DEF IInv, Steps, Exclusive, OneChange, Pending, NoTwice, ViewsAreSingle,
           ViewsShown, ProfilesKeepTheirPanels, ActiveProfileSaved,
           ViewsInStep, Changing, UniqueHolders, SharedHolders
  <1>4. SavesAreOn'
    BY <1>1 DEF SavesAreOn
  <1>5. PanelsHaveViews'
    BY <1>1 DEF PanelsHaveViews
  <1>6. QED
    BY <1>2, <1>3, <1>4, <1>5 DEF IInv

(* A dialog opens, with a shared lock held: nobody owns the lock then. *)
LEMMA OpenDialogKeeps ==
  ASSUME IInv, ~stuck, NEW c \in Coroutines, NEW op \in {"remove", "debug"},
         NEW about \in Seq(Tabs), OpenDialog(c, op, about)
  PROVE  IInv'
  <1>1. ops' \in 0 .. MaxOps
    BY KneeboardAssumption DEF IInv, TypeOK, OpenDialog, Request
  <1>2. CASE BlockAtOnce
    BY <1>1, <1>2, BlockKeeps
  <1>3. CASE ~BlockAtOnce
    <2>1. /\ UNCHANGED <<tabs, views, shown, given, made, profile, saving,
                         saved, queue, delayed, frame, stuck, want, raced,
                         edited>>
          /\ ops' = ops + 1
          /\ MayLockShared
          /\ co[c] = NotRunning
      BY <1>3
         DEF panelVars, fileVars, eventVars, threadVars, historyVars, Request,
             Suspend, OpenDialog
    <2>2. co' = [co EXCEPT ![c] =
                 [op |-> op, step |-> "asking", tabs |-> about,
                  views |-> <<>>]]
      BY <1>3 DEF Suspend, OpenDialog
    <2>3. [op |-> op, step |-> "asking", tabs |-> about,
           views |-> <<>>] \in State
      BY DEF State
    <2>4. /\ co'[c] = [op |-> op, step |-> "asking", tabs |-> about,
                       views |-> <<>>]
          /\ \A b \in Coroutines \ {c} : co'[b] = co[b]
      BY <2>2, <2>3, Moved DEF IInv
    <2>5. co' \in [Coroutines -> State]
      BY <2>2, <2>3, Moved DEF IInv
    <2>6. ops' \in 0 .. MaxOps
      BY <1>1
    <2>7. TypeOK'
      BY <2>1, <2>5, <2>6 DEF IInv, TypeOK, State
    <2>8. Steps'
      BY <2>4 DEF IInv, Steps
    <2>9. Exclusive'
      BY <2>1, <2>4 DEF Exclusive, UniqueHolders, MayLockShared
    <2>10. OneChange'
      BY <2>1, <2>4 DEF IInv, OneChange, Changing
    <2>11. SavesAreOn'
      BY <2>1 DEF IInv, SavesAreOn, Changing, UniqueHolders, MayLockShared
    <2>12. Pending'
      BY <2>1, <2>4 DEF IInv, Pending, Changing
    <2>13. NoTwice'
      BY <2>1, <2>4 DEF IInv, NoTwice, Changing
    <2>14. ViewsAreSingle'
      BY <2>1, <2>4 DEF IInv, ViewsAreSingle, NotRunning
    <2>15. ViewsShown'
      BY <2>1 DEF IInv, ViewsShown, UniqueHolders, MayLockShared
    <2>16. ProfilesKeepTheirPanels'
      BY <2>1, <2>4 DEF IInv, ProfilesKeepTheirPanels, Changing, NotRunning
    <2>17. ActiveProfileSaved'
      BY <2>1, <2>4 DEF IInv, ActiveProfileSaved, Changing, NotRunning
    <2>18. PanelsHaveViews'
      BY <2>1, <2>4 DEF IInv, PanelsHaveViews, Changing, NotRunning
    <2>19. ViewsInStep'
      BY <2>1, <2>4 DEF IInv, ViewsInStep, Changing, NotRunning, MayLockShared
    <2>20. QED
      BY <2>7, <2>8, <2>9, <2>10, <2>11, <2>12, <2>13, <2>14, <2>15, <2>16,
         <2>17, <2>18, <2>19
         DEF IInv
  <1>4. QED
    BY <1>2, <1>3

(* The user dismisses it, and the lock goes. *)
LEMMA DismissKeeps ==
  ASSUME IInv, ~stuck, NEW c \in Coroutines, Dismiss(c)
  PROVE  IInv'
  <1>1. /\ UNCHANGED <<tabs, views, shown, given, made, profile, saving, saved,
                       queue, delayed, frame, stuck, ops, want, raced, edited>>
    BY DEF panelVars, fileVars, eventVars, threadVars, historyVars, Request,
           Block, BlockAtOnce, Suspend, Return, Wants, NoteRace, Dismiss
  <1>2. co[c].step \in {"asking", "choosing"}
    BY DEF Dismiss
  <1>3. co' = [co EXCEPT ![c] = NotRunning]
    BY DEF Return, Dismiss
  <1>4. NotRunning \in State
    BY NothingRuns
  <1>5. /\ co'[c] = NotRunning
        /\ \A b \in Coroutines \ {c} : co'[b] = co[b]
    BY <1>3, <1>4, Moved DEF IInv
  <1>6. co' \in [Coroutines -> State]
    BY <1>3, <1>4, Moved DEF IInv
  <1>7. TypeOK'
    BY <1>1, <1>6 DEF IInv, TypeOK, State
  <1>8. Steps'
    BY <1>5 DEF IInv, Steps, NotRunning
  <1>9. Exclusive'
    BY <1>5 DEF IInv, Exclusive, UniqueHolders, SharedHolders, NotRunning
  <1>10. OneChange'
    BY <1>1, <1>5 DEF IInv, OneChange, Changing, NotRunning
  <1>11. SavesAreOn'
    BY <1>1, <1>2, <1>5 DEF IInv, SavesAreOn, Changing
  <1>12. Pending'
    BY <1>1, <1>5 DEF IInv, Pending, Changing, NotRunning
  <1>13. NoTwice'
    BY <1>1, <1>5 DEF IInv, NoTwice, Changing, NotRunning
  <1>14. ViewsAreSingle'
    BY <1>1, <1>5, NoList DEF IInv, ViewsAreSingle, NotRunning
  <1>15. ViewsShown'
    BY <1>1, <1>2, <1>5 DEF IInv, ViewsShown, Steps
  <1>16. ProfilesKeepTheirPanels'
    BY <1>1, <1>2, <1>5 DEF IInv, ProfilesKeepTheirPanels, Changing
  <1>17. ActiveProfileSaved'
    BY <1>1, <1>2, <1>5 DEF IInv, ActiveProfileSaved, Changing
  <1>18. PanelsHaveViews'
    BY <1>1, <1>2, <1>5 DEF IInv, PanelsHaveViews, Changing
  <1>19. ViewsInStep'
    BY <1>1, <1>2, <1>5 DEF IInv, ViewsInStep, Steps, Changing, UniqueHolders
  <1>20. QED
    BY <1>7, <1>8, <1>9, <1>10, <1>11, <1>12, <1>13, <1>14, <1>15, <1>16,
       <1>17, <1>18, <1>19
       DEF IInv

(* SetTabs() takes all panels away and awaits the disposal of one. *)
LEMMA RemoveTabKeeps ==
  ASSUME IInv, ~stuck, NEW c \in Coroutines, RemoveTab(c)
  PROVE  IInv'
  <1>1. CASE tabs' = tabs /\ Return(c)
             /\ UNCHANGED <<views, shown, given, made, historyVars>>
    <2>1. /\ UNCHANGED <<tabs, views, shown, given, made, profile, saving,
                         saved, queue, delayed, frame, stuck, ops, want, raced,
                         edited>>
      BY <1>1 DEF fileVars, eventVars, historyVars, Return, RemoveTab
    <2>2. co[c].op = "remove" /\ co[c].step = "asking"
      BY DEF RemoveTab
    <2>3. co' = [co EXCEPT ![c] = NotRunning]
      BY <1>1 DEF Return
    <2>4. NotRunning \in State
      BY NothingRuns
    <2>5. /\ co'[c] = NotRunning
          /\ \A b \in Coroutines \ {c} : co'[b] = co[b]
      BY <2>3, <2>4, Moved DEF IInv
    <2>6. co' \in [Coroutines -> State]
      BY <2>3, <2>4, Moved DEF IInv
    <2>7. TypeOK'
      BY <2>1, <2>6 DEF IInv, TypeOK, State
    <2>8. Steps'
      BY <2>5 DEF IInv, Steps, NotRunning
    <2>9. Exclusive'
      BY <2>5 DEF IInv, Exclusive, UniqueHolders, SharedHolders, NotRunning
    <2>10. OneChange'
      BY <2>1, <2>5 DEF IInv, OneChange, Changing, NotRunning
    <2>11. SavesAreOn'
      BY <2>1, <2>2, <2>5 DEF IInv, SavesAreOn, Changing
    <2>12. Pending'
      BY <2>1, <2>5 DEF IInv, Pending, Changing, NotRunning
    <2>13. NoTwice'
      BY <2>1, <2>5 DEF IInv, NoTwice, Changing, NotRunning
    <2>14. ViewsAreSingle'
      BY <2>1, <2>5, NoList DEF IInv, ViewsAreSingle, NotRunning
    <2>15. ViewsShown'
      BY <2>1, <2>2
         DEF IInv, ViewsShown, Exclusive, UniqueHolders, SharedHolders
    <2>16. ProfilesKeepTheirPanels'
      BY <2>1, <2>2, <2>5 DEF IInv, ProfilesKeepTheirPanels, Changing
    <2>17. ActiveProfileSaved'
      BY <2>1, <2>2, <2>5 DEF IInv, ActiveProfileSaved, Changing
    <2>18. PanelsHaveViews'
      BY <2>1, <2>2, <2>5 DEF IInv, PanelsHaveViews, Changing
    <2>19. ViewsInStep'
      BY <2>1, <2>2, <2>5 DEF IInv, ViewsInStep, Changing, UniqueHolders
    <2>20. QED
      BY <2>7, <2>8, <2>9, <2>10, <2>11, <2>12, <2>13, <2>14, <2>15, <2>16,
         <2>17, <2>18, <2>19
         DEF IInv
  <1>2. CASE ~(tabs' = tabs /\ Return(c)
               /\ UNCHANGED <<views, shown, given, made, historyVars>>)
    <2> DEFINE tab == co[c].tabs[1]
    <2>1. PICK idx \in DOMAIN tabs :
            /\ tabs[idx] = tab
            /\ Suspend(c, "remove", "disposing", RemoveAt(tabs, idx), <<>>)
      BY <1>2 DEF RemoveTab, panelVars
    <2>2. tabs \in Seq(Tabs) /\ tab \in Tabs
      BY <2>1 DEF IInv, TypeOK
    <2> DEFINE rest == RemoveAt(tabs, idx)
    <2>3. /\ rest \in Seq(Tabs)
          /\ IsInjective(tabs) =>
               ToSet(rest) = ToSet(tabs) \ {tab} /\ IsInjective(rest)
      BY <2>1, <2>2, RemovedPanel
    <2>4. Suspend(c, "remove", "disposing", rest, <<>>)
      BY <2>1
    <2>5. /\ tabs' = <<>> /\ want' = [want EXCEPT ![profile] = @ \ {tab}]
          /\ co[c].op = "remove" /\ co[c].step = "asking"
          /\ UNCHANGED <<views, shown, given, made, edited, fileVars,
                         eventVars, ops>>
          /\ NoteRace
      BY <1>2 DEF RemoveTab, Wants, panelVars
    <2> HIDE DEF rest, tab
    <2>6. QED
      <3>1. /\ UNCHANGED <<views, shown, given, made, profile, saving, saved,
                           queue, delayed, frame, stuck, ops, edited>>
            /\ tabs' = <<>>
            /\ want' = [want EXCEPT ![profile] = @ \ {tab}]
            /\ raced' = (raced \/ Changing # {})
        BY <2>4, <2>5
           DEF panelVars, fileVars, eventVars, threadVars, historyVars,
               Request, Block, BlockAtOnce, Suspend, Return, Wants, NoteRace
      <3>2. want'[profile] = want[profile] \ {tab}
            /\ \A p \in Profiles \ {profile} : want'[p] = want[p]
        BY <3>1 DEF IInv, TypeOK
      <3>3. co' = [co EXCEPT ![c] =
                   [op |-> "remove", step |-> "disposing", tabs |-> rest,
                    views |-> <<>>]]
        BY <2>4 DEF Suspend
      <3>4. ~raced' => ~raced /\ Changing = {}
        BY <3>1
      <3>5. [op |-> "remove", step |-> "disposing", tabs |-> rest,
             views |-> <<>>] \in State
        BY <2>3 DEF State
      <3>6. /\ co'[c] = [op |-> "remove", step |-> "disposing", tabs |-> rest,
                         views |-> <<>>]
            /\ \A b \in Coroutines \ {c} : co'[b] = co[b]
        BY <3>3, <3>5, Moved DEF IInv
      <3>7. co' \in [Coroutines -> State]
        BY <3>3, <3>5, Moved DEF IInv
      <3>8. TypeOK'
        BY <3>1, <3>7 DEF IInv, TypeOK, State
      <3>9. ~raced' => ToSet(rest) = want'[profile]
        BY <2>3, <3>2, <3>4 DEF IInv, NoTwice, ActiveProfileSaved
      <3>10. Steps'
        BY <3>6 DEF IInv, Steps
      <3>11. Exclusive'
        BY <2>5, <3>6 DEF IInv, Exclusive, UniqueHolders, SharedHolders
      <3>12. OneChange'
        BY <3>4, <3>6 DEF OneChange, Changing
      <3>13. SavesAreOn'
        BY <3>1, <3>4 DEF IInv, SavesAreOn
      <3>14. ASSUME ~raced' PROVE \A b \in Changing' : b = c
        BY <3>4, <3>6, <3>14 DEF Changing
      <3>15. co'[c].op = "remove" /\ co'[c].tabs = rest /\ profile' = profile
        BY <3>1, <3>6
      <3>16. Pending'
        BY <3>9, <3>14, <3>15 DEF Pending
      <3>17. NoTwice'
        BY <3>1, <3>4, <3>6, <2>3, NoList DEF IInv, NoTwice, Changing
      <3>18. ViewsAreSingle'
        BY <3>1, <3>6, NoList DEF IInv, ViewsAreSingle
      <3>19. ViewsShown'
        BY <2>5 DEF IInv, ViewsShown, Exclusive, UniqueHolders, SharedHolders
      <3>20. ProfilesKeepTheirPanels'
        BY <3>1, <3>4, <3>6 DEF IInv, ProfilesKeepTheirPanels, Changing
      <3>21. ActiveProfileSaved'
        BY <3>6 DEF ActiveProfileSaved, Changing
      <3>22. PanelsHaveViews'
        BY <3>6 DEF PanelsHaveViews, Changing
      <3>23. ViewsInStep'
        BY <2>5, <3>6 DEF IInv, ViewsInStep, Changing, UniqueHolders
      <3>24. QED
        BY <3>8, <3>10, <3>11, <3>12, <3>13, <3>16, <3>17, <3>18, <3>19,
           <3>20, <3>21, <3>22, <3>23
           DEF IInv
  <1>3. QED
    BY <1>1, <1>2

(* It puts the others back, which are those that the user wants. *)
LEMMA FinishRemoveTabKeeps ==
  ASSUME IInv, ~stuck, NEW c \in Coroutines, FinishRemoveTab(c)
  PROVE  IInv'
  <1>1. /\ UNCHANGED <<views, shown, made, profile, saving, frame, stuck, ops,
                       want, raced, edited>>
        /\ tabs' = co[c].tabs
        /\ given' = tabs'
        /\ queue' = Append(queue, Reconcile)
        /\ delayed' = {}
    BY DEF panelVars, fileVars, eventVars, threadVars, historyVars, Request,
           Block, BlockAtOnce, Suspend, Return, Wants, NoteRace,
           FinishRemoveTab, AssignTabs, Deliver
  <1>2. Reconcile \in Event
    BY DEF Reconcile, Event
  <1>3. queue' = Append(queue, Reconcile) /\ queue \in Seq(Event)
    BY <1>1 DEF IInv, TypeOK
  <1>4. queue' \in Seq(Event) /\ Reconcile \in ToSet(queue')
    BY <1>2, <1>3, AppendEvents
  <1>5. co[c].op = "remove" /\ co[c].step = "disposing" /\ tabs' = co[c].tabs
    BY <1>1 DEF FinishRemoveTab
  <1>6. co' = [co EXCEPT ![c] = NotRunning] /\ SaveSettings
    BY DEF panelVars, fileVars, eventVars, threadVars, Return, FinishRemoveTab,
           AssignTabs
  <1>7. NotRunning \in State
    BY NothingRuns
  <1>8. /\ co'[c] = NotRunning
        /\ \A b \in Coroutines \ {c} : co'[b] = co[b]
    BY <1>6, <1>7, Moved DEF IInv
  <1>9. co' \in [Coroutines -> State]
    BY <1>6, <1>7, Moved DEF IInv
  <1>10. queue' \in Seq(Event)
    BY <1>4
  <1>11. tabs' \in Seq(Tabs) /\ views' \in Seq(View)
    BY <1>1 DEF IInv, TypeOK
  <1>12. saved' \in [Profiles -> File]
    BY <1>6, <1>11, Saved DEF IInv
  <1>13. /\ \A p \in Profiles :
              \/ saved'[p] = saved[p]
              \/ /\ p = profile /\ saving
                 /\ saved'[p].tabs = tabs' /\ saved'[p].views = views'
         /\ saving =>
              saved'[profile].tabs = tabs' /\ saved'[profile].views = views'
    BY <1>6, <1>11, Saved DEF IInv
  <1>14. TypeOK'
    BY <1>1, <1>9, <1>10, <1>12 DEF IInv, TypeOK, State
  <1>15. profile \in Profiles
    BY DEF IInv, TypeOK
  <1>16. Steps'
    BY <1>8 DEF IInv, Steps, NotRunning
  <1>17. Exclusive'
    BY <1>8 DEF IInv, Exclusive, UniqueHolders, SharedHolders, NotRunning
  <1>18. OneChange'
    BY <1>1, <1>8 DEF IInv, OneChange, Changing, NotRunning
  <1>19. SavesAreOn'
    BY <1>1, <1>5, <1>8 DEF IInv, SavesAreOn, Changing
  <1>20. Pending'
    BY <1>1, <1>8, <1>13, <1>15 DEF IInv, Pending, Changing, NotRunning
  <1>21. NoTwice'
    BY <1>1, <1>5, <1>8, <1>13 DEF IInv, NoTwice, Changing, NotRunning
  <1>22. ViewsAreSingle'
    BY <1>1, <1>8, <1>13, NoList DEF IInv, ViewsAreSingle, NotRunning
  <1>23. ViewsShown'
    BY <1>1, <1>5 DEF IInv, ViewsShown, Exclusive, UniqueHolders, SharedHolders
  <1>24. ProfilesKeepTheirPanels'
    BY <1>1, <1>5, <1>13
       DEF IInv, ProfilesKeepTheirPanels, SavesAreOn, Pending, Changing
  <1>25. ActiveProfileSaved'
    BY <1>1, <1>5, <1>13
       DEF IInv, ActiveProfileSaved, SavesAreOn, Pending, Exclusive, Changing,
           UniqueHolders, SharedHolders
  <1>26. PanelsHaveViews'
    BY <1>4 DEF PanelsHaveViews
  <1>27. ViewsInStep'
    BY <1>1, <1>5 DEF IInv, ViewsInStep, Exclusive, SharedHolders
  <1>28. QED
    BY <1>14, <1>16, <1>17, <1>18, <1>19, <1>20, <1>21, <1>22, <1>23, <1>24,
       <1>25, <1>26, <1>27
       DEF IInv

(* A panel is added, with no await. *)
LEMMA AddTabsKeeps ==
  ASSUME IInv, ~stuck, NEW tab \in Tabs,
         \A p \in Profiles : tab \notin want[p], AddTabs(tab)
  PROVE  IInv'
  <1>1. ops' \in 0 .. MaxOps
    BY KneeboardAssumption DEF IInv, TypeOK, AddTabs, Request
  <1>2. CASE BlockAtOnce
    BY <1>1, <1>2, BlockKeeps
  <1>3. CASE ~BlockAtOnce
    <2>1. /\ UNCHANGED <<views, shown, made, profile, saving, co, frame, stuck,
                         edited>>
          /\ tabs' = <<tab>> \o tabs
          /\ given' = tabs'
          /\ queue' = Append(queue, Reconcile)
          /\ delayed' = {}
          /\ ops' = ops + 1
          /\ MayLockShared
          /\ want' = [want EXCEPT ![profile] = @ \cup {tab}]
          /\ raced' = (raced \/ Changing # {})
      BY <1>3
         DEF panelVars, fileVars, eventVars, threadVars, historyVars, Request,
             Block, BlockAtOnce, Suspend, Return, Wants, NoteRace, AddTabs,
             AssignTabs, Deliver
    <2>2. Reconcile \in Event
      BY DEF Reconcile, Event
    <2>3. queue' = Append(queue, Reconcile) /\ queue \in Seq(Event)
      BY <2>1 DEF IInv, TypeOK
    <2>4. queue' \in Seq(Event) /\ Reconcile \in ToSet(queue')
      BY <2>2, <2>3, AppendEvents
    <2>5. want'[profile] = want[profile] \cup {tab}
          /\ \A p \in Profiles \ {profile} : want'[p] = want[p]
      BY <2>1 DEF IInv, TypeOK
    <2>6. /\ tabs' \in Seq(Tabs) /\ ToSet(tabs') = ToSet(tabs) \cup {tab}
          /\ IsInjective(tabs) /\ tab \notin ToSet(tabs) => IsInjective(tabs')
      BY <2>1, AddedPanel DEF IInv, TypeOK
    <2>7. SaveSettings
      BY <1>3 DEF AddTabs, AssignTabs
    <2>8. ~raced' => ~raced /\ Changing = {}
      BY <2>1
    <2>9. queue' \in Seq(Event)
      BY <2>4
    <2>10. ops' \in 0 .. MaxOps
      BY <1>1
    <2>11. want' \in [Profiles -> SUBSET Tabs]
      BY <2>1 DEF IInv, TypeOK
    <2>12. tabs' \in Seq(Tabs) /\ views' \in Seq(View)
      BY <2>1 DEF IInv, TypeOK
    <2>13. saved' \in [Profiles -> File]
      BY <2>7, <2>12, Saved DEF IInv
    <2>14. /\ \A p \in Profiles :
                \/ saved'[p] = saved[p]
                \/ /\ p = profile /\ saving
                   /\ saved'[p].tabs = tabs' /\ saved'[p].views = views'
           /\ saving =>
                saved'[profile].tabs = tabs' /\ saved'[profile].views = views'
      BY <2>7, <2>12, Saved DEF IInv
    <2>15. TypeOK'
      BY <2>1, <2>9, <2>10, <2>11, <2>13 DEF IInv, TypeOK
    <2>16. profile \in Profiles
      BY DEF IInv, TypeOK
    <2>17. ~raced' => /\ saving /\ ToSet(tabs') = want'[profile]
                      /\ IsInjective(tabs')
      BY <2>5, <2>6, <2>8
         DEF IInv, TypeOK, SavesAreOn, ActiveProfileSaved, NoTwice
    <2>18. Steps' /\ Exclusive' /\ ViewsShown'
      BY <2>1
         DEF IInv, Steps, Exclusive, ViewsShown, UniqueHolders, SharedHolders
    <2>19. OneChange'
      BY <2>1, <2>8 DEF OneChange, Changing
    <2>20. SavesAreOn'
      BY <2>1, <2>17 DEF SavesAreOn
    <2>21. Pending'
      BY <2>1, <2>8 DEF Pending, Changing
    <2>22. UNCHANGED co
      BY <2>1
    <2>23. NoTwice'
      BY <2>8, <2>17, <2>14, <2>22 DEF IInv, NoTwice, Changing
    <2>24. ViewsAreSingle'
      BY <1>3, <2>1, <2>5, <2>14 DEF IInv, ViewsAreSingle
    <2>25. ProfilesKeepTheirPanels'
      BY <2>1, <2>5, <2>8, <2>16, <2>17, <2>14
         DEF IInv, ProfilesKeepTheirPanels
    <2>26. ActiveProfileSaved'
      BY <2>1, <2>14, <2>17 DEF ActiveProfileSaved
    <2>27. PanelsHaveViews'
      BY <2>4 DEF PanelsHaveViews
    <2>28. ViewsInStep'
      BY <2>1 DEF IInv, ViewsInStep, MayLockShared
    <2>29. QED
      BY <2>15, <2>18, <2>19, <2>20, <2>21, <2>23, <2>24, <2>25, <2>26, <2>27,
         <2>28
         DEF IInv
  <1>4. QED
    BY <1>2, <1>3

(* Panels change places, with no await. *)
LEMMA OnTabsReorderedKeeps ==
  ASSUME IInv, ~stuck, OnTabsReordered
  PROVE  IInv'
  <1>1. ops' \in 0 .. MaxOps
    BY KneeboardAssumption DEF IInv, TypeOK, OnTabsReordered, Request
  <1>2. CASE BlockAtOnce
    BY <1>1, <1>2, BlockKeeps
  <1>3. CASE ~BlockAtOnce
    <2>1. /\ UNCHANGED <<views, shown, made, profile, saving, co, frame, stuck,
                         want, edited>>
          /\ tabs' = Reverse(tabs)
          /\ given' = tabs'
          /\ queue' = Append(queue, Reconcile)
          /\ delayed' = {}
          /\ ops' = ops + 1
          /\ MayLockShared
          /\ raced' = (raced \/ Changing # {})
      BY <1>3
         DEF threadVars, Request, NoteRace, OnTabsReordered, AssignTabs,
             Deliver
    <2>2. Reconcile \in Event
      BY DEF Reconcile, Event
    <2>3. queue' = Append(queue, Reconcile) /\ queue \in Seq(Event)
      BY <2>1 DEF IInv, TypeOK
    <2>4. queue' \in Seq(Event) /\ Reconcile \in ToSet(queue')
      BY <2>2, <2>3, AppendEvents
    <2>5. /\ tabs' \in Seq(Tabs) /\ ToSet(tabs') = ToSet(tabs)
          /\ IsInjective(tabs) => IsInjective(tabs')
      BY <2>1, ReversedPanels DEF IInv, TypeOK
    <2>6. SaveSettings
      BY <1>3 DEF OnTabsReordered, AssignTabs
    <2>7. ~raced' => ~raced /\ Changing = {}
      BY <2>1
    <2>8. given' \in Seq(Tabs)
      BY <2>1, <2>5
    <2>9. queue' \in Seq(Event)
      BY <2>4
    <2>10. ops' \in 0 .. MaxOps
      BY <1>1
    <2>11. tabs' \in Seq(Tabs) /\ views' \in Seq(View)
      BY <2>1, <2>8 DEF IInv, TypeOK
    <2>12. saved' \in [Profiles -> File]
      BY <2>6, <2>11, Saved DEF IInv
    <2>13. /\ \A p \in Profiles :
                \/ saved'[p] = saved[p]
                \/ /\ p = profile /\ saving
                   /\ saved'[p].tabs = tabs' /\ saved'[p].views = views'
           /\ saving =>
                saved'[profile].tabs = tabs' /\ saved'[profile].views = views'
      BY <2>6, <2>11, Saved DEF IInv
    <2>14. TypeOK'
      BY <2>1, <2>8, <2>9, <2>10, <2>12 DEF IInv, TypeOK
    <2>15. Steps' /\ Exclusive' /\ ViewsShown'
      BY <2>1
         DEF IInv, Steps, Exclusive, ViewsShown, UniqueHolders, SharedHolders
    <2>16. OneChange'
      BY <2>1, <2>7 DEF OneChange, Changing
    <2>17. SavesAreOn'
      BY <2>1, <2>7 DEF IInv, SavesAreOn
    <2>18. Pending'
      BY <2>1, <2>7 DEF Pending, Changing
    <2>19. NoTwice'
      BY <2>1, <2>5, <2>7, <2>13 DEF IInv, NoTwice, Changing
    <2>20. ViewsAreSingle'
      BY <2>1, <2>13 DEF IInv, ViewsAreSingle
    <2>21. ProfilesKeepTheirPanels'
      BY <2>1, <2>5, <2>7, <2>13
         DEF IInv, ProfilesKeepTheirPanels, ActiveProfileSaved
    <2>22. ActiveProfileSaved'
      BY <2>1, <2>5, <2>7, <2>13 DEF IInv, ActiveProfileSaved, SavesAreOn
    <2>23. PanelsHaveViews'
      BY <2>4 DEF PanelsHaveViews
    <2>24. ViewsInStep'
      BY <2>1 DEF IInv, ViewsInStep, MayLockShared
    <2>25. QED
      BY <2>14, <2>15, <2>16, <2>17, <2>18, <2>19, <2>20, <2>21, <2>22, <2>23,
         <2>24
         DEF IInv
  <1>4. QED
    BY <1>2, <1>3

(* The profile's panels are reset; loading those to come awaits. *)
LEMMA RestoreDefaultsKeeps ==
  ASSUME IInv, ~stuck, NEW c \in Coroutines, RestoreDefaults(c)
  PROVE  IInv'
  <1>1. ops' \in 0 .. MaxOps
    BY KneeboardAssumption DEF IInv, TypeOK, RestoreDefaults, Request
  <1>2. CASE ~MayLock /\ Block
    <2>1. /\ UNCHANGED <<tabs, views, shown, given, made, profile, saving,
                         queue, delayed, co, frame, edited>>
          /\ saved' = [saved EXCEPT ![profile].tabs = DefaultTabs]
          /\ want' = [want EXCEPT ![profile] = ToSet(DefaultTabs)]
          /\ raced' = (raced \/ Changing # {})
          /\ ops' = ops + 1
          /\ stuck'
      BY <1>2
         DEF panelVars, fileVars, eventVars, threadVars, historyVars, Request,
             Block, BlockAtOnce, Wants, NoteRace, RestoreDefaults
    <2>2. want'[profile] = ToSet(DefaultTabs)
          /\ \A p \in Profiles \ {profile} : want'[p] = want[p]
      BY <2>1 DEF IInv, TypeOK
    <2>3. /\ saved'[profile].tabs = DefaultTabs
          /\ saved'[profile].views = saved[profile].views
          /\ \A p \in Profiles \ {profile} : saved'[p] = saved[p]
      BY <2>1 DEF IInv, TypeOK
    <2>4. co[c] = NotRunning /\ NoDialog
      BY DEF RestoreDefaults
    <2>5. DefaultTabs \in Seq(Tabs) /\ IsInjective(DefaultTabs)
      BY KneeboardAssumption
    <2>6. ~raced' => ~raced /\ Changing = {}
      BY <2>1
    <2>7. ops' \in 0 .. MaxOps
      BY <1>1
    <2>8. want' \in [Profiles -> SUBSET Tabs]
      BY <2>1, <2>5 DEF IInv, TypeOK, ToSet
    <2>9. saved' \in [Profiles -> File]
      BY <2>1, <2>5 DEF IInv, TypeOK, File
    <2>10. TypeOK'
      BY <2>1, <2>7, <2>8, <2>9 DEF IInv, TypeOK
    <2>11. Steps' /\ Exclusive' /\ ViewsShown' /\ ViewsInStep'
      BY <2>1
         DEF IInv, Steps, Exclusive, ViewsShown, ViewsInStep, Changing,
             UniqueHolders, SharedHolders
    <2>12. OneChange'
      BY <2>1, <2>6 DEF OneChange, Changing
    <2>13. SavesAreOn'
      BY <2>1 DEF SavesAreOn
    <2>14. Pending'
      BY <2>1, <2>6 DEF Pending, Changing
    <2>15. NoTwice'
      BY <2>1, <2>5, <2>6 DEF IInv, NoTwice, Changing
    <2>16. ViewsAreSingle'
      BY <2>1 DEF IInv, ViewsAreSingle
    <2>17. ProfilesKeepTheirPanels'
      BY <2>2, <2>3, <2>6 DEF IInv, ProfilesKeepTheirPanels
    <2>18. ActiveProfileSaved'
      BY <1>2, <2>4, <2>6
         DEF IInv, ActiveProfileSaved, Steps, Changing, SharedHolders, MayLock,
             NoDialog
    <2>19. PanelsHaveViews'
      BY <2>1 DEF PanelsHaveViews
    <2>20. QED
      BY <2>10, <2>11, <2>12, <2>13, <2>14, <2>15, <2>16, <2>17, <2>18, <2>19
         DEF IInv
  <1>3. CASE MayLock /\ Suspend(c, "restore", "loading", DefaultTabs, <<>>)
    <2>1. /\ UNCHANGED <<tabs, views, shown, given, made, profile, saving,
                         queue, delayed, frame, stuck, edited>>
          /\ saved' = [saved EXCEPT ![profile].tabs = DefaultTabs]
          /\ want' = [want EXCEPT ![profile] = ToSet(DefaultTabs)]
          /\ raced' = (raced \/ Changing # {})
          /\ ops' = ops + 1
      BY <1>3
         DEF panelVars, fileVars, eventVars, threadVars, historyVars, Request,
             Suspend, Wants, NoteRace, RestoreDefaults
    <2>2. want'[profile] = ToSet(DefaultTabs)
          /\ \A p \in Profiles \ {profile} : want'[p] = want[p]
      BY <2>1 DEF IInv, TypeOK
    <2>3. /\ saved'[profile].tabs = DefaultTabs
          /\ saved'[profile].views = saved[profile].views
          /\ \A p \in Profiles \ {profile} : saved'[p] = saved[p]
      BY <2>1 DEF IInv, TypeOK
    <2>4. co[c] = NotRunning /\ NoDialog
      BY DEF RestoreDefaults
    <2>5. DefaultTabs \in Seq(Tabs) /\ IsInjective(DefaultTabs)
      BY KneeboardAssumption
    <2>6. co' = [co EXCEPT ![c] =
                 [op |-> "restore", step |-> "loading", tabs |-> DefaultTabs,
                  views |-> <<>>]]
      BY <1>3 DEF Suspend
    <2>7. ~raced' => ~raced /\ Changing = {}
      BY <2>1
    <2>8. [op |-> "restore", step |-> "loading", tabs |-> DefaultTabs,
           views |-> <<>>] \in State
      BY <2>5 DEF State
    <2>9. /\ co'[c] = [op |-> "restore", step |-> "loading",
                       tabs |-> DefaultTabs, views |-> <<>>]
          /\ \A b \in Coroutines \ {c} : co'[b] = co[b]
      BY <2>6, <2>8, Moved DEF IInv
    <2>10. co' \in [Coroutines -> State]
      BY <2>6, <2>8, Moved DEF IInv
    <2>11. ops' \in 0 .. MaxOps
      BY <1>1
    <2>12. want' \in [Profiles -> SUBSET Tabs]
      BY <2>1, <2>5 DEF IInv, TypeOK, ToSet
    <2>13. saved' \in [Profiles -> File]
      BY <2>1, <2>5 DEF IInv, TypeOK, File
    <2>14. TypeOK'
      BY <2>1, <2>10, <2>11, <2>12, <2>13 DEF IInv, TypeOK, State
    <2>15. Steps'
      BY <2>9 DEF IInv, Steps
    <2>16. Exclusive'
      BY <1>3, <2>9 DEF IInv, Exclusive, SharedHolders, MayLock
    <2>17. OneChange'
      BY <2>7, <2>9 DEF OneChange, Changing
    <2>18. SavesAreOn'
      BY <2>1, <2>7 DEF IInv, SavesAreOn
    <2>19. Pending'
      BY <2>1, <2>2, <2>7, <2>9 DEF Pending, Changing
    <2>20. NoTwice'
      BY <2>1, <2>5, <2>7, <2>9 DEF IInv, NoTwice, Changing
    <2>21. ViewsAreSingle'
      BY <2>1, <2>9, NoList DEF IInv, ViewsAreSingle
    <2>22. ViewsShown'
      BY <2>1, <2>4, <2>9 DEF IInv, ViewsShown, NotRunning
    <2>23. ProfilesKeepTheirPanels'
      BY <2>2, <2>3, <2>7 DEF IInv, ProfilesKeepTheirPanels
    <2>24. ActiveProfileSaved'
      BY <2>9 DEF ActiveProfileSaved, Changing
    <2>25. PanelsHaveViews'
      BY <2>9 DEF PanelsHaveViews, Changing
    <2>26. ViewsInStep'
      BY <2>9 DEF ViewsInStep, UniqueHolders
    <2>27. QED
      BY <2>14, <2>15, <2>16, <2>17, <2>18, <2>19, <2>20, <2>21, <2>22, <2>23,
         <2>24, <2>25, <2>26
         DEF IInv
  <1>4. QED
    BY <1>2, <1>3 DEF RestoreDefaults

(* A profile is chosen: nothing is saved until its panels are there. *)
LEMMA SetProfileSettingsKeeps ==
  ASSUME IInv, ~stuck, NEW c \in Coroutines, co[c] = NotRunning,
         NEW to \in Profiles,
         NEW earlier \in Seq(Event),
         Reconcile \in ToSet(queue) => Reconcile \in ToSet(earlier),
         ops' \in 0 .. MaxOps, SetProfileSettings(c, to, earlier)
  PROVE  IInv'
  <1>1. CASE ~MayLock
    <2>1. /\ UNCHANGED <<tabs, views, shown, given, made, profile, saved,
                         delayed, co, frame, want, raced, edited>>
          /\ stuck'
          /\ saving' = FALSE
          /\ queue' = earlier
          /\ ops' \in 0 .. MaxOps
      BY <1>1
         DEF panelVars, fileVars, eventVars, historyVars, Block,
             SetProfileSettings
    <2>2. saving' \in BOOLEAN
      BY <2>1 DEF IInv, TypeOK
    <2>3. TypeOK'
      BY <2>1, <2>2 DEF IInv, TypeOK
    <2>4. Steps' /\ Exclusive' /\ OneChange' /\ NoTwice' /\ ViewsAreSingle'
          /\ ViewsShown' /\ ProfilesKeepTheirPanels' /\ ActiveProfileSaved'
          /\ ViewsInStep'
      BY <2>1
         DEF IInv, Steps, Exclusive, OneChange, NoTwice, ViewsAreSingle,
             ViewsShown, ProfilesKeepTheirPanels, ActiveProfileSaved,
             ViewsInStep, Changing, UniqueHolders, SharedHolders
    <2>5. SavesAreOn'
      BY <2>1 DEF SavesAreOn
    <2>6. Pending'
      BY <2>1 DEF IInv, Pending, Changing
    <2>7. PanelsHaveViews'
      BY <2>1 DEF PanelsHaveViews
    <2>8. QED
      BY <2>3, <2>4, <2>5, <2>6, <2>7 DEF IInv
  <1>2. CASE MayLock /\ to = profile
    <2>1. /\ UNCHANGED <<tabs, views, shown, given, made, profile, saved, co,
                         frame, stuck, want, edited>>
          /\ saving' = TRUE
          /\ delayed' \subseteq delayed
          /\ queue' = earlier \/ queue' = Append(earlier, Reconcile)
          /\ raced' = (raced \/ Changing # {})
          /\ ops' \in 0 .. MaxOps
      BY <1>2
         DEF panelVars, fileVars, eventVars, threadVars, NoteRace,
             SetProfileSettings, Deliver
    <2>2. Reconcile \in Event
      BY DEF Reconcile, Event
    <2>3. /\ queue' \in Seq(Event)
          /\ Reconcile \in ToSet(queue) => Reconcile \in ToSet(queue')
      BY <2>1, <2>2, AppendEvents
    <2>4. ~raced' => ~raced /\ Changing = {}
      BY <2>1
    <2>5. queue' \in Seq(Event)
      BY <2>3
    <2>6. TypeOK'
      BY <2>1, <2>5 DEF IInv, TypeOK
    <2>7. Steps' /\ Exclusive' /\ ViewsAreSingle' /\ ViewsShown'
          /\ ViewsInStep'
      BY <2>1
         DEF IInv, Steps, Exclusive, ViewsAreSingle, ViewsShown, ViewsInStep,
             Changing, UniqueHolders, SharedHolders
    <2>8. OneChange'
      BY <2>1, <2>4 DEF OneChange, Changing
    <2>9. SavesAreOn'
      BY <2>1 DEF SavesAreOn
    <2>10. Pending'
      BY <2>1, <2>4 DEF Pending, Changing
    <2>11. NoTwice'
      BY <2>1, <2>4 DEF IInv, NoTwice, Changing
    <2>12. ProfilesKeepTheirPanels'
      BY <2>1, <2>4 DEF IInv, ProfilesKeepTheirPanels
    <2>13. ActiveProfileSaved'
      BY <2>1, <2>4 DEF IInv, ActiveProfileSaved
    <2>14. PanelsHaveViews'
      BY <2>1, <2>3 DEF IInv, PanelsHaveViews, Changing
    <2>15. QED
      BY <2>6, <2>7, <2>8, <2>9, <2>10, <2>11, <2>12, <2>13, <2>14 DEF IInv
  <1>3. CASE MayLock /\ to # profile
    <2>1. /\ UNCHANGED <<tabs, shown, given, made, saved, delayed, frame,
                         stuck, want, edited>>
          /\ saving' = FALSE
          /\ profile' = to
          /\ views' = saved[to].views
          /\ queue' = earlier
          /\ raced' = (raced \/ Changing # {})
          /\ ops' \in 0 .. MaxOps
      BY <1>3 DEF Suspend, NoteRace, SetProfileSettings
    <2>2. saved[to].tabs \in Seq(Tabs) /\ saved[to].views \in Seq(View)
      BY DEF IInv, TypeOK, File
    <2>3. co' = [co EXCEPT ![c] =
                 [op |-> "switch", step |-> "loading", tabs |-> saved[to].tabs,
                  views |-> saved[to].views]]
      BY <1>3 DEF Suspend, SetProfileSettings
    <2>4. ~raced' => ~raced /\ Changing = {}
      BY <2>1
    <2>5. [op |-> "switch", step |-> "loading", tabs |-> saved[to].tabs,
           views |-> saved[to].views] \in State
      BY <2>2 DEF State
    <2>6. /\ co'[c] = [op |-> "switch", step |-> "loading",
                       tabs |-> saved[to].tabs, views |-> saved[to].views]
          /\ \A b \in Coroutines \ {c} : co'[b] = co[b]
      BY <2>3, <2>5, Moved DEF IInv
    <2>7. co' \in [Coroutines -> State]
      BY <2>3, <2>5, Moved DEF IInv
    <2>8. views' \in Seq(View)
      BY <2>1, <2>2
    <2>9. saving' \in BOOLEAN
      BY <2>1 DEF IInv, TypeOK
    <2>10. TypeOK'
      BY <2>1, <2>7, <2>8, <2>9 DEF IInv, TypeOK, State
    <2>11. Steps'
      BY <2>6 DEF IInv, Steps
    <2>12. Exclusive'
      BY <1>3, <2>6 DEF IInv, Exclusive, SharedHolders, MayLock
    <2>13. OneChange'
      BY <2>4, <2>6 DEF OneChange, Changing
    <2>14. SavesAreOn'
      BY <2>6 DEF SavesAreOn, Changing
    <2>15. Pending'
      BY <2>1, <2>4, <2>6 DEF IInv, Pending, ProfilesKeepTheirPanels, Changing
    <2>16. NoTwice'
      BY <2>1, <2>4, <2>6 DEF IInv, NoTwice, Changing
    <2>17. ViewsAreSingle'
      BY <2>1, <2>6 DEF IInv, ViewsAreSingle
    <2>18. ViewsShown'
      BY <2>6 DEF ViewsShown
    <2>19. ProfilesKeepTheirPanels'
      BY <2>1, <2>4 DEF IInv, ProfilesKeepTheirPanels
    <2>20. ActiveProfileSaved'
      BY <2>6 DEF ActiveProfileSaved, Changing
    <2>21. PanelsHaveViews'
      BY <2>6 DEF PanelsHaveViews, Changing
    <2>22. ViewsInStep'
      BY <2>6 DEF ViewsInStep, UniqueHolders
    <2>23. QED
      BY <2>10, <2>11, <2>12, <2>13, <2>14, <2>15, <2>16, <2>17, <2>18, <2>19,
         <2>20, <2>21, <2>22
         DEF IInv
  <1>4. QED
    BY <1>1, <1>2, <1>3

(* The new panels are made, and the old ones are being disposed. *)
LEMMA DisposeOldTabsKeeps ==
  ASSUME IInv, ~stuck, NEW c \in Coroutines, DisposeOldTabs(c)
  PROVE  IInv'
  <1> DEFINE r == [co[c] EXCEPT !.step = "disposing"]
  <1>1. r \in State /\ r.op = co[c].op /\ r.step = "disposing"
        /\ r.tabs = co[c].tabs /\ r.views = co[c].views
    <2>1. co[c] \in State
      BY DEF IInv, TypeOK, State
    <2>2. QED
      BY <2>1 DEF State
  <1>2. co' = [co EXCEPT ![c] = r] /\ co[c].step = "loading"
    BY DEF DisposeOldTabs
  <1> HIDE DEF r
  <1>3. QED
    <2>1. /\ UNCHANGED <<views, shown, given, made, profile, saving, saved,
                         queue, delayed, frame, stuck, ops, want, raced,
                         edited>>
          /\ tabs' = <<>>
      BY DEF fileVars, eventVars, historyVars, DisposeOldTabs
    <2>2. co' = [co EXCEPT ![c] = r]
      BY <1>1, <1>2
         DEF panelVars, fileVars, eventVars, threadVars, historyVars, Request,
             Block, BlockAtOnce, Suspend, Return, Wants, NoteRace
    <2>3. r \in State
      BY <1>1
    <2>4. /\ co'[c] = r
          /\ \A b \in Coroutines \ {c} : co'[b] = co[b]
      BY <2>2, <2>3, Moved DEF IInv
    <2>5. co' \in [Coroutines -> State]
      BY <2>2, <2>3, Moved DEF IInv
    <2>6. TypeOK'
      BY <2>1, <2>5 DEF IInv, TypeOK, State
    <2>7. Steps'
      BY <1>1, <1>2 DEF IInv, Steps
    <2>8. Exclusive'
      BY <1>1, <2>4 DEF IInv, Exclusive, UniqueHolders, SharedHolders
    <2>9. OneChange'
      BY <1>2, <2>1 DEF IInv, OneChange, Changing
    <2>10. SavesAreOn'
      BY <1>1, <2>1, <2>4 DEF IInv, SavesAreOn, Changing
    <2>11. Pending'
      BY <1>1, <1>2, <2>1 DEF IInv, Pending, Changing
    <2>12. NoTwice'
      BY <1>1, <1>2, <2>1, NoList DEF IInv, NoTwice, Changing
    <2>13. ViewsAreSingle'
      BY <1>1, <2>1, <2>4 DEF IInv, ViewsAreSingle
    <2>14. ViewsShown'
      BY <1>1, <2>1, <2>4 DEF IInv, ViewsShown
    <2>15. ProfilesKeepTheirPanels'
      BY <1>1, <2>1, <2>4 DEF IInv, ProfilesKeepTheirPanels, Changing
    <2>16. ActiveProfileSaved'
      BY <1>1, <2>4 DEF ActiveProfileSaved, Changing
    <2>17. PanelsHaveViews'
      BY <1>1, <2>4 DEF PanelsHaveViews, Changing
    <2>18. ViewsInStep'
      BY <1>1, <2>1, <2>4 DEF IInv, ViewsInStep, Changing, UniqueHolders
    <2>19. QED
      BY <2>6, <2>7, <2>8, <2>9, <2>10, <2>11, <2>12, <2>13, <2>14, <2>15,
         <2>16, <2>17, <2>18
         DEF IInv

(* The default panels are in place, with a lock for the thread. *)
LEMMA FinishRestoreDefaultsKeeps ==
  ASSUME IInv, ~stuck, NEW c \in Coroutines, FinishRestoreDefaults(c)
  PROVE  IInv'
  <1>1. CASE UniqueHolders \ {c} = {}
    <2>1. /\ UNCHANGED <<views, shown, made, profile, saving, frame, stuck,
                         ops, want, raced, edited>>
          /\ tabs' = co[c].tabs
          /\ given' = tabs'
          /\ queue' = Append(queue, Reconcile)
          /\ delayed' = {}
      BY <1>1
         DEF panelVars, fileVars, eventVars, threadVars, historyVars, Request,
             Block, BlockAtOnce, Suspend, Return, Wants, NoteRace,
             FinishRestoreDefaults, AssignTabs, Deliver
    <2>2. Reconcile \in Event
      BY DEF Reconcile, Event
    <2>3. queue' = Append(queue, Reconcile) /\ queue \in Seq(Event)
      BY <2>1 DEF IInv, TypeOK
    <2>4. queue' \in Seq(Event) /\ Reconcile \in ToSet(queue')
      BY <2>2, <2>3, AppendEvents
    <2>5. co[c].op = "restore" /\ co[c].step = "disposing"
          /\ tabs' = co[c].tabs
      BY <2>1 DEF FinishRestoreDefaults
    <2>6. co' = [co EXCEPT ![c] = NotRunning] /\ SaveSettings
      BY <1>1
         DEF panelVars, fileVars, eventVars, threadVars, Return,
             FinishRestoreDefaults, AssignTabs
    <2>7. NotRunning \in State
      BY NothingRuns
    <2>8. /\ co'[c] = NotRunning
          /\ \A b \in Coroutines \ {c} : co'[b] = co[b]
      BY <2>6, <2>7, Moved DEF IInv
    <2>9. co' \in [Coroutines -> State]
      BY <2>6, <2>7, Moved DEF IInv
    <2>10. queue' \in Seq(Event)
      BY <2>4
    <2>11. tabs' \in Seq(Tabs) /\ views' \in Seq(View)
      BY <2>1 DEF IInv, TypeOK
    <2>12. saved' \in [Profiles -> File]
      BY <2>6, <2>11, Saved DEF IInv
    <2>13. /\ \A p \in Profiles :
                \/ saved'[p] = saved[p]
                \/ /\ p = profile /\ saving
                   /\ saved'[p].tabs = tabs' /\ saved'[p].views = views'
           /\ saving =>
                saved'[profile].tabs = tabs' /\ saved'[profile].views = views'
      BY <2>6, <2>11, Saved DEF IInv
    <2>14. TypeOK'
      BY <2>1, <2>9, <2>10, <2>12 DEF IInv, TypeOK, State
    <2>15. profile \in Profiles
      BY DEF IInv, TypeOK
    <2>16. Steps'
      BY <2>8 DEF IInv, Steps, NotRunning
    <2>17. Exclusive'
      BY <2>8 DEF IInv, Exclusive, UniqueHolders, SharedHolders, NotRunning
    <2>18. OneChange'
      BY <2>1, <2>8 DEF IInv, OneChange, Changing, NotRunning
    <2>19. SavesAreOn'
      BY <2>1, <2>5, <2>8 DEF IInv, SavesAreOn, Changing
    <2>20. Pending'
      BY <2>1, <2>8, <2>13, <2>15 DEF IInv, Pending, Changing, NotRunning
    <2>21. NoTwice'
      BY <2>1, <2>5, <2>8, <2>13 DEF IInv, NoTwice, Changing, NotRunning
    <2>22. ViewsAreSingle'
      BY <2>1, <2>8, <2>13, NoList DEF IInv, ViewsAreSingle, NotRunning
    <2>23. ViewsShown'
      BY <2>1, <2>5, <2>8 DEF IInv, ViewsShown
    <2>24. ProfilesKeepTheirPanels'
      BY <2>1, <2>5, <2>13
         DEF IInv, ProfilesKeepTheirPanels, SavesAreOn, Pending, Changing
    <2>25. ActiveProfileSaved'
      BY <2>1, <2>5, <2>13
         DEF IInv, ActiveProfileSaved, OneChange, SavesAreOn, Pending, Changing
    <2>26. PanelsHaveViews'
      BY <2>4 DEF PanelsHaveViews
    <2>27. ViewsInStep'
      BY <2>1, <2>5, <2>8 DEF IInv, ViewsInStep, ViewsShown, UniqueHolders
    <2>28. QED
      BY <2>14, <2>16, <2>17, <2>18, <2>19, <2>20, <2>21, <2>22, <2>23, <2>24,
         <2>25, <2>26, <2>27
         DEF IInv
  <1>2. CASE UniqueHolders \ {c} # {}
    <2>1. /\ UNCHANGED <<views, shown, given, made, profile, saving, saved,
                         queue, frame, stuck, ops, want, raced, edited>>
          /\ tabs' = co[c].tabs
          /\ delayed' = delayed \cup {"tabs"}
      BY <1>2
         DEF panelVars, fileVars, eventVars, threadVars, historyVars, Request,
             Block, BlockAtOnce, Suspend, Return, Wants, NoteRace,
             FinishRestoreDefaults, AssignTabs, Deliver
    <2>2. co[c].op = "restore" /\ co[c].step = "disposing"
      BY DEF FinishRestoreDefaults
    <2>3. co' = [co EXCEPT ![c] = NotRunning]
      BY DEF Return, FinishRestoreDefaults
    <2>4. NotRunning \in State
      BY NothingRuns
    <2>5. /\ co'[c] = NotRunning
          /\ \A b \in Coroutines \ {c} : co'[b] = co[b]
      BY <2>3, <2>4, Moved DEF IInv
    <2>6. co' \in [Coroutines -> State]
      BY <2>3, <2>4, Moved DEF IInv
    <2>7. TypeOK'
      BY <2>1, <2>6 DEF IInv, TypeOK, State
    <2>8. Steps'
      BY <2>5 DEF IInv, Steps, NotRunning
    <2>9. Exclusive'
      BY <2>5 DEF IInv, Exclusive, UniqueHolders, SharedHolders, NotRunning
    <2>10. OneChange'
      BY <2>1, <2>5 DEF IInv, OneChange, Changing, NotRunning
    <2>11. SavesAreOn'
      BY <2>1, <2>2, <2>5 DEF IInv, SavesAreOn, Changing
    <2>12. Pending'
      BY <2>1, <2>5 DEF IInv, Pending, Changing, NotRunning
    <2>13. NoTwice'
      BY <2>1, <2>2, <2>5 DEF IInv, NoTwice, Changing, NotRunning
    <2>14. ViewsAreSingle'
      BY <2>1, <2>5, NoList DEF IInv, ViewsAreSingle, NotRunning
    <2>15. ViewsShown'
      BY <2>1, <2>2, <2>5 DEF IInv, ViewsShown
    <2>16. ProfilesKeepTheirPanels'
      BY <1>2, <2>1, <2>5
         DEF IInv, ProfilesKeepTheirPanels, Steps, Pending, Changing,
             UniqueHolders
    <2>17. ActiveProfileSaved'
      BY <1>2, <2>5
         DEF IInv, ActiveProfileSaved, Steps, Changing, UniqueHolders
    <2>18. PanelsHaveViews'
      BY <1>2, <2>5 DEF IInv, PanelsHaveViews, Steps, Changing, UniqueHolders
    <2>19. ViewsInStep'
      BY <1>2, <2>5 DEF ViewsInStep, UniqueHolders
    <2>20. QED
      BY <2>7, <2>8, <2>9, <2>10, <2>11, <2>12, <2>13, <2>14, <2>15, <2>16,
         <2>17, <2>18, <2>19
         DEF IInv
  <1>3. QED
    BY <1>1, <1>2

(* The chosen profile's panels and views are in place, and are saved under *)
(* its name.                                                               *)
LEMMA FinishSwitchKeeps ==
  ASSUME IInv, ~stuck, NEW c \in Coroutines, FinishSwitch(c)
  PROVE  IInv'
  <1>1. /\ UNCHANGED <<profile, frame, stuck, ops, want, raced>>
        /\ tabs' = co[c].tabs
        /\ views' = Synced(co[c].views, tabs')
        /\ made' = made + Len(views') - Len(co[c].views)
        /\ shown' = GUIDs(views')
        /\ given' = tabs'
        /\ edited' = FALSE
        /\ saving' = TRUE
        /\ delayed' \subseteq delayed \cup {"tabs"}
        /\ \/ queue' = queue /\ UniqueHolders \ {c} # {}
           \/ queue' = Append(queue, Reconcile)
    BY DEF panelVars, fileVars, eventVars, threadVars, historyVars, Request,
           Block, BlockAtOnce, Suspend, Return, Wants, NoteRace, FinishSwitch,
           SyncViewsWithTabs, InitializeViews, Deliver
  <1>2. Reconcile \in Event /\ queue \in Seq(Event)
    BY DEF Reconcile, Event, IInv, TypeOK
  <1>3. /\ queue' \in Seq(Event)
        /\ Reconcile \in ToSet(queue') \/ UniqueHolders \ {c} # {}
    BY <1>1, <1>2, AppendEvents
  <1>4. co[c].op = "switch" /\ co[c].step = "disposing"
    BY DEF FinishSwitch
  <1>5. /\ tabs' \in Seq(Tabs) /\ co[c].views \in Seq(View)
        /\ made \in Nat /\ made >= LastGUID /\ OneViewEach(co[c].views)
    BY <1>1 DEF IInv, TypeOK, ViewsAreSingle
  <1>6. views' \in Seq(View) /\ Len(co[c].views) <= Len(views')
        /\ OneViewEach(views')
    BY <1>1, <1>5, SyncedFacts
  <1>7. made' \in Nat /\ made' >= LastGUID
    BY <1>1, <1>5, <1>6 DEF LastGUID
  <1>8. co' = [co EXCEPT ![c] = NotRunning] /\ SaveSettings
    BY DEF panelVars, fileVars, eventVars, threadVars, historyVars, Request,
           Block, BlockAtOnce, Suspend, Return, Wants, NoteRace, FinishSwitch
  <1>9. NotRunning \in State
    BY NothingRuns
  <1>10. /\ co'[c] = NotRunning
         /\ \A b \in Coroutines \ {c} : co'[b] = co[b]
    BY <1>8, <1>9, Moved DEF IInv
  <1>11. co' \in [Coroutines -> State]
    BY <1>8, <1>9, Moved DEF IInv
  <1>12. tabs' \in Seq(Tabs)
    BY <1>5
  <1>13. views' \in Seq(View)
    BY <1>6
  <1>14. shown' \in Seq(Nat)
    BY <1>1, <1>6, ShownViews
  <1>15. made' \in Nat
    BY <1>7
  <1>16. saving' \in BOOLEAN
    BY <1>1
  <1>17. queue' \in Seq(Event)
    BY <1>3
  <1>18. edited' \in BOOLEAN
    BY <1>1 DEF IInv, TypeOK
  <1>19. tabs' \in Seq(Tabs) /\ views' \in Seq(View)
    BY <1>12, <1>13
  <1>20. saved' \in [Profiles -> File]
    BY <1>8, <1>19, Saved DEF IInv
  <1>21. /\ \A p \in Profiles :
              \/ saved'[p] = saved[p]
              \/ /\ p = profile /\ saving
                 /\ saved'[p].tabs = tabs' /\ saved'[p].views = views'
         /\ saving =>
              saved'[profile].tabs = tabs' /\ saved'[profile].views = views'
    BY <1>8, <1>19, Saved DEF IInv
  <1>22. TypeOK'
    BY <1>1, <1>3, <1>10, <1>11, <1>13, <1>14, <1>15, <1>16, <1>17, <1>18,
       <1>20
       DEF IInv, TypeOK, State
  <1>23. profile \in Profiles
    BY DEF IInv, TypeOK
  <1>24. Steps'
    BY <1>10 DEF IInv, Steps, NotRunning
  <1>25. Exclusive'
    BY <1>10 DEF IInv, Exclusive, UniqueHolders, SharedHolders, NotRunning
  <1>26. OneChange'
    BY <1>1, <1>10 DEF IInv, OneChange, Changing, NotRunning
  <1>27. SavesAreOn'
    BY <1>1 DEF SavesAreOn
  <1>28. Pending'
    BY <1>1, <1>4, <1>10 DEF IInv, Pending, OneChange, Changing, NotRunning
  <1>29. NoTwice'
    BY <1>1, <1>4, <1>10, <1>21 DEF IInv, NoTwice, Changing, NotRunning
  <1>30. ViewsAreSingle'
    BY <1>6, <1>7, <1>10, <1>21, NoList DEF IInv, ViewsAreSingle, NotRunning
  <1>31. ViewsShown'
    BY <1>1 DEF ViewsShown
  <1>32. ProfilesKeepTheirPanels'
    BY <1>1, <1>4, <1>21 DEF IInv, ProfilesKeepTheirPanels, Pending, Changing
  <1>33. ActiveProfileSaved'
    BY <1>1, <1>4, <1>21, <1>23 DEF IInv, ActiveProfileSaved, Pending, Changing
  <1>34. PanelsHaveViews'
    BY <1>3, <1>10 DEF IInv, PanelsHaveViews, Steps, Changing, UniqueHolders
  <1>35. ViewsInStep'
    BY <1>1 DEF ViewsInStep
  <1>36. QED
    BY <1>22, <1>24, <1>25, <1>26, <1>27, <1>28, <1>29, <1>30, <1>31, <1>32,
       <1>33, <1>34, <1>35
       DEF IInv

(* A dialog that keeps a copy of the views. *)
LEMMA AskForViewModeKeeps ==
  ASSUME IInv, ~stuck, NEW c \in Coroutines, AskForViewMode(c)
  PROVE  IInv'
  <1>1. /\ UNCHANGED <<tabs, views, shown, given, made, profile, saving, saved,
                       queue, delayed, frame, stuck, want, raced, edited>>
        /\ ops' = ops + 1
    BY DEF panelVars, fileVars, eventVars, threadVars, historyVars, Request,
           Block, BlockAtOnce, Suspend, Return, Wants, NoteRace, AskForViewMode
  <1>2. co[c] = NotRunning
    BY DEF AskForViewMode
  <1>3. co' = [co EXCEPT ![c] =
               [op |-> "views", step |-> "choosing", tabs |-> <<>>,
                views |-> views]]
    BY DEF Suspend, AskForViewMode
  <1>4. [op |-> "views", step |-> "choosing", tabs |-> <<>>,
         views |-> views] \in State
    BY DEF State, IInv, TypeOK
  <1>5. /\ co'[c] = [op |-> "views", step |-> "choosing", tabs |-> <<>>,
                     views |-> views]
        /\ \A b \in Coroutines \ {c} : co'[b] = co[b]
    BY <1>3, <1>4, Moved DEF IInv
  <1>6. co' \in [Coroutines -> State]
    BY <1>3, <1>4, Moved DEF IInv
  <1>7. ops' \in 0 .. MaxOps
    BY KneeboardAssumption DEF IInv, TypeOK, AskForViewMode, Request
  <1>8. TypeOK'
    BY <1>1, <1>6, <1>7 DEF IInv, TypeOK, State
  <1>9. Steps'
    BY <1>5 DEF IInv, Steps
  <1>10. Exclusive'
    BY <1>5 DEF IInv, Exclusive, UniqueHolders, SharedHolders
  <1>11. OneChange'
    BY <1>1, <1>5 DEF IInv, OneChange, Changing
  <1>12. SavesAreOn'
    BY <1>1, <1>2, <1>5 DEF IInv, SavesAreOn, Changing, NotRunning
  <1>13. Pending'
    BY <1>1, <1>5 DEF IInv, Pending, Changing
  <1>14. NoTwice'
    BY <1>1, <1>5 DEF IInv, NoTwice, Changing
  <1>15. ViewsAreSingle'
    BY <1>1, <1>5 DEF IInv, ViewsAreSingle
  <1>16. ViewsShown'
    BY <1>1, <1>2, <1>5 DEF IInv, ViewsShown, NotRunning
  <1>17. ProfilesKeepTheirPanels'
    BY <1>1, <1>2, <1>5 DEF IInv, ProfilesKeepTheirPanels, Changing, NotRunning
  <1>18. ActiveProfileSaved'
    BY <1>1, <1>2, <1>5 DEF IInv, ActiveProfileSaved, Changing, NotRunning
  <1>19. PanelsHaveViews'
    BY <1>1, <1>2, <1>5 DEF IInv, PanelsHaveViews, Changing, NotRunning
  <1>20. ViewsInStep'
    BY <1>1, <1>2, <1>5
       DEF IInv, ViewsInStep, Changing, UniqueHolders, NotRunning
  <1>21. QED
    BY <1>8, <1>9, <1>10, <1>11, <1>12, <1>13, <1>14, <1>15, <1>16, <1>17,
       <1>18, <1>19, <1>20
       DEF IInv

(* A view that is made for no panel shares none with another. *)
LEMMA AppendView ==
  ASSUME NEW s \in Seq(View), OneViewEach(s), NEW guid \in Nat
  PROVE  /\ Append(s, [guid |-> guid, tab |-> NoTab]) \in Seq(View)
         /\ OneViewEach(Append(s, [guid |-> guid, tab |-> NoTab]))
  <1> DEFINE v == [guid |-> guid, tab |-> NoTab]
             t == Append(s, v)
  <1>1. v \in View /\ v.tab = NoTab
    BY DEF View
  <1>2. /\ t \in Seq(View) /\ Len(s) \in Nat
        /\ DOMAIN s = 1 .. Len(s) /\ DOMAIN t = 1 .. Len(s) + 1
        /\ \A i \in DOMAIN t : (i \in DOMAIN s /\ t[i] = s[i]) \/ t[i] = v
    BY <1>1
  <1>3. ASSUME NEW i \in DOMAIN t, NEW j \in DOMAIN t,
               Independent(t[i]), Independent(t[j]), t[i].tab = t[j].tab
        PROVE  i = j \/ t[i].tab = NoTab
    BY <1>1, <1>2, <1>3 DEF OneViewEach
  <1>4. QED
    BY <1>2, <1>3 DEF OneViewEach

(* The copy is written back, whatever became of the views, and with a view *)
(* more if one was asked for.                                              *)
LEMMA WriteViewsKeeps ==
  ASSUME IInv, ~stuck, NEW c \in Coroutines, WriteViews(c)
  PROVE  IInv'
  <1>1. ops' \in 0 .. MaxOps
    BY DEF IInv, TypeOK, WriteViews
  <1>2. CASE BlockAtOnce
    BY <1>1, <1>2, BlockKeeps
  <1>3. CASE ~BlockAtOnce
    <2>1. /\ UNCHANGED <<tabs, profile, saving, queue, delayed, frame, stuck,
                         ops, want, raced>>
          /\ \/ views' = co[c].views /\ made' = made
             \/ /\ views' = Append(co[c].views,
                                   [guid |-> made + 1, tab |-> NoTab])
                /\ made' = made + 1
          /\ shown' = GUIDs(views')
          /\ given' = tabs
          /\ edited' = TRUE
          /\ MayLock
      BY <1>3
         DEF eventVars, Return, WriteViews, AddView, SetViewsSettings,
             InitializeViews
    <2>2. co[c].step = "choosing"
      BY DEF WriteViews
    <2>3. /\ views' \in Seq(View) /\ OneViewEach(views')
          /\ made' \in Nat /\ made' >= made
      <3>1. /\ co[c].views \in Seq(View) /\ OneViewEach(co[c].views)
            /\ made \in Nat
        BY DEF IInv, TypeOK, ViewsAreSingle
      <3>2. made + 1 \in Nat
        BY <3>1
      <3>3. CASE views' = co[c].views /\ made' = made
        <4>1. made' >= made
          BY <3>1, <3>3
        <4>2. OneViewEach(views')
          BY <3>1, <3>3 DEF OneViewEach, Independent
        <4>3. QED
          BY <3>1, <3>3, <4>1, <4>2
      <3>4. CASE /\ views' = Append(co[c].views,
                                   [guid |-> made + 1, tab |-> NoTab])
                 /\ made' = made + 1
        <4>1. /\ Append(co[c].views, [guid |-> made + 1, tab |-> NoTab])
                   \in Seq(View)
              /\ OneViewEach(Append(co[c].views,
                                    [guid |-> made + 1, tab |-> NoTab]))
          BY <3>1, <3>2, AppendView
        <4>2. made' >= made
          BY <3>1, <3>4
        <4>3. OneViewEach(views')
          BY <3>4, <4>1 DEF OneViewEach, Independent
        <4>4. QED
          BY <3>2, <3>4, <4>1, <4>2, <4>3
      <3>5. QED
        BY <2>1, <3>3, <3>4
    <2>4. co' = [co EXCEPT ![c] = NotRunning] /\ SaveSettings
      BY <1>3 DEF Return, WriteViews, SetViewsSettings
    <2>5. NotRunning \in State
      BY NothingRuns
    <2>6. /\ co'[c] = NotRunning
          /\ \A b \in Coroutines \ {c} : co'[b] = co[b]
      BY <2>4, <2>5, Moved DEF IInv
    <2>7. co' \in [Coroutines -> State]
      BY <2>4, <2>5, Moved DEF IInv
    <2>8. shown' \in Seq(Nat)
      BY <2>1, <2>3, ShownViews
    <2>9. tabs' \in Seq(Tabs) /\ views' \in Seq(View)
      BY <2>1, <2>3 DEF IInv, TypeOK
    <2>10. saved' \in [Profiles -> File]
      BY <2>4, <2>9, Saved DEF IInv
    <2>11. /\ \A p \in Profiles :
                \/ saved'[p] = saved[p]
                \/ /\ p = profile /\ saving
                   /\ saved'[p].tabs = tabs' /\ saved'[p].views = views'
           /\ saving =>
                saved'[profile].tabs = tabs' /\ saved'[profile].views = views'
      BY <2>4, <2>9, Saved DEF IInv
    <2>12. TypeOK'
      BY <2>1, <2>3, <2>7, <2>8, <2>10 DEF IInv, TypeOK, State
    <2>13. profile \in Profiles
      BY DEF IInv, TypeOK
    <2>14. Steps'
      BY <2>6 DEF IInv, Steps, NotRunning
    <2>15. Exclusive'
      BY <2>6 DEF IInv, Exclusive, UniqueHolders, SharedHolders, NotRunning
    <2>16. OneChange'
      BY <2>1, <2>6 DEF IInv, OneChange, Changing, NotRunning
    <2>17. SavesAreOn'
      BY <2>1, <2>2, <2>6 DEF IInv, SavesAreOn, Changing
    <2>18. Pending'
      BY <2>1, <2>6, <2>11, <2>13 DEF IInv, Pending, Changing, NotRunning
    <2>19. NoTwice'
      BY <2>1, <2>6, <2>11 DEF IInv, NoTwice, Changing, NotRunning
    <2>20. ViewsAreSingle'
      <3>1. LastGUID \in Nat /\ made \in Nat /\ made >= LastGUID
        BY DEF IInv, TypeOK, ViewsAreSingle, LastGUID
      <3>2. made' >= LastGUID
        BY <2>3, <3>1
      <3>3. QED
        BY <2>3, <2>6, <2>11, <3>2, NoList DEF IInv, ViewsAreSingle, NotRunning
    <2>21. ViewsShown'
      BY <2>1 DEF ViewsShown
    <2>22. ProfilesKeepTheirPanels'
      BY <2>1, <2>2, <2>6, <2>11
         DEF IInv, ProfilesKeepTheirPanels, Steps, Pending, ActiveProfileSaved,
             Changing
    <2>23. ActiveProfileSaved'
      BY <2>1, <2>2, <2>6, <2>11
         DEF IInv, ActiveProfileSaved, SavesAreOn, Changing
    <2>24. PanelsHaveViews'
      BY <2>1 DEF PanelsHaveViews
    <2>25. ViewsInStep'
      BY <2>1 DEF ViewsInStep
    <2>26. QED
      BY <2>12, <2>14, <2>15, <2>16, <2>17, <2>18, <2>19, <2>20, <2>21, <2>22,
         <2>23, <2>24, <2>25
         DEF IInv
  <1>4. QED
    BY <1>2, <1>3

(* The user removes a view. *)
LEMMA RemoveViewKeeps ==
  ASSUME IInv, ~stuck, RemoveView
  PROVE  IInv'
  <1>1. ops' \in 0 .. MaxOps
    BY KneeboardAssumption DEF IInv, TypeOK, RemoveView, Request
  <1>2. CASE BlockAtOnce
    BY <1>1, <1>2, BlockKeeps
  <1>3. CASE ~BlockAtOnce
    <2>1. /\ UNCHANGED <<tabs, made, profile, saving, queue, delayed, co,
                         frame, stuck, want, raced>>
          /\ views' = Tail(views)
          /\ shown' = GUIDs(views')
          /\ given' = tabs
          /\ edited' = TRUE
          /\ MayLock
          /\ ops' = ops + 1
      BY <1>3
         DEF eventVars, threadVars, Request, RemoveView, SetViewsSettings,
             InitializeViews
    <2>2. views \in Seq(View) /\ Len(views) > 1 /\ OneViewEach(views)
      BY DEF IInv, TypeOK, ViewsAreSingle, RemoveView
    <2>3. views' \in Seq(View) /\ OneViewEach(views')
      BY <2>1, <2>2, TailViews
    <2>4. UNCHANGED <<made, co>>
      BY <2>1
    <2>5. SaveSettings
      BY <1>3 DEF RemoveView, SetViewsSettings
    <2>6. views' \in Seq(View)
      BY <2>3
    <2>7. shown' \in Seq(Nat)
      BY <2>1, <2>3, ShownViews
    <2>8. ops' \in 0 .. MaxOps
      BY <1>1
    <2>9. tabs' \in Seq(Tabs) /\ views' \in Seq(View)
      BY <2>1, <2>6 DEF IInv, TypeOK
    <2>10. saved' \in [Profiles -> File]
      BY <2>5, <2>9, Saved DEF IInv
    <2>11. /\ \A p \in Profiles :
                \/ saved'[p] = saved[p]
                \/ /\ p = profile /\ saving
                   /\ saved'[p].tabs = tabs' /\ saved'[p].views = views'
           /\ saving =>
                saved'[profile].tabs = tabs' /\ saved'[profile].views = views'
      BY <2>5, <2>9, Saved DEF IInv
    <2>12. TypeOK'
      BY <2>1, <2>6, <2>7, <2>8, <2>10 DEF IInv, TypeOK
    <2>13. profile \in Profiles
      BY DEF IInv, TypeOK
    <2>14. Steps' /\ Exclusive' /\ OneChange' /\ SavesAreOn'
      BY <2>1
         DEF IInv, Steps, Exclusive, OneChange, SavesAreOn, Changing,
             UniqueHolders, SharedHolders
    <2>15. Pending'
      BY <2>1, <2>11, <2>13 DEF IInv, Pending, Changing
    <2>16. NoTwice'
      BY <2>1, <2>11 DEF IInv, NoTwice, Changing
    <2>17. ViewsAreSingle'
      BY <2>3, <2>4, <2>11 DEF IInv, ViewsAreSingle
    <2>18. ViewsShown'
      BY <2>1 DEF ViewsShown
    <2>19. ProfilesKeepTheirPanels'
      BY <2>1, <2>11
         DEF IInv, ProfilesKeepTheirPanels, Steps, Pending, ActiveProfileSaved,
             Changing
    <2>20. ActiveProfileSaved'
      BY <2>1, <2>11 DEF IInv, ActiveProfileSaved, SavesAreOn, Changing
    <2>21. PanelsHaveViews'
      BY <2>1 DEF PanelsHaveViews
    <2>22. ViewsInStep'
      BY <2>1 DEF ViewsInStep
    <2>23. QED
      BY <2>12, <2>14, <2>15, <2>16, <2>17, <2>18, <2>19, <2>20, <2>21, <2>22
         DEF IInv
  <1>4. QED
    BY <1>2, <1>3

(* Other settings are set and saved. *)
LEMMA SetSettingsKeeps ==
  ASSUME IInv, ~stuck, SetSettings
  PROVE  IInv'
  <1>1. ops' \in 0 .. MaxOps
    BY KneeboardAssumption DEF IInv, TypeOK, SetSettings, Request
  <1>2. CASE BlockAtOnce
    BY <1>1, <1>2, BlockKeeps
  <1>3. CASE ~BlockAtOnce
    <2>1. /\ UNCHANGED <<tabs, views, shown, given, made, profile, saving,
                         queue, delayed, co, frame, stuck, want, raced,
                         edited>>
          /\ ops' = ops + 1
          /\ MayLock
      BY <1>3
         DEF panelVars, eventVars, threadVars, historyVars, Request,
             SetSettings
    <2>2. SaveSettings
      BY <1>3 DEF SetSettings
    <2>3. ops' \in 0 .. MaxOps
      BY <1>1
    <2>4. tabs' \in Seq(Tabs) /\ views' \in Seq(View)
      BY <2>1 DEF IInv, TypeOK
    <2>5. saved' \in [Profiles -> File]
      BY <2>2, <2>4, Saved DEF IInv
    <2>6. /\ \A p \in Profiles :
               \/ saved'[p] = saved[p]
               \/ /\ p = profile /\ saving
                  /\ saved'[p].tabs = tabs' /\ saved'[p].views = views'
          /\ saving =>
               saved'[profile].tabs = tabs' /\ saved'[profile].views = views'
      BY <2>2, <2>4, Saved DEF IInv
    <2>7. TypeOK'
      BY <2>1, <2>3, <2>5 DEF IInv, TypeOK
    <2>8. profile \in Profiles
      BY DEF IInv, TypeOK
    <2>9. Steps' /\ Exclusive' /\ OneChange' /\ SavesAreOn' /\ ViewsShown'
          /\ PanelsHaveViews' /\ ViewsInStep'
      BY <2>1
         DEF IInv, Steps, Exclusive, OneChange, SavesAreOn, ViewsShown,
             PanelsHaveViews, ViewsInStep, Changing, UniqueHolders,
             SharedHolders
    <2>10. Pending'
      BY <2>1, <2>6, <2>8 DEF IInv, Pending, Changing
    <2>11. NoTwice'
      BY <2>1, <2>6 DEF IInv, NoTwice, Changing
    <2>12. ViewsAreSingle'
      BY <2>1, <2>6 DEF IInv, ViewsAreSingle
    <2>13. ProfilesKeepTheirPanels'
      BY <2>1, <2>6
         DEF IInv, ProfilesKeepTheirPanels, Steps, Pending, ActiveProfileSaved,
             Changing
    <2>14. ActiveProfileSaved'
      BY <2>1, <2>6 DEF IInv, ActiveProfileSaved, SavesAreOn, Changing
    <2>15. QED
      BY <2>7, <2>9, <2>10, <2>11, <2>12, <2>13, <2>14 DEF IInv
  <1>4. QED
    BY <1>2, <1>3

(* A panel's or a device's settings are saved. *)
LEMMA SettingsChangedKeeps ==
  ASSUME IInv, ~stuck, SettingsChanged
  PROVE  IInv'
  <1>1. /\ UNCHANGED <<tabs, views, shown, given, made, profile, saving, co,
                       frame, stuck, want, raced, edited>>
        /\ ops' = ops + 1
        /\ delayed' \subseteq delayed \cup {"save"}
        /\ queue' = queue \/ queue' = Append(queue, Reconcile)
    BY DEF panelVars, fileVars, eventVars, threadVars, historyVars, Request,
           Block, BlockAtOnce, Suspend, Return, Wants, NoteRace,
           SettingsChanged, Emit, Deliver
  <1>2. Reconcile \in Event /\ queue \in Seq(Event)
    BY DEF Reconcile, Event, IInv, TypeOK
  <1>3. /\ queue' \in Seq(Event)
        /\ Reconcile \in ToSet(queue) => Reconcile \in ToSet(queue')
    BY <1>1, <1>2, AppendEvents
  <1>4. (IF UniqueHolders = {} THEN SaveSettings ELSE UNCHANGED saved)
    BY DEF SettingsChanged, Emit
  <1>5. queue' \in Seq(Event)
    BY <1>3
  <1>6. ops' \in 0 .. MaxOps
    BY KneeboardAssumption DEF IInv, TypeOK, SettingsChanged, Request
  <1>7. tabs' \in Seq(Tabs) /\ views' \in Seq(View)
    BY <1>1 DEF IInv, TypeOK
  <1>8. saved' \in [Profiles -> File]
    BY <1>4, <1>7, Saved DEF IInv, TypeOK
  <1>9. /\ \A p \in Profiles :
             \/ saved'[p] = saved[p]
             \/ /\ p = profile /\ saving
                /\ saved'[p].tabs = tabs' /\ saved'[p].views = views'
        /\ saving /\ (UniqueHolders = {}) =>
             saved'[profile].tabs = tabs' /\ saved'[profile].views = views'
    BY <1>4, <1>7, Saved DEF IInv
  <1>10. TypeOK'
    BY <1>1, <1>5, <1>6, <1>8 DEF IInv, TypeOK
  <1>11. profile \in Profiles
    BY DEF IInv, TypeOK
  <1>12. Steps' /\ Exclusive' /\ OneChange' /\ SavesAreOn' /\ ViewsShown'
         /\ ViewsInStep'
    BY <1>1
       DEF IInv, Steps, Exclusive, OneChange, SavesAreOn, ViewsShown,
           ViewsInStep, Changing, UniqueHolders, SharedHolders
  <1>13. Pending'
    BY <1>1, <1>9, <1>11 DEF IInv, Pending, Changing
  <1>14. NoTwice'
    BY <1>1, <1>9 DEF IInv, NoTwice, Changing
  <1>15. ViewsAreSingle'
    BY <1>1, <1>9 DEF IInv, ViewsAreSingle
  <1>16. ProfilesKeepTheirPanels'
    BY <1>1, <1>9
       DEF IInv, ProfilesKeepTheirPanels, Steps, Pending, ActiveProfileSaved,
           Changing
  <1>17. ActiveProfileSaved'
    BY <1>1, <1>9
       DEF IInv, ActiveProfileSaved, Steps, SavesAreOn, Changing, UniqueHolders
  <1>18. PanelsHaveViews'
    BY <1>1, <1>3 DEF IInv, PanelsHaveViews, Changing
  <1>19. QED
    BY <1>10, <1>12, <1>13, <1>14, <1>15, <1>16, <1>17, <1>18 DEF IInv

(* An event waits for the frame loop. *)
LEMMA EnqueueOrderedEventKeeps ==
  ASSUME IInv, ~stuck, NEW event \in Event, EnqueueOrderedEvent(event)
  PROVE  IInv'
  <1>1. /\ UNCHANGED <<tabs, views, shown, given, made, profile, saving, saved,
                       delayed, co, frame, stuck, want, raced, edited>>
        /\ ops' = ops + 1
        /\ queue' = Append(queue, event)
    BY DEF panelVars, fileVars, eventVars, threadVars, historyVars, Request,
           Block, BlockAtOnce, Suspend, Return, Wants, NoteRace,
           EnqueueOrderedEvent
  <1>2. queue \in Seq(Event)
    BY DEF IInv, TypeOK
  <1>3. queue' \in Seq(Event) /\ ToSet(queue') = ToSet(queue) \cup {event}
    BY <1>1, <1>2, AppendEvents
  <1>4. ops' \in 0 .. MaxOps
    BY KneeboardAssumption DEF IInv, TypeOK, EnqueueOrderedEvent, Request
  <1>5. TypeOK'
    BY <1>1, <1>4 DEF IInv, TypeOK
  <1>6. Steps' /\ Exclusive' /\ OneChange' /\ SavesAreOn' /\ Pending'
        /\ NoTwice' /\ ViewsAreSingle' /\ ViewsShown'
        /\ ProfilesKeepTheirPanels' /\ ActiveProfileSaved' /\ ViewsInStep'
    BY <1>1
       DEF IInv, Steps, Exclusive, OneChange, SavesAreOn, Pending, NoTwice,
           ViewsAreSingle, ViewsShown, ProfilesKeepTheirPanels,
           ActiveProfileSaved, ViewsInStep, Changing, UniqueHolders,
           SharedHolders
  <1>7. PanelsHaveViews'
    BY <1>1, <1>3 DEF IInv, PanelsHaveViews, Changing
  <1>8. QED
    BY <1>5, <1>6, <1>7 DEF IInv

(* A frame is drawn, or the flush ends. *)
LEMMA FrameKeeps ==
  ASSUME IInv, ~stuck, FrameTick \/ EndFlush
  PROVE  IInv'
  <1>1. /\ UNCHANGED <<tabs, views, shown, given, made, profile, saving, saved,
                       queue, delayed, co, stuck, ops, want, raced, edited>>
        /\ frame' \in {"idle", "posted"}
    BY DEF panelVars, fileVars, eventVars, threadVars, historyVars, Request,
           Block, BlockAtOnce, Suspend, Return, Wants, NoteRace, FrameTick,
           EndFlush
  <1>2. TypeOK'
    BY <1>1 DEF IInv, TypeOK
  <1>3. Steps' /\ Exclusive' /\ OneChange' /\ SavesAreOn' /\ Pending'
        /\ NoTwice' /\ ViewsAreSingle' /\ ViewsShown'
        /\ ProfilesKeepTheirPanels' /\ ActiveProfileSaved' /\ PanelsHaveViews'
        /\ ViewsInStep'
    BY <1>1
       DEF IInv, Steps, Exclusive, OneChange, SavesAreOn, Pending, NoTwice,
           ViewsAreSingle, ViewsShown, ProfilesKeepTheirPanels,
           ActiveProfileSaved, PanelsHaveViews, ViewsInStep, Changing,
           UniqueHolders, SharedHolders
  <1>4. QED
    BY <1>2, <1>3 DEF IInv

(* Views and panels are reconciled: SyncedFacts says with what result. *)
LEMMA ReconcileViewsWithTabsKeeps ==
  ASSUME IInv, ~stuck, ops' = ops, queue # <<>>, ReconcileViewsWithTabs
  PROVE  IInv'
  <1>1. queue' = Tail(queue) /\ queue' \in Seq(Event)
    BY DEF IInv, TypeOK, ReconcileViewsWithTabs
  <1>2. CASE ~MayLock
    <2>1. /\ UNCHANGED <<tabs, views, shown, given, made, profile, saving,
                         saved, delayed, co, frame, ops, want, raced, edited>>
          /\ stuck'
          /\ queue' = Tail(queue)
      BY <1>2 DEF panelVars, fileVars, eventVars, Block, ReconcileViewsWithTabs
    <2>2. TypeOK'
      BY <2>1 DEF IInv, TypeOK
    <2>3. Steps' /\ Exclusive' /\ OneChange' /\ Pending' /\ NoTwice'
          /\ ViewsAreSingle' /\ ViewsShown' /\ ProfilesKeepTheirPanels'
          /\ ActiveProfileSaved' /\ ViewsInStep'
      BY <2>1
         DEF IInv, Steps, Exclusive, OneChange, Pending, NoTwice,
             ViewsAreSingle, ViewsShown, ProfilesKeepTheirPanels,
             ActiveProfileSaved, ViewsInStep, Changing, UniqueHolders,
             SharedHolders
    <2>4. SavesAreOn'
      BY <2>1 DEF SavesAreOn
    <2>5. PanelsHaveViews'
      BY <2>1 DEF PanelsHaveViews
    <2>6. QED
      BY <2>2, <2>3, <2>4, <2>5 DEF IInv
  <1>3. CASE MayLock
    <2>1. /\ UNCHANGED <<tabs, profile, saving, delayed, co, frame, stuck, ops,
                         want, raced>>
          /\ queue' = Tail(queue)
          /\ views' = Synced(views, tabs')
          /\ made' = made + Len(views') - Len(views)
          /\ edited' = FALSE
          /\ shown' = IF views' = views THEN shown ELSE GUIDs(views')
          /\ given' = IF views' = views THEN given ELSE tabs'
      BY <1>3
         DEF threadVars, ReconcileViewsWithTabs, SyncViewsWithTabs,
             InitializeViews
    <2>2. /\ tabs' \in Seq(Tabs) /\ tabs' = tabs /\ views \in Seq(View)
          /\ made \in Nat /\ made >= LastGUID /\ OneViewEach(views)
      BY <2>1 DEF IInv, TypeOK, ViewsAreSingle
    <2>3. views' \in Seq(View) /\ Len(views) <= Len(views')
          /\ OneViewEach(views')
      BY <2>1, <2>2, SyncedFacts
    <2>4. made' \in Nat /\ made' >= LastGUID
      BY <2>1, <2>2, <2>3 DEF LastGUID
    <2>5. (IF views' # views THEN SaveSettings ELSE UNCHANGED saved)
      BY DEF panelVars, ReconcileViewsWithTabs
    <2>6. views' \in Seq(View)
      BY <2>3
    <2>7. shown' \in Seq(Nat)
      BY <2>1, <2>3, ShownViews DEF IInv, TypeOK
    <2>8. made' \in Nat
      BY <2>4
    <2>9. edited' \in BOOLEAN
      BY <2>1 DEF IInv, TypeOK
    <2>10. tabs' \in Seq(Tabs) /\ views' \in Seq(View)
      BY <2>1, <2>6 DEF IInv, TypeOK
    <2>11. saved' \in [Profiles -> File]
      BY <2>5, <2>10, Saved DEF IInv, TypeOK
    <2>12. /\ \A p \in Profiles :
                \/ saved'[p] = saved[p]
                \/ /\ p = profile /\ saving
                   /\ saved'[p].tabs = tabs' /\ saved'[p].views = views'
           /\ saving /\ (views' # views) =>
                saved'[profile].tabs = tabs' /\ saved'[profile].views = views'
      BY <2>5, <2>10, Saved DEF IInv
    <2>13. TypeOK'
      BY <2>1, <2>6, <2>7, <2>8, <2>9, <2>11 DEF IInv, TypeOK
    <2>14. profile \in Profiles
      BY DEF IInv, TypeOK
    <2>15. Steps' /\ Exclusive' /\ OneChange' /\ SavesAreOn'
      BY <2>1
         DEF IInv, Steps, Exclusive, OneChange, SavesAreOn, Changing,
             UniqueHolders, SharedHolders
    <2>16. Pending'
      BY <2>1, <2>12, <2>14 DEF IInv, Pending, Changing
    <2>17. NoTwice'
      BY <2>1, <2>12 DEF IInv, NoTwice, Changing
    <2>18. ViewsAreSingle'
      BY <2>1, <2>3, <2>4, <2>12 DEF IInv, ViewsAreSingle
    <2>19. ViewsShown'
      BY <2>1 DEF IInv, ViewsShown
    <2>20. ProfilesKeepTheirPanels'
      BY <2>1, <2>12
         DEF IInv, ProfilesKeepTheirPanels, Steps, Pending, ActiveProfileSaved,
             Changing
    <2>21. ActiveProfileSaved'
      BY <2>1, <2>12, <2>14 DEF IInv, ActiveProfileSaved, Changing
    <2>22. PanelsHaveViews'
      BY <2>1, <2>2, SyncedFacts DEF PanelsHaveViews
    <2>23. ViewsInStep'
      BY <2>1 DEF IInv, ViewsInStep, Changing, UniqueHolders
    <2>24. QED
      BY <2>13, <2>15, <2>16, <2>17, <2>18, <2>19, <2>20, <2>21, <2>22, <2>23
         DEF IInv
  <1>4. QED
    BY <1>2, <1>3

(* An event changes settings or moves through bookmarks. *)
LEMMA ChangeSettingsKeeps ==
  ASSUME IInv, ~stuck, ops' = ops, queue # <<>>,
         ChangeSettings(Head(queue))
  PROVE  IInv'
  <1>1. queue' = Tail(queue) /\ queue' \in Seq(Event)
    BY DEF IInv, TypeOK, ChangeSettings
  <1>2. Reconcile \in ToSet(queue) => Reconcile \in ToSet(queue')
    <2>1. Head(queue) # Reconcile
      BY DEF ChangeSettings, Reconcile
    <2>2. QED
      BY <1>1, <2>1, TailEvents
  <1>3. CASE ~MayLock /\ Block /\ UNCHANGED <<delayed, saved>>
    <2>1. /\ UNCHANGED <<tabs, views, shown, given, made, profile, saving,
                         saved, delayed, co, frame, ops, want, raced, edited>>
          /\ stuck'
          /\ queue' = Tail(queue)
      BY <1>3
         DEF panelVars, fileVars, eventVars, historyVars, Block, ChangeSettings
    <2>2. TypeOK'
      BY <2>1 DEF IInv, TypeOK
    <2>3. Steps' /\ Exclusive' /\ OneChange' /\ Pending' /\ NoTwice'
          /\ ViewsAreSingle' /\ ViewsShown' /\ ProfilesKeepTheirPanels'
          /\ ActiveProfileSaved' /\ ViewsInStep'
      BY <2>1
         DEF IInv, Steps, Exclusive, OneChange, Pending, NoTwice,
             ViewsAreSingle, ViewsShown, ProfilesKeepTheirPanels,
             ActiveProfileSaved, ViewsInStep, Changing, UniqueHolders,
             SharedHolders
    <2>4. SavesAreOn'
      BY <2>1 DEF SavesAreOn
    <2>5. PanelsHaveViews'
      BY <2>1 DEF PanelsHaveViews
    <2>6. QED
      BY <2>2, <2>3, <2>4, <2>5 DEF IInv
  <1>4. CASE ~(~MayLock /\ Block /\ UNCHANGED <<delayed, saved>>)
    <2>1. /\ UNCHANGED <<tabs, views, shown, given, made, profile, saving, co,
                         frame, stuck, ops, want, raced, edited>>
          /\ queue' = Tail(queue)
          /\ delayed' \subseteq delayed \cup {"save"}
          /\ SaveSettings \/ UNCHANGED saved
      BY <1>4
         DEF panelVars, fileVars, eventVars, threadVars, historyVars, Request,
             ChangeSettings
    <2>2. /\ saved' \in [Profiles -> File]
          /\ \A p \in Profiles :
               \/ saved'[p] = saved[p]
               \/ /\ p = profile /\ saving
                  /\ saved'[p].tabs = tabs' /\ saved'[p].views = views'
      BY <2>1, Saved DEF IInv, TypeOK
    <2>3. saved' \in [Profiles -> File]
      BY <2>2
    <2>4. TypeOK'
      BY <2>1, <2>3 DEF IInv, TypeOK
    <2>5. profile \in Profiles
      BY DEF IInv, TypeOK
    <2>6. Steps' /\ Exclusive' /\ OneChange' /\ SavesAreOn' /\ ViewsShown'
          /\ ViewsInStep'
      BY <2>1
         DEF IInv, Steps, Exclusive, OneChange, SavesAreOn, ViewsShown,
             ViewsInStep, Changing, UniqueHolders, SharedHolders
    <2>7. Pending'
      BY <2>1, <2>2, <2>5 DEF IInv, Pending, Changing
    <2>8. NoTwice'
      BY <2>1, <2>2 DEF IInv, NoTwice, Changing
    <2>9. ViewsAreSingle'
      BY <2>1, <2>2 DEF IInv, ViewsAreSingle
    <2>10. ProfilesKeepTheirPanels'
      BY <2>1, <2>2
         DEF IInv, ProfilesKeepTheirPanels, Steps, Pending, ActiveProfileSaved,
             Changing
    <2>11. ActiveProfileSaved'
      BY <2>1, <2>2, <2>5 DEF IInv, ActiveProfileSaved, Changing
    <2>12. PanelsHaveViews'
      BY <2>1, <1>2 DEF IInv, PanelsHaveViews, Changing
    <2>13. QED
      BY <2>4, <2>6, <2>7, <2>8, <2>9, <2>10, <2>11, <2>12 DEF IInv
  <1>5. QED
    BY <1>3, <1>4

(* The invariant holds when the first profile has been loaded. *)
LEMMA InitIInv == Init => IInv
  <1> SUFFICES ASSUME Init PROVE IInv
    OBVIOUS
  <1> DEFINE file == Files[FirstProfile]
  <1>1. /\ \A p \in Profiles : Files[p].tabs \in Seq(Tabs)
             /\ Files[p].views \in Seq(View)
        /\ \A p \in Profiles : IsInjective(Files[p].tabs)
             /\ OneViewEach(Files[p].views)
        /\ FirstProfile \in Profiles /\ MaxOps \in Nat
    BY KneeboardAssumption DEF File
  <1>2. /\ tabs = file.tabs /\ made = LastGUID /\ made \in Nat
        /\ made >= LastGUID
        /\ views = Synced(file.views, tabs)
        /\ shown = GUIDs(views) /\ given = tabs
        /\ profile = FirstProfile /\ saving = TRUE
    BY DEF Init, LastGUID
  <1>3. /\ queue = <<>> /\ delayed = {} /\ frame = "idle" /\ stuck = FALSE
        /\ ops = 0
        /\ want = [p \in Profiles |-> ToSet(Files[p].tabs)]
        /\ raced = FALSE /\ edited = FALSE
    BY DEF Init
  <1>4. \A c \in Coroutines : co[c].op = "none" /\ co[c].step = "none"
          /\ co[c].views = <<>>
    BY DEF Init, NotRunning
  <1>5. tabs \in Seq(Tabs) /\ file.views \in Seq(View)
        /\ OneViewEach(file.views)
    BY <1>1, <1>2
  <1>6. /\ views \in Seq(View)
        /\ OneViewEach(views)
        /\ \A tab \in ToSet(tabs) :
             \/ Cardinality(ViewsOf(views, tab)) = 1
             \/ ViewsOf(views, tab) = {} /\ Len(views) >= MaxViewCount
        /\ \A tab \in Tabs \ ToSet(tabs) : ViewsOf(views, tab) = {}
    BY <1>2, <1>5, SyncedFacts
  <1>7. /\ saved \in [Profiles -> File]
        /\ saved[FirstProfile].tabs = file.tabs
        /\ saved[FirstProfile].views = views
        /\ \A p \in Profiles \ {FirstProfile} : saved[p] = Files[p]
    <2> DEFINE r == [file EXCEPT !.views = views]
    <2>1. file \in File
      BY KneeboardAssumption
    <2>2. r \in File /\ r.tabs = file.tabs /\ r.views = views
      BY <2>1, <1>6 DEF File
    <2>3. saved = [Files EXCEPT ![FirstProfile] = r]
          /\ Files \in [Profiles -> File]
      BY KneeboardAssumption DEF Init
    <2> HIDE DEF r
    <2>4. QED
      BY <1>1, <2>2, <2>3
  <1>8. co \in [Coroutines -> State]
    <2> HIDE DEF State
    <2>1. QED
      BY NothingRuns DEF Init
  <1>9. \A p \in Profiles : saved[p].tabs = Files[p].tabs
    BY <1>7
  <1>10. TypeOK
    <2>1. shown \in Seq(Nat)
      BY <1>2, <1>6, ShownViews
    <2>2. want \in [Profiles -> SUBSET Tabs]
      BY <1>1, <1>3 DEF ToSet
    <2>3. queue \in Seq(Event)
      BY <1>3
    <2>4. ops \in 0 .. MaxOps
      BY <1>1, <1>3
    <2>5. QED
      BY <1>1, <1>2, <1>3, <1>5, <1>6, <1>7, <1>8, <2>1, <2>2, <2>3, <2>4
         DEF TypeOK, State
  <1>11. Changing = {} /\ UniqueHolders = {} /\ SharedHolders = {}
    BY <1>4 DEF Changing, UniqueHolders, SharedHolders
  <1>12. Steps /\ Exclusive /\ OneChange /\ SavesAreOn /\ Pending
    BY <1>2, <1>4, <1>11 DEF Steps, Exclusive, OneChange, SavesAreOn, Pending
  <1>13. NoTwice
    BY <1>1, <1>2, <1>9, <1>11 DEF NoTwice
  <1>14. ViewsAreSingle
    BY <1>1, <1>2, <1>4, <1>6, <1>7, NoList DEF ViewsAreSingle
  <1>15. ViewsShown /\ ViewsInStep
    BY <1>2 DEF ViewsShown, ViewsInStep
  <1>16. ProfilesKeepTheirPanels /\ ActiveProfileSaved
    BY <1>1, <1>2, <1>3, <1>9 DEF ProfilesKeepTheirPanels, ActiveProfileSaved
  <1>17. PanelsHaveViews
    BY <1>6 DEF PanelsHaveViews
  <1>18. QED
    BY <1>10, <1>12, <1>13, <1>14, <1>15, <1>16, <1>17 DEF IInv

(* The flush runs any of the events. *)
LEMMA RunEventKeeps ==
  ASSUME IInv, ~stuck, RunEvent
  PROVE  IInv'
  <1>1. ops' = ops /\ queue # <<>> /\ queue \in Seq(Event)
        /\ ops \in 0 .. MaxOps
    BY DEF RunEvent, IInv, TypeOK
  <1>2. CASE ReconcileViewsWithTabs
    BY <1>1, <1>2, ReconcileViewsWithTabsKeeps
  <1>3. CASE ChangeSettings(Head(queue))
    BY <1>1, <1>3, ChangeSettingsKeeps
  <1>4. CASE Head(queue).kind = "switch"
             /\ SetProfileSettings(FrameLoop, Head(queue).to, Tail(queue))
    <2>1. Tail(queue) \in Seq(Event) /\ Head(queue) \in Event
      BY <1>1
    <2>2. Head(queue).to \in Profiles /\ Head(queue) # Reconcile
      BY <1>4, <2>1 DEF Event, Reconcile
    <2>3. Reconcile \in ToSet(queue) => Reconcile \in ToSet(Tail(queue))
      BY <1>1, <2>2, TailEvents
    <2>4. co[FrameLoop] = NotRunning /\ FrameLoop \in Coroutines
      BY DEF RunEvent, Flushing, Coroutines
    <2>5. QED
      BY <1>1, <1>4, <2>1, <2>2, <2>3, <2>4, SetProfileSettingsKeeps
  <1>5. QED
    BY <1>2, <1>3, <1>4 DEF RunEvent

(* Whatever the user or the API asks for. *)
LEMMA UserStepKeeps ==
  ASSUME IInv, ~stuck, UserStep
  PROVE  IInv'
  <1>1. ASSUME NEW c \in UI, NEW tab \in ToSet(tabs), AskToRemove(c, tab)
        PROVE  IInv'
    <2>1. tab \in Tabs
      BY DEF IInv, TypeOK, ToSet
    <2>2. <<tab>> \in Seq(Tabs)
      BY <2>1
    <2>3. QED
      BY <1>1, <2>2, OpenDialogKeeps DEF AskToRemove, Coroutines
  <1>2. ASSUME NEW c \in UI, ShowDebugInfo(c)
        PROVE  IInv'
    BY <1>2, NoList, OpenDialogKeeps DEF ShowDebugInfo, Coroutines
  <1>3. ASSUME NEW c \in UI, \/ Dismiss(c) \/ RemoveTab(c)
               \/ RestoreDefaults(c)
                             \/ AskForViewMode(c) \/ WriteViews(c)
        PROVE  IInv'
    BY <1>3, DismissKeeps, RemoveTabKeeps, RestoreDefaultsKeeps,
       AskForViewModeKeeps, WriteViewsKeeps
       DEF Coroutines
  <1>4. ASSUME NEW c \in UI, NEW to \in Profiles, ChooseProfile(c, to)
        PROVE  IInv'
    <2>1. ops' \in 0 .. MaxOps /\ queue \in Seq(Event)
      BY <1>4, KneeboardAssumption DEF IInv, TypeOK, ChooseProfile, Request
    <2>2. QED
      BY <1>4, <2>1, SetProfileSettingsKeeps DEF ChooseProfile, Coroutines
  <1>5. ASSUME NEW tab \in Tabs \ UNION {want[p] : p \in Profiles},
               AddTabs(tab)
        PROVE  IInv'
    BY <1>5, AddTabsKeeps
  <1>6. ASSUME ReadPanels
        PROVE  IInv'
    BY <1>6, BlockKeeps, KneeboardAssumption
       DEF ReadPanels, Request, IInv, TypeOK
  <1>7. ASSUME NEW event \in Event \ {Reconcile}, EnqueueOrderedEvent(event)
        PROVE  IInv'
    BY <1>7, EnqueueOrderedEventKeeps
  <1>8. QED
    BY <1>1, <1>2, <1>3, <1>4, <1>5, <1>6, <1>7, OnTabsReorderedKeeps,
       RemoveViewKeeps, SetSettingsKeeps, SettingsChangedKeeps
       DEF UserStep

(* The invariant speaks of the variables only. *)
LEMMA StutterKeeps == IInv /\ UNCHANGED vars => IInv'
  <1> SUFFICES ASSUME IInv, UNCHANGED vars PROVE IInv'
    OBVIOUS
  <1> USE DEF vars, panelVars, fileVars, eventVars, threadVars, historyVars
  <1>1. TypeOK'
    BY DEF IInv, TypeOK
  <1>2. /\ Steps' /\ Exclusive' /\ OneChange' /\ SavesAreOn' /\ Pending'
        /\ NoTwice' /\ ViewsAreSingle' /\ ViewsShown'
    BY DEF IInv, Steps, Exclusive, OneChange, SavesAreOn, Pending, NoTwice,
           ViewsAreSingle, ViewsShown, Changing, UniqueHolders, SharedHolders
  <1>3. /\ ProfilesKeepTheirPanels' /\ ActiveProfileSaved'
        /\ PanelsHaveViews' /\ ViewsInStep'
    BY DEF IInv, ProfilesKeepTheirPanels, ActiveProfileSaved, PanelsHaveViews,
           ViewsInStep, Changing, UniqueHolders
  <1>4. QED
    BY <1>1, <1>2, <1>3 DEF IInv

-----------------------------------------------------------------------------
(* The theorems. *)

(***************************************************************************)
(* The inductive invariant holds in every reachable state, for any         *)
(* profiles, panels, files and limit on views, and any number of           *)
(* coroutines of the settings pages.                                       *)
(***************************************************************************)
THEOREM Invariance == Spec => []IInv
  <1>1. IInv /\ [Next]_vars => IInv'
    <2> SUFFICES ASSUME IInv, [Next]_vars PROVE IInv'
      OBVIOUS
    <2>1. CASE UNCHANGED vars
      BY <2>1, StutterKeeps
    <2>2. CASE Next
      <3>1. ~stuck
        BY <2>2 DEF Next
      <3>2. ASSUME NEW c \in Coroutines, Resume(c)
            PROVE  IInv'
        BY <3>1, <3>2, DisposeOldTabsKeeps, FinishRemoveTabKeeps,
           FinishRestoreDefaultsKeeps, FinishSwitchKeeps
           DEF Resume
      <3>3. QED
        BY <2>2, <3>2, UserStepKeeps, RunEventKeeps, FrameKeeps DEF Next
    <2>3. QED
      BY <2>1, <2>2
  <1>2. QED
    BY InitIInv, <1>1, PTL DEF Spec

(***************************************************************************)
(* Every variable of KneeboardState and TabsList has its type.             *)
(***************************************************************************)
THEOREM KneeboardTyped == Spec => []TypeOK
  <1>1. IInv => TypeOK
    BY DEF IInv
  <1>2. QED
    BY <1>1, Invariance, PTL

(***************************************************************************)
(* Each profile's file has the panels that the user asked for in it, but   *)
(* for a removal or reset that is in progress in the active profile, as    *)
(* long as changes of the panels do not overlap (SetProfileSettings,       *)
(* SaveSettings).                                                          *)
(***************************************************************************)
THEOREM PanelsKept == Spec => []ProfilesKeepTheirPanels
  <1>1. IInv => ProfilesKeepTheirPanels
    BY DEF IInv
  <1>2. QED
    BY <1>1, Invariance, PTL

(***************************************************************************)
(* While no change of the panels is awaited, the active profile has the    *)
(* panels that the user asked for, in memory and on disk (SetTabs,         *)
(* SaveSettings).                                                          *)
(***************************************************************************)
THEOREM ActiveProfileIsSaved == Spec => []ActiveProfileSaved
  <1>1. IInv => ActiveProfileSaved
    BY DEF IInv
  <1>2. QED
    BY <1>1, Invariance, PTL

(***************************************************************************)
(* Once the queue is flushed every panel has a view of its own while there *)
(* are views left, and no view is bound to a panel that is gone, unless    *)
(* the views were edited since (SyncViewsWithTabs).                        *)
(***************************************************************************)
THEOREM EveryPanelHasItsView == Spec => []PanelsHaveViews
  <1>1. IInv => PanelsHaveViews
    BY DEF IInv
  <1>2. QED
    BY <1>1, Invariance, PTL

(***************************************************************************)
(* Whenever nobody is inside a unique lock the views drawn are those of    *)
(* the settings in their order, and they have the current panels           *)
(* (InitializeViews).                                                      *)
(***************************************************************************)
THEOREM ViewsDrawnInStep == Spec => []ViewsInStep
  <1>1. IInv => ViewsInStep
    BY DEF IInv
  <1>2. QED
    BY <1>1, Invariance, PTL
=============================================================================
