-------------------------- MODULE Chromium_proofs ---------------------------
(***************************************************************************)
(* Proofs about Chromium: the inductive invariant of ChromiumInvariant,    *)
(* and what follows from it. For each script there are lemmas that say     *)
(* what a step that concerns it does to its part of the invariant; those   *)
(* of other clients' steps leave it as it was (ScriptKept).                *)
(***************************************************************************)
EXTENDS ChromiumInvariant, FiniteSetTheorems, TLAPS

-----------------------------------------------------------------------------
(* Numbers and lists. *)

(* The least of some numbers is one of them. *)
LEMMA MinOfNats ==
  ASSUME NEW S \in SUBSET Nat, S # {}
  PROVE  Min(S) \in S
  <1> DEFINE R == {ss \in Nat \X Nat : ss[1] < ss[2]}
  <1>1. IsWellFoundedOn(R, Nat)
    BY NatLessThanWellFounded, Zenon DEF OpToRel
  <1>2. PICK x \in S : \A y \in S : <<y, x>> \notin R
    BY <1>1, WFMin, Zenon
  <1>3. ASSUME NEW y \in S
        PROVE  x =< y
    <2>1. <<y, x>>[1] = y /\ <<y, x>>[2] = x /\ <<y, x>> \in Nat \X Nat
      OBVIOUS
    <2>2. ~(y < x)
      BY <1>2, <2>1, Zenon
    <2>3. QED
      BY <2>2
  <1>4. QED
    BY <1>3, Zenon DEF Min

(* What is in a list. *)
LEMMA SeqFacts ==
  ASSUME NEW S, NEW s \in Seq(S)
  PROVE  /\ Len(s) \in Nat /\ DOMAIN s = 1 .. Len(s)
         /\ \A i \in 1 .. Len(s) : s[i] \in S
  OBVIOUS

(* The messages that are sent each way, and the promises. *)
Requested == [what: Calls \cup {"released"}, promise: Nat, arg: Seq(Guids),
              old: BOOLEAN]
Sent == [what: {"result", "pagesChanged"}, promise: Nat, ok: BOOLEAN,
         list: Seq(Guids), old: BOOLEAN]
Made == [n: Nat, what: Calls, arg: Seq(Guids)]

-----------------------------------------------------------------------------
(* The UI thread: views, their pages and their clients. *)

(* Which pages there are, and their IDs. *)
LEMMA ThePages ==
  ASSUME TypeOK
  PROVE  /\ GuidsOf(pages) \in Seq(Guids) /\ IDsOf(pages) \in Seq(Nat)
         /\ DOMAIN IDsOf(pages) = DOMAIN pages
         /\ (pages = <<>>) = (IDsOf(pages) = <<>>)
         /\ PageIDs \in Seq(Nat)
  <1>1. pages \in Seq([guid: Guids, id: Nat]) /\ current \in [Clients -> Nat]
    BY DEF TypeOK
  <1>2. GuidsOf(pages) \in Seq(Guids) /\ IDsOf(pages) \in Seq(Nat)
    <2>1. /\ Len(pages) \in Nat /\ DOMAIN pages = 1 .. Len(pages)
          /\ \A i \in 1 .. Len(pages) : pages[i] \in [guid: Guids, id: Nat]
      BY <1>1, SeqFacts
    <2>2. /\ GuidsOf(pages) = [i \in 1 .. Len(pages) |-> pages[i].guid]
          /\ IDsOf(pages) = [i \in 1 .. Len(pages) |-> pages[i].id]
      BY DEF GuidsOf, IDsOf
    <2>3. \A i \in 1 .. Len(pages) : pages[i].guid \in Guids
            /\ pages[i].id \in Nat
      BY <2>1
    <2>4. QED
      BY <2>2, <2>3
  <1>3. DOMAIN IDsOf(pages) = DOMAIN pages /\ Len(IDsOf(pages)) = Len(pages)
    BY DEF IDsOf
  <1>4. PageIDs \in Seq(Nat)
    <2>1. Primary \in Clients
      BY DEF Clients
    <2>2. current[Primary] \in Nat
      BY <1>1, <2>1
    <2>3. <<current[Primary]>> \in Seq(Nat)
      BY <2>2
    <2>4. QED
      BY <1>2, <2>3 DEF PageIDs
  <1>5. QED
    BY <1>2, <1>3, <1>4

(* Where a view goes when the pages of its tab changed (TabView). *)
LEMMA ContentChange ==
  ASSUME NEW ids \in Seq(Nat), NEW p \in [id: Nat, index: Nat]
  PROVE  /\ AfterContentChange(ids, p) \in [id: Nat, index: Nat]
         /\ ids # <<>> => AfterContentChange(ids, p).id \in Range(ids)
  <1>1. NoView \in [id: Nat, index: Nat]
    BY DEF NoView, NoPage
  <1>2. ASSUME ids # <<>>
        PROVE  ids[1] \in Nat /\ ids[1] \in Range(ids)
    BY <1>2 DEF Range
  <1>3. QED
    BY <1>1, <1>2 DEF AfterContentChange

(* After that each view is at one of the pages, if there are any. *)
LEMMA ContentChangeMoves ==
  ASSUME TypeOK, TabContentChanged
  PROVE  /\ viewPage' \in [Views -> [id: Nat, index: Nat]]
         /\ PageIDs # <<>> =>
              \A v \in Views : viewPage'[v].id \in Range(PageIDs)
  <1>1. PageIDs \in Seq(Nat)
    BY ThePages
  <1>2. viewPage \in [Views -> [id: Nat, index: Nat]]
    BY DEF TypeOK
  <1>3. QED
    BY <1>1, <1>2, ContentChange DEF TabContentChanged

(* The clients are those of the views, also when a view has been given one *)
(* (GetOrCreateClient).                                                    *)
LEMMA ClientGiven ==
  ASSUME TypeOK, Scrollable, Browsers, NEW v \in Views, GetOrCreateClient(v),
         kind' = kind, pages' = pages, setting' = setting, loaded' = loaded
  PROVE  /\ clientOf' \in [Views -> Clients \cup {Nobody}]
         /\ viewOf' \in [Clients -> Views \cup {Nobody}]
         /\ browser' \in [Clients -> {"none", "starting", "open"}]
         /\ \A u \in Views : clientOf'[u] # Nobody =>
              viewOf'[clientOf'[u]] = u /\ browser'[clientOf'[u]] # "none"
         /\ Scrollable' /\ Browsers' /\ Client(v) \in Clients
  <1>1. /\ Primary \notin Views /\ Nobody \notin Views /\ Nobody # Primary
        /\ Views \subseteq Clients /\ Primary \in Clients
    BY ChromiumAssumption DEF Clients
  <1>2. CASE kind = "scrollable" \/ clientOf[v] # Nobody
    <2>1. UNCHANGED <<clientOf, viewOf, browser>>
      BY <1>2 DEF GetOrCreateClient, clientVars
    <2>2. Client(v) \in Clients
      BY <1>1, <1>2, <2>1 DEF Client, TypeOK
    <2>3. Scrollable' /\ Browsers'
      BY <2>1 DEF Scrollable, Browsers
    <2>4. QED
      BY <2>1, <2>2, <2>3 DEF TypeOK
  <1>3. CASE kind # "scrollable" /\ clientOf[v] = Nobody
    <2> DEFINE c == IF Serving = {} THEN Primary ELSE v
    <2>1. /\ clientOf' = [clientOf EXCEPT ![v] = c]
          /\ viewOf' = [viewOf EXCEPT ![c] = v]
          /\ browser' = IF c = Primary THEN browser
                        ELSE [browser EXCEPT ![v] = "starting"]
      BY <1>3 DEF GetOrCreateClient
    <2>2. c \in Clients
      BY <1>1
    <2>3. /\ clientOf' \in [Views -> Clients \cup {Nobody}]
          /\ viewOf' \in [Clients -> Views \cup {Nobody}]
          /\ browser' \in [Clients -> {"none", "starting", "open"}]
      BY <1>1, <2>1, <2>2 DEF TypeOK
    <2>4. /\ clientOf'[v] = c /\ viewOf'[c] = v
          /\ \A u \in Views : u # v => clientOf'[u] = clientOf[u]
          /\ \A b \in Clients : b # c => viewOf'[b] = viewOf[b]
          /\ \A b \in Clients : b # v => browser'[b] = browser[b]
          /\ c = v => browser'[v] = "starting"
          /\ c = Primary => browser' = browser
      BY <1>1, <2>1, <2>2 DEF TypeOK
    <2>5. \A u \in Views : clientOf[u] # Nobody => clientOf[u] # c
      <3>1. CASE Serving = {}
        BY <3>1 DEF Serving
      <3>2. CASE Serving # {}
        BY <3>2, <1>3 DEF Browsers
      <3>3. QED
        BY <3>1, <3>2
    <2>6. \A u \in Views : clientOf'[u] # Nobody =>
             viewOf'[clientOf'[u]] = u /\ browser'[clientOf'[u]] # "none"
      <3> SUFFICES ASSUME NEW u \in Views, clientOf'[u] # Nobody
                   PROVE  viewOf'[clientOf'[u]] = u
                          /\ browser'[clientOf'[u]] # "none"
        OBVIOUS
      <3>1. CASE u = v
        BY <3>1, <2>4 DEF Browsers
      <3>2. CASE u # v
        <4>1. clientOf'[u] = clientOf[u] /\ clientOf[u] # c
              /\ clientOf[u] \in Clients
          BY <3>2, <2>4, <2>5 DEF TypeOK
        <4>2. viewOf[clientOf[u]] = u /\ browser[clientOf[u]] # "none"
          BY <4>1 DEF TypeOK
        <4>3. QED
          BY <4>1, <4>2, <2>4
      <3>3. QED
        BY <3>1, <3>2
    <2>7. Scrollable'
      BY <1>3 DEF Scrollable
    <2>8. Browsers'
      <3>1. \A u \in Views : clientOf'[u] \in {Nobody, Primary, u}
        BY <2>4 DEF Browsers
      <3>2. \A u \in Views : clientOf'[u] # u => browser'[u] = "none"
        <4> SUFFICES ASSUME NEW u \in Views, clientOf'[u] # u
                     PROVE  browser'[u] = "none"
          OBVIOUS
        <4>1. CASE u = v
          BY <2>4, <1>1, <1>3 DEF Browsers
        <4>2. CASE u # v
          BY <4>2, <2>4, <1>1 DEF Browsers
        <4>3. QED
          BY <4>1, <4>2
      <3>3. \E u \in Views : clientOf'[u] = Primary
        <4>1. CASE Serving = {}
          BY <4>1, <2>4
        <4>2. CASE Serving # {}
          <5>1. PICK u \in Views : clientOf[u] = Primary
            BY <4>2 DEF Serving, Browsers
          <5>2. QED
            BY <5>1, <2>4, <1>1, <1>3
        <4>3. QED
          BY <4>1, <4>2
      <3>4. browser'[Primary] # "none"
        BY <2>4, <1>1 DEF Browsers
      <3>5. \A b \in Clients : loaded'[b] <=> browser'[b] = "open"
        <4> SUFFICES ASSUME NEW b \in Clients
                     PROVE  loaded'[b] <=> browser'[b] = "open"
          OBVIOUS
        <4>1. CASE b = v /\ c = v
          BY <2>4, <1>1, <1>3 DEF Browsers
        <4>2. CASE b # v \/ c = Primary
          BY <4>2, <2>4 DEF Browsers
        <4>3. QED
          BY <4>1, <4>2
      <3>6. QED
        BY <3>1, <3>2, <3>3, <3>4, <3>5 DEF Browsers
    <2>9. Client(v) \in Clients
      BY <1>3, <2>2, <2>4 DEF Client
    <2>10. QED
      BY <2>3, <2>6, <2>7, <2>8, <2>9
  <1>4. QED
    BY <1>2, <1>3

(* What is so of a script stays so while its messages, its promises and    *)
(* the list stay as they are.                                              *)
LEMMA ScriptKept ==
  ASSUME TypeOK, NEW c \in Clients, Script(c),
         loaded'[c] = loaded[c], promises'[c] = promises[c],
         heard'[c] = heard[c], confused'[c] = confused[c],
         up'[c] = up[c], down'[c] = down[c], crashed => crashed',
         SettingOf(c)' <=> SettingOf(c),
         SettingOf(c) => /\ setting'.old = setting.old
                         /\ setting'.promise = setting.promise
                         /\ pages' = pages,
         setting'.at # "send" /\ ~SettingOf(c)' =>
           setting.at # "send" /\ pages' = pages
  PROVE  Script(c)'
  <1>1. Requests(c)' = Requests(c) /\ Results(c)' = Results(c)
    BY DEF Requests, Results
  <1>2. \A i \in DOMAIN down[c] : Told(c, down[c][i])' = Told(c, down[c][i])
    BY DEF Told, Answered
  <1>3. /\ Informed(c)' => Informed(c)
        /\ \A i \in DOMAIN down[c] : Told(c, down[c][i])' = Told(c, down[c][i])
    <2>1. Results(c) \subseteq DOMAIN down[c]
      BY DEF Results
    <2>2. QED
      BY <1>1, <1>2, <2>1 DEF Informed
  <1>4. Unloaded(c)' /\ OnePromise(c)' /\ OneCall(c)' /\ OldFirst(c)'
    BY <1>1 DEF Script, Unloaded, OnePromise, OneCall, OldFirst
  <1>5. Promised(c)'
    BY <1>1 DEF Script, Promised
  <1>6. NothingHeard(c)'
    BY <1>1 DEF Script, NothingHeard, Behind
  <1>7. LastWord(c)'
    <2> SUFFICES ASSUME ~confused[c], setting'.at # "send", ~SettingOf(c)'
                 PROVE  LastWord(c)'
      BY DEF LastWord
    <2>1. GuidsOf(pages)' = GuidsOf(pages)
      OBVIOUS
    <2>2. LastWord(c)
      BY DEF Script
    <2>3. ASSUME Informed(c)', NEW i \in DOMAIN down[c],
                 \A j \in i + 1 .. Len(down[c]) : Told(c, down[c][j])' = {}
          PROVE  Told(c, down[c][i])' \subseteq {GuidsOf(pages)'}
      <3>1. \A j \in i + 1 .. Len(down[c]) : Told(c, down[c][j]) = {}
        <4>1. i + 1 .. Len(down[c]) \subseteq DOMAIN down[c]
          OBVIOUS
        <4>2. QED
          BY <4>1, <1>2, <2>3
      <3>2. QED
        BY <2>1, <2>2, <2>3, <3>1, <1>3 DEF LastWord
    <2>4. QED
      BY <2>1, <2>2, <2>3, <1>2 DEF LastWord
  <1>8. QED
    BY <1>4, <1>5, <1>6, <1>7 DEF Script

(* Hence of all scripts, in a step that concerns none. *)
LEMMA ScriptsKept ==
  ASSUME IInv, UNCHANGED <<pages, setting, scriptVars, up, down, crashed>>
  PROVE  SettingIsIdle' /\ \A c \in Clients : Script(c)'
  <1>1. SettingIsIdle'
    BY DEF IInv, SettingIsIdle
  <1>2. ASSUME NEW c \in Clients
        PROVE  Script(c)'
    <2>1. TypeOK /\ Script(c)
      BY DEF IInv
    <2>2. SettingOf(c)' <=> SettingOf(c)
      BY DEF SettingOf
    <2>3. QED
      BY <2>1, <2>2, ScriptKept DEF scriptVars
  <1>3. QED
    BY <1>1, <1>2

(* A view goes to a page (SetPageID). *)
LEMMA PageSet ==
  ASSUME TypeOK, Scrollable, Browsers, ViewsOnLivePages,
         NEW v \in Views, NEW id \in Nat, SetPageID(v, id),
         UNCHANGED <<kind, pages, setting, loaded>>,
         kind = "pages" => posted \subseteq posted' \cup {PageChange(v, id)}
  PROVE  /\ clientOf' \in [Views -> Clients \cup {Nobody}]
         /\ viewOf' \in [Clients -> Views \cup {Nobody}]
         /\ browser' \in [Clients -> {"none", "starting", "open"}]
         /\ \A u \in Views : clientOf'[u] # Nobody =>
              viewOf'[clientOf'[u]] = u /\ browser'[clientOf'[u]] # "none"
         /\ viewPage' \in [Views -> [id: Nat, index: Nat]]
         /\ Scrollable' /\ Browsers' /\ ViewsOnLivePages'
  <1>1. PageIDs \in Seq(Nat) /\ viewPage \in [Views -> [id: Nat, index: Nat]]
    BY ThePages DEF TypeOK
  <1>2. ContentChanged # PageChange(v, id)
    BY DEF ContentChanged, PageChange
  <1>3. kind = "pages" => PageIDs' = PageIDs
    BY DEF PageIDs
  <1>4. CASE id \in Range(PageIDs)
    <2> DEFINE i == CHOOSE i \in DOMAIN PageIDs : PageIDs[i] = id
    <2>1. i \in DOMAIN PageIDs
      BY <1>4 DEF Range
    <2>2. i - 1 \in Nat
      BY <2>1, SeqFacts
    <2>3. viewPage' = [viewPage EXCEPT ![v] = [id |-> id, index |-> i - 1]]
      BY <1>4 DEF SetPageID
    <2>4. viewPage' \in [Views -> [id: Nat, index: Nat]]
      BY <1>1, <2>2, <2>3
    <2>5. ViewsOnLivePages'
      BY <1>2, <1>3, <1>4, <2>3 DEF ViewsOnLivePages
    <2>6. GetOrCreateClient(v)
      BY <1>4 DEF SetPageID
    <2>7. QED
      BY <2>4, <2>5, <2>6, ClientGiven
  <1>5. CASE id \notin Range(PageIDs)
    <2>1. UNCHANGED <<viewPage, clientOf, viewOf, browser>>
      BY <1>5 DEF SetPageID, clientVars
    <2>2. Scrollable' /\ Browsers'
      BY <2>1 DEF Scrollable, Browsers
    <2>3. ViewsOnLivePages'
      BY <2>1, <1>2, <1>3 DEF ViewsOnLivePages
    <2>4. QED
      BY <2>1, <2>2, <2>3 DEF TypeOK
  <1>6. QED
    BY <1>4, <1>5

-----------------------------------------------------------------------------
(* The UI thread's steps keep the invariant. *)

(* An event runs: the content of the tab changed, or a view's page did. *)
LEMMA RunEventKeeps ==
  ASSUME IInv, RunEvent
  PROVE  IInv'
  <1>1. /\ UNCHANGED <<kind, pages, setting, nextPage, current, enabled,
                       loaded, promises, nextPromise, heard, confused, up,
                       down, cached, rendering, crashed, ops>>
        /\ posted' \subseteq posted
    BY DEF RunEvent, sourceVars, pageVars, scriptVars
  <1>2. SettingIsIdle' /\ \A c \in Clients : Script(c)'
    BY <1>1, ScriptsKept DEF scriptVars
  <1>3. PICK e \in posted :
          /\ posted' = posted \ {e}
          /\ IF e = ContentChanged
             THEN TabContentChanged /\ UNCHANGED clientVars
             ELSE SetPageID(e.view, e.page)
    BY DEF RunEvent
  <1>4. TypeOK /\ Scrollable /\ Browsers /\ ViewsOnLivePages
    BY DEF IInv
  <1> DEFINE Clean ==
         /\ clientOf' \in [Views -> Clients \cup {Nobody}]
         /\ viewOf' \in [Clients -> Views \cup {Nobody}]
         /\ browser' \in [Clients -> {"none", "starting", "open"}]
         /\ \A u \in Views : clientOf'[u] # Nobody =>
              viewOf'[clientOf'[u]] = u /\ browser'[clientOf'[u]] # "none"
         /\ viewPage' \in [Views -> [id: Nat, index: Nat]]
         /\ Scrollable' /\ Browsers' /\ ViewsOnLivePages'
  <1>5. ASSUME e = ContentChanged
        PROVE  Clean
    <2>1. TabContentChanged /\ UNCHANGED <<clientOf, viewOf, browser>>
      BY <1>3, <1>5 DEF clientVars
    <2>2. Scrollable' /\ Browsers'
      BY <1>1, <1>4, <2>1 DEF Scrollable, Browsers
    <2>3. ViewsOnLivePages'
      <3>1. kind = "pages" => PageIDs' = PageIDs /\ PageIDs = IDsOf(pages)
        BY <1>1 DEF PageIDs
      <3>2. QED
        BY <1>1, <1>4, <2>1, <3>1, ContentChangeMoves, ThePages
           DEF ViewsOnLivePages
    <2>4. viewPage' \in [Views -> [id: Nat, index: Nat]]
      BY <1>4, <2>1, ContentChangeMoves
    <2>5. QED
      BY <1>4, <2>1, <2>2, <2>3, <2>4 DEF TypeOK
  <1>6. ASSUME e # ContentChanged
        PROVE  Clean
    <2>1. /\ e \in [what: {"page"}, view: Views, page: Nat]
          /\ SetPageID(e.view, e.page)
      BY <1>3, <1>4, <1>6 DEF TypeOK
    <2>2. e.view \in Views /\ e.page \in Nat /\ e = PageChange(e.view, e.page)
      BY <2>1 DEF PageChange
    <2>3. posted \subseteq posted' \cup {PageChange(e.view, e.page)}
      BY <1>3, <2>2
    <2>4. QED
      BY <1>1, <1>4, <2>1, <2>3, PageSet
  <1>7. Clean
    BY <1>5, <1>6
  <1>8. TypeOK'
    BY <1>1, <1>4, <1>7 DEF TypeOK
  <1>9. QED
    BY <1>2, <1>7, <1>8 DEF IInv

(* The user turns a page. *)
LEMMA TurnPageKeeps ==
  ASSUME IInv, NEW v \in Views, TurnPage(v)
  PROVE  IInv'
  <1>1. /\ UNCHANGED <<kind, pages, setting, nextPage, current, enabled,
                       loaded, promises, nextPromise, heard, confused, up,
                       down, cached, posted, rendering, crashed>>
        /\ ops' = ops + 1 /\ ops < MaxOps
    BY DEF TurnPage, sourceVars, pageVars, scriptVars
  <1>2. SettingIsIdle' /\ \A c \in Clients : Script(c)'
    BY <1>1, ScriptsKept DEF scriptVars
  <1>3. PICK id \in Range(PageIDs) : SetPageID(v, id)
    BY DEF TurnPage
  <1>4. TypeOK /\ Scrollable /\ Browsers /\ ViewsOnLivePages
    BY DEF IInv
  <1>5. id \in Nat
    BY <1>4, ThePages DEF Range
  <1>6. /\ clientOf' \in [Views -> Clients \cup {Nobody}]
        /\ viewOf' \in [Clients -> Views \cup {Nobody}]
        /\ browser' \in [Clients -> {"none", "starting", "open"}]
        /\ \A u \in Views : clientOf'[u] # Nobody =>
             viewOf'[clientOf'[u]] = u /\ browser'[clientOf'[u]] # "none"
        /\ viewPage' \in [Views -> [id: Nat, index: Nat]]
        /\ Scrollable' /\ Browsers' /\ ViewsOnLivePages'
    BY <1>1, <1>3, <1>4, <1>5, PageSet
  <1>7. ops' \in 0 .. MaxOps
    BY <1>1, <1>4, ChromiumAssumption DEF TypeOK
  <1>8. TypeOK'
    BY <1>1, <1>4, <1>6, <1>7 DEF TypeOK
  <1>9. QED
    BY <1>2, <1>6, <1>8 DEF IInv

(* A view is rendered. *)
LEMMA RenderPageKeeps ==
  ASSUME IInv, NEW v \in Views, RenderPage(v)
  PROVE  IInv'
  <1>1. /\ UNCHANGED <<kind, pages, setting, nextPage, current, enabled,
                       loaded, promises, nextPromise, heard, confused, up,
                       down, viewPage, posted, crashed, ops>>
        /\ GetOrCreateClient(v)
    BY DEF RenderPage, sourceVars, pageVars, scriptVars
  <1>2. SettingIsIdle' /\ \A c \in Clients : Script(c)'
    BY <1>1, ScriptsKept DEF scriptVars
  <1>3. TypeOK /\ Scrollable /\ Browsers /\ ViewsOnLivePages
    BY DEF IInv
  <1>4. /\ clientOf' \in [Views -> Clients \cup {Nobody}]
        /\ viewOf' \in [Clients -> Views \cup {Nobody}]
        /\ browser' \in [Clients -> {"none", "starting", "open"}]
        /\ \A u \in Views : clientOf'[u] # Nobody =>
             viewOf'[clientOf'[u]] = u /\ browser'[clientOf'[u]] # "none"
        /\ Scrollable' /\ Browsers' /\ Client(v) \in Clients
    BY <1>1, <1>3, ClientGiven
  <1> DEFINE id == ShownPage(v)
  <1>5. id \in Nat
    <2>1. viewPage[v] \in [id: Nat, index: Nat] /\ PageIDs \in Seq(Nat)
      BY <1>3, ThePages DEF TypeOK
    <2>2. QED
      BY <2>1 DEF ShownPage
  <1>6. cached' \subseteq Nat
    BY <1>3, <1>5 DEF RenderPage, TypeOK
  <1>7. rendering' = NotDrawing \/ rendering' \in [client: Clients, page: Nat]
    BY <1>4, <1>5 DEF RenderPage
  <1>8. ViewsOnLivePages'
    <2>1. kind = "pages" => PageIDs' = PageIDs
      BY <1>1 DEF PageIDs
    <2>2. QED
      BY <1>1, <1>3, <2>1 DEF ViewsOnLivePages
  <1>9. TypeOK'
    BY <1>1, <1>3, <1>4, <1>6, <1>7 DEF TypeOK
  <1>10. QED
    BY <1>2, <1>4, <1>8, <1>9 DEF IInv

(* While a view is rendered, its client goes to the page (SetCurrentPage). *)
LEMMA SetCurrentPageKeeps ==
  ASSUME IInv, SetCurrentPage
  PROVE  IInv'
  <1>1. /\ UNCHANGED <<kind, pages, setting, nextPage, enabled, loaded,
                       promises, nextPromise, heard, confused, up, down,
                       cached, posted, crashed, ops>>
        /\ rendering # NotDrawing /\ rendering' = NotDrawing
        /\ current' = [current EXCEPT ![rendering.client] = rendering.page]
    BY DEF SetCurrentPage, sourceVars, scriptVars
  <1>2. SettingIsIdle' /\ \A c \in Clients : Script(c)'
    BY <1>1, ScriptsKept DEF scriptVars
  <1>3. TypeOK /\ Scrollable /\ Browsers /\ ViewsOnLivePages
    BY DEF IInv
  <1>4. rendering.client \in Clients /\ rendering.page \in Nat
    BY <1>1, <1>3 DEF TypeOK
  <1>5. current' \in [Clients -> Nat]
    BY <1>1, <1>3 DEF TypeOK
  <1> DEFINE v == viewOf[rendering.client]
             page == rendering.page
             Clean ==
         /\ clientOf' \in [Views -> Clients \cup {Nobody}]
         /\ viewOf' \in [Clients -> Views \cup {Nobody}]
         /\ browser' \in [Clients -> {"none", "starting", "open"}]
         /\ \A u \in Views : clientOf'[u] # Nobody =>
              viewOf'[clientOf'[u]] = u /\ browser'[clientOf'[u]] # "none"
         /\ viewPage' \in [Views -> [id: Nat, index: Nat]]
         /\ Scrollable' /\ Browsers' /\ ViewsOnLivePages'
  <1>6. ASSUME current[rendering.client] # page, v # Nobody, kind = "pages"
        PROVE  Clean
    <2>1. v \in Views /\ SetPageID(v, page)
      BY <1>3, <1>6 DEF SetCurrentPage, TypeOK
    <2>2. QED
      BY <1>1, <1>3, <1>4, <2>1, PageSet
  <1>7. ASSUME \/ current[rendering.client] = page
               \/ v = Nobody \/ kind # "pages"
        PROVE  Clean
    <2>1. UNCHANGED <<viewPage, clientOf, viewOf, browser>>
      BY <1>7 DEF SetCurrentPage, clientVars
    <2>2. Scrollable' /\ Browsers'
      BY <1>1, <1>3, <2>1 DEF Scrollable, Browsers
    <2>3. ViewsOnLivePages'
      <3>1. kind = "pages" => PageIDs' = PageIDs
        BY <1>1 DEF PageIDs
      <3>2. QED
        BY <1>1, <1>3, <2>1, <3>1 DEF ViewsOnLivePages
    <2>4. QED
      BY <1>3, <2>1, <2>2, <2>3 DEF TypeOK
  <1>8. Clean
    BY <1>6, <1>7
  <1>9. TypeOK'
    BY <1>1, <1>3, <1>5, <1>8 DEF TypeOK
  <1>10. QED
    BY <1>2, <1>8, <1>9 DEF IInv

-----------------------------------------------------------------------------
(* The script's steps: it calls, and takes messages. *)

(* The types of what a script has and gets. *)
LEMMA ScriptTypes ==
  ASSUME TypeOK, NEW c \in Clients
  PROVE  /\ up[c] \in Seq(Requested) /\ down[c] \in Seq(Sent)
         /\ promises[c] \in SUBSET Made /\ nextPromise[c] \in Nat
         /\ heard[c] \in {Nobody} \cup Seq(Guids)
         /\ GuidsOf(pages) \in Seq(Guids)
         /\ c # Nobody /\ Nobody \notin Seq(Guids)
  BY ThePages, ChromiumAssumption DEF TypeOK, Requested, Sent, Made, Clients

(* A script with no call under way asks for something: one promise, one    *)
(* request.                                                                *)
LEMMA Asks ==
  ASSUME TypeOK, NEW c \in Clients, NEW what \in Calls, NEW arg \in Seq(Guids),
         NEW done, promises[c] \subseteq done,
         AsyncRequest(c, what, arg, done),
         setting' = setting, loaded'[c], OldFirst(c),
         ~confused'[c] => /\ Requests(c) = {} /\ Results(c)' = {}
                          /\ ~SettingOf(c) /\ ~Behind(c)
  PROVE  /\ promises' \in [Clients -> SUBSET Made]
         /\ nextPromise' \in [Clients -> Nat]
         /\ up' \in [Clients -> Seq(Requested)]
         /\ \A b \in Clients : b # c =>
              promises'[b] = promises[b] /\ up'[b] = up[b]
         /\ Unloaded(c)' /\ OnePromise(c)' /\ OneCall(c)' /\ Promised(c)'
         /\ OldFirst(c)' /\ NothingHeard(c)'
  <1> DEFINE n == nextPromise[c]
             m == Request(what, arg, n)
             p == [n |-> n, what |-> what, arg |-> arg]
  <1>1. up[c] \in Seq(Requested) /\ n \in Nat /\ promises[c] \in SUBSET Made
    BY ScriptTypes
  <1>2. m \in Requested /\ p \in Made /\ Pending(m) /\ ~m.old
    BY <1>1 DEF Request, Requested, Made, Pending, Calls
  <1>3. /\ promises'[c] = {p} /\ up'[c] = Append(up[c], m)
        /\ \A b \in Clients : b # c =>
             promises'[b] = promises[b] /\ up'[b] = up[b]
    BY DEF AsyncRequest, TypeOK
  <1>4. /\ promises' \in [Clients -> SUBSET Made]
        /\ nextPromise' \in [Clients -> Nat]
    BY <1>1 DEF AsyncRequest, TypeOK, Made
  <1>5. up' \in [Clients -> Seq(Requested)]
    <2>1. Append(up[c], m) \in Seq(Requested)
      BY <1>1, <1>2
    <2>2. up \in [Clients -> Seq(Requested)]
      BY DEF TypeOK, Requested
    <2>3. QED
      BY <2>1, <2>2 DEF AsyncRequest
  <1>6. /\ Len(up[c]) \in Nat
        /\ DOMAIN up'[c] = 1 .. Len(up[c]) + 1
        /\ DOMAIN up[c] = 1 .. Len(up[c])
        /\ up'[c][Len(up[c]) + 1] = m
        /\ \A i \in DOMAIN up[c] : up'[c][i] = up[c][i]
    BY <1>3
  <1>7. Unloaded(c)' /\ OnePromise(c)'
    BY <1>3 DEF Unloaded, OnePromise
  <1>8. OldFirst(c)'
    <2> SUFFICES ASSUME NEW i \in DOMAIN up'[c], NEW j \in DOMAIN up'[c],
                        up'[c][i].old, Pending(up'[c][j])
                 PROVE  i < j
      BY DEF OldFirst
    <2>1. i \in DOMAIN up[c]
      BY <1>2, <1>6
    <2>2. CASE j \in DOMAIN up[c]
      BY <1>6, <2>1 DEF OldFirst
    <2>3. CASE j \notin DOMAIN up[c]
      BY <1>6, <2>1, <2>3
    <2>4. QED
      BY <2>2, <2>3
  <1>9. ASSUME ~confused'[c]
        PROVE  /\ Requests(c)' = {Len(up[c]) + 1} /\ Results(c)' = {}
               /\ ~SettingOf(c)' /\ ~Behind(c)'
    <2>1. SettingOf(c)' = SettingOf(c)
      BY DEF SettingOf
    <2>2. Requests(c)' = {i \in DOMAIN up'[c] : Pending(up'[c][i])}
      BY DEF Requests
    <2>3. \A i \in DOMAIN up[c] : ~Pending(up[c][i]) /\ ~up[c][i].old
      BY <1>9 DEF Requests, Behind
    <2>4. Requests(c)' = {Len(up[c]) + 1}
      BY <1>2, <1>6, <2>2, <2>3
    <2>5. ~Behind(c)'
      BY <1>2, <1>6, <1>9, <2>1 DEF Behind
    <2>6. QED
      BY <1>9, <2>1, <2>4, <2>5
  <1>10. OneCall(c)' /\ NothingHeard(c)'
    BY <1>9 DEF OneCall, NothingHeard
  <1>11. Promised(c)'
    BY <1>3, <1>9 DEF Promised, Request
  <1>12. QED
    BY <1>3, <1>4, <1>5, <1>7, <1>8, <1>10, <1>11

(* A script with nothing to wait for sets a list of pages, or asks for     *)
(* another page.                                                           *)
LEMMA CallKeeps ==
  ASSUME IInv, NEW c \in Clients, Call(c)
  PROVE  IInv'
  <1>1. /\ UNCHANGED <<kind, pages, setting, nextPage, clientOf, viewOf,
                       browser, current, enabled, loaded, heard, confused,
                       down, viewPage, cached, posted, rendering, crashed>>
        /\ ops' = ops + 1 /\ ops < MaxOps
        /\ heard[c] # Nobody /\ promises[c] = {}
    BY DEF Call, sourceVars, clientVars, pageVars, viewVars
  <1>2. PICK what \in Calls,
             arg \in Seq(Guids) : AsyncRequest(c, what, arg, {})
    <2>1. CASE \E l \in Lists : AsyncRequest(c, "set", l, {})
      BY <2>1, ChromiumAssumption DEF Calls
    <2>2. CASE \E g \in Range(heard[c]), turn \in {"turn", "turnTo"} :
                 AsyncRequest(c, turn, <<g>>, {})
      <3>1. heard[c] \in Seq(Guids)
        BY <1>1, ScriptTypes DEF IInv
      <3>2. \A g \in Range(heard[c]) : <<g>> \in Seq(Guids)
        BY <3>1 DEF Range
      <3>3. QED
        BY <2>2, <3>2 DEF Calls
    <2>3. QED
      BY <2>1, <2>2 DEF Call
  <1>3. TypeOK /\ Script(c) /\ loaded[c]
    BY <1>1 DEF IInv, Script, Unloaded
  <1>4. ~confused[c] => /\ Requests(c) = {} /\ Results(c) = {}
                        /\ ~SettingOf(c) /\ ~Behind(c)
    <2> SUFFICES ASSUME ~confused[c]
                 PROVE  /\ Requests(c) = {} /\ Results(c) = {}
                        /\ ~SettingOf(c) /\ ~Behind(c)
      OBVIOUS
    <2>1. ~Behind(c)
      BY <1>1, <1>3 DEF Script, NothingHeard
    <2>2. Requests(c) = {} /\ Results(c) = {}
          /\ ~(SettingOf(c) /\ ~setting.old)
      BY <1>1, <1>3 DEF Script, Promised
    <2>3. QED
      BY <2>1, <2>2 DEF Behind
  <1>5. Results(c)' = Results(c)
    BY <1>1 DEF Results
  <1>6. /\ promises' \in [Clients -> SUBSET Made]
        /\ nextPromise' \in [Clients -> Nat]
        /\ up' \in [Clients -> Seq(Requested)]
        /\ \A b \in Clients : b # c =>
             promises'[b] = promises[b] /\ up'[b] = up[b]
        /\ Unloaded(c)' /\ OnePromise(c)' /\ OneCall(c)' /\ Promised(c)'
        /\ OldFirst(c)' /\ NothingHeard(c)'
    BY <1>1, <1>2, <1>3, <1>4, <1>5, Asks DEF Script
  <1>7. LastWord(c)'
    <2> SUFFICES ASSUME ~confused[c], setting.at # "send", ~SettingOf(c)
                 PROVE  LastWord(c)'
      BY <1>1 DEF LastWord, SettingOf
    <2>1. LastWord(c) /\ Informed(c) /\ down[c] \in Seq(Sent)
      BY <1>1, <1>3, ScriptTypes DEF Script, Informed
    <2>2. \A i \in DOMAIN down[c] : down[c][i] \in Sent /\ ~Pending(down[c][i])
      BY <1>4, <2>1 DEF Results
    <2>3. \A i \in DOMAIN down[c] : Told(c, down[c][i])' = Told(c, down[c][i])
      BY <1>1, <2>2 DEF Told, Pending, Sent
    <2>4. \A i \in DOMAIN down[c] :
            i + 1 .. Len(down[c]) \subseteq DOMAIN down[c]
      OBVIOUS
    <2>5. GuidsOf(pages)' = GuidsOf(pages)
      BY <1>1
    <2>6. ASSUME NEW i \in DOMAIN down[c],
                 \A j \in i + 1 .. Len(down[c]) : Told(c, down[c][j])' = {}
          PROVE  Told(c, down[c][i])' \subseteq {GuidsOf(pages)'}
      BY <2>1, <2>3, <2>4, <2>5, <2>6 DEF LastWord
    <2>7. (\A i \in DOMAIN down[c] : Told(c, down[c][i])' = {})
             => heard[c] \in {Nobody, GuidsOf(pages)}
      BY <2>1, <2>3 DEF LastWord
    <2>8. QED
      BY <1>1, <2>5, <2>6, <2>7 DEF LastWord
  <1>8. Script(c)'
    BY <1>6, <1>7 DEF Script
  <1>9. ASSUME NEW b \in Clients, b # c
        PROVE  Script(b)'
    <2>1. Script(b) /\ (SettingOf(b)' <=> SettingOf(b))
      BY <1>1 DEF IInv, SettingOf
    <2>2. QED
      BY <1>1, <1>3, <1>6, <1>9, <2>1, ScriptKept
  <1>10. ops' \in 0 .. MaxOps
    BY <1>1, <1>3, ChromiumAssumption DEF TypeOK
  <1>11. TypeOK'
    BY <1>1, <1>3, <1>6, <1>10 DEF TypeOK, Made, Requested
  <1>12. Scrollable' /\ Browsers' /\ SettingIsIdle'
    BY <1>1 DEF IInv, Scrollable, Browsers, SettingIsIdle
  <1>13. ViewsOnLivePages'
    BY <1>1 DEF IInv, ViewsOnLivePages, PageIDs
  <1>14. QED
    BY <1>8, <1>9, <1>11, <1>12, <1>13 DEF IInv

(* The script of c takes the first message. *)
LEMMA Took ==
  ASSUME TypeOK, NEW c \in Clients, down[c] # <<>>, down'[c] = Tail(down[c])
  PROVE  /\ down'[c] \in Seq(Sent) /\ Head(down[c]) \in Sent
         /\ Len(down[c]) \in Nat /\ Len(down'[c]) = Len(down[c]) - 1
         /\ DOMAIN down[c] = 1 .. Len(down[c])
         /\ DOMAIN down'[c] = 1 .. Len(down[c]) - 1
         /\ 1 \in DOMAIN down[c] /\ down[c][1] = Head(down[c])
         /\ \A i \in DOMAIN down'[c] :
              i + 1 \in DOMAIN down[c] /\ down'[c][i] = down[c][i + 1]
         /\ \A i \in DOMAIN down'[c] :
              i \in Results(c)' <=> i + 1 \in Results(c)
         /\ Results(c)' \subseteq DOMAIN down'[c]
  <1>1. down[c] \in Seq(Sent)
    BY ScriptTypes
  <1>2. /\ down'[c] \in Seq(Sent) /\ Len(down'[c]) = Len(down[c]) - 1
        /\ Head(down[c]) = down[c][1] /\ 1 \in DOMAIN down[c]
        /\ Head(down[c]) \in Sent /\ Len(down[c]) \in Nat
        /\ DOMAIN down'[c] = 1 .. Len(down[c]) - 1
        /\ DOMAIN down[c] = 1 .. Len(down[c])
        /\ \A i \in DOMAIN down'[c] :
              i + 1 \in DOMAIN down[c] /\ down'[c][i] = down[c][i + 1]
    BY <1>1
  <1>3. QED
    BY <1>2 DEF Results

(* The last message that tells a list is right when the first has been     *)
(* taken.                                                                  *)
LEMMA LastWordTaken ==
  ASSUME TypeOK, NEW c \in Clients, down[c] # <<>>, down'[c] = Tail(down[c]),
         LastWord(c), setting' = setting, pages' = pages, ~confused[c],
         Informed(c)' => Informed(c),
         \A i \in DOMAIN down'[c] :
           Told(c, down[c][i])' = Told(c, down[c][i + 1]),
         \/ Told(c, Head(down[c])) = {} /\ heard'[c] = heard[c]
         \/ heard'[c] = Nobody
         \/ Informed(c) /\ heard'[c] \in Told(c, Head(down[c]))
  PROVE  LastWord(c)'
  <1> SUFFICES ASSUME setting.at # "send", ~SettingOf(c)
               PROVE  LastWord(c)'
    BY DEF LastWord, SettingOf
  <1>1. /\ Len(down[c]) \in Nat /\ Len(down'[c]) = Len(down[c]) - 1
        /\ DOMAIN down[c] = 1 .. Len(down[c])
        /\ DOMAIN down'[c] = 1 .. Len(down[c]) - 1
        /\ 1 \in DOMAIN down[c] /\ down[c][1] = Head(down[c])
    OBVIOUS
  <1>2. GuidsOf(pages)' = GuidsOf(pages)
    OBVIOUS
  <1>3. ASSUME Informed(c)', NEW i \in DOMAIN down'[c],
               \A j \in i + 1 .. Len(down'[c]) : Told(c, down[c][j])' = {}
        PROVE  Told(c, down[c][i])' \subseteq {GuidsOf(pages)}
    <2>1. i + 1 \in DOMAIN down[c] /\ Informed(c)
      BY <1>3
    <2>2. ASSUME NEW k \in i + 2 .. Len(down[c])
          PROVE  Told(c, down[c][k]) = {}
      <3>1. /\ k - 1 \in i + 1 .. Len(down'[c]) /\ k - 1 \in DOMAIN down'[c]
            /\ (k - 1) + 1 = k
        OBVIOUS
      <3>2. QED
        BY <1>3, <3>1
    <2>3. (i + 1) + 1 = i + 2
      OBVIOUS
    <2>4. Told(c, down[c][i + 1]) \subseteq {GuidsOf(pages)}
      BY <2>1, <2>2, <2>3 DEF LastWord
    <2>5. QED
      BY <2>4
  <1>4. ASSUME \A i \in DOMAIN down'[c] : Told(c, down[c][i])' = {}
        PROVE  heard'[c] \in {Nobody, GuidsOf(pages)}
    <2>1. ASSUME NEW k \in 2 .. Len(down[c])
          PROVE  Told(c, down[c][k]) = {}
      <3>1. k - 1 \in DOMAIN down'[c] /\ (k - 1) + 1 = k
        OBVIOUS
      <3>2. QED
        BY <1>4, <3>1
    <2>2. CASE Told(c, Head(down[c])) = {} /\ heard'[c] = heard[c]
      <3>1. ASSUME NEW i \in DOMAIN down[c]
            PROVE  Told(c, down[c][i]) = {}
        <4>1. i = 1 \/ i \in 2 .. Len(down[c])
          BY <1>1
        <4>2. QED
          BY <2>1, <2>2, <4>1
      <3>2. QED
        BY <2>2, <3>1 DEF LastWord
    <2>3. CASE Informed(c) /\ heard'[c] \in Told(c, Head(down[c]))
      <3>1. 1 + 1 .. Len(down[c]) = 2 .. Len(down[c])
        OBVIOUS
      <3>2. Told(c, down[c][1]) \subseteq {GuidsOf(pages)}
        BY <1>1, <2>1, <2>3, <3>1 DEF LastWord
      <3>3. QED
        BY <2>3, <3>2
    <2>4. QED
      BY <2>2, <2>3
  <1>5. QED
    BY <1>2, <1>3, <1>4 DEF LastWord

(* An answer comes to a script, which may ask for something else on it. *)
LEMMA ReactKeeps ==
  ASSUME IInv, NEW c \in Clients, down[c] # <<>>, down'[c] = Tail(down[c]),
         NEW p \in promises[c], p.n = Head(down[c]).promise,
         Head(down[c]).what = "result", React(c, p, Head(down[c])),
         setting' = setting, pages' = pages, loaded' = loaded,
         crashed' = crashed
  PROVE  /\ promises' \in [Clients -> SUBSET Made]
         /\ nextPromise' \in [Clients -> Nat]
         /\ up' \in [Clients -> Seq(Requested)]
         /\ heard' \in [Clients -> {Nobody} \cup Seq(Guids)]
         /\ confused' \in [Clients -> BOOLEAN]
         /\ \A b \in Clients : b # c =>
              /\ promises'[b] = promises[b] /\ up'[b] = up[b]
              /\ heard'[b] = heard[b] /\ confused'[b] = confused[b]
         /\ Script(c)'
  <1> DEFINE m == Head(down[c])
  <1>1. /\ TypeOK /\ Script(c) /\ OnePromise(c) /\ promises[c] = {p}
    BY DEF IInv, Script, OnePromise
  <1>2. /\ down[c] \in Seq(Sent) /\ m \in Sent /\ p \in Made
        /\ up[c] \in Seq(Requested) /\ nextPromise[c] \in Nat
        /\ Nobody \notin Seq(Guids)
    BY <1>1, ScriptTypes
  <1>3. /\ heard' = [heard EXCEPT ![c] =
              IF p.what = "get" /\ m.ok THEN m.list
              ELSE IF p.what = "set" /\ m.ok THEN p.arg ELSE @]
        /\ confused' = [confused EXCEPT ![c] = @ \/ m.old]
    BY DEF React
  <1>4. /\ heard' \in [Clients -> {Nobody} \cup Seq(Guids)]
        /\ confused' \in [Clients -> BOOLEAN]
    BY <1>1, <1>2, <1>3 DEF TypeOK, Made, Sent
  <1>5. /\ confused'[c] = (confused[c] \/ m.old)
        /\ heard'[c] = IF p.what = "get" /\ m.ok THEN m.list
                       ELSE IF p.what = "set" /\ m.ok THEN p.arg ELSE heard[c]
        /\ \A b \in Clients : b # c =>
             heard'[b] = heard[b] /\ confused'[b] = confused[b]
    BY <1>1, <1>3 DEF TypeOK
  <1>6. loaded'[c]
    BY <1>1 DEF Script, Unloaded
  <1>7. ASSUME ~confused'[c]
        PROVE  /\ Results(c) = {1} /\ Results(c)' = {}
               /\ Requests(c) = {} /\ ~SettingOf(c) /\ ~Behind(c)
               /\ ~confused[c] /\ ~m.old
    <2>1. ~confused[c] /\ ~m.old /\ Pending(m)
      BY <1>5, <1>7 DEF Pending
    <2>2. 1 \in Results(c)
      BY <1>1, <2>1, Took DEF Results
    <2>3. Results(c) = {1} /\ Requests(c) = {}
          /\ ~(SettingOf(c) /\ ~setting.old)
      BY <1>1, <2>1, <2>2 DEF Script, OneCall
    <2>4. ~Behind(c)
      BY <1>1, <2>1, <2>3 DEF Script, NothingHeard
    <2>5. ~SettingOf(c)
      BY <2>3, <2>4 DEF Behind
    <2>6. Results(c)' = {}
      BY <1>1, <2>3, Took
    <2>7. QED
      BY <2>1, <2>3, <2>4, <2>5, <2>6
  <1>8. /\ promises' \in [Clients -> SUBSET Made]
        /\ nextPromise' \in [Clients -> Nat]
        /\ up' \in [Clients -> Seq(Requested)]
        /\ \A b \in Clients : b # c =>
             promises'[b] = promises[b] /\ up'[b] = up[b]
        /\ Unloaded(c)' /\ OnePromise(c)' /\ OneCall(c)' /\ Promised(c)'
        /\ OldFirst(c)' /\ NothingHeard(c)'
    <2>1. CASE Then(p, m) # {}
      <3>1. PICK r \in Then(p, m) : AsyncRequest(c, r.what, r.arg, {p})
        BY <2>1 DEF React
      <3>2. r.what \in {"get", "set"} /\ r.arg \in {<<>>, FirstList}
        BY DEF Then
      <3>3. FirstList \in Seq(Guids) /\ <<>> \in Seq(Guids)
        BY ChromiumAssumption
      <3>4. r.what \in Calls /\ r.arg \in Seq(Guids)
        BY <3>2, <3>3 DEF Calls
      <3>5. QED
        BY <1>1, <1>6, <1>7, <3>1, <3>4, Asks DEF Script
    <2>2. CASE Then(p, m) = {}
      <3>1. /\ promises' = [promises EXCEPT ![c] = @ \ {p}]
            /\ nextPromise' = nextPromise /\ up' = up
        BY <2>2 DEF React
      <3>2. /\ promises' \in [Clients -> SUBSET Made]
            /\ nextPromise' \in [Clients -> Nat]
            /\ up' \in [Clients -> Seq(Requested)]
        BY <1>1, <3>1 DEF TypeOK, Made, Requested
      <3>3. ~confused'[c] => Requests(c)' = {} /\ ~SettingOf(c)' /\ ~Behind(c)'
        BY <1>7, <3>1 DEF Requests, SettingOf, Behind
      <3>4. Unloaded(c)' /\ OnePromise(c)' /\ OldFirst(c)'
        BY <1>1, <3>1 DEF Script, Unloaded, OnePromise, OldFirst
      <3>5. OneCall(c)' /\ NothingHeard(c)' /\ Promised(c)'
        BY <1>7, <3>3 DEF OneCall, NothingHeard, Promised
      <3>6. QED
        BY <3>1, <3>2, <3>4, <3>5
    <2>3. QED
      BY <2>1, <2>2
  <1>9. LastWord(c)'
    <2> SUFFICES ASSUME ~confused'[c]
                 PROVE  LastWord(c)'
      BY DEF LastWord
    <2>1. /\ Results(c) = {1} /\ Results(c)' = {} /\ ~confused[c] /\ ~m.old
      BY <1>7
    <2>2. ASSUME NEW i \in DOMAIN down'[c]
          PROVE  Told(c, down[c][i])' = Told(c, down[c][i + 1])
      <3>1. /\ i + 1 \in DOMAIN down[c] /\ down'[c][i] = down[c][i + 1]
            /\ i # 0 /\ i + 1 # 1
        BY <1>1, Took
      <3>2. down[c][i + 1] \in Sent /\ ~Pending(down[c][i + 1])
        BY <1>2, <2>1 DEF Results
      <3>3. QED
        BY <3>1, <3>2 DEF Told, Pending, Sent
    <2>3. Told(c, m) = IF ~m.ok \/ p.what \notin {"get", "set"} THEN {}
                       ELSE {IF p.what = "get" THEN m.list ELSE p.arg}
      BY <1>1, <2>1 DEF Told, Answered
    <2>4. \/ Told(c, m) = {} /\ heard'[c] = heard[c]
          \/ heard'[c] \in Told(c, m)
      BY <1>5, <2>3
    <2>5. Informed(c) <=> heard[c] # Nobody \/ Told(c, m) # {}
      BY <2>1 DEF Informed
    <2>6. Informed(c)' <=> heard'[c] # Nobody
      BY <2>1 DEF Informed
    <2>7. Informed(c)' => Informed(c)
      BY <2>4, <2>5, <2>6
    <2>8. \/ Told(c, m) = {} /\ heard'[c] = heard[c]
          \/ Informed(c) /\ heard'[c] \in Told(c, m)
      BY <2>4, <2>5
    <2>9. LastWord(c)
      BY <1>1 DEF Script
    <2>10. QED
      BY <1>1, <2>1, <2>2, <2>7, <2>8, <2>9, LastWordTaken
  <1>10. Script(c)'
    BY <1>8, <1>9 DEF Script
  <1>11. QED
    BY <1>4, <1>5, <1>8, <1>10

(* The script takes the first message, whatever it is. *)
LEMMA ReceiveKeeps ==
  ASSUME IInv, NEW c \in Clients, Receive(c)
  PROVE  IInv'
  <1> DEFINE m == Head(down[c])
             mine == {p \in promises[c] : p.n = m.promise}
  <1>1. /\ UNCHANGED <<kind, pages, setting, nextPage, clientOf, viewOf,
                       browser, current, enabled, loaded, viewPage, cached,
                       posted, rendering, crashed, ops>>
        /\ down[c] # <<>> /\ down' = [down EXCEPT ![c] = Tail(@)]
    BY DEF Receive, sourceVars, clientVars, pageVars, viewVars
  <1>2. TypeOK /\ Script(c)
    BY DEF IInv
  <1>3. /\ down'[c] = Tail(down[c])
        /\ \A b \in Clients : b # c => down'[b] = down[b]
    BY <1>1, <1>2 DEF TypeOK
  <1>4. down' \in [Clients -> Seq(Sent)]
    <2>1. Tail(down[c]) \in Seq(Sent)
      BY <1>1, <1>2, <1>3, Took
    <2>2. QED
      BY <1>1, <1>2, <2>1 DEF TypeOK, Sent
  <1> DEFINE Fine ==
         /\ promises' \in [Clients -> SUBSET Made]
         /\ nextPromise' \in [Clients -> Nat]
         /\ up' \in [Clients -> Seq(Requested)]
         /\ heard' \in [Clients -> {Nobody} \cup Seq(Guids)]
         /\ confused' \in [Clients -> BOOLEAN]
         /\ \A b \in Clients : b # c =>
              /\ promises'[b] = promises[b] /\ up'[b] = up[b]
              /\ heard'[b] = heard[b] /\ confused'[b] = confused[b]
         /\ Script(c)'
  <1>5. ASSUME m.what = "result", mine # {}
        PROVE  Fine
    <2>1. PICK p \in mine : React(c, p, m)
      BY <1>5 DEF Receive
    <2>2. QED
      BY <1>1, <1>3, <1>5, <2>1, ReactKeeps
  <1>6. ASSUME ~(m.what = "result" /\ mine # {})
        PROVE  Fine
    <2>1. /\ heard' = IF m.what = "pagesChanged" /\ heard[c] # Nobody
                      THEN [heard EXCEPT ![c] = m.list] ELSE heard
          /\ UNCHANGED <<promises, nextPromise, confused, up>>
      BY <1>6 DEF Receive
    <2>2. m \in Sent /\ down[c] \in Seq(Sent)
      BY <1>1, <1>2, ScriptTypes
    <2>3. /\ heard' \in [Clients -> {Nobody} \cup Seq(Guids)]
          /\ heard'[c] = IF m.what = "pagesChanged" /\ heard[c] # Nobody
                         THEN m.list ELSE heard[c]
          /\ \A b \in Clients : b # c => heard'[b] = heard[b]
      BY <1>2, <2>1, <2>2 DEF TypeOK, Sent
    <2>4. /\ promises' \in [Clients -> SUBSET Made]
          /\ nextPromise' \in [Clients -> Nat]
          /\ up' \in [Clients -> Seq(Requested)]
          /\ confused' \in [Clients -> BOOLEAN]
      BY <1>2, <2>1 DEF TypeOK, Made, Requested
    <2>5. /\ Requests(c)' = Requests(c) /\ (SettingOf(c)' <=> SettingOf(c))
          /\ (Behind(c)' <=> Behind(c)) /\ GuidsOf(pages)' = GuidsOf(pages)
      BY <1>1, <2>1 DEF Requests, SettingOf, Behind
    <2>6. Unloaded(c)' /\ OnePromise(c)' /\ OldFirst(c)'
      <3>1. Unloaded(c)'
        BY <1>1, <1>2, <2>1, <2>5 DEF Script, Unloaded
      <3>2. QED
        BY <1>2, <2>1, <3>1 DEF Script, OnePromise, OldFirst
    <2>7. OneCall(c)'
      <3> SUFFICES ASSUME ~confused[c] PROVE OneCall(c)'
        BY <2>1 DEF OneCall
      <3>1. OneCall(c)
        BY <1>2 DEF Script
      <3>2. \A i, j \in Results(c)' : i = j
        <4> SUFFICES ASSUME NEW i \in Results(c)',
                            NEW j \in Results(c)'
                     PROVE  i = j
          OBVIOUS
        <4>1. i \in DOMAIN down'[c] /\ j \in DOMAIN down'[c]
          BY <1>1, <1>2, <1>3, Took
        <4>2. i + 1 \in Results(c) /\ j + 1 \in Results(c) /\ i \in Nat
              /\ j \in Nat
          BY <1>2, <1>3, <4>1, Took
        <4>3. QED
          BY <3>1, <4>2 DEF OneCall
      <3>3. Results(c) = {} => Results(c)' = {}
        BY <1>1, <1>2, <1>3, Took
      <3>4. QED
        BY <1>1, <2>1, <2>5, <3>1, <3>2, <3>3 DEF OneCall
    <2>8. Promised(c)'
      <3> SUFFICES ASSUME ~confused[c] PROVE Promised(c)'
        BY <2>1 DEF Promised
      <3>1. Promised(c)
        BY <1>2 DEF Script
      <3>2. \A i \in Results(c)' : \E p \in promises[c] :
              p.n = down'[c][i].promise
        BY <1>1, <1>2, <1>3, <3>1, Took DEF Promised
      <3>3. QED
        BY <1>1, <2>1, <2>5, <3>1, <3>2 DEF Promised
    <2>9. NothingHeard(c)'
      <3>1. Results(c) = {} => Results(c)' = {}
        BY <1>1, <1>2, <1>3, Took
      <3>2. QED
        BY <1>2, <2>1, <2>5, <3>1 DEF Script, NothingHeard
    <2>10. LastWord(c)'
      <3> SUFFICES ASSUME ~confused[c] PROVE LastWord(c)'
        BY <2>1 DEF LastWord
      <3>1. \A i \in DOMAIN down'[c] :
              Told(c, down[c][i])' = Told(c, down[c][i + 1])
        <4> SUFFICES ASSUME NEW i \in DOMAIN down'[c]
                     PROVE  Told(c, down[c][i])' = Told(c, down[c][i + 1])
          OBVIOUS
        <4>1. down'[c][i] = down[c][i + 1]
          BY <1>3
        <4>2. Answered(c, down[c][i])' = Answered(c, down[c][i + 1])
          BY <2>1, <4>1 DEF Answered
        <4>3. QED
          BY <4>1, <4>2 DEF Told
      <3>2. m.what = "pagesChanged" => Told(c, m) = {m.list}
        BY DEF Told
      <3>3. m.what # "pagesChanged" => Told(c, m) = {}
        <4>1. m.what # "pagesChanged" => mine = {}
          BY <1>6, <2>2 DEF Sent
        <4>2. QED
          BY <4>1 DEF Told, Answered
      <3>4. \/ Told(c, m) = {} /\ heard'[c] = heard[c]
            \/ heard'[c] = Nobody
            \/ Informed(c) /\ heard'[c] \in Told(c, m)
        BY <2>3, <3>2, <3>3 DEF Informed
      <3>5. Informed(c)' => Informed(c)
        <4> SUFFICES ASSUME Informed(c)', heard[c] = Nobody PROVE Informed(c)
          BY DEF Informed
        <4>1. PICK i \in Results(c)' : Told(c, down[c][i])' # {}
          BY <2>3 DEF Informed
        <4>2. i + 1 \in Results(c) /\ Told(c, down[c][i + 1]) # {}
          BY <1>1, <1>2, <1>3, <3>1, <4>1, Took
        <4>3. QED
          BY <4>2 DEF Informed
      <3>6. LastWord(c)
        BY <1>2 DEF Script
      <3>7. QED
        BY <1>1, <1>2, <1>3, <3>1, <3>4, <3>5, <3>6, LastWordTaken
    <2>11. Script(c)'
      BY <2>6, <2>7, <2>8, <2>9, <2>10 DEF Script
    <2>12. QED
      BY <2>1, <2>3, <2>4, <2>11
  <1>7. Fine
    BY <1>5, <1>6
  <1>8. ASSUME NEW b \in Clients, b # c
        PROVE  Script(b)'
    <2>1. Script(b) /\ (SettingOf(b)' <=> SettingOf(b))
      BY <1>1 DEF IInv, SettingOf
    <2>2. QED
      BY <1>1, <1>2, <1>7, <1>8, <2>1, ScriptKept
  <1>9. TypeOK'
    <2>1. /\ promises' \in [Clients -> SUBSET Made]
          /\ nextPromise' \in [Clients -> Nat]
          /\ up' \in [Clients -> Seq(Requested)]
          /\ heard' \in [Clients -> {Nobody} \cup Seq(Guids)]
          /\ confused' \in [Clients -> BOOLEAN]
      BY <1>7
    <2>2. QED
      BY <1>1, <1>2, <1>4, <2>1 DEF TypeOK, Made, Requested, Sent
  <1>10. Scrollable' /\ Browsers' /\ SettingIsIdle'
    BY <1>1 DEF IInv, Scrollable, Browsers, SettingIsIdle
  <1>11. ViewsOnLivePages'
    BY <1>1 DEF IInv, ViewsOnLivePages, PageIDs
  <1>12. QED
    BY <1>7, <1>8, <1>9, <1>10, <1>11 DEF IInv

-----------------------------------------------------------------------------
(* Documents come and go. *)

(* A new document has an empty mJS, and only its own first request. *)
LEMMA NewDocument ==
  ASSUME TypeOK, NEW c \in Clients, NEW before \in Seq(Requested),
         OnContextCreated(c, before),
         \A i \in DOMAIN before : ~Pending(before[i]),
         \A i \in DOMAIN down'[c] : ~Pending(down'[c][i]),
         SettingOf(c)' => setting'.old
  PROVE  /\ promises' \in [Clients -> SUBSET Made]
         /\ nextPromise' \in [Clients -> Nat]
         /\ up' \in [Clients -> Seq(Requested)]
         /\ heard' \in [Clients -> {Nobody} \cup Seq(Guids)]
         /\ confused' \in [Clients -> BOOLEAN]
         /\ loaded' \in [Clients -> BOOLEAN]
         /\ \A b \in Clients : b # c =>
              /\ promises'[b] = promises[b] /\ up'[b] = up[b]
              /\ heard'[b] = heard[b] /\ confused'[b] = confused[b]
              /\ loaded'[b] = loaded[b]
         /\ loaded'[c] /\ Script(c)'
  <1> DEFINE m == Request("enable", <<>>, 0)
             p == [n |-> 0, what |-> "enable", arg |-> <<>>]
  <1>1. m \in Requested /\ p \in Made /\ ~m.old /\ <<>> \in Seq(Guids)
    BY DEF Request, Requested, Made, Calls
  <1>2. before \o <<m>> = Append(before, m)
    OBVIOUS
  <1>3. /\ loaded' = [loaded EXCEPT ![c] = TRUE]
        /\ heard' = [heard EXCEPT ![c] = Nobody]
        /\ confused' = [confused EXCEPT ![c] = FALSE]
        /\ promises' = [promises EXCEPT ![c] = {p}]
        /\ nextPromise' = [nextPromise EXCEPT ![c] = 1]
        /\ up' = [up EXCEPT ![c] = Append(before, m)]
    BY <1>2 DEF OnContextCreated
  <1>4. Append(before, m) \in Seq(Requested)
    BY <1>1
  <1>5. /\ promises' \in [Clients -> SUBSET Made]
        /\ nextPromise' \in [Clients -> Nat]
        /\ up' \in [Clients -> Seq(Requested)]
        /\ heard' \in [Clients -> {Nobody} \cup Seq(Guids)]
        /\ confused' \in [Clients -> BOOLEAN]
        /\ loaded' \in [Clients -> BOOLEAN]
    BY <1>1, <1>3, <1>4 DEF TypeOK, Made, Requested
  <1>6. \A b \in Clients : b # c =>
           /\ promises'[b] = promises[b] /\ up'[b] = up[b]
           /\ heard'[b] = heard[b] /\ confused'[b] = confused[b]
           /\ loaded'[b] = loaded[b]
    BY <1>3
  <1>7. /\ loaded'[c] /\ heard'[c] = Nobody /\ promises'[c] = {p}
        /\ up'[c] = Append(before, m)
    BY <1>3 DEF TypeOK
  <1>8. /\ Len(before) \in Nat /\ DOMAIN before = 1 .. Len(before)
        /\ DOMAIN up'[c] = 1 .. Len(before) + 1
        /\ up'[c][Len(before) + 1] = m
        /\ \A i \in DOMAIN before : up'[c][i] = before[i]
    BY <1>7
  <1>9. \A i \in DOMAIN up'[c] : i = Len(before) + 1 \/ i \in DOMAIN before
    BY <1>8
  <1>10. Results(c)' = {} /\ ~(SettingOf(c)' /\ ~setting'.old)
    BY DEF Results
  <1>11. Requests(c)' \subseteq {Len(before) + 1}
    <2>1. Requests(c)' = {i \in DOMAIN up'[c] : Pending(up'[c][i])}
      BY DEF Requests
    <2>2. QED
      BY <1>8, <2>1
  <1>12. Unloaded(c)' /\ OnePromise(c)' /\ OneCall(c)'
    BY <1>7, <1>10, <1>11 DEF Unloaded, OnePromise, OneCall
  <1>13. Promised(c)'
    <2>1. \A i \in Requests(c)' : up'[c][i] = m
      BY <1>8, <1>11
    <2>2. p = [n |-> m.promise, what |-> m.what, arg |-> m.arg]
      BY DEF Request
    <2>3. QED
      BY <1>7, <1>10, <2>1, <2>2 DEF Promised
  <1>14. OldFirst(c)'
    <2> SUFFICES ASSUME NEW i \in DOMAIN up'[c], NEW j \in DOMAIN up'[c],
                        up'[c][i].old, Pending(up'[c][j])
                 PROVE  i < j
      BY DEF OldFirst
    <2>1. i # Len(before) + 1 /\ j = Len(before) + 1
      BY <1>1, <1>8
    <2>2. QED
      BY <1>9, <2>1
  <1>15. NothingHeard(c)' /\ LastWord(c)'
    <2>1. ~Informed(c)'
      BY <1>7, <1>10 DEF Informed
    <2>2. QED
      BY <1>7, <1>10, <2>1 DEF NothingHeard, LastWord
  <1>16. Script(c)'
    BY <1>12, <1>13, <1>14, <1>15 DEF Script
  <1>17. QED
    BY <1>5, <1>6, <1>7, <1>16

(* A client's browser is there, and loads its first document. *)
LEMMA OnAfterCreatedKeeps ==
  ASSUME IInv, ~crashed, NEW c \in Clients, OnAfterCreated(c)
  PROVE  IInv'
  <1>1. /\ UNCHANGED <<kind, pages, setting, nextPage, clientOf, viewOf,
                       current, enabled, down, cached, posted, rendering,
                       crashed, ops>>
        /\ browser[c] = "starting"
        /\ browser' = [browser EXCEPT ![c] = "open"]
        /\ OnContextCreated(c, <<>>) /\ TabContentChanged
    BY DEF OnAfterCreated, sourceVars, pageVars
  <1>2. TypeOK /\ Scrollable /\ Browsers /\ ViewsOnLivePages /\ Script(c)
    BY DEF IInv
  <1>3. /\ browser' \in [Clients -> {"none", "starting", "open"}]
        /\ browser'[c] = "open"
        /\ \A b \in Clients : b # c => browser'[b] = browser[b]
    BY <1>1, <1>2 DEF TypeOK
  <1>4. ~loaded[c] /\ down[c] = <<>> /\ ~SettingOf(c)
    BY <1>1, <1>2 DEF Script, Unloaded, Browsers
  <1>5. /\ promises' \in [Clients -> SUBSET Made]
        /\ nextPromise' \in [Clients -> Nat]
        /\ up' \in [Clients -> Seq(Requested)]
        /\ heard' \in [Clients -> {Nobody} \cup Seq(Guids)]
        /\ confused' \in [Clients -> BOOLEAN]
        /\ loaded' \in [Clients -> BOOLEAN]
        /\ \A b \in Clients : b # c =>
             /\ promises'[b] = promises[b] /\ up'[b] = up[b]
             /\ heard'[b] = heard[b] /\ confused'[b] = confused[b]
             /\ loaded'[b] = loaded[b]
        /\ loaded'[c] /\ Script(c)'
    <2>1. <<>> \in Seq(Requested) /\ DOMAIN <<>> = {}
      OBVIOUS
    <2>2. \A i \in DOMAIN down'[c] : ~Pending(down'[c][i])
      BY <1>1, <1>4
    <2>3. ~SettingOf(c)'
      BY <1>1, <1>4 DEF SettingOf
    <2>4. \A i \in DOMAIN <<>> : ~Pending(<<>>[i])
      OBVIOUS
    <2>5. QED
      BY <1>1, <1>2, <2>1, <2>2, <2>3, <2>4, NewDocument
  <1>6. ASSUME NEW b \in Clients, b # c
        PROVE  Script(b)'
    <2>1. Script(b) /\ (SettingOf(b)' <=> SettingOf(b))
      BY <1>1 DEF IInv, SettingOf
    <2>2. QED
      BY <1>1, <1>2, <1>5, <1>6, <2>1, ScriptKept
  <1>7. viewPage' \in [Views -> [id: Nat, index: Nat]]
    BY <1>1, <1>2, ContentChangeMoves
  <1>8. \A v \in Views : clientOf'[v] # Nobody =>
           viewOf'[clientOf'[v]] = v /\ browser'[clientOf'[v]] # "none"
    BY <1>1, <1>2 DEF TypeOK
  <1>9. TypeOK'
    <2>1. /\ promises' \in [Clients -> SUBSET Made]
          /\ nextPromise' \in [Clients -> Nat]
          /\ up' \in [Clients -> Seq(Requested)]
          /\ heard' \in [Clients -> {Nobody} \cup Seq(Guids)]
          /\ confused' \in [Clients -> BOOLEAN]
          /\ loaded' \in [Clients -> BOOLEAN]
      BY <1>5
    <2>2. /\ kind' \in {"scrollable", "pages"}
          /\ pages' \in Seq([guid: Guids, id: Nat]) /\ nextPage' \in Nat
          /\ clientOf' \in [Views -> Clients \cup {Nobody}]
          /\ viewOf' \in [Clients -> Views \cup {Nobody}]
          /\ current' \in [Clients -> Nat] /\ enabled' \in [Clients -> BOOLEAN]
          /\ setting' \in [at: {"idle", "send", "post"},
                           client: Clients \cup {Nobody},
                           promise: Nat, old: BOOLEAN]
          /\ down' \in [Clients -> Seq(Sent)]
      BY <1>1, <1>2 DEF TypeOK, Sent
    <2>3. /\ cached' \subseteq Nat
          /\ posted' \subseteq {ContentChanged}
                                \cup [what: {"page"}, view: Views, page: Nat]
          /\ rendering' = NotDrawing
             \/ rendering' \in [client: Clients, page: Nat]
          /\ crashed' \in BOOLEAN /\ ops' \in 0 .. MaxOps
      BY <1>1, <1>2 DEF TypeOK
    <2>4. QED
      BY <1>3, <1>7, <1>8, <2>1, <2>2, <2>3 DEF TypeOK, Made, Requested, Sent
  <1>10. Scrollable' /\ SettingIsIdle'
    BY <1>1 DEF IInv, Scrollable, SettingIsIdle
  <1>11. Browsers'
    <2>1. \A b \in Clients : loaded'[b] <=> browser'[b] = "open"
      BY <1>2, <1>3, <1>5 DEF Browsers
    <2>2. QED
      BY <1>1, <1>2, <2>1 DEF Browsers
  <1>12. ViewsOnLivePages'
    <2>1. kind = "pages" => PageIDs' = PageIDs /\ PageIDs = IDsOf(pages)
      BY <1>1 DEF PageIDs
    <2>2. QED
      BY <1>1, <1>2, <2>1, ContentChangeMoves, ThePages DEF ViewsOnLivePages
  <1>13. QED
    BY <1>5, <1>6, <1>9, <1>10, <1>11, <1>12 DEF IInv

(* The requests of a document that has been left: none is awaited. *)
LEMMA AgedRequests ==
  ASSUME NEW s \in Seq(Requested)
  PROVE  /\ Aged(s) \in Seq(Requested)
         /\ \A i \in DOMAIN Aged(s) : ~Pending(Aged(s)[i])
  <1>1. Len(s) \in Nat /\ DOMAIN s = 1 .. Len(s)
        /\ \A i \in 1 .. Len(s) : s[i] \in Requested
    OBVIOUS
  <1>2. Aged(s) = [i \in 1 .. Len(s) |->
                     [s[i] EXCEPT !.old = @ \/ s[i].what
                                           \notin {"released",
                                                   "pagesChanged"}]]
    BY DEF Aged
  <1>3. \A i \in 1 .. Len(s) : Aged(s)[i] \in Requested /\ ~Pending(Aged(s)[i])
    BY <1>1, <1>2 DEF Requested, Pending
  <1>4. QED
    BY <1>2, <1>3

(* Nor is any of the answers. *)
LEMMA AgedAnswers ==
  ASSUME NEW s \in Seq(Sent)
  PROVE  /\ Aged(s) \in Seq(Sent)
         /\ \A i \in DOMAIN Aged(s) : ~Pending(Aged(s)[i])
  <1>1. Aged(s) = [i \in 1 .. Len(s) |->
                     [s[i] EXCEPT !.old = @ \/ s[i].what
                                           \notin {"released",
                                                   "pagesChanged"}]]
    BY DEF Aged
  <1>2. ASSUME NEW i \in 1 .. Len(s)
        PROVE  Aged(s)[i] \in Sent /\ ~Pending(Aged(s)[i])
    <2> DEFINE m == Aged(s)[i]
    <2>1. s[i] \in Sent
      OBVIOUS
    <2>2. m = [s[i] EXCEPT !.old = @ \/ s[i].what
                                        \notin {"released", "pagesChanged"}]
      BY <1>1
    <2>3. m = [what |-> s[i].what, promise |-> s[i].promise, ok |-> s[i].ok,
               list |-> s[i].list,
               old |-> s[i].old
               \/ s[i].what \notin {"released", "pagesChanged"}]
      BY <2>1, <2>2 DEF Sent
    <2>4. m \in Sent
      BY <2>1, <2>3 DEF Sent
    <2>5. /\ m.what = s[i].what
          /\ m.old = (s[i].old
                      \/ s[i].what \notin {"released", "pagesChanged"})
      BY <2>3
    <2>6. ~Pending(m)
      BY <2>5, Zenon DEF Pending
    <2>7. QED
      BY <2>4, <2>6
  <1>3. QED
    BY <1>1, <1>2

(* The browser leaves a document for the next. *)
LEMMA NavigateKeeps ==
  ASSUME IInv, NEW c \in Clients, Navigate(c)
  PROVE  IInv'
  <1> DEFINE before == Append(Aged(up[c]), Released)
  <1>1. /\ UNCHANGED <<kind, pages, nextPage, clientOf, viewOf, browser,
                       current, enabled, viewPage, cached, posted, rendering,
                       crashed>>
        /\ loaded[c] /\ ops < MaxOps /\ ops' = ops + 1
        /\ OnContextCreated(c, before)
        /\ down' = [down EXCEPT ![c] = Aged(@)]
        /\ setting' = [setting EXCEPT !.old = @ \/ setting.client = c]
    BY DEF Navigate, clientVars, pageVars, viewVars
  <1>2. TypeOK /\ up[c] \in Seq(Requested) /\ down[c] \in Seq(Sent)
        /\ c # Nobody
    BY ScriptTypes DEF IInv
  <1>3. before \in Seq(Requested)
        /\ \A i \in DOMAIN before : ~Pending(before[i])
    <2>1. Released \in Requested /\ ~Pending(Released)
      BY DEF Released, Request, Requested, Pending
    <2>2. /\ Aged(up[c]) \in Seq(Requested)
          /\ \A i \in DOMAIN Aged(up[c]) : ~Pending(Aged(up[c])[i])
      BY <1>2, AgedRequests
    <2>3. QED
      BY <2>1, <2>2
  <1>4. /\ down'[c] = Aged(down[c]) /\ down' \in [Clients -> Seq(Sent)]
        /\ \A i \in DOMAIN down'[c] : ~Pending(down'[c][i])
        /\ \A b \in Clients : b # c => down'[b] = down[b]
    <2>1. /\ Aged(down[c]) \in Seq(Sent)
          /\ \A i \in DOMAIN Aged(down[c]) : ~Pending(Aged(down[c])[i])
      BY <1>2, AgedAnswers
    <2>2. /\ down'[c] = Aged(down[c])
          /\ \A b \in Clients : b # c => down'[b] = down[b]
      BY <1>1, <1>2 DEF TypeOK
    <2>3. down' \in [Clients -> Seq(Sent)]
      BY <1>1, <1>2, <2>1 DEF TypeOK, Sent
    <2>4. QED
      BY <2>1, <2>2, <2>3
  <1>5. /\ setting' \in [at: {"idle", "send", "post"},
                         client: Clients \cup {Nobody},
                         promise: Nat, old: BOOLEAN]
        /\ setting'.at = setting.at /\ setting'.client = setting.client
        /\ setting'.promise = setting.promise
        /\ setting'.old = (setting.old \/ setting.client = c)
    BY <1>1, <1>2 DEF TypeOK
  <1>6. /\ promises' \in [Clients -> SUBSET Made]
        /\ nextPromise' \in [Clients -> Nat]
        /\ up' \in [Clients -> Seq(Requested)]
        /\ heard' \in [Clients -> {Nobody} \cup Seq(Guids)]
        /\ confused' \in [Clients -> BOOLEAN]
        /\ loaded' \in [Clients -> BOOLEAN]
        /\ \A b \in Clients : b # c =>
             /\ promises'[b] = promises[b] /\ up'[b] = up[b]
             /\ heard'[b] = heard[b] /\ confused'[b] = confused[b]
             /\ loaded'[b] = loaded[b]
        /\ loaded'[c] /\ Script(c)'
    <2>1. SettingOf(c)' => setting'.old
      BY <1>5 DEF SettingOf
    <2>2. QED
      BY <1>1, <1>2, <1>3, <1>4, <2>1, NewDocument
  <1>7. ASSUME NEW b \in Clients, b # c
        PROVE  Script(b)'
    <2>1. Script(b) /\ (SettingOf(b)' <=> SettingOf(b))
      BY <1>5 DEF IInv, SettingOf
    <2>2. SettingOf(b) => setting'.old = setting.old
      BY <1>2, <1>5, <1>7 DEF SettingOf, TypeOK
    <2>3. QED
      BY <1>1, <1>2, <1>6, <1>7, <2>1, <2>2, ScriptKept
  <1>8. ops' \in 0 .. MaxOps
    BY <1>1, <1>2, ChromiumAssumption DEF TypeOK
  <1>9. TypeOK'
    <2>1. /\ promises' \in [Clients -> SUBSET Made]
          /\ nextPromise' \in [Clients -> Nat]
          /\ up' \in [Clients -> Seq(Requested)]
          /\ heard' \in [Clients -> {Nobody} \cup Seq(Guids)]
          /\ confused' \in [Clients -> BOOLEAN]
          /\ loaded' \in [Clients -> BOOLEAN]
          /\ down' \in [Clients -> Seq(Sent)]
      BY <1>4, <1>6
    <2>2. QED
      BY <1>1, <1>2, <1>5, <1>8, <2>1 DEF TypeOK, Made, Requested, Sent
  <1>10. SettingIsIdle' /\ Scrollable'
    <2>1. ASSUME setting = Idle
          PROVE  setting' = Idle
      <3>1. setting.client # c /\ ~setting.old
        BY <1>2, <2>1 DEF Idle
      <3>2. /\ setting'.at = "idle" /\ setting'.client = Nobody
            /\ setting'.promise = 0 /\ setting'.old = FALSE
        BY <1>5, <2>1, <3>1 DEF Idle
      <3>3. QED
        BY <1>5, <3>2 DEF Idle
    <2>2. setting' = Idle => setting.at = "idle"
      BY <1>5 DEF Idle
    <2>3. QED
      BY <1>1, <2>1, <2>2 DEF IInv, SettingIsIdle, Scrollable
  <1>11. Browsers'
    <2>1. \A b \in Clients : loaded'[b] = loaded[b]
      BY <1>1, <1>2, <1>6 DEF TypeOK
    <2>2. QED
      BY <1>1, <2>1 DEF IInv, Browsers
  <1>12. ViewsOnLivePages'
    <2>1. setting' = Idle => setting = Idle
      BY <1>5 DEF IInv, SettingIsIdle, Idle
    <2>2. QED
      BY <1>1, <2>1 DEF IInv, ViewsOnLivePages, PageIDs
  <1>13. QED
    BY <1>6, <1>7, <1>9, <1>10, <1>11, <1>12 DEF IInv

-----------------------------------------------------------------------------
(* CEF's thread handles requests. *)

(* CEF's thread takes the first message of c. *)
LEMMA TookUp ==
  ASSUME TypeOK, NEW c \in Clients, Script(c), up[c] # <<>>,
         up'[c] = Tail(up[c])
  PROVE  /\ up'[c] \in Seq(Requested) /\ Head(up[c]) \in Requested
         /\ 1 \in DOMAIN up[c] /\ up[c][1] = Head(up[c]) /\ loaded[c]
         /\ Requests(c)' \subseteq DOMAIN up'[c]
         /\ \A i \in DOMAIN up'[c] :
              /\ i + 1 \in DOMAIN up[c] /\ up'[c][i] = up[c][i + 1]
              /\ i \in Nat /\ i # 0
              /\ i \in Requests(c)' <=> i + 1 \in Requests(c)
         /\ OldFirst(c)'
  <1>1. up[c] \in Seq(Requested)
    BY ScriptTypes
  <1>2. /\ up'[c] \in Seq(Requested) /\ Head(up[c]) = up[c][1]
        /\ 1 \in DOMAIN up[c] /\ Head(up[c]) \in Requested
        /\ Len(up[c]) \in Nat
        /\ DOMAIN up'[c] = 1 .. Len(up[c]) - 1
        /\ \A i \in DOMAIN up'[c] :
              i + 1 \in DOMAIN up[c] /\ up'[c][i] = up[c][i + 1]
    BY <1>1
  <1>3. /\ Requests(c)' \subseteq DOMAIN up'[c]
        /\ \A i \in DOMAIN up'[c] :
             i \in Requests(c)' <=> i + 1 \in Requests(c)
    BY <1>2 DEF Requests
  <1>4. OldFirst(c)'
    <2> SUFFICES ASSUME NEW i \in DOMAIN up'[c], NEW j \in DOMAIN up'[c],
                        up'[c][i].old, Pending(up'[c][j])
                 PROVE  i < j
      BY DEF OldFirst
    <2>1. i + 1 < j + 1
      BY <1>2 DEF Script, OldFirst
    <2>2. QED
      BY <2>1
  <1>5. loaded[c]
    BY DEF Script, Unloaded
  <1>6. QED
    BY <1>2, <1>3, <1>4, <1>5

(* When the message is handled, no other request of its script is under    *)
(* way.                                                                    *)
LEMMA OneHandled ==
  ASSUME TypeOK, NEW c \in Clients, Script(c), up[c] # <<>>,
         up'[c] = Tail(up[c]),
         ~confused[c]
  PROVE  /\ Pending(Head(up[c])) =>
              /\ Requests(c) = {1} /\ Requests(c)' = {} /\ Results(c) = {}
              /\ \A i \in DOMAIN up'[c] : ~up'[c][i].old
              /\ [n |-> Head(up[c]).promise, what |-> Head(up[c]).what,
                  arg |-> Head(up[c]).arg] \in promises[c]
         /\ \A i, j \in Requests(c)' : i = j
         /\ \A i \in Requests(c)' :
              [n |-> up'[c][i].promise, what |-> up'[c][i].what,
               arg |-> up'[c][i].arg] \in promises[c]
         /\ Requests(c) = {} => Requests(c)' = {}
         /\ (\E i \in DOMAIN up'[c] : up'[c][i].old) => Behind(c)
  <1>1. /\ 1 \in DOMAIN up[c] /\ up[c][1] = Head(up[c])
        /\ Requests(c)' \subseteq DOMAIN up'[c]
        /\ \A i \in DOMAIN up'[c] :
              /\ i + 1 \in DOMAIN up[c] /\ up'[c][i] = up[c][i + 1]
              /\ i \in Nat /\ i # 0
              /\ i \in Requests(c)' <=> i + 1 \in Requests(c)
    BY TookUp
  <1>2. OneCall(c) /\ Promised(c) /\ OldFirst(c)
    BY DEF Script
  <1>3. \A i, j \in Requests(c)' : i = j
    <2> SUFFICES ASSUME NEW i \in Requests(c)',
                        NEW j \in Requests(c)'
                 PROVE  i = j
      OBVIOUS
    <2>1. i + 1 \in Requests(c) /\ j + 1 \in Requests(c) /\ i \in Nat
          /\ j \in Nat
      BY <1>1
    <2>2. i + 1 = j + 1
      BY <1>2, <2>1 DEF OneCall
    <2>3. QED
      BY <2>1, <2>2
  <1>4. \A i \in Requests(c)' :
          [n |-> up'[c][i].promise, what |-> up'[c][i].what,
           arg |-> up'[c][i].arg] \in promises[c]
    BY <1>1, <1>2 DEF Promised
  <1>5. (\E i \in DOMAIN up'[c] : up'[c][i].old) => Behind(c)
    BY <1>1 DEF Behind
  <1>6. ASSUME Pending(Head(up[c]))
        PROVE  /\ Requests(c) = {1} /\ Requests(c)' = {} /\ Results(c) = {}
               /\ \A i \in DOMAIN up'[c] : ~up'[c][i].old
               /\ [n |-> Head(up[c]).promise, what |-> Head(up[c]).what,
                   arg |-> Head(up[c]).arg] \in promises[c]
    <2>1. 1 \in Requests(c)
      BY <1>1, <1>6 DEF Requests
    <2>2. Requests(c) = {1} /\ Results(c) = {}
      BY <1>2, <2>1 DEF OneCall
    <2>3. Requests(c)' = {}
      <3>1. \A i \in Requests(c)' : i + 1 = 1 /\ i \in Nat /\ i # 0
        BY <1>1, <2>2
      <3>2. QED
        BY <3>1
    <2>4. ASSUME NEW i \in DOMAIN up'[c], up'[c][i].old
          PROVE  FALSE
      <3>1. i + 1 \in DOMAIN up[c] /\ up[c][i + 1].old /\ i \in Nat /\ i # 0
        BY <1>1, <2>4
      <3>2. i + 1 < 1
        BY <1>2, <1>6, <3>1 DEF OldFirst
      <3>3. QED
        BY <3>2
    <2>5. QED
      BY <1>2, <2>2, <2>3, <2>4 DEF Promised
  <1>7. Requests(c) = {} => Requests(c)' = {}
    BY <1>1
  <1>8. QED
    BY <1>3, <1>4, <1>5, <1>6, <1>7

(* A message that has no answer, or that the program does not survive. *)
LEMMA Dropped ==
  ASSUME TypeOK, NEW c \in Clients, Script(c), up[c] # <<>>,
         up'[c] = Tail(up[c]),
         setting = Idle, crashed => crashed',
         UNCHANGED <<loaded, promises, heard, confused, down, pages, setting>>
  PROVE  Script(c)'
  <1>1. OldFirst(c)' /\ loaded[c]
    BY TookUp
  <1>2. Results(c)' = Results(c) /\ ~SettingOf(c) /\ ~SettingOf(c)'
    BY DEF Results, SettingOf, Idle
  <1>3. \A i \in DOMAIN down[c] : Told(c, down[c][i])' = Told(c, down[c][i])
    BY DEF Told, Answered
  <1>4. Unloaded(c)' /\ OnePromise(c)'
    BY DEF Script, Unloaded, OnePromise
  <1>5. OneCall(c)' /\ Promised(c)' /\ NothingHeard(c)'
    <2> SUFFICES ASSUME ~confused[c]
                 PROVE  OneCall(c)' /\ Promised(c)' /\ NothingHeard(c)'
      BY DEF OneCall, Promised, NothingHeard
    <2>1. OneCall(c) /\ Promised(c) /\ NothingHeard(c)
      BY DEF Script
    <2>2. /\ \A i, j \in Requests(c)' : i = j
          /\ \A i \in Requests(c)' :
              [n |-> up'[c][i].promise, what |-> up'[c][i].what,
               arg |-> up'[c][i].arg] \in promises[c]
          /\ Requests(c) = {} => Requests(c)' = {}
          /\ (\E i \in DOMAIN up'[c] : up'[c][i].old) => Behind(c)
      BY OneHandled
    <2>3. OneCall(c)'
      BY <1>2, <2>1, <2>2 DEF OneCall
    <2>4. Promised(c)'
      BY <1>2, <2>1, <2>2 DEF Promised
    <2>5. NothingHeard(c)'
      BY <1>2, <2>1, <2>2 DEF NothingHeard, Behind
    <2>6. QED
      BY <2>3, <2>4, <2>5
  <1>6. LastWord(c)'
    <2>1. Informed(c)' <=> Informed(c)
      <3>1. Results(c) \subseteq DOMAIN down[c]
        BY DEF Results
      <3>2. QED
        BY <1>2, <1>3, <3>1 DEF Informed
    <2>2. LastWord(c) /\ GuidsOf(pages)' = GuidsOf(pages)
      BY DEF Script
    <2>3. \A i \in DOMAIN down[c] :
            i + 1 .. Len(down[c]) \subseteq DOMAIN down[c]
      OBVIOUS
    <2>4. ASSUME ~confused[c], setting.at # "send", Informed(c),
                 NEW i \in DOMAIN down[c],
                 \A j \in i + 1 .. Len(down[c]) : Told(c, down[c][j])' = {}
          PROVE  Told(c, down[c][i])' \subseteq {GuidsOf(pages)}
      BY <1>2, <1>3, <2>2, <2>3, <2>4 DEF LastWord
    <2>5. QED
      BY <1>2, <1>3, <2>1, <2>2, <2>4 DEF LastWord
  <1>7. QED
    BY <1>1, <1>4, <1>5, <1>6 DEF Script

(* One more message to the script of c, which tells it the list there is,  *)
(* or nothing.                                                             *)
LEMMA LastWordSaid ==
  ASSUME TypeOK, NEW c \in Clients, NEW m \in Sent,
         down'[c] = Append(down[c], m),
         \A i \in DOMAIN down[c] : Told(c, down[c][i])' = Told(c, down[c][i]),
         Told(c, m)' \subseteq {GuidsOf(pages)'},
         \/ Told(c, m)' # {}
         \/ /\ LastWord(c) /\ (Informed(c)' => Informed(c))
            /\ setting.at # "send" /\ ~SettingOf(c) /\ ~confused[c]
            /\ pages' = pages /\ heard'[c] = heard[c]
  PROVE  LastWord(c)'
  <1>1. PICK last \in Nat : last = Len(down[c]) + 1
    OBVIOUS
  <1>2. \A i \in DOMAIN down'[c] : i = last \/ i \in DOMAIN down[c]
    BY <1>1
  <1>3. Told(c, down[c][last])' = Told(c, m)'
    <2>1. down'[c][last] = m
      BY <1>1
    <2>2. QED
      BY <2>1
  <1>4. CASE Told(c, m)' # {}
    <2>1. \A i \in DOMAIN down[c] : last \in i + 1 .. Len(down'[c])
      BY <1>1
    <2>2. ASSUME NEW i \in DOMAIN down'[c],
                 \A j \in i + 1 .. Len(down'[c]) : Told(c, down[c][j])' = {}
          PROVE  Told(c, down[c][i])' \subseteq {GuidsOf(pages)'}
      BY <1>2, <1>3, <1>4, <2>1, <2>2
    <2>3. last \in DOMAIN down'[c] /\ Told(c, down[c][last])' # {}
      BY <1>1, <1>4
    <2>4. QED
      BY <2>2, <2>3 DEF LastWord
  <1>5. CASE Told(c, m)' = {}
    <2>1. /\ LastWord(c) /\ (Informed(c)' => Informed(c)) /\ ~confused[c]
          /\ setting.at # "send" /\ ~SettingOf(c)
          /\ pages' = pages /\ heard'[c] = heard[c]
      BY <1>5
    <2>2. GuidsOf(pages)' = GuidsOf(pages)
      BY <2>1
    <2>3. ASSUME Informed(c)', NEW i \in DOMAIN down'[c],
                 \A j \in i + 1 .. Len(down'[c]) : Told(c, down[c][j])' = {}
          PROVE  Told(c, down[c][i])' \subseteq {GuidsOf(pages)'}
      <3>1. CASE i \in DOMAIN down[c]
        <4>1. ASSUME NEW j \in i + 1 .. Len(down[c])
              PROVE  Told(c, down[c][j]) = {}
          <5>1. j \in DOMAIN down[c] /\ j \in i + 1 .. Len(down'[c])
            OBVIOUS
          <5>2. QED
            BY <2>3, <5>1
        <4>2. Told(c, down[c][i]) \subseteq {GuidsOf(pages)}
          BY <2>1, <2>3, <3>1, <4>1 DEF LastWord
        <4>3. QED
          BY <2>2, <4>2
      <3>2. QED
        BY <1>2, <3>1
    <2>4. ASSUME \A i \in DOMAIN down'[c] : Told(c, down[c][i])' = {}
          PROVE  heard'[c] \in {Nobody, GuidsOf(pages)'}
      <3>1. \A i \in DOMAIN down[c] : i \in DOMAIN down'[c]
        OBVIOUS
      <3>2. \A i \in DOMAIN down[c] : Told(c, down[c][i]) = {}
        BY <2>4, <3>1
      <3>3. QED
        BY <2>1, <2>2, <3>2 DEF LastWord
    <2>5. QED
      BY <2>3, <2>4 DEF LastWord
  <1>6. QED
    BY <1>4, <1>5

(* A request is answered at once. *)
LEMMA Answering ==
  ASSUME TypeOK, NEW c \in Clients, Script(c), up[c] # <<>>,
         up'[c] = Tail(up[c]),
         setting = Idle, NEW m, m = Head(up[c]), m.what # "released",
         NEW ok \in BOOLEAN, NEW list \in Seq(Guids),
         down'[c] = Append(down[c], Result(m, ok, list)),
         UNCHANGED <<loaded, promises, heard, confused, pages, setting,
                     crashed>>,
         m.what = "set" => ~ok, m.what = "get" => list = GuidsOf(pages)
  PROVE  Script(c)' /\ down'[c] \in Seq(Sent)
  <1>1. down[c] \in Seq(Sent) /\ m \in Requested
    BY ScriptTypes
  <1>2. PICK r : r = Result(m, ok, list)
    OBVIOUS
  <1>3. /\ r \in Sent /\ r.what = "result" /\ r.old = m.old /\ r.ok = ok
        /\ r.list = list /\ r.promise = m.promise
    BY <1>1, <1>2 DEF Result, Sent, Requested
  <1>4. /\ Len(down[c]) \in Nat /\ down'[c] \in Seq(Sent)
        /\ DOMAIN down'[c] = 1 .. Len(down[c]) + 1
        /\ DOMAIN down[c] = 1 .. Len(down[c])
        /\ down'[c][Len(down[c]) + 1] = r
        /\ \A i \in DOMAIN down[c] : down'[c][i] = down[c][i]
    BY <1>1, <1>2, <1>3
  <1>5. PICK last \in Nat : last = Len(down[c]) + 1
    OBVIOUS
  <1>6. Results(c)' = Results(c) \cup (IF m.old THEN {} ELSE {last})
    <2>1. Pending(r) <=> ~m.old
      BY <1>3 DEF Pending
    <2>2. /\ \A i \in DOMAIN down[c] :
               i \in DOMAIN down'[c]
               /\ (Pending(down'[c][i]) <=> Pending(down[c][i]))
          /\ last \in DOMAIN down'[c] /\ (Pending(down'[c][last]) <=> ~m.old)
          /\ last \notin DOMAIN down[c]
      BY <1>4, <1>5, <2>1
    <2>3. QED
      BY <2>2 DEF Results
  <1>7. ~SettingOf(c) /\ ~SettingOf(c)' /\ setting.at # "send"
    BY DEF SettingOf, Idle
  <1>8. ASSUME NEW i \in DOMAIN down[c]
        PROVE  Told(c, down[c][i])' = Told(c, down[c][i])
    <2>1. down'[c][i] = down[c][i]
      OBVIOUS
    <2>2. Answered(c, down[c][i])' = Answered(c, down[c][i])
      BY DEF Answered
    <2>3. QED
      BY <2>1, <2>2 DEF Told
  <1>9. /\ OldFirst(c)' /\ loaded[c]
        /\ 1 \in DOMAIN up[c] /\ up[c][1] = m
    BY TookUp
  <1>10. Unloaded(c)' /\ OnePromise(c)'
    BY DEF Script, Unloaded, OnePromise
  <1>11. ASSUME ~confused[c]
         PROVE  OneCall(c)' /\ Promised(c)' /\ NothingHeard(c)' /\ LastWord(c)'
    <2>1. /\ OneCall(c) /\ Promised(c) /\ NothingHeard(c) /\ LastWord(c)
          /\ OnePromise(c)
      BY DEF Script
    <2>2. /\ Pending(m) =>
                /\ Requests(c) = {1} /\ Requests(c)' = {} /\ Results(c) = {}
                /\ \A i \in DOMAIN up'[c] : ~up'[c][i].old
                /\ [n |-> m.promise, what |-> m.what,
                    arg |-> m.arg] \in promises[c]
          /\ \A i, j \in Requests(c)' : i = j
          /\ \A i \in Requests(c)' :
               [n |-> up'[c][i].promise, what |-> up'[c][i].what,
                arg |-> up'[c][i].arg] \in promises[c]
      BY <1>11, OneHandled
    <2>3. Pending(m) <=> ~m.old
      BY <1>1 DEF Pending, Requested, Calls
    <2>4. CASE m.old
      <3>1. Behind(c)
        BY <1>9, <2>4 DEF Behind
      <3>2. heard[c] = Nobody /\ Results(c) = {} /\ Results(c)' = {}
        BY <1>6, <1>11, <2>1, <2>4, <3>1 DEF NothingHeard
      <3>3. OneCall(c)' /\ NothingHeard(c)'
        BY <1>7, <2>2, <3>2 DEF OneCall, NothingHeard
      <3>4. Promised(c)'
        BY <1>7, <2>2, <3>2 DEF Promised
      <3>5. ~Informed(c)'
        BY <3>2 DEF Informed
      <3>6. Told(c, r)' = {}
        BY <1>3, <2>4 DEF Told
      <3>7. LastWord(c)'
        BY <1>2, <1>3, <1>7, <1>8, <1>11, <2>1, <3>5, <3>6, LastWordSaid
      <3>8. QED
        BY <3>3, <3>4, <3>7
    <2>5. CASE ~m.old
      <3> DEFINE p == [n |-> m.promise, what |-> m.what, arg |-> m.arg]
      <3>1. Requests(c)' = {} /\ Results(c) = {} /\ Results(c)' = {last}
        BY <1>6, <2>2, <2>3, <2>5
      <3>2. promises[c] = {p}
        BY <2>1, <2>2, <2>3, <2>5 DEF OnePromise
      <3>3. OneCall(c)'
        BY <1>7, <3>1 DEF OneCall
      <3>4. Promised(c)'
        <4>1. p.n = down'[c][last].promise
          BY <1>3, <1>4, <1>5
        <4>2. QED
          BY <1>7, <3>1, <3>2, <4>1 DEF Promised
      <3>5. NothingHeard(c)'
        <4>1. ~Behind(c)'
          BY <1>7, <2>2, <2>3, <2>5 DEF Behind
        <4>2. QED
          BY <4>1 DEF NothingHeard
      <3>6. Told(c, r)' = IF ~ok \/ m.what \notin {"get", "set"} THEN {}
                          ELSE {IF m.what = "get" THEN list ELSE m.arg}
        <4>1. Answered(c, r)' =
                {q \in {p} : q.n = r.promise /\ q.what \in {"get", "set"}}
          BY <3>2 DEF Answered
        <4>2. Answered(c, r)' = IF m.what \in {"get", "set"} THEN {p} ELSE {}
          BY <1>3, <4>1
        <4>3. Told(c, r)' = IF ~ok THEN {}
                            ELSE {IF q.what = "get" THEN list ELSE q.arg :
                                    q \in Answered(c, r)'}
          BY <1>3, <2>5 DEF Told
        <4>4. p.what = m.what /\ p.arg = m.arg
          OBVIOUS
        <4>5. CASE m.what \in {"get", "set"}
          <5>1. Answered(c, r)' = {p}
            BY <4>2, <4>5
          <5>2. QED
            BY <4>3, <4>4, <4>5, <5>1
        <4>6. CASE m.what \notin {"get", "set"}
          <5>1. Answered(c, r)' = {}
            BY <4>2, <4>6
          <5>2. QED
            BY <4>3, <4>6, <5>1
        <4>7. QED
          BY <4>5, <4>6
      <3>7. Told(c, r)' \subseteq {GuidsOf(pages)'}
        BY <3>6
      <3>8. Told(c, r)' # {} \/ (Informed(c)' => Informed(c))
        <4>1. down'[c][last] = r
          BY <1>4, <1>5
        <4>2. Answered(c, down[c][last])' = Answered(c, r)'
          BY <4>1 DEF Answered
        <4>3. Told(c, down[c][last])' = Told(c, r)'
          BY <4>1, <4>2 DEF Told
        <4>4. QED
          BY <3>1, <4>3 DEF Informed
      <3>9. \/ Told(c, r)' # {}
            \/ /\ LastWord(c) /\ (Informed(c)' => Informed(c))
               /\ setting.at # "send" /\ ~SettingOf(c) /\ ~confused[c]
               /\ pages' = pages /\ heard'[c] = heard[c]
        <4>1. pages' = pages /\ heard'[c] = heard[c]
          OBVIOUS
        <4>2. QED
          BY <1>7, <1>11, <2>1, <3>8, <4>1, Zenon
      <3>10. LastWord(c)'
        BY <1>2, <1>3, <1>8, <3>7, <3>9, LastWordSaid
      <3>11. QED
        BY <3>3, <3>4, <3>5, <3>10
    <2>6. QED
      BY <2>4, <2>5
  <1>12. CASE confused[c]
    <2>1. OneCall(c)' /\ Promised(c)' /\ NothingHeard(c)' /\ LastWord(c)'
      BY <1>12 DEF OneCall, Promised, NothingHeard, LastWord
    <2>2. QED
      BY <1>4, <1>9, <1>10, <2>1 DEF Script
  <1>13. QED
    BY <1>4, <1>9, <1>10, <1>11, <1>12 DEF Script

(* A script's list of pages is the panel's from now on (SetPages). *)
LEMMA SettingBegins ==
  ASSUME TypeOK, NEW c \in Clients, Script(c), up[c] # <<>>,
         up'[c] = Tail(up[c]),
         setting = Idle, NEW m, m = Head(up[c]), m.what = "set",
         setting' = [at |-> "send", client |-> c, promise |-> m.promise,
                     old |-> m.old],
         GuidsOf(pages)' = m.arg,
         UNCHANGED <<loaded, promises, heard, confused, down, crashed>>
  PROVE  Script(c)'
  <1>1. Results(c)' = Results(c) /\ SettingOf(c)' /\ ~SettingOf(c)
    BY DEF Results, SettingOf, Idle
  <1>2. /\ OldFirst(c)' /\ loaded[c]
        /\ 1 \in DOMAIN up[c] /\ up[c][1] = m
    BY TookUp
  <1>3. Unloaded(c)' /\ OnePromise(c)' /\ LastWord(c)'
    BY DEF Script, Unloaded, OnePromise, LastWord
  <1>4. ASSUME ~confused[c]
        PROVE  OneCall(c)' /\ Promised(c)' /\ NothingHeard(c)'
    <2>1. OneCall(c) /\ Promised(c) /\ NothingHeard(c)
      BY DEF Script
    <2>2. /\ Pending(m) =>
                /\ Requests(c) = {1} /\ Requests(c)' = {} /\ Results(c) = {}
                /\ \A i \in DOMAIN up'[c] : ~up'[c][i].old
                /\ [n |-> m.promise, what |-> m.what,
                    arg |-> m.arg] \in promises[c]
          /\ \A i, j \in Requests(c)' : i = j
          /\ \A i \in Requests(c)' :
               [n |-> up'[c][i].promise, what |-> up'[c][i].what,
                arg |-> up'[c][i].arg] \in promises[c]
          /\ Requests(c) = {} => Requests(c)' = {}
          /\ (\E i \in DOMAIN up'[c] : up'[c][i].old) => Behind(c)
      BY <1>4, OneHandled
    <2>3. Pending(m) <=> ~m.old
      BY DEF Pending
    <2>4. setting'.old = m.old /\ setting'.promise = m.promise
      OBVIOUS
    <2>5. OneCall(c)'
      BY <1>1, <2>1, <2>2, <2>3 DEF OneCall
    <2>6. Promised(c)'
      BY <1>1, <2>1, <2>2, <2>3, <2>4 DEF Promised
    <2>7. Behind(c)' => Behind(c)
      BY <2>2 DEF Behind
    <2>8. NothingHeard(c)'
      BY <1>1, <2>1, <2>7 DEF NothingHeard
    <2>9. QED
      BY <2>5, <2>6, <2>8
  <1>5. confused[c] => OneCall(c)' /\ Promised(c)' /\ NothingHeard(c)'
    BY DEF OneCall, Promised, NothingHeard
  <1>6. QED
    BY <1>2, <1>3, <1>4, <1>5 DEF Script

(* Whatever the message is, handling it keeps the invariant. *)
LEMMA HandleKeeps ==
  ASSUME IInv, NEW c \in Clients, Handle(c)
  PROVE  IInv'
  <1> DEFINE m == Head(up[c])
  <1>1. /\ UNCHANGED <<clientOf, viewOf, browser, loaded, promises,
                       nextPromise, heard, confused, viewPage, cached,
                       rendering, ops>>
        /\ setting = Idle /\ up[c] # <<>> /\ up' = [up EXCEPT ![c] = Tail(@)]
    BY DEF Handle, clientVars, scriptVars
  <1>2. TypeOK /\ Script(c) /\ Scrollable /\ Browsers /\ ViewsOnLivePages
    BY DEF IInv
  <1>3. up'[c] = Tail(up[c]) /\ \A b \in Clients : b # c => up'[b] = up[b]
    BY <1>1, <1>2 DEF TypeOK
  <1>4. m \in Requested /\ up'[c] \in Seq(Requested)
    BY <1>1, <1>2, <1>3, TookUp
  <1>5. up' \in [Clients -> Seq(Requested)]
    BY <1>1, <1>2, <1>3, <1>4 DEF TypeOK, Requested
  <1>6. \A b \in Clients : ~SettingOf(b)
    BY <1>1 DEF SettingOf, Idle
  <1> DEFINE Answered1 ==
         \E ok \in BOOLEAN, list \in Seq(Guids) :
           /\ down' = [down EXCEPT ![c] = Append(@, Result(m, ok, list))]
           /\ UNCHANGED <<pages, setting, crashed>>
           /\ m.what = "set" => ~ok
           /\ m.what = "get" => list = GuidsOf(pages)
  <1>7. ASSUME Answered1, m.what # "released"
        PROVE  /\ down' \in [Clients -> Seq(Sent)] /\ pages' = pages
               /\ setting' = setting
               /\ \A b \in Clients : Script(b)'
    <2>1. PICK ok \in BOOLEAN, list \in Seq(Guids) :
            /\ down' = [down EXCEPT ![c] = Append(@, Result(m, ok, list))]
            /\ UNCHANGED <<pages, setting, crashed>>
            /\ m.what = "set" => ~ok
            /\ m.what = "get" => list = GuidsOf(pages)
      BY <1>7
    <2>2. /\ down'[c] = Append(down[c], Result(m, ok, list))
          /\ \A b \in Clients : b # c => down'[b] = down[b]
      BY <1>2, <2>1 DEF TypeOK
    <2>3. Script(c)' /\ down'[c] \in Seq(Sent)
      BY <1>1, <1>2, <1>3, <1>7, <2>2, Answering
    <2>4. down' \in [Clients -> Seq(Sent)]
      BY <1>2, <2>1, <2>2, <2>3 DEF TypeOK, Sent
    <2>5. ASSUME NEW b \in Clients, b # c
          PROVE  Script(b)'
      <3>1. Script(b) /\ (SettingOf(b)' <=> SettingOf(b))
        BY <2>1 DEF IInv, SettingOf
      <3>2. QED
        BY <1>1, <1>2, <2>1, <2>5, <3>1, ScriptKept
    <2>6. QED
      BY <2>1, <2>3, <2>4, <2>5
  <1> DEFINE Good ==
         /\ kind' \in {"scrollable", "pages"}
         /\ pages' \in Seq([guid: Guids, id: Nat]) /\ nextPage' \in Nat
         /\ current' \in [Clients -> Nat] /\ enabled' \in [Clients -> BOOLEAN]
         /\ setting' \in [at: {"idle", "send", "post"},
                          client: Clients \cup {Nobody},
                          promise: Nat, old: BOOLEAN]
         /\ down' \in [Clients -> Seq(Sent)]
         /\ posted' \subseteq {ContentChanged}
                                \cup [what: {"page"}, view: Views, page: Nat]
         /\ crashed' \in BOOLEAN
         /\ SettingIsIdle' /\ Scrollable' /\ ViewsOnLivePages'
         /\ \A b \in Clients : Script(b)'
  <1>8. ASSUME m.what = "released", ContextReleased(c), UNCHANGED crashed
        PROVE  Good
    <2>1. /\ enabled' = [enabled EXCEPT ![c] = FALSE]
          /\ UNCHANGED <<kind, pages, setting, posted, down>>
          /\ current' = [current EXCEPT
               ![c] = IF kind = "scrollable" THEN nextPage ELSE NoPage]
          /\ nextPage' = IF kind = "scrollable" THEN nextPage + 1 ELSE nextPage
      BY <1>8 DEF ContextReleased
    <2>2. /\ kind' \in {"scrollable", "pages"}
          /\ pages' \in Seq([guid: Guids, id: Nat])
          /\ enabled' \in [Clients -> BOOLEAN]
          /\ setting' \in [at: {"idle", "send", "post"},
                           client: Clients \cup {Nobody},
                           promise: Nat, old: BOOLEAN]
          /\ posted' \subseteq {ContentChanged}
                                \cup [what: {"page"}, view: Views, page: Nat]
          /\ crashed' \in BOOLEAN
      BY <1>2, <1>8, <2>1 DEF TypeOK
    <2>3. nextPage' \in Nat /\ current' \in [Clients -> Nat]
      <3>1. nextPage \in Nat /\ NoPage \in Nat /\ current \in [Clients -> Nat]
        BY <1>2 DEF TypeOK, NoPage
      <3>2. QED
        BY <2>1, <3>1
    <2>4. down' \in [Clients -> Seq(Sent)]
      BY <1>2, <2>1 DEF TypeOK, Sent
    <2>5. SettingIsIdle' /\ Scrollable'
      BY <1>1, <2>1 DEF IInv, SettingIsIdle, Scrollable
    <2>6. ViewsOnLivePages'
      BY <1>1, <1>2, <2>1 DEF ViewsOnLivePages, PageIDs
    <2>7. Script(c)'
      BY <1>1, <1>2, <1>3, <1>8, <2>1, Dropped
    <2>8. ASSUME NEW b \in Clients, b # c
          PROVE  Script(b)'
      <3>1. Script(b) /\ (SettingOf(b)' <=> SettingOf(b))
        BY <2>1 DEF IInv, SettingOf
      <3>2. QED
        BY <1>1, <1>2, <1>8, <2>1, <2>8, <3>1, ScriptKept
    <2>9. QED
      BY <2>2, <2>4, <2>5, <2>6, <2>7, <2>8, <2>3
  <1>9. ASSUME m.what = "enable", EnableExperimentalFeatures(c, m), UNCHANGED crashed
        PROVE  Good
    <2>1. /\ UNCHANGED <<kind, pages, setting, nextPage, current, posted>>
          /\ enabled' = [enabled EXCEPT ![c] = TRUE]
          /\ down' = [down EXCEPT ![c] =
                      Append(@, Result(m, ~enabled[c], <<>>))]
      BY <1>9 DEF EnableExperimentalFeatures, Answer
    <2>2. Answered1
      <3>1. PICK ok \in BOOLEAN : ok = ~enabled[c]
        BY Zenon
      <3>2. <<>> \in Seq(Guids)
        OBVIOUS
      <3>3. QED
        BY <1>9, <2>1, <3>1, <3>2
    <2>3. /\ down' \in [Clients -> Seq(Sent)] /\ \A b \in Clients : Script(b)'
      BY <1>7, <1>9, <2>2
    <2>4. SettingIsIdle' /\ Scrollable'
      BY <1>1, <2>1 DEF IInv, SettingIsIdle, Scrollable
    <2>5. ViewsOnLivePages'
      BY <1>1, <1>2, <2>1 DEF ViewsOnLivePages, PageIDs
    <2>6. QED
      BY <1>2, <1>9, <2>1, <2>3, <2>4, <2>5 DEF TypeOK
  <1>10. ASSUME m.what = "get", GetPages(c, m), UNCHANGED crashed
         PROVE  Good
    <2>1. /\ UNCHANGED <<pages, setting, nextPage, current, enabled, posted>>
          /\ kind' = IF enabled[c] THEN "pages" ELSE kind
          /\ down' = [down EXCEPT ![c] =
                        Append(@, Result(m, enabled[c], GuidsOf(pages)))]
      BY <1>10 DEF GetPages, Answer
    <2>2. Answered1
      <3>1. enabled[c] \in BOOLEAN /\ GuidsOf(pages) \in Seq(Guids)
        BY <1>2, ThePages DEF TypeOK
      <3>2. QED
        BY <1>10, <2>1, <3>1
    <2>3. /\ down' \in [Clients -> Seq(Sent)] /\ \A b \in Clients : Script(b)'
      BY <1>7, <1>10, <2>2
    <2>4. SettingIsIdle' /\ Scrollable'
      BY <1>1, <2>1 DEF IInv, SettingIsIdle, Scrollable
    <2>5. ViewsOnLivePages'
      <3>1. kind' = kind \/ pages' = <<>>
        BY <1>2, <2>1 DEF Scrollable, TypeOK
      <3>2. CASE kind' = kind
        BY <1>1, <1>2, <2>1, <3>2 DEF ViewsOnLivePages, PageIDs
      <3>3. CASE pages' = <<>>
        BY <3>3 DEF ViewsOnLivePages
      <3>4. QED
        BY <3>1, <3>2, <3>3
    <2>6. QED
      BY <1>2, <1>10, <2>1, <2>3, <2>4, <2>5 DEF TypeOK
  <1>11. ASSUME m.what \in {"turn", "turnTo"}, RequestPageChange(c, m)
         PROVE  Good
    <2> DEFINE is == {i \in DOMAIN pages : pages[i].guid = m.arg[1]}
    <2>1. UNCHANGED <<kind, pages, setting, nextPage, enabled>>
      BY <1>11 DEF RequestPageChange
    <2>2. SettingIsIdle' /\ Scrollable'
      BY <1>1, <2>1 DEF IInv, SettingIsIdle, Scrollable
    <2>3. <<>> \in Seq(Guids)
      OBVIOUS
    <2>4. ASSUME posted \subseteq posted'
          PROVE  ViewsOnLivePages'
      BY <1>1, <1>2, <2>1, <2>4 DEF ViewsOnLivePages, PageIDs
    <2>5. CASE /\ Answer(c, m, FALSE, <<>>)
               /\ UNCHANGED <<current, posted, crashed>>
      <3>1. Answered1
        BY <1>11, <2>1, <2>3, <2>5 DEF Answer
      <3>2. /\ down' \in [Clients -> Seq(Sent)]
            /\ \A b \in Clients : Script(b)'
        BY <1>7, <1>11, <3>1
      <3>3. QED
        BY <1>2, <2>1, <2>2, <2>4, <2>5, <3>2 DEF TypeOK
    <2>6. CASE crashed' = TRUE /\ UNCHANGED <<current, posted, down>>
      <3>1. Script(c)'
        BY <1>1, <1>2, <1>3, <2>1, <2>6, Dropped
      <3>2. ASSUME NEW b \in Clients, b # c
            PROVE  Script(b)'
        <4>1. Script(b) /\ (SettingOf(b)' <=> SettingOf(b))
          BY <2>1 DEF IInv, SettingOf
        <4>2. QED
          BY <1>1, <1>2, <1>3, <2>1, <2>6, <3>2, <4>1, ScriptKept
      <3>3. down' \in [Clients -> Seq(Sent)]
        BY <1>2, <2>6 DEF TypeOK, Sent
      <3>4. QED
        BY <1>2, <2>1, <2>2, <2>4, <2>6, <3>1, <3>2, <3>3 DEF TypeOK
    <2>7. CASE /\ kind = "pages" /\ is # {} /\ c \in Serving
               /\ TurnTo(c, pages[Min(is)].id) /\ Answer(c, m, TRUE, <<>>)
               /\ UNCHANGED crashed
      <3>1. /\ pages \in Seq([guid: Guids, id: Nat])
            /\ DOMAIN pages = 1 .. Len(pages) /\ Len(pages) \in Nat
            /\ \A i \in 1 .. Len(pages) : pages[i] \in [guid: Guids, id: Nat]
        BY <1>2, SeqFacts DEF TypeOK
      <3>2. Min(is) \in is
        <4>1. is \in SUBSET Nat
          BY <3>1
        <4>2. QED
          BY <2>7, <4>1, MinOfNats
      <3>3. pages[Min(is)].id \in Nat
        BY <3>1, <3>2
      <3>4. viewOf[c] \in Views
        <4>1. PICK v \in Views : clientOf[v] = c
          BY <2>7 DEF Serving
        <4>2. c # Nobody
          BY <1>2, ScriptTypes
        <4>3. QED
          BY <1>2, <4>1, <4>2 DEF TypeOK
      <3>5. PageChange(viewOf[c], pages[Min(is)].id)
              \in [what: {"page"}, view: Views, page: Nat]
        BY <3>3, <3>4 DEF PageChange
      <3>6. /\ current' \in [Clients -> Nat] /\ posted \subseteq posted'
            /\ posted' \subseteq {ContentChanged}
                                \cup [what: {"page"}, view: Views, page: Nat]
        <4>1. CASE pages[Min(is)].id = current[c]
          BY <1>2, <2>7, <4>1 DEF TurnTo, TypeOK
        <4>2. CASE pages[Min(is)].id # current[c]
          <5>1. /\ current' = [current EXCEPT ![c] = pages[Min(is)].id]
                /\ posted' =
                     posted \cup {PageChange(viewOf[c], pages[Min(is)].id)}
            BY <2>7, <4>2 DEF TurnTo
          <5>2. current' \in [Clients -> Nat]
            BY <1>2, <3>3, <5>1 DEF TypeOK
          <5>3. posted' \subseteq {ContentChanged}
                                \cup [what: {"page"}, view: Views, page: Nat]
            BY <1>2, <3>5, <5>1 DEF TypeOK
          <5>4. QED
            BY <5>1, <5>2, <5>3
        <4>3. QED
          BY <4>1, <4>2
      <3>7. Answered1
        BY <1>11, <2>1, <2>3, <2>7 DEF Answer
      <3>8. /\ down' \in [Clients -> Seq(Sent)]
            /\ \A b \in Clients : Script(b)'
        BY <1>7, <1>11, <3>7
      <3>9. QED
        BY <1>2, <2>1, <2>2, <2>4, <2>7, <3>6, <3>8 DEF TypeOK
    <2>8. QED
      BY <1>11, <2>5, <2>6, <2>7 DEF RequestPageChange
  <1>12. ASSUME m.what = "set", SetPages(c, m), UNCHANGED crashed
         PROVE  Good
    <2>1. UNCHANGED <<kind, current, enabled, posted>>
      BY <1>12 DEF SetPages
    <2>2. CASE kind # "pages"
      <3>1. /\ UNCHANGED <<pages, nextPage, setting>>
            /\ down' = [down EXCEPT ![c] = Append(@, Result(m, FALSE, <<>>))]
        BY <1>12, <2>2 DEF SetPages, Answer
      <3>2. Answered1
        <4>1. FALSE \in BOOLEAN /\ <<>> \in Seq(Guids)
          OBVIOUS
        <4>2. QED
          BY <1>12, <3>1, <4>1
      <3>3. /\ down' \in [Clients -> Seq(Sent)]
            /\ \A b \in Clients : Script(b)'
        BY <1>7, <1>12, <3>2
      <3>4. SettingIsIdle' /\ Scrollable'
        BY <1>1, <2>1, <3>1 DEF IInv, SettingIsIdle, Scrollable
      <3>5. ViewsOnLivePages'
        BY <1>1, <1>2, <2>1, <3>1 DEF ViewsOnLivePages, PageIDs
      <3>6. QED
        BY <1>2, <1>12, <2>1, <3>1, <3>3, <3>4, <3>5 DEF TypeOK
    <2>3. CASE kind = "pages"
      <3>1. /\ pages' = [i \in DOMAIN m.arg |->
                           [guid |-> m.arg[i], id |-> nextPage + i - 1]]
            /\ nextPage' = nextPage + Len(m.arg)
            /\ setting' = [at |-> "send", client |-> c, promise |-> m.promise,
                           old |-> m.old]
            /\ down' = down
        BY <1>12, <2>3 DEF SetPages
      <3>2. /\ m.arg \in Seq(Guids) /\ m.promise \in Nat /\ m.old \in BOOLEAN
            /\ nextPage \in Nat
        BY <1>2, <1>4 DEF Requested, TypeOK
      <3>3. /\ DOMAIN m.arg = 1 .. Len(m.arg) /\ Len(m.arg) \in Nat
            /\ \A i \in 1 .. Len(m.arg) : m.arg[i] \in Guids
        BY <3>2
      <3>4. pages' \in Seq([guid: Guids, id: Nat]) /\ nextPage' \in Nat
        <4>1. \A i \in 1 .. Len(m.arg) :
                [guid |-> m.arg[i], id |-> nextPage + i - 1]
                  \in [guid: Guids, id: Nat]
          BY <3>2
        <4>2. pages' = [i \in 1 .. Len(m.arg) |->
                          [guid |-> m.arg[i], id |-> nextPage + i - 1]]
          BY <3>1
        <4>3. QED
          <5>1. nextPage' \in Nat
            BY <3>1, <3>2
          <5>2. pages' \in Seq([guid: Guids, id: Nat])
            BY <4>1, <4>2
          <5>3. QED
            BY <5>1, <5>2
      <3>5. GuidsOf(pages)' = m.arg
        <4>1. GuidsOf(pages)' = [i \in DOMAIN pages' |-> pages'[i].guid]
          BY DEF GuidsOf
        <4>2. GuidsOf(pages)' = [i \in 1 .. Len(m.arg) |-> m.arg[i]]
          BY <3>1, <3>3, <4>1
        <4>3. QED
          BY <3>2, <4>2
      <3>6. setting' \in [at: {"idle", "send", "post"},
                          client: Clients \cup {Nobody},
                          promise: Nat, old: BOOLEAN]
        BY <3>1, <3>2
      <3>7. Script(c)'
        BY <1>1, <1>2, <1>3, <1>12, <3>1, <3>5, SettingBegins
      <3>8. ASSUME NEW b \in Clients, b # c
            PROVE  Script(b)'
        <4>1. Script(b) /\ ~SettingOf(b)' /\ setting'.at = "send"
          BY <3>1, <3>8 DEF IInv, SettingOf
        <4>2. QED
          BY <1>1, <1>2, <1>6, <1>12, <3>1, <3>8, <4>1, ScriptKept
      <3>9. SettingIsIdle' /\ Scrollable' /\ ViewsOnLivePages'
        <4>1. setting' # Idle /\ setting'.at # "idle" /\ setting'.client = c
          BY <3>1 DEF Idle
        <4>2. QED
          BY <2>1, <2>3, <4>1 DEF SettingIsIdle, Scrollable, ViewsOnLivePages
      <3>10. down' \in [Clients -> Seq(Sent)]
        BY <1>2, <3>1 DEF TypeOK, Sent
      <3>11. QED
        BY <1>2, <1>12, <2>1, <3>4, <3>6, <3>7, <3>8, <3>9, <3>10 DEF TypeOK
    <2>4. QED
      BY <2>2, <2>3
  <1>13. Good
    BY <1>8, <1>9, <1>10, <1>11, <1>12 DEF Handle
  <1>14. TypeOK'
    <2>1. /\ kind' \in {"scrollable", "pages"}
          /\ pages' \in Seq([guid: Guids, id: Nat]) /\ nextPage' \in Nat
          /\ current' \in [Clients -> Nat] /\ enabled' \in [Clients -> BOOLEAN]
          /\ setting' \in [at: {"idle", "send", "post"},
                           client: Clients \cup {Nobody},
                           promise: Nat, old: BOOLEAN]
          /\ down' \in [Clients -> Seq(Sent)]
          /\ posted' \subseteq {ContentChanged}
                                \cup [what: {"page"}, view: Views, page: Nat]
          /\ crashed' \in BOOLEAN
      BY <1>13
    <2>2. QED
      BY <1>1, <1>2, <1>5, <2>1 DEF TypeOK, Made, Requested, Sent
  <1>15. Browsers'
    BY <1>1, <1>2 DEF Browsers
  <1>16. QED
    BY <1>13, <1>14, <1>15 DEF IInv

(* Where there is no document, nothing is known and nothing is under way. *)
LEMMA EmptyScript ==
  ASSUME NEW c \in Clients, promises'[c] = {}, heard'[c] = Nobody,
         up'[c] = <<>>, down'[c] = <<>>, ~SettingOf(c)'
  PROVE  Script(c)'
  <1>1. Requests(c)' = {} /\ Results(c)' = {} /\ ~Behind(c)'
    BY DEF Requests, Results, Behind
  <1>2. OneCall(c)' /\ Promised(c)' /\ NothingHeard(c)'
    BY <1>1 DEF OneCall, Promised, NothingHeard
  <1>3. Unloaded(c)' /\ OnePromise(c)' /\ OldFirst(c)' /\ LastWord(c)'
    BY DEF Unloaded, OnePromise, OldFirst, LastWord
  <1>4. QED
    BY <1>2, <1>3 DEF Script

(* A client whose script calls is in the list of clients. *)
LEMMA NotServing ==
  ASSUME TypeOK, Browsers, NEW c \in Clients \ Serving, NEW d \in Clients,
         loaded[d], c # d
  PROVE  ~loaded[c]
  <1>1. \A b \in Clients : loaded[b] <=> browser[b] = "open"
    BY DEF Browsers
  <1>2. \A v \in Views : v \notin Serving => browser[v] = "none"
    BY ChromiumAssumption DEF Browsers, Serving
  <1>3. CASE c \in Views
    BY <1>1, <1>2, <1>3
  <1>4. CASE c = Primary
    <2>1. Serving = {}
      BY <1>4, ChromiumAssumption DEF Browsers, Serving
    <2>2. d \in Views
      BY <1>4 DEF Clients
    <2>3. QED
      BY <1>1, <1>2, <2>1, <2>2
  <1>5. QED
    BY <1>3, <1>4 DEF Clients

(* SetPages() tells the client of another view. *)
LEMMA PeerTold ==
  ASSUME TypeOK, Browsers, NEW c \in Clients, Script(c), ~crashed,
         setting.at = "send", c # setting.client,
         down'[c] = Append(down[c], PagesChanged(GuidsOf(pages))),
         browser[c] # "open" => crashed',
         setting' = [setting EXCEPT !.at = "post"],
         UNCHANGED <<loaded, promises, heard, confused, up, pages>>
  PROVE  Script(c)' /\ down'[c] \in Seq(Sent)
  <1>1. down[c] \in Seq(Sent) /\ GuidsOf(pages) \in Seq(Guids)
    BY ScriptTypes
  <1>2. PICK m : m = PagesChanged(GuidsOf(pages))
    OBVIOUS
  <1>3. /\ m \in Sent /\ m.what = "pagesChanged" /\ m.list = GuidsOf(pages)
    BY <1>1, <1>2 DEF PagesChanged, Sent
  <1>4. /\ Len(down[c]) \in Nat /\ down'[c] \in Seq(Sent)
        /\ DOMAIN down'[c] = 1 .. Len(down[c]) + 1
        /\ DOMAIN down[c] = 1 .. Len(down[c])
        /\ down'[c][Len(down[c]) + 1] = m
        /\ \A i \in DOMAIN down[c] : down'[c][i] = down[c][i]
    BY <1>1, <1>2, <1>3
  <1>5. PICK last \in Nat : last = Len(down[c]) + 1
    OBVIOUS
  <1>6. \A i \in DOMAIN down'[c] : i = last \/ i \in DOMAIN down[c]
    BY <1>5
  <1>7. Requests(c)' = Requests(c)
    BY DEF Requests
  <1>8. Results(c)' = Results(c)
    <2>1. ~Pending(m)
      BY <1>3 DEF Pending
    <2>2. ~Pending(down'[c][last])
      BY <1>4, <1>5, <2>1
    <2>3. QED
      BY <1>6, <2>2 DEF Results
  <1>9. ~SettingOf(c) /\ ~SettingOf(c)'
    BY DEF SettingOf
  <1>10. \A i \in DOMAIN down[c] : Told(c, down[c][i])' = Told(c, down[c][i])
    <2> SUFFICES ASSUME NEW i \in DOMAIN down[c]
                 PROVE  Told(c, down[c][i])' = Told(c, down[c][i])
      OBVIOUS
    <2>1. down'[c][i] = down[c][i]
      OBVIOUS
    <2>2. Answered(c, down[c][i])' = Answered(c, down[c][i])
      BY DEF Answered
    <2>3. QED
      BY <2>1, <2>2 DEF Told
  <1>11. Unloaded(c)'
    BY <1>9 DEF Script, Unloaded, Browsers
  <1>12. OnePromise(c)' /\ OldFirst(c)'
    BY DEF Script, OnePromise, OldFirst
  <1>13. OneCall(c)' /\ NothingHeard(c)'
    BY <1>7, <1>8, <1>9 DEF Script, OneCall, NothingHeard, Behind
  <1>14. Promised(c)'
    <2>1. \A i \in Results(c) : down'[c][i] = down[c][i]
      BY DEF Results
    <2>2. QED
      BY <1>7, <1>8, <1>9, <2>1 DEF Script, Promised
  <1>15. LastWord(c)'
    <2>1. Told(c, m)' = {GuidsOf(pages)'}
      BY <1>3 DEF Told
    <2>2. QED
      BY <1>2, <1>3, <1>10, <2>1, LastWordSaid
  <1>16. QED
    BY <1>4, <1>11, <1>12, <1>13, <1>14, <1>15 DEF Script

(* SetPages() tells them all: the next list anybody hears of is the right  *)
(* one.                                                                    *)
LEMMA SendToPeersKeeps ==
  ASSUME IInv, ~crashed, SendToPeers
  PROVE  IInv'
  <1>1. /\ UNCHANGED <<kind, pages, nextPage, clientOf, viewOf, browser,
                       current, enabled, loaded, promises, nextPromise, heard,
                       confused, up, viewPage, cached, posted, rendering, ops>>
        /\ setting.at = "send" /\ setting' = [setting EXCEPT !.at = "post"]
    BY DEF SendToPeers, clientVars, pageVars, scriptVars, viewVars
  <1>2. TypeOK /\ Scrollable /\ Browsers /\ SettingIsIdle /\ ViewsOnLivePages
    BY DEF IInv
  <1> DEFINE d == setting.client
             peers == Serving \ {d}
  <1>3. /\ crashed' = (\E c \in peers : browser[c] # "open")
        /\ down' = [c \in Clients |->
              IF c \in peers THEN Append(down[c], PagesChanged(GuidsOf(pages)))
              ELSE down[c]]
    BY DEF SendToPeers
  <1>4. d \in Clients
    BY <1>1, <1>2 DEF SettingIsIdle
  <1>5. /\ setting' \in [at: {"idle", "send", "post"},
                         client: Clients \cup {Nobody},
                         promise: Nat, old: BOOLEAN]
        /\ setting'.at = "post" /\ setting'.client = d
        /\ setting'.old = setting.old /\ setting'.promise = setting.promise
    BY <1>1, <1>2 DEF TypeOK
  <1>6. SettingIsIdle' /\ Scrollable' /\ ViewsOnLivePages'
    <2>1. setting # Idle /\ setting' # Idle
      BY <1>1 DEF Idle
    <2>2. QED
      BY <1>1, <1>2, <2>1 DEF SettingIsIdle, Scrollable, ViewsOnLivePages
  <1>7. ASSUME NEW c \in Clients
        PROVE  Script(c)' /\ down'[c] \in Seq(Sent)
    <2>1. Script(c) /\ Script(d) /\ down[c] \in Seq(Sent)
      BY <1>4, ScriptTypes DEF IInv
    <2>2. CASE c \in peers
      <3>1. /\ down'[c] = Append(down[c], PagesChanged(GuidsOf(pages)))
            /\ browser[c] # "open" => crashed'
        BY <1>3, <2>2
      <3>2. QED
        BY <1>1, <1>2, <2>1, <2>2, <3>1, PeerTold
    <2>3. CASE c = d
      <3>1. down'[c] = down[c]
        BY <1>3, <2>3
      <3>2. SettingOf(c) /\ SettingOf(c)'
        BY <1>1, <2>3 DEF SettingOf
      <3>3. QED
        BY <1>1, <1>2, <2>1, <3>1, <3>2, ScriptKept
    <2>4. CASE c \notin peers /\ c # d
      <3>1. down'[c] = down[c] /\ c \notin Serving
        BY <1>3, <2>4
      <3>2. loaded[d]
        BY <1>1, <2>1 DEF Script, Unloaded, SettingOf
      <3>3. ~loaded[c]
        BY <1>2, <1>4, <2>4, <3>2, NotServing
      <3>4. promises[c] = {} /\ heard[c] = Nobody /\ up[c] = <<>>
            /\ down[c] = <<>>
        BY <2>1, <3>3 DEF Script, Unloaded
      <3>5. ~SettingOf(c)'
        BY <1>5, <2>4 DEF SettingOf
      <3>6. QED
        BY <1>1, <3>1, <3>4, <3>5, EmptyScript
    <2>5. QED
      BY <2>2, <2>3, <2>4
  <1>8. down' \in [Clients -> Seq(Sent)] /\ crashed' \in BOOLEAN
    BY <1>3, <1>7
  <1>9. TypeOK'
    BY <1>1, <1>2, <1>5, <1>8 DEF TypeOK, Sent
  <1>10. Browsers'
    BY <1>1, <1>2 DEF Browsers
  <1>11. QED
    BY <1>6, <1>7, <1>9, <1>10 DEF IInv

(* SetPages() answers, and is idle. *)
LEMMA SettingAnswered ==
  ASSUME TypeOK, NEW c \in Clients, Script(c), setting.at = "post",
         setting.client = c, setting' = Idle,
         NEW r \in Sent, r.what = "result", r.old = setting.old, r.ok,
         r.promise = setting.promise, down'[c] = Append(down[c], r),
         UNCHANGED <<loaded, promises, heard, confused, up, pages, crashed>>
  PROVE  Script(c)' /\ down'[c] \in Seq(Sent)
  <1>1. down[c] \in Seq(Sent) /\ setting.promise \in Nat
        /\ setting.old \in BOOLEAN
    BY ScriptTypes DEF TypeOK
  <1>2. /\ Len(down[c]) \in Nat /\ down'[c] \in Seq(Sent)
        /\ DOMAIN down'[c] = 1 .. Len(down[c]) + 1
        /\ DOMAIN down[c] = 1 .. Len(down[c])
        /\ down'[c][Len(down[c]) + 1] = r
        /\ \A i \in DOMAIN down[c] : down'[c][i] = down[c][i]
    BY <1>1
  <1>3. PICK last \in Nat : last = Len(down[c]) + 1
    OBVIOUS
  <1>4. Results(c)' = Results(c) \cup (IF setting.old THEN {} ELSE {last})
    <2>1. Pending(r) <=> ~setting.old
      BY DEF Pending
    <2>2. /\ \A i \in DOMAIN down[c] :
               i \in DOMAIN down'[c]
               /\ (Pending(down'[c][i]) <=> Pending(down[c][i]))
          /\ last \in DOMAIN down'[c]
          /\ (Pending(down'[c][last]) <=> ~setting.old)
          /\ last \notin DOMAIN down[c]
      BY <1>3, <2>1
    <2>3. QED
      BY <2>2 DEF Results
  <1>5. Requests(c)' = Requests(c)
    BY DEF Requests
  <1>6. SettingOf(c) /\ ~SettingOf(c)'
    BY DEF SettingOf, Idle
  <1>7. \A i \in DOMAIN down[c] : Told(c, down[c][i])' = Told(c, down[c][i])
    <2> SUFFICES ASSUME NEW i \in DOMAIN down[c]
                 PROVE  Told(c, down[c][i])' = Told(c, down[c][i])
      OBVIOUS
    <2>1. down'[c][i] = down[c][i]
      OBVIOUS
    <2>2. Answered(c, down[c][i])' = Answered(c, down[c][i])
      BY DEF Answered
    <2>3. QED
      BY <2>1, <2>2 DEF Told
  <1>8. Unloaded(c)' /\ OnePromise(c)' /\ OldFirst(c)'
    BY <1>6 DEF Script, Unloaded, OnePromise, OldFirst
  <1>9. ASSUME ~confused[c]
        PROVE  OneCall(c)' /\ Promised(c)' /\ NothingHeard(c)' /\ LastWord(c)'
    <2>1. OneCall(c) /\ Promised(c) /\ NothingHeard(c) /\ OnePromise(c)
      BY DEF Script
    <2>2. CASE setting.old
      <3>1. heard[c] = Nobody /\ Results(c) = {} /\ Results(c)' = {}
        BY <1>4, <1>6, <1>9, <2>1, <2>2 DEF NothingHeard, Behind
      <3>2. OneCall(c)' /\ Promised(c)' /\ NothingHeard(c)'
        BY <1>5, <1>6, <2>1, <3>1 DEF OneCall, Promised, NothingHeard
      <3>3. ~Informed(c)'
        BY <3>1 DEF Informed
      <3>4. LastWord(c)'
        BY <3>1, <3>3 DEF LastWord
      <3>5. QED
        BY <3>2, <3>4
    <2>3. CASE ~setting.old
      <3> DEFINE p == [n |-> setting.promise, what |-> "set",
                       arg |-> GuidsOf(pages)]
      <3>1. /\ Requests(c) = {} /\ Results(c) = {} /\ Results(c)' = {last}
            /\ \A i \in DOMAIN up[c] : ~up[c][i].old
        BY <1>4, <1>6, <1>9, <2>1, <2>3 DEF OneCall
      <3>2. promises[c] = {p}
        BY <1>6, <1>9, <2>1, <2>3 DEF OnePromise, Promised
      <3>3. OneCall(c)'
        BY <1>5, <1>6, <3>1 DEF OneCall
      <3>4. Promised(c)'
        <4>1. p.n = down'[c][last].promise
          BY <1>3
        <4>2. QED
          BY <1>5, <1>6, <3>1, <3>2, <4>1 DEF Promised
      <3>5. NothingHeard(c)'
        <4>1. ~Behind(c)'
          BY <1>6, <3>1 DEF Behind
        <4>2. QED
          BY <4>1 DEF NothingHeard
      <3>6. Told(c, r)' = {GuidsOf(pages)'}
        <4>1. Answered(c, r)' =
                {q \in {p} : q.n = r.promise /\ q.what \in {"get", "set"}}
          BY <3>2 DEF Answered
        <4>2. Answered(c, r)' = {p}
          BY <4>1
        <4>3. Told(c, r)' = {IF q.what = "get" THEN r.list ELSE q.arg :
                                q \in Answered(c, r)'}
          BY <2>3 DEF Told
        <4>4. Told(c, r)' = {GuidsOf(pages)}
          BY <4>2, <4>3
        <4>5. QED
          BY <4>4
      <3>7. LastWord(c)'
        BY <1>7, <3>6, LastWordSaid
      <3>8. QED
        BY <3>3, <3>4, <3>5, <3>7
    <2>4. QED
      BY <2>2, <2>3
  <1>10. confused[c] =>
           OneCall(c)' /\ Promised(c)' /\ NothingHeard(c)' /\ LastWord(c)'
    BY DEF OneCall, Promised, NothingHeard, LastWord
  <1>11. QED
    BY <1>2, <1>8, <1>9, <1>10 DEF Script

(* The end of SetPages(): the event for the views, and the answer. *)
LEMMA PostContentChangedKeeps ==
  ASSUME IInv, PostContentChanged
  PROVE  IInv'
  <1>1. /\ UNCHANGED <<kind, pages, nextPage, clientOf, viewOf, browser,
                       current, enabled, loaded, promises, nextPromise, heard,
                       confused, up, viewPage, cached, rendering, crashed,
                       ops>>
        /\ setting.at = "post" /\ setting' = Idle
        /\ posted' = posted \cup {ContentChanged}
    BY DEF PostContentChanged, clientVars, pageVars, scriptVars
  <1>2. TypeOK /\ Scrollable /\ Browsers /\ SettingIsIdle
    BY DEF IInv
  <1>3. PICK d \in Clients : d = setting.client
    BY <1>1, <1>2 DEF SettingIsIdle
  <1> DEFINE r == Result(setting, TRUE, <<>>)
  <1>4. down' = [down EXCEPT ![d] = Append(@, r)]
    BY <1>3 DEF PostContentChanged
  <1>5. /\ down'[d] = Append(down[d], r)
        /\ \A c \in Clients : c # d => down'[c] = down[c]
    BY <1>2, <1>4 DEF TypeOK
  <1>6. Script(d)' /\ down'[d] \in Seq(Sent)
    <2>1. setting.promise \in Nat /\ setting.old \in BOOLEAN
      BY <1>2 DEF TypeOK
    <2>2. /\ r \in Sent /\ r.what = "result" /\ r.old = setting.old /\ r.ok
          /\ r.promise = setting.promise
      BY <2>1 DEF Result, Sent
    <2>3. TypeOK /\ Script(d)
      BY DEF IInv
    <2>4. QED
      BY <1>1, <1>3, <1>5, <2>2, <2>3, SettingAnswered
  <1>7. ASSUME NEW c \in Clients, c # d
        PROVE  Script(c)'
    <2>1. Script(c) /\ ~SettingOf(c) /\ ~SettingOf(c)' /\ setting.at # "send"
      BY <1>1, <1>3, <1>7 DEF IInv, SettingOf, Idle
    <2>2. QED
      BY <1>1, <1>2, <1>5, <1>7, <2>1, ScriptKept
  <1>8. down' \in [Clients -> Seq(Sent)]
    BY <1>2, <1>4, <1>6 DEF TypeOK, Sent
  <1>9. SettingIsIdle' /\ Scrollable' /\ ViewsOnLivePages' /\ Browsers'
    <2>1. setting # Idle /\ setting'.at = "idle"
      BY <1>1 DEF Idle
    <2>2. QED
      BY <1>1, <1>2, <2>1
         DEF SettingIsIdle, Scrollable, ViewsOnLivePages, Browsers
  <1>10. setting' \in [at: {"idle", "send", "post"},
                       client: Clients \cup {Nobody},
                       promise: Nat, old: BOOLEAN]
    BY <1>1 DEF Idle
  <1>11. TypeOK'
    BY <1>1, <1>2, <1>8, <1>10 DEF TypeOK, Sent
  <1>12. QED
    BY <1>6, <1>7, <1>9, <1>11 DEF IInv

-----------------------------------------------------------------------------
(* The theorems. *)

(* The invariant holds when the panel has been made. *)
LEMMA InitIInv ==
  ASSUME Init
  PROVE  IInv
  <1>1. Primary \in Clients /\ NoPage \in Nat /\ 1 \in Nat /\ 2 \in Nat
    BY DEF Clients, NoPage
  <1>2. /\ current \in [Clients -> Nat]
        /\ browser \in [Clients -> {"none", "starting", "open"}]
        /\ viewPage \in [Views -> [id: Nat, index: Nat]]
    BY <1>1 DEF Init
  <1>3. setting \in [at: {"idle", "send", "post"},
                     client: Clients \cup {Nobody},
                     promise: Nat, old: BOOLEAN]
    BY DEF Init, Idle
  <1>4. /\ {loaded, enabled, confused} \subseteq [Clients -> BOOLEAN]
        /\ promises \in [Clients -> SUBSET Made]
        /\ nextPromise \in [Clients -> Nat]
        /\ heard \in [Clients -> {Nobody} \cup Seq(Guids)]
        /\ up \in [Clients -> Seq(Requested)]
        /\ down \in [Clients -> Seq(Sent)]
    <2>1. QED
      BY DEF Init
  <1>5. /\ Nobody \in Clients \cup {Nobody} /\ Nobody \in Views \cup {Nobody}
        /\ 0 \in 0 .. MaxOps /\ <<>> \in Seq([guid: Guids, id: Nat])
        /\ {} \subseteq Nat
    BY ChromiumAssumption
  <1>6. /\ kind \in {"scrollable", "pages"}
        /\ pages \in Seq([guid: Guids, id: Nat]) /\ nextPage \in Nat
        /\ clientOf \in [Views -> Clients \cup {Nobody}]
        /\ viewOf \in [Clients -> Views \cup {Nobody}]
        /\ cached \subseteq Nat /\ posted = {} /\ rendering = NotDrawing
        /\ crashed \in BOOLEAN /\ ops \in 0 .. MaxOps
    BY <1>5, <1>1 DEF Init
  <1>7. \A v \in Views : clientOf[v] = Nobody
    BY DEF Init
  <1>8. TypeOK
    BY <1>2, <1>3, <1>4, <1>6, <1>7 DEF TypeOK, Made, Requested, Sent
  <1>9. Scrollable /\ ViewsOnLivePages /\ SettingIsIdle
    BY DEF Init, Scrollable, ViewsOnLivePages, SettingIsIdle, Idle
  <1>10. Browsers
    <2>1. Primary \notin Views /\ Nobody \notin Views
      BY ChromiumAssumption
    <2>2. \A c \in Clients :
            browser[c] = IF c = Primary THEN "starting" ELSE "none"
      BY DEF Init
    <2>3. \A c \in Clients : loaded[c] = FALSE
      BY DEF Init
    <2>4. QED
      BY <1>7, <2>1, <2>2, <2>3 DEF Browsers, Clients
  <1>11. ASSUME NEW c \in Clients
         PROVE  Script(c)
    <2>1. /\ promises[c] = {} /\ heard[c] = Nobody /\ up[c] = <<>>
          /\ down[c] = <<>> /\ ~SettingOf(c)
      BY DEF Init, SettingOf, Idle
    <2>2. Requests(c) = {} /\ Results(c) = {} /\ ~Behind(c)
      BY <2>1 DEF Requests, Results, Behind
    <2>3. OneCall(c) /\ Promised(c) /\ NothingHeard(c)
      BY <2>1, <2>2 DEF OneCall, Promised, NothingHeard
    <2>4. Unloaded(c) /\ OnePromise(c) /\ OldFirst(c) /\ LastWord(c)
      BY <2>1 DEF Unloaded, OnePromise, OldFirst, LastWord
    <2>5. QED
      BY <2>3, <2>4 DEF Script
  <1>12. QED
    BY <1>8, <1>9, <1>10, <1>11 DEF IInv

(* The invariant speaks of the variables only. *)
LEMMA StutterKeeps ==
  ASSUME IInv, UNCHANGED vars
  PROVE  IInv'
  <1>1. UNCHANGED <<kind, pages, setting, nextPage, clientOf, viewOf, browser,
                    current, enabled, loaded, promises, nextPromise, heard,
                    confused, up, down, viewPage, cached, posted, rendering,
                    crashed, ops>>
    BY DEF vars, sourceVars, clientVars, pageVars, scriptVars, viewVars
  <1>2. SettingIsIdle' /\ \A c \in Clients : Script(c)'
    BY <1>1, ScriptsKept DEF scriptVars
  <1>3. TypeOK' /\ Scrollable' /\ Browsers'
    BY <1>1 DEF IInv, TypeOK, Scrollable, Browsers
  <1>4. ViewsOnLivePages'
    BY <1>1 DEF IInv, ViewsOnLivePages, PageIDs
  <1>5. QED
    BY <1>2, <1>3, <1>4 DEF IInv

(* Every step keeps the invariant. *)
LEMMA NextKeeps ==
  ASSUME IInv, Next
  PROVE  IInv'
  <1>1. ~crashed
    BY DEF Next
  <1>2. ASSUME NEW c \in Clients, Receive(c)
        PROVE  IInv'
    BY <1>2, ReceiveKeeps
  <1>3. ASSUME NEW c \in Clients, OnAfterCreated(c)
        PROVE  IInv'
    BY <1>1, <1>3, OnAfterCreatedKeeps
  <1>4. ASSUME NEW c \in Clients, Handle(c)
        PROVE  IInv'
    BY <1>4, HandleKeeps
  <1>5. CASE SendToPeers
    BY <1>1, <1>5, SendToPeersKeeps
  <1>6. CASE PostContentChanged
    BY <1>6, PostContentChangedKeeps
  <1>7. ASSUME NEW c \in Clients, Navigate(c)
        PROVE  IInv'
    BY <1>7, NavigateKeeps
  <1>8. ASSUME NEW c \in Clients, Call(c)
        PROVE  IInv'
    BY <1>8, CallKeeps
  <1>9. ASSUME NEW v \in Views, TurnPage(v)
        PROVE  IInv'
    BY <1>9, TurnPageKeeps
  <1>10. ASSUME NEW v \in Views, RenderPage(v)
         PROVE  IInv'
    BY <1>10, RenderPageKeeps
  <1>11. CASE RunEvent
    BY <1>11, RunEventKeeps
  <1>12. CASE SetCurrentPage
    BY <1>12, SetCurrentPageKeeps
  <1>13. QED
    BY <1>2, <1>3, <1>4, <1>5, <1>6, <1>7, <1>8, <1>9, <1>10, <1>11, <1>12
       DEF Next, BrowserStep

(***************************************************************************)
(* The inductive invariant holds in every reachable state, for any views,  *)
(* page GUIDs and lists that scripts may set, and any number of calls and  *)
(* navigations.                                                            *)
(***************************************************************************)
THEOREM Invariance == Spec => []IInv
  <1>1. Init => IInv
    BY InitIInv
  <1>2. IInv /\ [Next]_vars => IInv'
    BY NextKeeps, StutterKeeps
  <1>3. QED
    BY <1>1, <1>2, PTL DEF Spec

(***************************************************************************)
(* Every variable of the page source and its clients has its type.         *)
(***************************************************************************)
THEOREM ChromiumTyped == Spec => []TypeOK
  <1>1. IInv => TypeOK
    BY DEF IInv
  <1>2. QED
    BY <1>1, Invariance, PTL

(***************************************************************************)
(* While no change of the pages is on its way to a view, each view is at a *)
(* page that is there (SetPages, TabView's OnTabContentChanged).           *)
(***************************************************************************)
THEOREM ViewsAreOnLivePages == Spec => []ViewsOnLivePages
  <1>1. IInv => ViewsOnLivePages
    BY DEF IInv
  <1>2. QED
    BY <1>1, Invariance, PTL

(***************************************************************************)
(* A script that was told a list of pages, with nothing under way that     *)
(* would tell it another, has the list that the panel has (SetPages,       *)
(* OnGetPages), unless it lost count of its promises.                      *)
(***************************************************************************)
THEOREM ScriptsKeepInStep == Spec => []ScriptsInStep
  <1>1. IInv => ScriptsInStep
    <2> SUFFICES ASSUME IInv, NEW c \in Clients, heard[c] # Nobody,
                        ~confused[c], down[c] = <<>>, setting = Idle
                 PROVE  heard[c] = GuidsOf(pages)
      BY DEF ScriptsInStep
    <2>1. LastWord(c)
      BY DEF IInv, Script
    <2>2. setting.at = "idle"
      BY DEF Idle
    <2>3. QED
      BY <2>1, <2>2 DEF LastWord, SettingOf
  <1>2. QED
    BY <1>1, Invariance, PTL
=============================================================================
