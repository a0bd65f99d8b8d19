------------------------------ MODULE Chromium ------------------------------
(***************************************************************************)
(* ChromiumPageSource: a web page as a panel, with the JavaScript API by   *)
(* which the page divides its content into pages that each view turns on   *)
(* its own.  Three kinds of actors:                                        *)
(*   - the UI thread: TabView, RenderPage(), GetOrCreateClient();          *)
(*   - CEF's thread (multi_threaded_message_loop): the handlers of Client; *)
(*   - a render process per browser (BrowserApp of ChromiumWorker.cpp) and *)
(*     the script in it, which is not ours: it asks for the features, then *)
(*     for the list of pages, and then does what it likes.                 *)
(* Messages between a browser and its render process keep their order.     *)
(* An event that CEF's thread enqueues for the UI thread goes there by the *)
(* thread pool: two of them may swap.  Enqueued by the UI thread itself,   *)
(* it is emitted at once (co_await of the context one is in).              *)
(*                                                                         *)
(* Data left out: sizes and scales, the cursor, tablets, doodles, dev      *)
(* tools, titles; events that change nothing here (pageChanged,            *)
(* peerMessage); requests with malformed arguments.                        *)
(***************************************************************************)
EXTENDS Integers, Sequences, FiniteSets, SequencesExt, FiniteSetsExt

CONSTANTS
  Views,    \* the views, which all show this panel
  Primary,  \* the browser made with the panel; others are named by their view
  Nobody,   \* no client, no view, no list
  FirstList,  \* the list that a script sets if it finds none
  Lists,    \* the lists of pages (their GUIDs) that scripts may set
  MaxOps    \* bound: requests of scripts, navigations, turns of a page

VARIABLES
  kind,        \* mState: "scrollable" or "pages"
  pages,       \* PageBasedState::mPages
  clientOf,    \* PageBasedState::mClients, by view
  viewOf,      \* Client::mViewID
  browser,     \* Client::mBrowser: "none", "starting" or "open"
  current,     \* Client::mCurrentPage
  enabled,     \* the client has the page features
  setting,     \* SetPages() of CEF's thread, between its locks
  loaded,      \* the browser has a document, and mFrameCount is not 0
  promises,    \* JSData::mPromises of the render process
  nextPromise, \* JSData::mNextPromiseID
  heard,       \* the list of pages, as the script knows it
  up,          \* messages to CEF's thread
  down,        \* messages to the render process
  viewPage,    \* TabView::mRootTabPage
  cached,      \* PageSourceWithDelegates::mPageDelegates
  posted,      \* events on their way to the UI thread
  rendering,   \* RenderPage() of the UI thread, before SetCurrentPage()
  nextPage,    \* page IDs given out
  crashed,     \* the program has ended: a null browser, or an exception
  ops,         \* operations so far
  confused     \* history: a promise got the result of the document before

sourceVars == <<kind, pages, setting, nextPage>>
clientVars == <<clientOf, viewOf, browser>>
pageVars == <<current, enabled>>
scriptVars == <<loaded, promises, nextPromise, heard, confused>>
viewVars == <<viewPage, cached, posted, rendering>>
vars == <<sourceVars, clientVars, pageVars, scriptVars, up, down, viewVars,
          crashed, ops>>

Clients == Views \cup {Primary}
Guids == UNION {Range(l) : l \in Lists \cup {FirstList}}

(* Lists are lists of GUIDs, and no list, no client and no view are the     *)
(* same nobody.                                                             *)
ASSUME ChromiumAssumption ==
  /\ Primary \notin Views
  /\ Lists \cup {FirstList} \subseteq Seq(Guids)
  /\ Nobody \notin Views \cup {Primary} \cup Seq(Guids)
  /\ MaxOps \in Nat

NoPage == 0  \* an ID that no page has
NoView == [id |-> NoPage, index |-> 0]
Idle == [at |-> "idle", client |-> Nobody, promise |-> 0, old |-> FALSE]
NotDrawing == [client |-> Nobody, page |-> NoPage]

----------------------------------------------------------------------------
(* Messages and events.                                                    *)

(* RequestPageChange() as documented, with a GUID ("turn"), and with the    *)
(* object that the code looks for a GUID in ("turnTo").                    *)
Calls == {"enable", "get", "set", "turn", "turnTo"}

(* old is history: the document that it is of has been left since.         *)

Request(what, arg, n) ==
  [what |-> what, promise |-> n, arg |-> arg, old |-> FALSE]
Released == Request("released", <<>>, 0)

\* SendJSAsyncResult()
Result(m, ok, list) ==
  [what |-> "result", promise |-> m.promise, ok |-> ok, list |-> list,
   old |-> m.old]
PagesChanged(list) ==
  [what |-> "pagesChanged", promise |-> 0, ok |-> TRUE, list |-> list,
   old |-> FALSE]
Aged(messages) ==
  [i \in DOMAIN messages |->
     [messages[i] EXCEPT !.old = @ \/ messages[i].what
                                       \notin {"released", "pagesChanged"}]]

ContentChanged == [what |-> "content", view |-> Nobody, page |-> NoPage]
PageChange(v, id) == [what |-> "page", view |-> v, page |-> id]

----------------------------------------------------------------------------
(* The page source, as any thread reads it under mStateMutex.              *)

GuidsOf(ps) == [i \in DOMAIN ps |-> ps[i].guid]
IDsOf(ps) == [i \in DOMAIN ps |-> ps[i].id]

\* GetPageIDs()
PageIDs ==
  IF kind = "scrollable" THEN <<current[Primary]>> ELSE IDsOf(pages)

\* GetPageCount() # 0
HavePages == IF kind = "scrollable" THEN loaded[Primary] ELSE pages # <<>>

\* The browsers that GetOrCreateClient() has given to a view.
Serving == {clientOf[v] : v \in Views} \ {Nobody}

\* Mutant: the primary client is not told whose it is (SetViewID).
GetOrCreateClient_NoViewID(v) ==
  IF kind = "scrollable" \/ clientOf[v] # Nobody THEN UNCHANGED clientVars
  ELSE LET c == IF Serving = {} THEN Primary ELSE v
       IN  /\ clientOf' = [clientOf EXCEPT ![v] = c]
           /\ viewOf' = IF c = Primary THEN viewOf
                        ELSE [viewOf EXCEPT ![v] = v]
           /\ browser' = IF c = Primary THEN browser
                         ELSE [browser EXCEPT ![v] = "starting"]

GetOrCreateClient(v) ==
  IF kind = "scrollable" \/ clientOf[v] # Nobody THEN UNCHANGED clientVars
  ELSE LET c == IF Serving = {} THEN Primary ELSE v
       IN  /\ clientOf' = [clientOf EXCEPT ![v] = c]
           /\ viewOf' = [viewOf EXCEPT ![c] = v]
           /\ browser' = IF c = Primary THEN browser
                         ELSE [browser EXCEPT ![v] = "starting"]

\* What it returns.
Client(v) == IF kind = "scrollable" THEN Primary ELSE clientOf'[v]

----------------------------------------------------------------------------
(* TabView.                                                                *)

\* Mutant: a view on a page other than the first stays there.
AfterContentChange_Stays(ids, p) ==
  IF ids = <<>> THEN NoView
  ELSE IF p.index = 0 THEN [id |-> ids[1], index |-> 0] ELSE p

\* TabView::OnTabContentChanged()
AfterContentChange(ids, p) ==
  IF ids = <<>> THEN NoView
  ELSE IF p.id \notin Range(ids) \/ p.index = 0
       THEN [id |-> ids[1], index |-> 0]
       ELSE p

TabContentChanged == viewPage' = [v \in Views |->
                                    AfterContentChange(PageIDs, viewPage[v])]

\* TabView::SetPageID(): the cursor event at its end reaches the client.
SetPageID(v, id) ==
  IF id \in Range(PageIDs)
  THEN /\ viewPage' = [viewPage EXCEPT ![v] =
            [id |-> id,
             index |-> (CHOOSE i \in DOMAIN PageIDs : PageIDs[i] = id) - 1]]
       /\ GetOrCreateClient(v)
  ELSE UNCHANGED <<viewPage, clientVars>>

\* TabView::GetPageID()
ShownPage(v) ==
  IF viewPage[v].id # NoPage \/ PageIDs = <<>> THEN viewPage[v].id
  ELSE PageIDs[1]

----------------------------------------------------------------------------
(* The panel has just been made: CreateClient() has asked for a browser.   *)
Init ==
  /\ kind = "scrollable" /\ pages = <<>>
  /\ clientOf = [v \in Views |-> Nobody]
  /\ viewOf = [c \in Clients |-> Nobody]
  /\ browser = [c \in Clients |-> IF c = Primary THEN "starting" ELSE "none"]
  /\ current = [c \in Clients |-> IF c = Primary THEN 1 ELSE NoPage]
  /\ enabled = [c \in Clients |-> FALSE]
  /\ setting = Idle
  /\ loaded = [c \in Clients |-> FALSE]
  /\ promises = [c \in Clients |-> {}]
  /\ nextPromise = [c \in Clients |-> 0]
  /\ heard = [c \in Clients |-> Nobody]
  /\ up = [c \in Clients |-> <<>>] /\ down = [c \in Clients |-> <<>>]
  /\ viewPage = [v \in Views |-> [id |-> 1, index |-> 0]]
  /\ cached = {} /\ posted = {} /\ rendering = NotDrawing
  /\ nextPage = 2 /\ crashed = FALSE /\ ops = 0
  /\ confused = [c \in Clients |-> FALSE]

----------------------------------------------------------------------------
(* The render process.                                                     *)

\* JSAsyncRequest(), by a script whose promises done are resolved.
AsyncRequest(c, what, arg, done) ==
  /\ promises' = [promises EXCEPT ![c] =
       (@ \ done) \cup {[n |-> nextPromise[c], what |-> what, arg |-> arg]}]
  /\ nextPromise' = [nextPromise EXCEPT ![c] = @ + 1]
  /\ up' = [up EXCEPT ![c] = Append(@, Request(what, arg, nextPromise[c]))]

\* The script of a new document, whose mJS is empty, asks for the features.
OnContextCreated(c, before) ==
  /\ loaded' = [loaded EXCEPT ![c] = TRUE]
  /\ heard' = [heard EXCEPT ![c] = Nobody]
  /\ confused' = [confused EXCEPT ![c] = FALSE]
  /\ promises' = [promises EXCEPT ![c] =
                    {[n |-> 0, what |-> "enable", arg |-> <<>>]}]
  /\ nextPromise' = [nextPromise EXCEPT ![c] = 1]
  /\ up' = [up EXCEPT ![c] = before \o <<Request("enable", <<>>, 0)>>]

\* OnContextReleased() of the old document comes first.
Navigate(c) ==
  /\ loaded[c] /\ ops < MaxOps
  /\ OnContextCreated(c, Append(Aged(up[c]), Released))
  /\ down' = [down EXCEPT ![c] = Aged(@)]
  /\ setting' = [setting EXCEPT !.old = @ \/ setting.client = c]
  /\ ops' = ops + 1
  /\ UNCHANGED <<kind, pages, nextPage, clientVars, pageVars, viewVars, crashed>>

\* A script that knows the pages calls SetPages() or RequestPageChange().
Call(c) ==
  /\ heard[c] # Nobody /\ promises[c] = {} /\ ops < MaxOps
  /\ \/ \E l \in Lists : AsyncRequest(c, "set", l, {})
     \/ \E g \in Range(heard[c]), what \in {"turn", "turnTo"} :
          AsyncRequest(c, what, <<g>>, {})
  /\ ops' = ops + 1
  /\ UNCHANGED <<sourceVars, clientVars, pageVars, loaded, heard, confused, down,
                 viewVars, crashed>>

(* What the script asks for when its promise p gets the result m: like the *)
(* example in data/, it sets a list of pages if it finds none.             *)
Then(p, m) ==
  IF ~m.ok THEN {}
  ELSE IF p.what = "enable" THEN {[what |-> "get", arg |-> <<>>]}
  ELSE IF p.what = "get" /\ m.list = <<>>
       THEN {[what |-> "set", arg |-> FirstList]}
  ELSE {}

React(c, p, m) ==
  /\ heard' = [heard EXCEPT ![c] =
       IF p.what = "get" /\ m.ok THEN m.list
       ELSE IF p.what = "set" /\ m.ok THEN p.arg ELSE @]
  /\ confused' = [confused EXCEPT ![c] = @ \/ m.old]
  /\ IF Then(p, m) # {}
     THEN \E r \in Then(p, m) : AsyncRequest(c, r.what, r.arg, {p})
     ELSE /\ promises' = [promises EXCEPT ![c] = @ \ {p}]
          /\ UNCHANGED <<nextPromise, up>>

\* BrowserApp::OnProcessMessageReceived()
Receive(c) ==
  /\ down[c] # <<>>
  /\ down' = [down EXCEPT ![c] = Tail(@)]
  /\ LET m == Head(down[c])
         mine == {p \in promises[c] : p.n = m.promise}
     IN  IF m.what = "result" /\ mine # {}
         THEN \E p \in mine : React(c, p, m)
         ELSE /\ heard' = IF m.what = "pagesChanged" /\ heard[c] # Nobody
                          THEN [heard EXCEPT ![c] = m.list] ELSE heard
              /\ UNCHANGED <<promises, nextPromise, confused, up>>
  /\ UNCHANGED <<sourceVars, clientVars, pageVars, loaded, viewVars, crashed,
                 ops>>

----------------------------------------------------------------------------
(* CEF's thread.                                                           *)

(* The browser is there; its first document loads and paints.  The events  *)
(* of the first frame are emitted right here (OnAcceleratedPaint).  A      *)
(* first frame that came later would only keep RenderPage() waiting.       *)
OnAfterCreated(c) ==
  /\ browser[c] = "starting"
  /\ browser' = [browser EXCEPT ![c] = "open"]
  /\ OnContextCreated(c, <<>>)
  /\ TabContentChanged
  /\ UNCHANGED <<sourceVars, clientOf, viewOf, pageVars, down, cached, posted,
                 rendering, crashed, ops>>

\* Client::SetCurrentPage(), from RequestPageChange(): c has a view.
TurnTo(c, id) ==
  IF id = current[c] THEN UNCHANGED <<current, posted>>
  ELSE /\ current' = [current EXCEPT ![c] = id]
       /\ posted' = posted \cup {PageChange(viewOf[c], id)}

\* Mutant: the page's features stay enabled.
ContextReleased_KeepsFeatures(c) ==
  /\ current' = [current EXCEPT
       ![c] = IF kind = "scrollable" THEN nextPage ELSE NoPage]
  /\ nextPage' = IF kind = "scrollable" THEN nextPage + 1 ELSE nextPage
  /\ UNCHANGED <<enabled, kind, pages, setting, posted, down>>

\* mCurrentPage = {}: a new ID, which is shown to the tab while scrollable.
ContextReleased(c) ==
  /\ current' = [current EXCEPT
       ![c] = IF kind = "scrollable" THEN nextPage ELSE NoPage]
  /\ nextPage' = IF kind = "scrollable" THEN nextPage + 1 ELSE nextPage
  /\ enabled' = [enabled EXCEPT ![c] = FALSE]
  /\ UNCHANGED <<kind, pages, setting, posted, down>>

Answer(c, m, ok, list) ==
  down' = [down EXCEPT ![c] = Append(@, Result(m, ok, list))]

EnableExperimentalFeatures(c, m) ==
  /\ enabled' = [enabled EXCEPT ![c] = TRUE]
  /\ Answer(c, m, ~enabled[c], <<>>)
  /\ UNCHANGED <<kind, pages, setting, nextPage, current, posted>>

GetPages(c, m) ==
  /\ kind' = IF enabled[c] THEN "pages" ELSE kind
  /\ Answer(c, m, enabled[c], GuidsOf(pages))
  /\ UNCHANGED <<pages, setting, nextPage, current, enabled, posted>>

(* The error is for a page that has no list, a GUID that is not in it, a   *)
(* client of no view, and for any dashboard that had no cursor event       *)
(* lately.  data.at("guid") of a string throws, in a fire_and_forget.      *)
RequestPageChange(c, m) ==
  /\ LET is == {i \in DOMAIN pages : pages[i].guid = m.arg[1]}
     IN  \/ /\ Answer(c, m, FALSE, <<>>)
            /\ UNCHANGED <<current, posted, crashed>>
         \/ /\ kind = "pages" /\ m.what = "turn"
            /\ crashed' = TRUE
            /\ UNCHANGED <<current, posted, down>>
         \/ /\ kind = "pages" /\ m.what = "turnTo" /\ is # {} /\ c \in Serving
            /\ TurnTo(c, pages[Min(is)].id) /\ Answer(c, m, TRUE, <<>>)
            /\ UNCHANGED crashed
  /\ UNCHANGED <<kind, pages, setting, nextPage, enabled>>

\* SetPages(), its first lock: every page gets an ID of its own.
SetPages(c, m) ==
  /\ IF kind # "pages"
     THEN Answer(c, m, FALSE, <<>>) /\ UNCHANGED <<pages, nextPage, setting>>
     ELSE /\ pages' = [i \in DOMAIN m.arg |->
                         [guid |-> m.arg[i], id |-> nextPage + i - 1]]
          /\ nextPage' = nextPage + Len(m.arg)
          /\ setting' = [at |-> "send", client |-> c, promise |-> m.promise,
                         old |-> m.old]
          /\ UNCHANGED down
  /\ UNCHANGED <<kind, current, enabled, posted>>

\* Client::OnProcessMessageReceived()
Handle(c) ==
  /\ setting = Idle /\ up[c] # <<>>
  /\ up' = [up EXCEPT ![c] = Tail(@)]
  /\ LET m == Head(up[c])
     IN  \/ m.what = "released" /\ ContextReleased(c) /\ UNCHANGED crashed
         \/ /\ m.what = "enable"
            /\ EnableExperimentalFeatures(c, m) /\ UNCHANGED crashed
         \/ m.what = "get" /\ GetPages(c, m) /\ UNCHANGED crashed
         \/ m.what \in {"turn", "turnTo"} /\ RequestPageChange(c, m)
         \/ m.what = "set" /\ SetPages(c, m) /\ UNCHANGED crashed
  /\ UNCHANGED <<clientVars, scriptVars, viewPage, cached, rendering, ops>>

\* Mutant: only browsers at a page of the list are told.
SendToPeers_Shown ==
  /\ setting.at = "send"
  /\ LET peers == {c \in Serving \ {setting.client} :
                    current[c] \in Range(IDsOf(pages))}
     IN  /\ crashed' = (\E c \in peers : browser[c] # "open")
         /\ down' = [c \in Clients |->
              IF c \in peers THEN Append(down[c], PagesChanged(GuidsOf(pages)))
              ELSE down[c]]
  /\ setting' = [setting EXCEPT !.at = "post"]
  /\ UNCHANGED <<kind, pages, nextPage, clientVars, pageVars, scriptVars, up,
                 viewVars, ops>>

\* SetPages(), its second lock: mBrowser of a peer may still be null.
SendToPeers ==
  /\ setting.at = "send"
  /\ LET peers == Serving \ {setting.client}
     IN  /\ crashed' = (\E c \in peers : browser[c] # "open")
         /\ down' = [c \in Clients |->
              IF c \in peers THEN Append(down[c], PagesChanged(GuidsOf(pages)))
              ELSE down[c]]
  /\ setting' = [setting EXCEPT !.at = "post"]
  /\ UNCHANGED <<kind, pages, nextPage, clientVars, pageVars, scriptVars, up,
                 viewVars, ops>>

\* SetPages(), after its locks, and the answer.
PostContentChanged ==
  /\ setting.at = "post"
  /\ posted' = posted \cup {ContentChanged}
  /\ down' = [down EXCEPT ![setting.client] =
                Append(@, Result(setting, TRUE, <<>>))]
  /\ setting' = Idle
  /\ UNCHANGED <<kind, pages, nextPage, clientVars, pageVars, scriptVars, up,
                 viewPage, cached, rendering, crashed, ops>>

----------------------------------------------------------------------------
(* The UI thread.                                                          *)

\* An event arrives.
RunEvent ==
  /\ rendering = NotDrawing
  /\ \E e \in posted :
       /\ posted' = posted \ {e}
       /\ IF e = ContentChanged
          THEN TabContentChanged /\ UNCHANGED clientVars
          ELSE SetPageID(e.view, e.page)
  /\ UNCHANGED <<sourceVars, pageVars, scriptVars, up, down, cached, rendering,
                 crashed, ops>>

\* The user turns a page.
TurnPage(v) ==
  /\ rendering = NotDrawing /\ kind = "pages" /\ ops < MaxOps
  /\ \E id \in Range(PageIDs) \ {viewPage[v].id} : SetPageID(v, id)
  /\ ops' = ops + 1
  /\ UNCHANGED <<sourceVars, pageVars, scriptVars, up, down, cached, posted,
                 rendering, crashed>>

\* RenderPage(), up to the call of SetCurrentPage().
RenderPage(v) ==
  /\ rendering = NotDrawing /\ HavePages
  /\ LET id == ShownPage(v)
     IN  /\ id \in cached \cup Range(PageIDs)
         /\ cached' = cached \cup {id}
         /\ GetOrCreateClient(v)
         /\ rendering' =
              IF /\ loaded[Client(v)] /\ id # current[Client(v)]
                 /\ kind = "scrollable" \/ id \in Range(PageIDs)
              THEN [client |-> Client(v), page |-> id]
              ELSE NotDrawing
  /\ UNCHANGED <<sourceVars, pageVars, scriptVars, up, down, viewPage, posted,
                 crashed, ops>>

\* SetCurrentPage() and the drawing; its event is emitted at once.
SetCurrentPage ==
  /\ rendering # NotDrawing
  /\ rendering' = NotDrawing
  /\ current' = [current EXCEPT ![rendering.client] = rendering.page]
  /\ IF /\ current[rendering.client] # rendering.page
        /\ viewOf[rendering.client] # Nobody /\ kind = "pages"
     THEN SetPageID(viewOf[rendering.client], rendering.page)
     ELSE UNCHANGED <<viewPage, clientVars>>
  /\ UNCHANGED <<sourceVars, enabled, scriptVars, up, down, cached,
                 posted, crashed, ops>>

----------------------------------------------------------------------------
BrowserStep ==
  \/ \E c \in Clients :
       Receive(c) \/ OnAfterCreated(c) \/ Handle(c)
  \/ SendToPeers \/ PostContentChanged

Next ==
  /\ ~crashed
  /\ \/ BrowserStep
     \/ \E c \in Clients : Navigate(c) \/ Call(c)
     \/ \E v \in Views : TurnPage(v) \/ RenderPage(v)
     \/ RunEvent \/ SetCurrentPage

Spec == Init /\ [][Next]_vars

(***************************************************************************)
(* Browsers start, documents load and paint, messages and events arrive,   *)
(* and the frame loop draws every view: each change above asks for a       *)
(* repaint.  Nobody is obliged to call, to navigate or to turn a page.     *)
(***************************************************************************)
FairSpec ==
  /\ Spec
  /\ WF_vars(~crashed /\ SendToPeers) /\ WF_vars(~crashed /\ PostContentChanged)
  /\ WF_vars(~crashed /\ RunEvent) /\ WF_vars(~crashed /\ SetCurrentPage)
  /\ \A v \in Views : WF_vars(~crashed /\ RenderPage(v))
  /\ \A c \in Clients :
       /\ WF_vars(~crashed /\ Receive(c))
       /\ WF_vars(~crashed /\ OnAfterCreated(c))
       /\ WF_vars(~crashed /\ Handle(c))

----------------------------------------------------------------------------

\* Every variable has its type; only a client with a browser serves a view.
TypeOK ==
  /\ kind \in {"scrollable", "pages"}
  /\ pages \in Seq([guid: Guids, id: Nat]) /\ nextPage \in Nat
  /\ clientOf \in [Views -> Clients \cup {Nobody}]
  /\ viewOf \in [Clients -> Views \cup {Nobody}]
  /\ \A v \in Views : clientOf[v] # Nobody =>
       viewOf[clientOf[v]] = v /\ browser[clientOf[v]] # "none"
  /\ browser \in [Clients -> {"none", "starting", "open"}]
  /\ current \in [Clients -> Nat]
  /\ setting \in [at: {"idle", "send", "post"}, client: Clients \cup {Nobody},
                  promise: Nat, old: BOOLEAN]
  /\ {loaded, enabled, confused} \subseteq [Clients -> BOOLEAN]
  /\ promises \in [Clients -> SUBSET [n: Nat, what: Calls, arg: Seq(Guids)]]
  /\ nextPromise \in [Clients -> Nat]
  /\ heard \in [Clients -> {Nobody} \cup Seq(Guids)]
  /\ up \in [Clients -> Seq([what: Calls \cup {"released"}, promise: Nat,
                             arg: Seq(Guids), old: BOOLEAN])]
  /\ down \in [Clients -> Seq([what: {"result", "pagesChanged"}, promise: Nat,
                               ok: BOOLEAN, list: Seq(Guids), old: BOOLEAN])]
  /\ viewPage \in [Views -> [id: Nat, index: Nat]]
  /\ cached \subseteq Nat
  /\ posted \subseteq {ContentChanged} \cup [what: {"page"}, view: Views, page: Nat]
  /\ rendering = NotDrawing \/ rendering \in [client: Clients, page: Nat]
  /\ crashed \in BOOLEAN /\ ops \in 0 .. MaxOps

(***************************************************************************)
(* A script that has the list of pages, and no message under way, has the  *)
(* list that the panel has, whoever set it and in whatever order the calls *)
(* of the views' scripts were handled.  Left out is a document one of      *)
(* whose promises took the result of the document before it: promises are  *)
(* numbered from 0 in each (JSAsyncRequest).                               *)
(***************************************************************************)
ScriptsInStep ==
  \A c \in Clients :
    (heard[c] # Nobody /\ ~confused[c] /\ down[c] = <<>> /\ setting = Idle)
      => heard[c] = GuidsOf(pages)

(***************************************************************************)
(* While there are pages, a view is on one of them, unless the event that  *)
(* takes it there is on its way (Client::SetPages, OnTabContentChanged).   *)
(***************************************************************************)
ViewsOnLivePages ==
  (kind = "pages" /\ pages # <<>> /\ setting = Idle
     /\ ContentChanged \notin posted)
    => \A v \in Views : viewPage[v].id \in Range(PageIDs)

\* What the script in c wanted, it has got.
Ready(c) == heard[c] # Nobody /\ promises[c] = {}

\* The browser of v is at the page that v is on.
AtPage(v) ==
  clientOf[v] # Nobody /\ current[clientOf[v]] = viewPage[v].id

(***************************************************************************)
(* When scripts and users have stopped, every script that was loaded has   *)
(* its list and an answer to each request, and every view is at the page   *)
(* that its browser draws: whatever lists were set and pages turned by     *)
(* requests in the form that the code takes.  A request to turn the page   *)
(* in the documented form, or a list set while a browser starts, may       *)
(* instead end the program (RequestPageChange(), SetPages()).              *)
(***************************************************************************)
ScriptsAndViewsSettle ==
  <>[](\/ crashed
       \/ /\ \A c \in Clients : loaded[c] => Ready(c)
          /\ HavePages /\ kind = "pages" => \A v \in Views : AtPage(v))

=============================================================================
