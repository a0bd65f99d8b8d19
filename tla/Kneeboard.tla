----------------------------- MODULE Kneeboard -----------------------------
(***************************************************************************)
(* KneeboardState and TabsList: the panels (tabs) of the active profile,   *)
(* the VR views that show them, and the profiles' files.  Everything runs  *)
(* on the UI thread, in coroutines that interleave only where they await;  *)
(* one action is what a coroutine does from one await to the next.         *)
(*                                                                         *)
(* KneeboardState's mutex is re-entrant for unique holders, who are told   *)
(* apart by their thread: two coroutines can both own it.  Shared holders  *)
(* are not told apart at all, so a thread that holds it shared and asks    *)
(* for it unique, or the other way round, waits for itself.                *)
(***************************************************************************)
EXTENDS Integers, FiniteSets, SequencesExt

CONSTANTS
  Profiles,       \* profile GUIDs
  FirstProfile,   \* the profile the program starts in
  Files,          \* what each profile's files hold at that time
  Tabs,           \* panels, by persistent ID
  DefaultTabs,    \* what TabsSettings falls back to after a reset
  NoTab,          \* a view that is bound to no panel
  Mirrors,        \* views that mirror another one: never bound to a panel
  MaxViewCount,   \* SHM's limit on views, 16 in the code
  UI,             \* coroutines started by clicks in the settings pages
  FrameLoop,      \* the coroutine that draws and flushes the event queue
  MaxOps          \* bound: how often the user or the API asks for something

VARIABLES
  tabs,     \* TabsList::mTabs
  views,    \* mSettings.mViews.mViews
  shown,    \* mViews, by GUID
  given,    \* the tabs that mViews have
  profile,  \* mProfiles.mActiveProfile
  saving,   \* mSaveSettingsEnabled
  saved,    \* the profiles' files
  queue,    \* mOrderedEventQueue
  delayed,  \* events that the thread's EventDelays keep back
  co,       \* what each coroutine is suspended in
  frame,    \* FrameTick(): "idle" or "posted", i.e. drawn, not yet flushed
  stuck,    \* the UI thread waits for a lock that it holds itself
  made,     \* views made so far, which numbers their GUIDs
  ops,      \* requests so far, up to MaxOps
  want,     \* history: the panels that the user asked for, by profile
  raced,    \* history: changes of the panels or the profile overlapped
  edited    \* history: the views were edited after the last reconciliation

panelVars == <<tabs, views, shown, given, made>>
fileVars == <<profile, saving, saved>>
eventVars == <<queue, delayed>>
threadVars == <<co, frame, stuck>>
historyVars == <<want, raced, edited>>
vars == <<panelVars, fileVars, eventVars, threadVars, historyVars, ops>>

Coroutines == UI \cup {FrameLoop}

(* An event of mOrderedEventQueue, by what its handler does. *)
Reconcile == [kind |-> "reconcile"]
Event == [kind: {"reconcile", "settings", "bookmark"}]
           \cup [kind: {"switch"}, to: Profiles]

View == [guid: Nat, tab: Tabs \cup {NoTab}]
Independent(view) == view.guid \notin Mirrors
GUIDs(vs) == [i \in DOMAIN vs |-> vs[i].guid]
ViewsOf(vs, tab) == {i \in DOMAIN vs : Independent(vs[i]) /\ vs[i].tab = tab}

File == [tabs: Seq(Tabs), views: Seq(View)]

(* The views of the files have GUIDs up to this one, new ones those above. *)
LastGUID == 100

OneViewEach(vs) == \A i, j \in DOMAIN vs :
  Independent(vs[i]) /\ Independent(vs[j]) /\ vs[i].tab = vs[j].tab =>
    i = j \/ vs[i].tab = NoTab

(* A panel's ID is unique, so that no list has it twice and no file two     *)
(* views of its own for it.                                                 *)
ASSUME KneeboardAssumption ==
  /\ FirstProfile \in Profiles
  /\ NoTab \notin Tabs
  /\ FrameLoop \notin UI
  /\ MaxViewCount \in Nat \ {0} /\ MaxOps \in Nat
  /\ DefaultTabs \in Seq(Tabs) /\ IsInjective(DefaultTabs)
  /\ Files \in [Profiles -> File]
  /\ \A p \in Profiles :
       IsInjective(Files[p].tabs) /\ OneViewEach(Files[p].views)
  /\ Mirrors \subseteq 0 .. LastGUID

NotRunning == [op |-> "none", step |-> "none", tabs |-> <<>>, views |-> <<>>]

(* Coroutines suspended with the lock held; unique holders also hold an    *)
(* EventDelay, which keeps the thread's events back.                       *)
SharedHolders == {c \in Coroutines : co[c].op \in {"remove", "debug"}}
UniqueHolders == {c \in Coroutines : co[c].op \in {"switch", "restore"}}

MayLock == UniqueHolders # {} \/ SharedHolders = {}
MayLockShared == UniqueHolders = {}

(* Coroutines that await inside TabsList::LoadSettings() or SetTabs(). *)
Changing == {c \in Coroutines : co[c].step \in {"loading", "disposing"}}

----------------------------------------------------------------------------
(* What the methods do, as conjuncts of the actions that call them. *)

(* SaveSettings(), called last: what it saves is the state after the step. *)
SaveSettings ==
  saved' = IF saving
             THEN [saved EXCEPT ![profile] = [tabs |-> tabs', views |-> views']]
             ELSE saved

InitializeViews == shown' = GUIDs(views') /\ given' = tabs'

(* A view whose panel is gone is freed. *)
Freed(vs, panels) ==
  [i \in DOMAIN vs |->
     IF Independent(vs[i]) /\ vs[i].tab \notin ToSet(panels)
       THEN [vs[i] EXCEPT !.tab = NoTab]
       ELSE vs[i]]

\* Mutant: a view made for a panel gets no GUID.
Claim_NoGUID(vs, tab, guid) ==
  IF ViewsOf(vs, tab) # {} THEN vs
  ELSE Append(vs, [guid |-> NoTab, tab |-> tab])

(* A panel that no view shows gets the first spare one, else a new one     *)
(* while there is room.                                                    *)
Claim(vs, tab, guid) ==
  IF ViewsOf(vs, tab) # {} THEN vs
  ELSE IF ViewsOf(vs, NoTab) # {}
    THEN [vs EXCEPT ![Min(ViewsOf(vs, NoTab))].tab = tab]
  ELSE IF Len(vs) >= MaxViewCount THEN vs
  ELSE Append(vs, [guid |-> guid, tab |-> tab])

(* The bindings that SyncViewsWithTabs() makes from the views vs, after it *)
(* has looked at the first n panels.                                       *)
Synced(vs, panels) ==
  LET after[n \in 0 .. Len(panels)] ==
        IF n = 0 THEN Freed(vs, panels)
        ELSE Claim(after[n - 1], panels[n],
                   made + 1 + Len(after[n - 1]) - Len(vs))
  IN after[Len(panels)]

SyncViewsWithTabs(vs) ==
  /\ views' = Synced(vs, tabs')
  /\ made' = made + Len(views') - Len(vs)
  /\ edited' = FALSE

\* Mutant: evTabsChangedEvent reconciles nothing.
Deliver_NoReconcile(events, earlier, holders) ==
  /\ delayed' = IF holders = {} THEN {} ELSE events
  /\ queue' = earlier

(* The thread's events once its EventDelays are those of `holders': none   *)
(* is kept back when there is none, and evTabsChangedEvent queues a        *)
(* reconciliation.  Both events end in SaveSettings().                     *)
Deliver(events, earlier, holders) ==
  /\ delayed' = IF holders = {} THEN {} ELSE events
  /\ queue' = IF holders = {} /\ "tabs" \in events
                THEN Append(earlier, Reconcile)
                ELSE earlier

Emit(event) ==
  /\ Deliver(delayed \cup {event}, queue, UniqueHolders)
  /\ IF UniqueHolders = {} THEN SaveSettings ELSE UNCHANGED saved

\* Mutant: the tabs are assigned and the settings not saved.
AssignTabs_Unsaved(new, holders) ==
  /\ tabs' = new /\ given' = new
  /\ Deliver(delayed \cup {"tabs"}, queue, holders)
  /\ UNCHANGED <<views, shown, made, saved>>

(* The end of TabsList::SetTabs(). *)
AssignTabs(new, holders) ==
  /\ tabs' = new
  /\ UNCHANGED <<views, shown, made>>
  /\ Deliver(delayed \cup {"tabs"}, queue, holders)
  /\ IF holders = {}
       THEN given' = new /\ SaveSettings
       ELSE UNCHANGED <<given, saved>>

----------------------------------------------------------------------------

Init ==
  /\ tabs = Files[FirstProfile].tabs
  /\ made = LastGUID
  /\ views = Synced(Files[FirstProfile].views, tabs)
  /\ shown = GUIDs(views) /\ given = tabs
  /\ profile = FirstProfile /\ saving = TRUE
  /\ saved = [Files EXCEPT ![FirstProfile].views = views]
  /\ queue = <<>> /\ delayed = {}
  /\ co = [c \in Coroutines |-> NotRunning]
  /\ frame = "idle" /\ stuck = FALSE /\ ops = 0
  /\ want = [p \in Profiles |-> ToSet(Files[p].tabs)]
  /\ raced = FALSE /\ edited = FALSE

Request == ops < MaxOps /\ ops' = ops + 1

(* mMutex.lock() or lock_shared() does not return. *)
Block == stuck' = TRUE /\ UNCHANGED <<co, frame>>
BlockAtOnce ==
  Block /\ UNCHANGED <<panelVars, fileVars, eventVars, historyVars>>

(* Only one ContentDialog can be open. *)
NoDialog == \A c \in Coroutines : co[c].step \notin {"asking", "choosing"}

Suspend(c, op, step, newTabs, newViews) ==
  /\ co' = [co EXCEPT ![c] =
              [op |-> op, step |-> step, tabs |-> newTabs, views |-> newViews]]
  /\ UNCHANGED <<frame, stuck>>

Return(c) == co' = [co EXCEPT ![c] = NotRunning] /\ UNCHANGED <<frame, stuck>>

Wants(panels) == want' = [want EXCEPT ![profile] = panels]
NoteRace == raced' = (raced \/ Changing # {})

----------------------------------------------------------------------------
(* TabsSettingsPage. *)

(* RemoveTab() and ShowDebugInfo(): a dialog, with a shared lock held. *)
OpenDialog(c, op, about) ==
  /\ Request /\ NoDialog /\ co[c] = NotRunning
  /\ \/ ~MayLockShared /\ BlockAtOnce
     \/ /\ MayLockShared
        /\ Suspend(c, op, "asking", about, <<>>)
        /\ UNCHANGED <<panelVars, fileVars, eventVars, historyVars>>

AskToRemove(c, tab) == OpenDialog(c, "remove", <<tab>>)
ShowDebugInfo(c) == OpenDialog(c, "debug", <<>>)

Dismiss(c) ==
  /\ co[c].step \in {"asking", "choosing"}
  /\ Return(c)
  /\ UNCHANGED <<panelVars, fileVars, eventVars, historyVars, ops>>

(* SetTabs() without the panel: it is disposed of first. *)
RemoveTab(c) ==
  LET tab == co[c].tabs[1]
  IN /\ co[c].op = "remove" /\ co[c].step = "asking"
     /\ \/ /\ tab \notin ToSet(tabs)
           /\ Return(c)
           /\ UNCHANGED <<panelVars, historyVars>>
        \/ /\ \E idx \in DOMAIN tabs :
                /\ tabs[idx] = tab /\ \A i \in 1 .. idx - 1 : tabs[i] # tab
                /\ Suspend(c, "remove", "disposing", RemoveAt(tabs, idx), <<>>)
           /\ tabs' = <<>>
           /\ Wants(want[profile] \ {tab}) /\ NoteRace
           /\ UNCHANGED <<views, shown, given, made, edited>>
     /\ UNCHANGED <<fileVars, eventVars, ops>>

FinishRemoveTab(c) ==
  /\ co[c].op = "remove" /\ co[c].step = "disposing"
  /\ AssignTabs(co[c].tabs, {})
  /\ Return(c)
  /\ UNCHANGED <<profile, saving, historyVars, ops>>

(* Adding and reordering dispose of nothing, so SetTabs() does not await. *)
AddTabs(tab) ==
  /\ Request
  /\ \/ ~MayLockShared /\ BlockAtOnce
     \/ /\ MayLockShared
        /\ AssignTabs(<<tab>> \o tabs, {})
        /\ Wants(want[profile] \cup {tab}) /\ NoteRace
        /\ UNCHANGED <<profile, saving, threadVars, edited>>

OnTabsReordered ==
  /\ Request /\ Len(tabs) > 1
  /\ \/ ~MayLockShared /\ BlockAtOnce
     \/ /\ MayLockShared
        /\ AssignTabs(Reverse(tabs), {})
        /\ NoteRace
        /\ UNCHANGED <<profile, saving, threadVars, want, edited>>

(* RestoreDefaults(), once confirmed: ResetTabsSettings() deletes the file *)
(* and SetTabsSettings() loads what is inherited then.                     *)
RestoreDefaults(c) ==
  /\ Request /\ NoDialog /\ co[c] = NotRunning
  /\ saved' = [saved EXCEPT ![profile].tabs = DefaultTabs]
  /\ Wants(ToSet(DefaultTabs)) /\ NoteRace
  /\ \/ ~MayLock /\ Block
     \/ MayLock /\ Suspend(c, "restore", "loading", DefaultTabs, <<>>)
  /\ UNCHANGED <<panelVars, profile, saving, eventVars, edited>>

(* Pages that read the panels under a shared lock, for an instant. *)
ReadPanels == Request /\ ~MayLockShared /\ BlockAtOnce

----------------------------------------------------------------------------
(* Profiles. *)

\* Mutant: saving stays allowed while the new profile is loaded.
SetProfileSettings_StillSaving(c, to, earlier) ==
  /\ MayLock /\ to # profile
  /\ profile' = to /\ views' = saved[to].views
  /\ Suspend(c, "switch", "loading", saved[to].tabs, saved[to].views)
  /\ queue' = earlier /\ NoteRace
  /\ UNCHANGED <<tabs, shown, given, made, saving, saved, delayed, want, edited>>

(* SetProfileSettings() of coroutine c, up to its await; it was called     *)
(* with the events `earlier' in the queue.                                 *)
SetProfileSettings(c, to, earlier) ==
  \/ /\ ~MayLock /\ Block
     /\ saving' = FALSE /\ queue' = earlier
     /\ UNCHANGED <<panelVars, profile, saved, delayed, historyVars>>
  \/ /\ MayLock /\ to = profile
     /\ saving' = TRUE /\ NoteRace
     /\ Deliver(delayed, earlier, UniqueHolders)
     /\ UNCHANGED <<panelVars, profile, saved, threadVars, want, edited>>
  \/ /\ MayLock /\ to # profile
     /\ saving' = FALSE
     /\ profile' = to /\ views' = saved[to].views
     /\ Suspend(c, "switch", "loading", saved[to].tabs, saved[to].views)
     /\ queue' = earlier /\ NoteRace
     /\ UNCHANGED <<tabs, shown, given, made, saved, delayed, want, edited>>

ChooseProfile(c, to) ==
  /\ Request /\ co[c] = NotRunning /\ to # profile
  /\ SetProfileSettings(c, to, queue)

(* LoadSettings() has made the new tabs; SetTabs() disposes of the old. *)
DisposeOldTabs(c) ==
  /\ co[c].step = "loading"
  /\ co' = [co EXCEPT ![c].step = "disposing"]
  /\ tabs' = <<>>
  /\ UNCHANGED <<views, shown, given, made, fileVars, eventVars, frame, stuck,
                 historyVars, ops>>

FinishRestoreDefaults(c) ==
  /\ co[c].op = "restore" /\ co[c].step = "disposing"
  /\ AssignTabs(co[c].tabs, UniqueHolders \ {c})
  /\ Return(c)
  /\ UNCHANGED <<profile, saving, historyVars, ops>>

(* SetViewsSettings() and SyncViewsWithTabs(); then the lock goes, the     *)
(* delayed events are emitted, and saving is allowed again last.           *)
FinishSwitch(c) ==
  /\ co[c].op = "switch" /\ co[c].step = "disposing"
  /\ tabs' = co[c].tabs
  /\ SyncViewsWithTabs(co[c].views)
  /\ InitializeViews
  /\ SaveSettings
  /\ Deliver(delayed \cup {"tabs"}, queue, UniqueHolders \ {c})
  /\ saving' = TRUE
  /\ Return(c)
  /\ UNCHANGED <<profile, want, raced, ops>>

----------------------------------------------------------------------------
(* Other settings. *)

SetViewsSettings(new) ==
  /\ views' = new
  /\ UNCHANGED <<tabs, profile, saving, eventVars, want, raced>>
  /\ InitializeViews /\ SaveSettings
  /\ edited' = TRUE

(* PromptForViewMode() and AddView(): a copy of the views, a dialog, and   *)
(* the copy written back, by AddView() with one more view in it.           *)
AskForViewMode(c) ==
  /\ Request /\ NoDialog /\ co[c] = NotRunning
  /\ Suspend(c, "views", "choosing", <<>>, views)
  /\ UNCHANGED <<panelVars, fileVars, eventVars, historyVars>>

\* A view that is not a mirror.
AddView(vs) == Append(vs, [guid |-> made + 1, tab |-> NoTab])

WriteViews(c) ==
  /\ co[c].step = "choosing"
  /\ \/ ~MayLock /\ BlockAtOnce
     \/ MayLock /\ SetViewsSettings(co[c].views) /\ Return(c) /\ UNCHANGED made
     \/ /\ MayLock /\ Len(co[c].views) < MaxViewCount
        /\ SetViewsSettings(AddView(co[c].views))
        /\ made' = made + 1 /\ Return(c)
  /\ UNCHANGED ops

RemoveView ==
  /\ Request /\ Len(views) > 1
  /\ \/ ~MayLock /\ BlockAtOnce
     \/ /\ MayLock /\ SetViewsSettings(Tail(views))
        /\ UNCHANGED <<made, threadVars>>

(* SetAppSettings(), SetUISettings(), SetVRSettings() and so on. *)
SetSettings ==
  /\ Request
  /\ \/ ~MayLock /\ BlockAtOnce
     \/ /\ MayLock
        /\ UNCHANGED <<panelVars, profile, saving, eventVars, threadVars, historyVars>>
        /\ SaveSettings

(* A panel or an input device says that its settings changed: no lock. *)
SettingsChanged ==
  /\ Request
  /\ UNCHANGED <<panelVars, profile, saving, threadVars, historyVars>>
  /\ Emit("save")

----------------------------------------------------------------------------
(* The frame loop and the ordered queue. *)

(* OnAPIEvent(), or a user action of an input device. *)
EnqueueOrderedEvent(event) ==
  /\ Request
  /\ queue' = Append(queue, event)
  /\ UNCHANGED <<panelVars, fileVars, delayed, threadVars, historyVars>>

\* Mutant: a frame wants the lock for itself, to draw.
FrameTick_Unique ==
  /\ frame = "idle" /\ MayLockShared /\ SharedHolders = {}
  /\ frame' = "posted"
  /\ UNCHANGED <<panelVars, fileVars, eventVars, co, stuck, historyVars, ops>>

(* FrameTick() tries the lock, draws, unlocks, and resumes from the        *)
(* dispatcher's queue.                                                     *)
FrameTick ==
  /\ frame = "idle" /\ MayLockShared
  /\ frame' = "posted"
  /\ UNCHANGED <<panelVars, fileVars, eventVars, co, stuck, historyVars, ops>>

Flushing == frame = "posted" /\ co[FrameLoop] = NotRunning

\* Mutant: the views are not rebuilt after a change of the bindings.
ReconcileViewsWithTabs_NotRebuilt ==
  /\ MayLock
  /\ queue' = Tail(queue)
  /\ UNCHANGED <<tabs, shown, given, threadVars, profile, saving, delayed, want, raced>>
  /\ SyncViewsWithTabs(views)
  /\ SaveSettings

ReconcileViewsWithTabs ==
  /\ queue' = Tail(queue)
  /\ \/ ~MayLock /\ Block /\ UNCHANGED <<panelVars, saved, edited>>
     \/ /\ MayLock
        /\ UNCHANGED <<tabs, threadVars>>
        /\ SyncViewsWithTabs(views)
        /\ IF views' = views
             THEN UNCHANGED <<shown, given, saved>>
             ELSE InitializeViews /\ SaveSettings
  /\ UNCHANGED <<profile, saving, delayed, want, raced>>

(* ProcessAPIEvent() and PostUserAction() change settings without a lock, *)
(* and bookmarks and the current tab with it.                             *)
ChangeSettings(event) ==
  /\ queue' = Tail(queue)
  /\ UNCHANGED <<panelVars, profile, saving, historyVars>>
  /\ \/ event.kind = "settings" /\ SaveSettings /\ UNCHANGED <<delayed, threadVars>>
     \/ event.kind = "bookmark" /\ ~MayLock /\ Block /\ UNCHANGED <<delayed, saved>>
     \/ /\ event.kind = "bookmark" /\ MayLock
        /\ IF UniqueHolders = {}
             THEN SaveSettings /\ UNCHANGED delayed
             ELSE delayed' = delayed \cup {"save"} /\ UNCHANGED saved
        /\ UNCHANGED threadVars

(* One event of FlushOrderedEventQueue(). *)
RunEvent ==
  /\ Flushing /\ queue # <<>>
  /\ LET event == Head(queue)
     IN \/ event.kind = "reconcile" /\ ReconcileViewsWithTabs
        \/ event.kind \in {"settings", "bookmark"} /\ ChangeSettings(event)
        \/ /\ event.kind = "switch"
           /\ SetProfileSettings(FrameLoop, event.to, Tail(queue))
  /\ UNCHANGED ops

(* The queue is empty, or it is time for the next frame. *)
EndFlush ==
  /\ Flushing
  /\ frame' = "idle"
  /\ UNCHANGED <<panelVars, fileVars, eventVars, co, stuck, historyVars, ops>>

----------------------------------------------------------------------------

UserStep ==
  \/ \E c \in UI :
       \/ \E tab \in ToSet(tabs) : AskToRemove(c, tab)
       \/ ShowDebugInfo(c) \/ Dismiss(c) \/ RemoveTab(c)
       \/ RestoreDefaults(c) \/ AskForViewMode(c) \/ WriteViews(c)
       \/ \E to \in Profiles : ChooseProfile(c, to)
  \/ \E tab \in Tabs \ UNION {want[p] : p \in Profiles} : AddTabs(tab)
  \/ OnTabsReordered \/ ReadPanels \/ RemoveView \/ SetSettings \/ SettingsChanged
  \/ \E event \in Event \ {Reconcile} : EnqueueOrderedEvent(event)

Resume(c) ==
  DisposeOldTabs(c) \/ FinishRemoveTab(c) \/ FinishRestoreDefaults(c)
    \/ FinishSwitch(c)

Next ==
  /\ ~stuck
  /\ \/ UserStep
     \/ \E c \in Coroutines : Resume(c)
     \/ FrameTick \/ RunEvent \/ EndFlush

Spec == Init /\ [][Next]_vars

(***************************************************************************)
(* Tabs get made and disposed of, the frame timer ticks, and not every     *)
(* frame takes longer than it has: the queue is flushed only in the time   *)
(* that drawing leaves.  Nobody has to answer a dialog.                    *)
(***************************************************************************)
Fairness ==
  /\ \A c \in Coroutines : WF_vars(~stuck /\ Resume(c))
  /\ WF_vars(~stuck /\ FrameTick)
  /\ SF_vars(~stuck /\ RunEvent)

FairSpec == Spec /\ Fairness

----------------------------------------------------------------------------

\* Every variable has its type.
TypeOK ==
  /\ tabs \in Seq(Tabs) /\ given \in Seq(Tabs)
  /\ views \in Seq(View) /\ shown \in Seq(Nat)
  /\ profile \in Profiles /\ saving \in BOOLEAN /\ saved \in [Profiles -> File]
  /\ queue \in Seq(Event) /\ delayed \subseteq {"tabs", "save"}
  /\ co \in [Coroutines ->
       [op: {"none", "remove", "debug", "restore", "switch", "views"},
        step: {"none", "asking", "choosing", "loading", "disposing"},
        tabs: Seq(Tabs), views: Seq(View)]]
  /\ frame \in {"idle", "posted"} /\ stuck \in BOOLEAN
  /\ made \in Nat /\ ops \in 0..MaxOps
  /\ want \in [Profiles -> SUBSET Tabs]
  /\ raced \in BOOLEAN /\ edited \in BOOLEAN

(***************************************************************************)
(* At every moment, and so after a crash too, the file of a profile holds  *)
(* the panels that the user left in it: a switch never writes one          *)
(* profile's panels under another one's name (SetProfileSettings and       *)
(* mSaveSettingsEnabled).  Exempt are the active profile while panels are  *)
(* removed from it or its defaults restored, and changes that overlapped.  *)
(***************************************************************************)
ProfilesKeepTheirPanels ==
  ~raced =>
    \A p \in Profiles :
      \/ ToSet(saved[p].tabs) = want[p]
      \/ p = profile /\ \E c \in Changing : co[c].op \in {"remove", "restore"}

(***************************************************************************)
(* While no change of the panels is awaited, the active profile has the    *)
(* panels that the user asked for, in memory and on disk (SetTabs takes    *)
(* them all away while it disposes of some, and anything can save).        *)
(***************************************************************************)
ActiveProfileSaved ==
  ~raced /\ Changing = {} =>
    /\ ToSet(tabs) = want[profile]
    /\ saved[profile].tabs = tabs

(***************************************************************************)
(* Once the queue is flushed every panel has a view of its own, as long as *)
(* there are views left, and no view is bound to a panel that is gone      *)
(* (ReconcileViewsWithTabs), unless the user edited the views since.       *)
(***************************************************************************)
PanelsHaveViews ==
  Changing = {} /\ Reconcile \notin ToSet(queue) /\ ~edited /\ ~stuck =>
    /\ \A tab \in ToSet(tabs) :
         \/ Cardinality(ViewsOf(views, tab)) = 1
         \/ ViewsOf(views, tab) = {} /\ Len(views) >= MaxViewCount
    /\ \A tab \in Tabs \ ToSet(tabs) : ViewsOf(views, tab) = {}

(***************************************************************************)
(* Whenever nobody is inside a unique lock, the views drawn are the views  *)
(* of the settings, at the same indices (GetViewRenderInfo and             *)
(* ProcessAPIEvent pair them by index), and they have the current panels.  *)
(***************************************************************************)
ViewsInStep ==
  UniqueHolders = {} =>
    /\ shown = GUIDs(views)
    /\ Changing = {} => given = tabs

(***************************************************************************)
(* Every event that is queued gets run, also while a dialog is open or a   *)
(* profile is being loaded, unless the thread waits for itself.            *)
(***************************************************************************)
QueueDrains == queue # <<>> ~> queue = <<>> \/ stuck

----------------------------------------------------------------------------
(* What the code's comments say, and the code does not do.                 *)

(***************************************************************************)
(* An event that the frame loop runs gets the locks that it asks for:      *)
(* "Defer to the frame loop, which flushes this queue with no lock held".  *)
(***************************************************************************)
FlushNeverBlocks == [][RunEvent => ~stuck']_vars

=============================================================================
