# VisorVR: specifications and proofs

VisorVR shows panels (documents, browser pages, captured windows) inside VR
games. This directory holds TLA+ specifications of the parts of it whose
correctness depends on the order in which processes, threads and coroutines do
things, the TLC runs that check them, and TLAPS proofs of what matters most.
`PROJECT.json` lists, for every definition, the source lines it models.

To check a run: `tlc -config MCSHM.cfg MCSHM.tla`. To check the proofs:
`tlapm SHM_proofs.tla`, and so on for the other modules named `*_proofs`.

## 1. The system

One process, the VisorVR application (the *feeder*), renders all panels on one
canvas and publishes it through shared memory. Other processes (the *readers*:
the OpenXR layer inside a game, the SteamVR overlay, the viewer) poll the memory
once per frame of theirs and draw. Inside the application nearly everything
runs as coroutines on one user interface thread; the embedded browser (CEF, with
a message loop of its own) and the window capture's free-threaded frame pool call
in from other threads. Parts are wired together by events.

| component | code (under `src/src/`) | state it keeps | operations | what is hard |
|---|---|---|---|---|
| Shared memory transport | `lib/SHM.cpp`, `lib/SHM/*` | header, frames, named mutex; per reader a cached session, process, duplicated handles, opened textures | Writer: construct, Detach, BeginFrame, SubmitFrame, SubmitEmptyFrame; Reader: MaybeGet, Map | processes die with the mutex held; two caches by handle value, values are reused; a constructor that does not lock; the draw is outside the lock |
| InterprocessRenderer | `app/app-common/InterprocessRenderer.cpp` | canvas, swapchain of shared textures, fence values, visibility | RenderNow, InitializeCanvas, SubmitFrame, PostUserAction, destructor | closes what readers may be using; suspends while layers render |
| Event system | `app/app-common/Events.cpp`, `Events.hpp` | connections; per thread a delay depth and a queue; a global counter and flag | Emit, AddEventListener, Remove..., EventDelay, Shutdown | no locks; handlers re-enter; the count and the flag are two atomics; delays outlive calls in suspended coroutines |
| Main window, frame loop | `app/app-winui3/MainWindow.xaml.cpp` | frame in progress, disposal | FrameTick, DisposeAsync | an ordered teardown of everything else |
| KneeboardState | `app/app-common/KneeboardState.cpp` | settings, views, a re-entrant reader-writer lock, a queue of deferred calls | SetProfileSettings, Set...Settings, FlushOrderedEventQueue, ReconcileViewsWithTabs | locks held across `co_await`; deadlock of a thread with itself; half-loaded profiles |
| TabsList, tabs, views | `TabsList/`, `Tab/`, `KneeboardView.cpp`, `TabView.cpp` | tabs, views bound to tabs | SetTabs, InsertTab, RemoveTab, SyncViewsWithTabs | tabs are momentarily empty while old ones are disposed; overlapping edits of copies |
| Folder watching | `FilesystemWatcher.cpp`, `FolderPageSource.cpp`, `PageSourceWithDelegates.cpp` | contents of a folder, delegates per file | OnContentsChanged, OnFileModified, SetDelegates, Reload | scans overlap; delegates are disposed and kept; notifications are dropped while settling |
| Disposal | `IHasDisposeAsync.hpp` | Live, Disposing, Disposed | StartOnce | waiting for somebody else's disposal |
| Browser tabs | `Chromium*.cpp` | per page: promises, callbacks, current page, features | AsyncRequest, asyncResult, OnContextReleased | two processes; IDs restart with each page; results come late |
| OpenXR edit mode | `injectables/OpenXRKneeboard.cpp` | grabbed panel, pose overrides, in statics | grab, move, resize, release | state by index and by ID across frames; saved through a lossy mailslot |
| API events | `lib/APIEvent.cpp`, `APIEventServer.cpp` | a mailslot handle | Send, RunSingle, DispatchEvent | lossy, throttled, one retry |
| SteamVR overlay, ActiveConsumers | `SteamVRKneeboard.cpp`, `lib/SHM/ActiveConsumers.cpp` | overlays, timestamps | Tick, Set, Get | unlocked timestamps, time windows |
| Coroutines | `lib/include/VisorVR/task.hpp`, `task/*.hpp` | per awaitable a state, a result, a thread pool object, a stop callback | await_suspend, OnResult, Cancel, ResumeFrom, resume_on_any_signal | four threads work on an awaitable that is destroyed when its coroutine is resumed |
| Threads | `RunnerThread.cpp`, `ProcessShutdownBlock.cpp` | a shutdown counter | | counts as the event system does |
| Window capture, input, page sources, settings, DCS, registration, site | see `PROJECT.json` | | | mostly Windows calls or data |

How they interact:

* the frame loop calls `RenderNow()`, which publishes; readers never call back
  (they only leave timestamps in ActiveConsumers, and edit mode sends API events);
* KneeboardState owns the renderer, the tabs and the views; they tell it of
  changes by events, and it defers what needs its lock to a queue that the frame
  loop flushes;
* `MainWindow::DisposeAsync()` stops the frame loop, then the event system, then
  disposes KneeboardState, which disposes tabs and page sources.

What makes each part correct:

* transport: a reader draws only from the object that was published in the frame
  it got; its GPU waits end; nobody keeps the mutex; a reader never faults;
* events: no handler runs after the shutdown was signalled; the shutdown is
  signalled; a queued event is run; a removed handler does not run;
* KneeboardState: the UI thread never waits for itself; a profile is never saved
  half loaded; tabs and views agree when nothing is in progress;
* folders: the last scan wins; what is listed is shown; nothing is forgotten
  undisposed;
* browser: an answer resolves the request it answers;
* edit mode: the panel that is saved is the panel that was dragged.

## 2. Plan

In order of importance; each step is a specification, its runs, its proofs.

1. `SHM*`: the transport with the renderer and its readers. **Done**, with the
   abstract `Mailbox` that it implements, by TLC and by proof.
2. `Events`: the event system and its shutdown. **Done.**
3. `Kneeboard`: coroutines on one thread with the re-entrant reader-writer lock,
   the frame loop, the ordered queue, dialogs that hold a shared lock; panels,
   views, profiles and when they are saved. **Done.**
4. `Folder`: folder source, watcher, delegates, disposal. **Done.**
5. `Chromium`: documents, requests, promise IDs, pages and views. **Done.**
6. `SignalWait`: awaitables of the thread pool, and waiting for several.
   **Done.**
7. Not begun: edit mode with the API events (one thread, geometry and indices);
   a GPU queue per reader, for what waits under the mutex.

## 3. The transport: `SHMSegment`, `SHMFeeder`, `SHMReader`, `SHM`

`SHMSegment` is the header, the mutex and the feeder's handle table.
`SHMFeeder` adds the renderer and its Writer, `SHMReader` a set of readers, `SHM`
composes them, `SHMInvariant` states the inductive invariant, and `SHM_proofs`
proves it. `Mailbox` is what the transport promises, `SHMMailbox` maps the
transport's state to it.

* State. `session`, `attached`, `feederPID`, `frameNumber`, `frames` are the
  words of `SharedData`; `owner` and `abandoned` the named mutex; `table` the
  feeder's handle table. A handle is a *value*; the object behind it is a number
  that is never reused, so that "the cached duplicate is the wrong object" can be
  said. Handle values are reused as soon as they are closed. The texture and
  fence handles of a slot are created, published and closed together, and one
  handle stands for both.
* Steps. An operation is cut where the thread takes or drops the mutex, where it
  touches what others see without it, and where it suspends. `ConstructWriter`
  and `ConstructWriterFrames` are two steps because the constructor writes the
  header without the mutex; `InitializeCanvas` and `DetachAfterResize` are two
  because the handles are closed before the mutex is taken. `MaybeGet()` is one
  step per early return, with the throw of `DuplicateHandle()` as an outcome of
  its own (`DuplicateThrows`), after which the host ends (`Terminate`): the
  entry point of the OpenXR layer is `noexcept`.
* Failures. The feeder's process may end in any step (`ProcessEnds`), a reader's
  too (`ReaderEnds`); both abandon the mutex if they hold it, and whoever locks
  next resets the header. A new feeder process may then start; a process has
  one renderer in its life.
* Abstractions. Layers and their contents are one bit (`layers`: there are any).
  `attached` is the flag and the adapter LUID. Handle values are reused among the
  swapchain's handles only. The readers' GPU work is one step (`FinishReading`):
  a draw that lasts arbitrarily long.
* Process IDs are not reused.
* External: the kernel's mutex, `OpenProcess`, `DuplicateHandle`, and the end of
  processes.

What is promised, `Mailbox`: pictures are posted on a rack with a few places, in
turn; a place keeps its texture until the rack is cleared; a reader that gets a
picture gets the latest one at some single moment, and holds it while it draws.
The mapping (`SHMMailbox`): the rack is `frames` (object and layers of each slot),
open is `attached`, the number `frameNumber`, and a reader's hand holds what
`MaybeGet()` has answered while the reader maps and draws. `Clear` may leave the
places as they are, since the constructor clears the header and the frames in two
steps; a picture may then be taken once more from the first place of the rack that
is being cleared. `AnswerTakes` in the proof names the moment of the answer: the
step that ends `MaybeGet()` under the mutex.

Runs:

| run | shows |
|---|---|
| `shm` (383,944 states) | Two readers, swapchain of 2, two handle values, up to 3 sessions and 3 frames. All the invariants below, `SlotsStableInSession`, `FrameNumbersGrow`, and the refinement `ImplementsMailbox`. |
| `shm_live` (18,890 states) | Every poll ends (`EveryPollEnds`), with 2 sessions, 2 frames, and a reader on another GPU. |
| `shm_fault` | **Finding.** `ReadersNeverFault` fails: a poll between the closing of the handles and the Detach of a resize, or after an empty frame that follows a resize, throws and ends the game. |
| `shm_torn` | **Finding.** `NoTornRead` fails: the feeder writes into the texture that a reader draws from. |

What is true instead of the last two is checked in `shm`: a fault has one of four
named causes (`FaultsExplained`), and a texture is overwritten under a reader
only by the `SwapChainLength`-th later frame (`TornOnlyWhenLapped`).

Bounds. Both handle values are in use from the second frame on, so any resize
reuses one. Three sessions are two changes of session after the first, with a
reader still working on the first one: two resizes, or a resize and an orderly
end, which takes a session of its own. A crash and the new process's first session
leave one change more. What needs a fourth session, an orderly end followed by a
new process among it, is not in this run: with `MaxSession` = 4 it passes too,
with 3,228,770 states. Three frames visit slot 1, slot 0 and slot 1 again, so a slot is
reused with cached handles and laps a reader. A third reader adds no interaction
with the first two but for the mutex. Readers and handles are symmetric in the
safety run; the run with liveness uses no symmetry. `CHECK_DEADLOCK FALSE`,
because the bounds end the run and because ended processes do nothing.

Fairness (`shm_live` only): a thread that is inside this code goes on (weak
fairness of the feeder's progress), and a mutex that is free again and again is
granted to every waiter (strong fairness of each reader's progress), which the
kernel's first-come queue gives. Nobody has to render, to poll or to die.

## 4. Events: `Events`

* State. `connection` is an EventConnection with its `mHandler` (valid or
  invalid); `stack` is, per thread, the calls of this code in progress, where a
  handler is a frame on top of which further calls may be pushed; `mDelayDepth`,
  `mEmitterQueue`, `mEventCount` and `mShuttingDown` are the variables of that
  name; `shutdownEvent` is the handle passed to Shutdown.
* Steps. `Emit` copies the receivers and counts; `Refuse`, `Enqueue` and
  `StartEmitting` are the outcomes of StartEvent's test of the flag and of
  EmitOrEnqueue's test of the depth; `Call` takes one receiver; `Sub1` and
  `Signal` are apart because the flag is read after the decrement. A handler may
  do whatever a thread may do (`InUserCode`): emit, delay, subscribe, remove,
  destroy an event, shut down.
* Delays. An EventDelay that a handler leaves behind in a suspended coroutine
  goes to the base of the thread, where the coroutine is resumed: `EndDelay` takes
  any delay there, and only its own in a handler.
* Races. `Invalidate` writes a `std::function` that `Call` may be copying; a copy
  that overlaps yields the handler, nothing, or ends the program.
* Abstractions. No arguments of events; a hook that stops an event is an event
  not emitted; `EnqueueForContext` is an Emit from the base of another thread. The
  copy of the receivers is one step with the count.

Runs:

| run | shows |
|---|---|
| `events` (149,302 states) | Two threads, a receiver, an event: `CountIsExact`, `QuietOnceSignalled`, `NothingStranded`, `NeverFatal`, the inductive invariant, and under fairness `ShutdownCompletes` and `QueuesDrain`. |
| `events_removed` | **Finding.** `RemovedMeansQuiet` fails: removal does not wait for a handler that runs in another thread, which is what the comment asks destructors to rely on. |

Bounds. `MaxCalls` = 5 events and delays together, `MaxFrames` = 4 deep: enough
for an event queued by a handler that was itself run by a flush, with a delay
left behind, against a shutdown and an emit of the other thread. One receiver and
one event suffice for what is counted, since the invariants are about frames and
queues, not about who is called; the proofs below have no bounds.
`CHECK_DEADLOCK FALSE`: at the bounds, and when the program has ended, nothing
is left to do.

Fairness. Handlers return, threads that run go on, the coroutine that holds an
EventDelay is resumed some time (`EndDelay`), and a wait on a set event ends
(`ResumeOnSignal`). Nobody has to emit or to shut down. A handler that never
returns, or an EventDelay that is held for ever, would hang the shutdown: the
code has no defence, and the properties do not claim one.

Met while modelling, without a run: a handler that throws ends the program,
since it is called through `EventHandler::operator()`, which is `noexcept`
(`Events.hpp:109`), below the `try` that is to "ignore but drop unhandled
exceptions from handlers" (`Events.hpp:205`; in the model `HandlerThrows` ends
the program); the doc comment that handlers are not invoked
recursively (`Events.hpp:134`) holds only inside an EventDelay
(`Events.cpp:119`); a comment speaks of a lock that does not exist
(`Events.hpp:196`); the doc of EventDelay ("delay any event handling in the
current thread", `Events.hpp:151`) is not kept by `Flush()`, which does not look
at the depth again; a comment in `InterprocessRenderer.cpp:414` gives a swapchain
length of 3; `ActiveConsumers.cpp:125` stores the time of D3D12 consumers as
D3D11's; the shutdown handle is used after it was closed when events are emitted
after `DisposeAsync()` has gone on.

## 5. Panels, views and profiles: `Kneeboard`

KneeboardState and TabsList with the settings pages that call them and the frame
loop. Everything runs on the user interface thread; an action is what a
coroutine does from one `co_await` to the next.

* State. `tabs` are the panels of TabsList, `views` the bindings in the settings,
  `shown` and `given` what the live views are; `profile`, `saving`, `saved` the
  active profile, `mSaveSettingsEnabled` and the files; `queue` the ordered
  events, `delayed` what EventDelays of suspended coroutines keep back; `co` what
  each coroutine is suspended in, from which the holders of the lock follow.
  Unique holders are told apart by thread, so two coroutines can both own it;
  shared holders are not told apart at all. A thread that waits for itself sets
  `stuck`.
* Steps. A dialog is a step that opens it and one that answers it, with what is
  locked in between (`AskToRemove`, `ShowDebugInfo`: shared; `AskForViewMode`:
  nothing, but a copy of the views). `SetTabs()` is one step when nothing has to
  be disposed, and otherwise leaves `tabs` empty until it goes on
  (`DisposeOldTabs`, `RemoveTab`, `Finish...`). `SetProfileSettings` is called by
  the settings page or by the flush of the queue. `FrameTick` draws and unlocks;
  `RunEvent` runs one event; `EndFlush` ends the flush, with the queue empty or
  the time over.
* History. `want` is what the user asked for; `raced` says that changes of the
  panels or switches of the profile overlapped, `edited` that the views were
  edited and not reconciled since.
* Abstractions. A panel is its persistent ID and a view its GUID: placement,
  modes and the current panel of a view are left out. Profiles do not inherit.
  Drawing does not run the message loop. User actions are two kinds of events
  (that change settings, and that move through bookmarks under a lock). What
  `FrameTick` draws with the shared lock held is one step with the lock's release.
  Of the VR settings page, `RemoveView` takes the first view away and not the
  mirrors of it, which the code removes with it. `AddView` of that page is the
  dialog of `AskForViewMode` and the copy written back by `WriteViews` with one
  more view in it, which is no mirror. Where the panel to remove is gone when the dialog is answered,
  `RemoveTab` returns; the code goes on with an index past the end and may throw
  from the list's own `RemoveAt` (`TabsSettingsPage.xaml.cpp:388`).
  A panel's ID is unique: no list of the files at the start has it twice, and
  no file two views of its own for it (`KneeboardAssumption`).
  `DisposeAsync()` is not modelled. Waiting for a flush in progress
  (`KneeboardState.cpp:429`) cannot happen, since only `FrameTick` flushes and it
  is exclusive.

| run | shows |
|---|---|
| `kneeboard` (43,832 states) | `ProfilesKeepTheirPanels`: a switch never writes one profile's panels under another's name; `ActiveProfileSaved`; `PanelsHaveViews`: after a reconciliation every panel has one view, while views last, and none is bound to a panel that is gone; `ViewsInStep`: what is drawn is what is in the settings; and `QueueDrains`. |
| `kneeboard_blocks` | **Finding.** `FlushNeverBlocks` fails: the flush asks for the unique lock while a dialog of the same thread holds a shared one, and the thread waits for itself. The comment at `KneeboardState.cpp:102` says the flush has no lock held. |

Exempted, because the code does go wrong there. Of two overlapping switches the
first to end allows saving again while the other is loading
(`KneeboardState.cpp:801`): the old panels are then written under the new name,
which the comment at line 829 says cannot happen. Choosing the active profile
once more while a switch is loading does the same. `InsertTab` and `RemoveTab`
that overlap work on copies, and the later one brings back what the earlier one
took away (`raced`). `SetViewsSettings` does not reconcile (`edited`). The
properties say nothing of what happens after such an overlap, and PROJECT.json
lists these hazards without a property.

`Synced` is the loop of `SyncViewsWithTabs()` as a recursive function, with
`Claim` for each panel. `KneeboardInvariant` states the inductive invariant that
the run checks and `Kneeboard_proofs` proves, with the four invariants that follow
from it (section 9).

Bounds. Two profiles: one with two panels, of which one has a view, and one with
a panel, a mirror and a spare view; one more panel to add, and one that restoring
the defaults brings. At most two views, so that panels outnumber them; two
coroutines of the settings pages, and `MaxOps` = 3 requests: a dialog, a change
and an event that meet. `MaxOps` = 4
passes too, with 703,323 states. `CHECK_DEADLOCK FALSE`, because the thread may
block on its own lock and because requests are bounded. Fairness: loads and
disposals end, the frame timer ticks, and not every frame takes longer than it
has (strong fairness of `RunEvent`: with weak fairness the flush's deadline may
always be over before the first event, and the queue starves). Nobody has to
answer a dialog.

## 6. Folders: `Folder`

FolderPageSource, its FilesystemWatcher, PageSourceWithDelegates and the
DisposalState of delegates, on one thread.

* State. `disk`, `there`, `watching`, `changed` are the folder and what the
  watcher knows; `contents`, `shown` are `mContents` and `mDelegates`; a delegate
  is a file with a number, since a file that goes and comes back gets a new one;
  `step`, `todo`, `found`, `fresh`, `target`, `after` are the locals of each
  suspended coroutine, `thread` is who runs.
* Steps. `VisitFile` is one round of the directory's iterator; it suspends when a
  document has to be loaded (`Loaded` goes on). `EndScan` compares and replaces
  `mContents`; `DisposeDelegates` begins `SetDelegates()`, which suspends if one
  of the delegates was disposed before; `ApplyDelegates` assigns, and
  takes everything away again if the panel was disposed meanwhile. The folder
  changes only while nobody runs, as nobody looks again between two awaits.
* History. `earlier`, `overtaken` and `stale` say that a scan that began before
  another put its list in place after that one; `emptied` that `Reload()` found
  no folder and the delegates it clears are gone last, while `mContents` has
  files; `mixed` that a `SetDelegates()` ran while another was suspended; `again`
  are the delegates that a scan has kept from an earlier list.
* Abstractions. Only the delegates of texts are disposable, only documents
  suspend a scan. No second path, no file types that are not supported, no settle
  loop of a single file's watcher.

| run | shows |
|---|---|
| `folder` (1,632,933 states) | `CaughtUp`: when nothing is left to do, the list has a delegate for each file of the folder and no other, and each of them shows its file but for texts that a scan kept from an earlier list; `EmptyOnceDisposed`: a disposed panel has no delegates, also when a scan was under way; `NothingLost`: a text's delegate is disposed before it is forgotten; `ScansEnd`: scans and disposals end. |
| `folder_texts` | **Finding.** `KeptTextsShow` fails: a text that is listed shows nothing after another file was added. |

The finding. `SetDelegates()` disposes of all current delegates
(`PageSourceWithDelegates.cpp:70`), those that the folder keeps for unchanged
files too, and then puts the same delegates back. A disposed text has no pages.
`OnFileModified()` keeps the delegate of a file that it knows because "All
file-sourced tabs watch their own content" (`FolderPageSource.cpp:93`), that is,
because the delegate goes on showing the file. No scans need overlap.
`FilesShown` counts only delegates that were not disposed; `CaughtUp` names
the texts that may be listed without being shown, so that it fails if anything else
that is listed shows nothing.

Exempted, because the code does go wrong there: with `stale`, an older scan that
ends last shows the older list; with `emptied`, the panel stays empty when the
folder comes back, as "no actual change" is found (`FolderPageSource.cpp:46`);
with `mixed`, delegates are dropped without a disposal, on which their
DisposalState ends the program. PROJECT.json lists these hazards without a
property. Met besides: the watcher writes `mSettling` after `this` may be gone
(`FilesystemWatcher.cpp:98`).

The run checks the inductive invariant of `FolderInvariant` too, which
`Folder_proofs` proves for any number of files and coroutines (section 9).

Bounds. Two texts and a document, in any state at the beginning, two coroutines
and the disposal, four changes: two scans that overlap, with the folder changed
before each, and a disposal. Two texts, so that one can be kept while the other
comes or goes, and a document, whose loading suspends the scan between them.
Files do not interact with each other but through the comparison of the whole
list. `CHECK_DEADLOCK FALSE`: changes are
bounded. Fairness: coroutines are resumed, loads end, the watcher's event
arrives.

## 7. Browser tabs: `Chromium`

ChromiumPageSource with its Clients, the render processes of ChromiumWorker, the
scripts in them, and the views of the panel.

* State. `kind`, `pages`, `clientOf` are the page source; `viewOf`, `browser`,
  `current`, `enabled` each client; `setting` a `SetPages()` between its two
  locks; `promises`, `nextPromise`, `heard` each document; `up` and `down` the
  messages between a browser and its render process, in order; `posted` the
  events on their way to the UI thread, which may swap.
* Steps. `Handle` handles one message on CEF's thread. `SetPages` (first lock),
  `SendToPeers` (second lock) and `PostContentChanged` are three steps of one
  call. `RenderPage` and `SetCurrentPage` are two steps of a drawing, as CEF's
  thread runs between them. `Navigate` leaves a document: the new context asks
  again, and what is under way belongs to the old one.
* Scripts are the environment: `Call`, `React` and `Then` stand for pages that
  use `data/OpenKneeboardAPI.js`. They await each call and begin like the example
  in `data/`: they ask for the features, then for the pages, and set pages if
  there are none; afterwards they call what they like. Unlike the example they
  listen to `pagesChanged`, and their lists are drawn from `Lists`, where the
  example makes up new GUIDs.
* `RequestPageChange` has two forms. The documented one passes a GUID
  (`data/OpenKneeboardAPI.js:104`); `data.at("guid")` (`Client.cpp:750`) throws on
  a string, out of a `fire_and_forget`, and the program ends (`crashed`). An
  object with a `guid` is looked up and turns the page. Either may be refused
  before that, as a dashboard is that had no cursor event lately (741-748).
* History. `confused` says that a promise took the answer to a request of the
  document before: promises are numbered from 0 in each
  (`ChromiumWorker.cpp:267`).
* Abstractions. The first load and paint come with `OnAfterCreated`. The
  experimental features, each with a version and errors of its own, are one:
  the pages. Left out are `PostCustomAction`, `SendMessageToPeers`, sizes, cursor and tablet, dev
  tools, malformed arguments, closing.

| run | shows |
|---|---|
| `chromium` (1,060,387 states) | `ScriptsInStep`: a script with nothing under way has the panel's list of pages, whoever set it; `ViewsOnLivePages`: a view is on a page of that list, or the event that takes it there is on its way; `ScriptsAndViewsSettle`: if the program goes on, in the end scripts have their answers and every view is at the page that its browser draws. |

Where the code goes wrong in the model. `crashed`, in two ways: a request to turn
the page in the documented form, which never gets the answer that its promise
waits for; and `SetPages()` that sends to a peer whose browser is not created yet
(`ChromiumPageSource_Client.cpp:716`, ten steps from the start). `confused`, six
steps from the start. The properties end at the first and exempt the second. Met
besides, without a run: `mCursorEventsMode` survives a context
(`Client.cpp:325`); a client and its browser hold each other, and the destructor
waits without a limit.

The run checks the inductive invariant of `ChromiumInvariant` too, which
`Chromium_proofs` proves for any number of views and any lists (section 9).

Bounds. Two views with a browser each, two lists of pages, `MaxOps` = 2 calls,
navigations or turns after what every script does by itself. A call of one script
against a navigation of the other is the case that all properties are about;
`MaxOps` = 3 was run for the invariants. `CHECK_DEADLOCK FALSE`: operations are
bounded. Fairness (weak): browsers start, messages and events arrive, every view
is drawn.

## 8. Waiting for signals: `SignalWait`

`resume_on_any_signal()`: a coroutine per handle waits in a SignalAwaitable, a
ThreadPoolAwaitable; the first that ends stops the others. With one wait it is
`resume_on_signal()`; TimerAwaitable has the same shape.

* State. `state`, `result`, `object`, `callback` are `mState`, `mResult`, the
  thread pool's wait and `mStopCallback` of each awaitable; `live` the awaitables
  that exist. The actors are the starter (in `await_suspend()`), each wait's
  callback, and the thread that runs the stop callbacks (`Canceler`); `pc`, `at`,
  `from` say where each of them is. `winner` is whose `request_stop()` came
  first, `out` what is returned.
* Steps. One per atomic access of `mState` or call of the thread pool.
  `mStopCallback.reset()` waits for a `Cancel()` that runs in another thread,
  `WaitForThreadpoolWaitCallbacks()` for callbacks that have not disassociated
  themselves. An assertion that fails sets `fatal` and ends the program.
* History. `raced` says that `Cancel()` ran while `InitThreadPool()` was
  creating or setting the wait it cancels.

| run | shows |
|---|---|
| `signal_wait` (46,068 states) | `NotUsedAfterDestruction`: no thread uses an awaitable that is destroyed; `ResultIsTrue`: what is returned is what ended the waiting; `AssertsOnlyWhenRaced`: an assertion fails only after the race named above; `EndsWhenSignalledOrStopped`: once a handle is signalled or a stop is asked for, the call returns; `IInv`: the invariant of the proofs. |

The race is real: `Cancel()` between the state change and
`CreateThreadpoolWait()` fails the assertion on `mTPSignal`; between creating and
setting, its clear is lost, the wait fires afterwards and `OnResult()` finds an
unexpected state. It needs no stop by the caller: one handle that fires while a
later wait is being started is enough. Not covered: `notify_all()` after the
state change touches an atomic that may be destroyed, which Windows tolerates.

`SignalWait_proofs` proves the first three, and that one thread resumes each
coroutine (`ResumedByOne`), for any number of waits (section 9).

Bounds. Two waits: the winner, a wait that is cancelled, and a stop by the caller.
`CHECK_DEADLOCK FALSE`: the function returns, or waits for ever.

Fairness: threads run, and the thread pool calls back for a wait whose handle is
signalled. Handles need not be signalled. A timeout may end a wait at any time
and has no fairness: a wait for which it never comes is a wait without a timeout,
as most callers make it, so that nothing but the signal and the stop can make
`EndsWhenSignalledOrStopped` true. A stop that got lost, or a wait that is not
cancelled, would break it.

Left out: an empty list of handles and a null handle, which return at once
(`resume_on_any_signal.hpp:85`, `resume_on_signal.hpp:125`). A token that was
stopped before the call is `AlreadyStopped`.

## 9. Proofs

All theorems hold for every value of the constants under the named assumptions
of the modules (`SegmentAssumption`, `ReaderAssumption`, `EventsAssumption`,
`SignalWaitAssumption`, `KneeboardAssumption`, `FolderAssumption`,
`ChromiumAssumption`): any set of readers, handle values, threads, receivers
and events, any length of the swapchain, any number of waits; any profiles,
panels and files, any limit on views; any files of a folder and any number of
scans; any views, scripts and lists of pages; and any bounds.

Transport (`SHM_proofs`): `TypeCorrect`, `MutexIsHeld`, `ReadsPublished`,
`DrawsPublished`, `SlotsStable`, `FramesGrow`, all from `Invariance` (`Spec =>
[]IInv`). Why an invariant is needed: that a reader's frame holds the published
object follows from nothing about one process. The heart is `CachedInSession`:
what a reader has duplicated *in the session of the header* is what the slots
show. It survives because
* in a session slots never change what they show (`PublishedIsOpen`: while
  attached, slot i shows the open handle of swapchain slot i, or a closed one
  during a resize; SubmitFrame republishes the same handle),
* a change of the header's session makes every cache old at once, and caches of
  older sessions are dropped by UpdateSession before they are used
  (`RememberedIsOld`: session IDs are never given twice),
* the one writer that does not lock, the constructor, can only find readers whose
  feeder process is gone or has detached; what they then still return is
  explained by `ResetUnderReader`, and `EmptyUnlessAttached` says the new session
  starts with empty slots,
* the textures opened on the device mirror the duplicates (`MappedIsDuplicated`),
  except after a throw, after which the process ends.

Refinement (`SHMMailbox_proofs`): `MailboxIsImplemented`, every step of the
transport is a step of `Mailbox` under the mapping or leaves it alone. On top of
`IInv` it needs `MailboxInv`: an object is published together with its handle,
and nobody posts between the two halves of the writer's reset, nor while a reader
is in `MaybeGet()` with a session that was reset under it; without the second
part such a reader could answer with a picture that was never the latest one.

Frames (`SHMFrames_proofs`): the other safety properties of the run.
* `FencesAreSignalled` from `FramesInv`: fences are signalled in the order of
  their values (`SignalsInOrder`), so what a frame asks for stays signalled when
  the frame has long been replaced (`ReadersWaitInOrder`).
* `TornReadsAreLapped`: within a session the texture under a reader is that of
  its slot (`CachedInSession`), slots have different textures (`TexturesDiffer`),
  so the feeder writes into the reader's own slot; the frame it writes is later
  than the reader's (`ReadInSession`), and a later frame with the same slot is at
  least the swapchain's length later (`SlotComesBack`).
* `FaultsAreExplained` is inductive with `IInv` and `MailboxInv`: a reader throws
  while it holds the mutex and keeps it until its process ends, so only what is
  done without the mutex can change the cause, and that is the end of a process,
  its constructor's reset, and a resize, each of which is named.

Events (`Events_proofs`): `TypeCorrect`, `CountCorrect`, `ShutdownIsQuiet`,
`NoneStranded`, `FatalNever`, from `Invariance`. `CountIsExact` equates the
counter with a number of frames and queue entries; the lemmas `PushCounts`,
`PopCounts`, `BecomeCounts`, `EnqueueCounts` and `DequeueCounts` say how calls
change the two cardinalities. `LastIsQuiet` then gives the rest: whoever sees
zero does so when the flag is set and nothing is counted, hence when no handler
runs and nothing is queued, and it stays so because StartEvent counts before it
looks at the flag.

Waits (`SignalWait_proofs`): `TypeCorrect`, `NothingUsedAfterDestruction`,
`OneResumes`, `ReturnsTheTruth`, `AssertsWhenRaced`, from `Invariance`
(`Spec => []IInv`, with `IInv` in `SignalWaitInvariant`). That nobody uses a
destroyed awaitable follows from nothing about one thread, so the invariant says
for each thread which states of the awaitable go with each of its steps:
* `Starting`, `Firing`, `Cancels`, `Resumers`: what `await_suspend()`, the
  callback, `Cancel()` and `ResumeFrom()` can find in `mState`. A cancelled wait
  is cleared and drained before it is resumed, hence `object[w] # "armed"` and no
  callback from `drain` on, and `callback[w] = "none"` after
  `mStopCallback.reset()` keeps `Cancel()` out.
* `OneOwner`, `StarterFirst`: of the threads that race for the awaitable one gets
  to `ResumeFrom()`, and none does while `await_suspend()` goes on.
* `StopAsked`, `Asked`, `Resulting`: a wait is cancelled only after a stop, the
  first stop is of a wait that ended for another reason or of the caller, and
  only that wait writes the result.
* `w \in raced` is the exception in each part where a stop in the middle of
  `InitThreadPool()` leaves a wait set: `AssertsOnlyWhenRaced` is what it comes
  to.

There is a lemma for each action, or each branch of one (`ConstructKeeps` to
`JoinsKeeps`), with a step for each part of the invariant it can disturb.

Panels, views and profiles (`Kneeboard_proofs`): `KneeboardTyped`, `PanelsKept`,
`ActiveProfileIsSaved`, `EveryPanelHasItsView` and `ViewsDrawnInStep`, from
`Invariance`. None of the four is inductive alone:
* that no profile gets another's panels needs to know what every coroutine that
  changes panels will leave (`Pending`), that there is one such coroutine unless
  the history says otherwise (`OneChange`), and that saving is off from the moment
  a profile is chosen until its panels are there (`SavesAreOn`);
* that every panel has one view rests on `SyncedFacts`: what
  `SyncViewsWithTabs()` returns has no view bound to a panel that is gone, at most
  one view of its own for each panel, and one for each while there is room. The
  loop is a recursive function, and what is true after n panels (`Partial`) is
  shown to carry over to n + 1 (`FreedFirst`, `ClaimNext`) and so to the end
  (`UpTo`, an induction over numbers that is itself proved from the library's
  well-foundedness of `<`, as its induction theorem is not available here);
* `NoTwice` and `ViewsAreSingle` are what that needs of its inputs: lists with
  each panel once, also in the files and in the copies that coroutines keep.

Folders (`Folder_proofs`): `DelegatesAreTyped`, `FolderCaughtUp`,
`FolderEmptyOnceDisposed`, `NoTextLost`, from `Invariance`. The scans that run are
ordered by when they began (`Order`); one that has put its list in place came
before those that began earlier and still run, or they are `overtaken`
(`Overtaking`). `FolderListed` is the heart of `FolderCaughtUp`: with no change
left to report, the last scan to begin lists the folder as it is, or has ended and
`mContents` does; `ContentsShown` takes that from `mContents` to what is listed.
What is listed need not be shown, and `FolderCaughtUp` says of which delegates:
`FirstList` has that a delegate whose list is being set for the first time is in
no other list, so that nobody disposes of it, and `KeptOrCleared` that what
`mContents` lists is disposed only after a scan has kept it or a `Reload()` has
cleared the panel.
`TextsDisposed` accounts for every delegate that was ever made: it is disposed, in
use, or in a list that a scan is making. `Disposal` and `ClearedLater` say that
what a scan puts in place after a disposal has begun is taken away.

Browser tabs (`Chromium_proofs`): `ChromiumTyped`, `ViewsAreOnLivePages`,
`ScriptsKeepInStep`, from `Invariance`. That a script has the panel's list follows
from what is on its way to it, so `Script(c)` follows one call of a script from its
promise through `up`, the handling and `down` back to the promise:
* `OneCall`, `Promised`: the script has one call under way, which is a request,
  being handled, or a result, and the promise that it is about;
* `OldFirst`, `NothingHeard`: messages of the document before come first, and
  until they have been handled the script of the new one knows nothing: this is
  why only numbers that two documents share (`confused`) can mislead it;
* `LastWord`: the last message under way that tells the script a list tells it
  the right one, and if none does it has the right one or none, except that the
  list is new and `SetPages()` has yet to send it;
* `Unloaded`, `Browsers`: a client that `SendToPeers` leaves out, since no view
  has it, has no script (`NotServing`).

Only model-checked: liveness (`EveryPollEnds`, `ShutdownCompletes`,
`QueuesDrain`, `QueueDrains`, `EndsWhenSignalledOrStopped`, `ScansEnd`,
`ScriptsAndViewsSettle`), which is out of the prover's reach. Every safety property of a passing run is
proved.

## 10. Not modelled

See the components of `PROJECT.json`, each with its reason. In short:

* edit mode and the API events: one thread, whose hazards are in geometry and
  indices, and a lossy mailslot whose interest is in real time;
* calls of Windows whose outcome decides (capture, registry, input devices);
* rendering, documents and the layout of pages, which are data;
* user interface: the settings pages appear as far as they call KneeboardState;
* ActiveConsumers, whose interest is in real time; the web site and the
  installer;
* the D3D12 and Vulkan readers keep the caches of the D3D11 one, and are covered
  as far as that goes; that the D3D12 one waits for the GPU under the mutex is
  not, since what becomes of a wait on a dead feeder's fence is the driver's.

The implementation has 65,568 lines, of which most are user interface, drawing
and Windows glue; the models cover the parts that keep shared state.
