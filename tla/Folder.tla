------------------------------- MODULE Folder -------------------------------
(***************************************************************************)
(* FolderPageSource: a panel that shows the files of a folder.  Each file  *)
(* has a page source of its own, a delegate of PageSourceWithDelegates.    *)
(* The folder is scanned whenever its FilesystemWatcher reports a change;  *)
(* a scan suspends while a document is loaded, so that several are under   *)
(* way at a time.  All of it runs on the UI thread: one coroutine has the  *)
(* thread from one await to the next.                                      *)
(*                                                                         *)
(* Delegates of text files are PageSourceWithDelegates too: they have to   *)
(* be disposed before they are destroyed, and show nothing afterwards.     *)
(***************************************************************************)
EXTENDS Integers, FiniteSets, FiniteSetsExt, Functions

CONSTANTS
  Files,      \* numbers, in the order of the directory
  TextFiles,  \* those that end in .txt: loaded at once, and disposable
  Slots,      \* coroutines: OnFileModified() and Reload()
  Disposer,   \* the coroutine of DisposeAsync()
  MaxOps      \* bound: changes of the folder, reloads and the disposal

Nobody == "nobody"

ASSUME FolderAssumption ==
  /\ Files \subseteq Nat
  /\ TextFiles \subseteq Files
  /\ Disposer \notin Slots
  /\ Nobody \notin Slots \cup {Disposer}

VARIABLES
  disk,      \* the files that are in the folder
  there,     \* the folder exists
  watching,  \* mWatcher has a handle of the folder as it is now
  changed,   \* a change that the UI thread has not been told of
  contents,  \* mContents
  shown,     \* mDelegates
  disposed,  \* delegates that were disposed
  disposal,  \* mDisposal
  thread,    \* the coroutine that has the UI thread
  step,      \* what each coroutine is at
  todo,      \* what its directory iterator has not visited
  found,     \* newContents
  fresh,     \* modifiedOrNew
  target,    \* the delegates that it gives to SetDelegates()
  after,     \* what it does once they are set
  made,      \* delegates made so far, by file
  ops,       \* changes and requests so far
  earlier,   \* history: of those that run, the ones that began before it
  overtaken, \* history: those that a later one has ended before
  stale,     \* history: an overtaken coroutine put its list in place
  emptied,   \* history: Reload() cleared the delegates and mContents was not
  mixed,     \* history: SetDelegates() ran while another one was suspended
  again      \* history: delegates in a list that were in one before

diskVars == <<disk, there, watching, changed>>
sourceVars == <<contents, shown, disposed, disposal>>
localVars == <<todo, found, fresh, target, after>>
historyVars == <<earlier, overtaken, stale, emptied, mixed, again>>
vars == <<diskVars, sourceVars, thread, step, localVars, made, ops,
          historyVars>>

Coroutines == Slots \cup {Disposer}

Delegate == [file: Files, n: Nat]
Disposable(d) == d.file \in TextFiles
FilesOf(ds) == {d.file : d \in ds}
MadeFor(f) == [file |-> f, n |-> made[f] + 1]

(* SetPath() has made the watcher; its scan is the first one that begins.  *)
Init ==
  /\ disk \in SUBSET Files
  /\ there = TRUE /\ watching = TRUE /\ changed = TRUE
  /\ contents = {} /\ shown = {} /\ disposed = {} /\ disposal = "Live"
  /\ thread = Nobody
  /\ step = [c \in Coroutines |-> "none"]
  /\ todo = [c \in Coroutines |-> {}]
  /\ found = [c \in Coroutines |-> {}]
  /\ fresh = [c \in Coroutines |-> FALSE]
  /\ target = [c \in Coroutines |-> {}]
  /\ after = [c \in Coroutines |-> "end"]
  /\ made = [f \in Files |-> 0]
  /\ ops = 0
  /\ earlier = [c \in Coroutines |-> {}]
  /\ overtaken = {}
  /\ stale = FALSE
  /\ emptied = FALSE
  /\ mixed = FALSE
  /\ again = {}

----------------------------------------------------------------------------
(* The folder, and the watcher that reports it. *)

(* Between two awaits a coroutine does not look at the folder again, so    *)
(* that it makes no difference if the folder waits for the next await.     *)
SomethingHappens == ops < MaxOps /\ ops' = ops + 1 /\ thread = Nobody

ChangeFile(f) ==
  /\ SomethingHappens
  /\ there
  /\ disk' = IF f \in disk THEN disk \ {f} ELSE disk \cup {f}
  /\ changed' = (changed \/ watching)
  /\ UNCHANGED <<there, watching, sourceVars, thread, step, localVars, made,
                 historyVars>>

(* A watcher reports that its folder is gone; then its handle is dead. *)
RemoveFolder ==
  /\ SomethingHappens
  /\ there
  /\ there' = FALSE
  /\ disk' = {}
  /\ changed' = (changed \/ watching)
  /\ watching' = FALSE
  /\ UNCHANGED <<sourceVars, thread, step, localVars, made, historyVars>>

CreateFolder ==
  /\ SomethingHappens
  /\ ~there
  /\ there' = TRUE
  /\ disk' \in SUBSET Files
  /\ UNCHANGED <<watching, changed, sourceVars, thread, step, localVars,
                 made, historyVars>>

----------------------------------------------------------------------------
(* Coroutines *)

Running == {c \in Coroutines : step[c] # "none"}

Begin(c) ==
  /\ thread = Nobody
  /\ c \notin Running
  /\ thread' = c
  /\ earlier' = [b \in Coroutines |->
                   IF b = c THEN Running ELSE earlier[b] \ {c}]
  /\ overtaken' = overtaken \ {c}

Goto(c, s) == step' = [step EXCEPT ![c] = s]
Suspend(c, s) == Goto(c, s) /\ thread' = Nobody

(* What c does next counts: those that began before it are too late now.   *)
Overtake(c) ==
  overtaken' = overtaken \cup (earlier[c] \cap Running)

Scan(c) ==
  /\ Goto(c, "scanning")
  /\ todo' = [todo EXCEPT ![c] = disk]
  /\ found' = [found EXCEPT ![c] = {}]
  /\ fresh' = [fresh EXCEPT ![c] = FALSE]
  /\ UNCHANGED <<target, after>>

SetDelegates(c, ds, then) ==
  /\ Goto(c, "setting")
  /\ target' = [target EXCEPT ![c] = ds]
  /\ after' = [after EXCEPT ![c] = then]

(* The watcher's event arrives: OnFileModified(), up to the iteration. *)
OnFileModified(c) ==
  /\ changed
  /\ changed' = FALSE
  /\ IF disposal = "Live" /\ there
       THEN Begin(c) /\ Scan(c)
       ELSE /\ thread = Nobody
            /\ UNCHANGED <<thread, step, localVars, earlier, overtaken>>
  /\ UNCHANGED <<disk, there, watching, sourceVars, made, ops, stale, emptied,
                 mixed, again>>

(* Reload(), which calls OnFileModified() itself, whatever became of the   *)
(* panel; only the latter looks at the disposal.                           *)
Reload(c) ==
  /\ SomethingHappens
  /\ \/ /\ ~there
        /\ Begin(c)
        /\ SetDelegates(c, {}, "end")
        /\ UNCHANGED <<watching, changed, todo, found, fresh>>
     \/ /\ there
        /\ watching' = TRUE
        /\ changed' = FALSE
        /\ IF disposal = "Live"
             THEN Begin(c) /\ Scan(c)
             ELSE UNCHANGED <<thread, step, localVars, earlier, overtaken>>
  /\ UNCHANGED <<disk, there, sourceVars, made, stale, emptied, mixed, again>>

\* Mutant: a file that is known gets a delegate more.
VisitFile_Twice(c) ==
  /\ step[c] = "scanning" /\ thread = c
  /\ todo[c] # {}
  /\ LET f == Min(todo[c])
         kept == {d \in contents : d.file = f} IN
       /\ todo' = [todo EXCEPT ![c] = @ \ {f}]
       /\ found' = [found EXCEPT ![c] = @ \cup kept \cup {MadeFor(f)}]
       /\ fresh' = [fresh EXCEPT ![c] = TRUE]
       /\ made' = [made EXCEPT ![f] = @ + 1]
       /\ Suspend(c, "loading")
  /\ UNCHANGED <<diskVars, sourceVars, target, after, ops, historyVars>>

(* The iterator's next file: its delegate is kept, or made, at once for a  *)
(* text; other documents are loaded.  A file that has gone since the       *)
(* iteration began has no delegate (FilePageSource::Create).               *)
VisitFile(c) ==
  /\ step[c] = "scanning" /\ thread = c
  /\ todo[c] # {}
  /\ LET f == Min(todo[c])
         kept == {d \in contents : d.file = f} IN
       /\ todo' = [todo EXCEPT ![c] = @ \ {f}]
       /\ \/ /\ kept # {}
             /\ found' = [found EXCEPT ![c] = @ \cup kept]
             /\ UNCHANGED <<thread, step, fresh, made>>
          \/ /\ kept = {} /\ f \notin disk
             /\ UNCHANGED <<thread, step, found, fresh, made>>
          \/ /\ kept = {} /\ f \in disk \cap TextFiles
             /\ found' = [found EXCEPT ![c] = @ \cup {MadeFor(f)}]
             /\ fresh' = [fresh EXCEPT ![c] = TRUE]
             /\ made' = [made EXCEPT ![f] = @ + 1]
             /\ UNCHANGED <<thread, step>>
          \/ /\ kept = {} /\ f \in disk \ TextFiles
             /\ found' = [found EXCEPT ![c] = @ \cup {MadeFor(f)}]
             /\ fresh' = [fresh EXCEPT ![c] = TRUE]
             /\ made' = [made EXCEPT ![f] = @ + 1]
             /\ Suspend(c, "loading")
  /\ UNCHANGED <<diskVars, sourceVars, target, after, ops, historyVars>>

Loaded(c) ==
  /\ step[c] = "loading" /\ thread = Nobody
  /\ Goto(c, "scanning")
  /\ thread' = c
  /\ UNCHANGED <<diskVars, sourceVars, localVars, made, ops, historyVars>>

(* Delegates that are, or have been, in a list given to SetDelegates(). *)
Listed == contents \cup shown \cup disposed \cup UNION Range(target)

\* Mutant: only the number of files is compared.
EndScan_SizeOnly(c) ==
  /\ step[c] = "scanning" /\ thread = c
  /\ todo[c] = {}
  /\ Overtake(c)
  /\ IF Cardinality(found[c]) = Cardinality(contents)
       THEN /\ Suspend(c, "none")
            /\ UNCHANGED <<contents, found, target, after, stale, emptied, again>>
       ELSE /\ contents' = found[c]
            /\ found' = [found EXCEPT ![c] = {}]
            /\ SetDelegates(c, found[c], "check")
            /\ stale' = (c \in overtaken)
            /\ emptied' = FALSE
            /\ again' = again \cup (found[c] \cap Listed)
            /\ UNCHANGED thread
  /\ UNCHANGED <<diskVars, shown, disposed, disposal, todo, fresh, made, ops,
                 earlier, mixed>>

(* The end of the iteration: nothing to do, or a new list of delegates. *)
EndScan(c) ==
  /\ step[c] = "scanning" /\ thread = c
  /\ todo[c] = {}
  /\ Overtake(c)
  /\ IF Cardinality(found[c]) = Cardinality(contents) /\ ~fresh[c]
       THEN /\ Suspend(c, "none")
            /\ UNCHANGED <<contents, found, target, after, stale, emptied, again>>
       ELSE /\ contents' = found[c]
            /\ found' = [found EXCEPT ![c] = {}]
            /\ SetDelegates(c, found[c], "check")
            /\ stale' = (c \in overtaken)
            /\ emptied' = FALSE
            /\ again' = again \cup (found[c] \cap Listed)
            /\ UNCHANGED thread
  /\ UNCHANGED <<diskVars, shown, disposed, disposal, todo, fresh, made, ops,
                 earlier, mixed>>

\* Mutant: the old delegates are dropped, not disposed.
DisposeDelegates_Dropped(c) ==
  /\ step[c] = "setting" /\ thread = c
  /\ Goto(c, "applying")
  /\ UNCHANGED <<diskVars, sourceVars, thread, localVars, made, ops,
                 historyVars>>

(* SetDelegates(): the disposal of a delegate that has been disposed before *)
(* waits on another thread; others are disposed at once.                    *)
DisposeDelegates(c) ==
  /\ step[c] = "setting" /\ thread = c
  /\ LET disposables == {d \in shown : Disposable(d)} IN
       /\ disposed' = disposed \cup disposables
       /\ IF disposables \cap disposed # {}
            THEN Suspend(c, "disposing")
            ELSE Goto(c, "applying") /\ UNCHANGED thread
  /\ mixed' = (mixed \/ \E b \in Coroutines : step[b] = "disposing")
  /\ UNCHANGED <<diskVars, contents, shown, disposal, localVars, made, ops,
                 earlier, overtaken, stale, emptied, again>>

\* Mutant: it waits for the disposal of the folder instead.
DelegatesDisposed_OfFolder(c) ==
  /\ step[c] = "disposing" /\ thread = Nobody
  /\ disposal # "Disposing"
  /\ Goto(c, "applying")
  /\ thread' = c
  /\ UNCHANGED <<diskVars, sourceVars, localVars, made, ops, historyVars>>

DelegatesDisposed(c) ==
  /\ step[c] = "disposing" /\ thread = Nobody
  /\ Goto(c, "applying")
  /\ thread' = c
  /\ UNCHANGED <<diskVars, sourceVars, localVars, made, ops, historyVars>>

\* Mutant: a disposal that came during the scan is not noticed.
ApplyDelegates_NoCheck(c) ==
  /\ step[c] = "applying" /\ thread = c
  /\ shown' = target[c]
  /\ Overtake(c)
  /\ stale' = (stale \/ c \in overtaken)
  /\ disposal' = IF after[c] = "disposed" THEN "Disposed" ELSE disposal
  /\ Suspend(c, "none")
  /\ target' = [target EXCEPT ![c] = {}]
  /\ emptied' = IF after[c] = "end" /\ disposal = "Live"
                  THEN contents # {} ELSE emptied
  /\ UNCHANGED <<diskVars, contents, disposed, todo, found, fresh, after, made,
                 ops, earlier, mixed, again>>

(* The rest of SetDelegates() and of its caller.  A scan that a disposal   *)
(* has passed by takes its delegates away again.                           *)
ApplyDelegates(c) ==
  /\ step[c] = "applying" /\ thread = c
  /\ shown' = target[c]
  /\ Overtake(c)
  /\ stale' = (stale \/ c \in overtaken)
  /\ IF after[c] = "check" /\ disposal # "Live"
       THEN /\ contents' = {}
            /\ SetDelegates(c, {}, "end")
            /\ UNCHANGED <<disposal, thread>>
       ELSE /\ disposal' = IF after[c] = "disposed" THEN "Disposed" ELSE disposal
            /\ Suspend(c, "none")
            /\ target' = [target EXCEPT ![c] = {}]
            /\ UNCHANGED <<contents, after>>
  /\ emptied' = IF after[c] = "end" /\ disposal = "Live"
                  THEN contents # {} ELSE emptied
  /\ UNCHANGED <<diskVars, disposed, todo, found, fresh, made, ops, earlier,
                 mixed, again>>

DisposeAsync ==
  /\ SomethingHappens
  /\ disposal = "Live"
  /\ disposal' = "Disposing"
  /\ Begin(Disposer)
  /\ SetDelegates(Disposer, {}, "disposed")
  /\ UNCHANGED <<diskVars, contents, shown, disposed, todo, found, fresh, made,
                 stale, emptied, mixed, again>>

Resume(c) ==
  VisitFile(c) \/ Loaded(c) \/ EndScan(c) \/ DisposeDelegates(c)
    \/ DelegatesDisposed(c) \/ ApplyDelegates(c)

Next ==
  \/ \E f \in Files : ChangeFile(f)
  \/ RemoveFolder \/ CreateFolder \/ DisposeAsync
  \/ \E c \in Slots : OnFileModified(c) \/ Reload(c)
  \/ \E c \in Coroutines : Resume(c)

Spec == Init /\ [][Next]_vars

(* Loads and disposals end, and the thread serves what is ready. *)
Fairness ==
  /\ \A c \in Coroutines : WF_vars(Resume(c)) 
  /\ WF_vars(\E c \in Slots : OnFileModified(c))

FairSpec == Spec /\ Fairness

----------------------------------------------------------------------------
(* Properties *)

Quiet == Running = {} /\ ~changed

(* One delegate for each file, and one of those that were made for it. *)
ListOfDelegates(ds) ==
  /\ ds \subseteq Delegate
  /\ IsFiniteSet(ds)
  /\ \A d \in ds : d.n \in 1 .. made[d.file]
  /\ \A d, e \in ds : d.file = e.file => d = e

(* Every list of delegates that is made, set or shown is one of those. *)
TypeOK ==
  /\ disk \subseteq Files
  /\ there \in BOOLEAN /\ watching \in BOOLEAN /\ changed \in BOOLEAN
  /\ made \in [Files -> Nat]
  /\ \A ds \in {contents, shown} : ListOfDelegates(ds)
  /\ \A c \in Coroutines :
       ListOfDelegates(found[c]) /\ ListOfDelegates(target[c])
  /\ disposed \subseteq Delegate
  /\ disposal \in {"Live", "Disposing", "Disposed"}
  /\ thread \in Coroutines \cup {Nobody}
  /\ step \in [Coroutines -> {"none", "scanning", "loading", "setting",
                             "disposing", "applying"}]
  /\ todo \in [Coroutines -> SUBSET Files]
  /\ found \in [Coroutines -> SUBSET Delegate]
  /\ target \in [Coroutines -> SUBSET Delegate]
  /\ fresh \in [Coroutines -> BOOLEAN]
  /\ after \in [Coroutines -> {"end", "check", "disposed"}]
  /\ earlier \in [Coroutines -> SUBSET Coroutines]
  /\ overtaken \subseteq Coroutines
  /\ stale \in BOOLEAN /\ emptied \in BOOLEAN /\ mixed \in BOOLEAN
  /\ again \subseteq Delegate

(* The files that the panel shows: a text that was disposed has no pages.  *)
FilesShown == FilesOf({d \in shown : d \notin disposed})

(* Nothing is left to do, and no history says that the list is not the one *)
(* of the last scan: a scan put its list in place after a later one had    *)
(* ended, or Reload() found no folder and cleared the delegates after      *)
(* mContents was written: then files that come back are taken for files    *)
(* that are shown.                                                         *)
LastScanWon ==
  Quiet /\ there /\ watching /\ disposal = "Live" /\ ~stale /\ ~emptied

(* Then the panel shows the files of the folder, with one exception: a     *)
(* text that a scan kept in a list may be listed and show nothing, since   *)
(* SetDelegates() disposes of the delegates it replaces and puts those     *)
(* that are kept back.  Whatever else is listed is never disposed.         *)
CaughtUp ==
  LastScanWon =>
    /\ FilesOf(shown) = disk
    /\ disk \ FilesShown \subseteq FilesOf(again \cap shown)

(* The comment in OnFileModified(), "All file-sourced tabs watch their own *)
(* content" (FolderPageSource.cpp:93), is why a file that is known keeps   *)
(* its delegate: the delegate goes on showing the file.  No scan need have *)
(* overlapped for this to fail.                                            *)
KeptTextsShow == LastScanWon /\ ~mixed => FilesShown = disk

(* After its disposal the panel holds no delegates, also those of a scan   *)
(* that the disposal overtook.                                             *)
EmptyOnceDisposed ==
  (Running = {} /\ disposal # "Live") => disposal = "Disposed" /\ shown = {}

(* A text's delegate is disposed before the last reference to it goes: its *)
(* DisposalState is fatal otherwise.  SetDelegates() that is called while  *)
(* another one is suspended breaks this: what the first one sets is        *)
(* replaced without being disposed.                                        *)
Held ==
  contents \cup shown \cup UNION {found[c] \cup target[c] : c \in Coroutines}
NothingLost ==
  ~mixed => \A f \in TextFiles : \A n \in 1 .. made[f] :
              [file |-> f, n |-> n] \in Held \cup disposed

(* Once the folder is left alone the scans and the disposal come to an end. *)
ScansEnd == ops = MaxOps ~> Quiet
=============================================================================
