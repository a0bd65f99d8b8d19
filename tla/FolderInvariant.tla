--------------------------- MODULE FolderInvariant ---------------------------
(* The inductive invariant of Folder, in parts. *)
EXTENDS Folder

Scanning(c) == step[c] \in {"scanning", "loading"}
Setting(c) == step[c] \in {"setting", "disposing", "applying"}

(* A coroutine that is at none of its awaits has the UI thread. *)
OneThread ==
  \A c \in Coroutines :
    step[c] \in {"scanning", "setting", "applying"} => thread = c

(* The disposal is one coroutine, which sets no delegates; nor does any     *)
(* other that does not look whether the disposal has begun.                 *)
Disposal ==
  /\ disposal = "Disposing" <=> Disposer \in Running
  /\ ~Scanning(Disposer)
  /\ \A c \in Coroutines : Setting(c) =>
       /\ after[c] = "disposed" <=> c = Disposer
       /\ after[c] # "check" => target[c] = {}

(* What is still shown after the disposal has begun will be taken away. *)
ClearedLater ==
  disposal # "Live" /\ shown # {} => \E c \in Coroutines : Setting(c)

(* A scan lists each file once; until it suspends nobody else writes       *)
(* mContents, so that its delegates are new or those that are known.       *)
Lists ==
  \A c \in Coroutines : Scanning(c) =>
    /\ FilesOf(found[c]) \cap todo[c] = {}
    /\ ~fresh[c] => step[c] = "scanning" /\ found[c] \subseteq contents

(* Those that run began in some order. *)
Order ==
  /\ \A c \in Running : c \notin earlier[c]
  /\ \A b, c \in Running : b # c => (b \in earlier[c] <=> c \notin earlier[b])

(* A scan that has put its list in place came before those that began      *)
(* earlier.                                                                 *)
Overtaking ==
  \A c \in Running : Setting(c) /\ after[c] = "check" =>
    earlier[c] \cap Running \subseteq overtaken

(* Until it is overtaken a list that is being set is mContents; with none   *)
(* being set mContents is shown.                                            *)
ContentsShown ==
  disposal = "Live" /\ ~stale =>
    /\ \A c \in Running \ overtaken :
         Setting(c) /\ after[c] = "check" => target[c] = contents
    /\ ~emptied /\ (\A c \in Coroutines : ~Setting(c)) => shown = contents

(* The scan c is the last that began, and lists the folder as it is. *)
SeesTheFolder(c) ==
  /\ Scanning(c)
  /\ c \notin overtaken
  /\ Running \ {c} \subseteq earlier[c]
  /\ FilesOf(found[c]) \cup todo[c] = disk

(* With no change left to report, the folder is what the last scan lists,   *)
(* or what mContents is since it ended.                                     *)
FolderListed ==
  /\ watching => there
  /\ watching /\ ~changed /\ disposal = "Live" =>
       \/ \E c \in Slots : SeesTheFolder(c)
       \/ /\ \A c \in Coroutines : Scanning(c) => c \in overtaken
          /\ ~stale => FilesOf(contents) = disk

(* The delegates that a list in use, or its replacement, will show. *)
InUse == shown \cup UNION {target[c] : c \in {b \in Coroutines : Setting(b)}}
InScans == UNION {found[c] : c \in {b \in Coroutines : Scanning(b)}}

(* If SetDelegates() is never entered while it is suspended, it disposes of *)
(* all that it replaces, and every text is disposed, in use, or in a list   *)
(* that a scan is still making.                                             *)
TextsDisposed ==
  ~mixed =>
    /\ \A b, c \in Coroutines :
         {step[b], step[c]} \subseteq {"disposing", "applying"} => b = c
    /\ (\E c \in Coroutines : step[c] \in {"disposing", "applying"}) =>
         \A d \in shown : Disposable(d) => d \in disposed
    /\ \A d \in contents : Disposable(d) => d \in disposed \cup InUse
    /\ \A f \in TextFiles : \A n \in 1 .. made[f] :
         [file |-> f, n |-> n] \in disposed \cup InUse \cup InScans

(* A delegate is put in a list for the first time by the scan that made it; *)
(* until that list is in place nobody else has it.                         *)
FirstList ==
  \A c \in Coroutines : Setting(c) /\ after[c] = "check" =>
    /\ target[c] \cap shown \subseteq again
    /\ \A b \in Coroutines \ {c} : target[c] \cap target[b] \subseteq again
    /\ step[c] = "setting" /\ c \in overtaken => stale

(* So what mContents lists is disposed only after a scan has kept it, or   *)
(* by a Reload() that clears the delegates.                                *)
KeptOrCleared ==
  disposal = "Live" /\ ~stale =>
    \/ contents \cap disposed \subseteq again
    \/ emptied
    \/ \E c \in Coroutines : Setting(c) /\ after[c] = "end"

IInv ==
  /\ TypeOK
  /\ OneThread
  /\ Disposal
  /\ ClearedLater
  /\ Lists
  /\ Order
  /\ Overtaking
  /\ ContentsShown
  /\ FolderListed
  /\ TextsDisposed
  /\ FirstList
  /\ KeptOrCleared
=============================================================================
