--------------------------- MODULE Folder_proofs ----------------------------
(***************************************************************************)
(* Proofs about Folder: the inductive invariant of FolderInvariant, and    *)
(* what follows from it. Between them the parts of the invariant order the *)
(* coroutines that run, by who began first and who has overtaken whom.     *)
(***************************************************************************)
EXTENDS FolderInvariant, FiniteSetTheorems, TLAPS

(* The least of some numbers is one of them. *)
LEMMA MinOfNats ==
  ASSUME NEW S \in SUBSET Nat, S # {}
  PROVE  Min(S) \in S
  <1> DEFINE R == {ss \in Nat \X Nat : ss[1] < ss[2]}
  <1>1. IsWellFoundedOn(R, Nat)
    BY NatLessThanWellFounded, Zenon DEF OpToRel
  <1>2. PICK x \in S : \A y \in S : <<y, x>> \notin R
    BY <1>1, WFMin, Zenon
  <1>3. ASSUME NEW y \in S
        PROVE  x =< y
    <2>1. <<y, x>>[1] = y /\ <<y, x>>[2] = x /\ <<y, x>> \in Nat \X Nat
      OBVIOUS
    <2>2. ~(y < x)
      BY <1>2, <2>1, Zenon
    <2>3. QED
      BY <2>2
  <1>4. QED
    BY <1>3, Zenon DEF Min

(* No delegates at all are a list of delegates. *)
LEMMA EmptyList == ListOfDelegates({})
  BY FS_EmptySet DEF ListOfDelegates

(* A list of delegates remains one when more delegates are made. *)
LEMMA ListKept ==
  ASSUME made \in [Files -> Nat], made' \in [Files -> Nat],
         \A f \in Files : made[f] <= made'[f],
         NEW ds, ListOfDelegates(ds)
  PROVE  ListOfDelegates(ds)'
  <1>1. \A d \in ds : d.n \in 1 .. made'[d.file]
    BY DEF ListOfDelegates, Delegate
  <1>2. QED
    BY <1>1 DEF ListOfDelegates

(* A list with a delegate that has just been made for another file is one. *)
LEMMA ListExtended ==
  ASSUME NEW f \in Files, made \in [Files -> Nat],
         NEW ds, ListOfDelegates(ds), f \notin FilesOf(ds),
         NEW es, es = ds \cup {MadeFor(f)},
         made' = [made EXCEPT ![f] = @ + 1]
  PROVE  ListOfDelegates(es)'
  <1>1. IsFiniteSet(es)
    BY FS_AddElement DEF ListOfDelegates
  <1>2. \A d \in es : d \in Delegate /\ d.n \in 1 .. made'[d.file]
    BY DEF ListOfDelegates, Delegate, MadeFor
  <1>3. \A d, e \in es : d.file = e.file => d = e
    BY DEF ListOfDelegates, MadeFor, FilesOf
  <1>4. QED
    BY <1>1, <1>2, <1>3 DEF ListOfDelegates

(* A list with the known delegates of another file is one. *)
LEMMA ListJoined ==
  ASSUME NEW f \in Files, NEW ds, NEW es,
         ListOfDelegates(ds), ListOfDelegates(es), f \notin FilesOf(ds)
  PROVE  ListOfDelegates(ds \cup {d \in es : d.file = f})
  <1> DEFINE kept == {d \in es : d.file = f}
  <1>1. IsFiniteSet(kept)
    BY FS_Subset DEF ListOfDelegates
  <1>2. IsFiniteSet(ds \cup kept)
    BY <1>1, FS_Union DEF ListOfDelegates
  <1>3. QED
    BY <1>2 DEF ListOfDelegates, FilesOf

(* The invariant holds when the panel has just been made. *)
LEMMA InitIInv == Init => IInv
  <1> SUFFICES ASSUME Init PROVE IInv
    OBVIOUS
  <1>1. TypeOK
    BY FolderAssumption, FS_EmptySet DEF Init, TypeOK, ListOfDelegates
  <1>2. OneThread /\ Disposal /\ ClearedLater /\ Lists /\ Order /\ Overtaking
    BY DEF Init, OneThread, Disposal, ClearedLater, Lists, Order, Overtaking,
           Running, Scanning, Setting, Coroutines
  <1>3. ContentsShown /\ FolderListed
    BY DEF Init, ContentsShown, FolderListed, Running
  <1>4. TextsDisposed
    BY FolderAssumption DEF Init, TextsDisposed
  <1>5. FirstList /\ KeptOrCleared
    BY DEF Init, FirstList, KeptOrCleared
  <1>6. QED
    BY <1>1, <1>2, <1>3, <1>4, <1>5 DEF IInv

-----------------------------------------------------------------------------
(* Every step keeps the invariant; a lemma for each. *)

(* A file appears or goes, and the watcher has something to report. *)
LEMMA ChangeFileKeeps ==
  ASSUME IInv, NEW f \in Files, ChangeFile(f)
  PROVE  IInv'
  <1>1. TypeOK'
    BY DEF sourceVars, localVars, historyVars, IInv, TypeOK, ListOfDelegates,
           ChangeFile
  <1>2. OneThread'
    BY DEF IInv, OneThread, ChangeFile
  <1>3. Disposal'
    BY DEF sourceVars, localVars, Running, Scanning, Setting, IInv, Disposal,
           ChangeFile
  <1>4. ClearedLater'
    BY DEF sourceVars, Setting, IInv, ClearedLater, ChangeFile
  <1>5. Lists'
    BY DEF sourceVars, localVars, Scanning, IInv, Lists, ChangeFile
  <1>6. Order'
    BY DEF historyVars, Running, IInv, Order, ChangeFile
  <1>7. Overtaking'
    BY DEF localVars, historyVars, Running, Setting, IInv, Overtaking,
           ChangeFile
  <1>8. ContentsShown'
    BY DEF sourceVars, localVars, historyVars, Running, Setting, IInv,
           ContentsShown, ChangeFile
  <1>9. FolderListed'
    BY DEF IInv, FolderListed, ChangeFile
  <1>10. TextsDisposed'
    BY DEF sourceVars, localVars, historyVars, Scanning, Setting, IInv,
           TextsDisposed, InUse, InScans, ChangeFile
  <1>11. FirstList'
    BY DEF sourceVars, localVars, historyVars, Setting, IInv, FirstList,
           ChangeFile
  <1>12. KeptOrCleared'
    BY DEF sourceVars, localVars, historyVars, Setting, IInv, KeptOrCleared,
           ChangeFile
  <1>13. QED
    BY <1>1, <1>2, <1>3, <1>4, <1>5, <1>6, <1>7, <1>8, <1>9, <1>10, <1>11,
       <1>12
       DEF IInv

(* The folder goes with its files. *)
LEMMA RemoveFolderKeeps ==
  ASSUME IInv, RemoveFolder
  PROVE  IInv'
  <1>1. TypeOK'
    <2>1. /\ disk' \subseteq Files
          /\ there' \in BOOLEAN /\ watching' \in BOOLEAN
          /\ changed' \in BOOLEAN
          /\ made' \in [Files -> Nat] /\ disposed' \subseteq Delegate
          /\ disposal' \in {"Live", "Disposing", "Disposed"}
          /\ thread' \in Coroutines \cup {Nobody}
          /\ stale' \in BOOLEAN /\ emptied' \in BOOLEAN /\ mixed' \in BOOLEAN
          /\ overtaken' \subseteq Coroutines
          /\ again' \subseteq Delegate
      BY DEF IInv, TypeOK, RemoveFolder, SomethingHappens, diskVars,
             sourceVars, localVars, historyVars, Coroutines, Running
    <2>2. /\ step' \in [Coroutines ->
               {"none", "scanning", "loading", "setting",
                "disposing", "applying"}]
          /\ todo' \in [Coroutines -> SUBSET Files]
          /\ fresh' \in [Coroutines -> BOOLEAN]
          /\ after' \in [Coroutines -> {"end", "check", "disposed"}]
      BY DEF IInv, TypeOK, RemoveFolder, localVars
    <2>3. earlier' \in [Coroutines -> SUBSET Coroutines]
      BY DEF IInv, TypeOK, RemoveFolder, historyVars
    <2>4. \A ds \in {contents', shown'} : ListOfDelegates(ds)'
      BY DEF IInv, TypeOK, RemoveFolder, sourceVars, ListOfDelegates
    <2>5. /\ found' \in [Coroutines -> SUBSET Delegate]
          /\ target' \in [Coroutines -> SUBSET Delegate]
      BY DEF IInv, TypeOK, RemoveFolder, localVars
    <2>6. \A b \in Coroutines :
            ListOfDelegates(found[b])' /\ ListOfDelegates(target[b])'
      BY DEF IInv, TypeOK, RemoveFolder, localVars, ListOfDelegates
    <2>7. QED
      BY <2>1, <2>2, <2>3, <2>4, <2>5, <2>6 DEF TypeOK
  <1>2. OneThread'
    BY DEF IInv, OneThread, RemoveFolder
  <1>3. Disposal'
    BY DEF sourceVars, localVars, Running, Scanning, Setting, IInv, Disposal,
           RemoveFolder
  <1>4. ClearedLater'
    BY DEF sourceVars, Setting, IInv, ClearedLater, RemoveFolder
  <1>5. Lists'
    BY DEF sourceVars, localVars, Scanning, IInv, Lists, RemoveFolder
  <1>6. Order'
    BY DEF historyVars, Running, IInv, Order, RemoveFolder
  <1>7. Overtaking'
    BY DEF localVars, historyVars, Running, Setting, IInv, Overtaking,
           RemoveFolder
  <1>8. ContentsShown'
    BY DEF sourceVars, localVars, historyVars, Running, Setting, IInv,
           ContentsShown, RemoveFolder
  <1>9. FolderListed'
    BY DEF FolderListed, RemoveFolder
  <1>10. TextsDisposed'
    BY DEF sourceVars, localVars, historyVars, Scanning, Setting, IInv,
           TextsDisposed, InUse, InScans, RemoveFolder
  <1>11. FirstList'
    BY DEF sourceVars, localVars, historyVars, Setting, IInv, FirstList,
           RemoveFolder
  <1>12. KeptOrCleared'
    BY DEF sourceVars, localVars, historyVars, Setting, IInv, KeptOrCleared,
           RemoveFolder
  <1>13. QED
    BY <1>1, <1>2, <1>3, <1>4, <1>5, <1>6, <1>7, <1>8, <1>9, <1>10, <1>11,
       <1>12
       DEF IInv

(* The folder comes back, empty. *)
LEMMA CreateFolderKeeps ==
  ASSUME IInv, CreateFolder
  PROVE  IInv'
  <1>1. TypeOK'
    BY DEF sourceVars, localVars, historyVars, IInv, TypeOK, ListOfDelegates,
           CreateFolder
  <1>2. OneThread'
    BY DEF IInv, OneThread, CreateFolder
  <1>3. Disposal'
    BY DEF sourceVars, localVars, Running, Scanning, Setting, IInv, Disposal,
           CreateFolder
  <1>4. ClearedLater'
    BY DEF sourceVars, Setting, IInv, ClearedLater, CreateFolder
  <1>5. Lists'
    BY DEF sourceVars, localVars, Scanning, IInv, Lists, CreateFolder
  <1>6. Order'
    BY DEF historyVars, Running, IInv, Order, CreateFolder
  <1>7. Overtaking'
    BY DEF localVars, historyVars, Running, Setting, IInv, Overtaking,
           CreateFolder
  <1>8. ContentsShown'
    BY DEF sourceVars, localVars, historyVars, Running, Setting, IInv,
           ContentsShown, CreateFolder
  <1>9. FolderListed'
    BY DEF IInv, FolderListed, CreateFolder
  <1>10. TextsDisposed'
    BY DEF sourceVars, localVars, historyVars, Scanning, Setting, IInv,
           TextsDisposed, InUse, InScans, CreateFolder
  <1>11. FirstList'
    BY DEF sourceVars, localVars, historyVars, Setting, IInv, FirstList,
           CreateFolder
  <1>12. KeptOrCleared'
    BY DEF sourceVars, localVars, historyVars, Setting, IInv, KeptOrCleared,
           CreateFolder
  <1>13. QED
    BY <1>1, <1>2, <1>3, <1>4, <1>5, <1>6, <1>7, <1>8, <1>9, <1>10, <1>11,
       <1>12
       DEF IInv

(* The disposal sets no delegates before it waits for those it replaces. *)
LEMMA DisposeAsyncKeeps ==
  ASSUME IInv, DisposeAsync
  PROVE  IInv'
  <1>1. TypeOK'
    BY FS_EmptySet
       DEF diskVars, Coroutines, Running, IInv, TypeOK, ListOfDelegates,
           DisposeAsync, Begin, SetDelegates, Goto
  <1>2. OneThread'
    BY FolderAssumption
       DEF Coroutines, IInv, OneThread, DisposeAsync, Begin, SetDelegates, Goto
  <1>3. Disposal'
    BY DEF Coroutines, Running, Scanning, Setting, IInv, TypeOK, Disposal,
           DisposeAsync, SetDelegates, Goto
  <1>4. ClearedLater'
    BY DEF Coroutines, Setting, IInv, TypeOK, ClearedLater, DisposeAsync,
           SetDelegates, Goto
  <1>5. Lists'
    BY DEF Scanning, IInv, Lists, DisposeAsync, SetDelegates, Goto
  <1>6. Order'
    BY DEF Running, IInv, Order, DisposeAsync, Begin, SetDelegates, Goto
  <1>7. Overtaking'
    BY DEF Running, Setting, IInv, TypeOK, Overtaking, DisposeAsync, Begin,
           SetDelegates, Goto
  <1>8. ContentsShown'
    BY DEF ContentsShown, DisposeAsync
  <1>9. FolderListed'
    BY DEF IInv, FolderListed, DisposeAsync, diskVars
  <1>10. TextsDisposed'
    BY DEF Scanning, Setting, IInv, Disposal, TextsDisposed, InUse, InScans,
           DisposeAsync, SetDelegates, Goto
  <1>11. FirstList'
    BY DEF sourceVars, localVars, historyVars, Setting, IInv, TypeOK,
           FirstList, DisposeAsync, Begin, SetDelegates, Goto
  <1>12. KeptOrCleared'
    BY DEF sourceVars, localVars, historyVars, KeptOrCleared, DisposeAsync
  <1>13. QED
    BY <1>1, <1>2, <1>3, <1>4, <1>5, <1>6, <1>7, <1>8, <1>9, <1>10, <1>11,
       <1>12
       DEF IInv

(* A scan begins by listing the folder. *)
LEMMA OnFileModifiedKeeps ==
  ASSUME IInv, NEW c \in Slots, OnFileModified(c)
  PROVE  IInv'
  <1>1. TypeOK'
    <2>1. /\ disk' \subseteq Files
          /\ there' \in BOOLEAN /\ watching' \in BOOLEAN
          /\ changed' \in BOOLEAN
          /\ made' \in [Files -> Nat] /\ disposed' \subseteq Delegate
          /\ disposal' \in {"Live", "Disposing", "Disposed"}
          /\ thread' \in Coroutines \cup {Nobody}
          /\ stale' \in BOOLEAN /\ emptied' \in BOOLEAN /\ mixed' \in BOOLEAN
          /\ overtaken' \subseteq Coroutines
          /\ again' \subseteq Delegate
      BY DEF IInv, TypeOK, OnFileModified, Begin, Scan, Goto, diskVars,
             sourceVars, localVars, historyVars, Coroutines, Running
    <2>2. /\ step' \in [Coroutines ->
               {"none", "scanning", "loading", "setting",
                "disposing", "applying"}]
          /\ todo' \in [Coroutines -> SUBSET Files]
          /\ fresh' \in [Coroutines -> BOOLEAN]
          /\ after' \in [Coroutines -> {"end", "check", "disposed"}]
      BY DEF IInv, TypeOK, OnFileModified, Begin, Scan, Goto, diskVars,
             sourceVars, localVars, historyVars, Coroutines, Running
    <2>3. earlier' \in [Coroutines -> SUBSET Coroutines]
      BY DEF IInv, TypeOK, OnFileModified, Begin, Running
    <2>4. \A ds \in {contents', shown'} : ListOfDelegates(ds)'
      BY DEF IInv, TypeOK, OnFileModified, sourceVars, ListOfDelegates
    <2>5. /\ found' \in [Coroutines -> SUBSET Delegate]
          /\ target' \in [Coroutines -> SUBSET Delegate]
      BY DEF IInv, TypeOK, OnFileModified, Scan, localVars
    <2>6. \A b \in Coroutines :
            ListOfDelegates(found[b])' /\ ListOfDelegates(target[b])'
      BY EmptyList
         DEF IInv, TypeOK, OnFileModified, Begin, Scan, Goto, diskVars,
             sourceVars, localVars, historyVars, Coroutines, Running,
             ListOfDelegates
    <2>7. QED
      BY <2>1, <2>2, <2>3, <2>4, <2>5, <2>6 DEF TypeOK
  <1>2. OneThread'
    BY FolderAssumption
       DEF diskVars, Coroutines, IInv, TypeOK, OneThread, OnFileModified,
           Begin, Scan, Goto
  <1>3. Disposal'
    BY FolderAssumption
       DEF diskVars, sourceVars, localVars, historyVars, Coroutines, Running,
           Scanning, Setting, IInv, TypeOK, Disposal, OnFileModified, Scan,
           Goto
  <1>4. ClearedLater'
    BY DEF sourceVars, Setting, IInv, ClearedLater, OnFileModified
  <1>5. Lists'
    BY DEF sourceVars, localVars, Scanning, IInv, TypeOK, Lists, FilesOf,
           OnFileModified, Scan, Goto
  <1>6. Order'
    BY DEF Running, IInv, TypeOK, Order, OnFileModified, Begin, Scan, Goto
  <1>7. Overtaking'
    BY DEF localVars, Running, Setting, IInv, TypeOK, Overtaking,
           OnFileModified, Begin, Scan, Goto
  <1>8. ContentsShown'
    BY DEF sourceVars, localVars, Running, Setting, IInv, TypeOK,
           ContentsShown, OnFileModified, Begin, Scan, Goto
  <1>9. FolderListed'
    <2>1. CASE disposal = "Live" /\ there
      <3>1. SeesTheFolder(c)'
        BY <2>1
           DEF OnFileModified, Begin, Scan, Goto, SeesTheFolder, Scanning,
               Running, IInv, TypeOK, Coroutines, FilesOf
      <3>2. QED
        BY <3>1 DEF FolderListed, IInv, OnFileModified
    <2>2. CASE ~(disposal = "Live" /\ there)
      BY <2>2 DEF FolderListed, IInv, OnFileModified, sourceVars
    <2>3. QED
      BY <2>1, <2>2
  <1>10. TextsDisposed'
    BY DEF sourceVars, localVars, Running, Scanning, Setting, IInv, TypeOK,
           TextsDisposed, InUse, InScans, OnFileModified, Begin, Scan, Goto
  <1>11. FirstList'
    BY DEF sourceVars, localVars, historyVars, Setting, IInv, TypeOK,
           FirstList, OnFileModified, Begin, Scan, Goto
  <1>12. KeptOrCleared'
    BY DEF sourceVars, localVars, historyVars, Running, Setting, IInv, TypeOK,
           KeptOrCleared, OnFileModified, Begin, Scan, Goto
  <1>13. QED
    BY <1>1, <1>2, <1>3, <1>4, <1>5, <1>6, <1>7, <1>8, <1>9, <1>10, <1>11,
       <1>12
       DEF IInv

(* Reload() scans the folder, or clears the delegates if it is gone. *)
LEMMA ReloadKeeps ==
  ASSUME IInv, NEW c \in Slots, Reload(c)
  PROVE  IInv'
  <1>1. TypeOK'
    <2>1. /\ disk' \subseteq Files
          /\ there' \in BOOLEAN /\ watching' \in BOOLEAN
          /\ changed' \in BOOLEAN
          /\ made' \in [Files -> Nat] /\ disposed' \subseteq Delegate
          /\ disposal' \in {"Live", "Disposing", "Disposed"}
          /\ thread' \in Coroutines \cup {Nobody}
          /\ stale' \in BOOLEAN /\ emptied' \in BOOLEAN /\ mixed' \in BOOLEAN
          /\ overtaken' \subseteq Coroutines
          /\ again' \subseteq Delegate
      BY DEF IInv, TypeOK, Reload, SomethingHappens, Begin, Scan, SetDelegates,
             Goto, diskVars, sourceVars, localVars, historyVars, Coroutines,
             Running
    <2>2. step' \in [Coroutines -> {"none", "scanning", "loading", "setting",
                                    "disposing", "applying"}]
      BY DEF IInv, TypeOK, Reload, Scan, SetDelegates, Goto
    <2>3. todo' \in [Coroutines -> SUBSET Files]
      BY DEF IInv, TypeOK, Reload, Scan, localVars
    <2>4. fresh' \in [Coroutines -> BOOLEAN]
      BY DEF IInv, TypeOK, Reload, SomethingHappens, Begin, Scan, SetDelegates,
             Goto, diskVars, sourceVars, localVars, historyVars, Coroutines,
             Running
    <2>5. after' \in [Coroutines -> {"end", "check", "disposed"}]
      BY DEF IInv, TypeOK, Reload, Scan, SetDelegates, localVars
    <2>6. earlier' \in [Coroutines -> SUBSET Coroutines]
      BY DEF IInv, TypeOK, Reload, Begin, Running
    <2>7. \A ds \in {contents', shown'} : ListOfDelegates(ds)'
      BY DEF IInv, TypeOK, Reload, sourceVars, ListOfDelegates
    <2>8. /\ found' \in [Coroutines -> SUBSET Delegate]
          /\ target' \in [Coroutines -> SUBSET Delegate]
      BY DEF IInv, TypeOK, Reload, Scan, SetDelegates, localVars
    <2>9. \A b \in Coroutines :
            ListOfDelegates(found[b])' /\ ListOfDelegates(target[b])'
      <3> SUFFICES ASSUME NEW b \in Coroutines
                   PROVE  ListOfDelegates(found[b])'
                          /\ ListOfDelegates(target[b])'
        OBVIOUS
      <3>1. /\ made' = made
            /\ found'[b] \in {found[b], {}}
            /\ target'[b] \in {target[b], {}}
        BY DEF IInv, TypeOK, Reload, Scan, SetDelegates, localVars
      <3>2. /\ ListOfDelegates(found[b]) /\ ListOfDelegates(target[b])
            /\ ListOfDelegates({})
        BY EmptyList DEF IInv, TypeOK
      <3>3. QED
        BY <3>1, <3>2 DEF ListOfDelegates
    <2>10. QED
      BY <2>1, <2>2, <2>3, <2>4, <2>5, <2>6, <2>7, <2>8, <2>9 DEF TypeOK
  <1>2. OneThread'
    BY FolderAssumption
       DEF diskVars, Coroutines, IInv, TypeOK, OneThread, Reload, Begin, Scan,
           SetDelegates, Goto
  <1>3. Disposal'
    BY FolderAssumption
       DEF diskVars, sourceVars, localVars, historyVars, Coroutines, Running,
           Scanning, Setting, IInv, TypeOK, Disposal, Reload, Scan,
           SetDelegates, Goto
  <1>4. ClearedLater'
    BY DEF sourceVars, Setting, IInv, TypeOK, ClearedLater, Reload,
           SetDelegates, Goto
  <1>5. Lists'
    BY DEF sourceVars, localVars, Scanning, IInv, TypeOK, Lists, FilesOf,
           Reload, Scan, SetDelegates, Goto
  <1>6. Order'
    BY DEF Running, IInv, TypeOK, Order, Reload, Begin, Scan, SetDelegates,
           Goto
  <1>7. Overtaking'
    BY DEF localVars, Running, Setting, IInv, TypeOK, Overtaking, Reload,
           Begin, Scan, SetDelegates, Goto
  <1>8. ContentsShown'
    BY DEF sourceVars, Running, Setting, IInv, TypeOK, ContentsShown, Reload,
           Begin, Scan, SetDelegates, Goto
  <1>9. FolderListed'
    <2>1. CASE there /\ disposal = "Live"
      <3>1. SeesTheFolder(c)'
        BY <2>1
           DEF Reload, Begin, Scan, Goto, SeesTheFolder, Scanning, Running,
               IInv, TypeOK, Coroutines, FilesOf
      <3>2. QED
        BY <3>1 DEF FolderListed, IInv, Reload
    <2>2. CASE ~(there /\ disposal = "Live")
      BY <2>2 DEF FolderListed, IInv, Reload, sourceVars
    <2>3. QED
      BY <2>1, <2>2
  <1>10. TextsDisposed'
    BY DEF sourceVars, localVars, Running, Scanning, Setting, IInv, TypeOK,
           TextsDisposed, InUse, InScans, Reload, Begin, Scan, SetDelegates,
           Goto
  <1>11. FirstList'
    BY DEF sourceVars, localVars, historyVars, Setting, IInv, TypeOK,
           FirstList, Reload, Begin, Scan, SetDelegates, Goto
  <1>12. KeptOrCleared'
    BY DEF sourceVars, Running, Setting, IInv, TypeOK, KeptOrCleared, Reload,
           Begin, Scan, SetDelegates, Goto
  <1>13. QED
    BY <1>1, <1>2, <1>3, <1>4, <1>5, <1>6, <1>7, <1>8, <1>9, <1>10, <1>11,
       <1>12
       DEF IInv

(* A scan makes a delegate for a file, or takes the one that is known. *)
LEMMA VisitFileKeeps ==
  ASSUME IInv, NEW c \in Coroutines, VisitFile(c)
  PROVE  IInv'
  <1>1. TypeOK'
    <2>1. made \in [Files -> Nat] /\ made' \in [Files -> Nat]
      BY DEF IInv, TypeOK, VisitFile
    <2> DEFINE f == Min(todo[c])
               kept == {d \in contents : d.file = f}
    <2>2. f \in Files /\ f \in todo[c]
      BY MinOfNats, FolderAssumption DEF IInv, TypeOK, VisitFile
    <2>3. \A g \in Files : made[g] <= made'[g]
      BY <2>1 DEF VisitFile
    <2>4. f \notin FilesOf(found[c])
      BY <2>2 DEF IInv, Lists, Scanning, VisitFile
    <2>5. ListOfDelegates(found[c]) /\ ListOfDelegates(contents)
      BY DEF IInv, TypeOK
    <2>6. ListOfDelegates(found[c])'
      <3>1. CASE found' = [found EXCEPT ![c] = @ \cup kept] /\ made' = made
        <4>1. ListOfDelegates(found[c] \cup kept)
          BY <2>2, <2>4, <2>5, ListJoined
        <4>2. found'[c] = found[c] \cup kept
          BY <3>1 DEF IInv, TypeOK
        <4>3. QED
          BY <4>1, <4>2, <2>1, <2>3, ListKept
      <3>2. CASE /\ found' = [found EXCEPT ![c] = @ \cup {MadeFor(f)}]
                 /\ made' = [made EXCEPT ![f] = @ + 1]
        <4>1. found'[c] = found[c] \cup {MadeFor(f)}
          BY <3>2 DEF IInv, TypeOK
        <4>2. QED
          BY <4>1, <3>2, <2>1, <2>2, <2>4, <2>5, ListExtended
      <3>3. CASE found' = found /\ made' = made
        BY <3>3, <2>1, <2>5, ListKept
      <3>4. QED
        BY <3>1, <3>2, <3>3 DEF VisitFile
    <2>7. \A ds : ListOfDelegates(ds) => ListOfDelegates(ds)'
      BY <2>1, <2>3, ListKept
    <2>8. \A b \in Coroutines : ListOfDelegates(found[b])'
      BY <2>6, <2>7 DEF IInv, TypeOK, VisitFile
    <2>9. /\ \A b \in Coroutines : ListOfDelegates(target[b])'
          /\ ListOfDelegates(contents)' /\ ListOfDelegates(shown)'
      BY <2>7 DEF IInv, TypeOK, VisitFile, sourceVars
    <2>10. found' \in [Coroutines -> SUBSET Delegate]
      BY <2>8 DEF IInv, TypeOK, VisitFile, ListOfDelegates
    <2>11. step' \in [Coroutines -> {"none", "scanning", "loading", "setting",
                                     "disposing", "applying"}]
      BY DEF IInv, TypeOK, VisitFile, Suspend, Goto
    <2>12. fresh' \in [Coroutines -> BOOLEAN]
      BY DEF IInv, TypeOK, VisitFile
    <2>13. /\ todo' \in [Coroutines -> SUBSET Files]
           /\ thread' \in Coroutines \cup {Nobody}
      BY DEF IInv, TypeOK, VisitFile, Suspend
    <2>14. QED
      BY <2>8, <2>9, <2>10, <2>11, <2>12, <2>13
         DEF IInv, TypeOK, VisitFile, diskVars, sourceVars, historyVars
  <1>2. OneThread'
    BY DEF IInv, TypeOK, OneThread, VisitFile, Suspend, Goto
  <1>3. Disposal'
    BY DEF sourceVars, Coroutines, Running, Scanning, Setting, IInv, TypeOK,
           Disposal, VisitFile, Suspend, Goto
  <1>4. ClearedLater'
    BY DEF sourceVars, Setting, IInv, TypeOK, ClearedLater, VisitFile, Suspend,
           Goto
  <1>5. Lists'
    BY DEF sourceVars, Scanning, IInv, TypeOK, Lists, FilesOf, VisitFile,
           MadeFor, Suspend, Goto
  <1>6. Order'
    BY DEF historyVars, Running, IInv, TypeOK, Order, VisitFile, Suspend, Goto
  <1>7. Overtaking'
    BY DEF historyVars, Running, Setting, IInv, TypeOK, Overtaking, VisitFile,
           Suspend, Goto
  <1>8. ContentsShown'
    BY DEF sourceVars, historyVars, Running, Setting, IInv, TypeOK,
           ContentsShown, VisitFile, Suspend, Goto
  <1>9. FolderListed'
    <2> DEFINE f == Min(todo[c])
    <2>1. f \in Files /\ f \in todo[c]
        BY MinOfNats, FolderAssumption DEF IInv, TypeOK, VisitFile
    <2>2. ASSUME f \in disk
          PROVE  FilesOf(found'[c]) = FilesOf(found[c]) \cup {f}
      <3>1. CASE found'[c] = found[c] \cup {MadeFor(f)}
        <4>1. MadeFor(f).file = f
          BY DEF MadeFor
        <4>2. QED
          BY <3>1, <4>1 DEF FilesOf
      <3>2. CASE /\ {d \in contents : d.file = f} # {}
                 /\ found'[c] = found[c] \cup {d \in contents : d.file = f}
        BY <3>2 DEF FilesOf
      <3>3. QED
        BY <3>1, <3>2, <2>2 DEF IInv, TypeOK, VisitFile
    <2>3. FilesOf(found[c]) \cup todo[c] = disk =>
            FilesOf(found'[c]) \cup todo'[c] = disk
        BY <2>1, <2>2 DEF VisitFile
    <2>4. \A b \in Coroutines : Scanning(b)' <=> Scanning(b)
        BY DEF IInv, TypeOK, VisitFile, Suspend, Goto, Scanning
    <2>5. \A b \in Coroutines : b # c =>
            found'[b] = found[b] /\ todo'[b] = todo[b]
        BY DEF IInv, TypeOK, VisitFile
    <2>6. Running' = Running
        BY DEF IInv, TypeOK, VisitFile, Suspend, Goto, Running
    <2>7. \A b \in Slots : SeesTheFolder(b) => SeesTheFolder(b)'
        BY <2>3, <2>4, <2>5, <2>6
           DEF Coroutines, SeesTheFolder, VisitFile, historyVars, diskVars
    <2>8. QED
        BY <2>4, <2>7
           DEF FolderListed, IInv, VisitFile, diskVars, sourceVars, historyVars
  <1>10. TextsDisposed'
    BY FolderAssumption
       DEF diskVars, sourceVars, localVars, historyVars, Coroutines, Running,
           Scanning, Setting, IInv, TypeOK, OneThread, TextsDisposed, InUse,
           InScans, VisitFile, MadeFor, Suspend, Goto
  <1>11. FirstList'
    BY DEF sourceVars, localVars, historyVars, Setting, IInv, TypeOK,
           FirstList, VisitFile, Suspend, Goto
  <1>12. KeptOrCleared'
    BY DEF sourceVars, localVars, historyVars, Setting, IInv, TypeOK,
           KeptOrCleared, VisitFile, Suspend, Goto
  <1>13. QED
    BY <1>1, <1>2, <1>3, <1>4, <1>5, <1>6, <1>7, <1>8, <1>9, <1>10, <1>11,
       <1>12
       DEF IInv

(* A scan goes on once its delegate is made. *)
LEMMA LoadedKeeps ==
  ASSUME IInv, NEW c \in Coroutines, Loaded(c)
  PROVE  IInv'
  <1>1. TypeOK'
    BY DEF diskVars, sourceVars, localVars, historyVars, IInv, TypeOK,
           ListOfDelegates, Loaded, Goto
  <1>2. OneThread'
    BY FolderAssumption DEF Coroutines, IInv, OneThread, Loaded, Goto
  <1>3. Disposal'
    BY DEF sourceVars, localVars, Running, Scanning, Setting, IInv, Disposal,
           Loaded, Goto
  <1>4. ClearedLater'
    BY DEF sourceVars, Setting, IInv, ClearedLater, Loaded, Goto
  <1>5. Lists'
    BY DEF sourceVars, localVars, Scanning, IInv, Lists, Loaded, Goto
  <1>6. Order'
    BY DEF historyVars, Running, IInv, Order, Loaded, Goto
  <1>7. Overtaking'
    BY DEF localVars, historyVars, Running, Setting, IInv, Overtaking, Loaded,
           Goto
  <1>8. ContentsShown'
    BY DEF sourceVars, localVars, historyVars, Running, Setting, IInv,
           ContentsShown, Loaded, Goto
  <1>9. FolderListed'
    BY DEF diskVars, sourceVars, localVars, historyVars, Running, Scanning,
           IInv, FolderListed, SeesTheFolder, Loaded, Goto
  <1>10. TextsDisposed'
    BY DEF sourceVars, localVars, historyVars, Scanning, Setting, IInv,
           TextsDisposed, InUse, InScans, Loaded, Goto
  <1>11. FirstList'
    BY DEF sourceVars, localVars, historyVars, Setting, IInv, FirstList,
           Loaded, Goto
  <1>12. KeptOrCleared'
    BY DEF sourceVars, localVars, historyVars, Setting, IInv, KeptOrCleared,
           Loaded, Goto
  <1>13. QED
    BY <1>1, <1>2, <1>3, <1>4, <1>5, <1>6, <1>7, <1>8, <1>9, <1>10, <1>11,
       <1>12
       DEF IInv

(* A scan puts its list in mContents, and sets it unless nothing is new. *)
LEMMA EndScanKeeps ==
  ASSUME IInv, NEW c \in Coroutines, EndScan(c)
  PROVE  IInv'
  <1>1. TypeOK'
    <2>1. /\ disk' \subseteq Files
          /\ there' \in BOOLEAN /\ watching' \in BOOLEAN
          /\ changed' \in BOOLEAN
          /\ made' \in [Files -> Nat] /\ disposed' \subseteq Delegate
          /\ disposal' \in {"Live", "Disposing", "Disposed"}
          /\ thread' \in Coroutines \cup {Nobody}
          /\ emptied' \in BOOLEAN /\ mixed' \in BOOLEAN
          /\ again' \subseteq Delegate
      BY DEF IInv, TypeOK, EndScan, Suspend, diskVars
    <2>2. stale' \in BOOLEAN
      <3>1. stale' = stale \/ stale' = TRUE \/ stale' = FALSE
        OBVIOUS
      <3>2. QED
        BY <3>1 DEF IInv, TypeOK
    <2>3. overtaken' \subseteq Coroutines
      BY DEF IInv, TypeOK, EndScan, Overtake
    <2>4. /\ step' \in [Coroutines ->
               {"none", "scanning", "loading", "setting",
                "disposing", "applying"}]
          /\ todo' \in [Coroutines -> SUBSET Files]
          /\ fresh' \in [Coroutines -> BOOLEAN]
          /\ after' \in [Coroutines -> {"end", "check", "disposed"}]
      BY DEF IInv, TypeOK, EndScan, SetDelegates, Suspend, Goto
    <2>5. earlier' \in [Coroutines -> SUBSET Coroutines]
      BY DEF IInv, TypeOK, EndScan
    <2>6. \A ds \in {contents', shown'} : ListOfDelegates(ds)'
      BY DEF IInv, TypeOK, EndScan, ListOfDelegates
    <2>7. /\ found' \in [Coroutines -> SUBSET Delegate]
          /\ target' \in [Coroutines -> SUBSET Delegate]
      BY DEF IInv, TypeOK, EndScan, SetDelegates
    <2>8. \A b \in Coroutines :
            ListOfDelegates(found[b])' /\ ListOfDelegates(target[b])'
      BY EmptyList
         DEF IInv, TypeOK, EndScan, Overtake, SetDelegates, Suspend, Goto,
             diskVars, sourceVars, localVars, historyVars, Coroutines, Running,
             ListOfDelegates
    <2>9. QED
      BY <2>1, <2>2, <2>3, <2>4, <2>5, <2>6, <2>7, <2>8 DEF TypeOK
  <1>2. OneThread'
    BY DEF IInv, TypeOK, OneThread, EndScan, SetDelegates, Suspend, Goto
  <1>3. Disposal'
    BY DEF Coroutines, Running, Scanning, Setting, IInv, TypeOK, Disposal,
           EndScan, SetDelegates, Suspend, Goto
  <1>4. ClearedLater'
    BY DEF Setting, IInv, TypeOK, ClearedLater, EndScan, SetDelegates, Suspend,
           Goto
  <1>5. Lists'
    BY DEF Scanning, IInv, TypeOK, OneThread, Lists, EndScan, SetDelegates,
           Suspend, Goto
  <1>6. Order'
    BY DEF Running, IInv, TypeOK, Order, EndScan, SetDelegates, Suspend, Goto
  <1>7. Overtaking'
    BY DEF Running, Setting, IInv, TypeOK, Overtaking, EndScan, Overtake,
           SetDelegates, Suspend, Goto
  <1>8. ContentsShown' /\ FolderListed'
    <2>1. /\ Scanning(c) /\ step' \in [Coroutines ->
                              {"none", "scanning", "loading", "setting",
                               "disposing", "applying"}]
          /\ ~Scanning(c)'
          /\ \A b \in Coroutines : b # c => step'[b] = step[b]
      BY DEF Scanning, EndScan, Suspend, Goto, SetDelegates, IInv, TypeOK
    <2>2. overtaken' = overtaken \cup (earlier[c] \cap Running)
      BY DEF EndScan, Overtake
    <2>3. CASE Cardinality(found[c]) = Cardinality(contents) /\ ~fresh[c]
      <3>1. found[c] \subseteq contents
        BY <2>3 DEF EndScan, IInv, Lists, Scanning
      <3>2. found[c] = contents
        BY <3>1, <2>3, FS_Subset DEF IInv, TypeOK, ListOfDelegates
      <3>3. ContentsShown'
        BY <2>2, <2>3
           DEF ContentsShown, IInv, TypeOK, Running, Setting, EndScan, Suspend,
               Goto
      <3>4. SeesTheFolder(c) =>
              /\ FilesOf(contents) = disk
              /\ \A b \in Coroutines : Scanning(b)' => b \in overtaken'
        BY <2>1, <2>2, <3>2 DEF SeesTheFolder, EndScan, Running, Scanning
      <3>5. ASSUME NEW b \in Slots, b # c, SeesTheFolder(b)
            PROVE  SeesTheFolder(b)'
        <4>1. c \in earlier[b] /\ b \notin earlier[c]
          BY <3>5, <2>1
             DEF IInv, Order, SeesTheFolder, Running, Coroutines, Scanning
        <4>2. QED
          BY <4>1, <2>1, <2>2, <3>5, <2>3
             DEF SeesTheFolder, EndScan, diskVars, Running, Scanning,
                 Coroutines
      <3>6. FolderListed'
        BY <2>1, <2>2, <2>3, <3>4, <3>5
           DEF FolderListed, IInv, EndScan, diskVars, Scanning
      <3>7. QED
        BY <3>3, <3>6
    <2>4. CASE ~(Cardinality(found[c]) = Cardinality(contents) /\ ~fresh[c])
      <3>1. /\ contents' = found[c] /\ target'[c] = found[c]
            /\ stale' = (c \in overtaken)
            /\ Setting(c)'
            /\ \A b \in Coroutines : b # c =>
                 /\ target'[b] = target[b]
                 /\ after'[b] = after[b] /\ found'[b] = found[b]
        BY <2>4 DEF EndScan, SetDelegates, IInv, TypeOK, Goto, Setting
      <3>2. c \notin overtaken => \A b \in Running :
              b # c /\ Setting(b) /\ after[b] = "check" => b \in overtaken'
        BY <2>1, <2>2 DEF IInv, Order, Overtaking, Running, Scanning
      <3>3. ContentsShown'
        BY <2>1, <2>2, <3>1, <3>2 DEF ContentsShown, Running, Setting
      <3>4. SeesTheFolder(c) =>
              /\ FilesOf(contents') = disk
              /\ \A b \in Coroutines : Scanning(b)' => b \in overtaken'
        BY <2>1, <2>2, <3>1 DEF SeesTheFolder, EndScan, Running, Scanning
      <3>5. ASSUME NEW b \in Slots, b # c, SeesTheFolder(b)
            PROVE  SeesTheFolder(b)'
        <4>1. c \in earlier[b] /\ b \notin earlier[c]
          BY <3>5, <2>1
             DEF IInv, Order, SeesTheFolder, Running, Coroutines, Scanning
        <4>2. QED
          BY <4>1, <2>1, <2>2, <3>1, <3>5
             DEF SeesTheFolder, EndScan, diskVars, Running, Scanning,
                 Coroutines
      <3>6. FolderListed'
        BY <2>1, <2>2, <3>1, <3>4, <3>5
           DEF FolderListed, IInv, EndScan, diskVars, Scanning
      <3>7. QED
        BY <3>3, <3>6
    <2>5. QED
      BY <2>3, <2>4
  <1>9. TextsDisposed'
    <2>1. /\ Scanning(c) /\ step' \in [Coroutines ->
                              {"none", "scanning", "loading", "setting",
                               "disposing", "applying"}]
          /\ ~Scanning(c)' /\ ~Setting(c)
          /\ step'[c] \notin {"disposing", "applying"}
          /\ \A b \in Coroutines : b # c => step'[b] = step[b]
      BY DEF Scanning, Setting, EndScan, Suspend, Goto, SetDelegates, IInv,
             TypeOK
    <2>2. \A a, b \in Coroutines :
            {step'[a], step'[b]} \subseteq {"disposing", "applying"}
            => {step[a], step[b]} \subseteq {"disposing", "applying"}
      BY <2>1
    <2>3. CASE Cardinality(found[c]) = Cardinality(contents) /\ ~fresh[c]
      <3>1. found[c] \subseteq contents
        BY <2>3 DEF EndScan, IInv, Lists, Scanning
      <3>2. InUse' = InUse /\ InScans \subseteq InScans' \cup found[c]
        BY <2>3
           DEF InUse, InScans, EndScan, Setting, Scanning, Suspend, Goto, IInv,
               TypeOK
      <3>3. QED
        BY <3>1, <3>2, <2>2 DEF EndScan, TextsDisposed, IInv, Disposable
    <2>4. CASE ~(Cardinality(found[c]) = Cardinality(contents) /\ ~fresh[c])
      <3>1. /\ contents' = found[c] /\ target'[c] = found[c] /\ Setting(c)'
            /\ \A b \in Coroutines : b # c =>
                 target'[b] = target[b] /\ found'[b] = found[b]
        BY <2>4 DEF EndScan, SetDelegates, IInv, TypeOK, Goto, Setting
      <3>2. /\ InUse' = InUse \cup found[c]
            /\ InScans \subseteq InScans' \cup found[c]
        BY <3>1, <2>1 DEF InUse, InScans, EndScan, Setting, Scanning
      <3>3. QED
        BY <3>2, <2>2 DEF EndScan, TextsDisposed, IInv
    <2>5. QED
      BY <2>3, <2>4
  <1>10. FirstList' /\ KeptOrCleared'
    <2>1. CASE Cardinality(found[c]) = Cardinality(contents) /\ ~fresh[c]
      BY <2>1
         DEF Setting, EndScan, Suspend, Goto, FirstList, OneThread,
             KeptOrCleared, IInv, TypeOK
    <2>2. CASE ~(Cardinality(found[c]) = Cardinality(contents) /\ ~fresh[c])
      <3>1. /\ contents' = found[c] /\ target'[c] = found[c]
            /\ stale' = (c \in overtaken)
            /\ shown' = shown /\ disposed' = disposed
            /\ again' = again \cup (found[c] \cap Listed)
            /\ \A b \in Coroutines : b # c =>
                 /\ target'[b] = target[b]
                 /\ after'[b] = after[b] /\ step'[b] = step[b]
        BY <2>2 DEF EndScan, SetDelegates, IInv, TypeOK, Goto
      <3>2. /\ shown \subseteq Listed /\ disposed \subseteq Listed
            /\ \A b \in Coroutines : target[b] \subseteq Listed
        BY DEF Listed, Range, IInv, TypeOK
      <3>3. \A b \in Coroutines : step[b] = "setting" => b = c
        BY DEF IInv, OneThread, EndScan
      <3>4. c \in overtaken' => c \in overtaken
        BY DEF EndScan, Overtake, IInv, Order
      <3>5. FirstList'
        BY <3>1, <3>2, <3>3, <3>4 DEF FirstList, IInv, Setting
      <3>6. KeptOrCleared'
        BY <3>1, <3>2 DEF KeptOrCleared
      <3>7. QED
        BY <3>5, <3>6
    <2>3. QED
      BY <2>1, <2>2
  <1>11. QED
    BY <1>1, <1>2, <1>3, <1>4, <1>5, <1>6, <1>7, <1>8, <1>9, <1>10 DEF IInv

(* SetDelegates() disposes of the delegates that it replaces. *)
LEMMA DisposeDelegatesKeeps ==
  ASSUME IInv, NEW c \in Coroutines, DisposeDelegates(c)
  PROVE  IInv'
  <1>1. TypeOK'
    BY DEF diskVars, localVars, IInv, TypeOK, ListOfDelegates,
           DisposeDelegates, Suspend, Goto
  <1>2. OneThread'
    BY DEF IInv, TypeOK, OneThread, DisposeDelegates, Suspend, Goto
  <1>3. Disposal'
    BY DEF localVars, Coroutines, Running, Scanning, Setting, IInv, TypeOK,
           Disposal, DisposeDelegates, Suspend, Goto
  <1>4. ClearedLater'
    BY DEF Setting, IInv, TypeOK, ClearedLater, DisposeDelegates, Suspend, Goto
  <1>5. Lists'
    BY DEF localVars, Scanning, IInv, TypeOK, Lists, DisposeDelegates, Suspend,
           Goto
  <1>6. Order'
    BY DEF Running, IInv, TypeOK, Order, DisposeDelegates, Suspend, Goto
  <1>7. Overtaking'
    BY DEF localVars, Running, Setting, IInv, TypeOK, Overtaking,
           DisposeDelegates, Suspend, Goto
  <1>8. ContentsShown'
    BY DEF localVars, Running, Setting, IInv, TypeOK, ContentsShown,
           DisposeDelegates, Suspend, Goto
  <1>9. FolderListed'
    BY DEF diskVars, localVars, Coroutines, Running, Scanning, IInv, TypeOK,
           FolderListed, SeesTheFolder, DisposeDelegates, Suspend, Goto
  <1>10. TextsDisposed'
    <2>1. InUse' = InUse /\ InScans' = InScans
      BY DEF InUse, InScans, Setting, Scanning, DisposeDelegates, Suspend,
             Goto, localVars, IInv, TypeOK
    <2>2. /\ disposed \subseteq disposed'
          /\ \A d \in shown : Disposable(d) => d \in disposed'
      BY DEF DisposeDelegates
    <2>3. contents' = contents /\ shown' = shown /\ made' = made
      BY DEF DisposeDelegates
    <2>4. ASSUME ~mixed'
          PROVE  ~mixed /\ \A b \in Coroutines : step[b] # "disposing"
      BY <2>4 DEF DisposeDelegates
    <2>5. ASSUME ~mixed'
          PROVE  \A b \in Coroutines : step[b] \notin {"disposing", "applying"}
      BY <2>4, <2>5 DEF DisposeDelegates, IInv, OneThread
    <2>6. ASSUME ~mixed' PROVE \A a, b \in Coroutines :
           {step'[a], step'[b]} \subseteq {"disposing", "applying"} => a = b
      BY <2>5, <2>6 DEF DisposeDelegates, Suspend, Goto, IInv, TypeOK
    <2>7. QED
      BY <2>1, <2>2, <2>3, <2>4, <2>6 DEF IInv, TextsDisposed
  <1>11. FirstList'
    BY DEF sourceVars, localVars, historyVars, Setting, IInv, TypeOK,
           FirstList, DisposeDelegates, Suspend, Goto
  <1>12. KeptOrCleared'
    <2>1. /\ contents' = contents /\ target' = target /\ after' = after
          /\ again' = again /\ emptied' = emptied /\ Setting(c) /\ Setting(c)'
          /\ \A b \in Coroutines : Setting(b) => Setting(b)'
          /\ disposed' \subseteq disposed \cup shown
          /\ disposal' = disposal /\ stale' = stale
      BY DEF DisposeDelegates, localVars, Setting, Suspend, Goto, IInv, TypeOK
    <2>2. after[c] # "disposed" \/ disposal # "Live"
      BY <2>1 DEF IInv, Disposal, Running, Setting
    <2>3. CASE after[c] = "check"
      <3>1. target[c] \cap shown \subseteq again
        BY <2>1, <2>3 DEF IInv, FirstList
      <3>2. ~stale /\ disposal = "Live" => target[c] = contents
        BY <2>3
           DEF IInv, FirstList, ContentsShown, DisposeDelegates, Running,
               Setting
      <3>3. QED
        BY <2>1, <3>1, <3>2 DEF IInv, KeptOrCleared
    <2>4. CASE after[c] # "check"
      BY <2>1, <2>2, <2>4 DEF IInv, TypeOK, KeptOrCleared
    <2>5. QED
      BY <2>3, <2>4
  <1>13. QED
    BY <1>1, <1>2, <1>3, <1>4, <1>5, <1>6, <1>7, <1>8, <1>9, <1>10, <1>11,
       <1>12
       DEF IInv

(* They are disposed; the coroutine is resumed. *)
LEMMA DelegatesDisposedKeeps ==
  ASSUME IInv, NEW c \in Coroutines, DelegatesDisposed(c)
  PROVE  IInv'
  <1>1. TypeOK'
    BY DEF diskVars, sourceVars, localVars, historyVars, IInv, TypeOK,
           ListOfDelegates, DelegatesDisposed, Goto
  <1>2. OneThread'
    BY FolderAssumption
       DEF Coroutines, IInv, OneThread, DelegatesDisposed, Goto
  <1>3. Disposal'
    BY DEF sourceVars, localVars, Running, Scanning, Setting, IInv, Disposal,
           DelegatesDisposed, Goto
  <1>4. ClearedLater'
    BY DEF Setting, ClearedLater, DelegatesDisposed, Goto
  <1>5. Lists'
    BY DEF sourceVars, localVars, Scanning, IInv, Lists, DelegatesDisposed,
           Goto
  <1>6. Order'
    BY DEF historyVars, Running, IInv, Order, DelegatesDisposed, Goto
  <1>7. Overtaking'
    BY DEF localVars, historyVars, Running, Setting, IInv, Overtaking,
           DelegatesDisposed, Goto
  <1>8. ContentsShown'
    BY DEF sourceVars, localVars, historyVars, Running, Setting, IInv,
           ContentsShown, DelegatesDisposed, Goto
  <1>9. FolderListed'
    BY DEF diskVars, sourceVars, localVars, historyVars, Running, Scanning,
           IInv, FolderListed, SeesTheFolder, DelegatesDisposed, Goto
  <1>10. TextsDisposed'
    BY DEF sourceVars, localVars, historyVars, Scanning, Setting, IInv,
           TextsDisposed, InUse, InScans, DelegatesDisposed, Goto
  <1>11. FirstList'
    BY DEF sourceVars, localVars, historyVars, Setting, IInv, FirstList,
           DelegatesDisposed, Goto
  <1>12. KeptOrCleared'
    BY DEF sourceVars, localVars, historyVars, Setting, IInv, KeptOrCleared,
           DelegatesDisposed, Goto
  <1>13. QED
    BY <1>1, <1>2, <1>3, <1>4, <1>5, <1>6, <1>7, <1>8, <1>9, <1>10, <1>11,
       <1>12
       DEF IInv

(* SetDelegates() puts the new delegates in place, and its caller ends. *)
LEMMA ApplyDelegatesKeeps ==
  ASSUME IInv, NEW c \in Coroutines, ApplyDelegates(c)
  PROVE  IInv'
  <1>1. TypeOK'
    <2>1. /\ disk' \subseteq Files
          /\ there' \in BOOLEAN /\ watching' \in BOOLEAN
          /\ changed' \in BOOLEAN
          /\ made' \in [Files -> Nat] /\ disposed' \subseteq Delegate
          /\ disposal' \in {"Live", "Disposing", "Disposed"}
          /\ thread' \in Coroutines \cup {Nobody}
          /\ stale' \in BOOLEAN /\ emptied' \in BOOLEAN /\ mixed' \in BOOLEAN
          /\ overtaken' \subseteq Coroutines
          /\ again' \subseteq Delegate
      BY DEF IInv, TypeOK, ApplyDelegates, Overtake, SetDelegates, Suspend,
             Goto, diskVars, sourceVars, localVars, historyVars, Coroutines,
             Running
    <2>2. /\ step' \in [Coroutines ->
               {"none", "scanning", "loading", "setting",
                "disposing", "applying"}]
          /\ todo' \in [Coroutines -> SUBSET Files]
          /\ fresh' \in [Coroutines -> BOOLEAN]
          /\ after' \in [Coroutines -> {"end", "check", "disposed"}]
      BY DEF IInv, TypeOK, ApplyDelegates, SetDelegates, Suspend, Goto
    <2>3. earlier' \in [Coroutines -> SUBSET Coroutines]
      BY DEF IInv, TypeOK, ApplyDelegates
    <2>4. ListOfDelegates(contents)' /\ ListOfDelegates(shown)'
      <3>1. made' = made /\ shown' = target[c] /\ contents' \in {contents, {}}
        BY DEF ApplyDelegates
      <3>2. QED
        BY <3>1, FS_EmptySet DEF IInv, TypeOK, ListOfDelegates
    <2>5. /\ found' \in [Coroutines -> SUBSET Delegate]
          /\ target' \in [Coroutines -> SUBSET Delegate]
      BY DEF IInv, TypeOK, ApplyDelegates, SetDelegates
    <2>6. \A b \in Coroutines :
            ListOfDelegates(found[b])' /\ ListOfDelegates(target[b])'
      BY EmptyList
         DEF IInv, TypeOK, ApplyDelegates, Overtake, SetDelegates, Suspend,
             Goto, diskVars, sourceVars, localVars, historyVars, Coroutines,
             Running, ListOfDelegates
    <2>7. QED
      BY <2>1, <2>2, <2>3, <2>4, <2>5, <2>6 DEF TypeOK
  <1>2. OneThread'
    BY DEF IInv, TypeOK, OneThread, ApplyDelegates, SetDelegates, Suspend, Goto
  <1>3. Disposal'
    BY DEF Coroutines, Running, Scanning, Setting, IInv, TypeOK, Disposal,
           ApplyDelegates, SetDelegates, Suspend, Goto
  <1>4. ClearedLater'
    BY DEF Setting, IInv, TypeOK, Disposal, ClearedLater, ApplyDelegates,
           SetDelegates, Goto
  <1>5. Lists'
    BY DEF Scanning, IInv, TypeOK, OneThread, Lists, ApplyDelegates,
           SetDelegates, Suspend, Goto
  <1>6. Order'
    BY DEF Running, IInv, TypeOK, Order, ApplyDelegates, SetDelegates, Suspend,
           Goto
  <1>7. Overtaking'
    BY DEF Running, Setting, IInv, TypeOK, Overtaking, ApplyDelegates,
           Overtake, SetDelegates, Suspend, Goto
  <1>8. ContentsShown' /\ FolderListed'
    <2>1. /\ ~Scanning(c) /\ Setting(c) /\ ~Scanning(c)'
          /\ \A b \in Coroutines : b # c =>
               /\ step'[b] = step[b]
               /\ target'[b] = target[b] /\ after'[b] = after[b]
      BY DEF Scanning, Setting, ApplyDelegates, Suspend, Goto, SetDelegates,
             IInv, TypeOK
    <2>2. overtaken' = overtaken \cup (earlier[c] \cap Running)
      BY DEF ApplyDelegates, Overtake
    <2>3. /\ stale' <=> stale \/ c \in overtaken
          /\ shown' = target[c]
          /\ disposal' = "Live" => disposal = "Live"
      BY DEF ApplyDelegates
    <2>4. ASSUME disposal = "Live" 
          PROVE  /\ contents' = contents /\ step'[c] = "none"
                 /\ emptied' = IF after[c] = "end" THEN contents # {}
                               ELSE emptied
      BY <2>4 DEF ApplyDelegates, Suspend, Goto, IInv, TypeOK
    <2>5. after[c] = "check" \/ target[c] = {}
      BY <2>1 DEF IInv, Disposal
    <2>6. disposal = "Live" => after[c] # "disposed"
      BY <2>1 DEF IInv, Disposal, Setting, Running
    <2>7. ContentsShown'
      <3> SUFFICES ASSUME (disposal = "Live" /\ ~stale)'
          PROVE /\ \A b \in (Running \ overtaken)' :
                   (Setting(b) /\ after[b] = "check" => target[b] = contents)'
                /\ (~emptied /\ (\A b \in Coroutines : ~Setting(b)) =>
                      shown = contents)'
          BY DEF ContentsShown
      <3>1. disposal = "Live" /\ ~stale /\ c \notin overtaken
        BY <2>3
      <3>2. \A b \in (Running \ overtaken)' :
            (Setting(b) /\ after[b] = "check" => target[b] = contents)'
        BY <3>1, <2>1, <2>2, <2>4 DEF IInv, ContentsShown, Running, Setting
      <3>3. CASE after[c] = "check"
        BY <3>2, <3>3, <2>1, <2>3, <2>4
           DEF IInv, ContentsShown, Running, Setting
      <3>4. CASE after[c] = "end"
        BY <3>1, <3>2, <3>4, <2>1, <2>3, <2>4, <2>5
           DEF IInv, ContentsShown, Running, Setting
      <3>5. QED
        BY <3>1, <3>3, <3>4, <2>6 DEF IInv, TypeOK
    <2>8. ASSUME NEW b \in Slots, b # c, SeesTheFolder(b)
            PROVE  SeesTheFolder(b)'
        <4>1. c \in earlier[b] /\ b \notin earlier[c]
          BY <2>8, <2>1
             DEF IInv, Order, SeesTheFolder, Running, Coroutines, Scanning,
                 Setting
        <4>2. QED
          BY <4>1, <2>1, <2>2, <2>8
             DEF SeesTheFolder, ApplyDelegates, diskVars, Running, Scanning,
                 Coroutines
    <2>9. FolderListed'
      BY <2>1, <2>2, <2>3, <2>8
         DEF IInv, FolderListed, ApplyDelegates, diskVars, SeesTheFolder,
             Scanning
    <2>10. QED
      BY <2>7, <2>9
  <1>9. TextsDisposed'
    BY DEF Scanning, Setting, IInv, TypeOK, TextsDisposed, InUse, InScans,
           Disposable, ApplyDelegates, SetDelegates, Suspend, Goto
  <1>10. FirstList'
    <2>1. /\ shown' = target[c] /\ again' = again /\ (stale => stale')
          /\ (after'[c] = "check" => step'[c] = "none")
          /\ target'[c] \subseteq target[c]
          /\ \A b \in Coroutines : b # c =>
               /\ step'[b] = step[b]
               /\ target'[b] = target[b] /\ after'[b] = after[b]
      BY DEF ApplyDelegates, Suspend, Goto, SetDelegates, IInv, TypeOK
    <2>2. \A b \in Coroutines : step[b] # "setting"
      BY DEF ApplyDelegates, IInv, OneThread
    <2>3. QED
      BY <2>1, <2>2 DEF IInv, FirstList, Setting
  <1>11. KeptOrCleared'
    BY DEF sourceVars, localVars, historyVars, Coroutines, Running, Setting,
           IInv, TypeOK, KeptOrCleared, ApplyDelegates, Overtake, SetDelegates,
           Suspend, Goto
  <1>12. QED
    BY <1>1, <1>2, <1>3, <1>4, <1>5, <1>6, <1>7, <1>8, <1>9, <1>10, <1>11
       DEF IInv

(* The invariant speaks of the variables only. *)
LEMMA StutterKeeps == IInv /\ UNCHANGED vars => IInv'
  <1> SUFFICES ASSUME IInv, UNCHANGED vars PROVE IInv'
    OBVIOUS
  <1> USE DEF vars, diskVars, sourceVars, localVars, historyVars
  <1>1. TypeOK'
    BY DEF IInv, TypeOK, ListOfDelegates
  <1>2. OneThread' /\ Disposal' /\ ClearedLater' /\ Lists'
    BY DEF IInv, OneThread, Disposal, ClearedLater, Lists, Running, Scanning,
           Setting
  <1>3. Order' /\ Overtaking' /\ ContentsShown'
    BY DEF IInv, Order, Overtaking, ContentsShown, Running, Setting
  <1>4. FolderListed'
    BY DEF IInv, FolderListed, SeesTheFolder, Running, Scanning
  <1>5. TextsDisposed'
    BY DEF IInv, TextsDisposed, InUse, InScans, Setting, Scanning
  <1>6. FirstList' /\ KeptOrCleared'
    BY DEF IInv, FirstList, KeptOrCleared, Setting
  <1>7. QED
    BY <1>1, <1>2, <1>3, <1>4, <1>5, <1>6 DEF IInv

(***************************************************************************)
(* The inductive invariant holds in every reachable state, for any files,  *)
(* any number of coroutines of FolderPageSource and any number of events.  *)
(***************************************************************************)
THEOREM Invariance == Spec => []IInv
  <1>1. IInv /\ [Next]_vars => IInv'
    BY ChangeFileKeeps, RemoveFolderKeeps, CreateFolderKeeps,
       DisposeAsyncKeeps, OnFileModifiedKeeps, ReloadKeeps, VisitFileKeeps,
       LoadedKeeps, EndScanKeeps, DisposeDelegatesKeeps,
       DelegatesDisposedKeeps, ApplyDelegatesKeeps, StutterKeeps
       DEF Next, Resume
  <1>2. QED
    BY <1>1, InitIInv, PTL DEF Spec

(***************************************************************************)
(* Every variable has its type: what FolderPageSource keeps, sets or shows *)
(* is a list with at most one delegate for each file, of those that were   *)
(* made (OnFileModified, SetDelegates).                                    *)
(***************************************************************************)
THEOREM DelegatesAreTyped == Spec => []TypeOK
  <1>1. IInv => TypeOK
    BY DEF IInv
  <1>2. QED
    BY <1>1, Invariance, PTL

(***************************************************************************)
(* When no coroutine runs and no change is left to report, the panel lists *)
(* a delegate for each file of the folder, and those of them that show     *)
(* nothing, being disposed, were kept from an earlier list; unless the     *)
(* history says that the last scan did not end last                        *)
(* (FolderPageSource::OnFileModified, SetDelegates).                       *)
(***************************************************************************)
THEOREM FolderCaughtUp == Spec => []CaughtUp
  <1>1. IInv => CaughtUp
    <2> SUFFICES ASSUME IInv, LastScanWon
                 PROVE  /\ FilesOf(shown) = disk
                        /\ disk \ FilesShown \subseteq FilesOf(again \cap shown)
      BY DEF CaughtUp
    <2>1. \A c \in Coroutines : ~Scanning(c) /\ ~Setting(c)
      BY DEF LastScanWon, Quiet, Running, Scanning, Setting
    <2>2. shown = contents
      BY <2>1 DEF IInv, ContentsShown, LastScanWon
    <2>3. FilesOf(contents) = disk
      BY <2>1
         DEF IInv, FolderListed, SeesTheFolder, LastScanWon, Quiet, Coroutines
    <2>4. shown \cap disposed \subseteq again
      BY <2>1, <2>2 DEF IInv, KeptOrCleared, LastScanWon
    <2>5. ASSUME NEW f \in FilesOf(shown), f \notin FilesShown
          PROVE  f \in FilesOf(again \cap shown)
      <3>1. PICK d \in shown : d.file = f
        BY DEF FilesOf
      <3>2. d \in disposed
        BY <3>1, <2>5 DEF FilesShown, FilesOf
      <3>3. QED
        BY <3>1, <3>2, <2>4 DEF FilesOf
    <2>6. QED
      BY <2>2, <2>3, <2>5
  <1>2. QED
    BY <1>1, Invariance, PTL

(***************************************************************************)
(* Once the disposal of FolderPageSource has ended nothing is shown, also  *)
(* if a scan was under way when it began (DisposeAsync, SetDelegates).     *)
(***************************************************************************)
THEOREM FolderEmptyOnceDisposed == Spec => []EmptyOnceDisposed
  <1>1. IInv => EmptyOnceDisposed
    BY DEF IInv, TypeOK, Disposal, ClearedLater, EmptyOnceDisposed, Running,
           Setting
  <1>2. QED
    BY <1>1, Invariance, PTL

(***************************************************************************)
(* A text's page source is disposed of before it is dropped, as long as    *)
(* SetDelegates() is not entered while it is suspended.                    *)
(***************************************************************************)
THEOREM NoTextLost == Spec => []NothingLost
  <1>1. IInv => NothingLost
    <2>1. InUse \subseteq Held /\ InScans \subseteq Held
      BY DEF InUse, InScans, Held
    <2>2. QED
      BY <2>1 DEF IInv, TextsDisposed, NothingLost
  <1>2. QED
    BY <1>1, Invariance, PTL
=============================================================================
