------------------------- MODULE KneeboardInvariant -------------------------
(* The inductive invariant of Kneeboard, in parts. *)
EXTENDS Kneeboard

(* What a coroutine can be at. *)
Steps ==
  \A c \in Coroutines :
    LET op == co[c].op
        step == co[c].step
    IN \/ op = "none" /\ step = "none"
       \/ op = "remove" /\ step \in {"asking", "disposing"}
       \/ op = "debug" /\ step = "asking"
       \/ op \in {"restore", "switch"} /\ step \in {"loading", "disposing"}
       \/ op = "views" /\ step = "choosing"

(* Nobody owns the lock while it is shared. *)
Exclusive == UniqueHolders = {} \/ SharedHolders = {}

(* Changes of the panels overlap only if the history says so. *)
OneChange == ~raced => \A b, c \in Changing : b = c

(* Saving is off only while a profile is loaded. *)
SavesAreOn ==
  ~raced /\ ~stuck /\ ~saving => \E c \in Changing : co[c].op = "switch"

(* The panels that a change will leave are those that the user asked for;  *)
(* those of a switch are in the new profile's file, which nothing writes.  *)
Pending ==
  ~raced => \A c \in Changing :
    /\ ToSet(co[c].tabs) = want[profile]
    /\ co[c].op = "switch" =>
         ~saving /\ co[c].tabs = saved[profile].tabs

(* No list has a panel twice. *)
NoTwice ==
  ~raced =>
    /\ IsInjective(tabs)
    /\ \A c \in Changing : IsInjective(co[c].tabs)
    /\ \A p \in Profiles : IsInjective(saved[p].tabs)

(* No panel has two views of its own, in memory, in a file or in a copy;   *)
(* views that are made are not mirrors.                                    *)
ViewsAreSingle ==
  /\ made >= LastGUID
  /\ OneViewEach(views)
  /\ \A p \in Profiles : OneViewEach(saved[p].views)
  /\ \A c \in Coroutines : OneViewEach(co[c].views)

(* The views drawn lag behind the settings only while a profile is loaded. *)
ViewsShown ==
  (\A c \in Coroutines : co[c].op # "switch") => shown = GUIDs(views)

IInv ==
  /\ TypeOK
  /\ Steps
  /\ Exclusive
  /\ OneChange
  /\ SavesAreOn
  /\ Pending
  /\ NoTwice
  /\ ViewsAreSingle
  /\ ViewsShown
  /\ ProfilesKeepTheirPanels
  /\ ActiveProfileSaved
  /\ PanelsHaveViews
  /\ ViewsInStep
=============================================================================
