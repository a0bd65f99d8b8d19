------------------------------ MODULE Mailbox ------------------------------
(***************************************************************************)
(* What lib/SHM.cpp promises: a feeder posts pictures on a rack with a few *)
(* places, in turn; a place keeps the texture it was first given until the *)
(* rack is cleared.  A reader that gets a picture gets, at one moment, the *)
(* latest one, and holds it until it has drawn it.                         *)
(*                                                                         *)
(* Clearing takes two steps when a feeder starts (it does not take the     *)
(* mutex), and a reader that was in between gets what is in the first      *)
(* place of the rack that is being cleared.                                *)
(***************************************************************************)
EXTENDS Integers

CONSTANTS
  Readers,
  Size      \* places on the rack

VARIABLES
  open,    \* there is a feeder
  number,  \* pictures posted since the rack was cleared
  rack,    \* for each place a texture, 0 if there is none, and if it shows
  hand     \* what each reader holds

vars == <<open, number, rack, hand>>

Places == 0 .. Size - 1
Place(n) == n % Size
EmptyRack == [i \in Places |-> [texture |-> 0, shows |-> FALSE]]
Picture(n) == [number |-> n, texture |-> rack[Place(n)].texture]
Nothing == [number |-> 0, texture |-> 0]

Init ==
  /\ open = FALSE /\ number = 0 /\ rack = EmptyRack
  /\ hand = [r \in Readers |-> Nothing]

Post ==
  LET i == Place(number + 1)
      texture == rack'[i].texture
  IN
  /\ open' = TRUE /\ number' = number + 1
  /\ texture # 0 /\ rack[i].texture \in {0, texture}
  /\ rack' = [rack EXCEPT ![i] = [texture |-> texture, shows |-> TRUE]]
  /\ UNCHANGED hand

PostNothing ==
  /\ number' = number + 1
  /\ rack' = [rack EXCEPT ![Place(number + 1)].shows = FALSE]
  /\ UNCHANGED <<open, hand>>

Clear ==
  /\ open' = FALSE /\ number' = 0
  /\ rack' \in {rack, EmptyRack}
  /\ UNCHANGED hand

Take(r) ==
  /\ hand[r] = Nothing
  /\ open \/ number = 0
  /\ rack[Place(number)].shows /\ rack[Place(number)].texture # 0
  /\ hand' = [hand EXCEPT ![r] = Picture(number)]
  /\ UNCHANGED <<open, number, rack>>

Drop(r) ==
  /\ hand' = [hand EXCEPT ![r] = Nothing]
  /\ UNCHANGED <<open, number, rack>>

Next ==
  \/ Post \/ PostNothing \/ Clear
  \/ \E r \in Readers : Take(r) \/ Drop(r)

Spec == Init /\ [][Next]_vars

=============================================================================
