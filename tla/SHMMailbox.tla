---------------------------- MODULE SHMMailbox ----------------------------
(***************************************************************************)
(* The segment with its feeder and readers implements the mailbox: the     *)
(* mapping of its state, and what the proof needs besides IInv.            *)
(***************************************************************************)
EXTENDS SHMInvariant

\* The rack is mFrames; a reader holds the frame it is mapping or drawing.
Rack == [i \in Slots |-> [texture |-> frames[i].object,
                          shows   |-> frames[i].layers]]

Hand ==
  [r \in Readers |->
     IF rphase[r] \in {"mapping", "reading"}
     THEN [number |-> got[r].number, texture |-> got[r].object]
     ELSE [number |-> 0, texture |-> 0]]

Box == INSTANCE Mailbox WITH
  Size <- SwapChainLength, open <- attached, number <- frameNumber,
  rack <- Rack, hand <- Hand

(***************************************************************************)
(* However long MaybeGet() takes and whatever happens without the mutex in *)
(* the meantime, what it answers is what the segment showed at one moment: *)
(* the latest frame, with the texture published in it.  And while a        *)
(* session lasts a slot never gets another texture.                        *)
(***************************************************************************)
ImplementsMailbox == Box!Spec

\* An object is published together with its handle.
PublishedTogether ==
  \A i \in Slots : frames[i].handle = NoHandle <=> frames[i].object = 0

\* Nobody posts between the two halves of a writer's reset, or to a segment
\* that was reset while a reader is in MaybeGet().
NothingPostedSinceReset ==
  /\ wphase = "constructing" => frameNumber = 0
  /\ \A r \in Readers :
       rphase[r] \in {"handles", "gpu", "frame"} /\ rsession[r] # session =>
         frameNumber = 0

MailboxInv == PublishedTogether /\ NothingPostedSinceReset

=============================================================================
