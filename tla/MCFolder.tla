------------------------------ MODULE MCFolder ------------------------------
(* Instances of Folder for TLC. *)
EXTENDS FolderInvariant
=============================================================================
