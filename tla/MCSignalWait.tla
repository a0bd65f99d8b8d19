---------------------------- MODULE MCSignalWait ----------------------------
(* Instances of SignalWait for TLC. *)
EXTENDS SignalWaitInvariant
=============================================================================
