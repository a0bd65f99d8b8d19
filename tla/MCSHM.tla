------------------------------- MODULE MCSHM -------------------------------
(* Two readers, as many handle values as a swapchain needs.                *)
EXTENDS SHMMailbox, TLC

Symmetry == Permutations(Readers) \cup Permutations(Handles)
=============================================================================
