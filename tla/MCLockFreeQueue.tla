-------------------------- MODULE MCLockFreeQueue ---------------------------
(* LockFreeQueue for TLC.  Threads of one kind are interchangeable. *)
EXTENDS LockFreeQueue, TLC

Symmetry == Permutations(Enqueuers) \cup Permutations(Dequeuers)
=============================================================================
