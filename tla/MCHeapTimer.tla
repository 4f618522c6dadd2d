---------------------------- MODULE MCHeapTimer ----------------------------
(* Ids of timers, which are all alike. *)
EXTENDS HeapTimer, TLC

Alike == Permutations(Ids)
=============================================================================
