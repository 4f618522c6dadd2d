---------------------------- MODULE MCBlockDeque ----------------------------
(* Programs for the threads of BlockDeque. *)
EXTENDS BlockDeque

CONSTANTS w1, w2, r1, r2, m

(* Two producers, one at each end; a consumer that waits and one that may   *)
(* give up; a main thread that closes, flushes and looks.                   *)
Closing == [t \in Threads |->
  CASE t = w1 -> {"push_back"}
    [] t = w2 -> {"push_front"}
    [] t = r1 -> {"pop"}
    [] t = r2 -> {"pop_timed"}
    [] OTHER -> {"Close", "flush", "clear", "full"}]
=============================================================================
