----------------------- MODULE MCRingbufferWithMutex -----------------------
(* Programs for the threads of RingbufferWithMutex. *)
EXTENDS RingbufferWithMutex

CONSTANTS w, r, b, m

(* The calls that change the buffer, clear() included: a writer, a reader, *)
(* a thread that does both, and a main thread.                             *)
Contended == [t \in Threads |->
  CASE t = w -> {"write"}
    [] t = r -> {"read"}
    [] t = b -> {"write", "read"}
    [] OTHER -> {"clear", "close", "full"}]

(* As use_rbf_with_mtx() uses the buffer: producers, consumers and a main  *)
(* thread that closes it; nobody calls clear().                            *)
ProducerConsumer == [t \in Threads |->
  CASE t = w -> {"write"}
    [] t = r -> {"read"}
    [] t = b -> {"write", "read"}
    [] OTHER -> {"close", "flush"}]
=============================================================================
