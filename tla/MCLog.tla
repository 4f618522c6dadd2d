------------------------------- MODULE MCLog -------------------------------
(* The threads and lines of Log. *)
EXTENDS Log

CONSTANTS l1, l2, writer, main

LogThreads == {l1, l2, writer, main}
TwoAndOne == [l \in {l1, l2} |-> IF l = l1 THEN 2 ELSE 1]
Lines == {<<l1, 1>>, <<l1, 2>>, <<l2, 1>>}

(* The threads call what Log says, not what a Program says. *)
NoProgram == [t \in Threads |-> {}]
=============================================================================
