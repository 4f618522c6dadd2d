---------------------------- MODULE BoundedQueue ----------------------------
(***************************************************************************)
(* What a closable, bounded, first-in first-out queue shared by threads    *)
(* promises its callers.  A call is seen at three instants: it is invoked, *)
(* it takes effect in one atomic step, and it returns.  Nothing is said of *)
(* locks, condition variables, slots or positions: those belong to the     *)
(* containers that are shown to implement this specification.              *)
(***************************************************************************)
EXTENDS Integers, Sequences

CONSTANTS
  Threads,    (* the callers                                               *)
  Values,     (* what can be stored                                        *)
  Default,    (* what a reader's result variable holds before the call     *)
  Capacity    (* the most values the queue ever holds                      *)

VARIABLES
  items,      (* the values in the queue, oldest first                     *)
  closed,     (* the queue has been closed                                 *)
  op,         (* op[t]: the operation t is in, "none" outside of any       *)
  phase,      (* phase[t]: t is "idle", or its call is "pending" or "done" *)
  val,        (* val[t]: the value t writes, or the value it has read      *)
  ret         (* ret[t]: what t's call returns                             *)

qvars == <<items, closed, op, phase, val, ret>>

Ops == {"write", "read", "clear", "close", "flush", "empty", "full", "is_close"}

Init ==
  /\ items = <<>>
  /\ closed = FALSE
  /\ op = [t \in Threads |-> "none"]
  /\ phase = [t \in Threads |-> "idle"]
  /\ val = [t \in Threads |-> Default]
  /\ ret = [t \in Threads |-> FALSE]

Invoke(t) ==
  /\ phase[t] = "idle"
  /\ phase' = [phase EXCEPT ![t] = "pending"]
  /\ \E o \in Ops : op' = [op EXCEPT ![t] = o]
  /\ \E v \in Values : val' = [val EXCEPT ![t] = v]
  /\ UNCHANGED <<items, closed, ret>>

(* The call of t takes effect and will return r. *)
Effect(t, o, r) ==
  /\ phase[t] = "pending"
  /\ op[t] = o
  /\ phase' = [phase EXCEPT ![t] = "done"]
  /\ ret' = [ret EXCEPT ![t] = r]
  /\ UNCHANGED op

Write(t) ==
  /\ Effect(t, "write", TRUE)
  /\ Len(items) < Capacity
  /\ items' = Append(items, val[t])
  /\ UNCHANGED <<closed, val>>

Read(t) ==
  /\ Effect(t, "read", TRUE)
  /\ items # <<>>
  /\ items' = Tail(items)
  /\ val' = [val EXCEPT ![t] = Head(items)]
  /\ UNCHANGED closed

(* Only a closed queue turns a call away. *)
Refuse(t) ==
  /\ \E o \in {"write", "read"} : Effect(t, o, FALSE)
  /\ closed
  /\ UNCHANGED <<items, closed, val>>

Clear(t) ==
  /\ Effect(t, "clear", ret[t])
  /\ items' = <<>>
  /\ UNCHANGED <<closed, val>>

Close(t) ==
  /\ Effect(t, "close", ret[t])
  /\ closed' = TRUE
  /\ UNCHANGED <<items, val>>

Flush(t) ==
  /\ Effect(t, "flush", ret[t])
  /\ UNCHANGED <<items, closed, val>>

Query(t) ==
  /\ \/ Effect(t, "empty", items = <<>>)
     \/ Effect(t, "full", Len(items) = Capacity)
     \/ Effect(t, "is_close", closed)
  /\ UNCHANGED <<items, closed, val>>

(* The caller has its result, and nothing of the call is left. *)
Return(t) ==
  /\ phase[t] = "done"
  /\ phase' = [phase EXCEPT ![t] = "idle"]
  /\ op' = [op EXCEPT ![t] = "none"]
  /\ val' = [val EXCEPT ![t] = Default]
  /\ ret' = [ret EXCEPT ![t] = FALSE]
  /\ UNCHANGED <<items, closed>>

Next ==
  \E t \in Threads :
    \/ Invoke(t) \/ Return(t)
    \/ Write(t) \/ Read(t) \/ Refuse(t)
    \/ Clear(t) \/ Close(t) \/ Flush(t) \/ Query(t)

Spec == Init /\ [][Next]_qvars
=============================================================================
