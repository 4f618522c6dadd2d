----------------------------- MODULE SpinLockQueue -----------------------------
(***************************************************************************)
(* safe_ringbuffer/spinlock_queue.hpp: a queue in a ring of slots behind a *)
(* spin lock.  The two counters only ever grow, so they run over; a slot   *)
(* is a counter's low bits, which needs a capacity that is a power of two. *)
(* A slot holds an object only between its construction by push() and its  *)
(* destruction by pop(): Raw is the memory of a slot without one.          *)
(***************************************************************************)
EXTENDS Integers, Sequences

CONSTANTS
  Threads,   \* the callers
  Values,    \* what is stored
  Raw,       \* memory without an object
  Asked,     \* the capacity the constructor is asked for
  Width      \* the counters are unsigned integers of this many bits

VARIABLES rep,    \* the queue and what its callers are doing
          items   \* ghost: the values in the queue, oldest first

\* A slip to rule out: the capacity is taken as it comes.
AsAsked(n) == n

TwoTo[i \in 0..Width] == IF i = 0 THEN 1 ELSE 2 * TwoTo[i - 1]

\* The smallest power of two that is not below n: what filling the mask with
\* its highest bit comes to, as long as n has at most 32 bits.
PowersOfTwo == {TwoTo[i] : i \in 0..Width}
RoundUp(n) == CHOOSE p \in PowersOfTwo : p >= n /\ \A q \in PowersOfTwo : q >= n => p <= q

capacity == RoundUp(Asked)
Slot == 0..(capacity - 1)
Index(counter) == counter % capacity
Modulus == TwoTo[Width]
Count == (rep.tail - rep.head) % Modulus

Init ==
  /\ rep = [lock |-> FALSE, head |-> 0, tail |-> 0,
            slot |-> [i \in Slot |-> Raw],
            pc |-> [t \in Threads |-> "out"],
            node |-> [t \in Threads |-> 0],
            val |-> [t \in Threads |-> Raw]]
  /\ items = <<>>

\* A call begins.
Call(t) ==
  /\ rep.pc[t] = "out"
  /\ \/ \E v \in Values : rep' = [rep EXCEPT !.pc[t] = "push", !.val[t] = v]
     \/ \E o \in {"pop", "size"} : rep' = [rep EXCEPT !.pc[t] = o]
  /\ UNCHANGED items

\* Where a call is when it has the lock.
Inside(o) ==
  CASE o = "push" -> "push locked" [] o = "pop" -> "pop locked" [] o = "size" -> "size locked"

\* __sync_lock_test_and_set until it returns 0, by the call o.
Acquire(t, o) ==
  /\ rep.pc[t] = o
  /\ ~rep.lock
  /\ rep' = [rep EXCEPT !.lock = TRUE, !.pc[t] = Inside(o)]
  /\ UNCHANGED items

\* push() of a full queue and pop() of an empty one return false.
Refuse(t) ==
  /\ \/ rep.pc[t] = "push locked" /\ Count = capacity
     \/ rep.pc[t] = "pop locked" /\ rep.head = rep.tail
  /\ rep' = [rep EXCEPT !.pc[t] = "refused"]
  /\ UNCHANGED items

\* _tail++ and then the construction in the slot it was at.
Reserve(t) ==
  /\ rep.pc[t] = "push locked"
  /\ Count # capacity
  /\ rep' = [rep EXCEPT !.pc[t] = "construct", !.node[t] = Index(rep.tail),
                        !.tail = (@ + 1) % Modulus]
  /\ items' = Append(items, rep.val[t])

Construct(t) ==
  /\ rep.pc[t] = "construct"
  /\ rep' = [rep EXCEPT !.pc[t] = "done", !.slot[rep.node[t]] = rep.val[t]]
  /\ UNCHANGED items

\* _head++, the copy to the caller and the destruction.
Take(t) ==
  /\ rep.pc[t] = "pop locked"
  /\ rep.head # rep.tail
  /\ rep' = [rep EXCEPT !.pc[t] = "copy", !.node[t] = Index(rep.head),
                        !.head = (@ + 1) % Modulus]
  /\ UNCHANGED items

Copy(t) ==
  /\ rep.pc[t] = "copy"
  /\ rep' = [rep EXCEPT !.pc[t] = "destroy", !.val[t] = rep.slot[rep.node[t]]]
  /\ UNCHANGED items

Destroy(t) ==
  /\ rep.pc[t] = "destroy"
  /\ rep' = [rep EXCEPT !.pc[t] = "popped", !.slot[rep.node[t]] = Raw]
  /\ UNCHANGED items

\* __sync_lock_release and the return; a pop() has its value now.
Release(t) ==
  /\ rep.pc[t] \in {"done", "popped", "refused", "size locked"}
  /\ rep' = [rep EXCEPT !.lock = FALSE, !.pc[t] = "out", !.node[t] = 0, !.val[t] = Raw]
  /\ items' = IF rep.pc[t] = "popped" THEN Tail(items) ELSE items

Next ==
  \E t \in Threads :
    \/ Call(t)
    \/ \E o \in {"push", "pop", "size"} : Acquire(t, o)
    \/ Refuse(t) \/ Release(t)
    \/ Reserve(t) \/ Construct(t)
    \/ Take(t) \/ Copy(t) \/ Destroy(t)

-----------------------------------------------------------------------------
\* Whenever the lock is free the objects in the ring are the queue, in order,
\* with memory between them and no more of them than the ring was asked to
\* hold or rounded up to; pop() hands its caller the oldest and push() never
\* constructs over an object.
IsQueue ==
  /\ ~rep.lock =>
       /\ Count = Len(items)
       /\ \A i \in Slot :
            LET k == (i - rep.head) % capacity
            IN  rep.slot[i] = IF k < Len(items) THEN items[k + 1] ELSE Raw
  /\ Len(items) <= capacity /\ capacity >= Asked
  /\ \A t \in Threads :
       /\ rep.pc[t] \in {"destroy", "popped"} => rep.val[t] = Head(items)
       /\ rep.pc[t] = "construct" => rep.slot[rep.node[t]] = Raw
=============================================================================
