------------------------------ MODULE Ringbuffer ------------------------------
(***************************************************************************)
(* ringbuffer.hpp, the ring buffer without a lock.  Its positions are      *)
(* plain pointers, so its calls must not overlap: between ++write_pos_ and *)
(* the wrap a reader would take last_ for a position, and write(T&&)       *)
(* publishes a slot before it fills it.  Here one call runs at a time.     *)
(* What may overlap with a write() is the use of what read() returned, a   *)
(* reference into a slot that has been given back already.                 *)
(*                                                                         *)
(* The buffer has no test for room: write(const T&) would overrun a full   *)
(* one, which then looks empty, and write(T&&) and read() would spin for   *)
(* ever.  Callers leave a slot free (Room) and read what is there.         *)
(*                                                                         *)
(* A position is an address: the memory of a buffer starts at one of Base. *)
(***************************************************************************)
EXTENDS Integers, Sequences

CONSTANTS
  N,        \* the slots
  Values,   \* what is written
  Raw,      \* a slot that nothing was written to
  Base      \* where the memory of a buffer can start

VARIABLES rep,    \* the buffer, and the reference its reader holds
          items   \* ghost: the values written and not read, oldest first

last(b) == b.start + N
Slot(b) == b.start..(last(b) - 1)
NoRef == -1

\* ringbuffer(n)
NewBuffer(base) ==
  [start |-> base, slot |-> [p \in base..(base + N - 1) |-> Raw],
   write_pos |-> base, read_pos |-> base]

\* ++pos, and from the end to the start.
advance(b, p) == IF p + 1 = last(b) THEN b.start ELSE p + 1

get_write_pos_idx(b) == b.write_pos - b.start
get_read_pos_idx(b) == b.read_pos - b.start

\* ringbuffer(const ringbuffer&), into memory at base.
Copied(b, base) ==
  [start |-> base,
   slot |-> [p \in base..(base + N - 1) |-> b.slot[p - base + b.start]],
   write_pos |-> base + get_write_pos_idx(b),
   read_pos |-> base + get_read_pos_idx(b)]

\* ++ from begin() to end(), which does not go around.
Iterate(b) == [k \in 1..(b.write_pos - b.read_pos) |-> b.slot[b.read_pos + k - 1]]

-----------------------------------------------------------------------------
Init ==
  /\ \E base \in Base : rep = [b |-> NewBuffer(base), ret |-> NoRef, want |-> Raw]
  /\ items = <<>>

Room == Len(items) < N - 1

\* *write_pos_ = val, then forward.
WriteCopy(b, v) == [b EXCEPT !.slot[b.write_pos] = v, !.write_pos = advance(b, @)]

\* Forward, wait until the reader is elsewhere, then *ori = val.
WriteMove(b, v) ==
  LET ori == b.write_pos
      b1 == [b EXCEPT !.write_pos = advance(b, @)]
  IN  [b1 EXCEPT !.slot[ori] = v]

write(v) ==
  /\ Room
  /\ rep' = [rep EXCEPT !.b = WriteCopy(@, v)]
  /\ items' = Append(items, v)

write_move(v) ==
  /\ Room
  /\ advance(rep.b, rep.b.write_pos) # rep.b.read_pos
  /\ rep' = [rep EXCEPT !.b = WriteMove(@, v)]
  /\ items' = Append(items, v)

\* The reference to the slot that was read; want is what it should stay.
read ==
  /\ rep.b.read_pos # rep.b.write_pos
  /\ items # <<>>
  /\ rep' = [b |-> [rep.b EXCEPT !.read_pos = advance(rep.b, @)],
             ret |-> rep.b.read_pos, want |-> Head(items)]
  /\ items' = Tail(items)

\* A copy is made, or assigned, and takes the buffer's place.
copy ==
  /\ \E base \in Base : rep' = [b |-> Copied(rep.b, base), ret |-> NoRef, want |-> Raw]
  /\ UNCHANGED items

Next ==
  \/ \E v \in Values : write(v)
  \/ \E v \in Values : write_move(v)
  \/ read
  \/ copy

-----------------------------------------------------------------------------
\* Values are read in the order they were written, also from a copy, and the
\* iterators show those that have not been read unless they run around the end.
\* What read() returned stays what it was until the next read(), whatever is
\* written meanwhile: the slot that callers leave free is the one just read.
IsQueue ==
  LET b == rep.b
  IN  /\ {b.write_pos, b.read_pos} \subseteq Slot(b)
      /\ (b.write_pos - b.read_pos) % N = Len(items)
      /\ \A k \in 1..Len(items) :
           b.slot[b.start + ((get_read_pos_idx(b) + k - 1) % N)] = items[k]
      /\ b.read_pos <= b.write_pos => Iterate(b) = items
      /\ rep.ret # NoRef => b.slot[rep.ret] = rep.want
=============================================================================
