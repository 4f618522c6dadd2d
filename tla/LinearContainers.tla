-------------------------- MODULE LinearContainers --------------------------
(***************************************************************************)
(* The containers that keep what was put in as a sequence: where the       *)
(* caller put it, as the vector, the strings and the lists do, or to hand  *)
(* it out again, in that order, as the byte buffer, the plain ring buffer  *)
(* and the queue behind a spin lock do, or the largest first, as the heap  *)
(* does.  They do not interact: kind says which of them runs, and rep and  *)
(* items are its representation and what it should hold.                   *)
(***************************************************************************)
EXTENDS Integers

CONSTANTS
  Values,     \* what is put in
  Default,    \* value_type()
  Raw,        \* memory that nothing was put into
  InitSize,   \* buffer: its size at first
  Spill,      \* buffer: the size of ReadFd's local array
  MaxSize,    \* buffer, bound: its size
  MaxAppend,  \* buffer, bound: the bytes appended at once
  N,          \* ring buffer: its slots
  Base,       \* ring buffer: where its memory can start
  Threads,    \* spin-lock queue: the callers
  Asked,      \* spin-lock queue: the capacity that is asked for
  Width,      \* spin-lock queue: the bits of its counters
  Numbers,    \* heap: what is put in, integers
  MaxHeap,    \* heap, bound: its values
  BuffSizes,  \* string: the places in itself, of a tiny one, or 0
  MaxCells,   \* vector, bound: the cells of its block
  MaxText,    \* string, bound: the cells of its block
  MaxInsert,  \* vector and string, bound: what is inserted at once
  MaxNodes    \* list, bound: its nodes

VARIABLES kind, rep, items
vars == <<kind, rep, items>>

Stream == INSTANCE Buffer WITH Bytes <- Values, Zero <- Raw
Ring == INSTANCE Ringbuffer
SharedRing == INSTANCE SpinLockQueue
PriorityQueue == INSTANCE Heap WITH Values <- Numbers, MaxSize <- MaxHeap
Array == INSTANCE Vector WITH Junk <- Raw, MaxCapacity <- MaxCells
Text == INSTANCE String WITH Junk <- Raw, MaxCapacity <- MaxText
List == INSTANCE LinkedList WITH MaxSize <- MaxNodes

\* A queue of more slots than half of what a counter can count to cannot be had:
\* its counters could not tell a full one from an empty one.
ASSUME QueuesAssumption ==
  /\ {InitSize, Spill, MaxSize, MaxAppend} \subseteq Nat
  /\ N \in Nat \ {0} /\ Base \subseteq Nat
  /\ Numbers \subseteq Int /\ MaxHeap \in Nat
  /\ {Asked, Width} \subseteq Nat \ {0} /\ 2 * Asked <= SharedRing!TwoTo[Width]

\* A list's value is not what marks a node that is not in use.
ASSUME SequencesAssumption ==
  /\ BuffSizes \subseteq Nat
  /\ {MaxCells, MaxText, MaxInsert, MaxNodes} \subseteq Nat
  /\ List!Unused \notin Values \cup {Default}

LinearKinds == {"buffer", "ringbuffer", "spinlock_queue", "heap", "vector", "string", "list"}

LinearInit ==
  \/ kind = "buffer" /\ Stream!Init
  \/ kind = "ringbuffer" /\ Ring!Init
  \/ kind = "spinlock_queue" /\ SharedRing!Init
  \/ kind = "heap" /\ PriorityQueue!Init
  \/ kind = "vector" /\ Array!Init
  \/ kind = "string" /\ Text!Init
  \/ kind = "list" /\ List!Init

LinearNext ==
  /\ UNCHANGED kind
  /\ \/ kind = "buffer" /\ Stream!Next
     \/ kind = "ringbuffer" /\ Ring!Next
     \/ kind = "spinlock_queue" /\ SharedRing!Next
     \/ kind = "heap" /\ PriorityQueue!Next
     \/ kind = "vector" /\ Array!Next
     \/ kind = "string" /\ Text!Next
     \/ kind = "list" /\ List!Next

LinearSpec == LinearInit /\ [][LinearNext]_vars

\* A byte buffer, a ring buffer of one thread, and one that threads share under
\* a spin lock, hand out what was put in, once and in order, however the memory
\* grew, moved or was used again; a ring is never overrun, and what a popped
\* slot held is destroyed before the slot is used again.
FirstInFirstOut ==
  /\ kind = "buffer" => Stream!IsStream
  /\ kind = "ringbuffer" => Ring!IsQueue
  /\ kind = "spinlock_queue" => SharedRing!IsQueue

\* The largest value is at the heap's front, and sorting it keeps every value.
HeapsAreOrdered == kind = "heap" => PriorityQueue!LargestFirst

\* A vector, a string and a list hold the elements they were given in their
\* order, however the memory grew, moved or was linked in between.
SequencesAreSequences ==
  /\ kind = "vector" => Array!IsSequence
  /\ kind = "string" => Text!IsString
  /\ kind = "list" => List!IsSequence
=============================================================================
