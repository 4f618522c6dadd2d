---------------------------- MODULE DefaultAlloc ----------------------------
(***************************************************************************)
(* mfwu::default_alloc: small blocks from free lists, one for each         *)
(* multiple of Align, filled from a pool that malloc() fills; large blocks *)
(* straight from malloc().  Everything is static and without a lock, for   *)
(* one thread at a time: a call is one step.                               *)
(*                                                                         *)
(* Addresses are numbers.  malloc() hands out areas one after another,     *)
(* each exactly as long as asked for, or fails.  A large block that it     *)
(* refuses without a handler is a null pointer and changes nothing.        *)
(***************************************************************************)
EXTENDS Integers, Sequences, FiniteSetsExt

CONSTANTS
  Align,     (* __ALIGN                                                    *)
  MaxBytes,  (* __MAX_BYTES                                                *)
  Refill,    (* __DEFAULT_REFILLING_SIZE                                   *)
  Requests,  (* the sizes that are asked for                               *)
  MaxCalls   (* bound: how many calls are made                             *)

ASSUME DefaultAllocAssumption ==
  /\ Align \in Nat \ {0} /\ MaxBytes \in Nat /\ MaxBytes % Align = 0
  /\ Refill \in Nat \ {0, 1} /\ MaxCalls \in Nat
  /\ Requests \subseteq Nat \ {0}

VARIABLES
  p,         (* free_lists, start_free, end_free, heap_size, and the areas *)
             (* got from malloc() and not given back                       *)
  live,      (* the blocks in the hands of clients                         *)
  handler,   (* __malloc_alloc_oom_handler is set                          *)
  alive,     (* the process runs                                           *)
  adopted,   (* history: bytes of large blocks that now belong to a list   *)
  tight,     (* history: such a block is shorter than its list says        *)
  calls      (* how many calls have been made                              *)

vars == <<p, live, handler, alive, adopted, tight, calls>>

ROUND_UP(bytes) == ((bytes + Align - 1) \div Align) * Align

FREELIST_INDEX(bytes) == (bytes + Align - 1) \div Align - 1

Lists == 0 .. (MaxBytes \div Align) - 1

(* The length of the blocks in list i. *)
Length(i) == (i + 1) * Align

Piece(at, n) == [at |-> at, n |-> n]

End(x) == x.at + x.n

-----------------------------------------------------------------------------
(* The next area malloc() hands out; 0 is the null pointer. *)
Fresh(q, n) == Piece(Max({Align} \cup {End(x) : x \in q.got}), n)

(* A block goes to the front of the list for its size. *)
Link(q, x) == [q EXCEPT !.free_lists[FREELIST_INDEX(x.n)] = <<x.at>> \o @]

Left(q) == q.end_free - q.start_free

(* A slip to rule out: a pool of just one block is not used.                *)
MoreThanEnough(q, size) == Left(q) > size

Enough(q, size) == Left(q) >= size

(* As many blocks as the pool has room for are cut off: the first for the   *)
(* client, the others, if any, as the new list.                             *)
Cut(q, size) ==
  LET n == Min({Refill, Left(q) \div size})
  IN  [q EXCEPT !.start_free = @ + n * size,
                !.free_lists[FREELIST_INDEX(size)] =
                   IF n = 1 THEN @ ELSE [k \in 1 .. n - 1 |-> q.start_free + k * size]]

(* What is left of the pool goes to the list for its size. *)
Shelve(q) == IF Left(q) > 0 THEN Link(q, Piece(q.start_free, Left(q))) ELSE q

(* A new pool from malloc(). *)
Grow(q, size) ==
  LET x == Fresh(q, 2 * size * Refill + ROUND_UP(q.heap_size \div 16))
  IN  [q EXCEPT !.start_free = x.at, !.end_free = End(x),
                !.heap_size = @ + x.n, !.got = @ \cup {x}]

(* A slip to rule out: the longest blocks are not looked at.                *)
UsableButLongest(q, size) ==
  {i \in Lists : size <= Length(i) /\ Length(i) < MaxBytes /\ q.free_lists[i] # <<>>}

(* The lists whose blocks can serve as a pool. *)
Usable(q, size) == {i \in Lists : size <= Length(i) /\ q.free_lists[i] # <<>>}

(* A slip to rule out: the block stays in its list.                         *)
SalvageKeeps(q, size) ==
  LET i == Min(Usable(q, size))
  IN  [q EXCEPT !.start_free = Head(q.free_lists[i]),
                !.end_free = Head(q.free_lists[i]) + Length(i)]

(* The first of the shortest such blocks becomes the pool. *)
Salvage(q, size) ==
  LET i == Min(Usable(q, size))
  IN  [q EXCEPT !.free_lists[i] = Tail(@),
                !.start_free = Head(q.free_lists[i]),
                !.end_free = Head(q.free_lists[i]) + Length(i)]

-----------------------------------------------------------------------------
Init ==
  /\ p = [free_lists |-> [i \in Lists |-> <<>>],
          start_free |-> 0, end_free |-> 0, heap_size |-> 0, got |-> {}]
  /\ live = {} /\ handler = FALSE /\ alive = TRUE
  /\ adopted = 0 /\ tight = FALSE /\ calls = 0

Call == alive /\ calls < MaxCalls /\ calls' = calls + 1

(* allocate() of a size whose list has a block. *)
FromList(n) ==
  LET i == FREELIST_INDEX(n)
  IN  /\ n <= MaxBytes /\ p.free_lists[i] # <<>>
      /\ p' = [p EXCEPT !.free_lists[i] = Tail(@)]
      /\ live' = live \cup {Piece(Head(p.free_lists[i]), n)}
      /\ UNCHANGED <<handler, alive, adopted, tight>>

(* refill() with pool q. *)
Refilled(q, n) ==
  /\ p' = Cut(q, ROUND_UP(n))
  /\ live' = live \cup {Piece(q.start_free, n)}
  /\ UNCHANGED <<handler, alive, adopted, tight>>

(* allocate() of a size whose list is empty.  When malloc() fails a block   *)
(* of a longer list will do, and in the end the handler must have made      *)
(* malloc() succeed; without a handler the pool starts at the null pointer, *)
(* and refill() dies when it links the blocks there.                        *)
FromPool(n) ==
  LET size == ROUND_UP(n)
      q == Shelve(p)
  IN  /\ n <= MaxBytes /\ p.free_lists[FREELIST_INDEX(n)] = <<>>
      /\ \/ Enough(p, size) /\ Refilled(p, n)
         \/ ~Enough(p, size) /\ Refilled(Grow(q, size), n)
         \/ ~Enough(p, size) /\ Usable(q, size) # {} /\ Refilled(Salvage(q, size), n)
         \/ /\ ~Enough(p, size) /\ Usable(q, size) = {} /\ ~handler
            /\ alive' = FALSE
            /\ UNCHANGED <<p, live, handler, adopted, tight>>

Large(n) ==
  LET x == Fresh(p, n)
  IN  /\ n > MaxBytes
      /\ p' = [p EXCEPT !.got = @ \cup {x}]
      /\ live' = live \cup {x}
      /\ UNCHANGED <<handler, alive, adopted, tight>>

allocate(n) == Call /\ (FromList(n) \/ FromPool(n) \/ Large(n))

deallocate(x) ==
  /\ Call
  /\ p' = IF x.n > MaxBytes THEN [p EXCEPT !.got = @ \ {x}] ELSE Link(p, x)
  /\ live' = live \ {x}
  /\ UNCHANGED <<handler, alive, adopted, tight>>

(* A block that was small stays as it is and the client gets a null         *)
(* pointer.  A large one is cut down where it is, or moved to grow.         *)
reallocate(x, n) ==
  LET y == IF n < x.n THEN Piece(x.at, n) ELSE Fresh(p, n)
  IN  /\ Call
      /\ x.n > MaxBytes /\ n # x.n
      /\ p' = [p EXCEPT !.got = (@ \ {x}) \cup {y}]
      /\ live' = (live \ {x}) \cup {y}
      /\ adopted' = IF n > MaxBytes THEN adopted ELSE adopted + ROUND_UP(n)
      /\ tight' = (tight \/ (n <= MaxBytes /\ n % Align # 0))
      /\ UNCHANGED <<handler, alive>>

set_malloc_handler ==
  /\ Call
  /\ handler' = ~handler
  /\ UNCHANGED <<p, live, alive, adopted, tight>>

Next ==
  \/ \E n \in Requests : allocate(n) \/ \E x \in live : reallocate(x, n)
  \/ \E x \in live : deallocate(x)
  \/ set_malloc_handler

Spec == Init /\ [][Next]_vars

-----------------------------------------------------------------------------
(* The parts of the memory: blocks in use and in lists, and the pool.       *)
Used == {<<"live", 1, x.at, x.n>> : x \in live}

Unused ==
  (UNION {{<<"list", k, p.free_lists[i][k], Length(i)>> : k \in DOMAIN p.free_lists[i]} : i \in Lists})
  \cup {<<"pool", 1, p.start_free, n>> : n \in {Left(p)} \ {0}}

Apart(x, y) == x[3] + x[4] <= y[3] \/ y[3] + y[4] <= x[3]

TypeOK ==
  /\ p.free_lists \in [Lists -> Seq(Nat)]
  /\ {p.start_free, p.end_free, p.heap_size, adopted} \subseteq Nat
  /\ p.start_free <= p.end_free
  /\ p.got \cup live \subseteq [at : Nat, n : Nat]
  /\ {handler, alive, tight} \subseteq BOOLEAN

(* No byte is in two blocks, in two lists, or in a block and the pool, and  *)
(* each lies in an area got from malloc(): no client ever gets what another *)
(* has, through any refill, remainder or salvaged block.  Only a large      *)
(* block cut down to a small size that is no multiple of Align breaks it:   *)
(* its list hands it out as longer than it is.                              *)
BlocksAreApart ==
  ~tight =>
    /\ \A x, y \in Used \cup Unused : x # y => Apart(x, y)
    /\ \A x \in Used \cup Unused : \E g \in p.got : g.at <= x[3] /\ x[3] + x[4] <= End(g)

AllocInv == TypeOK /\ BlocksAreApart

(* The small blocks, the lists and the pool, in units of Align bytes.       *)
Units == UNION {{x} \X (0 .. FREELIST_INDEX(x[4])) : x \in {y \in Used : y[4] <= MaxBytes} \cup Unused}

(* heap_size is what the small blocks, the lists and the pool add up to,    *)
(* large blocks that were cut down apart: no piece is ever forgotten.       *)
NothingIsLost == p.heap_size + adopted = Align * Cardinality(Units)

(* When allocate() gives up there is no unused piece long enough for what   *)
(* it was asked: malloc() alone decides.                                    *)
GivesUpOnlyWhenDry ==
  ~alive => \E n \in Requests : n <= MaxBytes /\ \A x \in Unused : x[4] < ROUND_UP(n)
=============================================================================
