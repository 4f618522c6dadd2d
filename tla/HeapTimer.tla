----------------------------- MODULE HeapTimer -----------------------------
(***************************************************************************)
(* mfwu_webserver::HeapTimer: timers in a binary heap, and an index from   *)
(* ids to places in it.                                                    *)
(*                                                                         *)
(* One thread uses it, so a member function is one step, except where      *)
(* doWork() and tick() run a timer's callback: what the callback itself    *)
(* asks of the timer comes in between, and running says which member       *)
(* function is waiting for it to return.                                   *)
(*                                                                         *)
(* A member function is defined on a record s of heap_, as a function on   *)
(* 0 .. n-1, of ref_, and of whether all assertions held so far.  Where    *)
(* the code compares a node with whatever lies before the vector, its      *)
(* outcome is a set.                                                       *)
(***************************************************************************)
EXTENDS Integers, FiniteSets, Functions

CONSTANTS
  Ids,       (* the ids of timers                                          *)
  Timeouts,  (* the timeouts asked for, in ticks of the clock              *)
  MaxTime    (* bound: how far the clock goes                              *)

ASSUME HeapTimerAssumption ==
  Timeouts \subseteq Nat /\ MaxTime \in Nat /\ IsFiniteSet(Ids)

VARIABLES
  time,      (* Clock::now()                                               *)
  s,         (* heap_, ref_ and whether the process has not been aborted   *)
  running,   (* doWork() or tick() in whose callback the thread is         *)
  inOrder,   (* history: no expiry was set that is earlier than another    *)
  forward,   (* history: adjust() has brought an expiry forward            *)
  touched    (* history: the ids the running callback has set              *)

vars == <<time, s, running, inOrder, forward, touched>>

Size(h) == Cardinality(DOMAIN h)

(* A failed assertion ends the process. *)
Abort(r) == [heap |-> r.heap, ref |-> r.ref, alive |-> FALSE]

Less(h, i, j) == h[i].expires < h[j].expires

Parent(i) == (i - 1) \div 2

-----------------------------------------------------------------------------
(* A slip to rule out: only one of the two nodes is indexed anew.           *)
SwapForgets(r, i, j) ==
  [heap  |-> [r.heap EXCEPT ![i] = r.heap[j], ![j] = r.heap[i]],
   ref   |-> [r.ref EXCEPT ![r.heap[j].id] = i],
   alive |-> r.alive]

SwapNode_(r, i, j) ==
  [heap  |-> [r.heap EXCEPT ![i] = r.heap[j], ![j] = r.heap[i]],
   ref   |-> [r.ref EXCEPT ![r.heap[j].id] = i, ![r.heap[i].id] = j],
   alive |-> r.alive]

(* The loop of siftup_() ends before the root: j > 0. *)
RiseEnds(h, i) == Parent(i) = 0 \/ Less(h, Parent(i), i)

RiseOnce(q) ==
  IF RiseEnds(q.r.heap, q.i) THEN q
  ELSE [r |-> SwapNode_(q.r, q.i, Parent(q.i)), i |-> Parent(q.i)]

(* The turns of the loop, of which i are more than enough. *)
RiseTurns(r, i) ==
  LET turn[k \in 0 .. i] == IF k = 0 THEN [r |-> r, i |-> i] ELSE RiseOnce(turn[k - 1])
  IN  turn

Rise(r, i) == RiseTurns(r, i)[i].r

(* From the root, (i - 1) / 2 is enormous: whatever heap_[j] reads there is *)
(* either less than the root, or SwapNode_() asserts that j is in the heap. *)
siftup_(r, i) == IF i = 0 THEN {r, Abort(r)} ELSE {Rise(r, i)}

(* A slip to rule out: the later of two children moves up.                  *)
LaterChild(h, j, n) == IF j + 1 < n /\ Less(h, j, j + 1) THEN j + 1 ELSE j

(* The child of a node to compare it with; j is the left one. *)
Child(h, j, n) == IF j + 1 < n /\ Less(h, j + 1, j) THEN j + 1 ELSE j

SinkEnds(h, i, n) == 2 * i + 1 >= n \/ Less(h, i, Child(h, 2 * i + 1, n))

SinkOnce(q, n) ==
  LET j == Child(q.r.heap, 2 * q.i + 1, n)
  IN  IF SinkEnds(q.r.heap, q.i, n) THEN q ELSE [r |-> SwapNode_(q.r, q.i, j), i |-> j]

(* The turns of the loop of siftdown_(), of which n are more than enough. *)
SinkTurns(r, i, n) ==
  LET turn[k \in 0 .. n] == IF k = 0 THEN [r |-> r, i |-> i] ELSE SinkOnce(turn[k - 1], n)
  IN  turn

Sink(r, i, n) == SinkTurns(r, i, n)[n].r

(* siftdown_(), and siftup_() if that did nothing. *)
Sift(r, i, n) == IF SinkEnds(r.heap, i, n) THEN siftup_(r, i) ELSE {Sink(r, i, n)}

Node(id, t) == [id |-> id, expires |-> time + t]

(* add() of an id that is not there, and of one that is. *)
AddNew(r, id, t) ==
  LET i == Size(r.heap)
  IN  siftup_([heap  |-> [k \in 0 .. i |-> IF k = i THEN Node(id, t) ELSE r.heap[k]],
               ref   |-> [k \in DOMAIN r.ref \cup {id} |-> IF k = id THEN i ELSE r.ref[k]],
               alive |-> r.alive], i)

Renew(r, id, t) ==
  [heap |-> [r.heap EXCEPT ![r.ref[id]] = Node(id, t)], ref |-> r.ref, alive |-> r.alive]

AddAgain(r, id, t) == Sift(Renew(r, id, t), r.ref[id], Size(r.heap))

add(r, id, t) == IF id \in DOMAIN r.ref THEN AddAgain(r, id, t) ELSE AddNew(r, id, t)

adjust(r, id, t) ==
  IF id \in DOMAIN r.ref THEN Sink(Renew(r, id, t), r.ref[id], Size(r.heap)) ELSE Abort(r)

(* The last node leaves the heap and the index. *)
Drop(r) ==
  LET n == Size(r.heap) - 1
  IN  [heap  |-> Restrict(r.heap, 0 .. n - 1),
       ref   |-> Restrict(r.ref, DOMAIN r.ref \ {r.heap[n].id}),
       alive |-> r.alive]

(* A slip to rule out: the node deleted is the last one.                    *)
DeleteLast(r, i) == IF i \in DOMAIN r.heap THEN {Drop(r)} ELSE {Abort(r)}

del_(r, i) ==
  LET n == Size(r.heap) - 1
  IN  IF i \notin DOMAIN r.heap THEN {Abort(r)}
      ELSE IF i = n THEN {Drop(r)}
      ELSE {IF q.alive THEN Drop(q) ELSE q : q \in Sift(SwapNode_(r, i, n), i, n)}

-----------------------------------------------------------------------------
Idle == [in |-> "none", id |-> 0, at |-> 0]

Empty == [heap |-> [i \in {} |-> 0], ref |-> [i \in {} |-> 0], alive |-> TRUE]

Init ==
  /\ time = 0
  /\ s = Empty
  /\ running = Idle
  /\ inOrder = TRUE /\ forward = FALSE /\ touched = {}

TimePasses ==
  /\ time < MaxTime
  /\ time' = time + 1
  /\ UNCHANGED <<s, running, inOrder, forward, touched>>

(* What the history keeps of an expiry set to t from now. *)
Note(id, t) ==
  /\ inOrder' = (inOrder /\ \A i \in DOMAIN s.heap : s.heap[i].expires <= time + t)
  /\ touched' = IF running = Idle THEN {} ELSE touched \cup {id}

(* add() and adjust(), by a client or by a callback. *)
Add(id, t) ==
  /\ s' \in add(s, id, t)
  /\ Note(id, t)
  /\ UNCHANGED <<time, running, forward>>

Adjust(id, t) ==
  /\ id \in DOMAIN s.ref
  /\ s' = adjust(s, id, t)
  /\ Note(id, t)
  /\ forward' = (forward \/ time + t < s.heap[s.ref[id]].expires)
  /\ UNCHANGED <<time, running>>

(* doWork() up to the callback; it returns at once if the id is not there. *)
DoWork(id) ==
  /\ running = Idle /\ id \in DOMAIN s.ref
  /\ running' = [in |-> "doWork", id |-> id, at |-> s.ref[id]]
  /\ UNCHANGED <<time, s, inOrder, forward, touched>>

(* A slip to rule out: a timer that is due just now is left for later.      *)
LoopLate(h) ==
  IF Size(h) > 0 /\ h[0].expires < time
    THEN [in |-> "tick", id |-> h[0].id, at |-> 0] ELSE Idle

(* The loop of tick(), on heap h: a due front node's callback is run, or    *)
(* tick() returns.                                                          *)
Loop(h) ==
  IF Size(h) > 0 /\ h[0].expires <= time
    THEN [in |-> "tick", id |-> h[0].id, at |-> 0] ELSE Idle

(* tick(), which GetNextTick() calls too. *)
Tick ==
  /\ running = Idle
  /\ running' = Loop(s.heap)
  /\ UNCHANGED <<time, s, inOrder, forward, touched>>

(* The callback returns: doWork() deletes the place it looked up before,    *)
(* tick() pops the front.                                                   *)
CallbackReturns ==
  /\ running # Idle
  /\ s' \in del_(s, running.at)
  /\ running' = IF running.in = "tick" THEN Loop(s'.heap) ELSE Idle
  /\ touched' = {}
  /\ UNCHANGED <<time, inOrder, forward>>

Pop ==
  /\ running = Idle /\ Size(s.heap) > 0
  /\ s' \in del_(s, 0)
  /\ UNCHANGED <<time, running, inOrder, forward, touched>>

Clear ==
  /\ running = Idle
  /\ s' = Empty
  /\ inOrder' = TRUE /\ forward' = FALSE
  /\ UNCHANGED <<time, running, touched>>

Next ==
  /\ s.alive
  /\ \/ TimePasses \/ Tick \/ CallbackReturns \/ Pop \/ Clear
     \/ \E id \in Ids : DoWork(id) \/ \E t \in Timeouts : Add(id, t) \/ Adjust(id, t)

Spec == Init /\ [][Next]_vars

-----------------------------------------------------------------------------
TypeOK ==
  /\ time \in 0 .. MaxTime
  /\ DOMAIN s.heap = 0 .. Size(s.heap) - 1
  /\ \A i \in DOMAIN s.heap : s.heap[i].id \in Ids /\ s.heap[i].expires \in Nat
  /\ {s.alive, inOrder, forward} \subseteq BOOLEAN
  /\ touched \subseteq Ids

(* ref_ finds every timer in the heap, and nothing else: no id twice, no    *)
(* place stale after any swap.                                              *)
IndexAgrees ==
  /\ DOMAIN s.ref = {s.heap[i].id : i \in DOMAIN s.heap}
  /\ \A i \in DOMAIN s.heap : s.ref[s.heap[i].id] = i

TimerInv == TypeOK /\ (s.alive => IndexAgrees)

(* What is left of the heap order.  Below the children of the root it holds *)
(* unless adjust(), which only sifts down, has brought a timer forward; at  *)
(* the root, which siftup_() never reaches, only as long as every expiry is *)
(* set no earlier than those already there.                                 *)
HeapOrder ==
  s.alive => \A i \in DOMAIN s.heap \ {0} :
    /\ Parent(i) > 0 /\ ~forward => s.heap[Parent(i)].expires <= s.heap[i].expires
    /\ inOrder => s.heap[Parent(i)].expires <= s.heap[i].expires

(* When tick() returns, no timer is due, if expiries were set in order.     *)
TickLeavesNothingDue ==
  [][running'.in = "none" /\ (Tick \/ running.in = "tick") /\ inOrder /\ s'.alive =>
       \A i \in DOMAIN s'.heap : s'.heap[i].expires > time]_vars

(* The timer whose callback has run is the one that leaves: in tick()       *)
(* unless the callback sets that very timer again, in doWork() unless it    *)
(* sets any.                                                                *)
RightTimerLeaves ==
  [][CallbackReturns /\ s'.alive
     /\ (IF running.in = "tick" THEN running.id \notin touched ELSE touched = {})
     => DOMAIN s'.ref = DOMAIN s.ref \ {running.id}]_vars

(* "assert(j >= 0 && j < heap_.size())" (heaptimer.cpp:18) and the other    *)
(* assertions hold.  The first add() can already break it: siftup_(0)       *)
(* compares the new node with memory before the vector.                     *)
AssertionsHold == s.alive
=============================================================================
