------------------------ MODULE RingbufferWithMutex ------------------------
(***************************************************************************)
(* mfwu_rbf::ringbuffer_with_mutex: a ring of N slots guarded by one mutex *)
(* and two condition variables.  Each member function is cut at the places *)
(* where another thread can observe or change something: taking the mutex, *)
(* testing the loop condition, sleeping, waking, copying the value, moving *)
(* a position, notifying, releasing the mutex.                             *)
(*                                                                         *)
(* pc[t] is where thread t stands:                                         *)
(*   idle     not inside a member function                                 *)
(*   lock     constructing the unique_lock or lock_guard                   *)
(*   test     at the while condition of read() or write()                  *)
(*   wait     asleep in wait(locker), the mutex released                   *)
(*   relock   woken inside wait(locker), taking the mutex again            *)
(*   check    at `if (is_close_)` after the wait                           *)
(*   copy     at `*res = *read_pos_` or `*write_pos_ = val`                *)
(*   advance  at `++read_pos_` or `++write_pos_`                           *)
(*   notify   at notify_one()                                              *)
(*   body     the one statement of clear(), _close() or a query            *)
(*   unlock   leaving the scope of the lock                                *)
(*   notify_producers, notify_consumers   the two notify_all() of _close() *)
(*   flush    at the notify_one() of flush(), which takes no mutex         *)
(*   return   flush() is about to return                                   *)
(***************************************************************************)
EXTENDS Integers, Sequences, FiniteSets

CONSTANTS
  Threads,   (* the threads that share the buffer                          *)
  Values,    (* value_type                                                 *)
  Default,   (* value_type{}, which fills the slots of a new buffer        *)
  N,         (* the number of slots, size_                                 *)
  NoThread,  (* owner of a free mutex                                      *)
  Program    (* Program[t]: the member functions thread t calls            *)

Ops == {"write", "read", "clear", "close", "flush", "empty", "full", "is_close"}

Blocking == {"write", "read"}
Queries == {"empty", "full", "is_close"}

ASSUME SlotsAssumption == N \in Nat \ {0}
ASSUME ValuesAssumption == Default \in Values
ASSUME ThreadsAssumption ==
  /\ IsFiniteSet(Threads) /\ NoThread \notin Threads
  /\ Program \in [Threads -> SUBSET Ops]

VARIABLES
  slots,      (* the ring: start_ .. last_                                 *)
  read_pos,   (* index of the oldest value                                 *)
  write_pos,  (* index of the slot the next value goes to                  *)
  is_close,   (* is_close_                                                 *)
  mtx,        (* owner of mtx_                                             *)
  pc,         (* where each thread stands                                  *)
  op,         (* the member function it is in, "none" outside of any       *)
  val,        (* its argument of write(), its *res of read()               *)
  ret         (* what that call returns                                    *)

vars == <<slots, read_pos, write_pos, is_close, mtx, pc, op, val, ret>>
ring == <<slots, read_pos, write_pos>>
call == <<op, val, ret>>

Labels == {"idle", "lock", "test", "wait", "relock", "check", "copy", "advance",
           "notify", "body", "unlock", "notify_producers", "notify_consumers",
           "flush", "return"}

(* The positions between lock and unlock, where the thread owns mtx_. *)
Holding == {"test", "check", "copy", "advance", "notify", "body", "unlock"}

-----------------------------------------------------------------------------
(* Positions. *)

Slots == 0 .. N - 1

Wrap(i) == IF i >= N THEN i - N ELSE i

Succ(i) == Wrap(i + 1)

Empty == read_pos = write_pos

(* A slip to rule out: full() without the wrap of the iterator's +.         *)
FullUnwrapped == write_pos + 1 = read_pos

Full == Succ(write_pos) = read_pos

(* The loop condition of the member function t is in. *)
Blocked(t) == IF op[t] = "write" THEN Full ELSE Empty

(* The threads asleep on producer_ (o is "write") or consumer_ ("read"). *)
Asleep(o) == {t \in Threads : pc[t] = "wait" /\ op[t] = o}

Goto(t, label) == pc' = [pc EXCEPT ![t] = label]

(* The locals of a call end with it. *)
EndCall(t) ==
  /\ op' = [op EXCEPT ![t] = "none"]
  /\ val' = [val EXCEPT ![t] = Default]
  /\ ret' = [ret EXCEPT ![t] = FALSE]

(* notify_one() on the condition variable of o, then t continues at label. *)
NotifyOne(t, o, label) ==
  IF Asleep(o) = {}
    THEN Goto(t, label)
    ELSE \E s \in Asleep(o) : pc' = [pc EXCEPT ![t] = label, ![s] = "relock"]

NotifyAll(t, o, label) ==
  pc' = [s \in Threads |-> IF s = t THEN label
                           ELSE IF s \in Asleep(o) THEN "relock" ELSE pc[s]]

-----------------------------------------------------------------------------
Init ==
  /\ slots = [i \in Slots |-> Default]
  /\ read_pos = 0
  /\ write_pos = 0
  /\ is_close = FALSE
  /\ mtx = NoThread
  /\ pc = [t \in Threads |-> "idle"]
  /\ op = [t \in Threads |-> "none"]
  /\ val = [t \in Threads |-> Default]
  /\ ret = [t \in Threads |-> FALSE]

(* t calls the member function o. *)
Begin(t, o) ==
  /\ pc[t] = "idle"
  /\ op' = [op EXCEPT ![t] = o]
  /\ Goto(t, IF o = "flush" THEN "flush" ELSE "lock")
  /\ \E v \in IF o = "write" THEN Values ELSE {Default} :
       val' = [val EXCEPT ![t] = v]
  /\ UNCHANGED <<ring, is_close, mtx, ret>>

Call(t) == \E o \in Program[t] : Begin(t, o)

Lock(t) ==
  /\ pc[t] = "lock"
  /\ mtx = NoThread
  /\ mtx' = t
  /\ Goto(t, IF op[t] \in Blocking THEN "test" ELSE "body")
  /\ UNCHANGED <<ring, is_close, call>>

(* while (full or empty) wait(locker): the wait gives the mutex up and puts *)
(* the thread to sleep in one step.                                         *)
Test(t) ==
  /\ pc[t] = "test"
  /\ \/ /\ Blocked(t)
        /\ mtx' = NoThread
        /\ Goto(t, "wait")
     \/ /\ ~Blocked(t)
        /\ Goto(t, "copy")
        /\ UNCHANGED mtx
  /\ UNCHANGED <<ring, is_close, call>>

(* A condition variable may wake a thread nobody notified. *)
SpuriousWake(t) ==
  /\ pc[t] = "wait"
  /\ Goto(t, "relock")
  /\ UNCHANGED <<ring, is_close, mtx, call>>

Relock(t) ==
  /\ pc[t] = "relock"
  /\ mtx = NoThread
  /\ mtx' = t
  /\ Goto(t, "check")
  /\ UNCHANGED <<ring, is_close, call>>

(* A slip to rule out: `if` where read() and write() have `while`.          *)
CheckOnce(t) ==
  /\ pc[t] = "check"
  /\ ret' = [ret EXCEPT ![t] = FALSE]
  /\ Goto(t, IF is_close THEN "unlock" ELSE "copy")
  /\ UNCHANGED <<ring, is_close, mtx, op, val>>

Check(t) ==
  /\ pc[t] = "check"
  /\ \/ /\ is_close
        /\ ret' = [ret EXCEPT ![t] = FALSE]
        /\ Goto(t, "unlock")
     \/ /\ ~is_close
        /\ Goto(t, "test")
        /\ UNCHANGED ret
  /\ UNCHANGED <<ring, is_close, mtx, op, val>>

CopyIn(t) ==
  /\ pc[t] = "copy"
  /\ op[t] = "write"
  /\ slots' = [slots EXCEPT ![write_pos] = val[t]]
  /\ Goto(t, "advance")
  /\ UNCHANGED <<read_pos, write_pos, is_close, mtx, call>>

CopyOut(t) ==
  /\ pc[t] = "copy"
  /\ op[t] = "read"
  /\ val' = [val EXCEPT ![t] = slots[read_pos]]
  /\ Goto(t, "advance")
  /\ UNCHANGED <<ring, is_close, mtx, op, ret>>

AdvanceWrite(t) ==
  /\ pc[t] = "advance"
  /\ op[t] = "write"
  /\ write_pos' = Succ(write_pos)
  /\ Goto(t, "notify")
  /\ UNCHANGED <<slots, read_pos, is_close, mtx, call>>

AdvanceRead(t) ==
  /\ pc[t] = "advance"
  /\ op[t] = "read"
  /\ read_pos' = Succ(read_pos)
  /\ Goto(t, "notify")
  /\ UNCHANGED <<slots, write_pos, is_close, mtx, call>>

(* A slip to rule out: the wrong one of the two condition variables.        *)
NotifyOwnSide(t) ==
  /\ pc[t] = "notify"
  /\ NotifyOne(t, op[t], "unlock")
  /\ ret' = [ret EXCEPT ![t] = TRUE]
  /\ UNCHANGED <<ring, is_close, mtx, op, val>>

(* Another: a read() that notifies nobody.                                  *)
NotifyConsumersOnly(t) ==
  /\ pc[t] = "notify"
  /\ IF op[t] = "write" THEN NotifyOne(t, "read", "unlock") ELSE Goto(t, "unlock")
  /\ ret' = [ret EXCEPT ![t] = TRUE]
  /\ UNCHANGED <<ring, is_close, mtx, op, val>>

Notify(t) ==
  /\ pc[t] = "notify"
  /\ NotifyOne(t, IF op[t] = "write" THEN "read" ELSE "write", "unlock")
  /\ ret' = [ret EXCEPT ![t] = TRUE]
  /\ UNCHANGED <<ring, is_close, mtx, op, val>>

(* A slip to rule out: clear() forgets one of the two positions.            *)
ClearReadPosition(t) ==
  /\ pc[t] = "body"
  /\ op[t] = "clear"
  /\ read_pos' = 0
  /\ Goto(t, "unlock")
  /\ UNCHANGED <<slots, write_pos, is_close, mtx, call>>

(* clear() moves both positions and notifies nobody. *)
Clear(t) ==
  /\ pc[t] = "body"
  /\ op[t] = "clear"
  /\ read_pos' = 0
  /\ write_pos' = 0
  /\ Goto(t, "unlock")
  /\ UNCHANGED <<slots, is_close, mtx, call>>

Close(t) ==
  /\ pc[t] = "body"
  /\ op[t] = "close"
  /\ is_close' = TRUE
  /\ Goto(t, "unlock")
  /\ UNCHANGED <<ring, mtx, call>>

Answer(o) == IF o = "empty" THEN Empty ELSE IF o = "full" THEN Full ELSE is_close

Query(t) ==
  /\ pc[t] = "body"
  /\ op[t] \in Queries
  /\ ret' = [ret EXCEPT ![t] = Answer(op[t])]
  /\ Goto(t, "unlock")
  /\ UNCHANGED <<ring, is_close, mtx, op, val>>

Unlock(t) ==
  /\ pc[t] = "unlock"
  /\ mtx' = NoThread
  /\ \/ /\ op[t] = "close"
        /\ Goto(t, "notify_producers")
        /\ UNCHANGED call
     \/ /\ op[t] # "close"
        /\ Goto(t, "idle")
        /\ EndCall(t)
  /\ UNCHANGED <<ring, is_close>>

NotifyProducers(t) ==
  /\ pc[t] = "notify_producers"
  /\ NotifyAll(t, "write", "notify_consumers")
  /\ UNCHANGED <<ring, is_close, mtx, call>>

(* A slip to rule out: _close() wakes one consumer.                         *)
NotifyOneConsumer(t) ==
  /\ pc[t] = "notify_consumers"
  /\ NotifyOne(t, "read", "idle")
  /\ EndCall(t)
  /\ UNCHANGED <<ring, is_close, mtx>>

NotifyConsumers(t) ==
  /\ pc[t] = "notify_consumers"
  /\ NotifyAll(t, "read", "idle")
  /\ EndCall(t)
  /\ UNCHANGED <<ring, is_close, mtx>>

Flush(t) ==
  /\ pc[t] = "flush"
  /\ NotifyOne(t, "read", "return")
  /\ UNCHANGED <<ring, is_close, mtx, call>>

Return(t) ==
  /\ pc[t] = "return"
  /\ Goto(t, "idle")
  /\ EndCall(t)
  /\ UNCHANGED <<ring, is_close, mtx>>

(* What t does inside a member function when it does not wait for the mutex. *)
Run(t) ==
  \/ Test(t) \/ Check(t)
  \/ CopyIn(t) \/ CopyOut(t) \/ AdvanceWrite(t) \/ AdvanceRead(t) \/ Notify(t)
  \/ Clear(t) \/ Close(t) \/ Query(t) \/ Unlock(t)
  \/ NotifyProducers(t) \/ NotifyConsumers(t) \/ Flush(t) \/ Return(t)

Step(t) == Lock(t) \/ Relock(t) \/ Run(t)

Next == \E t \in Threads : Call(t) \/ SpuriousWake(t) \/ Step(t)

Spec == Init /\ [][Next]_vars

(* A thread inside a member function keeps running, and one that keeps      *)
(* finding the mutex free gets it in the end.  Nobody has to call anything, *)
(* and no spurious wake-up can be counted on.                               *)
Fairness ==
  \A t \in Threads :
    WF_vars(Run(t)) /\ SF_vars(Lock(t) \/ Relock(t))

FairSpec == Spec /\ Fairness
-----------------------------------------------------------------------------
TypeOK ==
  /\ slots \in [Slots -> Values]
  /\ read_pos \in Slots
  /\ write_pos \in Slots
  /\ is_close \in BOOLEAN
  /\ mtx \in Threads \cup {NoThread}
  /\ pc \in [Threads -> Labels]
  /\ op \in [Threads -> Ops \cup {"none"}]
  /\ val \in [Threads -> Values]
  /\ ret \in [Threads -> BOOLEAN]

-----------------------------------------------------------------------------
(* The queue the buffer stands for. *)

(* How many steps of ++ lead from position r to position w. *)
Distance(r, w) == IF w >= r THEN w - r ELSE w - r + N

(* The values from r up to but not including w, in the order of ++. *)
Stored(s, r, w) == [i \in 1 .. Distance(r, w) |-> s[Wrap(r + i - 1)]]

Count == Distance(read_pos, write_pos)

Contents == Stored(slots, read_pos, write_pos)

(* A call has taken effect once its effect step is behind it. *)
Done(t) ==
  pc[t] \in {"notify", "unlock", "notify_producers", "notify_consumers", "return"}

Phase(t) == IF pc[t] = "idle" THEN "idle" ELSE IF Done(t) THEN "done" ELSE "pending"

(* A reader has loaded its result before the step in which it takes it. *)
Val(t) == IF op[t] = "read" /\ pc[t] = "advance" THEN Default ELSE val[t]

Ret(t) == IF pc[t] = "notify" THEN TRUE ELSE ret[t]

Queue == INSTANCE BoundedQueue WITH
  Capacity <- N - 1,
  items <- Contents,
  closed <- is_close,
  phase <- [t \in Threads |-> Phase(t)],
  val <- [t \in Threads |-> Val(t)],
  ret <- [t \in Threads |-> Ret(t)]

(* Every call of read(), write(), clear(), _close(), flush() and the       *)
(* queries behaves as one atomic operation on a first-in first-out queue   *)
(* that holds N - 1 values: nothing is lost, doubled, overtaken or         *)
(* overwritten, and only a closed buffer returns false.                    *)
IsBoundedQueue == Queue!Spec
-----------------------------------------------------------------------------
(* The inductive invariant behind the refinement. *)

(* A thread is between lock and unlock exactly when it owns the mutex, so   *)
(* two threads never are.                                                   *)
MutexInv == \A t \in Threads : pc[t] \in Holding <=> mtx = t

(* The member functions a label belongs to. *)
LabelInv == \A t \in Threads :
  /\ pc[t] = "idle" => op[t] = "none"
  /\ pc[t] \in {"lock", "unlock"} => op[t] \in Ops \ {"flush"}
  /\ pc[t] \in {"test", "wait", "relock", "check", "copy", "advance", "notify"}
       => op[t] \in Blocking
  /\ pc[t] = "body" => op[t] \in Queries \cup {"clear", "close"}
  /\ pc[t] \in {"notify_producers", "notify_consumers"} => op[t] = "close"
  /\ pc[t] \in {"flush", "return"} => op[t] = "flush"

(* What the loop condition excluded stays excluded until the position is    *)
(* advanced: nobody fills the last slot or takes the last value meanwhile.  *)
RoomInv == \A t \in Threads : pc[t] \in {"copy", "advance"} => ~Blocked(t)

(* The value on its way in is in the slot about to be published, the value  *)
(* on its way out is still the oldest.                                      *)
CopyInv == \A t \in Threads :
  pc[t] = "advance" =>
    val[t] = IF op[t] = "write" THEN slots[write_pos] ELSE slots[read_pos]

(* A reader that has loaded nothing yet. *)
ResultInv == \A t \in Threads :
  op[t] = "read" /\ pc[t] \in {"lock", "test", "wait", "relock", "check", "copy"}
    => val[t] = Default

IndInv == TypeOK /\ MutexInv /\ LabelInv /\ RoomInv /\ CopyInv /\ ResultInv

-----------------------------------------------------------------------------
(* Wake-ups. *)

(* The threads that have slept or may still sleep in o and now hold or want *)
(* the mutex: each of them will test the positions again.                   *)
Awake(o) == {t \in Threads :
  op[t] = o /\ pc[t] \in {"relock", "check", "test", "copy", "advance"}}

(* The threads whose o is done and whose notify_one() is still to come. *)
Notifying(o) == {t \in Threads : op[t] = o /\ pc[t] = "notify"}

(* No value is left for sleepers alone: while the buffer is open and a      *)
(* reader sleeps in consumer_, every value is matched by a reader that is   *)
(* awake or by a writer about to notify.  read() and write() must notify    *)
(* after every advance, the right condition variable, for this to hold.     *)
ReadersAreWoken ==
  ~is_close /\ Asleep("read") # {} =>
    Count <= Cardinality(Awake("read")) + Cardinality(Notifying("write"))

(* The same for free slots and writers asleep in producer_.  It is about    *)
(* programs that do not call clear(), which frees slots and wakes nobody.   *)
WritersAreWoken ==
  ~is_close /\ Asleep("write") # {} =>
    N - 1 - Count <= Cardinality(Awake("write")) + Cardinality(Notifying("read"))

(* A value in an open buffer with a reader asleep is read in the end, by    *)
(* that reader or by another.                                               *)
ValuesAreRead ==
  (~is_close /\ Asleep("read") # {} /\ ~Empty)
    ~> (is_close \/ Notifying("read") # {})

(* A free slot in an open buffer with a writer asleep is written in the end. *)
SlotsAreWritten ==
  (~is_close /\ Asleep("write") # {} /\ ~Full)
    ~> (is_close \/ Notifying("write") # {})

(* Every thread asleep in read() or write() when _close() sets is_close_    *)
(* leaves its call.                                                         *)
CloseReleasesSleepers ==
  \A t \in Threads :
    (pc[t] = "wait" /\ \E c \in Threads : op[c] = "close" /\ pc[c] = "unlock")
      ~> pc[t] = "idle"
=============================================================================
