----------------------------- MODULE BlockDeque -----------------------------
(***************************************************************************)
(* mfwu_webserver::BlockDeque: a deque of at most Capacity items behind    *)
(* one mutex and two condition variables, with a pop that gives up after a *)
(* while.                                                                  *)
(*                                                                         *)
(* Everything a member function does between locking mtx_ and releasing    *)
(* it, in its scope's end or in a wait, is one step here: deq_ and         *)
(* isClose_ are touched nowhere else, so no thread sees the middle of it.  *)
(* What happens outside the mutex (falling asleep excepted, which wait()   *)
(* does in the same step as the release) is a step of its own.             *)
(*                                                                         *)
(* pc[t] is where thread t stands:                                         *)
(*   idle     not inside a member function                                 *)
(*   lock     about to take the mutex for the first time                   *)
(*   wait     asleep on condProducer_ or condConsumer_                     *)
(*   woken    notified or woken spuriously, about to take the mutex again  *)
(*   late     timed out in wait_for(), about to take the mutex again       *)
(*   notify_producers, notify_consumers   the two notify_all() of Close()  *)
(*   flush    at the notify_one() of flush(), which takes no mutex         *)
(***************************************************************************)
EXTENDS Integers, Sequences, FiniteSets

CONSTANTS
  Threads,   (* the threads that share the deque                           *)
  Items,     (* T                                                          *)
  NoItem,    (* no argument                                                *)
  Capacity,  (* capacity_                                                  *)
  Program    (* Program[t]: the member functions thread t calls            *)

Pushes == {"push_back", "push_front"}
Pops == {"pop", "pop_timed"}
Queries == {"empty", "full", "front", "back"}
Ops == Pushes \cup Pops \cup Queries \cup {"clear", "Close", "flush"}

ASSUME CapacityAssumption == Capacity \in Nat \ {0}
ASSUME ItemsAssumption == NoItem \notin Items
ASSUME ThreadsAssumption == IsFiniteSet(Threads)
ASSUME ProgramAssumption == Program \in [Threads -> SUBSET Ops]

VARIABLES
  deq,       (* deq_                                                       *)
  isClose,   (* isClose_                                                   *)
  pc,        (* where each thread stands                                   *)
  op,        (* the member function it is in, "none" outside of any        *)
  item,      (* the argument of its push                                   *)
  unheard    (* history: the side a wake-up was due to and did not reach   *)

vars == <<deq, isClose, pc, op, item, unheard>>

Labels == {"idle", "lock", "wait", "woken", "late",
           "notify_producers", "notify_consumers", "flush"}

(* A slip to rule out: one item too many.                                   *)
FullTooLate == Len(deq) > Capacity

Full == Len(deq) >= Capacity

(* The loop condition of the push or pop t is in. *)
Blocked(t) == IF op[t] \in Pushes THEN Full ELSE deq = <<>>

(* The threads asleep on condProducer_ (O is Pushes) or condConsumer_ (Pops). *)
Asleep(O) == {t \in Threads : pc[t] = "wait" /\ op[t] \in O}

Goto(t, label) ==
  /\ pc' = [pc EXCEPT ![t] = label]
  /\ UNCHANGED <<op, item>>

(* t returns from its call, and the threads of W leave their wait. *)
ReturnWaking(t, W) ==
  /\ pc' = [s \in Threads |-> IF s = t THEN "idle" ELSE IF s \in W THEN "woken" ELSE pc[s]]
  /\ op' = [op EXCEPT ![t] = "none"]
  /\ item' = [item EXCEPT ![t] = NoItem]

Return(t) == ReturnWaking(t, {})

(* notify_one() to the sleepers of O, and return. *)
NotifyOneAndReturn(t, O) ==
  IF Asleep(O) = {} THEN Return(t) ELSE \E s \in Asleep(O) : ReturnWaking(t, {s})

-----------------------------------------------------------------------------
Init ==
  /\ deq = <<>>
  /\ isClose = FALSE
  /\ pc = [t \in Threads |-> "idle"]
  /\ op = [t \in Threads |-> "none"]
  /\ item = [t \in Threads |-> NoItem]
  /\ unheard = {}

(* t calls the member function o with the argument x. *)
Begin(t, o, x) ==
  /\ pc[t] = "idle"
  /\ pc' = [pc EXCEPT ![t] = IF o = "flush" THEN "flush" ELSE "lock"]
  /\ op' = [op EXCEPT ![t] = o]
  /\ item' = [item EXCEPT ![t] = x]
  /\ UNCHANGED <<deq, isClose, unheard>>

Call(t) ==
  \E o \in Program[t] : \E x \in IF o \in Pushes THEN Items ELSE {NoItem} : Begin(t, o, x)

(* t has the mutex in a push or pop, for the first time or after a wait. *)
Entered(t, O) == op[t] \in O /\ pc[t] \in {"lock", "woken"}

(* A slip to rule out: the isClose_ test forgotten after the wait.          *)
TurnedAwayLate(t) == op[t] \in Pops /\ pc[t] = "late"

(* A pop that timed out, or that was woken and finds the deque closed. *)
TurnedAway(t) ==
  op[t] \in Pops /\ (pc[t] = "late" \/ (pc[t] = "woken" /\ isClose))

(* A slip to rule out: a push that notifies the wrong condition variable.   *)
PushToProducers(t) ==
  /\ Entered(t, Pushes)
  /\ ~Blocked(t)
  /\ deq' = IF op[t] = "push_back" THEN Append(deq, item[t]) ELSE <<item[t]>> \o deq
  /\ NotifyOneAndReturn(t, Pushes)
  /\ UNCHANGED <<isClose, unheard>>

(* The producers' loop never looks at isClose_. *)
Push(t) ==
  /\ Entered(t, Pushes)
  /\ ~Blocked(t)
  /\ deq' = IF op[t] = "push_back" THEN Append(deq, item[t]) ELSE <<item[t]>> \o deq
  /\ NotifyOneAndReturn(t, Pops)
  /\ UNCHANGED <<isClose, unheard>>

(* A slip to rule out: a pop that notifies nobody.                          *)
PopQuietly(t, x) ==
  /\ Entered(t, Pops)
  /\ ~Blocked(t) /\ ~TurnedAway(t)
  /\ x = Head(deq)
  /\ deq' = Tail(deq)
  /\ Return(t)
  /\ UNCHANGED <<isClose, unheard>>

(* t pops x and returns true. *)
PopOf(t, x) ==
  /\ Entered(t, Pops)
  /\ ~Blocked(t) /\ ~TurnedAway(t)
  /\ x = Head(deq)
  /\ deq' = Tail(deq)
  /\ NotifyOneAndReturn(t, Pushes)
  /\ UNCHANGED <<isClose, unheard>>

Pop(t) == \E x \in Items : PopOf(t, x)

(* t returns false. *)
PopFails(t) ==
  /\ TurnedAway(t)
  /\ Return(t)
  /\ UNCHANGED <<deq, isClose, unheard>>

Wait(t) ==
  /\ Entered(t, Pushes \cup Pops)
  /\ Blocked(t) /\ ~TurnedAway(t)
  /\ Goto(t, "wait")
  /\ UNCHANGED <<deq, isClose, unheard>>

SpuriousWake(t) ==
  /\ pc[t] = "wait"
  /\ Goto(t, "woken")
  /\ UNCHANGED <<deq, isClose, unheard>>

(* A slip to rule out: a timeout that only goes round the loop again.       *)
TimeoutRetries(t) ==
  /\ pc[t] = "wait"
  /\ op[t] = "pop_timed"
  /\ Goto(t, "lock")
  /\ UNCHANGED <<deq, isClose, unheard>>

Timeout(t) ==
  /\ pc[t] = "wait"
  /\ op[t] = "pop_timed"
  /\ Goto(t, "late")
  /\ UNCHANGED <<deq, isClose, unheard>>

(* wait_for() reports a timeout to a thread that was notified in time and   *)
(* runs again after the deadline: the notification is spent on a failure.   *)
Expire(t) ==
  /\ pc[t] = "woken"
  /\ op[t] = "pop_timed"
  /\ Goto(t, "late")
  /\ unheard' = unheard \cup {"consumer"}
  /\ UNCHANGED <<deq, isClose>>

(* clear() makes room and tells no producer. *)
Clear(t) ==
  /\ op[t] = "clear" /\ pc[t] = "lock"
  /\ deq' = <<>>
  /\ unheard' = IF Asleep(Pushes) = {} THEN unheard ELSE unheard \cup {"producer"}
  /\ Return(t)
  /\ UNCHANGED isClose

(* size(), empty(), full(), front(), back(): what they return is what the   *)
(* deque holds at this step.                                                *)
Query(t) ==
  /\ op[t] \in Queries /\ pc[t] = "lock"
  /\ Return(t)
  /\ UNCHANGED <<deq, isClose, unheard>>

Close(t) ==
  /\ op[t] = "Close" /\ pc[t] = "lock"
  /\ deq' = <<>>
  /\ isClose' = TRUE
  /\ Goto(t, "notify_producers")
  /\ UNCHANGED unheard

NotifyProducers(t) ==
  /\ pc[t] = "notify_producers"
  /\ pc' = [s \in Threads |-> IF s = t THEN "notify_consumers"
                              ELSE IF s \in Asleep(Pushes) THEN "woken" ELSE pc[s]]
  /\ UNCHANGED <<deq, isClose, op, item, unheard>>

NotifyConsumers(t) ==
  /\ pc[t] = "notify_consumers"
  /\ ReturnWaking(t, Asleep(Pops))
  /\ UNCHANGED <<deq, isClose, unheard>>

(* flush() notifies without the mutex. *)
Flush(t) ==
  /\ pc[t] = "flush"
  /\ NotifyOneAndReturn(t, Pops)
  /\ UNCHANGED <<deq, isClose, unheard>>

(* The steps that need the mutex, and those that do not. *)
Locked(t) ==
  Push(t) \/ Pop(t) \/ PopFails(t) \/ Wait(t) \/ Clear(t) \/ Query(t) \/ Close(t)

Unlocked(t) == NotifyProducers(t) \/ NotifyConsumers(t) \/ Flush(t)

Next ==
  \E t \in Threads :
    Call(t) \/ Locked(t) \/ Unlocked(t) \/ SpuriousWake(t) \/ Timeout(t) \/ Expire(t)

Spec == Init /\ [][Next]_vars

(* The mutex is always released, so a thread that asks for it gets it.      *)
(* A wait_for() that nothing else ends times out.                           *)
Fairness ==
  \A t \in Threads : WF_vars(Locked(t)) /\ WF_vars(Unlocked(t)) /\ WF_vars(Timeout(t))

FairSpec == Spec /\ Fairness

-----------------------------------------------------------------------------
TypeOK ==
  /\ deq \in Seq(Items)
  /\ isClose \in BOOLEAN
  /\ pc \in [Threads -> Labels]
  /\ op \in [Threads -> Ops \cup {"none"}]
  /\ item \in [Threads -> Items \cup {NoItem}]
  /\ unheard \subseteq {"consumer", "producer"}

(* The member functions a label belongs to. *)
LabelInv == \A t \in Threads :
  /\ pc[t] = "idle" <=> op[t] = "none"
  /\ pc[t] \in {"wait", "woken"} => op[t] \in Pushes \cup Pops
  /\ pc[t] = "late" => op[t] = "pop_timed"
  /\ pc[t] \in {"notify_producers", "notify_consumers"} <=> op[t] = "Close" /\ pc[t] # "lock"
  /\ pc[t] = "flush" <=> op[t] = "flush"
  /\ op[t] \in Pushes <=> item[t] \in Items

(* push_back() and push_front() respect the capacity however many producers *)
(* are woken at once, by pops, by Close() or spuriously.                    *)
CapacityInv == Len(deq) <= Capacity

IndInv == TypeOK /\ LabelInv /\ CapacityInv

(* The threads in a call of O that will look at the deque again. *)
Coming(O) == {t \in Threads : op[t] \in O /\ pc[t] \in {"lock", "woken"}}

(* While the deque is open and a consumer sleeps, every item has a consumer *)
(* of its own on the way: no push goes unnoticed, whichever pops give up    *)
(* before they are notified or overtake the one that was.  A timed pop that *)
(* gives up after it was notified breaks the promise for good.              *)
ItemsAreComing ==
  ~isClose /\ "consumer" \notin unheard /\ Asleep(Pops) # {} =>
    Len(deq) <= Cardinality(Coming(Pops))

(* The same for room and producers, once Close() has notified them.  A      *)
(* clear() with producers asleep breaks the promise: it tells none of them. *)
RoomIsComing ==
  /\ "producer" \notin unheard
  /\ \A c \in Threads : pc[c] # "notify_producers"
  /\ Asleep(Pushes) # {}
  => Capacity - Len(deq) <= Cardinality(Coming(Pushes))

(* A consumer asleep when Close() sets isClose_ leaves its pop.             *)
CloseReleasesConsumers ==
  \A t \in Threads :
    (t \in Asleep(Pops) /\ \E c \in Threads : pc[c] = "notify_producers") ~> pc[t] = "idle"

(* A timed pop on a closed deque returns, even one that began after         *)
(* Close(), which nobody will notify.                                       *)
TimedPopLeavesClosed ==
  \A t \in Threads : (isClose /\ op[t] = "pop_timed") ~> pc[t] = "idle"
=============================================================================
