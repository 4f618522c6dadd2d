-------------------------- MODULE BlockDequeProofs --------------------------
(* Proofs about BlockDeque, for any threads, items, capacity and programs.  *)
EXTENDS BlockDeque, FiniteSetTheorems, SequenceTheorems, TLAPS

LEMMA Sides ==
  /\ Pushes \cap Pops = {}
  /\ "none" \notin Ops
  /\ Pushes \subseteq Ops /\ Pops \subseteq Ops
  /\ \A o \in {"clear", "Close", "flush", "none"} \cup Queries : o \notin Pushes \cup Pops
BY DEF Pushes, Pops, Queries, Ops

-----------------------------------------------------------------------------
(* The inductive invariant. *)

LEMMA InitInv == Init => IndInv
<1> SUFFICES ASSUME Init PROVE IndInv
  OBVIOUS
<1> USE DEF Init
<1>1. deq \in Seq(Items) /\ Len(deq) = 0
  BY EmptySeq
<1>2. TypeOK
  BY <1>1 DEF TypeOK, Labels
<1>3. LabelInv
  BY ItemsAssumption, Sides DEF LabelInv
<1>4. CapacityInv
  BY <1>1, CapacityAssumption DEF CapacityInv
<1>5. QED
  BY <1>2, <1>3, <1>4 DEF IndInv

(* How the three ways of returning move the threads. *)
LEMMA ReturnMoves ==
  ASSUME TypeOK, NEW t \in Threads, NEW W, ReturnWaking(t, W)
  PROVE  /\ pc' \in [Threads -> Labels]
         /\ op' \in [Threads -> Ops \cup {"none"}]
         /\ item' \in [Threads -> Items \cup {NoItem}]
         /\ pc'[t] = "idle" /\ op'[t] = "none" /\ item'[t] = NoItem
         /\ \A s \in Threads \ {t} :
              /\ pc'[s] = IF s \in W THEN "woken" ELSE pc[s]
              /\ op'[s] = op[s] /\ item'[s] = item[s]
BY DEF ReturnWaking, TypeOK, Labels

LEMMA ReturnLabels ==
  ASSUME TypeOK, LabelInv, NEW t \in Threads, NEW W, ReturnWaking(t, W),
         \A s \in W : s \in Threads /\ pc[s] = "wait"
  PROVE  LabelInv'
<1>1. \A s \in W : op[s] \in Pushes \cup Pops
  BY DEF LabelInv
<1>2. QED
  BY <1>1, ReturnMoves, Sides, ItemsAssumption DEF LabelInv, Queries

LEMMA NotifyOneLabels ==
  ASSUME TypeOK, LabelInv, NEW t \in Threads, NEW O, NotifyOneAndReturn(t, O)
  PROVE  /\ LabelInv'
         /\ pc' \in [Threads -> Labels]
         /\ op' \in [Threads -> Ops \cup {"none"}]
         /\ item' \in [Threads -> Items \cup {NoItem}]
<1>1. PICK W \in SUBSET Asleep(O) : ReturnWaking(t, W)
  BY DEF NotifyOneAndReturn, Return
<1>2. QED
  BY <1>1, ReturnMoves, ReturnLabels DEF Asleep

LEMMA PushDeque ==
  ASSUME IndInv, NEW t \in Threads, Push(t)
  PROVE  deq' \in Seq(Items) /\ Len(deq') = Len(deq) + 1 /\ Len(deq') <= Capacity
<1> USE DEF IndInv, TypeOK, LabelInv, CapacityInv
<1>1. item[t] \in Items /\ Len(deq) \in Nat /\ Len(deq) < Capacity
  BY CapacityAssumption, LenProperties DEF Push, Entered, Blocked, Full
<1>2. CASE op[t] = "push_back"
  BY <1>1, <1>2, AppendProperties, CapacityAssumption DEF Push
<1>3. CASE op[t] # "push_back"
  <2>1. deq' = <<item[t]>> \o deq /\ <<item[t]>> \in Seq(Items) /\ Len(<<item[t]>>) = 1
    BY <1>1, <1>3 DEF Push
  <2>2. QED
    BY <1>1, <2>1, ConcatProperties, CapacityAssumption
<1>4. QED
  BY <1>2, <1>3

LEMMA PopDeque ==
  ASSUME IndInv, NEW t \in Threads, Pop(t)
  PROVE  deq' \in Seq(Items) /\ Len(deq') = Len(deq) - 1 /\ Len(deq) \in Nat
<1>1. deq # <<>> /\ deq' = Tail(deq)
  BY Sides DEF Pop, PopOf, Blocked, Entered
<1>2. QED
  BY <1>1, HeadTailProperties, LenProperties DEF IndInv, TypeOK

LEMMA LockedInv == ASSUME IndInv, NEW t \in Threads, Locked(t) PROVE IndInv'
<1> USE DEF IndInv
<1>1. CASE Push(t)
  BY <1>1, PushDeque, NotifyOneLabels DEF Push, TypeOK, CapacityInv
<1>2. CASE Pop(t)
  <2>1. NotifyOneAndReturn(t, Pushes) /\ UNCHANGED <<isClose, unheard>>
    BY <1>2 DEF Pop, PopOf
  <2>2. QED
    BY <1>2, <2>1, PopDeque, NotifyOneLabels, CapacityAssumption DEF TypeOK, CapacityInv
<1>3. CASE PopFails(t) \/ Query(t)
  <2>1. ReturnWaking(t, {}) /\ UNCHANGED <<deq, isClose, unheard>>
    BY <1>3 DEF PopFails, Query, Return
  <2>2. QED
    BY <2>1, ReturnMoves, ReturnLabels DEF TypeOK, CapacityInv
<1>4. CASE Wait(t)
  BY <1>4, Sides DEF Wait, Goto, Entered, TypeOK, LabelInv, CapacityInv, Labels, Queries
<1>5. CASE Clear(t)
  <2>1. ReturnWaking(t, {}) /\ UNCHANGED isClose /\ deq' = <<>>
    BY <1>5 DEF Clear, Return
  <2>2. unheard' \subseteq {"consumer", "producer"}
    BY <1>5 DEF Clear, TypeOK
  <2>3. QED
    BY <2>1, <2>2, ReturnMoves, ReturnLabels, EmptySeq, CapacityAssumption DEF TypeOK, CapacityInv
<1>6. CASE Close(t)
  <2>1. deq' \in Seq(Items) /\ Len(deq') = 0
    BY <1>6, EmptySeq DEF Close
  <2>2. QED
    BY <1>6, <2>1, Sides, CapacityAssumption
       DEF Close, Goto, TypeOK, LabelInv, CapacityInv, Labels, Queries
<1>7. QED
  BY <1>1, <1>2, <1>3, <1>4, <1>5, <1>6 DEF Locked

LEMMA UnlockedInv == ASSUME IndInv, NEW t \in Threads, Unlocked(t) PROVE IndInv'
<1> USE DEF IndInv
<1>1. CASE NotifyProducers(t)
  BY <1>1, Sides DEF NotifyProducers, Asleep, TypeOK, LabelInv, CapacityInv, Labels
<1>2. CASE NotifyConsumers(t)
  BY <1>2, ReturnMoves, ReturnLabels DEF NotifyConsumers, Asleep, TypeOK, CapacityInv
<1>3. CASE Flush(t)
  BY <1>3, NotifyOneLabels DEF Flush, TypeOK, CapacityInv
<1>4. QED
  BY <1>1, <1>2, <1>3 DEF Unlocked

LEMMA TimedInv ==
  ASSUME IndInv, NEW t \in Threads, Call(t) \/ SpuriousWake(t) \/ Timeout(t) \/ Expire(t)
  PROVE  IndInv'
<1> USE DEF IndInv
<1>1. CASE Call(t)
  <2>1. PICK o \in Program[t], x \in Items \cup {NoItem} :
          Begin(t, o, x) /\ (o \in Pushes <=> x \in Items)
    BY <1>1, ItemsAssumption DEF Call
  <2>2. o \in Ops
    BY ProgramAssumption
  <2>3. QED
    BY <2>1, <2>2, Sides DEF Begin, TypeOK, LabelInv, CapacityInv, Labels
<1>2. CASE SpuriousWake(t)
  BY <1>2 DEF SpuriousWake, Goto, TypeOK, LabelInv, CapacityInv, Labels
<1>3. CASE Timeout(t)
  BY <1>3, Sides DEF Timeout, Goto, TypeOK, LabelInv, CapacityInv, Labels
<1>4. CASE Expire(t)
  BY <1>4, Sides DEF Expire, Goto, TypeOK, LabelInv, CapacityInv, Labels
<1>5. QED
  BY <1>1, <1>2, <1>3, <1>4

(* Every thread is where the call it makes can be, and the deque never      *)
(* holds more than its capacity.                                            *)
THEOREM Invariance == Spec => []IndInv
<1>1. IndInv /\ [Next]_vars => IndInv'
  <2> SUFFICES ASSUME IndInv, [Next]_vars PROVE IndInv'
    OBVIOUS
  <2>1. CASE UNCHANGED vars
    BY <2>1 DEF vars, IndInv, TypeOK, LabelInv, CapacityInv
  <2>2. QED
    BY <2>1, LockedInv, UnlockedInv, TimedInv DEF Next
<1>2. QED
  BY <1>1, InitInv, PTL DEF Spec

-----------------------------------------------------------------------------
(* No lost wake-up, for both sides at once. *)

(* What the calls of O take from the deque: items or room. *)
Supply(O) == IF O = Pops THEN Len(deq) ELSE Capacity - Len(deq)

Other(O) == IF O = Pops THEN Pushes ELSE Pops

(* Why the calls of O may sleep beside a supply. *)
Excused(O) ==
  IF O = Pops THEN isClose \/ "consumer" \in unheard
  ELSE "producer" \in unheard \/ \E c \in Threads : pc[c] = "notify_producers"

SupplyIsComing(O) ==
  ~Excused(O) /\ Asleep(O) # {} => Supply(O) <= Cardinality(Coming(O))

LEMMA ComingFinite ==
  ASSUME NEW O PROVE IsFiniteSet(Coming(O)) /\ Cardinality(Coming(O)) \in Nat
BY ThreadsAssumption, FS_Subset, FS_CardinalityType DEF Coming

LEMMA ComingFiniteNext ==
  ASSUME NEW O PROVE IsFiniteSet(Coming(O)') /\ Cardinality(Coming(O)') \in Nat
BY ThreadsAssumption, FS_Subset, FS_CardinalityType DEF Coming

LEMMA SupplyType ==
  ASSUME IndInv, NEW O \in {Pushes, Pops}
  PROVE  Supply(O) \in Nat /\ (O = Pushes => Supply(O) = Capacity - Len(deq))
<1>1. Len(deq) \in Nat /\ Len(deq) <= Capacity /\ Capacity \in Nat
  BY LenProperties, CapacityAssumption DEF IndInv, TypeOK, CapacityInv
<1>2. Pushes # Pops
  BY DEF Pushes, Pops
<1>3. QED
  BY <1>1, <1>2 DEF Supply

(* A step that takes nobody away and supplies nothing. *)
LEMMA Monotone ==
  ASSUME NEW O, SupplyIsComing(O),
         ~Excused(O)' => ~Excused(O), Supply(O)' = Supply(O),
         Asleep(O)' \subseteq Asleep(O), Coming(O) \subseteq Coming(O)', Supply(O) \in Nat
  PROVE  SupplyIsComing(O)'
<1>1. Cardinality(Coming(O)) <= Cardinality(Coming(O)')
  BY ComingFiniteNext, FS_Subset
<1>2. QED
  BY <1>1, ComingFinite, ComingFiniteNext DEF SupplyIsComing

(* A push or a pop, t, that notifies the other side. *)
LEMMA TransferComes ==
  ASSUME IndInv, NEW O \in {Pushes, Pops}, SupplyIsComing(O),
         NEW t \in Threads, Push(t) \/ Pop(t)
  PROVE  SupplyIsComing(O)'
<1> USE DEF IndInv, TypeOK
<1>1. PICK P \in {Pushes, Pops} :
        /\ op[t] \in P /\ pc[t] \in {"lock", "woken"} /\ NotifyOneAndReturn(t, Other(P))
        /\ P = Pushes <=> Push(t)
        /\ P = Pops <=> Pop(t)
  BY Sides DEF Push, Pop, PopOf, Entered, Other
<1>2. UNCHANGED <<isClose, unheard>>
  BY DEF Push, Pop, PopOf
<1>3. PICK W \in SUBSET Asleep(Other(P)) :
        /\ ReturnWaking(t, W)
        /\ W = {} => Asleep(Other(P)) = {}
        /\ W # {} => \E s \in Asleep(Other(P)) : W = {s}
  BY <1>1 DEF NotifyOneAndReturn, Return
<1>4. ~Excused(O)' => ~Excused(O)
  BY <1>1, <1>2, <1>3, ReturnMoves DEF Excused, Asleep
<1>5. Asleep(O)' \subseteq Asleep(O)
  BY <1>3, ReturnMoves, Sides DEF Asleep
<1>6. Supply(P)' = Supply(P) - 1 /\ Supply(Other(P))' = Supply(Other(P)) + 1
  <2>1. Pushes # Pops /\ Len(deq) \in Nat
    BY LenProperties DEF Pushes, Pops
  <2>2. CASE P = Pushes
    BY <1>1, <2>1, <2>2, PushDeque, CapacityAssumption DEF Supply, Other
  <2>3. CASE P = Pops
    BY <1>1, <2>1, <2>3, PopDeque, CapacityAssumption DEF Supply, Other
  <2>4. QED
    BY <2>2, <2>3
<1>7. CASE O = P
  <2>1. \A s \in W : op[s] \in Other(P) /\ op[s] \notin P
    BY <1>3, Sides DEF Asleep, Other
  <2>2. Coming(O)' = Coming(O) \ {t} /\ t \in Coming(O)
    BY <1>1, <1>3, <1>7, <2>1, ReturnMoves, Sides DEF Coming
  <2>3. Cardinality(Coming(O)') = Cardinality(Coming(O)) - 1
    BY <2>2, ComingFinite, FS_RemoveElement
  <2>4. QED
    BY <1>4, <1>5, <1>6, <1>7, <2>3, ComingFinite, SupplyType DEF SupplyIsComing
<1>8. CASE O = Other(P)
  <2>1. CASE W = {}
    <3>1. Asleep(O)' = {}
      BY <1>3, <1>5, <1>8, <2>1
    <3>2. QED
      BY <3>1 DEF SupplyIsComing
  <2>2. CASE W # {}
    <3>1. PICK s \in Asleep(O) : W = {s}
      BY <1>3, <1>8, <2>2
    <3>2. s \in Threads /\ s # t /\ op[s] \in O /\ op[t] \notin O
      BY <1>1, <1>8, <3>1, Sides DEF Asleep, Other
    <3>3. Coming(O)' = Coming(O) \cup {s} /\ s \notin Coming(O)
      BY <1>3, <3>1, <3>2, ReturnMoves, Sides DEF Coming, Asleep
    <3>4. Cardinality(Coming(O)') = Cardinality(Coming(O)) + 1
      BY <3>3, ComingFinite, FS_AddElement
    <3>5. QED
      BY <1>4, <1>5, <1>6, <1>8, <3>1, <3>4, ComingFinite, SupplyType DEF SupplyIsComing
  <2>3. QED
    BY <2>1, <2>2
<1>9. QED
  BY <1>7, <1>8 DEF Other

(* Only a call that finds no supply falls asleep. *)
LEMMA WaitComes ==
  ASSUME IndInv, NEW O \in {Pushes, Pops}, SupplyIsComing(O), NEW t \in Threads, Wait(t)
  PROVE  SupplyIsComing(O)'
<1> USE DEF IndInv, TypeOK
<1>1. Supply(O)' = Supply(O) /\ op' = op
  BY DEF Wait, Goto, Supply
<1>2. CASE op[t] \in O
  <2>1. Supply(O) = 0
    <3>1. Len(deq) \in Nat /\ Len(deq) <= Capacity /\ (deq = <<>> => Len(deq) = 0)
      BY LenProperties, EmptySeq DEF CapacityInv
    <3>2. QED
      BY <1>2, <3>1, Sides, CapacityAssumption DEF Wait, Blocked, Full, Supply
  <2>2. QED
    BY <1>1, <2>1, ComingFiniteNext DEF SupplyIsComing
<1>3. CASE op[t] \notin O
  <2>1. Asleep(O)' = Asleep(O) /\ Coming(O)' = Coming(O)
    BY <1>1, <1>3 DEF Wait, Goto, Asleep, Coming
  <2>2. ~Excused(O)' => ~Excused(O)
    BY DEF Wait, Goto, Excused, Entered
  <2>3. QED
    BY <1>1, <2>1, <2>2 DEF SupplyIsComing
<1>4. QED
  BY <1>2, <1>3

LEMMA ClearComes ==
  ASSUME IndInv, NEW O \in {Pushes, Pops}, NEW t \in Threads, Clear(t) \/ Close(t)
  PROVE  SupplyIsComing(O)'
<1> USE DEF IndInv, TypeOK
<1>1. Supply(Pops)' = 0
  BY EmptySeq DEF Clear, Close, Supply
<1>2. CASE O = Pops
  BY <1>1, <1>2, ComingFiniteNext DEF SupplyIsComing
<1>3. CASE O = Pushes /\ Clear(t)
  <2>1. CASE Asleep(Pushes) = {}
    BY <1>3, <2>1, ReturnMoves DEF Clear, Return, Asleep, SupplyIsComing
  <2>2. CASE Asleep(Pushes) # {}
    BY <1>3, <2>2 DEF Clear, Excused, SupplyIsComing, Pushes, Pops
  <2>3. QED
    BY <2>1, <2>2
<1>4. CASE O = Pushes /\ Close(t)
  BY <1>4 DEF Close, Goto, Excused, SupplyIsComing, Pushes, Pops
<1>5. QED
  BY <1>2, <1>3, <1>4

LEMMA NotifyAllComes ==
  ASSUME IndInv, NEW O \in {Pushes, Pops}, SupplyIsComing(O), NEW t \in Threads,
         NotifyProducers(t) \/ NotifyConsumers(t)
  PROVE  SupplyIsComing(O)'
<1> USE DEF IndInv, TypeOK
<1>1. op[t] = "Close" /\ op[t] \notin Pushes \cup Pops
  BY Sides DEF NotifyProducers, NotifyConsumers, LabelInv
<1>2. CASE NotifyProducers(t) /\ O = Pushes
  <2>1. Asleep(O)' = {}
    BY <1>2, Sides DEF NotifyProducers, Asleep
  <2>2. QED
    BY <2>1 DEF SupplyIsComing
<1>3. CASE NotifyProducers(t) /\ O = Pops
  <2>1. Asleep(O)' = Asleep(O) /\ Coming(O)' = Coming(O)
    BY <1>1, <1>3, Sides DEF NotifyProducers, Asleep, Coming
  <2>2. QED
    BY <1>3, <2>1 DEF NotifyProducers, SupplyIsComing, Supply, Excused
<1>4. CASE NotifyConsumers(t) /\ O = Pops
  <2>1. Asleep(O)' = {}
    BY <1>1, <1>4, ReturnMoves DEF NotifyConsumers, Asleep
  <2>2. QED
    BY <2>1 DEF SupplyIsComing
<1>5. CASE NotifyConsumers(t) /\ O = Pushes
  <2>1. Asleep(O)' = Asleep(O) /\ Coming(O)' = Coming(O)
    BY <1>1, <1>5, ReturnMoves, Sides DEF NotifyConsumers, Asleep, Coming
  <2>2. ~Excused(O)' => ~Excused(O)
    BY <1>5, ReturnMoves DEF NotifyConsumers, Asleep, Excused
  <2>3. QED
    BY <1>5, <2>1, <2>2 DEF NotifyConsumers, SupplyIsComing, Supply
<1>6. QED
  BY <1>2, <1>3, <1>4, <1>5

(* A pop gives up late or on a closed deque, a query returns, flush()       *)
(* notifies one consumer.                                                   *)
LEMMA LeaveComes ==
  ASSUME IndInv, NEW O \in {Pushes, Pops}, SupplyIsComing(O), NEW t \in Threads,
         PopFails(t) \/ Query(t) \/ Flush(t)
  PROVE  SupplyIsComing(O)'
<1> USE DEF IndInv, TypeOK
<1>1. PICK W \in SUBSET Asleep(Pops) : ReturnWaking(t, W)
  BY DEF PopFails, Query, Flush, Return, NotifyOneAndReturn
<1>2. Supply(O)' = Supply(O) /\ UNCHANGED <<isClose, unheard>>
  BY DEF PopFails, Query, Flush, Supply
<1>3. Asleep(O)' \subseteq Asleep(O)
  BY <1>1, ReturnMoves, Sides DEF Asleep
<1>4. ~Excused(O)' => ~Excused(O)
  <2>1. pc[t] # "notify_producers"
    BY DEF PopFails, TurnedAway, Query, Flush
  <2>2. QED
    BY <1>1, <1>2, <2>1, ReturnMoves DEF Excused, Asleep
<1>5. t \in Coming(O) => O = Pops /\ isClose
  BY Sides DEF PopFails, TurnedAway, Query, Flush, Coming, LabelInv
<1>6. CASE t \in Coming(O)
  BY <1>2, <1>5, <1>6 DEF Excused, SupplyIsComing
<1>7. CASE t \notin Coming(O)
  <2>1. Coming(O) \subseteq Coming(O)'
    BY <1>1, <1>7, ReturnMoves DEF Coming
  <2>2. QED
    BY <1>2, <1>3, <1>4, <2>1, SupplyType, Monotone
<1>8. QED
  BY <1>6, <1>7

LEMMA TimedComes ==
  ASSUME IndInv, NEW O \in {Pushes, Pops}, SupplyIsComing(O), NEW t \in Threads,
         Call(t) \/ SpuriousWake(t) \/ Timeout(t) \/ Expire(t)
  PROVE  SupplyIsComing(O)'
<1> USE DEF IndInv, TypeOK
<1>1. CASE Expire(t) /\ O = Pops
  BY <1>1 DEF Expire, Excused, SupplyIsComing
<1>2. CASE ~(Expire(t) /\ O = Pops)
  <2>1. Supply(O)' = Supply(O)
    BY DEF Call, Begin, SpuriousWake, Timeout, Expire, Supply
  <2>2. \A s \in Threads \ {t} : pc'[s] = pc[s] /\ op'[s] = op[s]
    BY DEF Call, Begin, SpuriousWake, Timeout, Expire, Goto
  <2>3. pc'[t] \notin {"wait", "notify_producers"} /\ pc[t] # "notify_producers"
    BY DEF Call, Begin, SpuriousWake, Timeout, Expire, Goto
  <2>4. isClose' = isClose /\ (O = Pops => unheard' = unheard) /\
        ("producer" \in unheard' <=> "producer" \in unheard)
    BY <1>2 DEF Call, Begin, SpuriousWake, Timeout, Expire
  <2>5. t \notin Coming(O)
    BY <1>2, Sides DEF Call, Begin, SpuriousWake, Timeout, Expire, Coming, LabelInv, Pushes, Pops
  <2>6. Asleep(O)' \subseteq Asleep(O)
    BY <2>2, <2>3 DEF Asleep
  <2>7. Coming(O) \subseteq Coming(O)'
    BY <2>2, <2>5 DEF Coming
  <2>8. ~Excused(O)' => ~Excused(O)
    BY <2>2, <2>3, <2>4 DEF Excused
  <2>9. QED
    BY <2>1, <2>6, <2>7, <2>8, SupplyType, Monotone
<1>3. QED
  BY <1>1, <1>2

LEMMA SupplyIsComingInv ==
  ASSUME NEW O \in {Pushes, Pops}
  PROVE  /\ Init => SupplyIsComing(O)
         /\ IndInv /\ SupplyIsComing(O) /\ [Next]_vars => SupplyIsComing(O)'
<1>1. Init => SupplyIsComing(O)
  BY DEF Init, SupplyIsComing, Asleep
<1>2. ASSUME IndInv, SupplyIsComing(O), [Next]_vars PROVE SupplyIsComing(O)'
  <2>1. CASE UNCHANGED vars
    <3>1. /\ Supply(O)' = Supply(O) /\ Asleep(O)' = Asleep(O)
          /\ Coming(O)' = Coming(O) /\ (Excused(O)' <=> Excused(O))
      BY <2>1 DEF vars, Supply, Excused, Asleep, Coming
    <3>2. QED
      BY <1>2, <3>1 DEF SupplyIsComing
  <2>2. QED
    BY <1>2, <2>1, TransferComes, WaitComes, ClearComes, NotifyAllComes, LeaveComes, TimedComes
       DEF Next, Locked, Unlocked
<1>3. QED
  BY <1>1, <1>2

(* Every item has a consumer of its own on the way whenever another sleeps  *)
(* at an open deque and no timed pop has wasted a notification.             *)
THEOREM ConsumersAreTold == Spec => []ItemsAreComing
<1>1. SupplyIsComing(Pops) => ItemsAreComing
  BY DEF SupplyIsComing, ItemsAreComing, Excused, Supply
<1>2. Init => SupplyIsComing(Pops)
  BY SupplyIsComingInv
<1>3. IndInv /\ SupplyIsComing(Pops) /\ [Next]_vars => SupplyIsComing(Pops)'
  BY SupplyIsComingInv
<1>4. QED
  BY <1>1, <1>2, <1>3, Invariance, PTL DEF Spec

(* The same for room and producers, until clear() takes their items away    *)
(* unannounced.                                                             *)
THEOREM ProducersAreTold == Spec => []RoomIsComing
<1>1. SupplyIsComing(Pushes) => RoomIsComing
  BY DEF SupplyIsComing, RoomIsComing, Excused, Supply, Pushes, Pops
<1>2. Init => SupplyIsComing(Pushes)
  BY SupplyIsComingInv
<1>3. IndInv /\ SupplyIsComing(Pushes) /\ [Next]_vars => SupplyIsComing(Pushes)'
  BY SupplyIsComingInv
<1>4. QED
  BY <1>1, <1>2, <1>3, Invariance, PTL DEF Spec
=============================================================================
