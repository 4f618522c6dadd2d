--------------------- MODULE RingbufferWithMutexProofs ---------------------
(***************************************************************************)
(* Proofs about RingbufferWithMutex, for every set of threads, every       *)
(* program, every value type and every number of slots:                    *)
(*   - TypeCorrect, the inductive invariant and mutual exclusion;          *)
(*   - the algebra of positions: what Append and Tail do to the contents;  *)
(*   - Spec implements the specification of BoundedQueue;                  *)
(*   - no wake-up is lost.                                                 *)
(* Then about SafeRbfTest, for any producers, consumers, records and       *)
(* slots: the unit test keeps to a program of the buffer, so the buffer's  *)
(* invariant and its queue are there to build on, and no record is lost or *)
(* doubled on its way.                                                     *)
(***************************************************************************)
EXTENDS SafeRbfTest, FiniteSetTheorems, SequenceTheorems, TLAPS

-----------------------------------------------------------------------------
(* The type invariant. *)

LEMMA InitType == Init => TypeOK
<1> SUFFICES ASSUME Init PROVE TypeOK
  OBVIOUS
<1>1. 0 \in Slots
  BY SlotsAssumption DEF Slots
<1>2. QED
  BY <1>1, ValuesAssumption DEF Init, TypeOK, Labels

(* The new position of ++ is a slot again. *)
LEMMA SuccType == ASSUME NEW i \in Slots PROVE Succ(i) \in Slots
BY SlotsAssumption DEF Slots, Succ, Wrap

LEMMA CallType == ASSUME TypeOK, NEW t \in Threads, Call(t) PROVE TypeOK'
<1>1. PICK o \in Program[t] :
        /\ op' = [op EXCEPT ![t] = o]
        /\ Goto(t, IF o = "flush" THEN "flush" ELSE "lock")
        /\ \E v \in IF o = "write" THEN Values ELSE {Default} :
             val' = [val EXCEPT ![t] = v]
  BY DEF Call, Begin
<1>2. o \in Ops
  BY ThreadsAssumption
<1>3. val' \in [Threads -> Values]
  BY <1>1, ValuesAssumption DEF TypeOK
<1>4. QED
  BY <1>1, <1>2, <1>3 DEF TypeOK, Call, Begin, Goto, ring, Labels

LEMMA NotifyAllType ==
  ASSUME TypeOK, NEW t \in Threads, NotifyProducers(t) \/ NotifyConsumers(t)
  PROVE  TypeOK'
<1>1. pc' \in [Threads -> Labels]
  BY DEF TypeOK, NotifyProducers, NotifyConsumers, NotifyAll, Labels
<1>2. op' \in [Threads -> Ops \cup {"none"}] /\ val' \in [Threads -> Values]
  BY ValuesAssumption DEF TypeOK, NotifyProducers, NotifyConsumers, call, EndCall
<1>3. QED
  BY <1>1, <1>2 DEF TypeOK, NotifyProducers, NotifyConsumers, call, EndCall, ring

LEMMA NextType == TypeOK /\ [Next]_vars => TypeOK'
<1> SUFFICES ASSUME TypeOK, [Next]_vars PROVE TypeOK'
  OBVIOUS
<1> USE DEF TypeOK, Labels, Goto, ring, call
<1>1. CASE UNCHANGED vars
  BY <1>1 DEF vars
<1>2. ASSUME NEW t \in Threads, SpuriousWake(t) PROVE TypeOK'
  BY <1>2 DEF SpuriousWake
<1>3. ASSUME NEW t \in Threads, Lock(t) PROVE TypeOK'
  BY <1>3 DEF Lock
<1>4. ASSUME NEW t \in Threads, Relock(t) PROVE TypeOK'
  BY <1>4 DEF Relock
<1>5. ASSUME NEW t \in Threads, Test(t) PROVE TypeOK'
  BY <1>5 DEF Test
<1>6. ASSUME NEW t \in Threads, Check(t) PROVE TypeOK'
  BY <1>6 DEF Check
<1>7. ASSUME NEW t \in Threads, CopyIn(t) PROVE TypeOK'
  BY <1>7 DEF CopyIn
<1>8. ASSUME NEW t \in Threads, CopyOut(t) PROVE TypeOK'
  BY <1>8 DEF CopyOut
<1>9. ASSUME NEW t \in Threads, AdvanceWrite(t) PROVE TypeOK'
  BY <1>9, SuccType DEF AdvanceWrite
<1>10. ASSUME NEW t \in Threads, AdvanceRead(t) PROVE TypeOK'
  BY <1>10, SuccType DEF AdvanceRead
<1>11. ASSUME NEW t \in Threads, Notify(t) PROVE TypeOK'
  BY <1>11 DEF Notify, NotifyOne, Asleep
<1>12. ASSUME NEW t \in Threads, Flush(t) PROVE TypeOK'
  BY <1>12 DEF Flush, NotifyOne, Asleep
<1>13. ASSUME NEW t \in Threads, Clear(t) PROVE TypeOK'
  <2>1. 0 \in Slots
    BY SlotsAssumption DEF Slots
  <2>2. QED
    BY <2>1, <1>13 DEF Clear
<1>14. ASSUME NEW t \in Threads, Close(t) PROVE TypeOK'
  BY <1>14 DEF Close
<1>15. ASSUME NEW t \in Threads, Query(t) PROVE TypeOK'
  BY <1>15 DEF Query, Answer, Empty, Full
<1>16. ASSUME NEW t \in Threads, Unlock(t) PROVE TypeOK'
  BY <1>16, ValuesAssumption DEF Unlock, EndCall
<1>17. ASSUME NEW t \in Threads, Return(t) PROVE TypeOK'
  BY <1>17, ValuesAssumption DEF Return, EndCall
<1>18. QED
  BY <1>1, <1>2, <1>3, <1>4, <1>5, <1>6, <1>7, <1>8, <1>9, <1>10, <1>11,
     <1>12, <1>13, <1>14, <1>15, <1>16, <1>17, CallType, NotifyAllType
     DEF Next, Step, Run

(* Positions stay inside the ring, and every variable keeps its type. *)
THEOREM TypeCorrect == Spec => []TypeOK
<1>1. QED
  BY InitType, NextType, PTL DEF Spec

-----------------------------------------------------------------------------
(* The inductive invariant. *)

LEMMA MutexStep == TypeOK /\ MutexInv /\ [Next]_vars => MutexInv'
<1> SUFFICES ASSUME TypeOK, MutexInv, [Next]_vars PROVE MutexInv'
  OBVIOUS
<1> USE ThreadsAssumption DEF TypeOK, MutexInv, Holding, Goto
<1>1. CASE UNCHANGED vars
  BY <1>1 DEF vars
<1>2. ASSUME NEW t \in Threads, Call(t) PROVE MutexInv'
  BY <1>2 DEF Call, Begin
<1>3. ASSUME NEW t \in Threads, SpuriousWake(t) PROVE MutexInv'
  BY <1>3 DEF SpuriousWake
<1>4. ASSUME NEW t \in Threads, Lock(t) \/ Relock(t) PROVE MutexInv'
  BY <1>4 DEF Lock, Relock
<1>5. ASSUME NEW t \in Threads, Test(t) \/ Check(t) PROVE MutexInv'
  BY <1>5 DEF Test, Check
<1>6. ASSUME NEW t \in Threads, CopyIn(t) \/ CopyOut(t) PROVE MutexInv'
  BY <1>6 DEF CopyIn, CopyOut
<1>7. ASSUME NEW t \in Threads, AdvanceWrite(t) \/ AdvanceRead(t) PROVE MutexInv'
  BY <1>7 DEF AdvanceWrite, AdvanceRead
<1>8. ASSUME NEW t \in Threads, Notify(t) \/ Flush(t) PROVE MutexInv'
  BY <1>8 DEF Notify, Flush, NotifyOne, Asleep
<1>9. ASSUME NEW t \in Threads, NotifyProducers(t) \/ NotifyConsumers(t) PROVE MutexInv'
  BY <1>9 DEF NotifyProducers, NotifyConsumers, NotifyAll, Asleep
<1>10. ASSUME NEW t \in Threads, Clear(t) \/ Close(t) \/ Query(t) PROVE MutexInv'
  BY <1>10 DEF Clear, Close, Query
<1>11. ASSUME NEW t \in Threads, Unlock(t) \/ Return(t) PROVE MutexInv'
  BY <1>11 DEF Unlock, Return
<1>12. QED
  BY <1>1, <1>2, <1>3, <1>4, <1>5, <1>6, <1>7, <1>8, <1>9, <1>10, <1>11
     DEF Next, Step, Run

LEMMA LabelStep == TypeOK /\ LabelInv /\ [Next]_vars => LabelInv'
<1> SUFFICES ASSUME TypeOK, LabelInv, [Next]_vars PROVE LabelInv'
  OBVIOUS
<1> USE DEF TypeOK, LabelInv, Goto, Blocking, Queries, Ops, call, EndCall
<1>1. CASE UNCHANGED vars
  BY <1>1 DEF vars
<1>2. ASSUME NEW t \in Threads, Call(t) PROVE LabelInv'
  <2>1. PICK o \in Program[t] :
          /\ op' = [op EXCEPT ![t] = o]
          /\ pc' = [pc EXCEPT ![t] = IF o = "flush" THEN "flush" ELSE "lock"]
    BY <1>2 DEF Call, Begin
  <2>2. o \in Ops
    BY ThreadsAssumption DEF Ops
  <2>3. QED
    BY <2>1, <2>2
<1>3. ASSUME NEW t \in Threads, SpuriousWake(t) PROVE LabelInv'
  BY <1>3 DEF SpuriousWake
<1>4. ASSUME NEW t \in Threads, Lock(t) \/ Relock(t) PROVE LabelInv'
  BY <1>4 DEF Lock, Relock
<1>5. ASSUME NEW t \in Threads, Test(t) \/ Check(t) PROVE LabelInv'
  BY <1>5 DEF Test, Check
<1>6. ASSUME NEW t \in Threads, CopyIn(t) \/ CopyOut(t) PROVE LabelInv'
  BY <1>6 DEF CopyIn, CopyOut
<1>7. ASSUME NEW t \in Threads, AdvanceWrite(t) \/ AdvanceRead(t) PROVE LabelInv'
  BY <1>7 DEF AdvanceWrite, AdvanceRead
<1>8. ASSUME NEW t \in Threads, Notify(t) \/ Flush(t) PROVE LabelInv'
  BY <1>8 DEF Notify, Flush, NotifyOne, Asleep
<1>9. ASSUME NEW t \in Threads, NotifyProducers(t) \/ NotifyConsumers(t) PROVE LabelInv'
  BY <1>9 DEF NotifyProducers, NotifyConsumers, NotifyAll, Asleep
<1>10. ASSUME NEW t \in Threads, Clear(t) \/ Close(t) \/ Query(t) PROVE LabelInv'
  BY <1>10 DEF Clear, Close, Query
<1>11. ASSUME NEW t \in Threads, Unlock(t) \/ Return(t) PROVE LabelInv'
  BY <1>11 DEF Unlock, Return
<1>12. QED
  BY <1>1, <1>2, <1>3, <1>4, <1>5, <1>6, <1>7, <1>8, <1>9, <1>10, <1>11
     DEF Next, Step, Run

LEMMA OneHolder ==
  ASSUME MutexInv, NEW t \in Threads, NEW s \in Threads,
         pc[t] \in Holding, pc[s] \in Holding
  PROVE  s = t
BY DEF MutexInv

LEMMA RoomStep == TypeOK /\ MutexInv /\ LabelInv /\ RoomInv /\ [Next]_vars => RoomInv'
<1> SUFFICES ASSUME TypeOK, MutexInv, LabelInv, RoomInv, [Next]_vars,
                    NEW s \in Threads, pc'[s] \in {"copy", "advance"}
             PROVE  ~Blocked(s)'
  BY DEF RoomInv
<1> USE DEF TypeOK, RoomInv, Goto, Blocked, Empty, Full, ring, call
<1>1. CASE UNCHANGED vars
  BY <1>1 DEF vars
<1>2. ASSUME NEW t \in Threads, Call(t) PROVE ~Blocked(s)'
  BY <1>2 DEF Call, Begin
<1>3. ASSUME NEW t \in Threads, SpuriousWake(t) PROVE ~Blocked(s)'
  BY <1>3 DEF SpuriousWake
<1>4. ASSUME NEW t \in Threads, Lock(t) \/ Relock(t) PROVE ~Blocked(s)'
  BY <1>4 DEF Lock, Relock
<1>5. ASSUME NEW t \in Threads, Test(t) \/ Check(t) PROVE ~Blocked(s)'
  BY <1>5 DEF Test, Check
<1>6. ASSUME NEW t \in Threads, CopyIn(t) \/ CopyOut(t) PROVE ~Blocked(s)'
  BY <1>6 DEF CopyIn, CopyOut
<1>7. ASSUME NEW t \in Threads, AdvanceWrite(t) \/ AdvanceRead(t) PROVE ~Blocked(s)'
  BY <1>7, OneHolder DEF AdvanceWrite, AdvanceRead, Holding
<1>8. ASSUME NEW t \in Threads, Notify(t) \/ Flush(t) PROVE ~Blocked(s)'
  BY <1>8 DEF Notify, Flush, NotifyOne, Asleep
<1>9. ASSUME NEW t \in Threads, NotifyProducers(t) \/ NotifyConsumers(t)
      PROVE  ~Blocked(s)'
  BY <1>9 DEF NotifyProducers, NotifyConsumers, NotifyAll, Asleep, EndCall
<1>10. ASSUME NEW t \in Threads, Clear(t) \/ Close(t) \/ Query(t) PROVE ~Blocked(s)'
  BY <1>10, OneHolder DEF Clear, Close, Query, Holding
<1>11. ASSUME NEW t \in Threads, Unlock(t) \/ Return(t) PROVE ~Blocked(s)'
  BY <1>11 DEF Unlock, Return, EndCall
<1>12. QED
  BY <1>1, <1>2, <1>3, <1>4, <1>5, <1>6, <1>7, <1>8, <1>9, <1>10, <1>11
     DEF Next, Step, Run

LEMMA CopyStep == TypeOK /\ MutexInv /\ LabelInv /\ CopyInv /\ [Next]_vars => CopyInv'
<1> SUFFICES ASSUME TypeOK, MutexInv, LabelInv, CopyInv, [Next]_vars,
                    NEW s \in Threads, pc'[s] = "advance"
             PROVE  val'[s] = IF op'[s] = "write" THEN slots'[write_pos'] ELSE slots'[read_pos']
  BY DEF CopyInv
<1> DEFINE Goal == val'[s] = IF op'[s] = "write" THEN slots'[write_pos'] ELSE slots'[read_pos']
<1> USE DEF TypeOK, CopyInv, Goto, ring, call
<1>1. CASE UNCHANGED vars
  BY <1>1 DEF vars
<1>2. ASSUME NEW t \in Threads, Call(t) PROVE Goal
  BY <1>2 DEF Call, Begin
<1>3. ASSUME NEW t \in Threads, SpuriousWake(t) PROVE Goal
  BY <1>3 DEF SpuriousWake
<1>4. ASSUME NEW t \in Threads, Lock(t) \/ Relock(t) PROVE Goal
  BY <1>4 DEF Lock, Relock
<1>5. ASSUME NEW t \in Threads, Test(t) \/ Check(t) PROVE Goal
  BY <1>5 DEF Test, Check
<1>6. ASSUME NEW t \in Threads, CopyIn(t) \/ CopyOut(t) PROVE Goal
  BY <1>6, OneHolder DEF CopyIn, CopyOut, Holding
<1>7. ASSUME NEW t \in Threads, AdvanceWrite(t) \/ AdvanceRead(t) PROVE Goal
  BY <1>7, OneHolder DEF AdvanceWrite, AdvanceRead, Holding
<1>8. ASSUME NEW t \in Threads, Notify(t) \/ Flush(t) PROVE Goal
  BY <1>8 DEF Notify, Flush, NotifyOne, Asleep
<1>9. ASSUME NEW t \in Threads, NotifyProducers(t) \/ NotifyConsumers(t) PROVE Goal
  BY <1>9 DEF NotifyProducers, NotifyConsumers, NotifyAll, Asleep, EndCall
<1>10. ASSUME NEW t \in Threads, Clear(t) \/ Close(t) \/ Query(t) PROVE Goal
  BY <1>10, OneHolder DEF Clear, Close, Query, Holding
<1>11. ASSUME NEW t \in Threads, Unlock(t) \/ Return(t) PROVE Goal
  BY <1>11 DEF Unlock, Return, EndCall
<1>12. QED
  BY <1>1, <1>2, <1>3, <1>4, <1>5, <1>6, <1>7, <1>8, <1>9, <1>10, <1>11
     DEF Next, Step, Run

LEMMA ResultStep == TypeOK /\ LabelInv /\ ResultInv /\ [Next]_vars => ResultInv'
<1> SUFFICES ASSUME TypeOK, LabelInv, ResultInv, [Next]_vars PROVE ResultInv'
  OBVIOUS
<1> USE DEF TypeOK, ResultInv, Goto, ring, call
<1>1. CASE UNCHANGED vars
  BY <1>1 DEF vars
<1>2. ASSUME NEW t \in Threads, Call(t) PROVE ResultInv'
  BY <1>2 DEF Call, Begin
<1>3. ASSUME NEW t \in Threads, SpuriousWake(t) PROVE ResultInv'
  BY <1>3 DEF SpuriousWake
<1>4. ASSUME NEW t \in Threads, Lock(t) \/ Relock(t) PROVE ResultInv'
  BY <1>4 DEF Lock, Relock
<1>5. ASSUME NEW t \in Threads, Test(t) \/ Check(t) PROVE ResultInv'
  BY <1>5 DEF Test, Check
<1>6. ASSUME NEW t \in Threads, CopyIn(t) \/ CopyOut(t) PROVE ResultInv'
  BY <1>6 DEF CopyIn, CopyOut
<1>7. ASSUME NEW t \in Threads, AdvanceWrite(t) \/ AdvanceRead(t) PROVE ResultInv'
  BY <1>7 DEF AdvanceWrite, AdvanceRead
<1>8. ASSUME NEW t \in Threads, Notify(t) \/ Flush(t) PROVE ResultInv'
  BY <1>8 DEF Notify, Flush, NotifyOne, Asleep
<1>9. ASSUME NEW t \in Threads, NotifyProducers(t) \/ NotifyConsumers(t)
      PROVE  ResultInv'
  BY <1>9 DEF NotifyProducers, NotifyConsumers, NotifyAll, Asleep, EndCall
<1>10. ASSUME NEW t \in Threads, Clear(t) \/ Close(t) \/ Query(t) PROVE ResultInv'
  BY <1>10 DEF Clear, Close, Query
<1>11. ASSUME NEW t \in Threads, Unlock(t) \/ Return(t) PROVE ResultInv'
  BY <1>11 DEF Unlock, Return, EndCall
<1>12. QED
  BY <1>1, <1>2, <1>3, <1>4, <1>5, <1>6, <1>7, <1>8, <1>9, <1>10, <1>11
     DEF Next, Step, Run

LEMMA InitInd == Init => IndInv
<1>1. Init => MutexInv
  BY ThreadsAssumption DEF Init, MutexInv, Holding
<1>2. Init => LabelInv /\ RoomInv /\ CopyInv /\ ResultInv
  BY DEF Init, LabelInv, RoomInv, CopyInv, ResultInv
<1>3. QED
  BY <1>1, <1>2, InitType DEF IndInv

LEMMA NextInd == IndInv /\ [Next]_vars => IndInv'
BY NextType, MutexStep, LabelStep, RoomStep, CopyStep, ResultStep DEF IndInv

(* Mutual exclusion of the critical sections, and what it buys: a position  *)
(* tested under the mutex keeps its meaning until it is advanced.           *)
THEOREM Invariance == Spec => []IndInv
<1>1. QED
  BY InitInd, NextInd, PTL DEF Spec

-----------------------------------------------------------------------------
(* Positions and contents. *)

(* A ring of N slots holds at most N - 1 values: Distance is 0 where read   *)
(* and write positions meet and N - 1 where one more ++ would make them.    *)
LEMMA DistanceType ==
  ASSUME NEW r \in Slots, NEW w \in Slots
  PROVE  /\ Distance(r, w) \in 0 .. N - 1
         /\ r = w <=> Distance(r, w) = 0
         /\ Succ(w) = r <=> Distance(r, w) = N - 1
BY SlotsAssumption DEF Slots, Distance, Succ, Wrap

LEMMA StoredType ==
  ASSUME NEW r \in Slots, NEW w \in Slots, NEW s \in [Slots -> Values]
  PROVE  /\ Stored(s, r, w) \in Seq(Values)
         /\ Len(Stored(s, r, w)) = Distance(r, w)
<1>1. Distance(r, w) \in Nat
  BY SlotsAssumption DEF Slots, Distance
<1>2. \A i \in 1 .. Distance(r, w) : Wrap(r + i - 1) \in Slots
  BY SlotsAssumption DEF Slots, Distance, Wrap
<1>3. Stored(s, r, w) \in [1 .. Distance(r, w) -> Values]
  BY <1>2 DEF Stored
<1>4. QED
  BY <1>1, <1>3, SeqDef

(* Advancing the write position publishes the slot it stood on. *)
LEMMA StoredAppend ==
  ASSUME NEW r \in Slots, NEW w \in Slots, NEW s \in [Slots -> Values],
         Succ(w) # r
  PROVE  Stored(s, r, Succ(w)) = Append(Stored(s, r, w), s[w])
<1> DEFINE n == Distance(r, w)
           q == Stored(s, r, w)
           p == Stored(s, r, Succ(w))
<1>1. n \in Nat /\ Distance(r, Succ(w)) = n + 1
  BY SlotsAssumption DEF Slots, Distance, Succ, Wrap
<1>2. q \in Seq(Values) /\ Len(q) = n /\ s[w] \in Values
  BY StoredType
<1>3. Wrap(r + (n + 1) - 1) = w
  BY SlotsAssumption DEF Slots, Distance, Wrap
<1>4. p \in Seq(Values) /\ Len(p) = n + 1
  BY <1>1, StoredType, SuccType
<1>5. \A i \in 1 .. n : q[i] = s[Wrap(r + i - 1)]
  BY DEF Stored
<1>6. \A i \in 1 .. n + 1 : p[i] = s[Wrap(r + i - 1)]
  BY <1>1 DEF Stored
<1> HIDE DEF n, q, p
<1>7. Append(q, s[w]) \in Seq(Values) /\ Len(Append(q, s[w])) = n + 1
  BY <1>2, AppendProperties
<1>8. \A i \in 1 .. n + 1 : Append(q, s[w])[i] = p[i]
  <2> SUFFICES ASSUME NEW i \in 1 .. n + 1 PROVE Append(q, s[w])[i] = p[i]
    OBVIOUS
  <2>1. CASE i <= n
    <3>1. i \in 1 .. Len(q) /\ i \in 1 .. n + 1
      BY <1>1, <1>2, <2>1
    <3>2. Append(q, s[w])[i] = q[i]
      BY <3>1, <1>2, AppendProperties
    <3>3. QED
      BY <3>1, <3>2, <1>2, <1>5, <1>6
  <2>2. CASE ~(i <= n)
    <3>1. p[n + 1] = s[w]
      BY <1>1, <1>3, <1>6
    <3>2. Append(q, s[w])[n + 1] = s[w]
      BY <1>2, AppendProperties
    <3>3. i = n + 1
      BY <1>1, <2>2
    <3>4. QED
      BY <3>1, <3>2, <3>3
  <2>3. QED
    BY <2>1, <2>2
<1>9. QED
  BY <1>1, <1>4, <1>7, <1>8, SeqEqual DEF p, q

(* Advancing the read position drops the oldest value. *)
LEMMA StoredTail ==
  ASSUME NEW r \in Slots, NEW w \in Slots, NEW s \in [Slots -> Values], r # w
  PROVE  /\ Stored(s, r, w) # << >>
         /\ Head(Stored(s, r, w)) = s[r]
         /\ Tail(Stored(s, r, w)) = Stored(s, Succ(r), w)
<1> DEFINE n == Distance(r, w)
           q == Stored(s, r, w)
           p == Stored(s, Succ(r), w)
<1>1. n \in Nat /\ n >= 1 /\ Distance(Succ(r), w) = n - 1
  BY SlotsAssumption DEF Slots, Distance, Succ, Wrap
<1>2. q \in Seq(Values) /\ Len(q) = n
  BY StoredType
<1>3. q = [i \in 1 .. n |-> s[Wrap(r + i - 1)]]
  BY DEF Stored
<1>4. p = [i \in 1 .. n - 1 |-> s[Wrap(Succ(r) + i - 1)]]
  BY <1>1 DEF Stored
<1>5. Wrap(r + 1 - 1) = r
  BY SlotsAssumption DEF Slots, Wrap
<1>6. \A i \in 1 .. n - 1 : Wrap(Succ(r) + i - 1) = Wrap(r + (i + 1) - 1)
  BY <1>1, SlotsAssumption DEF Slots, Distance, Succ, Wrap
<1>7. p \in Seq(Values) /\ Len(p) = n - 1
  BY <1>1, StoredType, SuccType
<1> HIDE DEF n, q, p
<1>8. q # << >> /\ Head(q) = q[1]
  BY <1>1, <1>2
<1>9. Head(q) = s[r]
  BY <1>1, <1>3, <1>5, <1>8
<1>10. /\ Tail(q) \in Seq(Values) /\ Len(Tail(q)) = n - 1
       /\ \A i \in 1 .. Len(Tail(q)) : Tail(q)[i] = q[i + 1]
  BY <1>1, <1>2, <1>8, HeadTailProperties
<1>11. \A i \in 1 .. n - 1 : Tail(q)[i] = p[i]
  BY <1>1, <1>3, <1>4, <1>6, <1>10
<1>12. Tail(q) = p
  BY <1>1, <1>7, <1>10, <1>11, SeqEqual
<1>13. QED
  BY <1>8, <1>9, <1>12 DEF p, q

(* The slot under the write position holds no stored value: a writer may    *)
(* fill it while the contents stay as they are.                             *)
LEMMA StoredElsewhere ==
  ASSUME NEW r \in Slots, NEW w \in Slots, NEW s \in [Slots -> Values],
         NEW v \in Values
  PROVE  Stored([s EXCEPT ![w] = v], r, w) = Stored(s, r, w)
<1>1. \A i \in 1 .. Distance(r, w) : Wrap(r + i - 1) \in Slots \ {w}
  BY SlotsAssumption DEF Slots, Distance, Wrap
<1>2. \A i \in 1 .. Distance(r, w) :
        [s EXCEPT ![w] = v][Wrap(r + i - 1)] = s[Wrap(r + i - 1)]
  BY <1>1
<1>3. QED
  BY <1>2 DEF Stored

-----------------------------------------------------------------------------
(* The refinement. *)

(* Equal positions store nothing. *)
LEMMA StoredEmpty ==
  ASSUME NEW r \in Slots, NEW s \in [Slots -> Values]
  PROVE  Stored(s, r, r) = << >>
<1>1. Distance(r, r) = 0
  BY DistanceType
<1>2. QED
  BY <1>1, StoredType, EmptySeq

LEMMA ContentsType ==
  ASSUME TypeOK
  PROVE  /\ Contents \in Seq(Values) /\ Len(Contents) = Count
         /\ Count \in 0 .. N - 1
         /\ Empty <=> Count = 0
         /\ Full <=> Count = N - 1
         /\ Empty <=> Contents = << >>
<1>1. Contents \in Seq(Values) /\ Len(Contents) = Count
  BY StoredType DEF TypeOK, Contents, Count
<1>2. Count \in 0 .. N - 1 /\ (Empty <=> Count = 0) /\ (Full <=> Count = N - 1)
  BY DistanceType DEF TypeOK, Count, Empty, Full
<1>3. Empty <=> Contents = << >>
  BY <1>1, <1>2, EmptySeq
<1>4. QED
  BY <1>1, <1>2, <1>3

LEMMA RefineInit == Init => Queue!Init
<1> SUFFICES ASSUME Init PROVE Queue!Init
  OBVIOUS
<1>1. Contents = << >>
  BY InitType, ContentsType DEF Init, Empty
<1>2. /\ [t \in Threads |-> Phase(t)] = [t \in Threads |-> "idle"]
      /\ [t \in Threads |-> Val(t)] = [t \in Threads |-> Default]
      /\ [t \in Threads |-> Ret(t)] = [t \in Threads |-> FALSE]
  BY DEF Init, Phase, Val, Ret
<1>3. QED
  BY <1>1, <1>2 DEF Init, Queue!Init

(* A step that changes nothing a caller can tell. *)
Silent ==
  /\ Contents' = Contents
  /\ is_close' = is_close
  /\ op' = op
  /\ \A s \in Threads : Phase(s)' = Phase(s) /\ Val(s)' = Val(s) /\ Ret(s)' = Ret(s)

LEMMA SilentStutters == Silent => UNCHANGED Queue!qvars
BY DEF Silent, Queue!qvars

LEMMA SilentSteps ==
  ASSUME IndInv, NEW t \in Threads,
         \/ Lock(t) \/ Test(t) \/ SpuriousWake(t) \/ Relock(t) \/ CopyOut(t)
         \/ Notify(t) \/ NotifyProducers(t)
         \/ Check(t) /\ ~is_close
         \/ Unlock(t) /\ op[t] = "close"
  PROVE  Silent
<1> USE DEF IndInv, TypeOK, Silent, Phase, Done, Val, Ret, Goto, ring, call
<1>1. CASE Lock(t) \/ Test(t) \/ SpuriousWake(t) \/ Relock(t)
  BY <1>1 DEF Lock, Test, SpuriousWake, Relock, Contents
<1>2. CASE CopyOut(t)
  BY <1>2 DEF CopyOut, Contents, ResultInv
<1>3. CASE Notify(t)
  BY <1>3 DEF Notify, NotifyOne, Asleep, Contents
<1>4. CASE NotifyProducers(t)
  BY <1>4 DEF NotifyProducers, NotifyAll, Asleep, Contents
<1>5. CASE Check(t) /\ ~is_close
  BY <1>5 DEF Check, Contents
<1>6. CASE Unlock(t) /\ op[t] = "close"
  BY <1>6 DEF Unlock, Contents
<1>7. QED
  BY <1>1, <1>2, <1>3, <1>4, <1>5, <1>6

(* Filling the slot under the write position is not yet writing. *)
LEMMA CopyInSilent == ASSUME IndInv, NEW t \in Threads, CopyIn(t) PROVE Silent
<1> USE DEF IndInv, TypeOK
<1>1. Contents' = Contents
  BY StoredElsewhere DEF CopyIn, Contents, Count
<1>2. \A s \in Threads : Phase(s)' = Phase(s) /\ Val(s)' = Val(s) /\ Ret(s)' = Ret(s)
  BY DEF CopyIn, Phase, Done, Val, Ret, Goto, call
<1>3. QED
  BY <1>1, <1>2 DEF Silent, CopyIn, call

(* The other threads do not notice that the call of t takes effect. *)
LEMMA EffectOf ==
  ASSUME TypeOK, NEW t \in Threads, Phase(t) = "pending", Phase(t)' = "done",
         NEW r, Ret(t)' = r, op' = op,
         \A s \in Threads \ {t} : Phase(s)' = Phase(s) /\ Ret(s)' = Ret(s)
  PROVE  Queue!Effect(t, op[t], r)
BY DEF Queue!Effect, TypeOK

LEMMA WriteTakesEffect ==
  ASSUME IndInv, NEW t \in Threads, AdvanceWrite(t)
  PROVE  Queue!Write(t)
<1> USE DEF IndInv, TypeOK
<1>1. ~Full /\ val[t] = slots[write_pos]
  BY DEF AdvanceWrite, RoomInv, CopyInv, Blocked
<1>2. Contents' = Append(Contents, val[t])
  BY <1>1, StoredAppend DEF AdvanceWrite, Contents, Full
<1>3. Len(Contents) < N - 1
  BY <1>1, ContentsType, SlotsAssumption
<1>4. Queue!Effect(t, op[t], TRUE)
  BY EffectOf DEF AdvanceWrite, Phase, Done, Ret, Goto, call
<1>5. Ret(t)' = TRUE /\ Val(t) = val[t] /\ op[t] = "write" /\ is_close' = is_close
  BY DEF AdvanceWrite, Ret, Val, Goto
<1>6. [s \in Threads |-> Val(s)]' = [s \in Threads |-> Val(s)]
  BY DEF AdvanceWrite, Val, Goto, call
<1>7. QED
  BY <1>2, <1>3, <1>4, <1>5, <1>6 DEF Queue!Write

LEMMA ReadTakesEffect ==
  ASSUME IndInv, NEW t \in Threads, AdvanceRead(t)
  PROVE  Queue!Read(t)
<1> USE DEF IndInv, TypeOK
<1>1. ~Empty /\ val[t] = slots[read_pos]
  BY DEF AdvanceRead, RoomInv, CopyInv, Blocked
<1>2. Contents # << >> /\ Contents' = Tail(Contents) /\ Head(Contents) = val[t]
  BY <1>1, StoredTail DEF AdvanceRead, Contents, Empty
<1>3. Queue!Effect(t, op[t], TRUE)
  BY EffectOf DEF AdvanceRead, Phase, Done, Ret, Goto, call
<1>4. Ret(t)' = TRUE /\ op[t] = "read" /\ is_close' = is_close
  BY DEF AdvanceRead, Ret, Goto
<1>5. [s \in Threads |-> Val(s)]' = [[s \in Threads |-> Val(s)] EXCEPT ![t] = val[t]]
  BY DEF AdvanceRead, Val, Goto, call
<1>6. QED
  BY <1>2, <1>3, <1>4, <1>5 DEF Queue!Read

LEMMA RefusalTakesEffect ==
  ASSUME IndInv, NEW t \in Threads, Check(t), is_close
  PROVE  Queue!Refuse(t)
<1> USE DEF IndInv, TypeOK
<1>1. Queue!Effect(t, op[t], FALSE)
  BY EffectOf DEF Check, Phase, Done, Ret, Goto
<1>2. Ret(t)' = FALSE /\ op[t] \in {"write", "read"} /\ is_close' = is_close
  BY DEF Check, Ret, Goto, LabelInv, Blocking
<1>3. [s \in Threads |-> Val(s)]' = [s \in Threads |-> Val(s)]
  BY DEF Check, Val, Goto
<1>4. Contents' = Contents
  BY DEF Check, Contents, ring
<1>5. QED
  BY <1>1, <1>2, <1>3, <1>4 DEF Queue!Refuse

LEMMA ClearTakesEffect ==
  ASSUME IndInv, NEW t \in Threads, Clear(t), TypeOK'
  PROVE  Queue!Clear(t)
<1> USE DEF IndInv, TypeOK
<1>1. /\ Phase(t) = "pending" /\ Phase(t)' = "done" /\ op' = op
      /\ \A s \in Threads \ {t} : Phase(s)' = Phase(s) /\ Ret(s)' = Ret(s)
      /\ Ret(t)' = Ret(t) /\ op[t] = "clear" /\ is_close' = is_close
  BY DEF Clear, Phase, Done, Ret, Goto, call
<1>2. Queue!Effect(t, op[t], Ret(t))
  BY <1>1, EffectOf
<1>3. [s \in Threads |-> Val(s)]' = [s \in Threads |-> Val(s)]
  BY DEF Clear, Val, Goto, call
<1>4. Contents' = << >>
  BY StoredEmpty DEF Clear, Contents
<1>5. QED
  BY <1>1, <1>2, <1>3, <1>4 DEF Queue!Clear

LEMMA CloseTakesEffect ==
  ASSUME IndInv, NEW t \in Threads, Close(t)
  PROVE  Queue!Close(t)
<1> USE DEF IndInv, TypeOK
<1>1. /\ Phase(t) = "pending" /\ Phase(t)' = "done" /\ op' = op
      /\ \A s \in Threads \ {t} : Phase(s)' = Phase(s) /\ Ret(s)' = Ret(s)
      /\ Ret(t)' = Ret(t) /\ op[t] = "close" /\ is_close'
  BY DEF Close, Phase, Done, Ret, Goto, call
<1>2. Queue!Effect(t, op[t], Ret(t))
  BY <1>1, EffectOf
<1>3. [s \in Threads |-> Val(s)]' = [s \in Threads |-> Val(s)]
  BY DEF Close, Val, Goto, call
<1>4. Contents' = Contents
  BY DEF Close, Contents, ring
<1>5. QED
  BY <1>1, <1>2, <1>3, <1>4 DEF Queue!Close

LEMMA FlushTakesEffect ==
  ASSUME IndInv, NEW t \in Threads, Flush(t)
  PROVE  Queue!Flush(t)
<1> USE DEF IndInv, TypeOK
<1>1. PICK l \in Threads \cup {t} :
        \/ pc' = [pc EXCEPT ![t] = "return"]
        \/ l # t /\ pc[l] = "wait" /\ pc' = [pc EXCEPT ![t] = "return", ![l] = "relock"]
  BY DEF Flush, NotifyOne, Asleep, Goto
<1>2. \A s \in Threads \ {t} :
        Phase(s)' = Phase(s) /\ Ret(s)' = Ret(s) /\ Val(s)' = Val(s)
  BY <1>1 DEF Flush, Phase, Done, Ret, Val, call
<1>3. /\ Phase(t) = "pending" /\ Phase(t)' = "done"
      /\ Ret(t)' = Ret(t) /\ Val(t)' = Val(t)
  BY <1>1 DEF Flush, Phase, Done, Ret, Val, call
<1>4. op' = op /\ op[t] = "flush" /\ is_close' = is_close /\ Contents' = Contents
  BY DEF Flush, call, ring, Contents, LabelInv
<1>5. Queue!Effect(t, op[t], Ret(t))
  BY <1>2, <1>3, <1>4, EffectOf
<1>6. [s \in Threads |-> Val(s)]' = [s \in Threads |-> Val(s)]
  BY <1>2, <1>3
<1>7. QED
  BY <1>4, <1>5, <1>6 DEF Queue!Flush

LEMMA QueryTakesEffect ==
  ASSUME IndInv, NEW t \in Threads, Query(t)
  PROVE  Queue!Query(t)
<1> USE DEF IndInv, TypeOK
<1>1. Ret(t)' = Answer(op[t]) /\ op[t] \in {"empty", "full", "is_close"}
  BY DEF Query, Queries, Ret, Goto, Answer, Empty, Full
<1>2. /\ Phase(t) = "pending" /\ Phase(t)' = "done" /\ op' = op
      /\ \A s \in Threads \ {t} : Phase(s)' = Phase(s) /\ Ret(s)' = Ret(s)
  BY DEF Query, Phase, Done, Ret, Goto
<1>3. Queue!Effect(t, op[t], Answer(op[t]))
  BY <1>1, <1>2, EffectOf
<1>4. Empty = (Contents = << >>) /\ Full = (Len(Contents) = N - 1)
  BY ContentsType DEF Empty, Full
<1>5. [s \in Threads |-> Val(s)]' = [s \in Threads |-> Val(s)]
  BY DEF Query, Val, Goto
<1>6. Contents' = Contents /\ is_close' = is_close
  BY DEF Query, Contents, ring
<1>7. \/ Queue!Effect(t, "empty", Contents = << >>)
      \/ Queue!Effect(t, "full", Len(Contents) = N - 1)
      \/ Queue!Effect(t, "is_close", is_close)
  BY <1>1, <1>3, <1>4 DEF Answer
<1>8. QED
  BY <1>5, <1>6, <1>7 DEF Queue!Query

LEMMA CallInvokes == ASSUME IndInv, NEW t \in Threads, Call(t) PROVE Queue!Invoke(t)
<1> USE DEF IndInv, TypeOK
<1>1. PICK o \in Program[t] :
        /\ op' = [op EXCEPT ![t] = o]
        /\ Goto(t, IF o = "flush" THEN "flush" ELSE "lock")
        /\ \E v \in IF o = "write" THEN Values ELSE {Default} :
             val' = [val EXCEPT ![t] = v]
  BY DEF Call, Begin
<1>2. PICK v \in Values : val' = [val EXCEPT ![t] = v]
  BY <1>1, ValuesAssumption
<1>3. o \in Queue!Ops
  BY ThreadsAssumption DEF Ops, Queue!Ops
<1>4. Phase(t) = "idle" /\ Phase(t)' = "pending"
  BY <1>1 DEF Call, Begin, Phase, Done, Goto
<1>5. \A s \in Threads \ {t} : Phase(s)' = Phase(s)
  BY <1>1 DEF Phase, Done, Goto
<1>6. [s \in Threads |-> Phase(s)]' = [[s \in Threads |-> Phase(s)] EXCEPT ![t] = "pending"]
  BY <1>4, <1>5
<1>7. [s \in Threads |-> Val(s)]' = [[s \in Threads |-> Val(s)] EXCEPT ![t] = v]
  BY <1>1, <1>2 DEF Val, Goto
<1>8. [s \in Threads |-> Ret(s)]' = [s \in Threads |-> Ret(s)]
  BY <1>1 DEF Call, Begin, Ret, Goto
<1>9. Contents' = Contents /\ is_close' = is_close
  BY DEF Call, Begin, Contents, ring
<1>10. QED
  BY <1>1, <1>2, <1>3, <1>4, <1>6, <1>7, <1>8, <1>9 DEF Queue!Invoke

LEMMA CallReturns ==
  ASSUME IndInv, NEW t \in Threads,
         (Unlock(t) /\ op[t] # "close") \/ NotifyConsumers(t) \/ Return(t)
  PROVE  Queue!Return(t)
<1> USE DEF IndInv, TypeOK
<1>1. EndCall(t) /\ Contents' = Contents /\ is_close' = is_close
  BY DEF Unlock, NotifyConsumers, Return, Contents, ring
<1>2. Phase(t) = "done" /\ Phase(t)' = "idle"
  BY DEF Unlock, NotifyConsumers, Return, NotifyAll, Phase, Done, Goto
<1>3. \A s \in Threads \ {t} : Phase(s)' = Phase(s)
  BY DEF Unlock, NotifyConsumers, Return, NotifyAll, Asleep, Phase, Done, Goto
<1>4. [s \in Threads |-> Phase(s)]' = [[s \in Threads |-> Phase(s)] EXCEPT ![t] = "idle"]
  BY <1>2, <1>3
<1>5. [s \in Threads |-> Val(s)]' = [[s \in Threads |-> Val(s)] EXCEPT ![t] = Default]
  BY <1>1 DEF EndCall, Unlock, NotifyConsumers, Return, NotifyAll, Asleep, Val, Goto
<1>6. [s \in Threads |-> Ret(s)]' = [[s \in Threads |-> Ret(s)] EXCEPT ![t] = FALSE]
  BY <1>1 DEF EndCall, Unlock, NotifyConsumers, Return, NotifyAll, Asleep, Ret, Goto
<1>7. QED
  BY <1>1, <1>2, <1>4, <1>5, <1>6 DEF EndCall, Queue!Return

(* Every step of the ring buffer is a step of the queue or changes nothing  *)
(* the queue shows.                                                         *)
LEMMA RefineStep ==
  IndInv /\ TypeOK' /\ [Next]_vars => [Queue!Next]_(Queue!qvars)
<1> SUFFICES ASSUME IndInv, TypeOK', [Next]_vars
             PROVE  Queue!Next \/ UNCHANGED Queue!qvars
  OBVIOUS
<1>1. CASE UNCHANGED vars
  <2>1. Silent
    BY <1>1 DEF vars, Silent, Contents, Phase, Done, Val, Ret
  <2>2. QED
    BY <2>1, SilentStutters
<1>2. ASSUME NEW t \in Threads, Call(t) \/ SpuriousWake(t) \/ Step(t)
      PROVE  Queue!Next \/ UNCHANGED Queue!qvars
  <2>1. CASE Call(t)
    BY <2>1, CallInvokes DEF Queue!Next
  <2>2. CASE Lock(t) \/ Test(t) \/ SpuriousWake(t) \/ Relock(t) \/ CopyOut(t)
             \/ Notify(t) \/ NotifyProducers(t)
    BY <2>2, SilentSteps, SilentStutters
  <2>3. CASE CopyIn(t)
    BY <2>3, CopyInSilent, SilentStutters
  <2>4. CASE Check(t)
    <3>1. CASE is_close
      BY <2>4, <3>1, RefusalTakesEffect DEF Queue!Next
    <3>2. CASE ~is_close
      BY <2>4, <3>2, SilentSteps, SilentStutters
    <3>3. QED
      BY <3>1, <3>2
  <2>5. CASE AdvanceWrite(t)
    BY <2>5, WriteTakesEffect DEF Queue!Next
  <2>6. CASE AdvanceRead(t)
    BY <2>6, ReadTakesEffect DEF Queue!Next
  <2>7. CASE Clear(t)
    BY <2>7, ClearTakesEffect DEF Queue!Next
  <2>8. CASE Close(t)
    BY <2>8, CloseTakesEffect DEF Queue!Next
  <2>9. CASE Query(t)
    BY <2>9, QueryTakesEffect DEF Queue!Next
  <2>10. CASE Flush(t)
    BY <2>10, FlushTakesEffect DEF Queue!Next
  <2>11. CASE Unlock(t) /\ op[t] = "close"
    BY <2>11, SilentSteps, SilentStutters
  <2>12. CASE (Unlock(t) /\ op[t] # "close") \/ NotifyConsumers(t) \/ Return(t)
    BY <2>12, CallReturns DEF Queue!Next
  <2>13. QED
    BY <1>2, <2>1, <2>2, <2>3, <2>4, <2>5, <2>6, <2>7, <2>8, <2>9, <2>10, <2>11,
       <2>12 DEF Step, Run
<1>3. QED
  BY <1>1, <1>2 DEF Next

(* ringbuffer_with_mutex is a linearizable first-in first-out queue of      *)
(* N - 1 values, whatever the threads call.                                 *)
THEOREM Refinement == Spec => IsBoundedQueue
<1>1. IndInv => TypeOK
  BY DEF IndInv
<1>2. QED
  BY <1>1, RefineInit, RefineStep, Invariance, PTL DEF Spec, Queue!Spec, IsBoundedQueue

-----------------------------------------------------------------------------
(* No wake-up is lost. *)

(* The number of threads in a call of o that will test the positions again, *)
(* or whose notification is still to come.                                  *)
AwakeCount(o) == Cardinality(Awake(o))
NotifyingCount(o) == Cardinality(Notifying(o))

LEMMA ThreadSets ==
  ASSUME NEW S, S \subseteq Threads
  PROVE  /\ IsFiniteSet(S) /\ Cardinality(S) \in Nat
         /\ \A t \in S : Cardinality(S \ {t}) = Cardinality(S) - 1
         /\ \A t \in Threads \ S : Cardinality(S \cup {t}) = Cardinality(S) + 1
<1>1. IsFiniteSet(S)
  BY ThreadsAssumption, FS_Subset
<1>2. QED
  BY <1>1, FS_CardinalityType, FS_RemoveElement, FS_AddElement

(* How many values there are after ++ on one of the positions. *)
LEMMA CountStep ==
  ASSUME NEW r \in Slots, NEW w \in Slots
  PROVE  /\ Distance(r, w) \in Nat
         /\ Distance(r, w) <= N - 1
         /\ r # w => Distance(Succ(r), w) = Distance(r, w) - 1
         /\ Succ(w) # r => Distance(r, Succ(w)) = Distance(r, w) + 1
         /\ Distance(r, r) = 0
BY SlotsAssumption DEF Slots, Distance, Succ, Wrap

-----------------------------------------------------------------------------
(* Both directions at once: what a call of o waits for, and who supplies it. *)

Other(o) == IF o = "write" THEN "read" ELSE "write"

Supply(o) == IF o = "read" THEN Count ELSE N - 1 - Count

Woken(o) ==
  ~is_close /\ Asleep(o) # {} =>
    Supply(o) <= Cardinality(Awake(o)) + Cardinality(Notifying(Other(o)))

LEMMA SupplyType == ASSUME TypeOK, NEW o \in Blocking PROVE Supply(o) \in Nat
<1>1. Count \in Nat /\ Count <= N - 1
  BY CountStep DEF TypeOK, Count
<1>2. QED
  BY <1>1, SlotsAssumption DEF Supply

(* Who finds the loop condition true finds no supply. *)
LEMMA BlockedSupply ==
  ASSUME TypeOK, NEW t \in Threads, op[t] \in Blocking, Blocked(t) PROVE Supply(op[t]) = 0
BY SlotsAssumption
   DEF TypeOK, Blocked, Blocking, Full, Empty, Supply, Count, Distance, Succ, Wrap, Slots

LEMMA PeopleFinite ==
  ASSUME NEW o
  PROVE  /\ Cardinality(Awake(o)) \in Nat /\ IsFiniteSet(Awake(o))
         /\ Cardinality(Notifying(o)) \in Nat /\ IsFiniteSet(Notifying(o))
BY ThreadSets DEF Awake, Notifying

LEMMA PeopleFiniteNext ==
  ASSUME NEW o
  PROVE  /\ Cardinality(Awake(o)') \in Nat /\ IsFiniteSet(Awake(o)')
         /\ Cardinality(Notifying(o)') \in Nat /\ IsFiniteSet(Notifying(o)')
BY ThreadSets DEF Awake, Notifying

(* A step that takes nobody away and supplies nothing. *)
LEMMA Monotone ==
  ASSUME TypeOK, NEW o \in Blocking, Woken(o),
         is_close' = is_close, Supply(o)' = Supply(o), Asleep(o)' \subseteq Asleep(o),
         Awake(o) \subseteq Awake(o)', Notifying(Other(o)) \subseteq Notifying(Other(o))'
  PROVE  Woken(o)'
<1>1. Cardinality(Awake(o)) <= Cardinality(Awake(o)')
  BY PeopleFiniteNext, FS_Subset
<1>2. Cardinality(Notifying(Other(o))) <= Cardinality(Notifying(Other(o))')
  BY PeopleFiniteNext, FS_Subset
<1>3. QED
  BY <1>1, <1>2, PeopleFinite, PeopleFiniteNext, SupplyType DEF Woken

-----------------------------------------------------------------------------
(* The steps that notify, supply, consume or fall asleep. *)

LEMMA AdvanceWakes ==
  ASSUME IndInv, NEW o \in Blocking, Woken(o), NEW t \in Threads,
         AdvanceWrite(t) \/ AdvanceRead(t)
  PROVE  Woken(o)'
<1> USE DEF IndInv, TypeOK, Goto
<1>1. op[t] \in Blocking /\ ~Blocked(t)
  BY DEF AdvanceWrite, AdvanceRead, LabelInv, RoomInv
<1>2. Asleep(o)' = Asleep(o) /\ is_close' = is_close
  BY DEF AdvanceWrite, AdvanceRead, Asleep, call
<1>3. CASE op[t] = o
  <2>1. Supply(o)' = Supply(o) - 1
    BY <1>1, <1>3, CountStep, SlotsAssumption
       DEF AdvanceWrite, AdvanceRead, Blocked, Full, Empty, Supply, Count
  <2>2. Awake(o)' = Awake(o) \ {t} /\ t \in Awake(o)
    BY <1>3 DEF AdvanceWrite, AdvanceRead, Awake, call
  <2>3. Notifying(Other(o))' = Notifying(Other(o))
    BY <1>3 DEF AdvanceWrite, AdvanceRead, Notifying, Other, call
  <2>4. Cardinality(Awake(o)') = Cardinality(Awake(o)) - 1
    BY <2>2, PeopleFinite, FS_RemoveElement
  <2>5. QED
    BY <1>2, <2>1, <2>3, <2>4, PeopleFinite, SupplyType DEF Woken
<1>4. CASE op[t] # o
  <2>1. op[t] = Other(o)
    BY <1>1, <1>4 DEF Blocking, Other
  <2>2. Supply(o)' = Supply(o) + 1
    BY <1>1, <1>4, CountStep, SlotsAssumption
       DEF AdvanceWrite, AdvanceRead, Blocked, Full, Empty, Supply, Count, Blocking
  <2>3. Awake(o)' = Awake(o)
    BY <1>4 DEF AdvanceWrite, AdvanceRead, Awake, call
  <2>4. Notifying(Other(o))' = Notifying(Other(o)) \cup {t} /\ t \notin Notifying(Other(o))
    BY <2>1 DEF AdvanceWrite, AdvanceRead, Notifying, call
  <2>5. Cardinality(Notifying(Other(o))') = Cardinality(Notifying(Other(o))) + 1
    BY <2>4, PeopleFinite, FS_AddElement
  <2>6. QED
    BY <1>2, <2>2, <2>3, <2>5, PeopleFinite, SupplyType DEF Woken
<1>5. QED
  BY <1>3, <1>4

LEMMA NotifyWakes ==
  ASSUME IndInv, NEW o \in Blocking, Woken(o), NEW t \in Threads, Notify(t)
  PROVE  Woken(o)'
<1> USE DEF IndInv, TypeOK, Goto
<1>1. op[t] \in Blocking /\ pc[t] = "notify"
  BY DEF Notify, LabelInv
<1>2. Supply(o)' = Supply(o) /\ is_close' = is_close /\ op' = op
  BY DEF Notify, Supply, Count, ring
<1>3. CASE op[t] = o
  <2>1. Asleep(o)' \subseteq Asleep(o)
    BY <1>2 DEF Notify, NotifyOne, Asleep
  <2>2. Awake(o) \subseteq Awake(o)'
    BY <1>1, <1>2 DEF Notify, NotifyOne, Asleep, Awake
  <2>3. Notifying(Other(o)) \subseteq Notifying(Other(o))'
    BY <1>1, <1>2, <1>3 DEF Notify, NotifyOne, Asleep, Notifying, Other
  <2>4. QED
    BY <1>2, <2>1, <2>2, <2>3, Monotone
<1>4. CASE op[t] = Other(o)
  <2>1. NotifyOne(t, o, "unlock")
    BY <1>4 DEF Notify, Other, Blocking
  <2>2. CASE Asleep(o) = {}
    BY <1>2, <2>1, <2>2 DEF NotifyOne, Asleep, Woken
  <2>3. CASE Asleep(o) # {}
    <3>1. PICK s \in Asleep(o) : pc' = [pc EXCEPT ![t] = "unlock", ![s] = "relock"]
      BY <2>1, <2>3 DEF NotifyOne
    <3>2. s \in Threads /\ s # t /\ pc[s] = "wait" /\ op[s] = o
      BY <1>1, <3>1 DEF Asleep
    <3>3. Awake(o)' = Awake(o) \cup {s} /\ s \notin Awake(o)
      BY <1>1, <1>2, <3>1, <3>2 DEF Awake
    <3>4. Notifying(Other(o))' = Notifying(Other(o)) \ {t} /\ t \in Notifying(Other(o))
      BY <1>1, <1>2, <1>4, <3>1, <3>2 DEF Notifying
    <3>5. Cardinality(Awake(o)') = Cardinality(Awake(o)) + 1
      BY <3>3, PeopleFinite, FS_AddElement
    <3>6. Cardinality(Notifying(Other(o))') = Cardinality(Notifying(Other(o))) - 1
      BY <3>4, PeopleFinite, FS_RemoveElement
    <3>7. QED
      BY <1>2, <2>3, <3>5, <3>6, PeopleFinite, SupplyType DEF Woken
  <2>4. QED
    BY <2>2, <2>3
<1>5. QED
  BY <1>1, <1>3, <1>4 DEF Blocking, Other

(* Only a thread that finds no supply falls asleep. *)
LEMMA TestWakes ==
  ASSUME IndInv, NEW o \in Blocking, Woken(o), NEW t \in Threads, Test(t)
  PROVE  Woken(o)'
<1> USE DEF IndInv, TypeOK, Goto
<1>1. op[t] \in Blocking /\ pc[t] = "test"
  BY DEF Test, LabelInv
<1>2. Supply(o)' = Supply(o) /\ is_close' = is_close /\ op' = op
  BY DEF Test, Supply, Count, ring, call
<1>3. CASE op[t] = o /\ Blocked(t)
  <2>1. Supply(o)' = 0
    BY <1>1, <1>2, <1>3, BlockedSupply
  <2>2. QED
    BY <2>1, PeopleFiniteNext DEF Woken
<1>4. CASE ~(op[t] = o /\ Blocked(t))
  <2>1. Asleep(o)' \subseteq Asleep(o)
    BY <1>2, <1>4 DEF Test, Asleep
  <2>2. Awake(o) \subseteq Awake(o)'
    BY <1>1, <1>2, <1>4 DEF Test, Awake
  <2>3. Notifying(Other(o)) \subseteq Notifying(Other(o))'
    BY <1>1, <1>2 DEF Test, Notifying
  <2>4. QED
    BY <1>2, <2>1, <2>2, <2>3, Monotone
<1>5. QED
  BY <1>3, <1>4

LEMMA CheckWakes ==
  ASSUME IndInv, NEW o \in Blocking, Woken(o), NEW t \in Threads, Check(t)
  PROVE  Woken(o)'
<1> USE DEF IndInv, TypeOK, Goto
<1>1. CASE is_close
  BY <1>1 DEF Check, Woken
<1>2. CASE ~is_close
  <2>1. Supply(o)' = Supply(o) /\ is_close' = is_close
    BY DEF Check, Supply, Count, ring
  <2>2. Asleep(o)' \subseteq Asleep(o) /\ Awake(o) \subseteq Awake(o)'
    BY <1>2 DEF Check, Asleep, Awake
  <2>3. Notifying(Other(o)) \subseteq Notifying(Other(o))'
    BY <1>2 DEF Check, Notifying
  <2>4. QED
    BY <2>1, <2>2, <2>3, Monotone
<1>3. QED
  BY <1>1, <1>2

(* clear() takes all values at once; it is no concern of readers. *)
LEMMA ClearWakes ==
  ASSUME IndInv, NEW t \in Threads, Clear(t)
  PROVE  Woken("read")'
<1>1. Supply("read")' = 0
  BY CountStep, SlotsAssumption DEF Clear, Supply, Count, Distance
<1>2. QED
  BY <1>1, PeopleFiniteNext DEF Woken

LEMMA CloseWakes ==
  ASSUME NEW o \in Blocking, NEW t \in Threads, Close(t) PROVE Woken(o)'
BY DEF Close, Woken

LEMMA NotifyAllWakes ==
  ASSUME IndInv, NEW o \in Blocking, Woken(o), NEW t \in Threads,
         NotifyProducers(t) \/ NotifyConsumers(t)
  PROVE  Woken(o)'
<1> USE DEF IndInv, TypeOK, LabelInv
<1>1. op[t] = "close" /\ pc[t] \in {"notify_producers", "notify_consumers"}
  BY DEF NotifyProducers, NotifyConsumers
<1>2. Supply(o)' = Supply(o) /\ is_close' = is_close
  BY DEF NotifyProducers, NotifyConsumers, Supply, Count, ring
<1>3. \A s \in Threads : op[s] \in Blocking => op'[s] = op[s]
  BY <1>1 DEF NotifyProducers, NotifyConsumers, EndCall, call, Blocking
<1>4. \A s \in Threads : op'[s] \in Blocking => op'[s] = op[s]
  BY <1>1 DEF NotifyProducers, NotifyConsumers, EndCall, call, Blocking
<1>5. \A s \in Threads : s # t => pc'[s] = pc[s] \/ (pc[s] = "wait" /\ pc'[s] = "relock")
  BY DEF NotifyProducers, NotifyConsumers, NotifyAll, Asleep
<1>6. pc'[t] \in {"notify_consumers", "idle"}
  BY DEF NotifyProducers, NotifyConsumers, NotifyAll
<1>7. Asleep(o)' \subseteq Asleep(o)
  BY <1>4, <1>5, <1>6 DEF Asleep, Blocking
<1>8. Awake(o) \subseteq Awake(o)'
  BY <1>1, <1>3, <1>5 DEF Awake, Blocking
<1>9. Notifying(Other(o)) \subseteq Notifying(Other(o))'
  BY <1>1, <1>3, <1>5 DEF Notifying, Blocking, Other
<1>10. QED
  BY <1>2, <1>7, <1>8, <1>9, Monotone

LEMMA FlushWakes ==
  ASSUME IndInv, NEW o \in Blocking, Woken(o), NEW t \in Threads, Flush(t)
  PROVE  Woken(o)'
<1> USE DEF IndInv, TypeOK, Goto
<1>1. Supply(o)' = Supply(o) /\ is_close' = is_close /\ op' = op
  BY DEF Flush, Supply, Count, ring, call
<1>2. Asleep(o)' \subseteq Asleep(o)
  BY <1>1 DEF Flush, NotifyOne, Asleep
<1>3. Awake(o) \subseteq Awake(o)'
  BY <1>1 DEF Flush, NotifyOne, Asleep, Awake
<1>4. Notifying(Other(o)) \subseteq Notifying(Other(o))'
  BY <1>1 DEF Flush, NotifyOne, Asleep, Notifying
<1>5. QED
  BY <1>1, <1>2, <1>3, <1>4, Monotone

(* A call begins or ends, or a thread moves on where nothing is waited for. *)
LEMMA OtherStepsWake ==
  ASSUME IndInv, NEW o \in Blocking, Woken(o), NEW t \in Threads,
         \/ Call(t) \/ Lock(t) \/ SpuriousWake(t) \/ Relock(t)
         \/ CopyIn(t) \/ CopyOut(t) \/ Query(t) \/ Unlock(t) \/ Return(t)
  PROVE  Woken(o)'
<1> USE DEF IndInv, TypeOK, Goto, Labels
<1>1. Supply(o)' = Supply(o) /\ is_close' = is_close
  BY DEF Call, Begin, Lock, SpuriousWake, Relock, CopyIn, CopyOut, Query, Unlock, Return,
         Supply, Count, ring
<1>2. \A s \in Threads : s # t => pc'[s] = pc[s] /\ op'[s] = op[s]
  BY DEF Call, Begin, Lock, SpuriousWake, Relock, CopyIn, CopyOut, Query, Unlock, Return,
         EndCall, call
<1>3. pc'[t] # "wait"
  BY DEF Call, Begin, Lock, SpuriousWake, Relock, CopyIn, CopyOut, Query, Unlock, Return
<1>4. t \in Awake(o) => pc'[t] \in {"relock", "check", "test", "copy", "advance"} /\ op'[t] = op[t]
  BY DEF Call, Begin, Lock, SpuriousWake, Relock, CopyIn, CopyOut, Query, Unlock, Return,
         call, Awake
<1>5. pc[t] # "notify"
  BY DEF Call, Begin, Lock, SpuriousWake, Relock, CopyIn, CopyOut, Query, Unlock, Return
<1>6. Asleep(o)' \subseteq Asleep(o)
  BY <1>2, <1>3 DEF Asleep
<1>7. Awake(o) \subseteq Awake(o)'
  BY <1>2, <1>4 DEF Awake
<1>8. Notifying(Other(o)) \subseteq Notifying(Other(o))'
  BY <1>2, <1>5 DEF Notifying
<1>9. QED
  BY <1>1, <1>6, <1>7, <1>8, Monotone

LEMMA StepWakes ==
  ASSUME IndInv, NEW o \in Blocking, Woken(o), NEW t \in Threads,
         Call(t) \/ SpuriousWake(t) \/ Step(t),
         o = "write" => ~Clear(t)
  PROVE  Woken(o)'
<1>1. CASE Clear(t)
  <2>1. o = "read"
    BY <1>1 DEF Blocking
  <2>2. QED
    BY <1>1, <2>1, ClearWakes
<1>2. CASE ~Clear(t)
  BY <1>2, AdvanceWakes, NotifyWakes, TestWakes, CheckWakes, CloseWakes, NotifyAllWakes,
     FlushWakes, OtherStepsWake
     DEF Step, Run
<1>3. QED
  BY <1>1, <1>2

LEMMA StutterWakes ==
  ASSUME NEW o, Woken(o), UNCHANGED vars PROVE Woken(o)'
BY DEF vars, Woken, Supply, Count, Asleep, Awake, Notifying

-----------------------------------------------------------------------------
(* Whatever the threads call, no value is left for sleeping readers alone.  *)
THEOREM ReadersWake == Spec => []ReadersAreWoken
<1>1. Init => Woken("read")
  BY DEF Init, Woken, Asleep
<1>2. IndInv /\ Woken("read") /\ [Next]_vars => Woken("read")'
  <2> SUFFICES ASSUME IndInv, Woken("read"), [Next]_vars PROVE Woken("read")'
    OBVIOUS
  <2>1. "read" \in Blocking
    BY DEF Blocking
  <2>2. ASSUME NEW t \in Threads, Call(t) \/ SpuriousWake(t) \/ Step(t) PROVE Woken("read")'
    BY <2>1, <2>2, StepWakes
  <2>3. QED
    BY <2>2, StutterWakes DEF Next
<1>3. Woken("read") => ReadersAreWoken
  BY DEF Woken, ReadersAreWoken, Supply, Other
<1>4. QED
  BY <1>1, <1>2, <1>3, Invariance, PTL DEF Spec

(* Each call is one that its thread's program makes. *)
ProgramInv == \A t \in Threads : op[t] \in Program[t] \cup {"none"}

LEMMA ProgramFollowed == Spec => []ProgramInv
<1>1. Init => ProgramInv
  BY DEF Init, ProgramInv
<1>2. TypeOK /\ ProgramInv /\ [Next]_vars => ProgramInv'
  <2> SUFFICES ASSUME TypeOK, ProgramInv, [Next]_vars PROVE ProgramInv'
    OBVIOUS
  <2>1. ASSUME NEW t \in Threads, Call(t) PROVE ProgramInv'
    BY <2>1 DEF Call, Begin, ProgramInv, TypeOK
  <2>2. ASSUME NEW t \in Threads, SpuriousWake(t) \/ Step(t) PROVE ProgramInv'
    BY <2>2 DEF Step, Run, SpuriousWake, Lock, Relock, Test, Check, CopyIn, CopyOut,
       AdvanceWrite, AdvanceRead, Notify, Clear, Close, Query, Unlock, NotifyProducers,
       NotifyConsumers, Flush, Return, EndCall, call, ProgramInv, TypeOK
  <2>3. CASE UNCHANGED vars
    BY <2>3 DEF vars, ProgramInv
  <2>4. QED
    BY <2>1, <2>2, <2>3 DEF Next
<1>3. QED
  BY <1>1, <1>2, TypeCorrect, PTL DEF Spec

(* If no thread calls clear(), no free slot is left for sleeping writers    *)
(* alone.                                                                   *)
THEOREM WritersWake ==
  ASSUME \A t \in Threads : "clear" \notin Program[t]
  PROVE  Spec => []WritersAreWoken
<1>1. Init => Woken("write")
  BY DEF Init, Woken, Asleep
<1>2. IndInv /\ ProgramInv /\ Woken("write") /\ [Next]_vars => Woken("write")'
  <2> SUFFICES ASSUME IndInv, ProgramInv, Woken("write"), [Next]_vars PROVE Woken("write")'
    OBVIOUS
  <2>1. "write" \in Blocking
    BY DEF Blocking
  <2>2. ASSUME NEW t \in Threads, Call(t) \/ SpuriousWake(t) \/ Step(t) PROVE Woken("write")'
    <3>1. ~Clear(t)
      BY DEF Clear, ProgramInv
    <3>2. QED
      BY <2>1, <2>2, <3>1, StepWakes
  <2>3. QED
    BY <2>2, StutterWakes DEF Next
<1>3. Woken("write") => WritersAreWoken
  BY DEF Woken, WritersAreWoken, Supply, Other
<1>4. QED
  BY <1>1, <1>2, <1>3, Invariance, ProgramFollowed, PTL DEF Spec

-----------------------------------------------------------------------------
(* The unit test. *)

LEMMA WhoIsWho ==
  ASSUME TestSetting
  PROVE  /\ Producers \subseteq Threads /\ Consumers \subseteq Threads /\ Main \in Threads
         /\ \A t \in Threads : t \in Producers \/ t \in Consumers \/ t = Main
         /\ \A t \in Producers : t \notin Consumers /\ t # Main
         /\ \A t \in Consumers : t # Main
BY DEF TestSetting

(* A thread calls one of its own member functions, or takes a step in it. *)
BufferStep(t) == Call(t) \/ Step(t) \/ SpuriousWake(t)

(* Who is where.  Once the main thread has closed the buffer, or is about   *)
(* to, no producer is left to be refused.                                   *)
PlaceInv ==
  /\ TestSetting
  /\ at \in [Threads -> {"loop", "call", "open", "exit"}]
  /\ \A t \in Threads : at[t] = "call" <=> op[t] # "none"
  /\ \A t \in Producers : op[t] \in {"none", "write"} /\ at[t] # "open"
  /\ \A t \in Consumers : op[t] \in {"none", "is_close", "read"}
  /\ op[Main] \in {"none", "close"}
  /\ is_close \/ at[Main] # "loop" => \A t \in Producers : at[t] = "exit"

(* The writes that have not taken effect, and the reads that have. *)
Pending(t) == op[t] = "write" /\ ~Done(t)
Taken(t) == op[t] = "read" /\ Done(t) /\ Ret(t)

Elements(q) == {q[i] : i \in 1 .. Len(q)}
Distinct(q) == \A i, j \in 1 .. Len(q) : q[i] = q[j] => i = j

(* No two slots and no two threads hold the same record. *)
OnceInv ==
  /\ Distinct(Contents)
  /\ \A s, t \in Threads : Pending(s) /\ Pending(t) /\ val[s] = val[t] => s = t
  /\ \A s, t \in Threads : Taken(s) /\ Taken(t) /\ val[s] = val[t] => s = t

(* Every record is in one of the four places, and in no other. *)
Apart(n, A, B, C, D) ==
  /\ \A x : x \in 1 .. n <=> x \in A \/ x \in B \/ x \in C \/ x \in D
  /\ \A x : /\ ~(x \in A /\ x \in B) /\ ~(x \in A /\ x \in C) /\ ~(x \in A /\ x \in D)
          /\ ~(x \in B /\ x \in C) /\ ~(x \in B /\ x \in D) /\ ~(x \in C /\ x \in D)

PartsInv ==
  /\ write_cnt \in 0 .. Records
  /\ Apart(write_cnt, Stocked, Writing, Reading, found)

TestInv == IndInv /\ PlaceInv /\ OnceInv /\ PartsInv

-----------------------------------------------------------------------------
(* The test's steps are the buffer's. *)

LEMMA BeginIsCall ==
  ASSUME TestSetting, NEW t \in Threads, NEW o \in Ops, Begin(t, o),
         t \in Producers => o = "write",
         t \in Consumers => o \in {"is_close", "read"},
         t = Main => o = "close"
  PROVE  BufferStep(t) /\ op' = [op EXCEPT ![t] = o]
<1>1. o \in Program[t]
  BY WhoIsWho DEF TestSetting, TestProgram
<1>2. QED
  BY <1>1 DEF BufferStep, Call, Begin

TestStep(t) == Act(t) \/ Acquire(t) \/ Inside(t, SpuriousWake(t))

LEMMA StepOfTheBuffer ==
  ASSUME TestSetting, NEW t \in Threads, TestStep(t)
  PROVE  BufferStep(t) \/ UNCHANGED vars
<1>1. CASE Inside(t, Run(t)) \/ Acquire(t) \/ Inside(t, SpuriousWake(t))
  BY <1>1 DEF Inside, Acquire, BufferStep, Step
<1>2. CASE t \in Producers /\ Claim(t)
  BY <1>2, BeginIsCall, WhoIsWho DEF Claim, Ops
<1>3. CASE t \in Consumers /\ (Poll(t) \/ ReadOnce(t))
  <2>1. PICK o \in {"is_close", "read"} : Begin(t, o)
    BY <1>3 DEF Poll, ReadOnce
  <2>2. QED
    BY <1>3, <2>1, BeginIsCall, WhoIsWho DEF Ops
<1>4. CASE t = Main /\ (JoinProducers(t) \/ JoinConsumers(t))
  BY <1>4, BeginIsCall, WhoIsWho DEF JoinProducers, JoinConsumers, Ops
<1>5. QED
  BY <1>1, <1>2, <1>3, <1>4 DEF TestStep, Act

LEMMA BufferInd == ASSUME IndInv, NEW t \in Threads, BufferStep(t) PROVE IndInv'
BY NextInd DEF BufferStep, Next

(* The other threads go on with their calls. *)
LEMMA OthersStay ==
  ASSUME IndInv, NEW t \in Threads, BufferStep(t), NEW s \in Threads \ {t}
  PROVE  /\ op'[s] = op[s] /\ val'[s] = val[s] /\ Done(s)' = Done(s) /\ Ret(s)' = Ret(s)
         /\ Pending(s)' = Pending(s) /\ Taken(s)' = Taken(s)
<1>1. /\ op'[s] = op[s] /\ val'[s] = val[s] /\ ret'[s] = ret[s]
      /\ pc'[s] = pc[s] \/ (pc[s] = "wait" /\ pc'[s] = "relock")
  <2> USE DEF IndInv, TypeOK, Goto, call, EndCall
  <2>1. CASE Call(t)
    BY <2>1 DEF Call, Begin
  <2>2. CASE Lock(t) \/ Relock(t) \/ Test(t) \/ Check(t) \/ SpuriousWake(t)
    BY <2>2 DEF Lock, Relock, Test, Check, SpuriousWake
  <2>3. CASE CopyIn(t) \/ CopyOut(t) \/ AdvanceWrite(t) \/ AdvanceRead(t) \/ Clear(t) \/ Close(t) \/ Query(t)
    BY <2>3 DEF CopyIn, CopyOut, AdvanceWrite, AdvanceRead, Clear, Close, Query
  <2>4. CASE Notify(t) \/ Flush(t)
    BY <2>4 DEF Notify, Flush, NotifyOne, Asleep
  <2>5. CASE NotifyProducers(t) \/ NotifyConsumers(t)
    BY <2>5 DEF NotifyProducers, NotifyConsumers, NotifyAll, Asleep
  <2>6. CASE Unlock(t) \/ Return(t)
    BY <2>6 DEF Unlock, Return
  <2>7. QED
    BY <2>1, <2>2, <2>3, <2>4, <2>5, <2>6 DEF BufferStep, Step, Run
<1>2. Done(s)' = Done(s) /\ Ret(s)' = Ret(s)
  <2>1. CASE pc'[s] = pc[s]
    BY <1>1, <2>1 DEF Done, Ret
  <2>2. CASE pc[s] = "wait" /\ pc'[s] = "relock"
    BY <1>1, <2>2 DEF Done, Ret
  <2>3. QED
    BY <1>1, <2>1, <2>2
<1>3. QED
  BY <1>1, <1>2 DEF Pending, Taken

-----------------------------------------------------------------------------
(* What a step inside the buffer does to the record its thread has. *)

Keeps(t) ==
  /\ Contents' = Contents /\ op'[t] = op[t]
  /\ Pending(t)' = Pending(t) /\ Taken(t)' = Taken(t)
  /\ Pending(t) \/ Taken(t) => val'[t] = val[t]

Stocks(t) ==
  /\ Contents' = Append(Contents, val[t]) /\ op'[t] = op[t]
  /\ Pending(t) /\ ~Pending(t)' /\ ~Taken(t) /\ ~Taken(t)'

Takes(t) ==
  /\ Contents # <<>> /\ Contents' = Tail(Contents) /\ op'[t] = op[t]
  /\ val'[t] = Head(Contents)
  /\ ~Pending(t) /\ ~Pending(t)' /\ ~Taken(t) /\ Taken(t)'

Leaves(t) ==
  /\ Contents' = Contents /\ op[t] # "none" /\ op'[t] = "none"
  /\ ~Pending(t) /\ ~Pending(t)' /\ ~Taken(t)'
  /\ Taken(t) <=> op[t] = "read" /\ ret[t]

LEMMA StockedStep ==
  ASSUME IndInv, NEW t \in Threads, AdvanceWrite(t)
  PROVE  Stocks(t)
<1> USE DEF IndInv, TypeOK
<1>1. ~Full /\ val[t] = slots[write_pos]
  BY DEF AdvanceWrite, RoomInv, CopyInv, Blocked
<1>2. Contents' = Append(Contents, val[t])
  BY <1>1, StoredAppend DEF AdvanceWrite, Contents, Full
<1>3. QED
  BY <1>2 DEF AdvanceWrite, Stocks, Pending, Taken, Done, Ret, Goto, call

LEMMA TakenStep ==
  ASSUME IndInv, NEW t \in Threads, AdvanceRead(t)
  PROVE  Takes(t)
<1> USE DEF IndInv, TypeOK
<1>1. ~Empty /\ val[t] = slots[read_pos]
  BY DEF AdvanceRead, RoomInv, CopyInv, Blocked
<1>2. Contents # << >> /\ Contents' = Tail(Contents) /\ Head(Contents) = val[t]
  BY <1>1, StoredTail DEF AdvanceRead, Contents, Empty
<1>3. QED
  BY <1>1, <1>2 DEF AdvanceRead, Takes, Pending, Taken, Done, Ret, Goto, call

LEMMA StepOfRecord ==
  ASSUME IndInv, PlaceInv, NEW t \in Threads, Step(t) \/ SpuriousWake(t)
  PROVE  Keeps(t) \/ Stocks(t) \/ Takes(t) \/ Leaves(t)
<1> USE DEF IndInv, TypeOK, Goto
<1>1. CASE AdvanceWrite(t) \/ AdvanceRead(t)
  BY <1>1, StockedStep, TakenStep
<1>2. CASE Lock(t) \/ Relock(t) \/ Test(t) \/ SpuriousWake(t) \/ CopyOut(t)
  <2>1. Contents' = Contents
    BY <1>2 DEF Lock, Relock, Test, SpuriousWake, CopyOut, Contents, ring, call
  <2>2. QED
    BY <1>2, <2>1 DEF Lock, Relock, Test, SpuriousWake, CopyOut, Keeps, Pending, Taken, Done, Ret, call
<1>3. CASE CopyIn(t)
  <2>1. Contents' = Contents
    BY <1>3, StoredElsewhere DEF CopyIn, Contents, Count
  <2>2. QED
    BY <1>3, <2>1 DEF CopyIn, Keeps, Pending, Taken, Done, Ret, call
<1>4. CASE Check(t)
  <2>1. Contents' = Contents
    BY <1>4 DEF Check, Contents, ring
  <2>2. op[t] = "write" => ~is_close
    BY WhoIsWho DEF PlaceInv
  <2>3. op[t] \in {"write", "read"}
    BY <1>4 DEF Check, LabelInv, Blocking
  <2>4. QED
    BY <1>4, <2>1, <2>2, <2>3 DEF Check, Keeps, Pending, Taken, Done, Ret
<1>5. CASE Notify(t) \/ NotifyProducers(t)
  <2>1. Contents' = Contents
    BY <1>5 DEF Notify, NotifyProducers, Contents, ring
  <2>2. CASE Notify(t)
    <3>1. pc[t] = "notify" /\ pc'[t] = "unlock" /\ ret'[t] = TRUE /\ op' = op /\ val' = val
      BY <2>2 DEF Notify, NotifyOne, Asleep
    <3>2. QED
      BY <2>1, <3>1 DEF Keeps, Pending, Taken, Done, Ret
  <2>3. CASE NotifyProducers(t)
    <3>1. op[t] = "close" /\ op' = op
      BY <2>3 DEF NotifyProducers, LabelInv, call
    <3>2. QED
      BY <2>1, <3>1 DEF Keeps, Pending, Taken
  <2>4. QED
    BY <1>5, <2>2, <2>3
<1>6. CASE Clear(t) \/ Flush(t) \/ Return(t)
  BY <1>6, WhoIsWho DEF Clear, Flush, Return, LabelInv, PlaceInv
<1>7. CASE Close(t) \/ Query(t)
  <2>1. Contents' = Contents
    BY <1>7 DEF Close, Query, Contents, ring
  <2>2. QED
    BY <1>7, <2>1 DEF Close, Query, Queries, Keeps, Pending, Taken, call
<1>8. CASE Unlock(t)
  <2>1. Contents' = Contents /\ pc[t] = "unlock" /\ op[t] # "none"
    BY <1>8 DEF Unlock, Contents, ring, LabelInv, Ops
  <2>2. CASE op[t] = "close"
    BY <1>8, <2>1, <2>2 DEF Unlock, Keeps, Pending, Taken, Done, Ret, call
  <2>3. CASE op[t] # "close"
    BY <1>8, <2>1, <2>3 DEF Unlock, Leaves, Pending, Taken, Done, Ret, EndCall
  <2>4. QED
    BY <2>2, <2>3
<1>9. CASE NotifyConsumers(t)
  <2>1. Contents' = Contents /\ op[t] = "close" /\ op'[t] = "none"
    BY <1>9 DEF NotifyConsumers, Contents, ring, LabelInv, EndCall
  <2>2. QED
    BY <2>1 DEF Leaves, Pending, Taken
<1>10. QED
  BY <1>1, <1>2, <1>3, <1>4, <1>5, <1>6, <1>7, <1>8, <1>9 DEF Step, Run

LEMMA BegunCall ==
  ASSUME IndInv, NEW t \in Threads, NEW o \in Ops, Begin(t, o)
  PROVE  /\ Contents' = Contents /\ op[t] = "none" /\ op'[t] = o /\ is_close' = is_close
         /\ ~Pending(t) /\ ~Taken(t) /\ ~Taken(t)' /\ (Pending(t)' <=> o = "write")
BY DEF IndInv, TypeOK, LabelInv, Begin, Goto, Contents, ring, Pending, Taken, Done, Ret

-----------------------------------------------------------------------------
(* The places. *)

LEMMA StepPlaces ==
  ASSUME TestInv, NEW t \in Threads, TestStep(t)
  PROVE  PlaceInv'
<1> USE DEF TestInv, Move
<1>0. /\ Producers \subseteq Threads /\ Consumers \subseteq Threads /\ Main \in Threads
      /\ \A s \in Threads : s \in Producers \/ s \in Consumers \/ s = Main
      /\ \A s \in Producers : s \notin Consumers /\ s # Main
      /\ \A s \in Consumers : s # Main
  BY WhoIsWho DEF PlaceInv
<1> USE <1>0
<1>1. CASE Inside(t, Run(t)) \/ Acquire(t) \/ Inside(t, SpuriousWake(t))
  <2>1. Step(t) \/ SpuriousWake(t)
    BY <1>1 DEF Inside, Acquire, Step
  <2>2. \A s \in Threads \ {t} : op'[s] = op[s]
    BY <2>1, OthersStay DEF BufferStep
  <2>3. op'[t] = op[t] \/ op'[t] = "none"
    BY <2>1, StepOfRecord DEF Keeps, Stocks, Takes, Leaves
  <2>4. at[t] = "call" /\ IF op'[t] = "none" THEN at' = [at EXCEPT ![t] = After(t)] ELSE at' = at
    BY <1>1 DEF Inside, Acquire
  <2>5. is_close' = is_close \/ (is_close' /\ op[t] = "close")
    BY <2>1 DEF Step, Run, Lock, Relock, Test, Check, CopyIn, CopyOut, AdvanceWrite, AdvanceRead, Notify, Clear, Close,
       Query, Unlock, NotifyProducers, NotifyConsumers, Flush, Return, SpuriousWake
  <2>6. is_close' => is_close \/ at[Main] = "call"
    BY <2>4, <2>5 DEF PlaceInv
  <2>7. After(t) \in {"loop", "open", "exit"} /\ (t \in Producers => After(t) = "loop")
        /\ (t = Main /\ op[t] # "none" => After(t) # "loop")
    BY DEF After, PlaceInv
  <2>8. \A s \in Threads \ {t} : at'[s] = at[s]
    BY <2>4 DEF PlaceInv
  <2>9. at' \in [Threads -> {"loop", "call", "open", "exit"}]
    BY <2>4, <2>7 DEF PlaceInv
  <2>10. /\ at'[t] = "call" <=> op'[t] # "none"
         /\ t \in Producers => at'[t] # "open"
         /\ t = Main => at'[t] # "loop"
    BY <2>3, <2>4, <2>7 DEF PlaceInv
  <2>11. is_close' \/ at'[Main] # "loop" => \A s \in Producers : at'[s] = "exit"
    BY <2>4, <2>6, <2>8, <2>10 DEF PlaceInv
  <2>12. QED
    BY <2>2, <2>3, <2>8, <2>9, <2>10, <2>11 DEF PlaceInv
<1>2. ASSUME NEW o \in {"write", "is_close", "read", "close"}, Begin(t, o), at' = [at EXCEPT ![t] = "call"],
             at[t] # "exit",
             t \in Producers => o = "write", t \in Consumers => o \in {"is_close", "read"},
             t = Main => o = "close" /\ \A s \in Producers : at[s] = "exit"
      PROVE  PlaceInv'
  <2>1. op'[t] = o /\ is_close' = is_close
    BY <1>2, BegunCall DEF Ops
  <2>2. \A s \in Threads \ {t} : op'[s] = op[s] /\ at'[s] = at[s]
    BY <1>2 DEF Begin, PlaceInv, IndInv, TypeOK
  <2>3. at' \in [Threads -> {"loop", "call", "open", "exit"}] /\ at'[t] = "call"
    BY <1>2 DEF PlaceInv
  <2>4. QED
    BY <1>2, <2>1, <2>2, <2>3 DEF PlaceInv
<1>3. CASE t \in Producers /\ Claim(t)
  <2>1. CASE Begin(t, "write") /\ at' = [at EXCEPT ![t] = "call"]
    BY <1>2, <1>3, <2>1 DEF Claim
  <2>2. CASE UNCHANGED vars /\ at' = [at EXCEPT ![t] = "exit"]
    BY <1>3, <2>2 DEF Claim, vars, PlaceInv
  <2>3. QED
    BY <1>3, <2>1, <2>2 DEF Claim
<1>4. CASE t \in Consumers /\ (Poll(t) \/ ReadOnce(t))
  <2>1. PICK o \in {"is_close", "read"} : Begin(t, o)
    BY <1>4 DEF Poll, ReadOnce
  <2>2. at' = [at EXCEPT ![t] = "call"] /\ at[t] # "exit"
    BY <1>4 DEF Poll, ReadOnce
  <2>3. QED
    BY <1>2, <1>4, <2>1, <2>2
<1>5. CASE t = Main /\ JoinProducers(t)
  BY <1>2, <1>5 DEF JoinProducers
<1>6. CASE t = Main /\ JoinConsumers(t)
  BY <1>6 DEF JoinConsumers, vars, PlaceInv
<1>7. QED
  BY <1>1, <1>3, <1>4, <1>5, <1>6 DEF TestStep, Act

-----------------------------------------------------------------------------
(* The records. *)

LEMMA StockType ==
  ASSUME TypeOK
  PROVE  /\ Contents \in Seq(Values) /\ Count \in Nat /\ Len(Contents) = Count
         /\ Stocked = Elements(Contents)
<1>1. Contents \in Seq(Values) /\ Len(Contents) = Count /\ Count \in Nat
  BY ContentsType, SlotsAssumption
<1>2. Stocked = Elements(Contents)
  BY <1>1 DEF Stocked, Elements
<1>3. QED
  BY <1>1, <1>2

LEMMA StockTypeNext ==
  ASSUME TypeOK'
  PROVE  Stocked' = Elements(Contents')
<1>1. (TypeOK => Stocked = Elements(Contents))'
  BY StockType, PTL
<1>2. QED
  BY <1>1 DEF Elements

LEMMA AppendElements ==
  ASSUME NEW S, NEW q \in Seq(S), NEW x \in S
  PROVE  /\ Elements(Append(q, x)) = Elements(q) \cup {x}
         /\ Distinct(q) /\ x \notin Elements(q) => Distinct(Append(q, x))
<1>1. /\ Len(q) \in Nat /\ Len(Append(q, x)) = Len(q) + 1
      /\ \A i \in 1 .. Len(q) : Append(q, x)[i] = q[i]
      /\ Append(q, x)[Len(q) + 1] = x
  OBVIOUS
<1>2. 1 .. Len(Append(q, x)) = (1 .. Len(q)) \cup {Len(q) + 1}
  BY <1>1
<1>3. Elements(Append(q, x)) = Elements(q) \cup {x}
  BY <1>1, <1>2 DEF Elements
<1>4. ASSUME Distinct(q), x \notin Elements(q) PROVE Distinct(Append(q, x))
  BY <1>1, <1>2, <1>4 DEF Elements, Distinct
<1>5. QED
  BY <1>3, <1>4

LEMMA TailElements ==
  ASSUME NEW S, NEW q \in Seq(S), q # << >>, Distinct(q)
  PROVE  /\ Elements(Tail(q)) = Elements(q) \ {Head(q)}
         /\ Head(q) \in Elements(q) /\ Distinct(Tail(q))
<1>1. /\ Len(q) \in Nat \ {0} /\ Len(Tail(q)) = Len(q) - 1 /\ Head(q) = q[1]
      /\ \A i \in 1 .. Len(q) - 1 : Tail(q)[i] = q[i + 1]
  OBVIOUS
<1>2. Distinct(Tail(q))
  BY <1>1 DEF Distinct
<1>3. Head(q) \in Elements(q)
  BY <1>1 DEF Elements
<1>4. \A y : y \in Elements(Tail(q)) <=> \E i \in 2 .. Len(q) : y = q[i]
  <2>1. ASSUME NEW y, NEW i \in 2 .. Len(q), y = q[i] PROVE y \in Elements(Tail(q))
    <3>1. i - 1 \in 1 .. Len(q) - 1 /\ Tail(q)[i - 1] = q[i]
      BY <1>1
    <3>2. QED
      BY <1>1, <2>1, <3>1 DEF Elements
  <2>2. ASSUME NEW i \in 1 .. Len(q) - 1 PROVE i + 1 \in 2 .. Len(q) /\ Tail(q)[i] = q[i + 1]
    BY <1>1
  <2>3. QED
    BY <1>1, <2>1, <2>2 DEF Elements
<1>5. \A i \in 1 .. Len(q) : i \in 2 .. Len(q) <=> q[i] # Head(q)
  BY <1>1 DEF Distinct
<1>6. \A i \in 2 .. Len(q) : i \in 1 .. Len(q)
  BY <1>1
<1>7. \A y : y \in Elements(q) <=> \E i \in 1 .. Len(q) : y = q[i]
  BY DEF Elements
<1>8. QED
  BY <1>2, <1>3, <1>4, <1>5, <1>6, <1>7

LEMMA StockSame ==
  ASSUME TestInv, IndInv', Contents' = Contents
  PROVE  Stocked' = Stocked
BY StockType, StockTypeNext DEF TestInv, IndInv, Elements

(* What the others hold does not move while t takes a step. *)
Others(t) ==
  \A s \in Threads \ {t} :
    /\ Pending(s)' = Pending(s) /\ Taken(s)' = Taken(s) /\ val'[s] = val[s]

LEMMA OwnPart ==
  /\ \A x : x \in Writing <=> \E s \in Threads : Pending(s) /\ x = val[s]
  /\ \A x : x \in Reading <=> \E s \in Threads : Taken(s) /\ x = val[s]
BY DEF Writing, Reading, Pending, Taken

LEMMA OwnPartNext ==
  /\ \A x : x \in Writing' <=> \E s \in Threads : Pending(s)' /\ x = val'[s]
  /\ \A x : x \in Reading' <=> \E s \in Threads : Taken(s)' /\ x = val'[s]
BY DEF Writing, Reading, Pending, Taken

LEMMA KeepsRecords ==
  ASSUME TestInv, IndInv', NEW t \in Threads, Others(t), Keeps(t), UNCHANGED <<write_cnt, found>>
  PROVE  OnceInv' /\ PartsInv'
<1>1. \A s \in Threads : Pending(s)' = Pending(s) /\ Taken(s)' = Taken(s)
                        /\ (Pending(s) \/ Taken(s) => val'[s] = val[s])
  BY DEF Others, Keeps
<1>2. OnceInv'
  BY <1>1 DEF TestInv, OnceInv, Keeps, Distinct
<1>3. \A x : (x \in Writing' <=> x \in Writing) /\ (x \in Reading' <=> x \in Reading)
  BY <1>1, OwnPart, OwnPartNext
<1>4. QED
  BY <1>2, <1>3, StockSame DEF TestInv, PartsInv, Apart, Keeps

LEMMA StocksRecord ==
  ASSUME TestInv, IndInv', NEW t \in Threads, Others(t), Stocks(t), UNCHANGED <<write_cnt, found>>
  PROVE  OnceInv' /\ PartsInv'
<1>1. Stocked = Elements(Contents) /\ Stocked' = Elements(Contents')
  BY StockType, StockTypeNext DEF TestInv, IndInv
<1>2. val[t] \in Writing /\ val[t] \notin Stocked
  BY OwnPart DEF TestInv, PartsInv, Apart, Stocks
<1>3. Elements(Contents') = Elements(Contents) \cup {val[t]} /\ Distinct(Contents')
  <2>1. Contents \in Seq(Values) /\ val[t] \in Values
    BY StockType DEF TestInv, IndInv, TypeOK
  <2>2. QED
    BY <1>1, <1>2, <2>1, AppendElements DEF TestInv, OnceInv, Stocks
<1>4. OnceInv'
  BY <1>3 DEF TestInv, OnceInv, Stocks, Others
<1>5. \A x : (x \in Writing' <=> x \in Writing /\ x # val[t]) /\ (x \in Reading' <=> x \in Reading)
  BY OwnPart, OwnPartNext DEF TestInv, OnceInv, Stocks, Others
<1>6. QED
  BY <1>1, <1>2, <1>3, <1>4, <1>5 DEF TestInv, PartsInv, Apart

LEMMA TakesRecord ==
  ASSUME TestInv, IndInv', NEW t \in Threads, Others(t), Takes(t), UNCHANGED <<write_cnt, found>>
  PROVE  OnceInv' /\ PartsInv'
<1> DEFINE v == Head(Contents)
<1>1. Stocked = Elements(Contents) /\ Stocked' = Elements(Contents')
  BY StockType, StockTypeNext DEF TestInv, IndInv
<1>2. Elements(Contents') = Elements(Contents) \ {v} /\ v \in Elements(Contents) /\ Distinct(Contents')
  BY StockType, TailElements DEF TestInv, IndInv, OnceInv, Takes
<1>3. v \notin Reading
  BY <1>1, <1>2 DEF TestInv, PartsInv, Apart
<1> HIDE DEF v
<1>4. val'[t] = v
  BY DEF Takes, v
<1>5. OnceInv'
  <2>1. ASSUME NEW r \in Threads, NEW s \in Threads, Taken(r)', Taken(s)', val'[r] = val'[s] PROVE r = s
    BY <1>3, <1>4, <2>1, OwnPart DEF TestInv, OnceInv, Takes, Others
  <2>2. ASSUME NEW r \in Threads, NEW s \in Threads, Pending(r)', Pending(s)', val'[r] = val'[s] PROVE r = s
    BY <2>2 DEF TestInv, OnceInv, Takes, Others
  <2>3. QED
    BY <1>2, <2>1, <2>2 DEF OnceInv
<1>6. \A x : (x \in Writing' <=> x \in Writing) /\ (x \in Reading' <=> x \in Reading \/ x = v)
  BY <1>4, OwnPart, OwnPartNext DEF Takes, Others
<1>7. QED
  BY <1>1, <1>2, <1>5, <1>6 DEF TestInv, PartsInv, Apart

LEMMA LeavesRecord ==
  ASSUME TestInv, IndInv', NEW t \in Threads, Others(t), Leaves(t), UNCHANGED write_cnt,
         found' = IF Taken(t) THEN found \cup {val[t]} ELSE found
  PROVE  OnceInv' /\ PartsInv'
<1>1. OnceInv'
  BY DEF TestInv, OnceInv, Leaves, Others, Distinct
<1>2. \A x : (x \in Writing' <=> x \in Writing) /\ (x \in Reading' <=> x \in Reading /\ ~(Taken(t) /\ x = val[t]))
  BY OwnPart, OwnPartNext DEF TestInv, OnceInv, Leaves, Others
<1>3. Taken(t) => val[t] \in Reading
  BY OwnPart
<1>4. \A x : x \in found' <=> x \in found \/ (Taken(t) /\ x = val[t])
  OBVIOUS
<1>5. QED
  BY <1>1, <1>2, <1>3, <1>4, StockSame DEF TestInv, PartsInv, Apart, Leaves

(* A claimed record is a new one. *)
LEMMA ClaimsRecord ==
  ASSUME TestInv, IndInv', NEW t \in Threads, Others(t), Contents' = Contents,
         ~Pending(t), ~Taken(t), Pending(t)', ~Taken(t)', UNCHANGED found,
         write_cnt < Records, write_cnt' = write_cnt + 1, val'[t] = write_cnt + 1
  PROVE  OnceInv' /\ PartsInv'
<1>1. write_cnt + 1 \notin Writing
  BY DEF TestInv, PartsInv, Apart
<1>2. OnceInv'
  <2>1. ASSUME NEW r \in Threads, NEW s \in Threads, Pending(r)', Pending(s)', val'[r] = val'[s] PROVE r = s
    BY <1>1, <2>1, OwnPart DEF TestInv, OnceInv, Others
  <2>2. ASSUME NEW r \in Threads, NEW s \in Threads, Taken(r)', Taken(s)', val'[r] = val'[s] PROVE r = s
    BY <2>2 DEF TestInv, OnceInv, Others
  <2>3. QED
    BY <2>1, <2>2 DEF TestInv, OnceInv, Distinct
<1>3. \A x : (x \in Writing' <=> x \in Writing \/ x = write_cnt + 1) /\ (x \in Reading' <=> x \in Reading)
  BY OwnPart, OwnPartNext DEF Others
<1>4. \A x : x \in 1 .. write_cnt' <=> x \in 1 .. write_cnt \/ x = write_cnt + 1
  BY DEF TestInv, PlaceInv, TestSetting, PartsInv
<1>5. write_cnt' \in 0 .. Records /\ write_cnt + 1 \notin 1 .. write_cnt
  BY DEF TestInv, PlaceInv, TestSetting, PartsInv
<1>6. QED
  BY <1>2, <1>3, <1>4, <1>5, StockSame DEF TestInv, PartsInv, Apart

(* Steps that change nobody's record. *)
LEMMA NothingHeld ==
  ASSUME TestInv, IndInv', NEW t \in Threads, Others(t), Contents' = Contents,
         ~Pending(t), ~Taken(t), ~Pending(t)', ~Taken(t)', UNCHANGED <<write_cnt, found>>
  PROVE  OnceInv' /\ PartsInv'
<1>1. OnceInv'
  BY DEF TestInv, OnceInv, Others, Distinct
<1>2. \A x : (x \in Writing' <=> x \in Writing) /\ (x \in Reading' <=> x \in Reading)
  BY OwnPart, OwnPartNext DEF Others
<1>3. QED
  BY <1>1, <1>2, StockSame DEF TestInv, PartsInv, Apart

LEMMA IdleRecords ==
  ASSUME TestInv, UNCHANGED <<vars, write_cnt, found>>
  PROVE  OnceInv' /\ PartsInv'
<1>1. Contents' = Contents /\ Count' = Count
  BY DEF vars, Contents, Count
<1>2. Stocked' = Stocked
  BY <1>1 DEF Stocked
<1>3. \A s \in Threads : Pending(s)' = Pending(s) /\ Taken(s)' = Taken(s) /\ val'[s] = val[s]
  BY DEF vars, Pending, Taken, Done, Ret
<1>4. OnceInv'
  BY <1>1, <1>3 DEF TestInv, OnceInv, Distinct
<1>5. \A x : (x \in Writing' <=> x \in Writing) /\ (x \in Reading' <=> x \in Reading)
  BY <1>3, OwnPart, OwnPartNext
<1>6. QED
  BY <1>2, <1>4, <1>5 DEF TestInv, PartsInv, Apart

LEMMA BegunOthers ==
  ASSUME IndInv, NEW t \in Threads, NEW o \in Ops, Begin(t, o)
  PROVE  Others(t)
BY DEF IndInv, TypeOK, Begin, Goto, Others, Pending, Taken, Done, Ret

LEMMA StepRecords ==
  ASSUME TestInv, IndInv', NEW t \in Threads, TestStep(t)
  PROVE  OnceInv' /\ PartsInv'
<1>1. CASE Inside(t, Run(t)) \/ Acquire(t) \/ Inside(t, SpuriousWake(t))
  <2>1. Step(t) \/ SpuriousWake(t)
    BY <1>1 DEF Inside, Acquire, Step
  <2>2. Others(t)
    BY <2>1, OthersStay DEF TestInv, BufferStep, Others
  <2>3. /\ op[t] # "none" /\ UNCHANGED write_cnt
        /\ op'[t] # "none" => UNCHANGED found
        /\ op'[t] = "none" => found' = IF op[t] = "read" /\ ret[t] THEN found \cup {val[t]} ELSE found
    BY <1>1 DEF Inside, Acquire, TestInv, PlaceInv
  <2>4. CASE Keeps(t)
    BY <2>2, <2>3, <2>4, KeepsRecords DEF Keeps
  <2>5. CASE Stocks(t)
    BY <2>2, <2>3, <2>5, StocksRecord DEF Stocks
  <2>6. CASE Takes(t)
    BY <2>2, <2>3, <2>6, TakesRecord DEF Takes
  <2>7. CASE Leaves(t)
    BY <2>2, <2>3, <2>7, LeavesRecord DEF Leaves
  <2>8. QED
    BY <2>1, <2>4, <2>5, <2>6, <2>7, StepOfRecord DEF TestInv
<1>2. ASSUME NEW o \in {"is_close", "read", "close"}, Begin(t, o), UNCHANGED <<write_cnt, found>>
      PROVE  OnceInv' /\ PartsInv'
  <2>1. Others(t)
    BY <1>2, BegunOthers DEF TestInv, Ops
  <2>2. Contents' = Contents /\ ~Pending(t) /\ ~Taken(t) /\ ~Pending(t)' /\ ~Taken(t)'
    BY <1>2, BegunCall DEF TestInv, Ops
  <2>3. QED
    BY <1>2, <2>1, <2>2, NothingHeld
<1>3. CASE t \in Producers /\ Claim(t)
  <2>1. CASE Begin(t, "write") /\ write_cnt < Records /\ write_cnt' = write_cnt + 1 /\ val'[t] = write_cnt'
    <3>1. Others(t)
      BY <2>1, BegunOthers DEF TestInv, Ops
    <3>2. Contents' = Contents /\ ~Pending(t) /\ ~Taken(t) /\ Pending(t)' /\ ~Taken(t)'
      BY <2>1, BegunCall DEF TestInv, Ops
    <3>3. QED
      BY <1>3, <2>1, <3>1, <3>2, ClaimsRecord DEF Claim
  <2>2. CASE UNCHANGED <<vars, write_cnt>>
    BY <1>3, <2>2, IdleRecords DEF Claim
  <2>3. QED
    BY <1>3, <2>1, <2>2 DEF Claim
<1>4. CASE t \in Consumers /\ (Poll(t) \/ ReadOnce(t))
  BY <1>2, <1>4 DEF Poll, ReadOnce
<1>5. CASE t = Main /\ JoinProducers(t)
  BY <1>2, <1>5 DEF JoinProducers
<1>6. CASE t = Main /\ JoinConsumers(t)
  BY <1>6, IdleRecords DEF JoinConsumers
<1>7. QED
  BY <1>1, <1>3, <1>4, <1>5, <1>6 DEF TestStep, Act

-----------------------------------------------------------------------------
(* The invariant of the test. *)

LEMMA TestInitInv == TestInit => TestInv
<1> SUFFICES ASSUME TestInit PROVE TestInv
  OBVIOUS
<1>1. IndInv
  BY InitInd DEF TestInit
<1>2. PlaceInv
  BY WhoIsWho DEF TestInit, Init, PlaceInv
<1>3. Contents = << >> /\ Len(Contents) = 0
  BY <1>1, ContentsType DEF TestInit, Init, IndInv, Empty
<1>4. \A t \in Threads : ~Pending(t) /\ ~Taken(t)
  BY DEF TestInit, Init, Pending, Taken
<1>5. OnceInv
  BY <1>3, <1>4 DEF OnceInv, Distinct
<1>6. \A x : x \notin Stocked /\ x \notin Writing /\ x \notin Reading /\ x \notin found
  <2>1. Stocked = {}
    BY <1>1, <1>3, StockType DEF IndInv, Elements
  <2>2. QED
    BY <1>4, <2>1, OwnPart DEF TestInit
<1>7. PartsInv
  BY <1>6 DEF TestInit, TestSetting, PartsInv, Apart
<1>8. QED
  BY <1>1, <1>2, <1>5, <1>7 DEF TestInv

LEMMA TestNextInv == TestInv /\ [TestNext]_<<vars, test>> => TestInv'
<1> SUFFICES ASSUME TestInv, [TestNext]_<<vars, test>> PROVE TestInv'
  OBVIOUS
<1>1. CASE UNCHANGED <<vars, test>>
  <2>1. IndInv'
    BY <1>1, NextInd DEF TestInv
  <2>2. PlaceInv'
    BY <1>1 DEF TestInv, PlaceInv, vars, test
  <2>3. QED
    BY <1>1, <2>1, <2>2, IdleRecords DEF test, TestInv
<1>2. ASSUME NEW t \in Threads, TestStep(t) PROVE TestInv'
  <2>1. IndInv'
    BY <1>2, StepOfTheBuffer, BufferInd, NextInd DEF TestInv, PlaceInv
  <2>2. QED
    BY <1>2, <2>1, StepPlaces, StepRecords DEF TestInv
<1>3. QED
  BY <1>1, <1>2 DEF TestNext, TestStep

-----------------------------------------------------------------------------
(* Counting the records. *)

(* A sequence without repetitions has as many elements as places. *)
LEMMA DistinctLength ==
  ASSUME NEW S, NEW q \in Seq(S), Distinct(q)
  PROVE  IsFiniteSet(Elements(q)) /\ Cardinality(Elements(q)) = Len(q)
<1>1. Len(q) \in Nat /\ DOMAIN q = 1 .. Len(q)
  OBVIOUS
<1>2. q \in Bijection(1 .. Len(q), Elements(q))
  <2>1. q \in [1 .. Len(q) -> Elements(q)]
    BY DEF Elements
  <2>2. q \in Injection(1 .. Len(q), Elements(q))
    BY <2>1 DEF Injection, IsInjective, Distinct
  <2>3. q \in Surjection(1 .. Len(q), Elements(q))
    BY <2>1 DEF Surjection, Elements
  <2>4. QED
    BY <2>2, <2>3 DEF Bijection
<1>3. ExistsBijection(1 .. Len(q), Elements(q))
  BY <1>2 DEF ExistsBijection
<1>4. IsFiniteSet(1 .. Len(q)) /\ Cardinality(1 .. Len(q)) = Len(q)
  BY <1>1, FS_Interval
<1>5. QED
  BY <1>3, <1>4, FS_Bijection

LEMMA DisjointUnion ==
  ASSUME NEW A, NEW B, IsFiniteSet(A), IsFiniteSet(B), A \cap B = {}
  PROVE  IsFiniteSet(A \cup B) /\ Cardinality(A \cup B) = Cardinality(A) + Cardinality(B)
<1>1. Cardinality(A) \in Nat /\ Cardinality(B) \in Nat
  BY FS_CardinalityType
<1>2. Cardinality(A \cap B) = 0
  BY FS_EmptySet
<1>3. /\ IsFiniteSet(A \cup B)
      /\ Cardinality(A \cup B) = Cardinality(A) + Cardinality(B) - Cardinality(A \cap B)
  BY FS_Union
<1>4. QED
  BY <1>1, <1>2, <1>3

LEMMA Conservation == TestInv => RecordsAreConserved
<1> SUFFICES ASSUME TestInv PROVE RecordsAreConserved
  OBVIOUS
<1>1. write_cnt \in Nat /\ Apart(write_cnt, Stocked, Writing, Reading, found)
  BY DEF TestInv, PlaceInv, TestSetting, PartsInv
<1>2. Cardinality(Stocked) = Count /\ Contents \in Seq(Values)
  BY StockType, DistinctLength DEF TestInv, IndInv, OnceInv
<1>3. IsFiniteSet(1 .. write_cnt) /\ Cardinality(1 .. write_cnt) = write_cnt
  BY <1>1, FS_Interval
<1>4. /\ Stocked \subseteq 1 .. write_cnt /\ Writing \subseteq 1 .. write_cnt
      /\ Reading \subseteq 1 .. write_cnt /\ found \subseteq 1 .. write_cnt
  BY <1>1 DEF Apart
<1>5. IsFiniteSet(Stocked) /\ IsFiniteSet(Writing) /\ IsFiniteSet(Reading) /\ IsFiniteSet(found)
  BY <1>3, <1>4, FS_Subset
<1>6. 1 .. write_cnt = ((Stocked \cup Writing) \cup Reading) \cup found
  BY <1>1 DEF Apart
<1>7. /\ Stocked \cap Writing = {} /\ (Stocked \cup Writing) \cap Reading = {}
      /\ ((Stocked \cup Writing) \cup Reading) \cap found = {}
  BY <1>1 DEF Apart
<1>8. /\ IsFiniteSet(Stocked \cup Writing)
      /\ Cardinality(Stocked \cup Writing) = Cardinality(Stocked) + Cardinality(Writing)
  BY <1>5, <1>7, DisjointUnion
<1>9. /\ IsFiniteSet((Stocked \cup Writing) \cup Reading)
      /\ Cardinality((Stocked \cup Writing) \cup Reading) =
            Cardinality(Stocked \cup Writing) + Cardinality(Reading)
  BY <1>5, <1>7, <1>8, DisjointUnion
<1>10. write_cnt = Cardinality((Stocked \cup Writing) \cup Reading) + Cardinality(found)
  BY <1>3, <1>5, <1>6, <1>7, <1>9, DisjointUnion
<1>11. write_cnt = Count + Cardinality(Writing) + Cardinality(Reading) + Cardinality(found)
  BY <1>2, <1>8, <1>9, <1>10
<1>12. 1 .. write_cnt = UNION {Stocked, Writing, Reading, found}
  BY <1>6
<1>13. QED
  BY <1>11, <1>12 DEF RecordsAreConserved

(* unit_test_safe_rbf.hpp: with any number of producers, consumers, records *)
(* and slots, every numbered record is with its writer, in the buffer, with *)
(* its reader or reported, once: the calls of read() and write() neither    *)
(* lose nor double one, wherever the threads are interrupted.               *)
THEOREM NoRecordIsLost == TestSpec => []RecordsAreConserved
<1>1. TestSpec => []TestInv
  BY TestInitInv, TestNextInv, PTL DEF TestSpec
<1>2. QED
  BY <1>1, Conservation, PTL
=============================================================================
