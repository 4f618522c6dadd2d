-------------------------- MODULE ThreadPoolProofs --------------------------
(* Proofs about ThreadPool, for any workers, clients and tasks.             *)
EXTENDS ThreadPool, FiniteSetTheorems, SequenceTheorems, TLAPS

(* One step of one thread. *)
WorkerStep(w) == Loop(w) \/ Finish(w) \/ SpuriousWake(w)
ClientStep(c) == Adding(c) \/ Leave(c) \/ Destroy(c) \/ \E k \in Tasks : AddTask(c, k)

-----------------------------------------------------------------------------
(* The inductive invariant. *)

LEMMA InitInv == Init => IndInv
<1> SUFFICES ASSUME Init PROVE IndInv
  OBVIOUS
<1> USE WorkersAssumption, ClientsAssumption, TasksAssumption DEF Init, Threads
<1>1. tasks \in Seq(Tasks)
  BY EmptySeq
<1>2. at \in [Threads -> {"lock", "run", "wait", "exit", "idle", "notify", "gone"}]
  OBVIOUS
<1>3. task \in [Threads -> Tasks \cup {NoTask}]
  OBVIOUS
<1>4. PlaceInv
  BY DEF PlaceInv
<1>5. QED
  BY <1>1, <1>2, <1>3, <1>4 DEF IndInv, TypeOK

LEMMA WorkerType ==
  ASSUME IndInv, NEW w \in Workers, WorkerStep(w) PROVE TypeOK'
<1> USE DEF IndInv, TypeOK, Threads, Goto
<1>1. CASE Take(w)
  <2>1. Head(tasks) \in Tasks /\ Tail(tasks) \in Seq(Tasks)
    BY <1>1 DEF Take
  <2>2. QED
    BY <1>1, <2>1 DEF Take
<1>2. CASE Finish(w)
  <2>1. task[w] \in Tasks
    BY <1>2, TasksAssumption DEF PlaceInv, Finish
  <2>2. QED
    BY <1>2, <2>1 DEF Finish
<1>3. CASE Break(w)
  BY <1>3 DEF Break
<1>4. CASE Sleep(w)
  BY <1>4 DEF Sleep
<1>5. CASE SpuriousWake(w)
  BY <1>5 DEF SpuriousWake
<1>6. QED
  BY <1>1, <1>2, <1>3, <1>4, <1>5 DEF WorkerStep, Loop

LEMMA WorkerPlace ==
  ASSUME IndInv, NEW w \in Workers, WorkerStep(w) PROVE PlaceInv'
<1> USE WorkersAssumption, TasksAssumption DEF IndInv, TypeOK, Threads, Goto, PlaceInv
<1>1. CASE Take(w)
  <2>1. Head(tasks) \in Tasks
    BY <1>1 DEF Take
  <2>2. QED
    BY <1>1, <2>1 DEF Take
<1>2. CASE Finish(w)
  BY <1>2 DEF Finish
<1>3. CASE Break(w)
  BY <1>3 DEF Break
<1>4. CASE Sleep(w)
  BY <1>4 DEF Sleep
<1>5. CASE SpuriousWake(w)
  BY <1>5 DEF SpuriousWake
<1>6. QED
  BY <1>1, <1>2, <1>3, <1>4, <1>5 DEF WorkerStep, Loop

LEMMA ClientType ==
  ASSUME IndInv, NEW c \in Clients, ClientStep(c) PROVE TypeOK'
<1> USE DEF IndInv, TypeOK, Threads, Goto, Notify
<1>1. CASE \E k \in Tasks : AddTask(c, k)
  BY <1>1 DEF AddTask
<1>2. CASE Leave(c)
  BY <1>2 DEF Leave
<1>3. CASE Destroy(c)
  BY <1>3 DEF Destroy
<1>4. CASE Emplace(c)
  <2>1. Append(tasks, task[c]) \in Seq(Tasks)
    BY <1>4 DEF Emplace
  <2>2. QED
    BY <1>4, <2>1 DEF Emplace
<1>5. CASE SetClosed(c)
  BY <1>5 DEF SetClosed
<1>6. CASE NotifyOne(c)
  BY <1>6 DEF NotifyOne, Asleep
<1>7. CASE NotifyAll(c)
  BY <1>7 DEF NotifyAll, Asleep
<1>8. QED
  BY <1>1, <1>2, <1>3, <1>4, <1>5, <1>6, <1>7 DEF ClientStep, Adding

LEMMA ClientPlace ==
  ASSUME IndInv, NEW c \in Clients, ClientStep(c) PROVE PlaceInv'
<1> USE WorkersAssumption, TasksAssumption DEF IndInv, TypeOK, Threads, Goto, PlaceInv
<1>1. CASE \E k \in Tasks : AddTask(c, k)
  BY <1>1 DEF AddTask
<1>2. CASE Leave(c)
  BY <1>2 DEF Leave
<1>3. CASE Destroy(c)
  BY <1>3 DEF Destroy
<1>4. CASE Emplace(c)
  BY <1>4 DEF Emplace
<1>5. CASE SetClosed(c)
  BY <1>5 DEF SetClosed
<1>6. CASE NotifyOne(c)
  BY <1>6 DEF NotifyOne, Notify, Asleep
<1>7. CASE NotifyAll(c)
  BY <1>7 DEF NotifyAll, Notify, Asleep
<1>8. QED
  BY <1>1, <1>2, <1>3, <1>4, <1>5, <1>6, <1>7 DEF ClientStep, Adding

LEMMA StepInv == IndInv /\ [Next]_vars => IndInv'
<1> SUFFICES ASSUME IndInv, [Next]_vars PROVE IndInv'
  OBVIOUS
<1>1. ASSUME NEW w \in Workers, WorkerStep(w) PROVE IndInv'
  BY <1>1, WorkerType, WorkerPlace DEF IndInv
<1>2. ASSUME NEW c \in Clients, ClientStep(c) PROVE IndInv'
  BY <1>2, ClientType, ClientPlace DEF IndInv
<1>3. CASE UNCHANGED vars
  BY <1>3 DEF vars, IndInv, TypeOK, PlaceInv
<1>4. QED
  BY <1>1, <1>2, <1>3 DEF Next, WorkerStep, ClientStep

(* Every thread is where its kind of thread can be, holds a task exactly    *)
(* where it should, and a worker only leaves a closed pool with no task in  *)
(* the queue.                                                               *)
THEOREM Invariance == Spec => []IndInv
BY InitInv, StepInv, PTL DEF Spec

-----------------------------------------------------------------------------
(* Conservation of tasks. *)

(* The elements of a sequence, and that it has none twice. *)
Elements(s) == {s[i] : i \in 1 .. Len(s)}
Distinct(s) == \A i, j \in 1 .. Len(s) : s[i] = s[j] => i = j

LEMMA TailElements ==
  ASSUME NEW s \in Seq(Tasks), s # <<>>, Distinct(s)
  PROVE  /\ Elements(Tail(s)) = Elements(s) \ {Head(s)}
         /\ Head(s) \in Elements(s)
         /\ Distinct(Tail(s))
<1>1. /\ Head(s) = s[1] /\ Len(s) \in Nat /\ Len(s) >= 1
      /\ Tail(s) \in Seq(Tasks) /\ Len(Tail(s)) = Len(s) - 1
      /\ \A i \in 1 .. Len(Tail(s)) : Tail(s)[i] = s[i + 1]
  BY HeadTailProperties
<1>2. Distinct(Tail(s))
  BY <1>1 DEF Distinct
<1>3. ASSUME NEW x \in Elements(Tail(s)) PROVE x \in Elements(s) \ {Head(s)}
  <2>1. PICK i \in 1 .. Len(Tail(s)) : x = Tail(s)[i]
    BY DEF Elements
  <2>2. i + 1 \in 1 .. Len(s) /\ i + 1 # 1 /\ x = s[i + 1]
    BY <1>1, <2>1
  <2>3. QED
    BY <1>1, <2>2 DEF Elements, Distinct
<1>4. ASSUME NEW x \in Elements(s), x # Head(s) PROVE x \in Elements(Tail(s))
  <2>1. PICK i \in 1 .. Len(s) : x = s[i]
    BY DEF Elements
  <2>2. i - 1 \in 1 .. Len(Tail(s)) /\ x = Tail(s)[i - 1]
    BY <1>1, <1>4, <2>1
  <2>3. QED
    BY <2>2 DEF Elements
<1>5. Head(s) \in Elements(s)
  <2>1. 1 \in 1 .. Len(s)
    BY <1>1
  <2>2. QED
    BY <1>1, <2>1 DEF Elements
<1>6. Elements(Tail(s)) = Elements(s) \ {Head(s)}
  BY <1>3, <1>4
<1>7. QED
  BY <1>2, <1>5, <1>6

LEMMA AppendElements ==
  ASSUME NEW s \in Seq(Tasks), NEW k \in Tasks, Distinct(s), k \notin Elements(s)
  PROVE  Elements(Append(s, k)) = Elements(s) \cup {k} /\ Distinct(Append(s, k))
<1>1. /\ Len(s) \in Nat /\ Len(Append(s, k)) = Len(s) + 1
      /\ \A i \in 1 .. Len(s) : Append(s, k)[i] = s[i]
      /\ Append(s, k)[Len(s) + 1] = k
  BY AppendProperties
<1>2. 1 .. Len(Append(s, k)) = (1 .. Len(s)) \cup {Len(s) + 1}
  BY <1>1
<1>3. QED
  BY <1>1, <1>2 DEF Elements, Distinct

(* A thread that takes a task in hand, and one that lets go of it. *)
LEMMA HeldGrows ==
  ASSUME TypeOK, NEW t \in Threads, NEW k \in Tasks,
         task[t] = NoTask, task' = [task EXCEPT ![t] = k]
  PROVE  Held' = Held \cup {k}
BY TasksAssumption DEF TypeOK, Held

LEMMA HeldShrinks ==
  ASSUME TypeOK, NEW t \in Threads, task[t] # NoTask,
         \A s \in Threads : task[s] = task[t] => s = t,
         task' = [task EXCEPT ![t] = NoTask]
  PROVE  Held' = Held \ {task[t]} /\ task[t] \in Held
BY TasksAssumption DEF TypeOK, Held

LEMMA WorkerConserves ==
  ASSUME IndInv, TasksAreConserved, NEW w \in Workers, WorkerStep(w)
  PROVE  TasksAreConserved'
<1> USE DEF IndInv, TypeOK, Threads
<1>1. CASE Take(w)
  <2>1. Head(tasks) \in Tasks
    BY <1>1 DEF Take
  <2>2. Distinct(tasks) /\ tasks # <<>>
    BY <1>1 DEF Take, TasksAreConserved, Distinct
  <2>3. Queued' = Queued \ {Head(tasks)} /\ Head(tasks) \in Queued /\ Distinct(tasks')
    BY <1>1, <2>2, TailElements DEF Take, Elements, Queued
  <2>4. task[w] = NoTask
    BY <1>1 DEF Take, PlaceInv
  <2>5. Held' = Held \cup {Head(tasks)}
    BY <1>1, <2>1, <2>4, HeldGrows DEF Take
  <2>6. \A s, t \in Threads : task'[s] = task'[t] /\ task'[s] # NoTask => s = t
    BY <1>1, <2>3 DEF Take, TasksAreConserved, Held
  <2>7. QED
    BY <1>1, <2>3, <2>5, <2>6 DEF Take, TasksAreConserved, Distinct
<1>2. CASE Finish(w)
  <2>1. task[w] # NoTask
    BY <1>2 DEF Finish, PlaceInv
  <2>2. Held' = Held \ {task[w]} /\ task[w] \in Held
    BY <1>2, <2>1, HeldShrinks DEF Finish, TasksAreConserved
  <2>3. QED
    BY <1>2, <2>1, <2>2 DEF Finish, TasksAreConserved, Queued
<1>3. CASE Break(w) \/ Sleep(w) \/ SpuriousWake(w)
  BY <1>3 DEF Break, Sleep, SpuriousWake, TasksAreConserved, Held, Queued
<1>4. QED
  BY <1>1, <1>2, <1>3 DEF WorkerStep, Loop

LEMMA ClientConserves ==
  ASSUME IndInv, TasksAreConserved, NEW c \in Clients, ClientStep(c)
  PROVE  TasksAreConserved'
<1> USE DEF IndInv, TypeOK, Threads
<1>1. ASSUME NEW k \in Tasks, AddTask(c, k) PROVE TasksAreConserved'
  <2>1. task[c] = NoTask
    BY <1>1 DEF AddTask, PlaceInv
  <2>2. Held' = Held \cup {k}
    BY <1>1, <2>1, HeldGrows DEF AddTask
  <2>3. \A s, t \in Threads : task'[s] = task'[t] /\ task'[s] # NoTask => s = t
    BY <1>1 DEF AddTask, TasksAreConserved, Held
  <2>4. QED
    BY <1>1, <2>2, <2>3 DEF AddTask, TasksAreConserved, Queued
<1>2. CASE Emplace(c)
  <2>1. task[c] # NoTask /\ task[c] \in Tasks
    BY <1>2 DEF Emplace
  <2>2. Held' = Held \ {task[c]} /\ task[c] \in Held
    BY <1>2, <2>1, HeldShrinks DEF Emplace, TasksAreConserved
  <2>3. Distinct(tasks) /\ task[c] \notin Elements(tasks)
    BY <2>2 DEF TasksAreConserved, Distinct, Elements, Queued
  <2>4. Queued' = Queued \cup {task[c]} /\ Distinct(tasks')
    BY <1>2, <2>1, <2>3, AppendElements DEF Emplace, Elements, Queued
  <2>5. \A s, t \in Threads : task'[s] = task'[t] /\ task'[s] # NoTask => s = t
    BY <1>2 DEF Emplace, TasksAreConserved
  <2>6. QED
    BY <1>2, <2>2, <2>4, <2>5 DEF Emplace, TasksAreConserved, Distinct
<1>3. CASE Leave(c) \/ Destroy(c) \/ SetClosed(c) \/ NotifyOne(c) \/ NotifyAll(c)
  BY <1>3 DEF Leave, Destroy, SetClosed, NotifyOne, NotifyAll, TasksAreConserved, Held, Queued
<1>4. QED
  BY <1>1, <1>2, <1>3 DEF ClientStep, Adding

(* No task is lost, doubled or run twice. *)
THEOREM Conservation == Spec => []TasksAreConserved
<1>1. Init => TasksAreConserved
  BY DEF Init, TasksAreConserved, Held, Queued
<1>2. IndInv /\ TasksAreConserved /\ [Next]_vars => TasksAreConserved'
  <2> SUFFICES ASSUME IndInv, TasksAreConserved, [Next]_vars PROVE TasksAreConserved'
    OBVIOUS
  <2>1. ASSUME NEW w \in Workers, WorkerStep(w) PROVE TasksAreConserved'
    BY <2>1, WorkerConserves
  <2>2. ASSUME NEW c \in Clients, ClientStep(c) PROVE TasksAreConserved'
    BY <2>2, ClientConserves
  <2>3. CASE UNCHANGED vars
    BY <2>3 DEF vars, TasksAreConserved, Held, Queued
  <2>4. QED
    BY <2>1, <2>2, <2>3 DEF Next, WorkerStep, ClientStep
<1>3. QED
  BY <1>1, <1>2, Invariance, PTL DEF Spec

-----------------------------------------------------------------------------
(* No task waits for a busy worker. *)

(* The workers on their way to the queue, the clients about to notify. *)
Ready == {w \in Workers : at[w] = "lock"}
Notifying == {c \in Clients : at[c] = "notify"}

LEMMA ReadyFinite ==
  /\ IsFiniteSet(Ready) /\ Cardinality(Ready) \in Nat
  /\ IsFiniteSet(Notifying) /\ Cardinality(Notifying) \in Nat
<1>1. IsFiniteSet(Ready) /\ IsFiniteSet(Notifying)
  <2>1. Ready \subseteq Workers /\ Notifying \subseteq Clients
    BY DEF Ready, Notifying
  <2>2. QED
    BY <2>1, WorkersAssumption, FS_Subset
<1>2. QED
  BY <1>1, FS_CardinalityType

(* The invariant, with the counts named. *)
Covered == Asleep # {} => Len(tasks) <= Cardinality(Ready) + Cardinality(Notifying)

LEMMA WorkerCovers ==
  ASSUME IndInv, Covered, NEW w \in Workers, WorkerStep(w) PROVE Covered'
<1> USE ReadyFinite, WorkersAssumption DEF IndInv, TypeOK, Threads, Goto
<1>1. Notifying' = Notifying
  BY DEF WorkerStep, Loop, Take, Break, Sleep, Finish, SpuriousWake, Notifying
<1>2. CASE Take(w)
  <2>1. Ready' = Ready \ {w} /\ w \in Ready
    BY <1>2 DEF Take, Ready
  <2>2. Cardinality(Ready') = Cardinality(Ready) - 1
    BY <2>1, FS_RemoveElement
  <2>3. Len(tasks') = Len(tasks) - 1 /\ Len(tasks) \in Nat
    BY <1>2, HeadTailProperties DEF Take
  <2>4. Asleep' = Asleep
    BY <1>2 DEF Take, Asleep
  <2>5. QED
    BY <1>1, <2>2, <2>3, <2>4 DEF Covered
<1>3. CASE Break(w) \/ Sleep(w)
  <2>1. Len(tasks') = 0
    BY <1>3 DEF Break, Sleep
  <2>2. Ready' = Ready \ {w} /\ w \in Ready
    BY <1>3 DEF Break, Sleep, Ready
  <2>3. Cardinality(Ready') \in Nat
    BY <2>2, FS_Subset, FS_CardinalityType
  <2>4. QED
    BY <1>1, <2>1, <2>3 DEF Covered
<1>4. CASE Finish(w) \/ SpuriousWake(w)
  <2>1. Ready' = Ready \cup {w} /\ w \notin Ready
    BY <1>4 DEF Finish, SpuriousWake, Ready
  <2>2. Cardinality(Ready') = Cardinality(Ready) + 1
    BY <2>1, FS_AddElement
  <2>3. tasks' = tasks /\ Asleep' \subseteq Asleep
    BY <1>4 DEF Finish, SpuriousWake, Asleep
  <2>4. Len(tasks) \in Nat
    BY LenProperties
  <2>5. QED
    BY <1>1, <2>2, <2>3, <2>4 DEF Covered
<1>5. QED
  BY <1>2, <1>3, <1>4 DEF WorkerStep, Loop

LEMMA ClientCovers ==
  ASSUME IndInv, Covered, NEW c \in Clients, ClientStep(c) PROVE Covered'
<1> USE ReadyFinite, WorkersAssumption DEF IndInv, TypeOK, Threads, Goto
<1>1. Len(tasks) \in Nat
  BY LenProperties
<1>2. CASE Emplace(c) \/ SetClosed(c)
  <2>1. Notifying' = Notifying \cup {c} /\ c \notin Notifying
    BY <1>2 DEF Emplace, SetClosed, Notifying
  <2>2. Cardinality(Notifying') = Cardinality(Notifying) + 1
    BY <2>1, FS_AddElement
  <2>3. Len(tasks') <= Len(tasks) + 1 /\ Len(tasks') \in Nat
    BY <1>1, <1>2, AppendProperties DEF Emplace, SetClosed
  <2>4. Ready' = Ready /\ Asleep' = Asleep
    BY <1>2 DEF Emplace, SetClosed, Ready, Asleep
  <2>5. QED
    BY <1>1, <2>2, <2>3, <2>4 DEF Covered
<1>3. CASE NotifyOne(c)
  <2>1. tasks' = tasks
    BY <1>3 DEF NotifyOne
  <2>2. CASE Asleep = {}
    BY <1>3, <2>2 DEF NotifyOne, Asleep, Covered
  <2>3. CASE Asleep # {}
    <3>1. PICK w \in Asleep : Notify(c, {w}, "idle")
      BY <1>3, <2>3 DEF NotifyOne
    <3>2. Ready' = Ready \cup {w} /\ w \notin Ready
      BY <3>1 DEF Notify, Ready, Asleep
    <3>3. Notifying' = Notifying \ {c} /\ c \in Notifying
      BY <1>3, <3>1 DEF NotifyOne, Notify, Notifying, Asleep
    <3>4. Cardinality(Ready') = Cardinality(Ready) + 1
      BY <3>2, FS_AddElement
    <3>5. Cardinality(Notifying') = Cardinality(Notifying) - 1
      BY <3>3, FS_RemoveElement
    <3>6. QED
      BY <1>1, <2>1, <2>3, <3>4, <3>5 DEF Covered
  <2>4. QED
    BY <2>2, <2>3
<1>4. CASE NotifyAll(c)
  BY <1>4 DEF NotifyAll, Notify, Asleep, Covered
<1>5. CASE Leave(c) \/ Destroy(c) \/ \E k \in Tasks : AddTask(c, k)
  <2>1. Ready' = Ready /\ Asleep' = Asleep /\ Notifying' = Notifying /\ tasks' = tasks
    BY <1>5 DEF Leave, Destroy, AddTask, Ready, Asleep, Notifying
  <2>2. QED
    BY <2>1 DEF Covered
<1>6. QED
  BY <1>2, <1>3, <1>4, <1>5 DEF ClientStep, Adding

(* A task never waits for a busy worker while another worker is asleep.     *)
THEOREM Coverage == Spec => []NoTaskWaitsForABusyWorker
<1>1. Init => Covered
  BY WorkersAssumption DEF Init, Covered, Asleep, Threads
<1>2. IndInv /\ Covered /\ [Next]_vars => Covered'
  <2> SUFFICES ASSUME IndInv, Covered, [Next]_vars PROVE Covered'
    OBVIOUS
  <2>1. ASSUME NEW w \in Workers, WorkerStep(w) PROVE Covered'
    BY <2>1, WorkerCovers
  <2>2. ASSUME NEW c \in Clients, ClientStep(c) PROVE Covered'
    BY <2>2, ClientCovers
  <2>3. CASE UNCHANGED vars
    BY <2>3 DEF vars, Covered, Asleep, Ready, Notifying
  <2>4. QED
    BY <2>1, <2>2, <2>3 DEF Next, WorkerStep, ClientStep
<1>3. Covered => NoTaskWaitsForABusyWorker
  BY DEF Covered, NoTaskWaitsForABusyWorker, Ready, Notifying
<1>4. QED
  BY <1>1, <1>2, <1>3, Invariance, PTL DEF Spec
=============================================================================
