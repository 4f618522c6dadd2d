----------------------------- MODULE ThreadPool -----------------------------
(***************************************************************************)
(* mfwu_webserver::ThreadPool: workers that share a queue of tasks, a      *)
(* mutex, one condition variable and a closing flag, kept alive by the     *)
(* detached workers after the pool object is gone.                         *)
(*                                                                         *)
(* The worker loop holds the mutex except while it runs a task or sleeps,  *)
(* and tasks and isClosed are touched under the mutex only, so each pass   *)
(* through the loop's condition is one step.                               *)
(*                                                                         *)
(* at[t] is where thread t stands.  A worker is at "lock" (starting, woken *)
(* or back from a task, about to take the mutex), "run" (in task()),       *)
(* "wait" (asleep in cond.wait) or "exit".  A client is "idle", at "lock"  *)
(* or at "notify" in AddTask() or the destructor, or "gone" once its last  *)
(* call has returned.                                                      *)
(***************************************************************************)
EXTENDS Integers, Sequences, FiniteSets

CONSTANTS
  Workers,   (* the threadCount threads of the constructor                 *)
  Clients,   (* the threads that call AddTask()                            *)
  Owner,     (* the client that destroys the pool                          *)
  Tasks,     (* the tasks there are to add                                 *)
  Endless,   (* those that never return                                    *)
  NoTask

ASSUME WorkersAssumption ==
  /\ Workers # {} /\ Workers \cap Clients = {}
  /\ IsFiniteSet(Workers) /\ IsFiniteSet(Clients)
ASSUME ClientsAssumption == Owner \in Clients
ASSUME TasksAssumption == NoTask \notin Tasks /\ Endless \subseteq Tasks

VARIABLES
  tasks,     (* pool_->tasks                                               *)
  isClosed,  (* pool_->isClosed                                            *)
  at,        (* where each thread stands                                   *)
  task,      (* the task a worker has moved out or a client is adding      *)
  added,     (* history: the tasks clients have come with                  *)
  finished   (* history: the tasks that have returned                      *)

vars == <<tasks, isClosed, at, task, added, finished>>

Threads == Workers \cup Clients

Asleep == {w \in Workers : at[w] = "wait"}

Goto(t, place) == at' = [at EXCEPT ![t] = place]

(* The threads of W leave cond.wait, and t goes to place. *)
Notify(t, W, place) ==
  at' = [s \in Threads |-> IF s = t THEN place ELSE IF s \in W THEN "lock" ELSE at[s]]

Init ==
  /\ tasks = <<>>
  /\ isClosed = FALSE
  /\ at = [t \in Threads |-> IF t \in Workers THEN "lock" ELSE "idle"]
  /\ task = [t \in Threads |-> NoTask]
  /\ added = {}
  /\ finished = {}

-----------------------------------------------------------------------------
(* The worker loop. *)

(* A slip to rule out: tasks.front() without tasks.pop().                    *)
TakeWithoutPop(w) ==
  /\ at[w] = "lock"
  /\ tasks # <<>>
  /\ task' = [task EXCEPT ![w] = Head(tasks)]
  /\ Goto(w, "run")
  /\ UNCHANGED <<tasks, isClosed, added, finished>>

(* A task is moved out and run with the mutex released. *)
Take(w) ==
  /\ at[w] = "lock"
  /\ tasks # <<>>
  /\ task' = [task EXCEPT ![w] = Head(tasks)]
  /\ tasks' = Tail(tasks)
  /\ Goto(w, "run")
  /\ UNCHANGED <<isClosed, added, finished>>

Finish(w) ==
  /\ at[w] = "run"
  /\ task[w] \notin Endless
  /\ finished' = finished \cup {task[w]}
  /\ task' = [task EXCEPT ![w] = NoTask]
  /\ Goto(w, "lock")
  /\ UNCHANGED <<tasks, isClosed, added>>

(* A slip to rule out: the loop tests isClosed before the queue.            *)
BreakAtOnce(w) ==
  /\ at[w] = "lock"
  /\ isClosed
  /\ Goto(w, "exit")
  /\ UNCHANGED <<tasks, isClosed, task, added, finished>>

Break(w) ==
  /\ at[w] = "lock"
  /\ tasks = <<>>
  /\ isClosed
  /\ Goto(w, "exit")
  /\ UNCHANGED <<tasks, isClosed, task, added, finished>>

Sleep(w) ==
  /\ at[w] = "lock"
  /\ tasks = <<>>
  /\ ~isClosed
  /\ Goto(w, "wait")
  /\ UNCHANGED <<tasks, isClosed, task, added, finished>>

SpuriousWake(w) ==
  /\ at[w] = "wait"
  /\ Goto(w, "lock")
  /\ UNCHANGED <<tasks, isClosed, task, added, finished>>

-----------------------------------------------------------------------------
(* AddTask(), and the destructor, which its owner runs when no other thread *)
(* is using the pool object any more.                                       *)

AddTask(c, k) ==
  /\ at[c] = "idle"
  /\ k \notin added
  /\ added' = added \cup {k}
  /\ task' = [task EXCEPT ![c] = k]
  /\ Goto(c, "lock")
  /\ UNCHANGED <<tasks, isClosed, finished>>

Leave(c) ==
  /\ at[c] = "idle"
  /\ c # Owner
  /\ Goto(c, "gone")
  /\ UNCHANGED <<tasks, isClosed, task, added, finished>>

Destroy(c) ==
  /\ at[c] = "idle"
  /\ c = Owner
  /\ \A d \in Clients \ {c} : at[d] = "gone"
  /\ Goto(c, "lock")
  /\ UNCHANGED <<tasks, isClosed, task, added, finished>>

(* A slip to rule out: AddTask() notifies only if the queue was empty.      *)
EmplaceQuietly(c) ==
  /\ at[c] = "lock"
  /\ task[c] # NoTask
  /\ tasks' = Append(tasks, task[c])
  /\ task' = [task EXCEPT ![c] = NoTask]
  /\ Goto(c, IF tasks = <<>> THEN "notify" ELSE "idle")
  /\ UNCHANGED <<isClosed, added, finished>>

(* tasks.emplace(task), then the mutex is released before notify_one(). *)
Emplace(c) ==
  /\ at[c] = "lock"
  /\ task[c] # NoTask
  /\ tasks' = Append(tasks, task[c])
  /\ task' = [task EXCEPT ![c] = NoTask]
  /\ Goto(c, "notify")
  /\ UNCHANGED <<isClosed, added, finished>>

SetClosed(c) ==
  /\ at[c] = "lock"
  /\ task[c] = NoTask
  /\ isClosed' = TRUE
  /\ Goto(c, "notify")
  /\ UNCHANGED <<tasks, task, added, finished>>

NotifyOne(c) ==
  /\ at[c] = "notify"
  /\ ~isClosed
  /\ IF Asleep = {} THEN Goto(c, "idle") ELSE \E w \in Asleep : Notify(c, {w}, "idle")
  /\ UNCHANGED <<tasks, isClosed, task, added, finished>>

(* A slip to rule out: the destructor wakes one worker.                     *)
NotifyOneOnClose(c) ==
  /\ at[c] = "notify"
  /\ isClosed
  /\ IF Asleep = {} THEN Goto(c, "gone") ELSE \E w \in Asleep : Notify(c, {w}, "gone")
  /\ UNCHANGED <<tasks, isClosed, task, added, finished>>

NotifyAll(c) ==
  /\ at[c] = "notify"
  /\ isClosed
  /\ Notify(c, Asleep, "gone")
  /\ UNCHANGED <<tasks, isClosed, task, added, finished>>

-----------------------------------------------------------------------------
Loop(w) == Take(w) \/ Break(w) \/ Sleep(w)

Adding(c) == Emplace(c) \/ SetClosed(c) \/ NotifyOne(c) \/ NotifyAll(c)

Next ==
  \/ \E w \in Workers : Loop(w) \/ Finish(w) \/ SpuriousWake(w)
  \/ \E c \in Clients : Adding(c) \/ Leave(c) \/ Destroy(c) \/ \E k \in Tasks : AddTask(c, k)

Spec == Init /\ [][Next]_vars

(* The mutex is always released, so every thread that asks for it gets it;  *)
(* a task that is not Endless returns.  No client has to add or destroy.    *)
Fairness ==
  /\ \A w \in Workers : WF_vars(Loop(w)) /\ WF_vars(Finish(w))
  /\ \A c \in Clients : WF_vars(Adding(c))

FairSpec == Spec /\ Fairness

-----------------------------------------------------------------------------
Held == {task[t] : t \in Threads} \ {NoTask}
Queued == {tasks[i] : i \in 1 .. Len(tasks)}

TypeOK ==
  /\ tasks \in Seq(Tasks)
  /\ isClosed \in BOOLEAN
  /\ at \in [Threads -> {"lock", "run", "wait", "exit", "idle", "notify", "gone"}]
  /\ task \in [Threads -> Tasks \cup {NoTask}]
  /\ added \subseteq Tasks
  /\ finished \subseteq Tasks

(* The places of a worker and of a client, and what they hold there.        *)
PlaceInv ==
  /\ \A w \in Workers : /\ at[w] \in {"lock", "run", "wait", "exit"}
                        /\ at[w] = "run" <=> task[w] # NoTask
                        /\ at[w] = "exit" => isClosed /\ tasks = <<>>
  /\ \A c \in Clients : /\ at[c] \in {"idle", "lock", "notify", "gone"}
                        /\ task[c] # NoTask => at[c] = "lock"
                        /\ at[c] = "lock" /\ task[c] = NoTask =>
                             c = Owner /\ \A d \in Clients \ {c} : at[d] = "gone"
                        /\ isClosed =>
                             at[c] = "gone" \/ (c = Owner /\ at[c] = "notify")

IndInv == TypeOK /\ PlaceInv

(* A task that was added is in exactly one place: with the client that adds *)
(* it, in the queue, with the worker that runs it, or finished.  No task is *)
(* lost or run twice, also when the pool is destroyed with tasks left.      *)
TasksAreConserved ==
  /\ added = UNION {Held, Queued, finished}
  /\ Held \cap Queued = {} /\ Held \cap finished = {} /\ Queued \cap finished = {}
  /\ \A s, t \in Threads : task[s] = task[t] /\ task[s] # NoTask => s = t
  /\ \A i, j \in 1 .. Len(tasks) : tasks[i] = tasks[j] => i = j

(* While a worker sleeps, every queued task has a worker of its own on the  *)
(* way to the queue or a client about to wake one: a task never waits for a *)
(* busy worker when another worker is asleep.                               *)
NoTaskWaitsForABusyWorker ==
  Asleep # {} =>
    Len(tasks) <= Cardinality({w \in Workers : at[w] = "lock"})
                  + Cardinality({c \in Clients : at[c] = "notify"})

(* Every task added is run, except behind tasks that never return: with a   *)
(* worker left that is not in one of those, it is begun, and a task that    *)
(* can return does.                                                         *)
TasksAreRun ==
  \A k \in Tasks :
    k \in added ~> \/ k \in finished
                   \/ \E w \in Workers : k \in Endless /\ task[w] = k
                   \/ \A w \in Workers : task[w] \in Endless

(* Once the pool is destroyed every worker breaks out of its loop, unless a *)
(* task keeps it, and none stays asleep: the detached threads do not leak.  *)
WorkersExit ==
  \A w \in Workers : isClosed ~> at[w] = "exit" \/ task[w] \in Endless
=============================================================================
