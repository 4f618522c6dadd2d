---------------------------- MODULE SafeRbfTest ----------------------------
(***************************************************************************)
(* unit_test_safe_rbf::use_rbf_with_mtx(): producers that number their     *)
(* records with a shared counter and write them, consumers that poll       *)
(* is_close() and read, and a main thread that joins the producers, closes *)
(* the buffer and joins the consumers.  The buffer is RingbufferWithMutex, *)
(* step by step; the threads call it as the test does and nothing else.    *)
(*                                                                         *)
(* at[t] is where thread t stands in the test's own code: at the top of    *)
(* its loop ("loop"), inside a member function of the buffer ("call"),     *)
(* between is_close() and read() ("open"), returned ("exit"); the main     *)
(* thread is in the joins before and after its call ("loop", "open").      *)
(***************************************************************************)
EXTENDS RingbufferWithMutex

CONSTANTS Producers, Consumers, Main, Records

(* The member functions the test calls; the actions below say when. *)
TestProgram ==
  [t \in Threads |-> IF t \in Producers THEN {"write"}
                     ELSE IF t \in Consumers THEN {"is_close", "read"}
                     ELSE {"close"}]

\* How the test uses the buffer.
TestSetting ==
  /\ Threads = Producers \cup Consumers \cup {Main}
  /\ Producers \cap Consumers = {} /\ Main \notin Producers \cup Consumers
  /\ Program = TestProgram
  /\ Records \in Nat
  /\ Values = 0 .. Records
  /\ Default = 0

VARIABLES
  write_cnt,   (* how many records the producers have numbered             *)
  at,
  found        (* the records the consumers report, in no order            *)

test == <<write_cnt, at, found>>

TestInit ==
  /\ TestSetting
  /\ Init
  /\ write_cnt = 0
  /\ at = [t \in Threads |-> "loop"]
  /\ found = {}

Move(t, place) == at' = [at EXCEPT ![t] = place]

(* write_cnt_ is read, tested and incremented under output_mtx_: one step. *)
Claim(t) ==
  /\ at[t] = "loop"
  /\ \/ /\ write_cnt < Records
        /\ write_cnt' = write_cnt + 1
        /\ Begin(t, "write")
        /\ val'[t] = write_cnt'
        /\ Move(t, "call")
     \/ /\ write_cnt >= Records
        /\ Move(t, "exit")
        /\ UNCHANGED <<vars, write_cnt>>
  /\ UNCHANGED found

Poll(t) ==
  /\ at[t] = "loop"
  /\ Begin(t, "is_close")
  /\ Move(t, "call")
  /\ UNCHANGED <<write_cnt, found>>

ReadOnce(t) ==
  /\ at[t] = "open"
  /\ Begin(t, "read")
  /\ Move(t, "call")
  /\ UNCHANGED <<write_cnt, found>>

JoinProducers(t) ==
  /\ at[t] = "loop"
  /\ \A p \in Producers : at[p] = "exit"
  /\ Begin(t, "close")
  /\ Move(t, "call")
  /\ UNCHANGED <<write_cnt, found>>

JoinConsumers(t) ==
  /\ at[t] = "open"
  /\ \A c \in Consumers : at[c] = "exit"
  /\ Move(t, "exit")
  /\ UNCHANGED <<vars, write_cnt, found>>

(* Where t goes when its call returns ret[t]. *)
After(t) ==
  IF op[t] = "close" THEN "open"
  ELSE IF op[t] = "is_close" THEN IF ret[t] THEN "exit" ELSE "open"
  ELSE "loop"

(* A step A of t inside a member function, possibly its last. *)
Inside(t, A) ==
  /\ A
  /\ at[t] = "call"
  /\ IF op'[t] = "none"
       THEN /\ Move(t, After(t))
            /\ found' = IF op[t] = "read" /\ ret[t] THEN found \cup {val[t]} ELSE found
       ELSE UNCHANGED <<at, found>>
  /\ UNCHANGED write_cnt

Act(t) ==
  \/ t \in Producers /\ Claim(t)
  \/ t \in Consumers /\ (Poll(t) \/ ReadOnce(t))
  \/ t = Main /\ (JoinProducers(t) \/ JoinConsumers(t))
  \/ Inside(t, Run(t))

Acquire(t) == Inside(t, Lock(t) \/ Relock(t))

TestNext == \E t \in Threads : Act(t) \/ Acquire(t) \/ Inside(t, SpuriousWake(t))

TestSpec ==
  /\ TestInit
  /\ [][TestNext]_<<vars, test>>
  /\ \A t \in Threads : WF_<<vars, test>>(Act(t)) /\ SF_<<vars, test>>(Acquire(t))

-----------------------------------------------------------------------------
(* Where a numbered record can be. *)
Stocked == {Contents[i] : i \in 1 .. Count}
Writing == {val[t] : t \in {p \in Threads : op[p] = "write" /\ ~Done(p)}}
Reading == {val[t] : t \in {c \in Threads : op[c] = "read" /\ Done(c) /\ Ret(c)}}

(* Every record numbered so far is in exactly one place: with the producer  *)
(* that is writing it, in the buffer, with the consumer that has read it,   *)
(* or reported; and no two threads and no two slots hold the same one.      *)
RecordsAreConserved ==
  /\ 1 .. write_cnt = UNION {Stocked, Writing, Reading, found}
  /\ write_cnt = Count + Cardinality(Writing) + Cardinality(Reading) + Cardinality(found)

(* The producers' join() returns: however the consumers are scheduled, they *)
(* make room for every record, because they stop polling only once the main *)
(* thread has closed the buffer.                                            *)
ProducersAreJoined == <>(\A p \in Producers : at[p] = "exit")

(* "Close the ring buffer to notify the consumer threads to stop waiting"   *)
(* (test.cc), after which their join() must return.  A consumer that polled *)
(* is_close() before the close and reaches wait() after its notify_all()    *)
(* sleeps on: read() tests is_close_ only after a wake-up.                  *)
ConsumersAreJoined == <>(at[Main] = "exit")
=============================================================================
