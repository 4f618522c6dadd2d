------------------------------ MODULE LogProofs ------------------------------
(* Proofs about Log, for any loggers, lines, days and capacity: that mtx_   *)
(* keeps the log's state together, that a push finds room, that the file is *)
(* the right one, and that the lines keep their order.                      *)
EXTENDS Log, BlockDequeProofs

(* Where the loggers, the writing thread and the main thread can be. *)
LoggerPlaces ==
  {"out", "check", "pass", "name", "rename", "reset", "reopen", "closing", "opening",
   "lock", "count", "push", "direct", "flush", "fflush", "call"}
WriterPlaces == {"exit", "pop", "put", "call"}
MainPlaces == {"off", "running", "drain", "prod", "close", "join", "final", "closing", "call", "exit"}
Places == LoggerPlaces \cup WriterPlaces \cup MainPlaces

(* Where mtx_ is held, but for the calls of the deque. *)
Held == {"count", "push", "direct", "closing", "opening"}

PlaceInv ==
  /\ at \in [Threads -> Places]
  /\ \A l \in Loggers : at[l] \in LoggerPlaces /\ op[l] \in {"none", "full", "push_back", "flush"}
  /\ at[Writer] \in WriterPlaces /\ op[Writer] \in {"none", "pop"}
  /\ at[Main] \in MainPlaces /\ op[Main] \in {"none", "flush", "empty", "Close"}
  /\ \A t \in Threads : at[t] = "call" <=> op[t] # "none"
  /\ at[Main] = "off" => at[Writer] = "exit" /\ \A l \in Loggers : at[l] = "out"

MtxInv ==
  /\ mtx \in Threads \cup {NoThread}
  /\ \A t \in Threads :
       /\ at[t] \in Held \/ op[t] \in {"full", "push_back"} => mtx = t
       /\ mtx = t => at[t] \in Held \/ op[t] \in {"full", "push_back", "flush"}

(* A logger that has found room finds it when it pushes, which is its first *)
(* step inside push_back().                                                 *)
RoomInv ==
  \A l \in Loggers :
    /\ at[l] = "push" => ~Full
    /\ op[l] = "push_back" => ~Full /\ pc[l] = "lock"

(* The file is closed only before init(), after ~Log() and between fclose() *)
(* and fopen().                                                             *)
OpenInv ==
  /\ open \in BOOLEAN
  /\ ~open => at[Main] \in {"off", "exit"} \/ \E l \in Loggers : at[l] = "opening"

(* As long as no two loggers have changed the file at once, one at most is  *)
(* changing it, and it will open the file of toDay_.                        *)
FileInv ==
  ~overlap =>
    /\ \A k, l \in Renaming : k = l
    /\ \A l \in Renaming : at[l] # "rename" => toDay = now[l]
    /\ Renaming = {} => file = toDay

(* buff_ holds the line of the logger that has mtx_, and that one's line    *)
(* only.                                                                    *)
DataInv ==
  /\ LogTypeOK
  /\ \A l \in Loggers : sent[l] <= LinesOf[l] /\ (at[l] # "out" => sent[l] > 0)
  /\ buff # <<>> => \E l \in Loggers : mtx = l /\ (at[l] \in {"push", "direct"} \/ op[l] = "full")
  /\ \A l \in Loggers : at[l] = "push" \/ op[l] = "full" => buff # <<>>

Control == IndInv /\ PlaceInv /\ MtxInv

-----------------------------------------------------------------------------
(* What the log's steps do to the deque and to its callers. *)

LEMMA Kinds ==
  /\ Loggers \subseteq Threads /\ Writer \in Threads /\ Main \in Threads
  /\ Writer # Main /\ Writer \notin Loggers /\ Main \notin Loggers
  /\ NoThread \notin Threads
  /\ \A t \in Threads : t \in Loggers \/ t = Writer \/ t = Main
BY LogAssumption

(* t is inside the deque, and may return. *)
DequeStep(t) ==
  \/ Push(t) \/ Pop(t) \/ PopFails(t) \/ Wait(t) \/ Query(t) \/ Close(t)
  \/ Unlocked(t) \/ SpuriousWake(t)

(* Whatever it does, the others go on with their calls, asleep or woken. *)
Elsewhere(t) ==
  \A s \in Threads \ {t} : op'[s] = op[s] /\ (pc'[s] = pc[s] \/ (pc[s] = "wait" /\ pc'[s] = "woken"))

LEMMA ReturnElsewhere ==
  ASSUME IndInv, NEW t \in Threads, NEW W, ReturnWaking(t, W), W \subseteq Asleep(Ops)
  PROVE  Elsewhere(t) /\ op' = [op EXCEPT ![t] = "none"]
BY DEF ReturnWaking, Elsewhere, Asleep, IndInv, TypeOK

LEMMA NotifyElsewhere ==
  ASSUME IndInv, NEW t \in Threads, NEW O \in SUBSET Ops, NotifyOneAndReturn(t, O)
  PROVE  Elsewhere(t) /\ op' = [op EXCEPT ![t] = "none"]
<1>1. PICK W \in SUBSET Asleep(O) : ReturnWaking(t, W)
  BY DEF NotifyOneAndReturn, Return
<1>2. QED
  BY <1>1, ReturnElsewhere DEF Asleep

LEMMA DequeSteps ==
  ASSUME IndInv, NEW t \in Threads, DequeStep(t)
  PROVE  /\ IndInv' /\ Elsewhere(t)
         /\ op' = op \/ op' = [op EXCEPT ![t] = "none"]
         /\ op[t] # "none"
<1> USE DEF DequeStep
<1>1. IndInv'
  BY LockedInv, UnlockedInv, TimedInv DEF Locked
<1>2. op[t] # "none"
  BY Sides DEF Push, Pop, PopOf, PopFails, TurnedAway, Wait, Entered, Query, Queries, Close,
               Unlocked, NotifyProducers, NotifyConsumers, Flush, SpuriousWake, IndInv, LabelInv, Pushes, Pops
<1>3. Elsewhere(t) /\ (op' = op \/ op' = [op EXCEPT ![t] = "none"])
  <2>1. CASE Push(t) \/ Pop(t) \/ Flush(t)
    BY <2>1, NotifyElsewhere, Sides DEF Push, Pop, PopOf, Flush
  <2>2. CASE PopFails(t) \/ Query(t)
    BY <2>2, ReturnElsewhere DEF PopFails, Query, Return
  <2>3. CASE NotifyConsumers(t)
    BY <2>3, ReturnElsewhere, Sides DEF NotifyConsumers, Asleep
  <2>4. CASE NotifyProducers(t)
    BY <2>4 DEF NotifyProducers, Elsewhere, Asleep, IndInv, TypeOK
  <2>5. CASE Wait(t) \/ Close(t) \/ SpuriousWake(t)
    BY <2>5 DEF Wait, Close, SpuriousWake, Goto, Elsewhere, IndInv, TypeOK
  <2>6. QED
    BY <2>1, <2>2, <2>3, <2>4, <2>5 DEF Unlocked
<1>4. QED
  BY <1>1, <1>2, <1>3

LEMMA Enters ==
  ASSUME IndInv, NEW t \in Threads, NEW o \in Ops, NEW x, x \in Items <=> o \in Pushes,
         x \in Items \cup {NoItem}, Begin(t, o, x)
  PROVE  /\ IndInv' /\ UNCHANGED deq
         /\ op' = [op EXCEPT ![t] = o] /\ item' = [item EXCEPT ![t] = x]
         /\ pc' = [pc EXCEPT ![t] = IF o = "flush" THEN "flush" ELSE "lock"]
         /\ op[t] = "none"
<1>1. op[t] = "none"
  BY DEF Begin, IndInv, LabelInv
<1>2. IndInv'
  BY Sides DEF Begin, IndInv, TypeOK, LabelInv, CapacityInv, Labels
<1>3. QED
  BY <1>1, <1>2 DEF Begin

LEMMA Stays == ASSUME IndInv, UNCHANGED vars PROVE IndInv'
BY DEF vars, IndInv, TypeOK, LabelInv, CapacityInv

-----------------------------------------------------------------------------
(* Who is where, and who holds mtx_. *)

(* Nobody else moves when t does, or takes or releases mtx_. *)
Only(t) ==
  \A s \in Threads \ {t} : at'[s] = at[s] /\ op'[s] = op[s] /\ (mtx' = s <=> mtx = s)

(* What mtx_ may become in a step of t. *)
MtxMoves(t) ==
  \/ mtx' = mtx
  \/ mtx = NoThread /\ mtx' = t
  \/ mtx = t /\ mtx' = NoThread

(* A step outside the deque. *)
LEMMA MovedControl ==
  ASSUME Control, UNCHANGED vars, NEW t \in Threads, NEW p \in Places, Move(t, p),
         at[t] # "call", p # "call", at[Main] # "off", p # "off",
         t \in Loggers => p \in LoggerPlaces,
         t = Writer => p \in WriterPlaces,
         t = Main => p \in MainPlaces,
         MtxMoves(t), p \in Held <=> mtx' = t
  PROVE  Control' /\ Only(t) /\ op' = op /\ op[t] = "none" /\ at'[t] = p
<1>1. IndInv' /\ op' = op
  BY Stays DEF Control, vars
<1>2. at' \in [Threads -> Places] /\ at'[t] = p /\ \A s \in Threads \ {t} : at'[s] = at[s]
  BY DEF Control, PlaceInv, Move
<1>3. op[t] = "none"
  BY DEF Control, PlaceInv
<1>4. PlaceInv'
  BY <1>1, <1>2, <1>3, Kinds DEF Control, PlaceInv
<1>5. mtx' \in Threads \cup {NoThread} /\ \A s \in Threads \ {t} : mtx' = s <=> mtx = s
  BY Kinds DEF Control, MtxInv, MtxMoves
<1>6. MtxInv'
  BY <1>1, <1>2, <1>3, <1>5 DEF Control, MtxInv
<1>7. QED
  BY <1>1, <1>2, <1>3, <1>4, <1>5, <1>6 DEF Control, Only

(* The first step of a call of the deque. *)
LEMMA EnteredControl ==
  ASSUME Control, NEW t \in Threads, NEW o \in Ops, NEW x \in Items \cup {NoItem},
         x \in Items <=> o \in Pushes, Enter(t, o, x), at[Main] # "off",
         t \in Loggers => o \in {"full", "push_back", "flush"},
         t = Writer => o = "pop",
         t = Main => o \in {"flush", "empty", "Close"},
         MtxMoves(t), o \in {"full", "push_back"} => mtx' = t,
         mtx' = t => o \in {"full", "push_back", "flush"}
  PROVE  Control' /\ Only(t) /\ op[t] = "none" /\ op'[t] = o /\ at'[t] = "call" /\ deq' = deq
<1>1. IndInv' /\ op' = [op EXCEPT ![t] = o] /\ op[t] = "none" /\ deq' = deq
  BY Enters DEF Enter, Control
<1>2. op' \in [Threads -> Ops \cup {"none"}] /\ op'[t] = o /\ o # "none"
      /\ \A s \in Threads \ {t} : op'[s] = op[s]
  BY <1>1, Sides DEF Control, IndInv, TypeOK
<1>3. at' \in [Threads -> Places] /\ at'[t] = "call" /\ \A s \in Threads \ {t} : at'[s] = at[s]
  BY DEF Control, PlaceInv, Enter, Move, Places, LoggerPlaces
<1>4. PlaceInv'
  BY <1>1, <1>2, <1>3, Kinds DEF Control, PlaceInv, LoggerPlaces, WriterPlaces, MainPlaces
<1>5. mtx' \in Threads \cup {NoThread} /\ \A s \in Threads \ {t} : mtx' = s <=> mtx = s
  BY Kinds DEF Control, MtxInv, MtxMoves
<1>6. MtxInv'
  BY <1>2, <1>3, <1>5 DEF Control, MtxInv, Held
<1>7. QED
  BY <1>1, <1>2, <1>3, <1>4, <1>5, <1>6 DEF Control, Only

(* init() also moves the writing thread. *)
LEMMA StartControl ==
  ASSUME Control, NEW t \in Threads, Start(t)
  PROVE  /\ Control' /\ op' = op /\ t = Main
         /\ \A l \in Loggers : at'[l] = "out" /\ at[l] = "out" /\ op[l] = "none"
<1>1. IndInv' /\ op' = op /\ mtx' = mtx
  BY Stays DEF Control, Start, vars
<1>2. t = Main
  BY Kinds DEF Control, PlaceInv, Start, LoggerPlaces, WriterPlaces
<1>3. PICK p \in {"pop", "exit"} : at' = [at EXCEPT ![Main] = "running", ![Writer] = p]
  BY <1>2 DEF Start
<1>4. at' \in [Threads -> Places] /\ at'[Main] = "running" /\ at'[Writer] = p
  BY <1>3, Kinds DEF Control, PlaceInv, Places, WriterPlaces, MainPlaces
<1>5. \A l \in Loggers : at'[l] = "out" /\ at[l] = "out" /\ op[l] = "none"
  BY <1>2, <1>3, Kinds DEF Control, PlaceInv, Start
<1>6. op[Writer] = "none" /\ op[Main] = "none" /\ at[Writer] \notin Held /\ at[Main] \notin Held
  BY <1>2, Kinds DEF Control, PlaceInv, Start, Held
<1>7. PlaceInv'
  BY <1>1, <1>4, <1>5, <1>6, Kinds DEF Control, PlaceInv, LoggerPlaces, WriterPlaces, MainPlaces
<1>8. MtxInv'
  BY <1>1, <1>4, <1>5, <1>6, Kinds DEF Control, MtxInv, Held
<1>9. QED
  BY <1>1, <1>2, <1>5, <1>7, <1>8 DEF Control

(* Who can be at a place. *)
LEMMA WhoIsAt ==
  ASSUME Control, NEW t \in Threads
  PROVE  /\ at[t] \in LoggerPlaces \ {"closing", "call"} => t \in Loggers
         /\ at[t] \in {"pop", "put"} => t = Writer
         /\ at[t] \in {"running", "drain", "prod", "close", "join", "final"} => t = Main
         /\ at[t] = "closing" => t \in Loggers \/ t = Main
         /\ at[t] \notin {"out", "exit", "off"} => at[Main] # "off"
         /\ at[t] \in Held => mtx = t
         /\ mtx = t => at[t] \in Held \/ op[t] # "none"
         /\ at[t] = "call" <=> op[t] # "none"
BY Kinds DEF Control, PlaceInv, MtxInv, LoggerPlaces, WriterPlaces, MainPlaces, Held

LEMMA InsideControl ==
  ASSUME Control, NEW t \in Threads, NEW ACTION A, DequeStep(t), Inside(t, A) \/ Popped(t)
  PROVE  Control' /\ Only(t)
<1> USE Kinds DEF Control, LoggerPlaces, WriterPlaces, MainPlaces, Places, Held, Move
<1>1. IndInv' /\ (op' = op \/ op' = [op EXCEPT ![t] = "none"]) /\ op[t] # "none"
  BY DequeSteps
<1>2. op \in [Threads -> Ops \cup {"none"}] /\ "none" \notin Ops
  BY Sides DEF IndInv, TypeOK
<1>3. CASE Popped(t)
  <2>1. op[t] \in Pops /\ op'[t] = "none"
    BY <1>1, <1>2, <1>3, ReturnMoves DEF Popped, PopOf, Entered, NotifyOneAndReturn, Return, ReturnWaking
  <2>2. t = Writer
    BY <2>1 DEF PlaceInv, Pops
  <2>3. at' = [at EXCEPT ![t] = "put"] /\ mtx' = mtx /\ op' = [op EXCEPT ![t] = "none"]
    BY <1>1, <1>2, <1>3, <2>1 DEF Popped
  <2>4. Only(t)
    BY <2>3 DEF Only, PlaceInv, IndInv, TypeOK
  <2>5. PlaceInv' /\ MtxInv'
    BY <1>1, <1>2, <1>3, <2>2, <2>3 DEF Popped, PlaceInv, MtxInv
  <2>6. QED
    BY <1>1, <2>4, <2>5
<1>4. CASE Inside(t, A) /\ op' = op
  <2>1. at' = at /\ mtx' = mtx
    BY <1>1, <1>2, <1>4 DEF Inside
  <2>2. QED
    BY <1>1, <1>4, <2>1 DEF PlaceInv, MtxInv, Only
<1>5. CASE Inside(t, A) /\ op' = [op EXCEPT ![t] = "none"] /\ op[t] # "pop"
  <2>1. /\ at' = [at EXCEPT ![t] = After(t)]
        /\ mtx' = IF op[t] = "push_back" THEN NoThread ELSE mtx
    BY <1>2, <1>5 DEF Inside
  <2>2. t \in Loggers => /\ op[t] = "full" => After(t) \in {"direct", "push"}
                         /\ op[t] = "push_back" => After(t) = "flush"
                         /\ op[t] = "flush" => After(t) = IF mtx = t THEN "closing" ELSE "fflush"
    BY DEF After
  <2>3. t = Main => /\ op[t] = "flush" => After(t) = IF mtx = t THEN "closing" ELSE "drain"
                    /\ op[t] = "empty" => After(t) \in {"close", "prod"}
                    /\ op[t] = "Close" => After(t) = "join"
    BY DEF After
  <2>4. op'[t] = "none" /\ op[t] \in {"full", "push_back", "flush", "empty", "Close"}
    BY <1>1, <1>2, <1>5 DEF PlaceInv
  <2>5. \A s \in Threads \ {t} : op'[s] = op[s] /\ at'[s] = at[s]
    BY <1>2, <1>5, <2>1 DEF PlaceInv
  <2>6. PlaceInv'
    <3>1. /\ t \in Loggers => at'[t] \in LoggerPlaces \ {"out", "call"}
          /\ t = Main => at'[t] \in MainPlaces \ {"off", "call"}
          /\ t # Writer /\ at'[t] \in Places
      BY <2>1, <2>2, <2>3, <2>4 DEF PlaceInv
    <3>2. at' \in [Threads -> Places]
      BY <2>1, <3>1 DEF PlaceInv
    <3>3. at[t] = "call"
      BY <2>4 DEF PlaceInv
    <3>4. QED
      BY <2>4, <2>5, <3>1, <3>2, <3>3 DEF PlaceInv
  <2>7. MtxInv'
    <3>1. at'[t] \in Held <=> at'[t] \in {"direct", "push", "closing"}
      BY <2>1, <2>2, <2>3, <2>4 DEF PlaceInv
    <3>2. CASE op[t] = "push_back"
      BY <2>1, <2>2, <2>3, <2>4, <2>5, <3>2 DEF PlaceInv, MtxInv
    <3>3. CASE op[t] # "push_back"
      <4>1. mtx' = mtx
        BY <2>1, <3>3
      <4>2. at'[t] \in Held <=> mtx = t
        BY <2>1, <2>2, <2>3, <2>4, <3>3 DEF PlaceInv, MtxInv
      <4>3. QED
        BY <2>4, <2>5, <4>1, <4>2 DEF MtxInv
    <3>4. QED
      BY <3>2, <3>3
  <2>8. QED
    <3>1. \A s \in Threads \ {t} : mtx' = s <=> mtx = s
      BY <2>1, <2>4 DEF PlaceInv, MtxInv
    <3>2. QED
      BY <1>1, <2>5, <2>6, <2>7, <3>1 DEF Only
<1>6. CASE Inside(t, A) /\ op' = [op EXCEPT ![t] = "none"] /\ op[t] = "pop"
  <2>1. t = Writer /\ at' = [at EXCEPT ![t] = "exit"] /\ mtx' = mtx
    BY <1>1, <1>2, <1>6 DEF Inside, After, PlaceInv
  <2>2. op' \in [Threads -> Ops \cup {"none"}] /\ op'[t] = "none"
    BY <1>2, <1>6
  <2>3. \A s \in Threads \ {t} : op'[s] = op[s] /\ at'[s] = at[s]
    BY <1>2, <1>6, <2>1
  <2>4. PlaceInv'
    <3>1. at' \in [Threads -> Places] /\ at'[t] = "exit"
      BY <2>1 DEF PlaceInv
    <3>2. QED
      BY <2>1, <2>2, <2>3, <3>1 DEF PlaceInv
  <2>5. mtx # t /\ mtx' = mtx
    BY <1>1, <1>6, <2>1 DEF PlaceInv, MtxInv
  <2>6. MtxInv'
    <3>1. \A s \in Threads \ {t} : op'[s] = op[s] /\ at'[s] = at[s]
      BY <2>3
    <3>2. at'[t] \notin Held /\ op'[t] = "none"
      BY <2>1, <2>2 DEF PlaceInv
    <3>3. QED
      BY <2>5, <3>1, <3>2 DEF MtxInv
  <2>7. QED
    BY <1>1, <2>1, <2>3, <2>4, <2>6 DEF Only
<1>7. QED
  BY <1>1, <1>3, <1>4, <1>5, <1>6

LEMMA LocalControl ==
  ASSUME Control, NEW t \in Threads,
         \/ LogLine(t) \/ Look(t) \/ Name(t) \/ Rename(t) \/ Reset(t) \/ CloseFile(t) \/ OpenFile(t)
         \/ LockLine(t) \/ Direct(t) \/ Fflush(t) \/ Put(t) \/ Destroy(t)
         \/ (~isAsync /\ (Reopen(t) \/ Format(t)))
  PROVE  Control' /\ Only(t) /\ op' = op /\ op[t] = "none"
<1> USE WhoIsAt DEF LoggerPlaces, WriterPlaces, MainPlaces, Places, Held, MtxMoves
<1>1. ASSUME LogLine(t) \/ Destroy(t)
      PROVE  Control' /\ Only(t) /\ op' = op /\ op[t] = "none"
  BY <1>1, MovedControl, Kinds DEF LogLine, Destroy
<1>2. ASSUME Look(t) PROVE Control' /\ Only(t) /\ op' = op /\ op[t] = "none"
  BY <1>2, MovedControl, Kinds DEF Look
<1>3. ASSUME Name(t) PROVE Control' /\ Only(t) /\ op' = op /\ op[t] = "none"
  BY <1>3, MovedControl, Kinds DEF Name
<1>4. ASSUME Rename(t) \/ Reset(t) PROVE Control' /\ Only(t) /\ op' = op /\ op[t] = "none"
  BY <1>4, MovedControl, Kinds DEF Rename, Reset
<1>5. ASSUME CloseFile(t) PROVE Control' /\ Only(t) /\ op' = op /\ op[t] = "none"
  BY <1>5, MovedControl, Kinds DEF CloseFile
<1>6. ASSUME OpenFile(t) \/ LockLine(t) \/ Direct(t)
      PROVE  Control' /\ Only(t) /\ op' = op /\ op[t] = "none"
  BY <1>6, MovedControl, Kinds DEF OpenFile, LockLine, Direct
<1>7. ASSUME Fflush(t) \/ Put(t) PROVE Control' /\ Only(t) /\ op' = op /\ op[t] = "none"
  BY <1>7, MovedControl, Kinds DEF Fflush, Put
<1>8. ASSUME ~isAsync, Reopen(t) \/ Format(t)
      PROVE  Control' /\ Only(t) /\ op' = op /\ op[t] = "none"
  BY <1>8, MovedControl, Kinds DEF Reopen, Format
<1>9. QED
  BY <1>1, <1>2, <1>3, <1>4, <1>5, <1>6, <1>7, <1>8

LEMMA EnterControl ==
  ASSUME Control, NEW t \in Threads,
         (isAsync /\ (Reopen(t) \/ Format(t))) \/ PushLine(t) \/ CallDeque(t),
         at[t] = "push" => Head(buff) \in Items
  PROVE  Control' /\ Only(t) /\ op[t] = "none" /\ at'[t] = "call" /\ deq' = deq
<1> USE WhoIsAt, Kinds, ItemsAssumption DEF LoggerPlaces, WriterPlaces, MainPlaces, Places, Held, MtxMoves, Ops, Pushes, Pops, Queries
<1>1. ASSUME isAsync, Reopen(t)
      PROVE  Control' /\ Only(t) /\ op[t] = "none" /\ at'[t] = "call" /\ deq' = deq
  <2>1. Enter(t, "flush", NoItem)
    BY <1>1 DEF Reopen
  <2>2. QED
    BY <1>1, <2>1, EnteredControl DEF Reopen
<1>2. ASSUME isAsync, Format(t)
      PROVE  Control' /\ Only(t) /\ op[t] = "none" /\ at'[t] = "call" /\ deq' = deq
  <2>1. Enter(t, "full", NoItem)
    BY <1>2 DEF Format
  <2>2. QED
    BY <1>2, <2>1, EnteredControl DEF Format
<1>3. ASSUME PushLine(t)
      PROVE  Control' /\ Only(t) /\ op[t] = "none" /\ at'[t] = "call" /\ deq' = deq
  <2>1. Enter(t, "push_back", Head(buff)) /\ Head(buff) \in Items
    BY <1>3 DEF PushLine
  <2>2. QED
    BY <1>3, <2>1, EnteredControl DEF PushLine
<1>4. ASSUME CallDeque(t)
      PROVE  Control' /\ Only(t) /\ op[t] = "none" /\ at'[t] = "call" /\ deq' = deq
  <2> DEFINE o == CallAt[at[t]]
  <2>1. Enter(t, o, NoItem) /\ mtx' = mtx /\ at[t] # "call"
    BY <1>4 DEF CallDeque, CallAt
  <2>2. /\ o \in {"pop", "flush", "empty", "Close"}
        /\ o = "pop" <=> at[t] = "pop"
        /\ o = "flush" <=> at[t] \in {"flush", "prod"}
        /\ at[t] \in {"pop", "flush", "drain", "prod", "close"}
    BY <1>4 DEF CallDeque, CallAt
  <2>3. t \in Loggers \/ t = Writer \/ t = Main
    OBVIOUS
  <2>4. /\ t \in Loggers => o = "flush"
        /\ t = Writer => o = "pop"
        /\ t = Main => o \in {"flush", "empty", "Close"}
        /\ at[Main] # "off" /\ mtx # t
    <3> HIDE DEF o
    <3>1. op[t] = "none" /\ at[t] \notin Held
      BY <2>1, <2>2
    <3>2. QED
      BY <2>2, <3>1
  <2>5. QED
    <3> HIDE DEF o
    <3>1. QED
      BY <2>1, <2>2, <2>4, EnteredControl
<1>5. QED
  BY <1>1, <1>2, <1>3, <1>4

(* t's steps inside the deque. *)
Within(t) ==
  \/ Popped(t)
  \/ Inside(t, Push(t) \/ PopFails(t) \/ Wait(t) \/ Query(t) \/ Close(t) \/ Unlocked(t))
  \/ Inside(t, SpuriousWake(t))

LEMMA WithinControl ==
  ASSUME Control, NEW t \in Threads, Within(t)
  PROVE  Control' /\ Only(t) /\ DequeStep(t)
<1>1. CASE Popped(t)
  <2>1. DequeStep(t)
    BY <1>1 DEF Popped, DequeStep, Pop
  <2>2. QED
    BY <1>1, <2>1, InsideControl
<1>2. CASE Inside(t, Push(t) \/ PopFails(t) \/ Wait(t) \/ Query(t) \/ Close(t) \/ Unlocked(t))
  <2>1. DequeStep(t)
    BY <1>2 DEF Inside, DequeStep
  <2>2. QED
    BY <1>2, <2>1, InsideControl
<1>3. CASE Inside(t, SpuriousWake(t))
  <2>1. DequeStep(t)
    BY <1>3 DEF Inside, DequeStep
  <2>2. QED
    BY <1>3, <2>1, InsideControl
<1>4. QED
  BY <1>1, <1>2, <1>3 DEF Within

(* Where t is after a step inside the deque. *)
LEMMA WithinMoves ==
  ASSUME Control, NEW t \in Threads, Within(t)
  PROVE  /\ UNCHANGED <<isAsync, day, now, sent, toDay, lineCount, file, open, crashed,
                        buff, written, logged, direct, overlap>>
         /\ str' = str \/ \E x \in Items : str' = <<x>>
         /\ at[t] = "call" /\ op[t] # "none"
         /\ \/ op'[t] = op[t] /\ at'[t] = "call" /\ mtx' = mtx
            \/ /\ op'[t] = "none"
               /\ op[t] = "full" => at'[t] = (IF Full THEN "direct" ELSE "push") /\ mtx' = mtx
               /\ op[t] = "push_back" => at'[t] = "flush" /\ mtx' = NoThread
               /\ op[t] = "flush" =>
                    /\ at'[t] = IF mtx = t THEN "closing" ELSE IF t = Main THEN "drain" ELSE "fflush"
                    /\ mtx' = mtx
               /\ op[t] \in {"pop", "empty", "Close"} =>
                    at'[t] \in {"put", "exit", "close", "prod", "join"} /\ mtx' = mtx
<1> USE DEF Control, PlaceInv, Move
<1>1. DequeStep(t) /\ op[t] # "none"
  BY WithinControl, DequeSteps
<1>2. op' = op \/ op' = [op EXCEPT ![t] = "none"]
  BY <1>1, DequeSteps
<1>3. op \in [Threads -> Ops \cup {"none"}]
  BY DEF IndInv, TypeOK
<1>4. CASE Popped(t)
  <2>1. op[t] \in Pops /\ op'[t] = "none" /\ at'[t] = "put" /\ at[t] = "call"
    BY <1>3, <1>4, ReturnMoves, Sides
       DEF Popped, PopOf, Entered, NotifyOneAndReturn, Return, ReturnWaking
  <2>2. \E x \in Items : str' = <<x>>
    BY <1>4 DEF Popped
  <2>3. QED
    BY <1>1, <1>4, <2>1, <2>2 DEF Popped, clock, counts, files, history, Pops
<1>5. ASSUME NEW ACTION A, Inside(t, A)
      PROVE  /\ UNCHANGED <<isAsync, day, now, sent, toDay, lineCount, file, open, crashed,
                            buff, str, written, logged, direct, overlap>>
             /\ at[t] = "call"
             /\ op'[t] # "none" => op'[t] = op[t] /\ at'[t] = "call" /\ mtx' = mtx
             /\ op'[t] = "none" => /\ at'[t] = After(t)
                                   /\ mtx' = IF op[t] = "push_back" THEN NoThread ELSE mtx
  BY <1>2, <1>3, <1>5 DEF Inside, clock, counts, files, lines, history
<1>6. ASSUME op'[t] = "none", at'[t] = After(t)
      PROVE  /\ op[t] = "full" => at'[t] = IF Full THEN "direct" ELSE "push"
             /\ op[t] = "push_back" => at'[t] = "flush"
             /\ op[t] = "flush" =>
                  at'[t] = IF mtx = t THEN "closing" ELSE IF t = Main THEN "drain" ELSE "fflush"
             /\ op[t] \in {"pop", "empty", "Close"} => at'[t] \in {"put", "exit", "close", "prod", "join"}
  BY <1>6 DEF After
<1>7. CASE Inside(t, Push(t) \/ PopFails(t) \/ Wait(t) \/ Query(t) \/ Close(t) \/ Unlocked(t))
  BY <1>1, <1>5, <1>6, <1>7
<1>8. CASE Inside(t, SpuriousWake(t))
  BY <1>1, <1>5, <1>6, <1>8
<1>9. QED
  BY <1>4, <1>7, <1>8 DEF Within

-----------------------------------------------------------------------------
(* One step of the log. *)

LogStep(t) == Act(t) \/ LogLine(t) \/ Destroy(t) \/ Inside(t, SpuriousWake(t))

LEMMA LineIsItem ==
  ASSUME LogTypeOK, NEW l \in Loggers, sent[l] <= LinesOf[l], sent[l] > 0
  PROVE  <<l, sent[l]>> \in Items
BY Kinds, LogAssumption DEF LogTypeOK

LEMMA HeadIsItem ==
  ASSUME Control, DataInv, NEW t \in Threads, at[t] = "push"
  PROVE  Head(buff) \in Items
<1>1. t \in Loggers /\ buff # <<>> /\ buff \in Seq(Items)
  BY WhoIsAt DEF DataInv, LoggerPlaces, LogTypeOK
<1>2. QED
  BY <1>1, HeadTailProperties

LEMMA StepControl ==
  ASSUME Control, DataInv, NEW t \in Threads, LogStep(t), ~Start(t)
  PROVE  Control' /\ Only(t)
<1>1. CASE Within(t)
  BY <1>1, WithinControl
<1>2. CASE \/ LogLine(t) \/ Look(t) \/ Name(t) \/ Rename(t) \/ Reset(t) \/ CloseFile(t) \/ OpenFile(t)
           \/ LockLine(t) \/ Direct(t) \/ Fflush(t) \/ Put(t) \/ Destroy(t)
           \/ (~isAsync /\ (Reopen(t) \/ Format(t)))
  BY <1>2, LocalControl
<1>3. CASE (isAsync /\ (Reopen(t) \/ Format(t))) \/ PushLine(t) \/ CallDeque(t)
  BY <1>3, EnterControl, HeadIsItem
<1>4. QED
  BY <1>1, <1>2, <1>3 DEF LogStep, Act, Within

LEMMA StepTypes ==
  ASSUME Control, DataInv, NEW t \in Threads, LogStep(t), Control'
  PROVE  LogTypeOK'
<1> USE DEF LogTypeOK, clock, counts, files, lines, history
<1>1. mtx' \in Threads \cup {NoThread}
  BY DEF Control, MtxInv
<1>2. CASE Within(t)
  <2>1. str' \in Seq(Items) /\ Len(str') <= 1
    <3>1. CASE str' = str
      BY <3>1 DEF DataInv
    <3>2. ASSUME NEW x \in Items, str' = <<x>> PROVE str' \in Seq(Items) /\ Len(str') <= 1
      BY <3>2
    <3>3. QED
      BY <1>2, <3>1, <3>2, WithinMoves
  <2>2. QED
    BY <1>1, <1>2, <2>1, WithinMoves DEF DataInv
<1>3. CASE Start(t)
  BY <1>1, <1>3 DEF Start, DataInv
<1>4. CASE LogLine(t)
  BY <1>1, <1>4, Kinds, LogAssumption DEF LogLine, DataInv
<1>5. CASE Look(t) \/ Name(t) \/ Destroy(t) \/ CallDeque(t) \/ LockLine(t) \/ Reopen(t) \/ CloseFile(t)
  BY <1>1, <1>5 DEF Look, Name, Destroy, CallDeque, LockLine, Reopen, CloseFile, DataInv
<1>6. CASE Rename(t) \/ Reset(t) \/ OpenFile(t) \/ Fflush(t)
  <2>1. CASE Rename(t)
    BY <1>1, <2>1 DEF Rename, DataInv
  <2>2. CASE Reset(t)
    <3>1. lineCount' \in {0, lineCount}
      BY <2>2 DEF Reset
    <3>2. QED
      BY <1>1, <2>2, <3>1 DEF Reset, DataInv
  <2>3. CASE OpenFile(t)
    BY <1>1, <2>3 DEF OpenFile, DataInv
  <2>4. CASE Fflush(t)
    <3>1. crashed' \in BOOLEAN
      BY <2>4 DEF Fflush, DataInv
    <3>2. QED
      BY <1>1, <2>4, <3>1 DEF Fflush, DataInv
  <2>5. QED
    BY <1>6, <2>1, <2>2, <2>3, <2>4
<1>7. CASE Format(t)
  <2>1. t \in Loggers /\ <<t, sent[t]>> \in Items
    BY <1>7, WhoIsAt, LineIsItem DEF Format, DataInv, LoggerPlaces
  <2>2. buff = <<>>
    BY <1>7, <2>1, WhoIsAt, Kinds DEF Format, DataInv, Held, Control, PlaceInv
  <2>3. QED
    BY <1>1, <1>7, <2>1, <2>2 DEF Format, DataInv
<1>8. CASE PushLine(t)
  BY <1>1, <1>8 DEF PushLine, DataInv
<1>9. CASE Direct(t)
  <2>1. ToSet(buff) \subseteq Items /\ written \o buff \in Seq(Items)
    BY DEF ToSet, DataInv
  <2>2. QED
    BY <1>1, <1>9, <2>1 DEF Direct, DataInv
<1>10. CASE Put(t)
  BY <1>1, <1>10 DEF Put, DataInv
<1>11. QED
  BY <1>2, <1>3, <1>4, <1>5, <1>6, <1>7, <1>8, <1>9, <1>10 DEF LogStep, Act, Within

(* What a step does to buff_, the counts of lines and toDay_ depends on     *)
(* where its thread is.                                                     *)
LEMMA StepData ==
  ASSUME Control, DataInv, NEW t \in Threads, LogStep(t), ~Start(t), Control', Only(t)
  PROVE  DataInv'
<1> USE DEF clock, counts, files, lines, history, Held
<1>1. LogTypeOK'
  BY StepTypes
<1>2. \A l \in Loggers : sent'[l] <= LinesOf[l] /\ (at'[l] # "out" => sent'[l] > 0)
  <2>1. CASE LogLine(t)
    <3>1. \A l \in Loggers : l \in Threads /\ sent[l] \in Nat /\ LinesOf[l] \in Nat
      BY Kinds, LogAssumption DEF DataInv, LogTypeOK
    <3>2. sent'[t] = sent[t] + 1 /\ sent[t] < LinesOf[t] /\ t \in Loggers
          /\ \A l \in Loggers \ {t} : sent'[l] = sent[l]
      BY <2>1, <3>1 DEF LogLine, DataInv, LogTypeOK
    <3>3. sent'[t] <= LinesOf[t] /\ sent'[t] > 0
      BY <3>1, <3>2
    <3>4. QED
      BY <3>1, <3>2, <3>3 DEF DataInv, Only
  <2>2. CASE sent' = sent /\ at[t] # "out"
    BY <2>2, Kinds DEF DataInv, Only
  <2>3. LogLine(t) \/ (sent' = sent /\ at[t] # "out")
    <3>1. CASE Within(t)
      BY <3>1, WithinMoves
    <3>2. CASE ~Within(t)
      BY <3>2, WhoIsAt DEF LogStep, Act, Within, Look, Name, Rename, Reset, Reopen, CloseFile, OpenFile,
         LockLine, Format, PushLine, Direct, Fflush, Put, CallDeque, CallAt, Destroy
    <3>3. QED
      BY <3>1, <3>2
  <2>4. QED
    BY <2>1, <2>2, <2>3
<1>3. /\ buff' # <<>> =>
           \E l \in Loggers : mtx' = l /\ (at'[l] \in {"push", "direct"} \/ op'[l] = "full")
      /\ \A l \in Loggers : at'[l] = "push" \/ op'[l] = "full" => buff' # <<>>
  <2> DEFINE Has(l) == mtx = l /\ (at[l] \in {"push", "direct"} \/ op[l] = "full")
             Fills(l) == at[l] = "push" \/ op[l] = "full"
  <2>1. /\ buff # <<>> => \E l \in Loggers : Has(l)
        /\ \A l \in Loggers : Fills(l) => buff # <<>> /\ mtx = l
        /\ \A l \in Loggers \ {t} : (Has(l)' <=> Has(l)) /\ (Fills(l)' <=> Fills(l))
    BY Kinds DEF DataInv, Only, Control, MtxInv
  <2>2. SUFFICES /\ buff' # <<>> => \E l \in Loggers : Has(l)'
                 /\ \A l \in Loggers : Fills(l)' => buff' # <<>>
    OBVIOUS
  <2> HIDE DEF Has, Fills
  <2>3. CASE Format(t)
    <3>1. t \in Loggers /\ buff' # <<>> /\ Has(t)'
      <4>1. t \in Loggers /\ buff \in Seq(Items) /\ mtx = t /\ at \in [Threads -> Places]
        BY <2>3, WhoIsAt DEF Format, LoggerPlaces, DataInv, LogTypeOK, Control, PlaceInv
      <4>2. buff' = Append(buff, <<t, sent[t]>>) /\ buff' # <<>>
        BY <2>3, <4>1 DEF Format
      <4>3. mtx' = t /\ (at'[t] = "direct" \/ op'[t] = "full")
        BY <2>3, <4>1 DEF Format, Enter, Begin, Move, Control, IndInv, TypeOK
      <4>4. QED
        BY <4>1, <4>2, <4>3 DEF Has
    <3>2. QED
      BY <3>1
  <2>4. CASE PushLine(t) \/ Direct(t)
    <3>1. t \in Loggers /\ mtx = t /\ buff' = <<>> /\ at[t] # "call"
      BY <2>4, WhoIsAt DEF PushLine, Direct, LoggerPlaces
    <3>2. ~Fills(t)'
      <4>1. op[t] = "none" /\ op \in [Threads -> Ops \cup {"none"}] /\ at \in [Threads -> Places]
        BY <3>1, WhoIsAt DEF Control, IndInv, TypeOK, PlaceInv
      <4>2. CASE PushLine(t)
        BY <4>1, <4>2 DEF PushLine, Enter, Begin, Move, Fills
      <4>3. CASE Direct(t)
        BY <4>1, <4>3 DEF Direct, Move, vars, Fills
      <4>4. QED
        BY <2>4, <4>2, <4>3
    <3>3. \A l \in Loggers \ {t} : ~Fills(l)
      BY <2>1, <3>1
    <3>4. QED
      BY <2>1, <3>1, <3>2, <3>3
  <2>5. CASE ~Format(t) /\ ~PushLine(t) /\ ~Direct(t)
    <3>1. CASE Within(t)
      <4>1. buff' = buff
        BY <3>1, WithinMoves
      <4>2. t \in Loggers => op[t] \in {"full", "push_back", "flush"}
        BY <3>1, WithinMoves DEF Control, PlaceInv
      <4>3. t \in Loggers => (Has(t)' <=> Has(t))
        BY <3>1, <4>2, WithinMoves, Kinds DEF Has
      <4>4. t \in Loggers => (Fills(t)' => Fills(t))
        BY <3>1, <4>2, WithinMoves DEF Fills
      <4>5. QED
        BY <2>1, <4>1, <4>3, <4>4
    <3>2. CASE ~Within(t)
      <4>1. buff' = buff
        BY <2>5, <3>2 DEF LogStep, Act, Within, LogLine, Look, Name, Rename, Reset, Reopen, CloseFile, OpenFile,
           LockLine, Fflush, Put, CallDeque, Destroy
      <4>2. at[t] \notin {"push", "direct", "call"}
        BY <2>5, <3>2 DEF LogStep, Act, Within, LogLine, Look, Name, Rename, Reset, Reopen, CloseFile, OpenFile,
           LockLine, Fflush, Put, CallDeque, CallAt, Destroy
      <4>3. ~Has(t) /\ ~Fills(t)
        BY <4>2, WhoIsAt DEF Has, Fills
      <4>4. at'[t] # "push" /\ op'[t] # "full"
        <5>1. op[t] = "none" /\ op \in [Threads -> Ops \cup {"none"}] /\ at \in [Threads -> Places]
          BY <4>2, WhoIsAt DEF Control, IndInv, TypeOK, PlaceInv
        <5>2. CASE Reopen(t) \/ CallDeque(t)
          BY <5>1, <5>2 DEF Reopen, CallDeque, CallAt, Enter, Begin, Move, vars
        <5>3. CASE ~Reopen(t) /\ ~CallDeque(t)
          BY <2>5, <3>2, <5>1, <5>3 DEF LogStep, Act, Within, LogLine, Look, Name, Rename, Reset, CloseFile, OpenFile,
             LockLine, Fflush, Put, Destroy, Move, vars
        <5>4. QED
          BY <5>2, <5>3
      <4>5. QED
        BY <2>1, <4>1, <4>3, <4>4 DEF Fills
    <3>3. QED
      BY <3>1, <3>2
  <2>6. QED
    BY <2>3, <2>4, <2>5
<1>4. QED
  BY <1>1, <1>2, <1>3 DEF DataInv

-----------------------------------------------------------------------------
(* A logger that pushes has room. *)

LEMMA StepRoom ==
  ASSUME Control, RoomInv, NEW t \in Threads, LogStep(t), ~Start(t), Control', Only(t)
  PROVE  RoomInv'
<1> DEFINE Bound(l) == at[l] = "push" \/ op[l] = "push_back"
<1>1. \A l \in Loggers : Bound(l) => mtx = l /\ ~Full /\ (op[l] = "push_back" => pc[l] = "lock")
  BY Kinds DEF RoomInv, Control, MtxInv, Held
<1>2. \A l \in Loggers \ {t} : Bound(l)' <=> Bound(l)
  BY Kinds DEF Only
<1>3. CASE Within(t)
  <2>1. DequeStep(t) /\ Elsewhere(t) /\ op[t] # "none" /\ at[t] = "call"
    BY <1>3, WithinControl, WithinMoves, DequeSteps DEF Control
  <2>2. deq' = deq \/ deq' = <<>> \/ (deq # <<>> /\ deq' = Tail(deq)) \/ Push(t)
    BY <2>1, Sides DEF DequeStep, Pop, PopOf, Blocked, Entered, PopFails, Wait, Query, Close, Unlocked, NotifyProducers,
                NotifyConsumers, Flush, SpuriousWake
  <2>3. ~Push(t) => (Full' => Full)
    <3>1. deq \in Seq(Items) /\ Capacity \in Nat \ {0}
      BY CapacityAssumption DEF Control, IndInv, TypeOK
    <3>2. Len(<<>>) = 0
      OBVIOUS
    <3>3. deq # <<>> => Len(Tail(deq)) = Len(deq) - 1 /\ Len(deq) \in Nat
      BY <3>1, HeadTailProperties, LenProperties
    <3>4. QED
      BY <2>2, <3>1, <3>2, <3>3 DEF Full
  <2>4. Push(t) => op[t] = "push_back" /\ mtx = t
    <3>1. ASSUME Push(t) PROVE op[t] = "push_back"
      BY <3>1, Kinds DEF Push, Entered, Pushes, Control, PlaceInv
    <3>2. QED
      BY <3>1 DEF Control, MtxInv
  <2>5. ASSUME NEW l \in Loggers \ {t}, Bound(l)'
        PROVE  ~Full' /\ (op'[l] = "push_back" => pc'[l] = "lock")
    <3>1. Bound(l) /\ mtx = l /\ ~Full /\ (op[l] = "push_back" => pc[l] = "lock")
      BY <1>1, <1>2, <2>5
    <3>2. ~Push(t)
      BY <2>4, <3>1
    <3>3. pc'[l] = pc[l] \/ pc[l] = "wait"
      BY <2>1, Kinds DEF Elsewhere
    <3>4. QED
      BY <2>3, <3>1, <3>2, <3>3, Kinds DEF Only
  <2>6. ASSUME t \in Loggers, Bound(t)'
        PROVE  ~Full' /\ op'[t] # "push_back"
    <3>1. op[t] # "push_back" \/ op'[t] = "none"
      <4>1. ASSUME op[t] = "push_back" PROVE Push(t)
        <5>1. pc[t] = "lock" /\ ~Full
          BY <1>1, <2>6, <4>1
        <5>2. QED
          BY <2>1, <4>1, <5>1 DEF DequeStep, Pop, PopOf, PopFails, TurnedAway, Wait, Entered, Blocked, Query, Queries, Close,
             Unlocked, NotifyProducers, NotifyConsumers, Flush, SpuriousWake, Pushes, Pops
      <4>2. Push(t) => op'[t] = "none"
        BY ReturnMoves DEF Push, NotifyOneAndReturn, Return, Control, IndInv
      <4>3. QED
        BY <4>1, <4>2
    <3>2. op[t] = "full" /\ at'[t] = "push" /\ ~Full /\ op'[t] = "none"
      BY <1>3, <2>6, <3>1, WithinMoves DEF Control, PlaceInv
    <3>3. QED
      BY <2>3, <2>4, <3>2
  <2>7. QED
    BY <2>5, <2>6 DEF RoomInv
<1>4. CASE PushLine(t)
  <2>1. /\ t \in Loggers /\ at[t] = "push" /\ op' = [op EXCEPT ![t] = "push_back"] /\ deq' = deq
        /\ pc' = [pc EXCEPT ![t] = "lock"]
    BY <1>4, WhoIsAt DEF PushLine, Enter, Begin, LoggerPlaces
  <2>2. pc'[t] = "lock" /\ Full' = Full /\ \A l \in Loggers \ {t} : pc'[l] = pc[l]
    BY <2>1, Kinds DEF Control, IndInv, TypeOK, Full
  <2>3. QED
    BY <1>1, <1>2, <2>1, <2>2 DEF RoomInv
<1>5. CASE ~Within(t) /\ ~PushLine(t)
  <2>1. deq' = deq /\ \A l \in Threads \ {t} : pc'[l] = pc[l]
    BY <1>5 DEF LogStep, Act, Within, LogLine, Look, Name, Rename, Reset, Reopen, CloseFile, OpenFile, LockLine, Format,
       Direct, Fflush, Put, CallDeque, Destroy, Enter, Begin, vars, Control, IndInv, TypeOK
  <2>2. at'[t] # "push" /\ op'[t] # "push_back"
    <3>1. op \in [Threads -> Ops \cup {"none"}] /\ at \in [Threads -> Places]
      BY DEF Control, IndInv, TypeOK, PlaceInv
    <3>2. at[t] # "call"
      BY <1>5 DEF LogStep, Act, Within, LogLine, Look, Name, Rename, Reset, Reopen, CloseFile, OpenFile, LockLine, Format,
         Direct, Fflush, Put, CallDeque, CallAt, Destroy
    <3>3. op[t] = "none"
      BY <3>2, WhoIsAt
    <3>4. CASE Reopen(t) \/ CallDeque(t) \/ Format(t)
      BY <3>1, <3>3, <3>4 DEF Reopen, CallDeque, CallAt, Format, Enter, Begin, Move, vars
    <3>5. CASE ~Reopen(t) /\ ~CallDeque(t) /\ ~Format(t)
      BY <1>5, <3>1, <3>3, <3>5 DEF LogStep, Act, Within, LogLine, Look, Name, Rename, Reset, CloseFile, OpenFile,
         LockLine, Direct, Fflush, Put, Destroy, Move, vars
    <3>6. QED
      BY <3>4, <3>5
  <2>3. Full' = Full
    BY <2>1 DEF Full
  <2>4. QED
    BY <1>1, <1>2, <2>1, <2>2, <2>3, Kinds DEF RoomInv, Only
<1>6. QED
  BY <1>3, <1>4, <1>5

-----------------------------------------------------------------------------
(* The file that is open, and whose it is. *)

LEMMA StepOpen ==
  ASSUME Control, DataInv, OpenInv, NEW t \in Threads, LogStep(t), ~Start(t), Control', Only(t)
  PROVE  OpenInv'
<1>1. open' \in BOOLEAN
  BY StepTypes DEF LogTypeOK
<1>2. CASE CloseFile(t)
  <2>1. t \in Loggers \/ t = Main
    BY <1>2, WhoIsAt DEF CloseFile
  <2>2. at'[t] = IF t = Main THEN "exit" ELSE "opening"
    BY <1>2 DEF CloseFile, Move, Control, PlaceInv
  <2>3. QED
    BY <1>1, <2>1, <2>2 DEF OpenInv
<1>3. CASE OpenFile(t)
  BY <1>1, <1>3 DEF OpenFile, OpenInv
<1>4. CASE ~CloseFile(t) /\ ~OpenFile(t)
  <2>1. open' = open /\ at[t] \notin {"opening", "off", "exit"}
    <3>1. CASE Within(t)
      BY <3>1, WithinMoves
    <3>2. CASE ~Within(t)
      BY <1>4, <3>2, WhoIsAt, Kinds DEF LogStep, Act, Within, LogLine, Look, Name, Rename, Reset, Reopen, LockLine, Format, PushLine,
         Direct, Fflush, Put, CallDeque, CallAt, Destroy, files
    <3>3. QED
      BY <3>1, <3>2
  <2>2. QED
    BY <1>1, <2>1, Kinds DEF OpenInv, Only
<1>5. QED
  BY <1>2, <1>3, <1>4

LEMMA StepFile ==
  ASSUME Control, DataInv, FileInv, NEW t \in Threads, LogStep(t), ~Start(t), Control', Only(t)
  PROVE  FileInv'
<1> USE DEF clock, counts, files, lines, history
<1> DEFINE In(l) == at[l] \in {"rename", "reset", "reopen", "closing", "opening"}
                    \/ (at[l] = "call" /\ op[l] = "flush" /\ mtx = l)
<1>1. \A l \in Loggers : l \in Renaming <=> In(l)
  BY DEF Renaming
<1>2. \A l \in Loggers : l \in Renaming' <=> In(l)'
  BY DEF Renaming
<1>3. \A l \in Loggers \ {t} : l \in Renaming' <=> l \in Renaming
  BY <1>1, <1>2, Kinds DEF Only
<1>4. Renaming \subseteq Loggers /\ Renaming' \subseteq Loggers
  BY DEF Renaming
<1>5. CASE Name(t)
  <2>1. t \in Loggers /\ t \notin Renaming /\ overlap' = (overlap \/ Renaming # {})
    BY <1>1, <1>5, WhoIsAt DEF Name, LoggerPlaces
  <2>2. /\ toDay' = toDay /\ file' = file /\ now' = now /\ t \in Renaming'
        /\ at'[t] # "rename" => toDay = now[t]
    BY <1>2, <1>5, <2>1 DEF Name, Move, Control, PlaceInv
  <2>3. QED
    BY <1>3, <1>4, <2>1, <2>2 DEF FileInv
<1>6. CASE Rename(t)
  <2>1. t \in Loggers /\ t \in Renaming /\ t \in Renaming'
    BY <1>1, <1>2, <1>6, WhoIsAt DEF Rename, LoggerPlaces, Move, Control, PlaceInv
  <2>2. toDay' = now[t] /\ now' = now /\ overlap' = overlap
    BY <1>6 DEF Rename
  <2>3. QED
    BY <1>3, <1>4, <2>1, <2>2 DEF FileInv
<1>7. CASE OpenFile(t)
  <2>1. t \in Loggers /\ t \in Renaming /\ at[t] = "opening" /\ at'[t] = "lock"
    BY <1>1, <1>7, WhoIsAt DEF OpenFile, LoggerPlaces, Move, Control, PlaceInv
  <2>2. toDay' = toDay /\ now' = now /\ overlap' = overlap /\ file' = now[t] /\ t \notin Renaming'
    BY <1>2, <1>7, <2>1 DEF OpenFile
  <2>3. QED
    BY <1>3, <1>4, <2>1, <2>2 DEF FileInv
<1>8. CASE ~Name(t) /\ ~Rename(t) /\ ~OpenFile(t)
  <2>1. toDay' = toDay /\ file' = file /\ overlap' = overlap
    <3>1. CASE Within(t)
      BY <3>1, WithinMoves
    <3>2. CASE ~Within(t)
      BY <1>8, <3>2 DEF LogStep, Act, Within, LogLine, Look, Reset, Reopen, CloseFile, LockLine, Format, PushLine,
         Direct, Fflush, Put, CallDeque, Destroy
    <3>3. QED
      BY <3>1, <3>2
  <2>2. /\ \A l \in Loggers \ {t} : now'[l] = now[l]
        /\ at[t] # "out" => now' = now
    <3>1. CASE Within(t)
      BY <3>1, WithinMoves
    <3>2. CASE ~Within(t)
      BY <1>8, <3>2, Kinds DEF LogStep, Act, Within, LogLine, Look, Reset, Reopen, CloseFile, LockLine, Format, PushLine,
         Direct, Fflush, Put, CallDeque, Destroy, DataInv, LogTypeOK
    <3>3. QED
      BY <3>1, <3>2
  <2>3. t \in Loggers => (t \in Renaming' <=> t \in Renaming) /\ at'[t] # "rename"
                         /\ (t \in Renaming => at[t] \notin {"rename", "out"})
    <3> SUFFICES ASSUME t \in Loggers
                 PROVE  (In(t)' <=> In(t)) /\ at'[t] # "rename" /\ at[t] # "rename"
      BY <1>1, <1>2
    <3>1. at \in [Threads -> Places] /\ op \in [Threads -> Ops \cup {"none"}] /\ t # Main
      BY Kinds DEF Control, PlaceInv, IndInv, TypeOK
    <3>2. CASE Within(t)
      BY <3>1, <3>2, WithinMoves, Kinds DEF Control, PlaceInv, MtxInv, Held
    <3>3. CASE ~Within(t)
      <4>1. at[t] # "call"
        BY <1>8, <3>3 DEF LogStep, Act, Within, LogLine, Look, Reset, Reopen, CloseFile, LockLine, Format, PushLine,
           Direct, Fflush, Put, CallDeque, CallAt, Destroy
      <4>2. op[t] = "none" /\ (mtx = t => at[t] \in Held)
        BY <4>1, WhoIsAt
      <4>3. CASE Reopen(t)
        <5>1. at[t] = "reopen" /\ mtx' = t
          BY <4>3, WhoIsAt, Kinds DEF Reopen
        <5>2. at'[t] = "closing" \/ (at'[t] = "call" /\ op'[t] = "flush")
          BY <3>1, <4>3 DEF Reopen, Enter, Begin, Move
        <5>3. QED
          BY <5>1, <5>2
      <4>4. CASE PushLine(t) \/ CallDeque(t) \/ Format(t)
        BY <3>1, <4>1, <4>2, <4>4 DEF PushLine, CallDeque, CallAt, Format, Enter, Begin, Move, Held
      <4>5. CASE ~Reopen(t) /\ ~PushLine(t) /\ ~CallDeque(t) /\ ~Format(t)
        BY <1>8, <3>1, <3>3, <4>1, <4>2, <4>5 DEF LogStep, Act, Within, LogLine, Look, Reset, CloseFile,
           LockLine, Direct, Fflush, Put, Destroy, Move
      <4>6. QED
        BY <4>3, <4>4, <4>5
    <3>4. QED
      BY <3>2, <3>3
  <2>4. QED
    BY <1>3, <1>4, <2>1, <2>2, <2>3, Kinds DEF FileInv, Only
<1>9. QED
  BY <1>5, <1>6, <1>7, <1>8

-----------------------------------------------------------------------------
(* The order of the lines. *)

(* w holds what l holds, each once, and in the order of l but for pairs that *)
(* d splits.                                                                *)
Ordered(l, w, d) ==
  /\ IsInjective(l) /\ IsInjective(w) /\ ToSet(w) = ToSet(l)
  /\ \A x, y \in ToSet(l) :
       Precedes(l, x, y) /\ (x \in d <=> y \in d) => Precedes(w, x, y)

LEMMA AppendAt ==
  ASSUME NEW S, NEW s \in Seq(S), NEW x \in S
  PROVE  /\ Append(s, x) \in Seq(S)
         /\ DOMAIN s = 1 .. Len(s) /\ Len(s) \in Nat
         /\ DOMAIN Append(s, x) = 1 .. Len(s) + 1
         /\ \A i \in 1 .. Len(s) : Append(s, x)[i] = s[i]
         /\ Append(s, x)[Len(s) + 1] = x
         /\ ToSet(Append(s, x)) = ToSet(s) \cup {x}
<1>1. /\ Append(s, x) \in Seq(S)
      /\ DOMAIN s = 1 .. Len(s) /\ Len(s) \in Nat
      /\ DOMAIN Append(s, x) = 1 .. Len(s) + 1
      /\ \A i \in 1 .. Len(s) : Append(s, x)[i] = s[i]
      /\ Append(s, x)[Len(s) + 1] = x
  OBVIOUS
<1>2. ToSet(Append(s, x)) = ToSet(s) \cup {x}
  BY <1>1 DEF ToSet
<1>3. QED
  BY <1>1, <1>2

LEMMA AppendPrecedes ==
  ASSUME NEW S, NEW s \in Seq(S), NEW x \in S, x \notin ToSet(s), IsInjective(s)
  PROVE  /\ IsInjective(Append(s, x))
         /\ \A a, b \in ToSet(s) \cup {x} :
              Precedes(Append(s, x), a, b) <=> Precedes(s, a, b) \/ (a \in ToSet(s) /\ b = x)
<1> DEFINE r == Append(s, x)
<1>1. /\ DOMAIN s = 1 .. Len(s) /\ Len(s) \in Nat /\ DOMAIN r = 1 .. Len(s) + 1
      /\ \A i \in 1 .. Len(s) : r[i] = s[i] /\ s[i] # x
      /\ r[Len(s) + 1] = x
      /\ \A a \in ToSet(s) : \E i \in 1 .. Len(s) : s[i] = a
  BY AppendAt DEF ToSet
<1> HIDE DEF r
<1>2. IsInjective(r)
  BY <1>1 DEF IsInjective
<1>3. ASSUME NEW a \in ToSet(s) \cup {x}, NEW b \in ToSet(s) \cup {x}, Precedes(r, a, b)
      PROVE  Precedes(s, a, b) \/ (a \in ToSet(s) /\ b = x)
  <2>1. PICK i, j \in 1 .. Len(s) + 1 : i < j /\ r[i] = a /\ r[j] = b
    BY <1>1, <1>3 DEF Precedes
  <2>2. i \in 1 .. Len(s) /\ s[i] = a /\ a \in ToSet(s)
    BY <1>1, <2>1 DEF ToSet
  <2>3. CASE j = Len(s) + 1
    BY <1>1, <2>1, <2>2, <2>3
  <2>4. CASE j \in 1 .. Len(s)
    BY <1>1, <2>1, <2>2, <2>4 DEF Precedes
  <2>5. QED
    BY <1>1, <2>1, <2>3, <2>4
<1>4. ASSUME NEW a, NEW b, Precedes(s, a, b) PROVE Precedes(r, a, b)
  <2>1. PICK i, j \in 1 .. Len(s) : i < j /\ s[i] = a /\ s[j] = b
    BY <1>1, <1>4 DEF Precedes
  <2>2. i \in DOMAIN r /\ j \in DOMAIN r /\ r[i] = a /\ r[j] = b
    BY <1>1, <2>1
  <2>3. QED
    BY <2>1, <2>2 DEF Precedes
<1>5. ASSUME NEW a \in ToSet(s) PROVE Precedes(r, a, x)
  <2>1. PICK i \in 1 .. Len(s) : s[i] = a
    BY <1>1
  <2>2. i \in DOMAIN r /\ Len(s) + 1 \in DOMAIN r /\ i < Len(s) + 1 /\ r[i] = a
    BY <1>1, <2>1
  <2>3. QED
    BY <1>1, <2>2 DEF Precedes
<1>6. QED
  BY <1>2, <1>3, <1>4, <1>5 DEF r

LEMMA OrderedAppend ==
  ASSUME NEW S, NEW l \in Seq(S), NEW w \in Seq(S), NEW d, NEW x \in S, x \notin ToSet(l),
         Ordered(l, w, d)
  PROVE  Ordered(Append(l, x), Append(w, x), d)
<1>1. ToSet(w) = ToSet(l) /\ IsInjective(l) /\ IsInjective(w)
  BY DEF Ordered
<1>2. ToSet(Append(l, x)) = ToSet(l) \cup {x} /\ ToSet(Append(w, x)) = ToSet(w) \cup {x}
  BY AppendAt
<1>3. IsInjective(Append(l, x)) /\ IsInjective(Append(w, x))
  BY <1>1, AppendPrecedes
<1>4. ASSUME NEW a \in ToSet(l) \cup {x}, NEW b \in ToSet(l) \cup {x},
             Precedes(Append(l, x), a, b), a \in d <=> b \in d
      PROVE  Precedes(Append(w, x), a, b)
  <2>1. Precedes(l, a, b) \/ (a \in ToSet(l) /\ b = x)
    BY <1>1, <1>4, AppendPrecedes
  <2>2. Precedes(l, a, b) => a \in ToSet(l) /\ b \in ToSet(l)
    BY DEF Precedes, ToSet
  <2>3. Precedes(w, a, b) \/ (a \in ToSet(w) /\ b = x)
    BY <1>1, <1>4, <2>1, <2>2 DEF Ordered
  <2>4. QED
    BY <1>1, <1>4, <2>3, AppendPrecedes
<1>5. QED
  BY <1>1, <1>2, <1>3, <1>4 DEF Ordered

(* Moving the last element of w \o q \o <<x>> to the end of w. *)
LEMMA OrderedBypass ==
  ASSUME NEW S, NEW l \in Seq(S), NEW w \in Seq(S), NEW q \in Seq(S), NEW x \in S, NEW d,
         Ordered(l, Append(w \o q, x), d), d \subseteq ToSet(w),
         l # <<>>, x = l[Len(l)]
  PROVE  Ordered(l, Append(w, x) \o q, d \cup {x})
<1> DEFINE u == Append(w \o q, x)
           v == Append(w, x) \o q
           n == Len(w)
           m == Len(q)
<1>1. /\ n \in Nat /\ m \in Nat /\ DOMAIN w = 1 .. n /\ DOMAIN q = 1 .. m
      /\ DOMAIN u = 1 .. n + m + 1 /\ DOMAIN v = 1 .. n + m + 1
  OBVIOUS
<1>2. /\ \A i \in 1 .. n : u[i] = w[i] /\ v[i] = w[i]
      /\ \A i \in 1 .. m : u[n + i] = q[i] /\ v[n + 1 + i] = q[i]
      /\ u[n + m + 1] = x /\ v[n + 1] = x
  OBVIOUS
<1> DEFINE f(i) == IF i <= n THEN i ELSE IF i = n + m + 1 THEN n + 1 ELSE i + 1
           g(i) == IF i <= n THEN i ELSE IF i = n + 1 THEN n + m + 1 ELSE i - 1
<1>3. /\ \A i \in DOMAIN u : f(i) \in DOMAIN v /\ u[i] = v[f(i)]
      /\ \A i \in DOMAIN v : g(i) \in DOMAIN u /\ v[i] = u[g(i)] /\ f(g(i)) = i
  <2> HIDE DEF u, v
  <2>1. \A i \in n + 1 .. n + m : u[i] = q[i - n] /\ v[i + 1] = q[i - n]
    <3>1. TAKE i \in n + 1 .. n + m
    <3>2. i - n \in 1 .. m /\ i = n + (i - n) /\ i + 1 = n + 1 + (i - n)
      BY <1>1
    <3>3. QED
      BY <1>2, <3>2
  <2>2. ASSUME NEW i \in DOMAIN u PROVE f(i) \in DOMAIN v /\ u[i] = v[f(i)]
    <3>1. CASE i <= n
      BY <1>1, <1>2, <3>1
    <3>2. CASE i = n + m + 1
      BY <1>1, <1>2, <3>2
    <3>3. CASE i > n /\ i # n + m + 1
      <4> HIDE DEF n, m
      <4>1. i \in n + 1 .. n + m
        BY <1>1, <3>3
      <4>2. f(i) = i + 1 /\ i + 1 \in DOMAIN v
        BY <1>1, <3>3, <4>1
      <4>3. QED
        BY <2>1, <4>1, <4>2
    <3>4. QED
      BY <1>1, <3>1, <3>2, <3>3
  <2>3. ASSUME NEW i \in DOMAIN v PROVE g(i) \in DOMAIN u /\ v[i] = u[g(i)] /\ f(g(i)) = i
    <3>1. CASE i <= n
      BY <1>1, <1>2, <3>1
    <3>2. CASE i = n + 1
      BY <1>1, <1>2, <3>2
    <3>3. CASE i > n + 1
      <4>1. i - 1 \in n + 1 .. n + m /\ (i - 1) + 1 = i
        BY <1>1, <3>3
      <4>2. u[i - 1] = v[i]
        BY <2>1, <4>1
      <4>3. g(i) = i - 1
        BY <1>1, <3>3
      <4>4. QED
        BY <1>1, <3>3, <4>1, <4>2, <4>3
    <3>4. QED
      BY <1>1, <3>1, <3>2, <3>3
  <2>4. QED
    BY <2>2, <2>3
<1> HIDE DEF u, v
<1>4. ToSet(u) = ToSet(v)
  <2>1. ToSet(u) \subseteq ToSet(v)
    BY <1>3 DEF ToSet
  <2>2. ToSet(v) \subseteq ToSet(u)
    BY <1>3 DEF ToSet
  <2>3. QED
    BY <2>1, <2>2
<1>5. IsInjective(v)
  <2>1. IsInjective(u)
    BY DEF Ordered, u
  <2>2. ASSUME NEW i \in DOMAIN v, NEW j \in DOMAIN v, v[i] = v[j] PROVE i = j
    <3>1. g(i) = g(j)
      BY <1>3, <2>1, <2>2 DEF IsInjective
    <3>2. QED
      BY <1>3, <3>1
  <2>3. QED
    BY <2>2 DEF IsInjective
<1>6. IsInjective(l) /\ ToSet(u) = ToSet(l)
  BY DEF Ordered, u
<1>7. ASSUME NEW a \in ToSet(l), NEW b \in ToSet(l),
             Precedes(l, a, b), a \in d \cup {x} <=> b \in d \cup {x}
      PROVE  Precedes(v, a, b)
  <2>1. a # x /\ a # b
    <3>1. DOMAIN l = 1 .. Len(l) /\ Len(l) \in Nat \ {0}
      BY EmptySeq, LenProperties
    <3>2. QED
      BY <1>6, <1>7, <3>1 DEF Precedes, IsInjective
  <2>2. CASE b = x
    <3>1. a \in ToSet(w)
      BY <1>7, <2>1, <2>2
    <3>2. PICK i \in 1 .. n : w[i] = a
      BY <1>1, <3>1 DEF ToSet
    <3>3. i < n + 1 /\ i \in DOMAIN v /\ n + 1 \in DOMAIN v /\ v[i] = a /\ v[n + 1] = b
      BY <1>1, <1>2, <2>2, <3>2 DEF v
    <3>4. QED
      BY <3>3 DEF Precedes
  <2>3. CASE b # x
    <3>1. Precedes(u, a, b)
      BY <1>7, <2>1, <2>3 DEF Ordered, u
    <3>2. PICK i, j \in DOMAIN u : i < j /\ u[i] = a /\ u[j] = b
      BY <3>1 DEF Precedes
    <3>3. i # n + m + 1 /\ j # n + m + 1
      BY <1>2, <2>1, <2>3, <3>2 DEF u
    <3>4. f(i) < f(j)
      <4>1. i \in Nat /\ j \in Nat /\ i < j /\ n \in Nat /\ m \in Nat
        BY <1>1, <3>2
      <4>2. QED
        BY <3>3, <4>1
    <3>5. f(i) \in DOMAIN v /\ f(j) \in DOMAIN v /\ v[f(i)] = a /\ v[f(j)] = b
      BY <1>3, <3>2
    <3> HIDE DEF f
    <3>6. QED
      BY <3>4, <3>5 DEF Precedes
  <2>4. QED
    BY <2>2, <2>3
<1>8. QED
  BY <1>4, <1>5, <1>6, <1>7 DEF Ordered, v

(* A logger whose line is begun and not yet logged. *)
Unlogged(l) ==
  \/ at[l] \in {"check", "pass", "name", "rename", "reset", "reopen", "closing", "opening", "lock", "count"}
  \/ op[l] = "flush" /\ mtx = l

FreshInv ==
  \A l \in Loggers : \A n \in 1 .. LinesOf[l] :
    <<l, n>> \in ToSet(logged) => n <= sent[l] /\ (Unlogged(l) => n < sent[l])

(* ~Log() begins when nobody logs any more, and closes the deque when it    *)
(* has found it empty.                                                      *)
DrainInv ==
  /\ at[Main] \in {"drain", "prod", "close", "join", "final", "closing", "call", "exit"} =>
       \A l \in Loggers : at[l] = "out"
  /\ at[Main] = "close" \/ op[Main] = "Close" => deq = <<>>

TrailInv ==
  /\ Ordered(logged, Trail, direct)
  /\ direct \subseteq ToSet(written)
  /\ str # <<>> => at[Writer] = "put"
  /\ buff # <<>> => logged # <<>> /\ buff = <<logged[Len(logged)]>>

LEMMA DequeChanges ==
  ASSUME IndInv, NEW t \in Threads, DequeStep(t)
  PROVE  /\ item' = item \/ (op'[t] = "none" /\ item' = [item EXCEPT ![t] = NoItem])
         /\ \/ deq' = deq
            \/ Push(t) /\ op[t] \in Pushes
            \/ op[t] \in Pops /\ deq # <<>> /\ deq' = Tail(deq)
            \/ op[t] = "Close" /\ deq' = <<>>
<1>1. \A W : ReturnWaking(t, W) => op'[t] = "none" /\ item' = [item EXCEPT ![t] = NoItem]
  BY DEF ReturnWaking, IndInv, TypeOK
<1>2. \A O : NotifyOneAndReturn(t, O) => op'[t] = "none" /\ item' = [item EXCEPT ![t] = NoItem]
  BY <1>1 DEF NotifyOneAndReturn, Return
<1>3. CASE Push(t) \/ Pop(t) \/ PopFails(t) \/ Query(t) \/ NotifyConsumers(t) \/ Flush(t)
  <2>1. op'[t] = "none" /\ item' = [item EXCEPT ![t] = NoItem]
    BY <1>1, <1>2, <1>3 DEF Push, Pop, PopOf, PopFails, Query, NotifyConsumers, Flush, Return
  <2>2. Pop(t) => op[t] \in Pops /\ deq # <<>> /\ deq' = Tail(deq)
    BY Sides DEF Pop, PopOf, Entered, Blocked
  <2>3. Push(t) => op[t] \in Pushes
    BY DEF Push, Entered
  <2>4. QED
    BY <1>3, <2>1, <2>2, <2>3 DEF PopFails, Query, NotifyConsumers, Flush
<1>4. CASE Wait(t) \/ Close(t) \/ NotifyProducers(t) \/ SpuriousWake(t)
  BY <1>4 DEF Wait, Close, NotifyProducers, SpuriousWake, Goto
<1>5. QED
  BY <1>3, <1>4 DEF DequeStep, Unlocked

(* The holder of mtx_ is the one that can be pushing. *)
LEMMA WhoPushes ==
  ASSUME Control
  PROVE  /\ \A l \in Loggers : op[l] = "push_back" => Pushing = <<item[l]>> /\ mtx = l
         /\ (\A l \in Loggers : op[l] # "push_back") => Pushing = <<>>
BY Kinds DEF Control, MtxInv, Pushing

LEMMA NobodyPushes ==
  ASSUME Control, NEW t \in Threads, mtx = t, op[t] # "push_back"
  PROVE  Pushing = <<>>
BY DEF Pushing

LEMMA StillPushing ==
  ASSUME Control, Control', NEW t \in Threads, Only(t), op[t] # "push_back", op'[t] # "push_back",
         \A s \in Threads \ {t} : item'[s] = item[s]
  PROVE  Pushing' = Pushing
<1>1. CASE \E l \in Loggers : op[l] = "push_back"
  <2>1. PICK l \in Loggers : op[l] = "push_back"
    BY <1>1
  <2>2. Pushing = <<item[l]>> /\ l \in Threads \ {t}
    BY <2>1, WhoPushes, Kinds
  <2>3. op'[l] = "push_back" /\ item'[l] = item[l]
    BY <2>1, <2>2 DEF Only
  <2>4. Pushing' = <<item'[l]>>
    BY <2>3, Kinds DEF Control, MtxInv, Pushing
  <2>5. QED
    BY <2>2, <2>3, <2>4
<1>2. CASE \A l \in Loggers : op[l] # "push_back"
  <2>1. \A l \in Loggers : op'[l] # "push_back"
    BY <1>2, Kinds DEF Only
  <2>2. QED
    BY <1>2, <2>1 DEF Pushing
<1>3. QED
  BY <1>1, <1>2

LEMMA SequenceLaws ==
  ASSUME NEW S
  PROVE  /\ \A u, v \in Seq(S) : u \o v \in Seq(S)
         /\ \A u, v, r \in Seq(S) : (u \o v) \o r = u \o (v \o r)
         /\ \A u \in Seq(S) : u \o <<>> = u /\ <<>> \o u = u
         /\ \A u \in Seq(S) : \A x \in S : Append(u, x) = u \o <<x>> /\ Append(u, x) \in Seq(S)
         /\ \A x \in S : <<x>> \in Seq(S)
         /\ <<>> \in Seq(S)
<1>1. \A u, v, r \in Seq(S) : (u \o v) \o r = u \o (v \o r)
  <2>1. TAKE u, v, r \in Seq(S)
  <2>2. QED
    OBVIOUS
<1>2. \A u \in Seq(S) : u \o <<>> = u /\ <<>> \o u = u
  OBVIOUS
<1>3. \A u, v \in Seq(S) : u \o v \in Seq(S)
  OBVIOUS
<1>4. \A u \in Seq(S) : \A x \in S : Append(u, x) = u \o <<x>> /\ Append(u, x) \in Seq(S)
  OBVIOUS
<1>5. (\A x \in S : <<x>> \in Seq(S)) /\ <<>> \in Seq(S)
  OBVIOUS
<1>6. QED
  BY <1>1, <1>2, <1>3, <1>4, <1>5

(* A line pushed or popped keeps its place. *)
LEMMA PushKeepsPlace ==
  ASSUME NEW S, NEW u \in Seq(S), NEW d \in Seq(S), NEW x \in S
  PROVE  u \o Append(d, x) \o <<>> = u \o d \o <<x>>
<1>1. Append(d, x) = d \o <<x>> /\ Append(d, x) \in Seq(S) /\ <<x>> \in Seq(S)
  BY SequenceLaws
<1>2. u \o Append(d, x) \in Seq(S) /\ u \o Append(d, x) = u \o d \o <<x>>
  BY <1>1, SequenceLaws
<1>3. QED
  BY <1>2, SequenceLaws

LEMMA PopKeepsPlace ==
  ASSUME NEW S, NEW u \in Seq(S), NEW d \in Seq(S), d # <<>>
  PROVE  u \o <<Head(d)>> \o Tail(d) = u \o <<>> \o d
<1>1. <<Head(d)>> \in Seq(S) /\ Tail(d) \in Seq(S) /\ d = <<Head(d)>> \o Tail(d)
  OBVIOUS
<1>2. u \o <<Head(d)>> \o Tail(d) = u \o (<<Head(d)>> \o Tail(d))
  BY <1>1, SequenceLaws
<1>3. QED
  BY <1>1, <1>2, SequenceLaws

LEMMA OneLine ==
  ASSUME NEW S, NEW b \in Seq(S), Len(b) <= 1, b # <<>>
  PROVE  \E x \in S : b = <<x>>
<1>1. Len(b) \in Nat /\ Len(b) # 0
  BY EmptySeq
<1>2. Len(b) = 1
  BY <1>1
<1>3. b[1] \in S
  BY <1>2, ElementOfSeq
<1>4. b = <<b[1]>>
  BY <1>2
<1>5. QED
  BY <1>3, <1>4

(* A line in its logger's hands stands last, and goes from there to the end *)
(* of the files when it bypasses the deque.                                 *)
LEMMA HandedKeepsPlace ==
  ASSUME NEW S, NEW u \in Seq(S), NEW x \in S
  PROVE  u \o <<x>> \o <<>> = u \o <<>> \o <<x>>
<1>1. u \o <<x>> \in Seq(S)
  BY SequenceLaws
<1>2. QED
  BY <1>1, SequenceLaws

LEMMA LastInHand ==
  ASSUME NEW S, NEW u \in Seq(S), NEW x \in S
  PROVE  u \o <<>> \o <<x>> = Append(u \o <<>> \o <<>>, x)
BY SequenceLaws

LEMMA LastOfQueue ==
  ASSUME NEW S, NEW w \in Seq(S), NEW s \in Seq(S), NEW d \in Seq(S), NEW x \in S
  PROVE  w \o s \o d \o <<>> \o <<x>> = Append(w \o (s \o d), x)
<1>1. w \o s \o d \in Seq(S) /\ w \o s \o d = w \o (s \o d)
  BY SequenceLaws
<1>2. w \o s \o d \o <<>> \o <<x>> = Append(w \o s \o d, x)
  BY <1>1, SequenceLaws
<1>3. QED
  BY <1>1, <1>2

LEMMA LastOfFile ==
  ASSUME NEW S, NEW w \in Seq(S), NEW s \in Seq(S), NEW d \in Seq(S), NEW x \in S
  PROVE  (w \o <<x>>) \o s \o d \o <<>> \o <<>> = Append(w, x) \o (s \o d)
<1>1. w \o <<x>> \in Seq(S) /\ w \o <<x>> = Append(w, x)
  BY SequenceLaws
<1>2. (w \o <<x>>) \o s \in Seq(S) /\ (w \o <<x>>) \o s \o d \in Seq(S)
      /\ (w \o <<x>>) \o s \o d = (w \o <<x>>) \o (s \o d)
  BY <1>1, SequenceLaws
<1>3. (w \o <<x>>) \o s \o d \o <<>> \o <<>> = (w \o <<x>>) \o s \o d
  BY <1>2, SequenceLaws
<1>4. QED
  BY <1>1, <1>2, <1>3

(* What a step inside the deque does to it. *)
LEMMA WithinDeque ==
  ASSUME Control, NEW t \in Threads, Within(t)
  PROVE  /\ item' = item \/ (op'[t] = "none" /\ item' = [item EXCEPT ![t] = NoItem])
         /\ \/ deq' = deq /\ str' = str
            \/ Push(t) /\ op[t] \in Pushes /\ str' = str
            \/ Popped(t) /\ op[t] \in Pops /\ deq # <<>> /\ deq' = Tail(deq) /\ str' = <<Head(deq)>>
            \/ op[t] = "Close" /\ deq' = <<>> /\ str' = str
<1>1. DequeStep(t) /\ IndInv
  BY WithinControl DEF Control
<1>2. item' = item \/ (op'[t] = "none" /\ item' = [item EXCEPT ![t] = NoItem])
  BY <1>1, DequeChanges
<1>3. CASE Popped(t)
  <2>1. op[t] \in Pops /\ deq' = Tail(deq) /\ str' = <<Head(deq)>>
    BY <1>3 DEF Popped, PopOf, Entered
  <2>2. deq # <<>>
    BY <1>3, <2>1, Sides DEF Popped, PopOf, Blocked
  <2>3. QED
    BY <1>2, <1>3, <2>1, <2>2
<1>4. CASE Inside(t, Push(t) \/ PopFails(t) \/ Wait(t) \/ Query(t) \/ Close(t) \/ Unlocked(t))
  <2>1. str' = str
    BY <1>4 DEF Inside, lines
  <2>2. \/ deq' = deq
        \/ Push(t) /\ op[t] \in Pushes
        \/ op[t] = "Close" /\ deq' = <<>>
    BY <1>4 DEF Inside, Push, Entered, PopFails, Wait, Query, Close, Unlocked, NotifyProducers, NotifyConsumers, Flush
  <2>3. QED
    BY <1>2, <2>1, <2>2
<1>5. CASE Inside(t, SpuriousWake(t))
  BY <1>2, <1>5 DEF Inside, SpuriousWake, lines
<1>6. QED
  BY <1>2, <1>3, <1>4, <1>5 DEF Within

(* Outside of it, only a logger that is out begins a line. *)
LEMMA OutIsOut ==
  ASSUME Control, NEW t \in Threads, LogStep(t), at[t] = "out"
  PROVE  LogLine(t)
BY WhoIsAt DEF LogStep, Act, Look, Name, Rename, Reset, Reopen, CloseFile, OpenFile, LockLine, Format, PushLine,
       Direct, Fflush, Put, CallDeque, CallAt, Destroy, Inside, Popped, Start

LEMMA StepDrain ==
  ASSUME Control, DrainInv, NEW t \in Threads, LogStep(t), ~Start(t), Control', Only(t)
  PROVE  DrainInv'
<1> DEFINE Leaves == {"drain", "prod", "close", "join", "final", "closing", "call", "exit"}
<1>1. CASE t # Main
  <2>1. at'[Main] = at[Main] /\ op'[Main] = op[Main]
    BY <1>1, Kinds DEF Only
  <2>2. ASSUME at[Main] \in Leaves
        PROVE  \A l \in Loggers : at'[l] = "out"
    <3>1. \A l \in Loggers : at[l] = "out"
      BY <2>2 DEF DrainInv
    <3>2. t \notin Loggers
      BY <2>2, <3>1, OutIsOut DEF LogLine
    <3>3. QED
      BY <3>1, <3>2, Kinds DEF Only
  <2>3. ASSUME at[Main] = "close" \/ op[Main] = "Close"
        PROVE  deq' = <<>>
    <3>1. at[Main] \in Leaves /\ deq = <<>>
      BY <2>3, Kinds DEF DrainInv, Control, PlaceInv
    <3>2. t \notin Loggers
      BY <3>1, OutIsOut DEF LogLine, DrainInv
    <3>3. op[t] \notin Pushes
      BY <1>1, <3>2, Kinds DEF Control, PlaceInv, Pushes
    <3>4. CASE Within(t)
      BY <3>1, <3>3, <3>4, WithinDeque
    <3>5. CASE ~Within(t)
      BY <3>1, <3>5 DEF LogStep, Act, Within, LogLine, Look, Name, Rename, Reset, Reopen, CloseFile, OpenFile, LockLine, Format,
         PushLine, Direct, Fflush, Put, CallDeque, Destroy, Enter, Begin, vars
    <3>6. QED
      BY <3>4, <3>5
  <2>4. QED
    BY <2>1, <2>2, <2>3 DEF DrainInv
<1>2. CASE t = Main
  <2>1. \A l \in Loggers : at'[l] = at[l]
    BY <1>2, Kinds DEF Only
  <2>2. CASE Within(t)
    <3>1. op[t] \in {"flush", "empty", "Close"} /\ at[t] = "call" /\ op[t] # "none"
      BY <1>2, <2>2, WithinMoves DEF Control, PlaceInv
    <3>2. deq' = deq \/ deq' = <<>>
      BY <2>2, <3>1, WithinDeque DEF Pushes, Pops
    <3>3. op'[t] = "Close" => op[t] = "Close"
      BY <2>2, WithinMoves
    <3>4. at'[t] = "close" => deq' = <<>>
      <4>1. ASSUME NEW ACTION A, Inside(t, A), at'[t] = "close" PROVE op[t] = "empty" /\ deq = <<>>
        <5>1. at' = [at EXCEPT ![t] = After(t)]
          BY <3>1, <4>1 DEF Inside, Move, Control, PlaceInv
        <5>2. After(t) = "close"
          BY <4>1, <5>1 DEF Control, PlaceInv
        <5>3. QED
          BY <3>1, <5>2 DEF After
      <4>2. ~Popped(t)
        BY <3>1 DEF Popped, PopOf, Entered, Pops
      <4>3. QED
        BY <2>2, <3>2, <4>1, <4>2 DEF Within
    <3>5. QED
      BY <1>2, <2>1, <3>1, <3>2, <3>3, <3>4 DEF DrainInv
  <2>3. CASE ~Within(t)
    <3>1. deq' = deq /\ at[t] # "call" /\ op[t] = "none"
      <4>1. deq' = deq /\ at[t] # "call"
        BY <2>3 DEF LogStep, Act, Within, LogLine, Look, Name, Rename, Reset, Reopen, CloseFile, OpenFile, LockLine, Format,
           PushLine, Direct, Fflush, Put, CallDeque, CallAt, Destroy, Enter, Begin, vars
      <4>2. QED
        BY <4>1, WhoIsAt
    <3>2. \/ Destroy(t) /\ \A l \in Loggers : at[l] = "out"
          \/ at[t] \in Leaves /\ ~Destroy(t)
      BY <1>2, <2>3, Kinds, WhoIsAt DEF LogStep, Act, Within, LogLine, Look, Name, Rename, Reset, Reopen, CloseFile, OpenFile,
         LockLine, Format, PushLine, Direct, Fflush, Put, CallDeque, CallAt, Destroy, Control, PlaceInv, MainPlaces
    <3>3. at'[t] # "close"
      <4>1. at \in [Threads -> Places]
        BY DEF Control, PlaceInv
      <4>2. CASE PushLine(t) \/ CallDeque(t)
        BY <4>1, <4>2 DEF PushLine, CallDeque, Enter, Move
      <4>3. CASE Reopen(t) \/ Format(t)
        BY <4>1, <4>3 DEF Reopen, Format, Enter, Move
      <4>4. CASE ~(PushLine(t) \/ CallDeque(t) \/ Reopen(t) \/ Format(t))
        BY <2>3, <4>1, <4>4 DEF LogStep, Act, Within, LogLine, Look, Name, Rename, Reset, CloseFile, OpenFile,
           LockLine, Direct, Fflush, Put, Destroy, Move
      <4>5. QED
        BY <4>2, <4>3, <4>4
    <3>4. op'[t] = "Close" => at[t] = "close"
      <4>1. op \in [Threads -> Ops \cup {"none"}]
        BY DEF Control, IndInv, TypeOK
      <4>2. CASE Reopen(t) \/ Format(t) \/ PushLine(t) \/ CallDeque(t)
        BY <3>1, <4>1, <4>2 DEF Reopen, Format, PushLine, CallDeque, CallAt, Enter, Begin, vars
      <4>3. CASE ~(Reopen(t) \/ Format(t) \/ PushLine(t) \/ CallDeque(t))
        BY <2>3, <3>1, <4>3 DEF LogStep, Act, Within, LogLine, Look, Name, Rename, Reset, CloseFile, OpenFile,
           LockLine, Direct, Fflush, Put, Destroy, vars
      <4>4. QED
        BY <4>2, <4>3
    <3>5. QED
      BY <1>2, <2>1, <3>1, <3>2, <3>3, <3>4 DEF DrainInv
  <2>4. QED
    BY <2>2, <2>3
<1>3. QED
  BY <1>1, <1>2

LEMMA StepFresh ==
  ASSUME Control, DataInv, FreshInv, NEW t \in Threads, LogStep(t), ~Start(t), Control', Only(t)
  PROVE  FreshInv'
<1> USE DEF clock, history
<1>1. ASSUME NEW l \in Loggers, l # t PROVE sent'[l] = sent[l] /\ (Unlogged(l)' <=> Unlogged(l))
  <2>1. Unlogged(l)' <=> Unlogged(l)
    BY <1>1, Kinds DEF Only, Unlogged
  <2>2. sent'[l] = sent[l]
    <3>1. CASE Within(t)
      BY <3>1, WithinMoves
    <3>2. CASE ~Within(t)
      BY <1>1, <3>2, Kinds DEF LogStep, Act, Within, LogLine, Look, Name, Rename, Reset, Reopen, CloseFile, OpenFile,
         LockLine, Format, PushLine, Direct, Fflush, Put, CallDeque, Destroy, DataInv, LogTypeOK
    <3>3. QED
      BY <3>1, <3>2
  <2>3. QED
    BY <2>1, <2>2
<1>2. CASE Format(t)
  <2>1. t \in Loggers /\ mtx = t /\ at[t] = "count" /\ op[t] = "none" /\ Unlogged(t)
    BY <1>2, WhoIsAt DEF Format, LoggerPlaces, Held, Unlogged
  <2>2. /\ logged \in Seq(Items) /\ <<t, sent[t]>> \in Items /\ sent' = sent
        /\ logged' = Append(logged, <<t, sent[t]>>)
    BY <1>2, <2>1, LineIsItem DEF Format, DataInv, LogTypeOK
  <2>3. ToSet(logged') = ToSet(logged) \cup {<<t, sent[t]>>}
    BY <2>2, AppendAt
  <2>4. ~Unlogged(t)'
    <3>1. at \in [Threads -> Places] /\ op \in [Threads -> Ops \cup {"none"}]
      BY DEF Control, PlaceInv, IndInv, TypeOK
    <3>2. CASE isAsync
      <4>1. at'[t] = "call" /\ op'[t] = "full"
        BY <1>2, <3>1, <3>2 DEF Format, Enter, Begin, Move
      <4>2. QED
        BY <4>1 DEF Unlogged
    <3>3. CASE ~isAsync
      <4>1. at'[t] = "direct" /\ op' = op
        BY <1>2, <3>1, <3>3 DEF Format, Move, vars
      <4>2. QED
        BY <2>1, <4>1 DEF Unlogged
    <3>4. QED
      BY <3>2, <3>3
  <2>5. sent[t] \in Nat
    BY <2>1, Kinds DEF DataInv, LogTypeOK
  <2>6. ASSUME NEW l \in Loggers, NEW n \in 1 .. LinesOf[l], <<l, n>> \in ToSet(logged')
        PROVE  n <= sent'[l] /\ (Unlogged(l)' => n < sent'[l])
    <3>1. CASE l = t /\ n = sent[t]
      BY <2>2, <2>4, <2>5, <3>1
    <3>2. CASE <<l, n>> \in ToSet(logged)
      <4>1. n <= sent[l] /\ (Unlogged(l) => n < sent[l])
        BY <3>2 DEF FreshInv
      <4>2. QED
        BY <1>1, <2>2, <2>4, <4>1
    <3>3. QED
      BY <2>3, <2>6, <3>1, <3>2
  <2>7. QED
    BY <2>6 DEF FreshInv
<1>3. CASE LogLine(t)
  <2>1. t \in Loggers /\ logged' = logged /\ sent[t] \in Nat /\ sent'[t] = sent[t] + 1
    BY <1>3, Kinds DEF LogLine, DataInv, LogTypeOK
  <2>2. \A n \in 1 .. LinesOf[t] : n <= sent[t] => n <= sent'[t] /\ n < sent'[t]
    BY <2>1
  <2>3. QED
    BY <1>1, <2>1, <2>2 DEF FreshInv
<1>4. CASE ~Format(t) /\ ~LogLine(t)
  <2>1. logged' = logged /\ sent' = sent
    <3>1. CASE Within(t)
      BY <3>1, WithinMoves
    <3>2. CASE ~Within(t)
      BY <1>4, <3>2 DEF LogStep, Act, Within, Look, Name, Rename, Reset, Reopen, CloseFile, OpenFile,
         LockLine, PushLine, Direct, Fflush, Put, CallDeque, Destroy
    <3>3. QED
      BY <3>1, <3>2
  <2>2. t \in Loggers /\ Unlogged(t)' => Unlogged(t)
    <3> SUFFICES ASSUME t \in Loggers, Unlogged(t)' PROVE Unlogged(t)
      OBVIOUS
    <3>1. at \in [Threads -> Places] /\ op \in [Threads -> Ops \cup {"none"}] /\ t # Main /\ t # Writer
      BY Kinds DEF Control, PlaceInv, IndInv, TypeOK
    <3>2. CASE Within(t)
      BY <3>1, <3>2, WithinMoves, Kinds DEF Control, PlaceInv, Unlogged
    <3>3. CASE ~Within(t)
      <4>1. at[t] # "call" /\ op[t] = "none"
        <5>1. at[t] # "call"
          BY <1>4, <3>3 DEF LogStep, Act, Within, Look, Name, Rename, Reset, Reopen, CloseFile, OpenFile, LockLine,
             PushLine, Direct, Fflush, Put, CallDeque, CallAt, Destroy
        <5>2. QED
          BY <5>1, WhoIsAt
      <4>2. CASE PushLine(t) \/ CallDeque(t)
        BY <3>1, <4>1, <4>2, WhoIsAt DEF PushLine, CallDeque, CallAt, Enter, Begin, Move, Held, Unlogged
      <4>3. CASE ~PushLine(t) /\ ~CallDeque(t)
        <5>1. at[t] \in {"check", "pass", "name", "rename", "reset", "reopen", "closing", "opening", "lock"}
              \/ (UNCHANGED op /\ at'[t] \in {"flush", "out", "pop", "drain", "final"})
          BY <1>4, <3>1, <3>3, <4>1, <4>3, WhoIsAt DEF LogStep, Act, Within, Look, Name, Rename, Reset, Reopen, CloseFile, OpenFile, LockLine,
             Direct, Fflush, Put, Destroy, Move, vars
        <5>2. QED
          BY <4>1, <5>1 DEF Unlogged
      <4>4. QED
        BY <4>2, <4>3
    <3>4. QED
      BY <3>2, <3>3
  <2>3. QED
    BY <1>1, <2>1, <2>2 DEF FreshInv
<1>5. QED
  BY <1>2, <1>3, <1>4

LEMMA TrailTypes ==
  ASSUME Control, LogTypeOK
  PROVE  /\ written \in Seq(Items) /\ str \in Seq(Items) /\ deq \in Seq(Items)
         /\ Pushing \in Seq(Items) /\ buff \in Seq(Items) /\ logged \in Seq(Items)
         /\ Len(buff) <= 1 /\ Len(str) <= 1
<1>1. Pushing \in Seq(Items)
  <2>1. CASE mtx \in Loggers /\ op[mtx] = "push_back"
    <3>1. item[mtx] \in Items
      BY <2>1, Kinds DEF Control, IndInv, LabelInv, Pushes
    <3>2. QED
      BY <2>1, <3>1 DEF Pushing
  <2>2. CASE ~(mtx \in Loggers /\ op[mtx] = "push_back")
    BY <2>2 DEF Pushing
  <2>3. QED
    BY <2>1, <2>2
<1>2. QED
  BY <1>1 DEF LogTypeOK, Control, IndInv, TypeOK

(* What TrailInv asks of a step that takes or brings no line. *)
LEMMA SameTrail ==
  ASSUME TrailInv, Trail' = Trail, logged' = logged, direct' = direct,
         ToSet(written) \subseteq ToSet(written'),
         buff' \in {buff, <<>>}, str' # <<>> => at'[Writer] = "put"
  PROVE  TrailInv'
BY DEF TrailInv, Ordered

LEMMA FormatTrail ==
  ASSUME Control, DataInv, FreshInv, TrailInv, NEW t \in Threads, Format(t), Control', Only(t)
  PROVE  TrailInv'
<1> DEFINE x == <<t, sent[t]>>
<1> USE DEF lines, history
<1>1. t \in Loggers /\ mtx = t /\ at[t] = "count" /\ op[t] = "none" /\ Unlogged(t) /\ mtx' = mtx
  BY WhoIsAt DEF Format, LoggerPlaces, Held, Unlogged
<1>2. /\ x \in Items /\ logged' = Append(logged, x) /\ buff' = Append(buff, x)
      /\ UNCHANGED <<written, str, direct>>
  BY <1>1, LineIsItem DEF Format, DataInv
<1>3. buff = <<>>
  BY <1>1, Kinds DEF DataInv, Control, PlaceInv
<1>4. deq' = deq /\ op'[t] # "push_back"
  BY <1>1 DEF Format, Enter, Begin, vars, Control, IndInv, TypeOK
<1>5. Pushing = <<>> /\ Pushing' = <<>>
  BY <1>1, <1>4 DEF Pushing
<1>6. x \notin ToSet(logged)
  <2>1. sent[t] \in 1 .. LinesOf[t] /\ ~(sent[t] < sent[t])
    <3>1. sent[t] \in Nat /\ LinesOf[t] \in Nat
      BY <1>1, Kinds, LogAssumption DEF DataInv, LogTypeOK
    <3>2. sent[t] <= LinesOf[t] /\ sent[t] > 0
      BY <1>1 DEF DataInv
    <3>3. QED
      BY <3>1, <3>2
  <2>2. QED
    BY <1>1, <2>1 DEF FreshInv
<1> HIDE DEF x
<1>7. written \in Seq(Items) /\ str \in Seq(Items) /\ deq \in Seq(Items) /\ logged \in Seq(Items)
      /\ Trail \in Seq(Items)
  BY TrailTypes, SequenceLaws DEF Trail, DataInv
<1>8. buff' = <<x>>
  BY <1>2, <1>3
<1>9. Trail' = Append(Trail, x)
  <2>1. Trail = written \o str \o deq \o <<>> \o <<>>
    BY <1>3, <1>5 DEF Trail
  <2>2. Trail' = written \o str \o deq \o <<>> \o <<x>>
    BY <1>2, <1>4, <1>5, <1>8 DEF Trail
  <2>3. QED
    <3>1. written \o str \o deq \in Seq(Items)
      BY <1>7, SequenceLaws
    <3>2. QED
      BY <1>2, <2>1, <2>2, <3>1, LastInHand
<1>10. Ordered(logged', Trail', direct')
  <2>1. Ordered(logged, Trail, direct)
    BY DEF TrailInv
  <2>2. Ordered(Append(logged, x), Append(Trail, x), direct)
    BY <1>2, <1>6, <1>7, <2>1, OrderedAppend
  <2>3. QED
    BY <1>2, <1>9, <2>2
<1>11. logged' # <<>> /\ buff' = <<logged'[Len(logged')]>>
  <2>1. Append(logged, x) # <<>> /\ Append(logged, x)[Len(Append(logged, x))] = x
    <3>1. Append(logged, x) \in Seq(Items) /\ Len(Append(logged, x)) = Len(logged) + 1 /\ Len(logged) \in Nat
      BY <1>2, <1>7
    <3>2. Append(logged, x)[Len(logged) + 1] = x
      BY <1>2, <1>7, AppendAt
    <3>3. QED
      BY <3>1, <3>2, EmptySeq
  <2>2. QED
    BY <1>2, <1>8, <2>1
<1>12. at'[Writer] = at[Writer]
  BY <1>1, Kinds DEF Only
<1>13. QED
  BY <1>2, <1>10, <1>11, <1>12 DEF TrailInv

LEMMA PushTrail ==
  ASSUME Control, DataInv, TrailInv, NEW t \in Threads, PushLine(t), Control', Only(t)
  PROVE  TrailInv'
<1> USE DEF history
<1>1. t \in Loggers /\ mtx = t /\ at[t] = "push" /\ op[t] = "none" /\ mtx' = mtx
  BY WhoIsAt DEF PushLine, LoggerPlaces, Held
<1>2. buff # <<>> /\ buff \in Seq(Items) /\ Len(buff) <= 1
  BY <1>1 DEF DataInv, LogTypeOK
<1>3. PICK x \in Items : buff = <<x>>
  BY <1>2, OneLine
<1>4. /\ op'[t] = "push_back" /\ item'[t] = x /\ deq' = deq /\ buff' = <<>>
      /\ UNCHANGED <<written, str, logged, direct>>
  BY <1>3 DEF PushLine, Enter, Begin, Control, IndInv, TypeOK
<1>5. Pushing = <<>> /\ Pushing' = <<x>>
  BY <1>1, <1>4 DEF Pushing
<1>6. Trail' = Trail
  <2>1. written \in Seq(Items) /\ str \in Seq(Items) /\ deq \in Seq(Items)
    BY TrailTypes DEF DataInv
  <2>2. Trail = written \o str \o deq \o <<>> \o <<x>>
    BY <1>3, <1>5 DEF Trail
  <2>3. Trail' = written \o str \o deq \o <<x>> \o <<>>
    BY <1>4, <1>5 DEF Trail
  <2>4. QED
    <3>1. written \o str \o deq \in Seq(Items)
      BY <2>1, SequenceLaws
    <3>2. QED
      BY <2>2, <2>3, <3>1, HandedKeepsPlace
<1>7. at'[Writer] = at[Writer]
  BY <1>1, Kinds DEF Only
<1>8. QED
  BY <1>4, <1>6, <1>7, SameTrail DEF TrailInv

LEMMA DirectTrail ==
  ASSUME Control, DataInv, TrailInv, NEW t \in Threads, Direct(t), Control', Only(t)
  PROVE  TrailInv'
<1> USE DEF history
<1>1. t \in Loggers /\ mtx = t /\ op[t] = "none" /\ mtx' = NoThread
  BY WhoIsAt DEF Direct, LoggerPlaces, Held
<1>2. /\ written' = written \o buff /\ direct' = direct \cup ToSet(buff) /\ buff' = <<>>
      /\ UNCHANGED <<str, logged, deq>>
  BY DEF Direct, vars
<1>3. Pushing = <<>> /\ Pushing' = <<>>
  BY <1>1, Kinds DEF Pushing
<1>4. written \in Seq(Items) /\ str \in Seq(Items) /\ deq \in Seq(Items) /\ buff \in Seq(Items) /\ Len(buff) <= 1
      /\ logged \in Seq(Items) /\ str \o deq \in Seq(Items)
  BY TrailTypes DEF DataInv
<1>5. str' # <<>> => at'[Writer] = "put"
  BY <1>1, <1>2, Kinds DEF Only, TrailInv
<1>6. CASE buff = <<>>
  <2>1. written' = written /\ direct' = direct
    BY <1>2, <1>4, <1>6 DEF ToSet
  <2>2. Trail' = Trail
    BY <1>2, <1>3, <1>6, <2>1 DEF Trail
  <2>3. QED
    BY <1>2, <1>5, <2>1, <2>2, SameTrail
<1>7. CASE buff # <<>>
  <2>1. PICK x \in Items : buff = <<x>>
    BY <1>4, <1>7, OneLine
  <2>2. logged # <<>> /\ x = logged[Len(logged)]
    BY <1>7, <2>1 DEF TrailInv
  <2>3. Trail = Append(written \o (str \o deq), x)
    <3>1. Trail = written \o str \o deq \o <<>> \o <<x>>
      BY <1>3, <2>1 DEF Trail
    <3>2. written \o str \o deq \o <<>> \o <<x>> = Append(written \o (str \o deq), x)
      BY <1>4, <2>1, LastOfQueue
    <3>3. QED
      BY <3>1, <3>2
  <2>4. Trail' = Append(written, x) \o (str \o deq)
    <3>1. Trail' = (written \o <<x>>) \o str \o deq \o <<>> \o <<>>
      BY <1>2, <1>3, <2>1 DEF Trail
    <3>2. (written \o <<x>>) \o str \o deq \o <<>> \o <<>> = Append(written, x) \o (str \o deq)
      BY <1>4, <2>1, LastOfFile
    <3>3. QED
      BY <3>1, <3>2
  <2>5. direct' = direct \cup {x} /\ written' = Append(written, x)
    <3>1. ToSet(<<x>>) = {x}
      BY DEF ToSet
    <3>2. written \o <<x>> = Append(written, x)
      BY <1>4, SequenceLaws
    <3>3. QED
      BY <1>2, <2>1, <3>1, <3>2
  <2>6. ToSet(written') = ToSet(written) \cup {x}
    BY <1>4, <2>5, AppendAt
  <2>7. Ordered(logged', Trail', direct')
    <3>1. Ordered(logged, Append(written \o (str \o deq), x), direct) /\ direct \subseteq ToSet(written)
      BY <2>3 DEF TrailInv
    <3>2. Ordered(logged, Append(written, x) \o (str \o deq), direct \cup {x})
      BY <1>4, <2>2, <3>1, OrderedBypass
    <3>3. QED
      BY <1>2, <2>4, <2>5, <3>2
  <2>8. direct' \subseteq ToSet(written')
    BY <2>5, <2>6 DEF TrailInv
  <2>9. QED
    BY <1>2, <1>5, <2>7, <2>8 DEF TrailInv
<1>8. QED
  BY <1>6, <1>7

LEMMA PutTrail ==
  ASSUME Control, DataInv, TrailInv, NEW t \in Threads, Put(t), Control', Only(t)
  PROVE  TrailInv'
<1> USE DEF history
<1>1. /\ written' = written \o str /\ str' = <<>>
      /\ UNCHANGED <<mtx, op, item, deq, buff, logged, direct>>
  BY DEF Put, vars
<1>2. Pushing' = Pushing
  BY <1>1 DEF Pushing
<1>3. written \in Seq(Items) /\ str \in Seq(Items) /\ deq \in Seq(Items) /\ Pushing \in Seq(Items) /\ buff \in Seq(Items)
  BY TrailTypes DEF DataInv
<1>4. Trail' = Trail
  <2>1. Trail' = (written \o str) \o <<>> \o deq \o Pushing \o buff
    BY <1>1, <1>2 DEF Trail
  <2>2. (written \o str) \o <<>> = written \o str
    BY <1>3
  <2>3. QED
    BY <2>1, <2>2 DEF Trail
<1>5. ToSet(written) \subseteq ToSet(written')
  <2>1. \A i \in DOMAIN written : i \in DOMAIN written' /\ written'[i] = written[i]
    BY <1>1, <1>3
  <2>2. QED
    BY <2>1 DEF ToSet
<1>6. QED
  BY <1>1, <1>4, <1>5, SameTrail

LEMMA WithinTrail ==
  ASSUME Control, DataInv, RoomInv, DrainInv, TrailInv, NEW t \in Threads, Within(t), Control', Only(t)
  PROVE  TrailInv'
<1>1. /\ UNCHANGED <<buff, written, logged, direct>>
      /\ at[t] = "call" /\ op[t] # "none" /\ op'[t] \in {op[t], "none"}
  BY WithinMoves
<1>2. \A s \in Threads \ {t} : item'[s] = item[s]
  BY WithinDeque DEF Control, IndInv, TypeOK
<1>3. written \in Seq(Items) /\ str \in Seq(Items) /\ deq \in Seq(Items) /\ Pushing \in Seq(Items) /\ buff \in Seq(Items)
  BY TrailTypes DEF DataInv
<1>4. CASE op[t] = "push_back"
  <2>1. t \in Loggers /\ mtx = t /\ pc[t] = "lock" /\ ~Full
    BY <1>4, Kinds DEF Control, PlaceInv, MtxInv, RoomInv
  <2>2. Push(t)
    <3>1. DequeStep(t)
      BY WithinControl
    <3>2. QED
      BY <1>4, <2>1, <3>1 DEF DequeStep, Pop, PopOf, PopFails, TurnedAway, Wait, Entered, Blocked, Query, Queries, Close,
         Unlocked, NotifyProducers, NotifyConsumers, Flush, SpuriousWake, Pushes, Pops
  <2>3. deq' = Append(deq, item[t]) /\ op'[t] = "none"
    BY <1>4, <2>2, ReturnMoves DEF Push, NotifyOneAndReturn, Return, Control, IndInv
  <2>4. str' = str
    BY <1>4, WithinDeque, Sides DEF Popped, PopOf, Entered, Pops
  <2>5. Pushing = <<item[t]>> /\ item[t] \in Items
    BY <1>4, <2>1 DEF Pushing, Control, IndInv, LabelInv, Pushes
  <2>6. Pushing' = <<>>
    <3>1. mtx' = NoThread
      BY <1>4, <2>3, WithinMoves
    <3>2. QED
      BY <3>1, Kinds DEF Pushing
  <2>7. Trail' = Trail
    <3>1. Trail = written \o str \o deq \o <<item[t]>> \o buff
      BY <2>5 DEF Trail
    <3>2. Trail' = written \o str \o Append(deq, item[t]) \o <<>> \o buff
      BY <1>1, <2>3, <2>4, <2>6 DEF Trail
    <3>3. QED
      <4>1. written \o str \in Seq(Items)
        BY <1>3, SequenceLaws
      <4>2. (written \o str) \o Append(deq, item[t]) \o <<>> = (written \o str) \o deq \o <<item[t]>>
        BY <1>3, <2>5, <4>1, PushKeepsPlace
      <4>3. QED
        BY <3>1, <3>2, <4>2
  <2>8. at'[Writer] = at[Writer]
    BY <2>1, Kinds DEF Only
  <2>9. QED
    BY <1>1, <2>4, <2>7, <2>8, SameTrail DEF TrailInv
<1>5. CASE op[t] # "push_back"
  <2>1. Pushing' = Pushing
    BY <1>1, <1>2, <1>5, StillPushing
  <2>2. ~Push(t) /\ op[t] \notin Pushes
    BY <1>5, Kinds DEF Push, Entered, Pushes, Control, PlaceInv
  <2>3. CASE Popped(t) /\ op[t] \in Pops /\ deq # <<>> /\ deq' = Tail(deq) /\ str' = <<Head(deq)>>
    <3>1. t = Writer /\ at'[t] = "put"
      BY <2>3, Kinds DEF Popped, Move, Control, PlaceInv, Pops
    <3>2. str = <<>>
      BY <1>1, <3>1 DEF TrailInv
    <3>3. Trail' = Trail
      <4>1. Trail = written \o <<>> \o deq \o Pushing \o buff
        BY <3>2 DEF Trail
      <4>2. Trail' = written \o <<Head(deq)>> \o Tail(deq) \o Pushing \o buff
        BY <1>1, <2>1, <2>3 DEF Trail
      <4>3. QED
        BY <1>3, <2>3, <4>1, <4>2, PopKeepsPlace
    <3>4. QED
      BY <1>1, <3>1, <3>3, SameTrail
  <2>4. CASE str' = str /\ deq' = deq
    <3>1. Trail' = Trail
      BY <1>1, <2>1, <2>4 DEF Trail
    <3>2. str = <<>> \/ t # Writer
      BY <1>1 DEF TrailInv
    <3>3. str' # <<>> => at'[Writer] = "put"
      BY <2>4, <3>2, Kinds DEF Only, TrailInv
    <3>4. QED
      BY <1>1, <3>1, <3>3, SameTrail
  <2>5. CASE op[t] = "Close" /\ deq' = <<>> /\ str' = str
    <3>1. t = Main /\ deq = <<>>
      BY <2>5, Kinds DEF Control, PlaceInv, DrainInv
    <3>2. QED
      BY <2>4, <2>5, <3>1
  <2>6. QED
    BY <2>2, <2>3, <2>4, <2>5, WithinDeque
<1>6. QED
  BY <1>4, <1>5

LEMMA StepTrail ==
  ASSUME Control, DataInv, RoomInv, FreshInv, DrainInv, TrailInv, NEW t \in Threads, LogStep(t), ~Start(t), Control', Only(t)
  PROVE  TrailInv'
<1>1. CASE Format(t) \/ PushLine(t) \/ Direct(t) \/ Put(t) \/ Within(t)
  BY <1>1, FormatTrail, PushTrail, DirectTrail, PutTrail, WithinTrail
<1>2. CASE ~(Format(t) \/ PushLine(t) \/ Direct(t) \/ Put(t) \/ Within(t))
  <2>1. UNCHANGED <<written, str, buff, logged, direct, deq>> /\ at[t] # "call"
    BY <1>2 DEF LogStep, Act, Within, LogLine, Look, Name, Rename, Reset, Reopen, CloseFile, OpenFile, LockLine, Fflush,
       CallDeque, CallAt, Destroy, Enter, Begin, vars, lines, history
  <2>2. op[t] = "none" /\ op'[t] # "push_back" /\ \A s \in Threads \ {t} : item'[s] = item[s]
    <3>1. op[t] = "none" /\ op \in [Threads -> Ops \cup {"none"}] /\ item \in [Threads -> Items \cup {NoItem}]
      BY <2>1, WhoIsAt DEF Control, IndInv, TypeOK
    <3>2. CASE Reopen(t) \/ CallDeque(t)
      BY <2>1, <3>1, <3>2 DEF Reopen, CallDeque, CallAt, Enter, Begin, vars
    <3>3. CASE ~(Reopen(t) \/ CallDeque(t))
      BY <1>2, <3>1, <3>3 DEF LogStep, Act, Within, LogLine, Look, Name, Rename, Reset, CloseFile, OpenFile, LockLine, Fflush,
         Destroy, vars
    <3>4. QED
      BY <3>2, <3>3
  <2>3. Pushing' = Pushing
    BY <2>2, StillPushing
  <2>4. Trail' = Trail
    BY <2>1, <2>3 DEF Trail
  <2>5. at[t] # "put"
    BY <1>2 DEF LogStep, Act, Within, LogLine, Look, Name, Rename, Reset, Reopen, CloseFile, OpenFile, LockLine, Fflush,
       CallDeque, CallAt, Destroy, Inside
  <2>6. str # <<>> => at'[Writer] = "put"
    BY <2>5, Kinds DEF TrailInv, Only
  <2>7. QED
    BY <2>1, <2>4, <2>6, SameTrail
<1>3. QED
  BY <1>1, <1>2

-----------------------------------------------------------------------------
(* The theorems. *)

LogIndInv ==
  /\ Control /\ DataInv /\ RoomInv /\ OpenInv /\ FileInv
  /\ FreshInv /\ DrainInv /\ TrailInv

LEMMA InitLogIndInv == LogInit => LogIndInv
<1> SUFFICES ASSUME LogInit PROVE LogIndInv
  OBVIOUS
<1> USE Kinds DEF LogInit, LoggerPlaces, WriterPlaces, MainPlaces, Places, Held
<1>1. IndInv /\ op = [t \in Threads |-> "none"] /\ pc = [t \in Threads |-> "idle"]
  BY InitInv DEF Init
<1>2. PlaceInv /\ MtxInv
  BY <1>1 DEF PlaceInv, MtxInv
<1>3. DataInv
  <2>1. LogTypeOK
    <3>1. 1 \in 1 .. Days /\ 0 \in 0 .. Days
      BY LogAssumption
    <3>2. <<>> \in Seq(Items) /\ Len(<<>>) = 0
      OBVIOUS
    <3>3. now \in [Threads -> 0 .. Days] /\ sent \in [Threads -> Nat]
      BY <3>1
    <3>4. QED
      <4>1. mtx \in Threads \cup {NoThread} /\ {isAsync, open, crashed, overlap} \subseteq BOOLEAN
        OBVIOUS
      <4>2. day \in 1 .. Days /\ {toDay, file} \subseteq 0 .. Days /\ lineCount \in Nat
        BY <3>1
      <4>3. {buff, str, written, logged} \subseteq Seq(Items) /\ Len(buff) <= 1 /\ Len(str) <= 1
        BY <3>2
      <4>4. direct \subseteq Items
        OBVIOUS
      <4>5. QED
        BY <3>3, <4>1, <4>2, <4>3, <4>4 DEF LogTypeOK
  <2>2. QED
    BY <1>1, <2>1, LogAssumption DEF DataInv
<1>4. RoomInv /\ OpenInv
  BY <1>1 DEF RoomInv, OpenInv
<1>5. FileInv
  BY <1>1 DEF FileInv, Renaming
<1>6. FreshInv /\ DrainInv
  <2>1. ToSet(logged) = {}
    BY DEF ToSet
  <2>2. QED
    BY <1>1, <2>1 DEF FreshInv, DrainInv, Init
<1>7. TrailInv
  <2>1. Trail = <<>>
    <3>1. Pushing = <<>> /\ deq = <<>>
      BY <1>1 DEF Pushing, Init
    <3>2. QED
      BY <3>1 DEF Trail
  <2>2. ToSet(<<>>) = {} /\ DOMAIN <<>> = {}
    BY DEF ToSet
  <2>3. QED
    BY <2>1, <2>2 DEF TrailInv, Ordered, IsInjective
<1>8. QED
  BY <1>1, <1>2, <1>3, <1>4, <1>5, <1>6, <1>7 DEF LogIndInv, Control

LEMMA StartInv ==
  ASSUME LogIndInv, NEW t \in Threads, Start(t)
  PROVE  LogIndInv'
<1> USE DEF LogIndInv
<1>1. /\ Control' /\ op' = op /\ t = Main
      /\ \A l \in Loggers : at'[l] = "out" /\ at[l] = "out" /\ op[l] = "none"
  BY StartControl
<1>2. /\ toDay' = day /\ file' = day /\ open' = TRUE
      /\ UNCHANGED <<vars, mtx, day, now, sent, lineCount, buff, overlap>>
  BY <1>1 DEF Start, clock, lines, history
<1>3. DataInv'
  <2>1. LogTypeOK'
    BY <1>1, StepTypes DEF LogStep, Act
  <2>2. QED
    BY <1>1, <1>2, <2>1 DEF DataInv
<1>4. RoomInv'
  BY <1>1 DEF RoomInv
<1>5. OpenInv' /\ FileInv'
  BY <1>1, <1>2 DEF OpenInv, FileInv, Renaming
<1>6. FreshInv'
  <2>1. \A l \in Loggers : ~Unlogged(l)'
    BY <1>1, Kinds DEF Control, PlaceInv, Unlogged
  <2>2. logged' = logged /\ sent' = sent
    BY <1>2 DEF Start, history
  <2>3. QED
    BY <2>1, <2>2 DEF FreshInv
<1>7. DrainInv'
  <2>1. at'[Main] = "running"
    BY <1>1, Kinds DEF Start, Control, PlaceInv
  <2>2. op'[Main] = "none"
    BY <1>1, <2>1, Kinds DEF Control, PlaceInv
  <2>3. QED
    BY <2>1, <2>2 DEF DrainInv
<1>8. TrailInv'
  <2>1. UNCHANGED <<vars, mtx, buff, str, written, logged, direct>>
    BY <1>2 DEF Start, lines, history
  <2>2. Trail' = Trail
    BY <2>1 DEF Trail, Pushing, vars
  <2>3. str' = <<>>
    BY <1>1, <2>1 DEF TrailInv, Control, PlaceInv, Start
  <2>4. QED
    BY <2>1, <2>2, <2>3, SameTrail
<1>9. QED
  BY <1>1, <1>3, <1>4, <1>5, <1>6, <1>7, <1>8

LEMMA StillInv ==
  ASSUME LogIndInv, Midnight \/ UNCHANGED <<vars, log>>
  PROVE  LogIndInv'
<1> USE DEF LogIndInv
<1>1. UNCHANGED <<vars, at, mtx, isAsync, now, sent, counts, files, lines, history>>
  BY DEF Midnight, log, clock
<1>2. Control'
  BY <1>1, Stays DEF Control, PlaceInv, MtxInv, vars
<1>3. LogTypeOK'
  <2>1. day' \in 1 .. Days
    BY LogAssumption DEF DataInv, LogTypeOK, Midnight, log, clock
  <2>2. QED
    BY <1>1, <2>1 DEF DataInv, LogTypeOK, counts, files, lines, history
<1>4. DataInv' /\ RoomInv' /\ OpenInv' /\ FileInv'
  BY <1>1, <1>3 DEF DataInv, RoomInv, OpenInv, FileInv, Renaming, Full, vars, counts, files, lines, history
<1>5. FreshInv' /\ DrainInv'
  BY <1>1 DEF FreshInv, DrainInv, Unlogged, vars, history
<1>6. TrailInv'
  <2>1. UNCHANGED <<vars, mtx, at, buff, str, written, logged, direct>>
    BY <1>1 DEF lines, history
  <2>2. Trail' = Trail
    BY <2>1 DEF Trail, Pushing, vars
  <2>3. str' # <<>> => at'[Writer] = "put"
    BY <2>1 DEF TrailInv
  <2>4. QED
    BY <2>1, <2>2, <2>3, SameTrail
<1>7. QED
  BY <1>2, <1>4, <1>5, <1>6

LEMMA LogInduction == LogIndInv /\ [LogNext]_<<vars, log>> => LogIndInv'
<1> SUFFICES ASSUME LogIndInv, [LogNext]_<<vars, log>> PROVE LogIndInv'
  OBVIOUS
<1>1. CASE Midnight \/ UNCHANGED <<vars, log>>
  BY <1>1, StillInv
<1>2. ASSUME NEW t \in Threads, LogStep(t) PROVE LogIndInv'
  <2>1. CASE Start(t)
    BY <2>1, StartInv
  <2>2. CASE ~Start(t)
    <3>1. Control' /\ Only(t)
      BY <1>2, <2>2, StepControl DEF LogIndInv
    <3>2. QED
      BY <1>2, <2>2, <3>1, StepData, StepRoom, StepOpen, StepFile, StepFresh, StepDrain, StepTrail DEF LogIndInv
  <2>3. QED
    BY <2>1, <2>2
<1>3. QED
  BY <1>1, <1>2 DEF LogNext, LogStep

LEMMA LogInvariance == LogSpec => []LogIndInv
<1>1. QED
  BY InitLogIndInv, LogInduction, PTL DEF LogSpec

(* The types, the deque's own invariant, and that whoever gets mtx_ finds   *)
(* an open file, between fclose() and fopen() of write() or not.            *)
THEOREM LogIsSafe == LogSpec => []LogInv
<1>1. LogIndInv => LogInv
  <2> SUFFICES ASSUME LogIndInv PROVE LogInv
    OBVIOUS
  <2>1. FileIsOpen
    <3>1. \A l \in Loggers : at[l] = "opening" => mtx = l
      BY Kinds DEF LogIndInv, Control, MtxInv, Held
    <3>2. QED
      BY <3>1, Kinds DEF LogIndInv, OpenInv, FileIsOpen
  <2>2. QED
    BY <2>1 DEF LogIndInv, Control, DataInv, LogInv
<1>2. QED
  BY <1>1, LogInvariance, PTL

(* No logger ever waits inside push_back(), which write() calls with mtx_   *)
(* held: the room that full() found is still there.                         *)
THEOREM PushesFindRoom == LogSpec => []PushNeverWaits
<1>1. LogIndInv => PushNeverWaits
  BY Kinds, Sides DEF LogIndInv, Control, PlaceInv, RoomInv, IndInv, LabelInv, PushNeverWaits, Pushes, Pops
<1>2. QED
  BY <1>1, LogInvariance, PTL

(* As long as write() changes the file in one thread at a time, the file is *)
(* that of toDay_ whenever none does, though neither is read under mtx_.    *)
THEOREM FileFollowsTheDay == LogSpec => []FileIsOfToDay
<1>1. LogIndInv => FileIsOfToDay
  BY DEF LogIndInv, FileInv, FileIsOfToDay
<1>2. QED
  BY <1>1, LogInvariance, PTL

(* Every line logged is in one place and there once, and no two lines that  *)
(* both went through the deque, or both bypassed it when it was full, ever  *)
(* change their order on the way from write() to the file.                  *)
THEOREM OrderIsKept == LogSpec => []LinesKeepTheirOrder
<1>1. LogIndInv => LinesKeepTheirOrder
  BY DEF LogIndInv, TrailInv, Ordered, LinesKeepTheirOrder
<1>2. QED
  BY <1>1, LogInvariance, PTL
=============================================================================
