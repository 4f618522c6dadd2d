-------------------------------- MODULE Log --------------------------------
(***************************************************************************)
(* mfwu_webserver::Log: loggers that format a line under mtx_ and hand it  *)
(* to a thread that writes it, through a BlockDeque, or write it           *)
(* themselves when the deque is full.  The deque is BlockDeque, one step   *)
(* per critical section; the threads call it as the log does.              *)
(*                                                                         *)
(* at[t] is where thread t stands in the log's own code:                   *)
(*   out      a logger between two LOG_ macros                             *)
(*   check    in write(), about to see whether the file is still right     *)
(*   pass, name, rename, reset, reopen   changing the file: at the lock    *)
(*            that is released at once, at the second look at toDay_, at   *)
(*            the two assignments, at the second lock                      *)
(*   closing, opening     at fclose() and fopen(), with mtx_               *)
(*   lock     about to take mtx_ for the line                              *)
(*   count    in lineCount_++, between load and store, with mtx_           *)
(*   push, direct         bringing the line on its way, with mtx_          *)
(*   flush, fflush        in flush() after the line, without mtx_          *)
(*   call     inside a member function of the deque                        *)
(*   pop, put the writing thread before pop() and before fputs()           *)
(*   off, running         the main thread before init() and before ~Log()  *)
(*   drain, prod, close, join, final   the main thread in ~Log()           *)
(*   exit     returned                                                     *)
(* Every line is one that passes the level; init() is called once, before  *)
(* anything is logged.                                                     *)
(***************************************************************************)
EXTENDS BlockDeque, SequencesExt

CONSTANTS
  Loggers,   (* the threads that log                                       *)
  Writer,    (* writeThread_                                               *)
  Main,      (* the thread that calls init() and, at exit, ~Log()          *)
  LinesOf,   (* bound: LinesOf[l] is how many lines logger l logs          *)
  Days,      (* bound: how many days go by                                 *)
  MaxLines,  (* MAX_LINES                                                  *)
  NoThread   (* nobody                                                     *)

ASSUME LogAssumption ==
  /\ Threads = Loggers \cup {Writer, Main}
  /\ Writer # Main /\ Writer \notin Loggers /\ Main \notin Loggers
  /\ LinesOf \in [Loggers -> Nat]
  /\ Items = UNION {{l} \X (1 .. LinesOf[l]) : l \in Loggers}
  /\ Days \in Nat \ {0} /\ MaxLines \in Nat \ {0}
  /\ NoThread \notin Threads

VARIABLES
  at,
  mtx,       (* who holds mtx_                                             *)
  isAsync,   (* isAsync_                                                   *)
  day,       (* the clock                                                  *)
  now,       (* t of write(): the day each thread has read off the clock   *)
  sent,      (* how many lines each logger has begun                       *)
  toDay,     (* toDay_                                                     *)
  lineCount, (* lineCount_                                                 *)
  file,      (* the day in the name of the file last opened, 0 for none    *)
  open,      (* fp_ is an open file                                        *)
  crashed,   (* fflush() has met a closed file and ended the process       *)
  buff,      (* the lines in buff_                                         *)
  str,       (* the line the writing thread has popped, if any             *)
  written,   (* what the files hold, in the order of writing               *)
  logged,    (* history: the lines in the order of the locks in write()    *)
  direct,    (* history: the lines that did not go through the deque       *)
  overlap    (* history: two loggers have changed the file at once         *)

clock == <<day, now, sent>>
counts == <<toDay, lineCount>>
files == <<file, open, crashed>>
lines == <<buff, str, written>>
history == <<logged, direct, overlap>>
log == <<at, mtx, isAsync, clock, counts, files, lines, history>>

Move(t, place) == at' = [at EXCEPT ![t] = place]

(* t calls a member function of the deque. *)
Enter(t, o, x) == Begin(t, o, x) /\ Move(t, "call")

(* The threads that have chosen a file and not opened it yet. *)
Renaming == {t \in Loggers : at[t] \in {"rename", "reset", "reopen", "closing", "opening"}
                             \/ (at[t] = "call" /\ op[t] = "flush" /\ mtx = t)}

-----------------------------------------------------------------------------
LogInit ==
  /\ Init
  /\ at = [t \in Threads |-> IF t = Main THEN "off" ELSE IF t = Writer THEN "exit" ELSE "out"]
  /\ mtx = NoThread
  /\ day = 1 /\ toDay = 0 /\ file = 0 /\ lineCount = 0
  /\ now = [t \in Threads |-> 0] /\ sent = now
  /\ buff = <<>> /\ str = <<>> /\ written = <<>> /\ logged = <<>> /\ direct = {}
  /\ isAsync = FALSE /\ open = FALSE /\ crashed = FALSE /\ overlap = FALSE

Midnight ==
  /\ day < Days
  /\ day' = day + 1
  /\ UNCHANGED <<vars, at, mtx, isAsync, now, sent, counts, files, lines, history>>

(* init(), which starts the writing thread unless maxQueueSize is 0. *)
Start(t) ==
  /\ at[t] = "off"
  /\ isAsync' \in BOOLEAN
  /\ toDay' = day /\ file' = day /\ open' = TRUE
  /\ at' = [at EXCEPT ![t] = "running", ![Writer] = IF isAsync' THEN "pop" ELSE "exit"]
  /\ UNCHANGED <<vars, mtx, clock, lineCount, crashed, lines, history>>

(* LOG_BASE: IsOpen(), GetLevel(), which takes mtx_ for a moment, and the   *)
(* clock at the top of write().                                             *)
LogLine(t) ==
  /\ t \in Loggers /\ at[t] = "out" /\ sent[t] < LinesOf[t]
  /\ at[Main] = "running" /\ mtx = NoThread
  /\ sent' = [sent EXCEPT ![t] = @ + 1]
  /\ now' = [now EXCEPT ![t] = day]
  /\ Move(t, "check")
  /\ UNCHANGED <<vars, mtx, isAsync, day, counts, files, lines, history>>

(* The steps that only look.  Neither toDay_ nor lineCount_ is read under   *)
(* mtx_; ~Log() runs when nobody logs any more.                             *)
Look(t) ==
  /\ \/ /\ at[t] = "check"
        /\ Move(t, IF toDay # now[t] \/ (lineCount # 0 /\ lineCount % MaxLines = 0)
                   THEN "pass" ELSE "lock")
     \/ at[t] = "pass" /\ mtx = NoThread /\ Move(t, "name")
     \/ at[t] = "join" /\ at[Writer] = "exit" /\ Move(t, "final")
  /\ UNCHANGED <<vars, mtx, isAsync, clock, counts, files, lines, history>>

(* The second look at toDay_: a file of another day, or the next of today. *)
Name(t) ==
  /\ at[t] = "name"
  /\ overlap' = (overlap \/ Renaming # {})
  /\ Move(t, IF toDay # now[t] THEN "rename" ELSE "reopen")
  /\ UNCHANGED <<vars, mtx, isAsync, clock, counts, files, lines, logged, direct>>

(* A slip to rule out: the new day is not noted.                            *)
RenameKeepsDay(t) ==
  /\ at[t] = "rename"
  /\ Move(t, "reset")
  /\ UNCHANGED <<vars, mtx, isAsync, clock, counts, files, lines, history>>

(* toDay_ and lineCount_ are set without mtx_. *)
Rename(t) ==
  /\ at[t] = "rename"
  /\ toDay' = now[t]
  /\ Move(t, "reset")
  /\ UNCHANGED <<vars, mtx, isAsync, clock, lineCount, files, lines, history>>

(* A reset that falls into another thread's ++ is lost. *)
Reset(t) ==
  /\ at[t] = "reset"
  /\ lineCount' \in {0} \cup {lineCount : l \in {l \in Loggers : at[l] = "count"}}
  /\ Move(t, "reopen")
  /\ UNCHANGED <<vars, mtx, isAsync, clock, toDay, files, lines, history>>

(* The second lock and the last one of ~Log(), each followed by flush(). *)
Reopen(t) ==
  /\ at[t] \in {"reopen", "final"}
  /\ mtx = NoThread /\ mtx' = t
  /\ IF isAsync THEN Enter(t, "flush", NoItem) ELSE Move(t, "closing") /\ UNCHANGED vars
  /\ UNCHANGED <<isAsync, clock, counts, files, lines, history>>

(* A slip to rule out: mtx_ released between fclose() and fopen().          *)
CloseUnlocks(t) ==
  /\ at[t] = "closing"
  /\ open' = FALSE
  /\ mtx' = NoThread
  /\ Move(t, IF t = Main THEN "exit" ELSE "opening")
  /\ UNCHANGED <<vars, isAsync, clock, counts, file, crashed, lines, history>>

CloseFile(t) ==
  /\ at[t] = "closing"
  /\ open' = FALSE
  /\ mtx' = IF t = Main THEN NoThread ELSE mtx
  /\ Move(t, IF t = Main THEN "exit" ELSE "opening")
  /\ UNCHANGED <<vars, isAsync, clock, counts, file, crashed, lines, history>>

OpenFile(t) ==
  /\ at[t] = "opening"
  /\ file' = now[t] /\ open' = TRUE
  /\ mtx' = NoThread
  /\ Move(t, "lock")
  /\ UNCHANGED <<vars, isAsync, clock, counts, crashed, lines, history>>

LockLine(t) ==
  /\ at[t] = "lock"
  /\ mtx = NoThread /\ mtx' = t
  /\ Move(t, "count")
  /\ UNCHANGED <<vars, isAsync, clock, counts, files, lines, history>>

(* A slip to rule out: pushing whether the deque is full or not.            *)
FormatAndPush(t) ==
  /\ at[t] = "count"
  /\ lineCount' = lineCount + 1
  /\ buff' = Append(buff, <<t, sent[t]>>)
  /\ logged' = Append(logged, <<t, sent[t]>>)
  /\ Move(t, IF isAsync THEN "push" ELSE "direct")
  /\ UNCHANGED <<vars, mtx, isAsync, clock, toDay, files, str, written, direct, overlap>>

(* The line is put together in buff_, and the deque asked whether it is     *)
(* full.                                                                    *)
Format(t) ==
  /\ at[t] = "count"
  /\ lineCount' = lineCount + 1
  /\ buff' = Append(buff, <<t, sent[t]>>)
  /\ logged' = Append(logged, <<t, sent[t]>>)
  /\ IF isAsync THEN Enter(t, "full", NoItem) ELSE Move(t, "direct") /\ UNCHANGED vars
  /\ UNCHANGED <<mtx, isAsync, clock, toDay, files, str, written, direct, overlap>>

PushLine(t) ==
  /\ at[t] = "push"
  /\ Enter(t, "push_back", Head(buff))
  /\ buff' = <<>>
  /\ UNCHANGED <<mtx, isAsync, clock, counts, files, str, written, history>>

(* A slip to rule out: buff_ not emptied after the line.                    *)
DirectKeepsLine(t) ==
  /\ at[t] = "direct"
  /\ written' = written \o buff
  /\ direct' = direct \cup ToSet(buff)
  /\ mtx' = NoThread
  /\ Move(t, "flush")
  /\ UNCHANGED <<vars, isAsync, clock, counts, files, buff, str, logged, overlap>>

(* fputs() of what buff_ holds, and the end of write(). *)
Direct(t) ==
  /\ at[t] = "direct"
  /\ written' = written \o buff
  /\ direct' = direct \cup ToSet(buff)
  /\ buff' = <<>>
  /\ mtx' = NoThread
  /\ Move(t, "flush")
  /\ UNCHANGED <<vars, isAsync, clock, counts, files, str, logged, overlap>>

(* fflush() without mtx_: of a file that another logger has just closed,    *)
(* which may do nothing and may end the process.                            *)
Fflush(t) ==
  /\ at[t] = "fflush" \/ (at[t] = "flush" /\ ~isAsync)
  /\ crashed' \in {FALSE, ~open}
  /\ Move(t, "out")
  /\ UNCHANGED <<vars, mtx, isAsync, clock, counts, file, open, lines, history>>

-----------------------------------------------------------------------------
(* AsyncWrite_(): what it does with a line it has popped. *)
Popped(t) ==
  /\ at[t] = "call"
  /\ \E x \in Items : PopOf(t, x) /\ str' = <<x>>
  /\ Move(t, "put")
  /\ UNCHANGED <<mtx, isAsync, clock, counts, files, buff, written, history>>

Put(t) ==
  /\ at[t] = "put" /\ mtx = NoThread
  /\ written' = written \o str
  /\ str' = <<>>
  /\ Move(t, "pop")
  /\ UNCHANGED <<vars, mtx, isAsync, clock, counts, files, buff, history>>

-----------------------------------------------------------------------------
Destroy(t) ==
  /\ at[t] = "running" /\ \A l \in Loggers : at[l] = "out"
  /\ Move(t, IF isAsync THEN "drain" ELSE "final")
  /\ UNCHANGED <<vars, mtx, isAsync, clock, counts, files, lines, history>>

(* The calls of the deque that nothing else is done with: the writing       *)
(* thread's pop(), flush() after a line, and ~Log(), which asks until the   *)
(* deque is empty and then closes it.                                       *)
CallAt == [pop |-> "pop", flush |-> "flush", drain |-> "empty", prod |-> "flush", close |-> "Close"]

(* Where t goes when its call of the deque returns. *)
After(t) ==
  CASE op[t] = "full"      -> IF Full THEN "direct" ELSE "push"
    [] op[t] = "push_back" -> "flush"
    [] op[t] = "pop"       -> "exit"
    [] op[t] = "flush"     -> IF mtx = t THEN "closing" ELSE IF t = Main THEN "drain" ELSE "fflush"
    [] op[t] = "empty"     -> IF deq = <<>> THEN "close" ELSE "prod"
    [] op[t] = "Close"     -> "join"

(* A slip to rule out: a destructor that does not wait for an empty deque.  *)
CloseAtOnce(t) ==
  /\ at[t] \in DOMAIN CallAt /\ isAsync
  /\ Enter(t, IF at[t] = "drain" THEN "Close" ELSE CallAt[at[t]], NoItem)
  /\ UNCHANGED <<mtx, isAsync, clock, counts, files, lines, history>>

CallDeque(t) ==
  /\ at[t] \in DOMAIN CallAt /\ isAsync
  /\ Enter(t, CallAt[at[t]], NoItem)
  /\ UNCHANGED <<mtx, isAsync, clock, counts, files, lines, history>>

(* A step A of t inside the deque, possibly its last; a logger whose push   *)
(* has returned releases mtx_.                                              *)
Inside(t, A) ==
  /\ at[t] = "call"
  /\ A
  /\ IF op'[t] = "none" THEN Move(t, After(t)) ELSE UNCHANGED at
  /\ mtx' = IF op[t] = "push_back" /\ op'[t] = "none" THEN NoThread ELSE mtx
  /\ UNCHANGED <<isAsync, clock, counts, files, lines, history>>

Act(t) ==
  \/ Start(t) \/ Look(t) \/ Name(t) \/ Rename(t) \/ Reset(t)
  \/ Reopen(t) \/ CloseFile(t) \/ OpenFile(t)
  \/ LockLine(t) \/ Format(t) \/ PushLine(t) \/ Direct(t) \/ Fflush(t)
  \/ Popped(t) \/ Put(t) \/ CallDeque(t)
  \/ Inside(t, Push(t) \/ PopFails(t) \/ Wait(t) \/ Query(t) \/ Close(t) \/ Unlocked(t))

LogNext ==
  /\ ~crashed
  /\ \/ Midnight
     \/ \E t \in Threads :
          Act(t) \/ LogLine(t) \/ Destroy(t) \/ Inside(t, SpuriousWake(t))

(* Each logger logs finitely many lines, so mtx_ is free in the end and     *)
(* whoever waits for it gets it.                                            *)
LogSpec ==
  /\ LogInit
  /\ [][LogNext]_<<vars, log>>
  /\ \A t \in Threads : WF_<<vars, log>>(~crashed /\ Act(t))

-----------------------------------------------------------------------------
LogTypeOK ==
  /\ mtx \in Threads \cup {NoThread}
  /\ {isAsync, open, crashed, overlap} \subseteq BOOLEAN
  /\ day \in 1 .. Days /\ {toDay, file} \subseteq 0 .. Days
  /\ now \in [Threads -> 0 .. Days] /\ sent \in [Threads -> Nat]
  /\ lineCount \in Nat
  /\ {buff, str, written, logged} \subseteq Seq(Items)
  /\ Len(buff) <= 1 /\ Len(str) <= 1
  /\ direct \subseteq Items

(* Whoever gets mtx_ before the log is gone finds an open file: fputs()     *)
(* never comes between fclose() and fopen().                                *)
FileIsOpen == mtx = NoThread /\ at[Main] \notin {"off", "exit"} => open

LogInv == LogTypeOK /\ IndInv /\ FileIsOpen

(* The line in the hands of a logger inside push_back(), which has mtx_.    *)
Pushing == IF mtx \in Loggers /\ op[mtx] = "push_back" THEN <<item[mtx]>> ELSE <<>>

(* The lines logged, wherever they are: in the files, with the writing      *)
(* thread, in the deque, or still with their logger.                        *)
Trail == written \o str \o deq \o Pushing \o buff

Precedes(s, x, y) == \E i, j \in DOMAIN s : i < j /\ s[i] = x /\ s[j] = y

(* Each line logged is in one of these places and there once, and two lines *)
(* come in the order in which they were logged, unless one of them has      *)
(* bypassed a full deque and the other has not.                             *)
LinesKeepTheirOrder ==
  /\ IsInjective(logged) /\ IsInjective(Trail) /\ ToSet(Trail) = ToSet(logged)
  /\ \A x, y \in ToSet(logged) :
       Precedes(logged, x, y) /\ (x \in direct <=> y \in direct) => Precedes(Trail, x, y)

(* push_back() is called with mtx_ held, and the writing thread needs mtx_  *)
(* to make room: a logger must never have to wait in it.                    *)
PushNeverWaits == \A t \in Loggers : pc[t] # "wait"

(* As long as no two loggers change the file at once, fp_ is the file of    *)
(* toDay_ whenever nobody is changing it.                                   *)
FileIsOfToDay == ~overlap /\ Renaming = {} => file = toDay

(* Every line reaches a file, also when the process exits in the meantime.  *)
LinesAreWritten ==
  \A x \in Items : x \in ToSet(logged) ~> (crashed \/ x \in ToSet(written))

(* A writing thread that sleeps when ~Log() closes the deque is joined.     *)
SleepingWriterIsJoined ==
  (pc[Writer] = "wait" /\ pc[Main] = "notify_producers") ~> at[Main] = "exit"
=============================================================================
