# Verification of mfwu-mystl

TLA+ models of the concurrent and stateful parts of the library in `src/lib`,
checked with TLC on small instances, with TLAPS proofs for every instance of
the concurrent core, the heap timer, the pool allocator, the queues, the heap,
the vector, the strings and the linked lists.  `PROJECT.json` lists the
components, runs, mutants, the map from definitions to source lines, findings,
hazards and theorems.

## The system

mfwu-mystl is a C++17 library of headers, built with `g++ -std=c++17` and
assertions on, and driven by unit tests called from `main.cc`.  Three layers:

| part | state | operations | what makes it hard | what makes it correct |
|---|---|---|---|---|
| `safe_ringbuffer/ringbuffer_with_mutex.hpp` | slots, two positions, `is_close_`, a mutex, two condition variables | `read`, `write`, `clear`, `_close`, `flush`, `empty`, `full`, `is_close` | threads, lost wake-ups, close against wait, wrap-around | behaves as a bounded FIFO queue; no wake-up is lost; close lets everyone go |
| `test/ut_safe_rbf.hpp` | a record counter, producers, consumers, a main thread | `random_write`, `random_read`, `use_rbf_with_mtx` | join order, polling against closing | no record lost or doubled; every join returns |
| `webserver/blockqueue.h` | a deque, `isClose_`, a mutex, two condition variables | pushes at both ends, `pop`, timed `pop`, `clear`, `Close`, `flush`, queries | timeouts against notifications, close, spurious wake-ups | capacity; wake-ups; sleepers leave on close |
| `webserver/threadpool.hpp` | a task queue, `isClosed`, a mutex, a condition variable | `AddTask`, worker loop, destructor | detached workers, notify after unlock, closing with tasks left | each task once; none left behind; workers exit |
| `webserver/log.*` | a line buffer, the file, counters, a BlockDeque and a writing thread | `init`, `write`, `flush`, `AsyncWrite_`, destructor | state read outside the mutex, full queue, shutdown | lines in order and once; shutdown returns |
| `webserver/heaptimer.*` | a heap of timers and an index by id | `add`, `adjust`, `doWork`, `tick`, `pop`, `clear` | callbacks that change the heap, index arithmetic | index agrees with heap; earliest first |
| `webserver/buffer.*` | bytes and two positions | `Append`, `Retrieve*`, `ReadFd`, `WriteFd`, `MakeSpace_` | growth and compaction, short reads and writes | bytes come out as they went in |
| `allocator.hpp` | free lists, a memory pool | `allocate`, `deallocate`, `refill`, `chunk_alloc` | malloc that fails, left-over pieces | no byte handed out twice |
| `ringbuffer.hpp`, `spinlock_queue.hpp` | slots and positions; a spin lock | `read`, `write`; `push`, `pop` | two threads without a lock; capacity rounded up | FIFO |
| `vector`, `deque`, `list`, `string` | one block, a map of blocks, linked nodes | insertion and erasure anywhere, growth, iteration | moving elements over each other, blocks that fill and split, reallocation | the sequence they were given |
| search trees and their adapters `set`, `map`, `multiset`, `multimap` | nodes, links, colours or heights | insertion, erasure, bounds, ranges, merge | rebalancing; nodes exchanged or keys copied; iterators kept over a call | keys in order and all of them; colours; nodes that stay |
| hash tables and the `unordered_` adapters | buckets of chains or of trees | insertion, erasure, rehash, merge | an insertion that rehashes in the middle; equal keys | each element once and where it is looked for |
| `heap.hpp`, `priority_queue.hpp`, `trie.hpp` | an array; nodes with two counters | `push`, `pop`, `sort`; `insert`, `erase`, prefix queries | index arithmetic; counters changed on the way down and rolled back | the largest in front; the words with their counts |
| `algorithm.hpp` | none | sorting, searching, sorted ranges, rotation, removal | positions that meet | each what its name promises |
| `epoller.*`, `logger.hpp`, `tuple`, `pair`, iterators, `utils.hpp` | little or none | | | |

How they interact: `Log` owns a `BlockDeque` and a `Buffer`; its writing thread
pops what `write()` pushes.  The unit test of the mutex ring buffer is the
client whose threads call it.  `queue`, `stack`, `set`, `map` and the unordered
containers delegate to `deque`, `rbtree` and `hashtable`; all containers take
memory from `allocator.hpp`.  `ThreadPool`, `HeapTimer` and `Epoller` have no
caller in the repository.

## Modules

| module | models | how state and actions correspond |
|---|---|---|
| `BoundedQueue` | nothing in the source: the promise | an operation is invoked, takes effect in one step, returns; `items`, `closed`, and per thread `op`, `phase`, `val`, `ret` |
| `RingbufferWithMutex` | `ringbuffer_with_mutex.hpp` | `slots`, `read_pos`, `write_pos`, `is_close`, `mtx` are the members; `pc`, `op`, `val`, `ret` a thread's place in a member function and its locals; one action per statement another thread can see |
| `SafeRbfTest` | `ut_safe_rbf.hpp` | extends the buffer: its threads begin the calls the test makes, `Inside` takes the buffer's own steps, `write_cnt` is `write_cnt_` and `found` what `read_once()` reports; `TestSetting`, a part of `TestInit`, gives the buffer's constants what the test gives them |
| `BlockDeque` | `blockqueue.h` | `deq`, `isClose` are the members; one action per critical section |
| `ThreadPool` | `threadpool.hpp` | `tasks`, `isClosed` are the members of `Pool`; one action per pass through the worker loop's condition and per critical section of the clients |
| `Log` | `log.hpp`, `log.cpp` | extends `BlockDeque`: the loggers, the writing thread and the main thread take the deque's own steps while inside it (`Inside`, `Popped`), one action per critical section and per unlocked read or write of shared state outside it; `mtx`, `toDay`, `lineCount`, `buff`, `isAsync` are the members, `file` and `open` stand for `fp_` |
| `HeapTimer` | `haeptimer.hpp`, `heaptimer.cpp` | `s` holds `heap_`, `ref_` and whether an assertion has failed; a member function is an operator on it and one action, except that `doWork()` and `tick()` are split where they run a callback |
| `DefaultAlloc` | `allocator.hpp` | `p` holds `free_lists`, `start_free`, `end_free`, `heap_size` and what `malloc()` has given; a call of `allocate`, `deallocate` or `reallocate` is one action, and whether `malloc()` succeeds a choice |
| `Ringbuffer` | `ringbuffer.hpp` | `rep` holds the slots, the two positions and the reference a `read()` has returned; one action per call |
| `SpinLockQueue` | `spinlock_queue.hpp` | `rep` holds the slots, the two counters, the lock and what each thread has left to do; one action per test of the flag, per statement under the lock and for its release |
| `Buffer` | `buffer.*` | `rep` holds the bytes and the two positions, `items` the bytes still to come out; one action per member function, what the system call moved or failed to move a choice |
| `LinearContainers` | the three above, which hand out what was put in in that order, `Heap`, which hands out the largest first, and `Vector`, `String` and `LinkedList`, which keep what they were given where it was put | `kind` says which of them runs; the module gives them one set of constants, their assumptions and the properties that are theirs |
| `TreeNodes` | what the three search trees share: nodes, links, search, successor | a tree is a record of its root and, per node, children, parent, key and a mark; left and right are data, so a definition stands for both copies of the code |
| `RbTree` | `rbtree.hpp`, `rbtree_exp.hpp`, and `drbtree.hpp`, `drbtree_exp.hpp`, which are the same code with a pair for the key | `rep` is the tree, its marks the colours; `ByNode` says whether a removal exchanges nodes (`_exp`) or copies keys; one action per member function |
| `AvlTree` | `adelson_velskii_landis_tree.hpp` | the marks are the stored heights; one action per member function |
| `BinarySearchTree` | `binary_search_tree.hpp` | the same without marks |
| `Set`, `Map`, `Multiset`, `Multimap` | `set.hpp`, `map.hpp`, `multiset.hpp`, `multimap.hpp` | instances of `RbTree` with the adapters' own functions; what is merged, swapped or copied is a second container of a few given elements; `items` is the bag of what was put in and not taken out |
| `HashTable` | `hashtable.hpp`, `hashtable_exp.hpp` | `rep` holds `capacity_`, `size_`, the chains and the dummy node that ends them; `Multi` says whether `push` looks for the key |
| `UnorderedMap`, `UnorderedSet`, `UnorderedMultimap`, `UnorderedMultiset` | the headers of these names | instances of `HashTable` with the adapters' functions and what they return |
| `TreeTable` | `hashtable_wtot.hpp`: `hashtable_with_tree` | a bucket is the tree of a `Multimap`, the choice of one the hash of `HashTable` |
| `Heap` | `heap.hpp`, `priority_queue.hpp` | `rep` is `arr_`; a loop, or the recursion of `adjust()`, is a function of the number of its turns |
| `Trie` | `trie.hpp` | `rep` maps a path to its two counters, `items` is the bag of the words |
| `Vector` | `vector.hpp` | `rep` is the block from `begin_` to `last_` and the size; a loop over the cells assigns one after the other (`Assigned`), so that a wrong direction overwrites what it has yet to read |
| `String` | `string.hpp`: `string` and `tiny_string` | `rep` is the block, the size, and whether it is the local buffer; `rep.buff` is the size of that, 0 for the class without one, and chosen at first |
| `LinkedList` | `list.hpp`: forward and double list | `rep` holds `next`, `prev` and the value of every node; `rep.double`, chosen at first, says which of the two |
| `Deque` | `deque.hpp` | `rep` holds the map of blocks, and of each the free cells before its elements |
| `Algorithm` | `algorithm.hpp` | `rep` is a range, another one and a place; an algorithm is an operator that follows its loop, beside a definition of what it should compute |
| `MC...` | nothing: instances | names for the threads and the programs they run; in `MCContainers`, which extends `LinearContainers`, the containers and algorithms one beside the other |
| `RingbufferWithMutexProofs` (the test's too), `BlockDequeProofs`, `ThreadPoolProofs`, `LogProofs`, `HeapTimerProofs`, `DefaultAllocProofs`, `QueuesProofs`, `SequencesProofs` | nothing: theorems | |

Grain.  In `RingbufferWithMutex` every statement is a step: locking, testing,
sleeping, copying, advancing, notifying and unlocking interleave with all other
threads, and that no thread is ever between another's lock and unlock is
checked and proved (`MutexInv`), not assumed.  `BlockDeque` and `ThreadPool`
guard their state in the same way and touch it nowhere else, so there a whole
critical section, up to its end or to the wait that releases the mutex, is one
step; what the code does after the release (the `notify_all()` of `Close()`, the
notifications of `AddTask()` and the destructor) stays a step of its own.

Condition variables are sets of sleeping threads.  Falling asleep and releasing
the mutex are one step, as `wait()` promises; `notify_one()` wakes any one
sleeper or nobody; any sleeper may wake spuriously at any time; a woken thread
takes the mutex again before it goes on, in competition with all others.
`wait_for()` may time out while asleep and may also report a timeout to a thread
that had been notified but ran after the deadline, as the C++ library does.

Data are abstracted: values, items and tasks are model values that are only
copied.  `write(const T&)` and `write(T&&)` are one operation.  The copy and move
constructors of the ring buffer and its unsynchronised `begin()`, `end()` are
left out, and so is moving a `ThreadPool`.

In `Log` a line is the pair of its logger and a number, the name of a file is its
day, and the clock can move to the next day at any time, so that a thread may act
on a date of yesterday.  `init()` is called once, before anything is logged, and
is one step.  An `fflush()` of a file just closed is undefined: the model lets it do
nothing or end the process.  In `HeapTimer` what a node before the vector compares
to is a choice (`siftup_`), and a failed assertion ends the process.  Its callbacks
may `add()` and `adjust()`; those that call `doWork()`, `tick()`, `pop()` or
`clear()` are left out.

In `DefaultAlloc` addresses are numbers and `malloc()` returns areas without gaps,
so that a block that is one unit too long meets its neighbour.  A handler, if set,
is called until `malloc()` succeeds.

A container has one owner and its member functions run to their end, so a call is
one action.  Beside the representation `rep` each module keeps in `items` what the
container promises to hold: a bag of keys, of pairs or of values, or a sequence.  A
call changes `rep` as the code does and `items` as the caller expects, and the
properties relate the two.  Addresses matter only through which pointers are equal,
so after a call nodes are numbered anew, a dangling pointer staying what it is
(`Freed`); the nodes of `rbtree_exp` keep theirs, since that iterators stay good is
asked of them (`TreesKeepTheirShape`).  The ordered adapters that call another container's
functions (`merge`, `swap`, copies) meet one that holds at most two elements.  A deque only copies its elements and renames them 1, 2, ...
after each call.  Where a call goes wrong, as some do (below), the container becomes
`Gone` or `Spoiled`, and its invariants say nothing of what follows.

The spin-lock queue is the one of them that threads share.  Its lock, like every
access to its state, is a step, the counters are numbers of `Width` bits that
run over, and a slot holds an object only between `push` and `pop`, as the code
constructs and destroys it.  Of the plain ring buffer calls must not overlap: `read()`
sees `write_pos_ == last_` between the increment and the wrap, `write(T&&)` moves
the position before it stores the value and does not return from a full buffer,
which `write(const T&)` overruns.  So it is modelled with one caller, who may
keep the reference a `read()` has returned.

Definitions introduced by "A slip to rule out" are not part of a specification:
each is a plausible mistake in the definition below it, and a property that
would not notice it would say little.

## Runs

| run | asks | instance and why it is enough |
|---|---|---|
| `rbf_queue` | is the ring buffer a bounded FIFO queue (`IsBoundedQueue`), do its invariants hold (`IndInv`), are readers woken (`ReadersAreWoken`)? | three slots (so two values, every wrap-around and every full/empty boundary), two values to tell order apart, a writer, a reader, a thread that does both, so two of each compete, and a main thread with `clear`, `_close` and `full` |
| `rbf_progress` | are writers woken (`WritersAreWoken`), do sleepers' values and slots get used (`ValuesAreRead`, `SlotsAreWritten`), does `_close()` release those asleep (`CloseReleasesSleepers`)? | the same threads, no `clear()`, which breaks what is asked about writers, and one value, which these questions do not look at |
| `rbf_test` | does the unit test lose or double a record (`RecordsAreConserved`), are its producers joined (`ProducersAreJoined`)? | the test's two producers and two consumers; three records through two places, so that producers wait; the test has 100 records through 11 |
| `rbf_test_hang` | are its consumers joined (`ConsumersAreJoined`)? They are not: see below | the same |
| `block_deque` | capacity (`IndInv`), wake-ups (`ItemsAreComing`, `RoomIsComing`), closing (`CloseReleasesConsumers`, `TimedPopLeavesClosed`) | a producer at each end, a waiting and a timed consumer, a main thread that closes, clears, flushes and looks; two items |
| `thread_pool` | each task once (`TasksAreConserved`), none behind a busy worker while another sleeps (`NoTaskWaitsForABusyWorker`), all run (`TasksAreRun`), workers exit (`WorkersExit`) | three workers, two clients, three tasks of which one never returns, so that a worker is gone and two compete |
| `log` | lines lost, doubled or out of order (`LinesKeepTheirOrder`, `LinesAreWritten`), waiting with `mtx_` held (`PushNeverWaits`), writing to a closed file (`LogInv`), the file of the day (`FileIsOfToDay`), joining the writing thread (`SleepingWriterIsJoined`) | two loggers with three lines, a deque of one place, so that it is full and lines bypass it; two days and two lines to a file, so that files change for both reasons and by both threads at once |
| `heap_timer` | index and heap (`TimerInv`), order (`HeapOrder`), what `tick()` leaves (`TickLeavesNothingDue`), which timer is deleted (`RightTimerLeaves`) | four timers, so that a node has a parent that is not the root; three timeouts over two ticks of the clock |
| `default_alloc` | is memory handed out twice (`AllocInv`), forgotten (`NothingIsLost`), or refused while there is some (`GivesUpOnlyWhenDry`)? | three lists, two blocks to a refill, small sizes for each list of which one is no multiple of the alignment, a large size, eight calls: enough to exhaust a pool, shelve what is left, salvage a block as a pool and use up that one |
| `containers` | do the trees hold their keys in order, and do search, bounds, iterators and a trie's counters agree with them (`TreesHoldInOrder`), do colours, heights and parents stay right, and a multi container's nodes where they are (`TreesKeepTheirShape`); is each element in its chain and does an insertion return it (`TablesHoldTheirKeys`), the largest value in front (`HeapsAreOrdered`); are vector, strings and lists the sequences they were given (`SequencesAreSequences`), and is the deque (`DequesAreSequences`); do the buffer, the ring and the spin-lock queue hand out what was put in, in order (`FirstInFirstOut`); are the algorithms right (`AlgorithmsAreRight`)? | see below |
| `avl_balance` | is the AVL tree balanced (`Balanced`)? It is not: see below | the AVL tree of `containers` |
| `heap_timer_assert` | do the assertions hold (`AssertionsHold`)? They do not: see below | the same |

The instances of `containers`:

| kind | instance | reaches |
|---|---|---|
| `rbtree`, `multiset` | three keys, eight nodes | every case of insertion and removal of a red-black tree, equal keys on both sides of a node |
| `set` | six keys, six nodes | removal and merge with all keys distinct, ranges from any place to any other |
| `map`, `multimap` | four or two keys with two mapped values, five nodes | the same key with another value; equal keys with different values |
| `avl_tree`, `binary_search_tree` | three keys, eight and five nodes | every rotation; a removed node with a child below and at the root |
| `trie` | two letters, words of two of them, each at most twice | words that are prefixes of others, and every place where a letter can be missing |
| `unordered_map`, `_set` | five keys, of which some collide in five chains, some in eleven | rehashes in both directions, by load and by call |
| `unordered_multimap`, `_multiset`, `hashtable_with_tree` | three such keys, equal ones, four or five elements | duplicates that a rehash turns round |
| `heap` | three values, six places | a level of children of which one is missing |
| `vector`, `string` | two values, blocks of five or six, insertions of up to three; a `tiny_string` with three places in itself | moves in both directions, with and without growth, into and out of the local buffer |
| `list` | forward and double, two values, four nodes | front, middle, end, and the only node |
| `deque` | five elements, blocks of four, a map of seven | blocks that fill, split and leave at both ends |
| `buffer` | two bytes, two cells to begin with, five at most, a spill of two | reads that fit, fill or spill; compaction and growth |
| `ringbuffer` | four slots, two values | every wrap-around, full and empty |
| `spinlock_queue` | two threads, three places asked for, counters of three bits | a capacity rounded up, counters that run over, both threads at the lock |
| `algorithm` | ranges of up to four of three values, another of up to three | empty, equal, sorted and unsorted ranges, every place in them |

`rbf_test`, `rbf_test_hang`, `thread_pool`, `log`, `default_alloc`, the heap
timer's and the containers' runs may stop: the test ends, a pool may stay idle or
be destroyed, the process that logs exits, a failed assertion or the lack of memory
ends it, the calls are bounded, nothing is asked of a container after undefined
behaviour.  Their configurations do not check for deadlock.

### What the runs show

Everything asked of the ring buffer holds but for one thing.  `_close()` releases
whoever is asleep when it sets the flag (`CloseReleasesSleepers`), yet `read()`
tests `is_close_` only after a wake-up: a consumer that polled `is_close()`
before the close, then calls `read()` on an empty buffer after the
`notify_all()`, sleeps for good.  `rbf_test_hang` shows that `use_rbf_with_mtx()`
can hang so in its last join.

`clear()` of the ring buffer and of the deque notifies nobody, so producers can
stay asleep beside free room.  `WritersAreWoken` is therefore asked of programs
without `clear()`; in `BlockDeque`, whose timed pop can also waste a
notification, the history variable `unheard` remembers on which side a wake-up
has been lost, and the two wake-up invariants hold as long as none has.

The log keeps its lines: whatever the interleaving, the lines that went through
the deque are written once and in the order of the locks in `write()`; only those
that found it full go ahead of it.  The main thread closes the deque when it is
empty, whatever the writing thread does just then.  If that one sleeps it is
joined; if it is on its way back to `pop()` it sleeps for ever, the hang of the
ring buffer again, so a property that asks for every exit is not among those
checked.  Two loggers that change the file at once may leave a file of the wrong
day behind (`overlap` remembers it); one at a time they do not.

In the heap timer `siftup_(0)` compares the node with memory before the vector and
may fail the assertion that the other index is in the heap: `heap_timer_assert`
shows it after one `add()`.  Where it survives, the heap is ordered only below the
children of the root, since `siftup_()` never compares with the root, and only
while `adjust()` brings no timer forward.  Timers whose expiries are set in order,
as those with one timeout are, stay a heap, and `tick()` leaves none that is due.

The allocator keeps its books.  There are two dark corners.  When no memory can be
had and no handler is set, the null pointer of `malloc_alloc::allocate()` is taken
for the new pool ("successful malloc", `allocator.hpp:345`) and `refill()` writes
through it, so the caller never sees the null pointer.  And `reallocate()` looks at
the old size only, where the comment in `vector.hpp:401` names the new one as well:
a large block shrunk to a small size ends up in a free list, which is harmless
only if that size is a multiple of 8.  The history variables `adopted` and `tight`
remember both facts.

The containers hold what they should with these exceptions, each of them part of
the models:

* The AVL tree is not balanced (`avl_balance`): where both subtrees of a left child
  that is too high have the same height, `maintain_l` chooses the double rotation,
  after which heights can still differ by two; `maintain_r` does not.  The stored
  heights stay right.
* In the plain binary search tree a removed node's child, below the root, keeps the
  address of the deleted node as its parent, and the removal of the last node writes
  through a null pointer.
* The deque's `insert` of one value is wrong at `end()` and, mostly, into a full
  block; its range `insert` loses elements where the values fit in their block, and
  may misplace them at the start of one; `erase(first, last)` fails an assertion or
  destroys the dummy block twice if `last` is `end()`.  All that goes to `Spoiled`;
  the calls that are left keep the sequence.
* The ordered adapters: `erase(key)` of a multi container removes one of the equal
  elements and its `count` may find too few of them; `insert` returns a null iterator but for the root;
  inserting into a map overwrites the mapped value, and so does `merge`, which
  leaves the element behind too.  `operator[]` of map and multimap does not compile.
* The unordered ones: their constructor from a list also adds the dummy that ends
  the chains; `insert` returns what `find(key)` finds, which among equal
  elements need not be the new one after a rehash.  In the table of trees
  `erase(it)` may erase another of the equal elements.
* The trie's queries count up the path they follow, so a later `count_pref` is too
  high; a failed `erase` leaves the last node one too low, and erasing a prefix that
  is no word wraps its counter.
* A string's `insert` in the middle turns the tail round and repeats parts of it
  ("abcd" with "x" put in at 1 becomes "axddb"): where more than one element has to be moved so,
  nothing is asked of their order (`After`), only of what is in front of them;
  `reserve()` reads memory that a moving `realloc` has freed; `tiny_string` compares
  without looking at the sizes.
* `vector_iterator::operator-(int)` returns the iterator unchanged; the vector's
  own functions are modelled with that, and hold.

### Fairness

A thread inside a member function, a worker loop or a client's code keeps
running (weak fairness): nothing in the code blocks except the mutex and the
waits.  A thread that finds the mutex free again and again gets it (strong
fairness for `Lock` and `Relock`; with critical sections of one step the lock is
always free, and weak fairness says the same).  The C++ standard leaves mutex
fairness to the implementation; without it any thread could starve any other
and nothing at all could be said.  A `wait_for()` that nothing ends times out.
In `Log` each logger logs finitely many lines,
so `mtx_` is free in the end and weak fairness of the step that takes it is
enough.  Nobody has to call anything, a spurious wake-up never has to happen, and a task
returns unless it is one of `Endless`.

## Proofs

`RingbufferWithMutexProofs` proves, for any threads, values, number of slots and
programs, under the assumptions of `RingbufferWithMutex` (at least one slot, a
default value among the values, a `NoThread` that is no thread):

* `TypeCorrect`: `Spec => []TypeOK`.
* `Invariance`: `Spec => []IndInv`.  `IndInv` is inductive.  `MutexInv` says who
  is between lock and unlock; it is what lets `RoomInv` (what the loop condition
  excluded stays excluded until the position is advanced) and `CopyInv` (the
  value in flight is still the one the position stands for) survive the steps
  of other threads.  `LabelInv` ties labels to operations, `ResultInv` says a
  reader that has loaded nothing holds the default.
* `Refinement`: `Spec => IsBoundedQueue`.  The mapping reads the queue off the
  ring (`Contents`); a write takes effect in `AdvanceWrite`, a read in
  `AdvanceRead`, a refusal in `Check`, the others in their one statement.  All
  other steps stutter.  The lemmas `Stored...` say what `Contents` becomes when
  a slot outside it is written, its end or its start moves, or both positions
  meet.

The same module proves `ReadersAreWoken` from `IndInv`, and `WritersAreWoken` for programs without `clear()`, assuming finitely many threads.
Both are one argument, `Woken(o)`, inductive relative to `IndInv`: the supply a
sleeper waits for (values or free slots) is never more than the threads that
will test the loop condition again plus the notifications still to come.  An
advance moves one from one side of that sum to the other, a notification turns
one of its terms into the other, a thread falls asleep only where the supply is
nothing.

The module also proves `RecordsAreConserved` of the test that calls the buffer, for any producers, consumers,
records and slots (`NoRecordIsLost`).  Every step of the test is one of the buffer's or none of it
(`StepOfTheBuffer`), so the buffer's `IndInv` is used as it stands.  `PlaceInv` says
who is where, and that the buffer is closed only when every producer has left: no
write of the test is refused.  A step then keeps the records where they are, stocks
one, takes one out, leaves one in the common vector (`StepOfRecord`), or claims a
new one.  That no two slots or threads hold the same record (`OnceInv`) and that the
four places together hold 1 to `write_cnt` (`PartsInv`) follows for each kind of step
once, and the count is the cardinality of four disjoint sets.

`BlockDequeProofs` proves, for finitely many threads and a positive capacity,
that `IndInv` is inductive and, by the same counting (`SupplyIsComing`), that
`ItemsAreComing` and `RoomIsComing` hold: what the history variable excuses is
all that needs to be excused.

`ThreadPoolProofs` proves, for finitely many workers and clients, that `IndInv`
is inductive, `TasksAreConserved` (in the queue and in hands, the tasks are
distinct, and together with those that ran they are all that were added) and
`NoTaskWaitsForABusyWorker`, again by counting.

`LogProofs` proves, for any loggers, lines, days and capacity, `LogInv`,
`PushNeverWaits`, `FileIsOfToDay` and `LinesKeepTheirOrder`.  The log takes the
deque's own steps, so the deque's `IndInv` and the lemmas that preserve it are used
as they stand.  To it `LogIndInv` adds who is where (`PlaceInv`) and who has `mtx_`
(`MtxInv`: the places in `write()` and the calls of the deque made with it held).
That is what makes `Only(t)` true, that a step of one thread leaves the others'
places and claims to `mtx_` alone, and with it the rest is local: the room a logger
has found is still there when it pushes (`RoomInv`), since only it may push; a file
is closed only where somebody is about to open it (`OpenInv`); the one logger that
changes the file opens that of `toDay_` (`FileInv`); `buff_` holds at most the line
of the logger that has `mtx_` (`DataInv`).  The loggers need not be finitely many
for the argument, but the deque's threads are assumed to be.

The order of the lines rests on three more parts.  `FreshInv`: a line a logger has
begun and not logged is none of those logged, so no line is logged twice.
`TrailInv`: what was written, what the writing thread carries and what is in the
deque, in this order, are the lines logged, once each; those that did not bypass
the deque are in the order of the log, and so are those that did; `buff_` holds the
last line logged.  `DrainInv`: `Close()`, which drops what is in the deque, comes when
every logger has left and the deque is empty.  The lemmas before it say what becomes of two orders over
one trail when a line is appended at the end, goes straight to the file, or moves
from the deque to the writing thread and from there to the file.

`HeapTimerProofs` proves `TimerInv`, `HeapOrder`, `TickLeavesNothingDue` and
`RightTimerLeaves` for any timers, timeouts and length of time.  The sift loops of the model
are functions of the number of turns, so a loop is reasoned about by induction over
the naturals, one turn at a time: `SwapNode_` keeps the index (`Indexed`), and a turn keeps the
heap in order but at one node (`BrokenAt`), which moves up (`RisesFrom`) or down
(`SinksFrom`) until nothing is broken.  Every definition has a parameter for the
edges it speaks of: all of them, or only those below the root's children,
which is what the code's `siftup_()` keeps.  The comparison of the root with memory before
the vector stays the choice it is in the model.  The inductive invariant `TimerIndInv` joins
the index (`DataInv`), the order that the history variables still promise
(`OrderInv`), and where the timer is whose callback runs (`CallbackInv`), without
which nothing would be known about the deletion that follows the callback.

`DefaultAllocProofs` proves `AllocInv`, `NothingIsLost` and `GivesUpOnlyWhenDry` for
any alignment, sizes and number of calls.  `AllocOK` is inductive.  Its parts are these.

* What is left of the pool always has a list of exactly its length (`PoolOK`).
* `Sound(..., e)` speaks of the sets of pieces behind the lists: no address is twice in a
  list, a block of a client counts as long as the blocks of its list (`Home`), and
  all of them and the pool lie apart in areas from `malloc()` (`Clear`).  `e` is what may
  be missing at the end of a block (`Slacks`): nothing, unless a large block was cut down to
  a size that is no multiple of `Align`; but that each block owns the first byte of
  its last unit holds even then, and it is enough to count units.
* `CountedPool`: `heap_size` and what was cut down is `Align` times the number of units under the small blocks, the
  lists and the pool (`Grid`, `Cover`, `Cells`).

Each thing the allocator does is one lemma about `Sound` (a block taken or returned,
the pool shelved, salvaged, replaced or cut, an area freed or cut down) and one about
the units (`CellsTake`, `CellsShelve`, ..., `CellsCut`): all of them leave the same units
covered, except that an area from `malloc()` and a block cut down add some.  These are new
because every unit counted so far lies in an older area and outside every large block (`Footed`).
An operation is one or two of these things.  `Parts` and `UnitsCounted` lead back
from the sets to the blocks and the `Units` which the properties name, the second by a bijection.  The
arithmetic of rounding (`Rounding`, `RoundMultiple`) is proved from the division alone.

`QueuesProofs` proves `FirstInFirstOut` for any values, threads, sizes and width of the
counters, and `HeapsAreOrdered` for any integers and length of the heap.  `QueuesInv` is a
disjoint matter for each of the four: an invariant that says where in its memory
each value of `items` lies, and a lemma for each operation.

* The spin-lock queue (`SharedInv`).  Whoever is past the test of the flag has the
  lock, alone (`SharedMutex`).  `Stores` says of every slot how far it is behind the
  head and therefore what it holds, `SharedContents` what the ring holds while a call
  is at work: `push()` has counted a value that is not there yet, `pop()` has
  discounted one that still is.  That counters which run over still name the right
  slots is the lemma `BehindOf`: the capacity is a power of two (`CapacityDivides`)
  and so divides what they count to.
* The plain ring buffer (`RingInv`).  `Place(b, k)` is the slot `k` places behind the
  one to be read, and holds the value `k` places behind the first.  A reference that
  `read()` returned is to the slot before the one to be read, which no `write()` gets
  to before the next `read()`.
* The buffer (`StreamInv`).  `Streams(b, q)` says byte for byte that what is to be read
  is `q`; growing, moving, filling in place, spilling and retrieving are lemmas
  about it, over what `Overwritten`, cuts and concatenations hold.
* The heap (`HeapInv`): no value above its parent (`Ordered`), and the array holds
  each value as often as `items` says.  That the functions of the model exist
  which count a loop's turns is proved once (`TurnsExist`, `OnlyRun`), what is true after every
  turn by induction (`UpTo`).  While a value goes down all is in order but at its
  place (`SinksAt`), and likewise up (`RisesAt`), until it has run out of children
  or parents.  `Ordered` and `SinksAt` have a parameter for where the ordered part begins,
  which `make_heap()` moves to the front, and one for where it ends, which `sort()` does,
  with the values behind it ascending and none before them larger (`Topped`).  `Rearranged`
  says that an exchange, and so every loop, keeps how often each value occurs: a
  bijection between its places before and after.

It assumes of the constants that the sizes are natural numbers, the ring has a slot
and the spin-lock queue is asked for a capacity of at most half of what its counters
count to (`QueuesAssumption`).  Its counters are `size_t`, so with a capacity above
2^63 the queue could not tell full from empty; the constructor's memory
ends long before that, and the rounding fills 32 bits only, which the model does
not go beyond.

`SequencesProofs` proves `SequencesAreSequences` for any elements, any blocks and local
buffers, and lists of any length.  `SequencesInv` is again a disjoint matter for
each kind.

* The vector (`ArrayInv`).  `Holds(c, n, q, l)` says that the first `n` of `l` cells hold `q`.
  A loop that assigns cell after cell is a function of the number of its turns, and by induction
  over them (`AssignedTurns`) a cell the loop has not come to is as it was and one it has
  come to holds what its source held *by then*.  That this is what the source
  held at first is where the direction matters: forwards if the elements move to the front
  or further than they are many (`CopyIs`), backwards if they move to the back (`ReverseCopyIs`).
  With that the two ways to open a gap (`OpenedIs`) leave the elements where an insertion
  needs them, and asking for room in the middle of the call changes nothing but the
  length of the block and ends with enough of it (`WithRoomIs`).
  `vector_iterator::operator-(int)`, which returns its iterator unchanged, makes the code
  move more cells than it means to; the lemmas show that what it moves too much falls outside the
  elements.
* The strings (`TextInv`), the same with the local buffer, from whose cells the elements
  move into a block, and with the loop that turns what it moves round (`TurnedIs`): of
  more than one element it says no more than that they are elements.  The invariant
  excepts a string that `reserve()` has spoiled (`rep.freed`), as the property does.
* The lists (`ListInv`).  The nodes `p[0], ..., p[n + 1]` of a `Chain` are all different, each links
  to the next, those between the ends hold the sequence, and where the list is double each
  links back.  Walking along such a chain finds its nodes (`WalkIs`), also the one before
  a node, which the forward list has to walk to (`BeforeIs`).  Linking in new nodes and
  deleting some lead to another chain (`InsertChain`, `EraseChain`), for which the induction
  goes over the nodes added (`AddNodesIs`), and numbering the nodes in their order is
  a renaming of the chain (`RenumberedIs`).

Of the constants it assumes that sizes are natural numbers and that the mark of a node not
in use is not an element (`SequencesAssumption`): the code has no such mark, the model
needs one to tell which nodes `new` can return.

Only model-checked: everything under fairness, which is out of the prover's reach,
and of `containers` the properties `TreesHoldInOrder`, `TreesKeepTheirShape`, `TablesHoldTheirKeys`,
`DequesAreSequences` and `AlgorithmsAreRight`.  Trees, chains of buckets and most algorithms are recursive
operators there, and what those compute for every input takes an
induction over data.

## Not modelled

* `mutexlock_queue.hpp` and `lockfree_queue.hpp` do not compile and
  `mpmc_bounded_queue.hpp` is empty; `srbtree.hpp` and `abd_hashtable.hpp` are
  included by nothing.
* `hashtable_with_htbl`, the table of tables: the inner sizes are random, keys that
  are equal modulo all of them (0 and 60) make the recursion endless, and a failed
  lookup returns the dummy node of an inner table.
* `epoller.*` and `logger.hpp` only do I/O; pair, tuple, iterators, traits and
  utilities keep no state of their own.
* Of modelled parts: copies and moves of the concurrent classes; `init()` of the log
  called twice; callbacks of the heap timer that run or remove timers; the typed front end
  of the allocator; the circular list, which the source marks as not tested; node
  handles and hints; hash functions other than the identity; containers that were
  moved from; orders other than `<`, with which the heap is not one
  (`percolate_down()` compares with `<` whatever the comparator, `heap.hpp:132`).

## Plan

Done: all that is listed under Modules.  Every safety property of the concurrent
classes, the heap timer, the allocator, the queues, the heap, the vector, the strings and the lists
has a theorem.  Left to prove, in this order: `DequesAreSequences`, where the elements
are the concatenation of the blocks between the dummies and every operation a change of one block or a
shift of the map; that a hash table's chains hold each element where it is looked for
(`TablesHoldTheirKeys`).  Their loops have to become functions of the number of turns first, as
those of the other containers did.
