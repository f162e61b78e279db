# Verification of lolib

lolib is a C library with the parts of an event-driven server: connections and
their pools, an epoll event loop with timers and posted events, locks for
threads and processes, allocators, containers, strings and configuration. This
directory holds TLA+ modules that model it, TLC configurations that check them
on small instances, and TLAPS proofs of theorems about them for every value of
their constants. Paths below are relative to `src/src/`.

- [1. The system](#1-the-system): components, state, operations, interactions
- [2. What is hard, and what correct means](#2-what-is-hard-and-what-correct-means)
- [3. The modules and the code](#3-the-modules-and-the-code)
- [4. The runs](#4-the-runs)
- [5. The proofs](#5-the-proofs)
- [6. What the runs found](#6-what-the-runs-found)
- [7. What is not modelled](#7-what-is-not-modelled)
- [8. Plan](#8-plan)

## 1. The system

A program built on lolib runs worker threads and processes. Each worker thread
has one event loop. The loop is a cycle of three calls the program makes:
`epoll_process_events` (wait, then run or post the handlers of what is ready),
`event_process_posted` (run what was posted), `event_timers_expire` (run what is
due). Handlers are the program's callbacks; from inside them it calls back into
the library: it registers, deletes, closes and sets connections anew, sets
timers, takes connections from its pool and gives them back. That reentrancy,
the threads that share the common connection list, and the processes that share
memory are where the library is hard to get right.

| Component | State | Operations | Interacts with |
|---|---|---|---|
| connection pools (`fast_conn_pool.c`) | per worker: free list, `free_connection_n`, `used_n`, `change_n`; one common list | init, get, free, out, in | atomic lock around the common list; the program passes connections between workers |
| atomic lock (`fast_lock.c`) | one word, no owner | init, on, try_on, off, off_force, reset | pools, memory blocks |
| process lock (`fast_lock.c`) | mutex and **one** saved signal mask in shared memory | create, on, try_on, off, reset, release | signals of each process |
| process read-write lock (`fast_lock.c`) | rwlock and one saved mask | as above, for readers and writers | as above |
| event loop: `fast_event.c`, `fast_epoll.c`, `fast_conn.c` | per connection: descriptor, two events with `active`, `ready`, `instance`, `timer_set`, queue links; the kernel's interest list; two posted queues | add/del of sides and connections, wait and dispatch, posted processing, `conn_set_default`, `conn_connect_peer`, `conn_close` | timers, queues, sysio, the program's handlers |
| event timers (`fast_event_timer.c`) | red-black tree of events by due time | add (with a lazy window), del, expire, find_timer | event loop, red-black tree, the program's clock |
| red-black tree (`fast_rbtree.c`) | nodes, colours, root, sentinel | insert, delete, min | event timers |
| shared-memory allocator (`fast_shmem.c`) | blocks by address, free lists by class, list of available classes with a cached maximum, statistics | create, alloc, calloc, split_alloc, free, set_split_threshold | its table in `fast_shmem_allocator.c` |
| slabs (`fast_slabs.c`) | size classes with chunk lists, statistics | create, alloc, split_alloc, free, recovery | any allocator table |
| memory blocks (`fast_mblks.c`) | free list and counts under an atomic lock | get, put | atomic lock, allocators |
| half-life pool (`fast_half_life_mempool.c`) | a queue of free elements, between two sizes | get, free, expand, shrink | |
| memory pool (`fast_memory_pool.c`) | chained blocks, list of large allocations | create, alloc, free, reset, destroy | |
| notices and pipes (`fast_notice.c`, `fast_pipe.c`) | a pipe with a handler on its reading end | init, wake up | event loop |
| channel (`fast_channel.c`) | none kept | send/receive a message with a descriptor | processes |
| listening sockets (`fast_conn_listen.c`) | an array of sockets and their connections | open, add events, close | event loop, connections |
| system I/O, chains, buffers (`fast_sysio.c`, `fast_chain.c`, `fast_buffer.c`) | chains of buffers with positions | send, recv, sendfile, chain output | `ready` flags of events |
| hash table, queue, list, array | buckets, links | insert, find, remove, split, sort | used everywhere |
| strings, configuration, error log, mathematics, time, process utilities | parsing, formatting, tables, system calls | | |

The common pool and allocator tables (`fast_commpool*.c`, `fast_mem_allocator.c`,
`fast_mempool_allocator.c`, `fast_shmem_allocator.c`) forward to the allocators.

## 2. What is hard, and what correct means

`PROJECT.json` lists each hazard with its line and the properties that would
catch it. In short:

- **Connection pools.** Threads interleave at the accesses of the common list;
  the amount a pool takes is computed before the lock is taken; counters move in
  several steps around it. Correct: no connection is lost or owned twice
  (`ImplementsOwnership`), the books balance (`PoolBalance`) and count what there
  is, what a pool is owed is there when all debts are settled and nobody hoards
  (`BooksExact`), a refill never overdraws (`NeverOverdraws`), the lock is let go
  (`LockReleased`).
- **Process lock.** Processes die inside, tries fail, another process saves its
  mask in the word the holder will recover from. Correct: mutual exclusion, the
  lock's signals stay blocked while a process waits or holds (`HolderProtected`),
  the mask a process had comes back (`SignalsRecovered` - it does not, see 6).
- **Event loop.** A handler changes connections whose events are already
  harvested or posted. Correct: no event of a closed descriptor reaches a
  handler (`StaleNeverHandled`), epoll and the `active` flags agree
  (`RegistrationExact`), closing leaves nothing behind (`ClosedLeavesNothing`),
  `timer_set` and the tree agree (`TimersExact`), no event is zeroed while a queue
  links it (`PostedLinked`), a call comes to its end whatever handlers do
  (`CallEnds`).
- **Timers.** The lazy window keeps old keys; differences are cut to an int;
  handlers set timers while the tree is walked. Correct: keys do not drift
  (`KeyNearAsked`), nothing fires early, no sleep passes a due time, the expiry
  ends and due timers fire (`ExpiryServes`).
- **Shared-memory allocator.** Long sequences of splits and merges keep five
  structures in step. Correct: blocks tile the area, free neighbours are merged and
  statistics are sums (`BlocksExact`), lists and the cached maximum are exact
  (`ListsExact`), a refusal is justified (`FreeIsServed`), and the whole implements
  an abstract allocator (`ImplementsHeap`).
- **Process read-write lock.** Several readers save their masks into one word and
  recover from it in any order. Correct: a writer is alone (`WriterAlone`), who
  waits or is inside is protected, and with one mask for all nobody ends with
  another (`ReadersProtected`).
- **Memory blocks.** The last block's link points past the memory; only a count
  keeps a thread from following it. Correct: a block is with one thread at a time
  and the list is exactly the rest (`BlocksLent`).
- **Notices.** A wake-up on a full pipe is dropped; the handler drains before it
  calls back. Correct: every wake-up is followed by a call back, unless wake-ups
  without end keep the handler reading (`WokenUp`).
- **Slabs.** An allocator that refuses makes slabs give back chunks of other
  classes and try again; `free` links a chunk before it checks the statistics.
  Correct: chunks stay in one place and no memory is lost (`ChunksExact`), the
  statistics count them (`StatisticsExact`), classes hold what they are chosen for
  (`ClassesServe`), an allocation ends and fails only with nothing left to give back
  (`RecoveryServes`), a chunk is lent once (`ImplementsLoans`).
- **Tree, queue, pools, hash table.** Pointer surgery whose order matters:
  rotations and the fix-up of a deletion (`RedBlack`, `TreeIsLine`), six links of a
  split, elements moved while a sort walks (`QueuesExact`), refills that fail half
  way (`ChunksLent`), blocks emptied together while an array grows in place and
  large allocations keep their nodes in them (`AreasApart`), links removed from the
  middle of a bucket (`TableExact`).
- **Chains.** The kernel takes part of a buffer, of a run of buffers, or nothing;
  limits cut each round anew. Correct: bytes go out and come in in order, none
  twice, none skipped (`StreamsInOrder`), and the result says what the program must
  wait for (`OutputTrue`): `FAST_AGAIN` without a full socket would wait for ever
  under edge-triggered events.
- **Listening sockets.** Tries repeat with some sockets open, another failure
  returns from the middle of the array. Correct: no socket is lost, `FAST_OK` means
  that all listen and all are registered (`ListenersTrue`).
- **Time.** Gauss' formula guesses a year and corrects it (`DateRight`).

## 3. The modules and the code

| Module | Models | Kind |
|---|---|---|
| `AtomicLock` | the atomic lock's word | component, used by `ConnPool`, `MemBlocks` |
| `ConnPool` | `fast_conn_pool.c` | component |
| `ConnOwnership` | where a connection may be and how it moves | abstract specification, implemented by `ConnPool` |
| `ProcessLock`, `ProcessRWLock` | the process locks of `fast_lock.c` | components |
| `EventLoop` | `fast_event.c`, `fast_epoll.c`, `fast_conn.c` | component, with the timers as a set of events |
| `EventTimer` | `fast_event_timer.c` with keys and clock | component, with the tree as a set of keyed events |
| `RBTree` | `fast_rbtree.c` | component |
| `SortedLine` | the line of keys a timer tree stands for | abstract specification, implemented by `RBTree` |
| `Shmem` | `fast_shmem.c` | component |
| `Heap` | what an allocator promises | abstract specification, implemented by `Shmem` |
| `Allocator` | the allocator tables as their users see them | component, used by `Slabs` |
| `Slabs` | `fast_slabs.c` | component |
| `MemBlocks` | `fast_mblks.c` | component |
| `HalfLifePool` | `fast_half_life_mempool.c` | component |
| `Loans` | a thing is lent to one caller at a time | abstract specification, implemented by the three before |
| `MemoryPool` | `fast_memory_pool.c`, and `fast_array.c` growing in it | component |
| `Queue` | `fast_queue.h`, `fast_queue.c` | component |
| `Hashtable` | `fast_hashtable.c` | component |
| `Notice` | `fast_notice.c`, `fast_pipe.c` | component |
| `ChainOutput`, `ChainInput` | `fast_chain.c`, `fast_buffer.c`, the chains of `fast_sysio.c` | components |
| `Listening` | `fast_conn_listen.c` | component |
| `Calendar` | `time_gmtime` of `fast_time.c` | pure function against a calendar |
| `FastMath` | logarithm, alignment, prime of `fast_math.c` | pure functions |
| `Totals` | sums of sequences, for the statistics | used by `Shmem`, `Slabs` |
| `MC*` | | the instances TLC checks |
| `*Proofs` | | theorems and proofs |

`PROJECT.json` maps every definition to its lines. A definition whose comment
says *mutated form* is a plausible bug; it is used by no specification, only to
show that a property can fail.

`MCSync`, `MCIo`, `MCAllocators`, `MCPools` and `MCStructures` check several components in one
run. The components in one of them share nothing, so these modules are sums, not
products: a variable `part`, chosen at the beginning, says which component
moves, and the others rest in one initial state. Their properties are
conjunctions of the components' own, which carry the comments. `MCIo` is `MCSync`
with the chains beside it: its `IoSpec` is what `sync` checks, and the `SyncSpec`
of `MCSync` inside it, which no RECURSIVE definition reaches, is what `SyncProofs`
is about. In the same way `MCStructures`, whose `StructSpec` the run `structures` checks,
has the tree beside the pools, the queue, the hash table and the calendar of
`MCPools`, and `PoolsProofs` is about `PoolsSpec`.

**ConnPool.** A free list is the sequence of connections reached from its head.
A worker's own list is touched by its owner only, so those accesses are one step
with the call (`GetOwn`, `FreeOwn`). The common list is shared: each access is a
step of its own. `get_comm_conn` is `GetLock`, `GetRead` (the head goes into the
local `seen`), `GetCut` (the walk and the new head), `GetUnlock`, and, back in
`conn_pool_get_connection`, `GetRefill`; an empty list takes `GetNone` and
`GetReturnNull`. `put_comm_conn` is `PutLock`, `PutCount`, `PutLink`, `PutUnlock`,
with `FreeCommon` and `PutDone` for the two halves of
`conn_pool_free_connection` around it. Because the head is read into a local and
stored from it, two threads inside at once *would* lose connections: the
exclusion is not assumed. `want` is computed before the lock, as in the code.
A hand-over is `Out` by the giver and `In` by the receiver; between the two the
connections are in `transit`, in the program's hands. A call of get that returns
NULL without the lock changes nothing and is no action. `change_n` and the
counters are integers; that the unsigned ones stay at zero or above follows from
`CountsExact`.

**ProcessLock.** `sig_prev_mask` is one variable, since the code has one word in
shared memory for all processes. `on` is `OnBlock` then `OnLock`, `try_on` is
`TryBlock` then `TryLock` or `TryFail`, `off` is `OffUnlock` then `OffRecover`,
the order of the code. `Crash` lets a process die anywhere; the mutex is a plain
process-shared one, so it stays locked until `Reset`. The contract of the
callers: `off` by the holder, `reset` only after the holder died, `release` when
nobody uses the lock.

**EventLoop.** One action per call of the program, possible between loop calls
and inside any handler (`InProgram`): `HandleSide`, `DelSide`, `AddConn`,
`DelConn`, `SetTimer`, `DropTimer`, `Send`, `SetDefault`, `Connect`, `Close`.
The effects on epoll are those of `epoll_add_event` and its relatives with the
kernel's answers: ADD of what is there and MOD or DEL of what is not fail and
leave the interest as it was. `Wait` harvests any non-empty set of registered
descriptors in any order with any of the events they are registered for, or an
error alone. The batch is then processed entry by entry as the loop at
`fast_epoll.c:260-335` does: `SkipEntry` (stale), `ReadSide`, `NoReadSide`,
`WriteSide`, `BatchDone`; `running` is the handler that is running, and between
`ReadSide` and `WriteSide` the program may do anything. `ProcessPosted`,
`RunPosted`, `PostedDone` are `event_process_posted`; `TimersExpire`, `RunTimer`,
`TimersDone` are the expiry with which timer is due left open (`EventTimer` has the
times). `stale` is a ghost mark on harvested and posted events, set when the
connection is closed; `reused` remembers connections set anew while the batch
still holds an event of theirs.

The contract of the callers, stated because the code depends on it: connections
have `ev_base` and `ev_timer` set; a connection is closed before
`conn_set_default`; timers are added to open connections with descriptors above
0 (`conn_close` takes timers down only then, `fast_conn.c:170`); both posted queues
are processed before the next wait. `Reuses` names liberties beyond it, which
the code does not forbid and which break it: `own` (a handler closes, sets anew
and registers the connection it was called for while the write event of the same
entry is still to come), `twice` (set anew twice while a harvested event waits),
`reconnect` (`conn_connect_peer` on a closed connection without
`conn_set_default`), `posted` (set anew with an event still on a posted queue).

**EventTimer.** The tree is the set of its events, ordered by `key`. A 64-bit
difference becomes an int by `ToInt` with the width `IntRange`, where `abs` and
`epoll_wait` take one. `EventTimerAdd` keeps an old key inside the lazy window.
`Expire`, `Fire`, `Return`, `ExpireDone` are the expiry, with handlers that set
and delete any timer, their own too. `Sleep` is the wait for what
`event_find_timer` returned; it may end earlier. `clock`, chosen at
the beginning, says whether the clock moves at any time or only while the loop
sleeps (a clock cached by `time_update`). `asked` is a ghost: the time last asked for.

**Shmem.** The module has no lock because the code has none: callers serialise
the calls, and each call is one action. `order` is the list by address, `lists`
the free lists by class with `available` and `max_available_index`. Requests
round up to a class (`AllocIndex`), free blocks round down (`InsertIndex`).
`AllocTake` splits when the rest holds a header and the threshold, `SplitAlloc`
gives the largest block whole, `Free` merges with the next and then the previous
block; the error paths ("remove free failed" and its relatives) are in the
actions, and `NoListDamage` says they are never taken. Sizes are small numbers;
linear and exponential classes are chosen at creation.

**ProcessRWLock.** As `ProcessLock`, with `readers` and `writer` for the pthread lock:
`ReadBlock`/`ReadLock`, `WriteBlock`/`WriteLock`, `TryBlock` with `TryLock` or
`TryFail`, `OffUnlock`/`OffRecover`; `Crash`, `Reset`, `Release`, `Destroy` and
`InitAgain` (init on the same memory, which keeps the old mask). `Unsaved` is what
lies in the word before the first save; recovering it is undefined in the code and
any mask in the model. `spoilt` is a ghost that remembers that, and failed tries.

**MemBlocks.** `mem_get` is `GetLock`, `GetTake` or `GetNone`, `GetUnlink`, `Unlock`;
`mem_put` is `PutBegin` (the pointer checks before the lock), `PutLock`, `PutLink`,
`Unlock`. Inside the lock each access is a step, so that the exclusion is not
assumed. A block's `next` holds the pool's address while it is lent, which is what
`mem_put` checks.

**Notice.** Any thread may run `NoticeWakeUp`, at any step of the handler:
`Readable`, `Read` (as much as the buffer holds), `ReadNothing` (`FAST_EAGAIN`),
`CallBack`. `PipeOpen` and `NoticeInit` with its failure come first. The ghost `unseen`
says whether there was a wake-up since the last call back. Wake-ups have no bound, as in the
code; the states are finite because a full pipe takes no more.

**Slabs** and **Allocator.** `Allocator` keeps what a user of the tables can see: how
much is taken, who may refuse (the area by fragmentation, the pool with malloc,
the common pool only at its end) and what free does. The loop of
`fast_slabs_alloc` is `AllocListed`, or `AllocAsk` and then `AllocGranted` or
`AllocRefused`; a refusal leads to `RecoverLarger`, `RecoverSmaller` and `RecoverAll`,
and again to asking, or to `RecoverNoSpace`. `SplitAlloc` gives a chunk with the split
id, `FreeSplit` returns it, `Free` links first and counts afterwards, when it does.
Counters wrap at `SizeMod`, since the code's do at the width of `size_t`.

**RBTree.** The tree is one record, and an insertion or deletion one action, since
the code runs without interruption. The code's mirrored halves are one definition
over the sides. `Rotate`, `InsertFixup`, `TakePlace`, `Borrow`, `DeleteFixup` follow the
assignments, parents included. `TreeIsLine` is the refinement of `SortedLine` by the
tree in order; `EventTimer` and `EventLoop` take the tree as a set on this ground.

**Queue.** Each macro is the function from ring to ring that its assignments are, in
their order; `line` is a ghost with the sequence each operation promises.
A loop over links is the sequence of what it meets (`Steps`), from which `StepBack`,
the inner loop of `queue_sort`, and `Middle` take the first place where the code stops;
`SortRound` is one round of the outer loop. **HalfLifePool** takes its queue as a
sequence: `HLGet` with `Expand` (malloc gives any part of what is asked), `HLFree` with
`Shrink`, `HLDestroy`.

**MemoryPool.** An address is a pair of block and offset. `Small` walks the blocks from
`current`, `NewBlock` moves `current` past the blocks that are full, `Large` puts the
allocation's node *in a block* and at the head of the list. `areas` is a ghost, the
sequence of what the program was given; `InUse` is everything in the blocks with its
owner, so that two things at one address are two. The array pushes in place while it is the last
thing in the first block (`PushExtend`), else moves (`PushMove`). The program may not
use a pool after a reset with large allocations (`ReuseAfterLarge`, see 6).

**Hashtable.** `joined` is a ghost with the links in the order they came. `Walk` is what
the loop over a bucket meets, with NULL behind the last. Hash and
comparison are functions of the key; comparing by the shorter length, as the
library's own comparison does, is in the instance (`EqualTo`).

**ChainOutput** and **ChainInput.** One step is one system call. The bytes of a stream
are numbered, so that `wire` can be compared with what was given. `Loop` picks
`writev` or `sendfile` by the first buffer; `Pack` is what fits into the vectors and the
limit; the kernel then takes any part (`Writev`, `Sendfile`), has no room
(`WritevAgain`, `SendfileAgain`) or fails (`Fail`); `WriteUpdate` cuts the chain. `Readv`
packs neighbours into one vector (`Vectors`) and spreads what came (`ReadUpdate`).

**Listening.** `open`, `used` and `registered` are the kernel's. Opening goes element by
element: `OpenSkip`, `OpenListens`, `OpenInUse` (bind finds the address in use),
`OpenFails` (any other failure: of socket, an option, bind or listen, `EADDRINUSE` of listen
included); `OpenPass` ends a try. `Others` takes and leaves addresses at any time.
`AddEvent` makes a connection for each listener without one - of the *first*
listener's socket, as `fast_conn_listen.c:232` does.

**Calendar.** `NextDay` counts days and months one by one, `Gmtime` is the formula.

**ConnOwnership**, **Heap**, **SortedLine** and **Loans** are what callers may rely on.
`ConnPool` maps its lists to the place of each connection, `Shmem` its allocated blocks
to intervals, `RBTree` its nodes in order to a line; the three lenders keep in a ghost
who has what, and the refinement says that it changes only by one loan or return.

## 4. The runs

| Run | Specification | Instance | Shows |
|---|---|---|---|
| `conn_pool` | `FairSpec` | 2 workers, pools of 2 | exclusion, books, no overdraft, ownership refinement, lock released |
| `allocators` | `AllocSpec` | area 12, header 1, classes 2..6 by 2 and by powers, requests 1, 2, 3, 5, thresholds 2 and 0; slabs with room for three chunks over each of three allocators | tiling, coalescing, exact lists and statistics, justified refusals above `min_size`, refinement of `Heap`; chunks in place and counted, recovery serves and ends, refinement of `Loans` |
| `shmem_refused` | `Spec` | the same area, linear | **violated**: a refusal while larger blocks are free |
| `slabs_free` | `Spec` | shared memory, power classes | **violated**: the free of a chunk the manager gave is a chunk id error |
| `sync` | `IoSpec` | 3 processes, 2 signals on each process lock; 3 threads, 2 blocks; a pipe of 2 bytes, drained one at a time; chains of up to 5 bytes, limits 0..2; reads into 3 buffers; 2 listeners, 2 addresses, 5 tries | exclusion, protection, masks, loans of blocks, wake-ups, streams in order, true results, listeners |
| `process_lock_masks` | `SyncSpec` | 2 processes with different masks, `on` and `off` only | **violated**: `SignalsRecovered` |
| `event_loop` | `Spec` | 2 connections, symmetric; close, both sides, timers, posting | the four invariants of the loop |
| `event_live` | `FairSpec` | 1 listener, 1 connection without read handler, every call | calls end, with connect and whole-connection registration |
| `event_own` | `Spec` | 2 connections, `Reuses = {"own"}` | **violated**: `StaleNeverHandled` |
| `event_posted` | `Spec` | 2 connections, `Reuses = {"posted"}` | **violated**: `PostedLinked` |
| `timer` | `FairSpec` | 3 timers, delays 1 and 3, lazy delay 2, time to 4, clock running and still | no drift, nothing early, no oversleeping, the expiry ends and due timers fire |
| `structures` | `StructSpec` | a tree of 8 nodes, two keys with two nodes each; 2 queues of 4 elements, two of equal rank; half-life pools of 2 and 3 with reserves; a pool of 3 blocks with an array; 3 links with keys of which one begins another; every day of 32-bit time | red-black rules, refinement of `SortedLine`, rings are their lines, loans and reserve, areas apart, table exact, dates |

**Why the bounds are enough to be interesting.** Pools of two make both branches
of the cut happen (all of the common list, and a part of it), with two threads on
the common list at once; in one direction of the hand-over a pool is owed two.
The area of the allocator holds up to six blocks, so that a free
meets each combination of neighbours, every class is empty and non-empty, and
the split boundary is hit exactly. Three chunks let an allocation give back one
larger chunk, several smaller ones, and none. Two connections give a batch whose first
handler disturbs the second entry, and one that disturbs its own; a third would
only repeat the roles. Three timers give an earliest, a later one and one that a
handler sets; the lazy delay 2 lies between the delays, so that a new time is
inside and outside the window on both sides. Three processes give a holder, one
that waits and one that fails a try, or two readers and a writer. Three threads on two
blocks meet the end of the list. In the tree, eight nodes are the fewest for a
deletion that recolours, climbs and then rotates. Four elements give queues with a middle of both
kinds, splits at every place, and a sort that passes more than one. The shapes
of chains have a buffer cut in two, an empty one at each place the code allows,
and both changes between memory and file; `FAST_IOVS_MAX` is 2, so that a chain
takes several calls. Two listeners give a failure before and after a success.

**Fairness.** `ConnPool`: `WF(Continue(w))` for each worker - a thread inside a call
goes on. That is enough for the lock to be *released*; that a given thread gets
the spin lock is not claimed, because the code's compare-and-swap loop does not
promise it. `EventLoop`: `WF(Dispatch)` and `WF(Return)` - the loop goes on when no
handler runs, and handlers return; nothing is assumed about what handlers do or
how often, and no fairness for the program's own calls. `EventTimer`: `WF` of `Fire`,
`ExpireDone`, `Return` and `Expire` (the program's loop calls the expiry);
`ExpiryServes` speaks of the clock that stands still while the program runs, and of delays of at least one: with
a running clock or delay 0 a handler that sets its own timer again keeps
`event_timers_expire` going for ever, and the property would be false.
`Slabs`: `WF(Going)` - an allocation under way goes on. `sync`: `WF(LoopWakes)` - the
loop polls and its handler runs. That does not bring every call back: the loop of
`fast_notice.c:73` reads until the pipe is empty, and a program that wakes up at least
once per read keeps it there for ever. `WokenUp` therefore says that a call back stays out
only in this case (`ReadsForEver`: from some time on the handler only reads, and wake-ups
never end); without the exception it is violated. Further, `WF(OutputRuns)` - a call of the output chain goes
on; `WF(InsideMBlocks)` - a thread with the lock of the memory blocks goes on. The
kernel, other processes and the program's decisions are never assumed fair.

**Deadlock.** It is checked for `conn_pool` and `shmem_refused`. The others set
`CHECK_DEADLOCK FALSE`: all processes may be dead or have released the lock; the
loop may have nothing registered, the clock may have reached `MaxTime`, a
manager may be released, the calendar is at its last day.

**Bounds by name.** `MaxTime` (clock), `IntRange` (width of an int), `Arena`, `Room` (memory),
`SizeMod` (width of a count) and `MaxMissed` (frees in error), `MaxBytes`, `MaxLinks`, `MaxRead` (streams and chains), `MaxBlocks`,
`MaxAreas`, `MaxNalloc` (pool and array), `MaxListeners`, `MaxTries` (the code's own 5),
`LastDay` (49710, the last day of 32-bit time), and the set sizes above. No state constraint is used.

## 5. The proofs

`tlapm` proves, for every value of the constants allowed by the assumptions:

- **ConnPoolProofs** (any finite set of workers, any pool sizes): `TypeCorrect`,
  `LockExcludes`, `BooksBalance`, `NoOverdraft`. The balance alone is not inductive: a
  refill adds `want` twice, so what `want` is must be known (`LocalInv`: no more than
  the pool is owed, and the length of the chain that was cut off), for which the
  common count must equal the common list's length (`CommCount`), which holds only
  because nobody else is between the two stores of a put (`MutualExclusion`). The
  inductive invariant `IInv` is the conjunction, theorem `Invariance`.
  `PoolsImplementOwnership` and `BooksAreExact` go further, to which connection is
  where. Their invariant `OwnInv` says that *some* function from connections to
  places is right (`Owned`: each list holds exactly those placed in it, once each),
  and that the counters are its sizes. An action then moves one connection, or one
  chain, from a place to a place (`PopList`, `PushList`, `CutList` for the sequences,
  `MoveFrom`, `MoveTo`, `MoveCommon` for the places), and a refill moves nothing
  that another worker holds. The refinement reads the place off that function
  (`PlaceOfOwned`); that a debt can be met when all others are settled is a count of
  who holds what (`OwedMet`).
- **EventLoopProofs.** For every `Calls` and `Reuses`: `Registered`, `ClosedClean`,
  `TimersMatch`, from the inductive `RInv` (their conjunction with the types of the
  connections: none of the three is inductive alone, since closing relies on
  `timer_set` to clear the tree and `conn_set_default` on the connection having left
  both). For `Reuses = {}`: `StaleEventsDropped` and `LoopTypes`, from `StInv`: a
  harvested event that is stale belongs to a connection closed since and not set
  anew, or set anew once and so of the other instance (`EntryInv`); between the two
  sides of an entry its connection can only be closed (`HeadInv`); a stale posted
  event's connection is closed (`QueuesInv`). Each liberty of `Reuses` breaks one of
  these: `twice` and `reconnect` the first, `own` the second, `posted` the third.
- **EventTimerProofs** (any events, delays, lazy delay; assuming `NoOverflow`: no time
  or delay leaves the int): `TypeCorrect`, `TreeMatches`, `NoDrift`, `FiresInTime`,
  `WakesInTime`. The invariant bounds every key by the clock's end plus a delay,
  without which the cut to an int is not the identity; the assumption is needed
  (see far timers in 6).
- **SyncProofs** (any processes, signals, masks, threads, blocks, listeners and
  addresses, any pipe and read buffer of one byte or more). Each part of `MCSync` is
  proved about from its own specification; then `PartsKeepSpecs` shows that every behaviour of
  `SyncSpec` is one of each part, which carries the results over to the properties
  that the run `sync` checks: `SyncLocksExclude` (`WriterAlone`), `SyncReadersProtected`
  (`ReadersProtected`), `SyncBlocksLent` (`BlocksLent`), `SyncListenersTrue`
  (`ListenersTrue`), `SyncWakeUpKept` (the safety half of `WokenUp`).
  - *Process lock*: `TypeCorrect`, `LockExcludes`, `ProtectedInside`. Exclusion follows
    from `HolderKnown`: a process inside is the owner of the mutex; resets keep it
    because the old owner is dead.
  - *Read-write lock*: `RWTypeCorrect`, `WriterExcludes`, `RWProtected`, `RWMasksKept`. Who reads
    or writes holds the pthread lock (`HoldersKnown`), which is never held both ways
    (`NeverMixed`). The lemma `Recovered` is what protection needs of the shared mask:
    recovering changes the mask of the process that leaves, and of no other. With one
    mask for all (`HomeInvNext`) the word in shared memory holds it whenever it is
    recovered, unless a try failed or nothing was saved.
  - *Memory blocks*: `OneInside`, `FreeListSound`, `ListStaysExact`, `BlocksImplementLoans`. The
    list is data inside the blocks, so the invariant says that some injective
    sequence of `cold_count` free blocks starts at `free_blks` and follows `next`
    (`Listed`), instead of computing it. Unlinking keeps it with the sequence shifted
    by one (`UnlinkKeepsList`), linking with the block in front (`LinkKeepsList`). That
    holds only because a thread about to unlink has seen `cold_count > 0` under the
    lock and nobody moved since (`Checked`, `Alone`), and because a block on its way
    back is lent, to one thread (`Returning`). The list the code would walk is that
    sequence (`WalkIsList`), and it holds what nobody has been lent (`ColdIsUnlent`).
  - *Notice*: `WakeUpKept`. *Listening sockets*: `LIInv` says of every place of the
    array, while an opening walks over it, whether its socket is open, bound and
    registered, so that a return from the middle loses none.
- **ShmemProofs** (any area, header, classes, thresholds and requests): `BlocksAreExact`,
  `ListsAreExact`, `FreeIsAlwaysServed`, `AllocatorImplementsHeap`, each from `ShInvariance`.
  The invariant `ShInv` has the list by address tile the area with no two free
  neighbours (`Tiles`), the free lists and the available classes in step with the
  free blocks (`InStep`), the statistics equal to sums over the list (`Sums`), and no
  error path taken (`NoListDamage`). Every call replaces a run of neighbours by
  another: `Splice` is that replacement, and lemmas say once what it does to the
  tiling, to the free and the allocated blocks and to the sums (`SpliceTiles`,
  `SpliceFrees`, `SpliceGiven`, `SpliceWeights`). `RemoveFreeIs` and `InsertFreeIs` say what the
  two list operations do, with the cached maximum; `TakeWhole`, `TakeSplit` and `FreeKeeps`
  combine them. `FreeIsAlwaysServed` is about rounding: a block that lies in a class at
  or above that of a request is large enough (`ClassServes`, for linear and power
  classes), and a class below it holds none that is (`ClassNear`).
- **SlabsProofs** (any classes, requests, alignment, width of a count, and any of the
  allocators below): `ChunksAreExact`, `StatisticsAreExact`, `ClassesServeAll`,
  `FailsOnlyWhenNothingIsFree` (the safety half of `RecoveryServes`), `SlabsImplementLoans`, each from
  `SlInvariance`. `SlInv` says where each chunk is and with which size (`Places`), that
  the statistics are sums over the chunks modulo `SizeMod` (`Accounts`) but for the
  frees that missed, that what is taken from the allocator is what the chunks and the
  manager hold (`MemoryTaken`), that the request under way fits its class, whose list
  is empty (`WantFits`), and that who was lent a chunk got what was asked (`Serves`).
  Statistics that wrap still balance, because a sum modulo a width can be taken back
  (`ModAdd`). `ClassesServeAll` proves the binary search of `fast_slabs_clsid`: the class found is
  the smallest that holds the size (`SearchFinds`), under `MoreThanTwo`, without which it
  is false (see 6).
- **PoolsProofs** (any sizes of structures, blocks, chunks and requests, any queues,
  elements, ranks, links and keys, any last day), about
  `PoolsSpec`:
  - `ChunksAreLent`: the half-life pool implements `Loans`, holds exactly what malloc gave
    and it has not lent, and keeps its reserve.
  - `AreasAreApart`, for programs that do not use a pool after a reset with large
    allocations (`~ReuseAfterLarge`; with it the property is false, see 6). That no two
    things overlap is not inductive. The invariant `MPoolInv` adds that all of them end
    at or below their block's free offset (`Below`), so that what is new, which begins
    there, is apart from what is there, and that the free offsets are inside the blocks. A
    reset that leaves stale nodes breaks this, after which nothing may be placed; the
    invariant says that the program then has nothing. Where the array gives back its
    elements, the free offset goes down to them and nothing lies above, because
    what ends highest in a block is alone there.
  - `DatesAreRight`: the formula of `time_gmtime` gives the date that counting gives, for
    every day. `DateInv` says how the days before a year (from March), a
    month and a day add up to the day that is counted; Gauss' guess is then the year or the
    next, the correction finds which, and the month follows from a table of twelve.
  - `TableIsExact`: the chain of a bucket, which the code walks, is never computed. The
    invariant `HashInv` says of every link that its `next` is the newest of those that
    were joined to its bucket before it, and of every bucket that it points to its newest
    (`Chained`). This is local, so that a join or a removal disturbs it in one place
    (`JoinKeeps`, `RemoveKeeps`); that the walk then meets each link of the bucket once, from
    new to old, is `WalkMeets`, and the lookup finds the newest that compares equal.
    The table's size comes from a search for a prime: that it ends with one is
    an assumption (`HashAssumption`, Bertrand's postulate for the sizes asked for).
  - `QueuesAreExact`, about every link of every ring, with the sort. `QueueInv` is that the ring
    follows its line (`Follows`, forward and backward), lines share no element, and
    a link in none is linked nowhere. Each macro is first turned from a sequence of
    assignments into what it does to the neighbours (`PutAfterIs`, `TakeOutIs`, `JoinIs`,
    `CutIs`), where two of them may be the same link, as in a queue of one element;
    then into what it does to the line (`InsertFollows`, `RemoveFollows`, `JoinFollows`, `SplitFollows`),
    then to all lines (`OneChanges`, `TwoChange`). For `queue_sort` the invariant of
    the outer loop is `Sorting`: after some rounds the first k elements are in order with equals
    as they were, and the rest is untouched. `StepBackIs` says where the inner loop
    stops, `SortRoundIs` is one round, `SortedIs` all of them, and `OrderIs` that
    there is one stable order. `MiddleIs` counts the two paces of `queue_middle`.

  `Iterated`, that following a rule for any number of steps is a function of the step, is
  what both stand on: the loops are recursive functions, and the prover knows of a recursive
  function only what it satisfies once there is one. It comes from `LeastOf`, like
  every induction here.
- **NumberLemmas** holds what these share. Induction is out of reach, so that a fact
  about all numbers follows from `LeastOf`, that a set of naturals has a least
  element: the least counterexample is not one. From it come powers of two, both
  logarithms, division that rounds up, alignment, remainders, and `SumOfIs`, that a
  sum defined by a recursive function is the last of its running sums.

`LI!ListenAssumption`, `SL!SlabsAssumption` and their relatives are the assumptions; each is
an ASSUME that TLC evaluates, and none says more than that sizes are positive, the
largest request is above the smallest, sets of links and elements are finite, the search
for a prime finds one, and special values are no others. The type
invariants are proved by name (`TypeCorrect`, `LoopTypes`) or as a conjunct of the
invariants above.

Only model-checked:
- all liveness (`LockReleased`, `CallEnds`, `ExpiryServes`, `RecoveryServes`, `WokenUp`,
  `OutputTrue`), which is out of this prover's reach;
- the properties that `MCStructures` adds to `MCPools` (`RedBlack`, `TreeIsLine`) and
  `StreamsInOrder`: the tree and the chains recurse over data by RECURSIVE operators,
  without which they would read unlike their code, and with which the prover loses
  its arithmetic; that a tree is balanced is moreover an induction over the tree;
- that freed signals come back (`SignalsRecovered`), which is false.

## 6. What the runs found

1. **A stale write event after the read handler** (`event_own`). The check at
   `fast_epoll.c:265` is made once per entry, before the read handler. When that
   handler closes its connection, sets it anew and registers it for writing, the
   write side at 314-315 hands it the write event of the closed descriptor.
2. **A posted event zeroed on its queue** (`event_posted`). `event_process_posted`
   expects posted events of closed connections ("stale event", `fast_event.c:41`);
   when such a connection is set anew before the queue is processed,
   `conn_set_default` (`fast_conn.c:155`) zeroes the links of a queued event.
3. **The saved signal mask** (`process_lock_masks`). `fast_lock.c:195` saves the
   mask of a process that only waits over the one of the holder.
4. **Small requests** (`shmem_refused`). Class 0 takes blocks smaller than a
   request of class 0; `fast_shmem.c:354` searches list 0 alone when it is not
   empty, and refuses although larger blocks are free.
5. **The only chunk in use cannot be freed without error** (`slabs_free`).
   `fast_slabs.c:437` compares sizes without header with one that has it, after
   the chunk was linked.

**More by changing constants.** With the property of the run: in `event_own.cfg`,
`Reuses = {"twice"}` (the one-bit instance flips
back) and, with `"connect"` among `Calls`, `Reuses = {"reconnect"}` (the instance is
not turned at all); in `process_lock_masks.cfg`, three processes with
the same mask (`HomeMask <- SameMask3`) and `Calls = {"try_on"}` (a failed try returns with signals blocked,
`fast_lock.c:232`) or `Calls = {"release"}` (release sets a mask that no `on` saved,
since create leaves `sig_prev_mask` as it is); in `structures.cfg`,
`ReuseAfterLarge = TRUE` violates `AreasApart` (`pool_reset`, `fast_memory_pool.c:67`, keeps the large list
whose nodes lie in the blocks it empties); in `sync.cfg`, `EmptyBeforeFile = TRUE`
violates `StreamsInOrder` (an empty memory buffer before one in a file ends the
packing with nothing, and the rest of the chain is dropped); in `timer.cfg`, an int of
3 bits (`IntRange = 4`) with `Delays = {8, 9}` and `MaxTime = 9` violates
`KeyNearAsked`: `fast_event_timer.c:95` gives `abs` a 64-bit difference, so that a
far timer whose low bits are small counts as near.

**Known limits, seen while modelling and without a run.**
- `conn_listening_add_event` gives every listener without a connection one of the
  first listener's socket: with two, the second registration fails
  (`fast_conn_listen.c:232`). `conn_listening_close` follows an array pointer that
  nothing has set.
- Of two power classes (`item_size_max` is twice `item_size_min`), which
  `fast_slabs_create` accepts, `fast_slabs_clsid` has nothing to search: `low` begins at 1
  and `high` at 0 (`fast_slabs.c:74`), and every size between the two classes is refused
  as invalid. Proved as `PowerIdOfTwo` in `SlabsProofs`; the run has three classes.
- A memory pool whose `max` is below `sizeof(pool_large_t)` recurses between large
  allocations and their nodes.
- `array_create` and `fast_hashtable_create` use what an allocation returned
  before they look whether it did; `array_inherit` advances one of its two
  counters only.
- The comparison of hash keys by the shorter length finds a longer key; the
  8-byte hash reads behind a shorter key; `fast_hashtable_free_items` leaves the buckets
  pointing to what it freed.
- A negative `min_size` lets `hl_mempool_get` return the head of the queue.
- The limit of `chain_output` bounds a round, not the call; after an error
  `ctx->out` is an error value the next call follows; a size larger than what is left makes the unsigned size
  of `chain_append_withsize` wrap, which takes all.
- `fast_mem_allocator_new` falls through from one allocator type to the next.
- Wake-ups that come as fast as the handler of a notice reads keep it reading and put the
  call back off without limit, and with it everything else of its event loop
  (`fast_notice.c:73`).
- `conn_listening_open` closes the socket before it looks at the `errno` of bind
  (`fast_conn_listen.c:101`): when close sets another, a try ends as a failure.
- `fast_slabs_alloc` leaves the error of an earlier refusal in `err_no` when a
  later try succeeds (`fast_slabs.c:302`): only the pointer tells success.
- A delay beyond 2^31 ms reaches `epoll_wait` as a negative int, a wait without end
  (`fast_epoll.c:242`).

## 7. What is not modelled

- Of the modelled components: `conn_pool_free`, failures of allocation in
  `conn_pool_init`; `try_on`, `off_force` and `reset` of the atomic lock; failures of
  `sigprocmask`; socket options, `epoll_init`/`epoll_done`; release of the shared
  mapping, alignment and parameter errors of the allocators; `array_inherit` and
  `array_find`; the three hash functions (any function of the key); UDP receive and
  `buffer_create`.
- Of single operations: an array of more than one element at creation, one whose
  elements cannot be allocated after its header was (`fast_array.c:19`), and one without
  a pool; a split of any size (two are in the run); which `errno` a refusal of the
  shared memory gives; `conn_connect_peer` on a connection that has a descriptor
  (`fast_conn.c:29`, which leaves the write event NULL until line 73), and one whose
  registration fails; a clock that moves between `event_find_timer` and `epoll_wait`
  (`Sleep` is one step); the merging of memory buffers at one address
  (`fast_sysio.c:411`), which changes how many vectors are filled and no byte; a read of a
  notice's pipe that fails or finds it closed, which calls back at once.
- The list (`fast_list.c`): chunks of an array each, pushed to and walked.
- Mathematics beyond the logarithm, the alignment and the prime search: DES, a
  textbook cipher of tables.
- Time beyond `time_gmtime`: formatted text and the cached clock, which is the
  program's (`EventTimer` has it as `now`).
- Strings, configuration, error log: parsing and formatting of text, no state that
  interacts.
- Channel, process utilities: single system calls.

## 8. Plan

| Step | Modules | Properties and runs | Theorems |
|---|---|---|---|
| 1 (done) | `AtomicLock`, `ConnPool`, `ConnOwnership` | `conn_pool` | types, exclusion, balance, no overdraft, exact books, ownership |
| 2 (done) | `ProcessLock`, `ProcessRWLock` | `sync`, `process_lock_masks` | types, exclusion, protection, masks |
| 3 (done) | `EventLoop`, `EventTimer` | `event_*`, `timer` | registration, closing, stale events, drift |
| 4 (done) | `Shmem`, `Heap`, `Slabs`, `Allocator` | `allocators`, `shmem_refused`, `slabs_free` | every safety property, both refinements |
| 5 (done) | `RBTree`, `SortedLine`, `Queue`, `Hashtable`, `MemoryPool`, `HalfLifePool`, `Calendar` | `structures` | pools, calendar, hash table, queue: every safety property but the tree's |
| 6 (done) | `MemBlocks`, `Loans`, `Notice`, `ChainOutput`, `ChainInput`, `Listening` | `sync` | every safety property but the chains' |
| 7 (done) | | | `BooksExact` and the ownership refinement of `ConnPool`; the composition `SyncSpec` |
| 8 (done) | `Queue`, `Hashtable` with recursive functions in place of RECURSIVE operators | `structures` | `QueuesExact`, `TableExact` |
| 9 | the list, the coders of `fast_string.c` as pure functions | bounded inputs | |

Modules that are proved about, and those they use, declare no RECURSIVE operator.
