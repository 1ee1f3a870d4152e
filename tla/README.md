# Verification of the concurrent core of libhipcxx

libhipcxx is the HIP port of libcu++: a C++ standard library for host and device
code. Most of it is templates evaluated at compile time. What keeps shared state
and runs concurrently is the synchronization library (atomics, `barrier`,
`latch`, semaphores) and, in the LLVM runtimes the tree carries (libcxx,
libcxxabi, libunwind), mutexes, futures, one-time initialization, reference
counts, casts and the machinery of exceptions. This project models those parts in TLA+,
checks them with TLC on small instances, and proves the main results about the
barriers, the semaphores and the latch, small atomics, the locks, shared state
and exception objects for every instance with TLAPS.

Below, `L/` stands for `src/include/hip/std/detail/libcxx/include/`.

## 1. Inventory

| component | state | operations | talks to |
|---|---|---|---|
| barrier, no completion function (`L/barrier`, `src/include/hip/std/barrier`) | one 64-bit word: phase bit, 31-bit arrival counter, expected count | `init`, `arrive(n)`, `wait`, `wait_parity`, `try_wait*`, `arrive_and_wait`, `arrive_and_drop` | atomics, warp shuffles at block scope |
| barrier with completion function (`L/barrier`) | `__expected`, `__arrived`, `__phase` | the same, without parity waits | atomics, the client's function |
| tree barrier (`L/barrier`) | `__expected`, `__expected_adjustment`, `__phase`, a tree of byte tickets | `arrive`, `wait`, `arrive_and_wait`, `arrive_and_drop` | atomics, a thread-local favorite index |
| counting, binary semaphore (`L/semaphore`) | `__count`, `__available` | `acquire`, `try_acquire`, `try_acquire_for/until`, `release(n)` | atomic wait, the polling loop |
| native semaphore (`L/semaphore`) | front buffer, back buffer, system semaphore | the same | POSIX, dispatch, Win32 semaphores |
| latch (`L/latch`) | `__counter` | `count_down`, `try_wait`, `wait`, `arrive_and_wait` | atomic wait |
| atomic wait / notify (`L/atomic`, `src/libcxx/src/atomic.cpp`) | contention table, or nothing (HIP) | `wait`, `notify_one`, `notify_all` | polling loop, futex, condition variable |
| polling loop and thread API (`L/__threading_support`) | the caller's locals | `__libcpp_thread_poll_with_backoff` | clocks |
| small atomics (`L/support/atomic/atomic_cuda.h`, `atomic_hip_derived.h`, `atomic_base.h`) | a 32-bit proxy, or a part of a shared word | load, store, exchange, compare_exchange, fetch_* | intrinsics |
| device atomics (`L/support/atomic/atomic_cuda_generated.h`, `atomic_cuda.h`, `atomic_scopes.h`) | memory | every operation, order and scope | PTX |
| host atomics for MSVC (`L/support/atomic/atomic_msvc.h`) | memory | every operation and order | x86, ARM |
| `call_once` (`src/libcxx/src/mutex.cpp`) | a flag, one mutex and condition variable for all | `__call_once` | the initializer |
| guards of local statics (`src/libcxxabi/src/cxa_guard_impl.h`) | guard byte, init byte, thread id | acquire, release, abort | mutex or futex |
| timed mutexes (`src/libcxx/src/mutex.cpp`, `L/mutex`) | flag, or count and owner | `lock`, `try_lock`, `try_lock_for/until`, `unlock` | inner mutex, condition variable |
| shared mutexes (`src/libcxx/src/shared_mutex.cpp`, `L/shared_mutex`) | write bit and number of readers | the same, and shared | mutex, two gates |
| futures (`src/libcxx/src/future.cpp`, `L/future`, `src/libcxx/src/thread.cpp`) | state bits, exception, owners, at-exit list | promise, future, shared_future, async | mutex, condition variable, threads |
| shared_ptr counts (`src/libcxx/src/memory.cpp`) | shared and weak count | add, release, lock | atomics |
| emergency heap (`src/libcxxabi/src/fallback_malloc.cpp`) | free list in a static array | malloc, free, aligned forms | system allocator |
| exception objects (`src/libcxxabi/src/cxa_exception.cpp`) | headers, caught stack and counts of each thread | throw, begin/end catch, rethrow, exception_ptr, cleanups | unwinder, heap |
| unwinding (`src/libunwind/src/UnwindLevel1.c`, `src/libcxxabi/src/cxa_personality.cpp`) | the stack, what phase 1 stores in the header | raise, resume, forced unwind, personality, `__cxa_call_unexpected` | exception tables |
| `dynamic_cast` and handlers (`src/libcxxabi/src/private_typeinfo.cpp`) | none between calls | `__dynamic_cast`, `can_catch` | the personality, `type_info` emitted by the compiler |
| UTF conversions (`src/libcxx/src/locale.cpp`) | none between calls | `do_in`, `do_out`, `do_length` of the codecvt facets | streams |
| `memcpy_async`, `stream_ref`, memory resources, type traits, tuple, span, chrono, cmath, the rest of the runtimes | none that is shared | - | - |

The barriers, semaphores and latch are each one or a few atomics plus loops.
They block by `atomic::wait` or by `__libcpp_thread_poll_with_backoff`. The HIP
configuration (`src/include/hip/std/detail/__config` 95-111) switches the
contention table, the platform wait and the tree barrier off, so on this build
every wait polls and every `notify` is empty; the sleeping variants are those of
other hosts. The runtimes use mutexes, condition variables and futexes of the
platform; `CxaException` is the client of the heap and of the unwinder.

What is hard here is listed, point by point with its line, under `hazards` in
`PROJECT.json`. In short: two atomic operations where one would be needed (the
window of the packed barrier, the native semaphore's backfill); one bit for an
unbounded phase; state that is never reset (tickets, proxies); sleeping on a
value that changes between the test and the sleep; a notification that reaches a
thread whose time is up; a count and a flag in one field (`handlerCount`); what
one phase of unwinding leaves for the next; searches that stop early; the order
the memory keeps.

## 2. Modules

| module | models |
|---|---|
| `PhaseBarrier`, `BarrierHistory` | abstract barrier, and the history variables (phase, members, arrived, leaving) the three barriers share |
| `PackedBarrier`, `CompletionBarrier`, `TreeBarrier` | the barriers, each shown to implement `PhaseBarrier` |
| `AbstractSemaphore` | abstract semaphore |
| `CountingSemaphore`, `BinarySemaphore` | the atomic semaphores, each shown to implement it |
| `NativeSemaphore`, `Latch` | the semaphore over a system semaphore; the latch |
| `AtomicOps`, `AtomicCells` | integers of a width and what the operations do to them; abstract atomics: each call one step on its own cell |
| `SmallAtomic`, `SubWordAtomic` | the 32-bit proxy and the part of a word, each shown to implement `AtomicCells` |
| `Litmus` | small programs of operations; which instructions and barriers the library emits for an operation, order and scope; the memory of PTX devices and ARM, and that of x86, that runs them |
| `AtomicWait` | waiting and notifying with the contention table, three variants |
| `TimedMutex`, `SharedMutex` | the timed and the shared mutexes |
| `OnceInit` | abstract one-time initialization |
| `CallOnce`, `GuardMutex`, `GuardFutex` | its three implementations |
| `Future`, `SharedWeakCount` | the associated state of a future; the control block of `shared_ptr` |
| `FallbackMalloc`, `CxaException` | the emergency heap; exception objects |
| `TwoPhaseUnwind` | exception tables; the unwinder, the personality and `__cxa_call_unexpected` |
| `TypeInfo` | hierarchies of classes, their subobjects and `type_info`, the types of handlers; the two searches of `__dynamic_cast` over them, and `can_catch` of every kind of type |
| `UtfStream` | one iteration of each conversion, streams that call them, and the encodings by their definition |
| `TreeBarrierProofs`, `BarrierProofs` | the invariant of `TreeBarrier`; theorems about the three barriers and the suite `MCBarriers` |
| `SemaphoreProofs`, `SmallAtomicProofs`, `LockProofs`, `SharedStateProofs` | theorems about the suites `MCSemaphores`, `MCSmallAtomics`, `MCLocks`, `MCSharedState` |
| `ExceptionProofs`, `ExceptionSuiteProofs` | the invariant of `CxaException`, and what it says of the suite `MCExceptions` |
| `MCMemoryOrders` | the families of programs for `Litmus` that `MCAlgorithms` runs |
| other `MC*` | the suites TLC runs |

`PROJECT.json` maps every definition to the lines it translates. Conventions:

- **One atomic operation is one step**, and so is one critical section when all
  accesses to the state it touches are inside it. Everything a thread does up to
  its next such operation is part of the step. Outside the litmus modules the
  operations interleave (sequential consistency).
- **A poll that fails is not a step**, and neither is a `compare_exchange_weak`
  that fails without a reason where the caller just tries again: both leave
  every variable as it was.
- **A call that cannot block and touches one atomic** is one action.
- **Widths are parameters**: `M` stands for 2^31, `Byte` for 2^8, `Bits`,
  `SmallBits` and `WordBits` for 8, 16 and 32; the arithmetic wraps as in the code.
- Definitions marked *Mutant* are plausible bugs. No specification uses them;
  each is the wrong form of the definition after it, and putting it in that
  one's place makes a named property fail.

How state and actions correspond to the code, where that is not evident:

**PackedBarrier.** `word.hi` and `word.lo` are the halves of
`__phase_arrived_expected`; the counter starts at 2^31 - expected, so the last
arrival carries into the phase bit. `Arrive` is the first `fetch_add`,
`ArriveReload` the second, which adds the expected half *as the first one read
it* (`snap`). `Arrive(t, S)` covers `arrive(n)` and the aggregation of a warp at
block scope, whose lanes `S` stay in the shuffle (`Lane`) until the leader has
its token. `DropExpected`, `DropArrive`, `DropReloadStep` are the three
operations of `arrive_and_drop`; `WatchStart` and `WatchEnd` are `wait_parity`
by a thread that takes no part. Client obligations: each expected arrival
belongs to one thread, which waits for its token before it arrives again; and,
if `Quiesce`, no thread starts an arrival while an `arrive_and_drop` that
completed a phase has not returned. The second is not in the documentation;
disagreement 1 below shows that the code needs it.

**CompletionBarrier, TreeBarrier.** In the first every access of `arrive` is a
label of `pc`. In the second `__arrive` is `StartClimb`, `TryTicket` (the first
`compare_exchange` at a node) and `SecondTicket`; `__expected` is a plain
variable there, written by the thread at the root.

**Semaphores, latch.** `LoadCount`, `CasSucceeds`, `CasFails` are
`__fetch_sub_if` and its slow loop, `WaitLoad` and `Wake` are `__wait_slow`,
`Timeout` and `PollAgain` the loop of `__libcpp_thread_poll_with_backoff`. Time
is abstracted to whether the limit left is zero. Clients keep the count within
`max()`. In `NativeSemaphore` every access to the buffers and the system
semaphore is a step; `Overlap` says whether a release of more than two may fall
inside another thread's backfill.

**Small atomics.** A call is recorded (`call`), its operations on the proxy or
the word are steps, and its end leaves the old value in `last`; the refinement
maps proxy or word to the cells of `AtomicCells`.

**Memory orders.** `Code` and `MsvcCode` turn an operation into a list of
instructions, as the `switch` statements and inline assembly do.
For a device and for ARM `Litmus` runs the lists on a view-based memory: each location keeps its
writes in modification order, a load returns any write the thread's view admits,
releases and acquires hand views on when each is in the other's scope. It is
external, an over-simplification of PTX in that it has no load buffering, takes
`membar` for `fence.sc` and a volatile access for a relaxed one of system scope.
For x86 it is a store-buffer machine. `before` is happens-before as C++ computes it
from the orders in the *program*, so the check is that the instructions give at
least that.

**AtomicWait.** `announced` is the counter of the table entry, `version` its
version. Other atomics may share the entry, so a notification may come without a
store. **One-time initialization, mutexes**: `pc` names where in the call a
thread is; a thread that sleeps on a condition variable is at its own label, and
a notification moves one or all of them. Spurious wake-ups are allowed.

**Future.** `Owner` holds the first reference (the promise, or the local handle
of async), `Runner` is the detached thread, which holds none; `Waiter` are the
owners of the shared future. `freed` and `owners` make uses after the end
visible. **SharedWeakCount**: each atomic operation of `__release_shared`,
`__release_weak` and `lock` is a step.

**CxaException.** Each thread is a stack of frames (`ctl`): an exception being
constructed, searched for, raised, a cleanup, a handler, a destructor. The
functions of `cxa_exception.cpp` are the actions between those frames; the
compiler's landing pads and the unwinder are external there.
**TwoPhaseUnwind** is the other side: the frames of one thread's stack, a table
for each, `unwind_phase1`, `unwind_phase2`, `_Unwind_Resume`, the forced form,
`__gxx_personality_v0` over the action list, `__cxa_call_unexpected`. `hist`
records where each exception should land by the rules of the language, computed
at the throw from the stack alone.

**TypeInfo.** A behaviour defines one class after the other, with
every list of direct bases (type, virtual, public); then the searches run over
the last one. A subobject is named by the path of bases to it, which is what a
pointer and a type say: a virtual base has the same name on every path. The
masks of a class are computed from its subobjects as the comments at
`private_typeinfo.h` 180-183 define them. `__dynamic_cast_info` is a record that
each function takes and returns. The reference, `CastByRule` and `CatchByRule`,
looks at all subobjects at once. The type of a handler or an exception is its
levels and what they end in; `Throw` picks a handler and an exception.

**UtfStream.** The conversions, and the loops of the facets over them, in a stream whose
input arrives in pieces and whose buffers have any size; `Form8`, `Form16` are
the reference. The header modes act in every call of a facet, so in those modes
the stream converts in one call.

## 3. Runs

Seven suites and five runs that show a disagreement. In a suite several
components run over variables of their own; `which`, chosen in `Init`, says
which of them the threads of a behaviour use, and the others stay in one
initial state. The suite joins the components' properties of one kind under a
name of its own (`Module.Property` below).

| run | instance | states | property | shows |
|---|---|---|---|---|
| `barriers` | 3 threads, 1 observer, 3 phases, M = 4, Byte = 4, `Quiesce` | 89,164 | `WordInv` | the parts of the packed word are what the history says: `OneReload`, `ExpectedCounts`, `ArrivedCounts`, `Roles`, `NeverTwoBehind` |
| | | | `CompletionCounts` | the counter says who is missing, and the completion function runs while nobody else arrives or returns |
| | | | `TreeClimbed` | the climb stays in the tree and one thread per phase reaches the root, whatever tickets earlier phases left |
| | | | `ObserverNotEarly` | `wait_parity` does not return before its phase ended |
| | | | `Implements`, `OthersImplement` | the three barriers implement `PhaseBarrier`; nobody is released before the completion function ran |
| | | | `AllReturn` | every thread that waits is released |
| `semaphores` | 3 threads (latch: a count of 4), 4-5 calls, releases of 1, 2 and 4 | 159,404 | `CountInv` | a call gives up only when it saw no permit |
| | | | `NativePermits` | `Conserved`, `SleepsOnlyWhenFrontEmpty`, `NoneStranded`: no permit of the native semaphore is lost, or left in its buffers with a thread asleep |
| | | | `PassedMeansZero` | nobody passes the latch before the last arrival |
| | | | `Implements`, `BinaryImplements` | both atomic semaphores implement `AbstractSemaphore` |
| | | | `PermitIsTaken`, `CallsReturn` | a permit finds its taker; bounded calls, releases and the latch return |
| `small_atomics` | 2 threads, 2 bits in a word of 4; two 1-bit cells in a word; 2-3 calls | 155,848 | `ProxyImplements`, `WordImplements` | a small atomic behaves as its own cell, in a proxy of 32 bits or next to a neighbour in a word |
| | | | `CallsReturn` | the loops end |
| `locks` | 2 waiters and 1-2 notifiers; 3 threads on a mutex, 5-6 calls | 128,643 | `WakeUpNotLost` | nobody sleeps on a value that was replaced once the notifiers are done; in the version variant, not with the present version unless a notifier has yet to change it |
| | | | `Exclusion` | one owner, or readers only; counts and words say who is inside |
| | | | `NoneForgotten` | a free mutex with a sleeper has a thread on the way to it |
| | | | `CallsReturn` | every locking call returns, and a wait whose value stays replaced |
| `shared_state` | 3 threads, 2 flags, 3-5 calls | 76,008 | `InitializedOnce` | `call_once` and both guards implement `OnceInit` |
| | | | `GuardsRight` | sleepers are marked in the guard, and recursion of the initializer is found by its own thread only |
| | | | `FutureNotUsedAfterFree`, `OneResult` | owners of a shared state are counted and nobody uses it after its end; one result, ready in time |
| | | | `ControlBlockRight` | nobody uses a `shared_ptr`'s object or control block after its end, and neither leaks |
| | | | `CallsReturn` | all calls of these components return |
| `exceptions` | 2 threads 3 deep, 1 thread 4 deep, EHABI 4 deep; a heap of 10 units; 3 frames, 2-3 exceptions | 1,243,101 | `LivesWhileOwned` | an exception lives exactly as long as somebody owns it |
| | | | `CountsRight` | `uncaught_exceptions` is the number of exceptions in flight, those another runtime caught included |
| | | | `RightException` | `current_exception`, `throw;` and the end of an ARM cleanup mean the right exceptions; each `handlerCount` is the number of handlers on the stack |
| | | | `Tiled` | chunks and blocks tile the emergency heap, in whatever order blocks are freed; freed in reverse order they merge into one chunk again |
| | | | `UnwindsAsPlanned` | every cleanup on the way runs once, from the inside out, and control lands where the language says |
| | | | `SpecHonoured` | what leaves `__cxa_call_unexpected` is what the violated specification admits, and the program ends only when it admits nothing |
| `algorithms` | programs of 2-4 threads; 16 conversions, 2 items, buffers of 1, 3, 7; 4 classes, 2 bases each; handlers over 2 classes | 787,023 | `OnlyInterleavings` | seq_cst programs see only what some interleaving explains, on PTX, ARM and x86 |
| | | | `HappensBeforeSeen` | a load does not return a write older than one that happens before it |
| | | | `Faithful`, `LengthAgrees`, `GetsThrough` | conversion in pieces is conversion by definition; `do_length` agrees with `do_in`; the stream comes to its end |
| | | | `CastRight` | `dynamic_cast` gives the object of the language's rules, in every hierarchy and order of bases |
| | | | `CatchRight` | handlers for classes, pointers and members take what the language lets them take |
| `packed_drop_window` | 2 threads, `Quiesce` off | violation | `WaitReturns` | disagreement 1 |
| `tree_favorite` | 3 threads, favorite index | violation | `InTree` | disagreement 2 |
| `semaphore_zero_time` | 1 thread, limit zero | violation | `TimedReturns` | disagreement 3 |
| `ambiguous_base` | 4 classes, 2 bases each | violation | `OnlyUnambiguous` | disagreement 4 |
| `heap_middle` | a heap of 14 units, 5 blocks | violation | `HandedOutOnce` | disagreement 5 |

### Why the bounds are enough

- *Barriers.* Three threads: one completes a phase, one is released by it, one
  is on its way; the tree then has two nodes and two rounds with an odd rest.
  Three phases: a token is one bit, so the hazards are a thread one and two
  phases behind. *M = 4* is the least range that holds three threads; *Byte = 4*
  makes the tree's phases wrap. The theorems remove these bounds.
- *Semaphores, mutexes, one-time initialization.* Three threads: one inside, one
  asleep, one that arrives, gives up or is notified in between; the call budgets
  let another call of each kind come between any two steps. The native semaphore
  starts full or empty and releases one, or four (three woken and one over).
  Again the theorems hold without bounds.
- *Small atomics.* Two bits have a sign, a carry and a middle; four bits have
  room for a carry that stays and one that leaves the word. `max` and `min` are
  used on proxies without a carry and add and sub on unsigned ones:
  disagreements 6 and 7 are about the rest. The word is modelled for unsigned
  types. The theorems hold for every width, for the same operations; the arguments
  on a proxy are 1 and the greatest value, or the least and the greatest.
- *Shared mutex.* Two readers at most and three threads: a third finds it full.
  With `Readers + 1` threads at most one sleeps at the limit, and
  `SharedMutex.NoneForgotten` holds; for more see disagreement 10. The code's limit is 2^31 - 1.
- *Heap.* Ten units hold up to four blocks of two or three units, or one that
  fills the heap, freed in any order. The free list comes to three nodes, and
  every branch of both loops is taken at its head and behind it: a chunk shortened, an exact fit unlinked, a
  block appended to a chunk, a block pushed. One step is left out, a block freed
  in front of a chunk that is not the head of the list (`FrontInMiddle`), which
  is disagreement 5. A second instance frees the last block first, as exceptions
  thrown and handled inside a handler are, and asks in addition that the heap is
  one chunk again when nothing is held (`OneChunkAgain`); in other orders it need
  not be, since `fallback_free` merges with one neighbour only.
- *Exceptions, unwinding.* Depth four holds a handler, a destructor run by
  another exception, and a handler in it; two exceptions in flight and a third
  that an unexpected handler throws. `throw;` of an exception that is itself in
  flight is excluded (disagreement 13). When a foreign runtime catches a native
  exception `uncaughtExceptions` stays raised, and the property counts it. A
  forced unwinding through `__cxa_call_unexpected` leaves the old exception
  caught, so `HandlersCounted` says nothing of the forced part.
- *Litmus programs.* Every pair of operations per thread for seq_cst programs,
  independent reads of independent writes, publication through every operation
  with every order, compare_exchange with every pair of orders, and every
  combination of scopes for threads of one block, two blocks, two devices. These
  shapes are those the orders are defined by.
- *Hierarchies.* Four classes with two bases: a destination, a static type twice
  or by two paths, and something that derives from both, in any order and with
  any access; the ambiguity of disagreement 4 needs all four. Handlers: two
  classes and three levels, since the rule about `const` relates two levels and a
  third repeats it. Pointers to members point to scalars, and no handler has
  `noexcept` below its first level (disagreements 16 and 17).
- *UTF.* The first and last code point of every length, the neighbours of the
  surrogates, one malformed item per check; two items put a boundary between
  characters. A `Maxcode` that lies between two lengths is in, one between 0x80
  and 0xF3 is not: `utf8_to_utf16` compares it with the first byte.

### Fairness

Weak fairness of each thread's own steps: a thread that can go on is scheduled,
a participant of a barrier comes to the barrier, an owner unlocks, a promise
comes to its end, an initializer ends. Calls that nobody is obliged to make are
not fair. In addition:

- strong fairness of `Timeout` in the semaphores: time passes, so a loop that
  compares the clock again and again finds its limit exceeded;
- strong fairness of a `compare_exchange` of the unsigned small atomic that can
  succeed: the target's weak form does not fail for ever without a reason, nor
  does another thread dirty the proxy for ever;
- the permit of a binary semaphore is given back (`GiveBinary`);
- the UTF stream's input goes on arriving and it goes on calling with room for
  the longest character.

That the lanes of one warp progress independently is an assumption about the
device; the aggregation of arrivals is modelled without it.

Deadlock is checked for the barriers. In the other suites a behaviour simply
ends when calls or programs are used up, and a call that may wait for ever by
contract (`acquire` without a release) may be left; the liveness properties say
which calls must return.

### Disagreements between code and documentation or tests

Five have a run of their own:

1. **The window of a completing `arrive_and_drop`** (`L/barrier` 445). The
   completing thread is no member of the next phase, so the remaining members
   can all arrive before the reload. Their phase is then ended by the reload's
   carry, the counter is left at 0, and the next phase would need 2^31 arrivals.
   `arrive_and_drop.pass.cpp` 49-54 uses the barrier this way.
2. **The favorite index of the tree barrier** (`L/barrier` 133): in round 0 the
   search wraps at the number of expected arrivals instead of nodes, against the
   assertion at line 139. Not compiled for HIP.
3. **A time limit of exactly zero** (`L/__threading_support` 717) means "no
   limit" to the polling loop and is a value `try_acquire_for/until` can pass on.
4. **An ambiguous base is caught** (`private_typeinfo.cpp` 321).
   `has_unambiguous_public_base` looks at `search_done` only from the second base
   on. When the first base shows that the handler's class is there twice, the
   second may find the first of the two again, a virtual base, and
   `process_found_base_class` turns the path to public (255-256). The comment at
   145 asks for "an unambiguous public base class". `CatchRight` says what holds
   all the same: no handler that should take the exception misses it, and
   without both a diamond and a repeated base none takes too much.

5. **A held block of the emergency heap is handed out again**
   (`fallback_malloc.cpp` 176). When a block is freed in front of a free chunk that
   is the head of the list, the block gets that chunk's `next_node` (174); in the
   middle of the list it keeps the 0 that `fallback_malloc` gave it (120, 130), so
   from it the list goes on at offset 0, whatever is there. What followed is lost,
   and the search for "a big enough chunk" of "the free list" (111) may end at a
   block that a caller holds. `test_fallback_malloc.pass.cpp` frees in the order of
   allocation or in the reverse order only, where this does not happen: its
   "Alternate deletions" (91) do not alternate, as `size () % 1` is never 1 (95).

The others were met while modelling; each is reproduced by the named module with
the constants given, and the suites keep to the other side of it.

6. `SmallAtomic` (`Signed <- TRUE`, `add`, `strong`): after a `fetch_add` that
   overflows a signed small type, `compare_exchange_strong` with a negative
   expected value cleans the proxy to zeros (`atomic_cuda.h` 436-439), compares
   with the sign-extended value, and goes round for ever.
7. `SmallAtomic` (`add`, `max`): `fetch_max` and `fetch_min` (482-490) compare
   the bits a carry left above the value, which no load shows.
8. `NativeSemaphore` (`Overlap <- TRUE`, releases of 3): `__backfill` takes two
   from the back buffer (`L/semaphore` 253) and puts back later; a large release
   inside it leaves a permit in the buffer and a thread asleep, against
   `heterogeneous/semaphore.pass.cpp` 75-80.
9. `AtomicWait` (`Variant <- "version"`, property `NoneForgotten`): notify
   increments the version (`L/atomic` 1136) and then takes the announcement
   (1138); a thread that announces itself between the two sleeps unannounced
   until its two seconds are over. The comment at 1156 ascribes the time limit
   to aliasing only.
10. `SharedMutex` (more than `Readers + 1` threads): `unlock_shared` opens gate 1
   only when the count leaves its limit (`shared_mutex.cpp` 100); two readers
   that leave before the notified one enters leave a second sleeper forgotten.
11. `Future` (async, thread not made, property `OwnerReturns`): when the thread
   constructor throws, releasing the state waits for a function nobody runs
   (`L/future` 995), and `async` never reaches its fall-back (2344).
12. `FallbackMalloc` (property `Aligned`): the aligned form returns 4-byte
    aligned blocks of the emergency heap (226) where the test
    `test_exception_address_alignment.pass.cpp` 19 asks for the ABI's alignment.
13. `CxaException` (`RethrowInCleanup <- TRUE`): a destructor that runs `throw;`
    and handles it while the same exception, rethrown before, unwinds the stack
    changes the sign of `handlerCount` back (`cxa_exception.cpp` 592), and the
    exception is destroyed in flight.
14. `UtfStream` (a 32-bit unit above 0xFFFF): `utf16_to_utf8` keeps the low 16
    bits before it checks (`locale.cpp` 1819), so 0x10041 becomes "A".
15. `TypeInfo` (null pointers; `CatchRight` asserts them for hierarchies in
    which no base is met twice): a null pointer's bases are all null, so
    `process_found_base_class` (245) takes each for the first, an ambiguous base
    is caught, and a private path replaces a public one.
16. `TypeInfo` (a handler with `noexcept` below the first level):
    `can_catch_nested` (435-446) does not look at `__no_add_flags_mask`, so
    `void (**)()` is caught as `void (* const *)() noexcept`.
17. `TypeInfo` (a pointer to member of pointer type): `can_catch` of members
    (470-508) compares what is pointed to as a whole, so `int* A::*` is not caught
    as `int const* const A::*`, a qualification conversion as of bullet 3B (151).

Also seen, outside the models: `__atomic_fetch_max/min` of `atomic_msvc.h` 428
call a function with too few arguments and cannot be instantiated (the library
does not use them); on HIP `__atomic_compare_exchange_cuda` ignores its weak
flag and the thread fences ignore their order, both on the stronger side;
`stream_ref::wait` queries the stream once and throws if it is not ready, where
its comment says that it synchronizes; the native semaphore's
`try_acquire_until` cannot be instantiated.

## 4. Theorems

A theorem holds for every value of the constants that its assumptions admit; a
run shows the same property on one instance. The eight modules state 32 of them.
All but `TreeBarrierProofs` and `ExceptionProofs`, which extend their component, extend a suite, whose
bounds are constants that the `.cfg` gives a value and the theorems leave open:
they are about the very properties the runs check, and about the specifications
of the components the suite instantiates (`C!Spec`, `B!Spec`, `Weak!Spec`, ...).
Where a suite has one component several times, with different constants (`Plain`
and `Reentrant`, the three variants of `AtomicWait`, the three kinds of `Future`),
the proof module has one instance more with the constant left open (`Mutex`,
`Wait`, `Assoc`), and a lemma says that the suite's property is the same
(`MutexesAgree`, `VariantsAgree`, `KindsAgree`). What the theorems assume of
constants is assumed in the suite (`SuiteAssumption`), so that TLC evaluates it. An
assumption "finitely many" is there because sizes of sets are compared with
counters.

**BarrierProofs: the packed barrier.** Assumptions: finitely many threads, fewer than 2^31
(`RangeAssumption`), any observers, any number of phases.

- `WordCorrect`: `Quiesce => (Spec => []WordInv)`.
- `PackedImplements`: `Quiesce => (Spec => Implements)`.
- `ParityNotEarly`: `Quiesce => (Spec => ObserverNotEarly)`.

`Implements` is not inductive: it needs to know that the carry happens exactly
at the last arrival, which is `ArrivedCounts`. That in turn must hold inside the
window, where the counter starts at 0 and the missing amount is in a local of
the completing thread. So `WordInv` has two forms of the count (`ArrivedCounts`),
at most one thread in the window (`OneReload`), the reason why no phase can end
there (`Roles`: the thread in it, with its lanes, is a member that has not
arrived; for a dropper, nobody has arrived at all), the value of the expected half
with drops under way (`ExpectedCounts`), and the relation of the token to the
phase (`NeverTwoBehind`). `Quiesce` is used for one conjunct only, that of
`Roles` about `DropReload`, which is what disagreement 1 breaks. The arithmetic is in
the lemmas `AddUpper`, `AddLower` and `Completion`; `Completion` says that an
arrival changes the phase bit iff it is the last.

**BarrierProofs: the barrier with a completion function.** Assumptions: finitely many threads, any number of
phases.

- `CompletionBarrierCorrect`: `C!Spec => []CompletionCounts`.
- `TokensAfterCompletion`: `C!Spec => C!ReleasedAfterCompletion`.
- `CompletionBarrierImplements`: `C!Spec => C!Implements`.

`CompletionCounts` is inductive as it stands. Its parts need each other: the
counter says who is missing only because nobody else arrives between the last
`fetch_sub` and the flip of `__phase` (`CompletionAlone`), and nobody else does
because all the others are members that have arrived (`CountsMissing`). The
arithmetic is in the lemma `Missing`: subtracting the arrivals from the counter
gives zero exactly when nobody is left. The refinement ends the abstract phase at
that `fetch_sub`; what follows until the flip are stutters.

**TreeBarrierProofs, BarrierProofs: the tree barrier.** Assumptions
(`TreeAssumption`): finitely many threads, any number of phases, a range of bytes
divisible by 4, and no favorite index, with which the properties fail
(disagreement 2).

- `TreeInvariant`: `Spec => []TreeInv`, about `TreeBarrier` alone.
- `TreeSafe`, `TreeImplements`, `TreeTokensAfterCompletion`: what it says of the
  component's own properties.
- `TreeClimbs`: `BarriersSpec => []TreeClimbed`, in the suite.
- `OthersImplementBarrier`: `BarriersSpec => OthersImplement`, for the tree and the
  barrier with a completion function.

That the thread at the root is the last to arrive is a fact about the whole tree:
no label and no local of a thread says it. `TreeInv` has these parts:

- who calls for whom, who is missing, who has landed, and what `__expected` and
  its adjustment count (`Teams`, `OpenRoles`, `ClosingRoles`, `Expects`);
- the locals of a climb are right for `__expected` arrivals (`ClimbRight`):
  `__current` is a multiple of 2^round, `__current_expected` the number of arrivals
  that this round gets, `__last_node` its last node. The code computes these by
  halving and by clearing bits; `HalvedRight`, `LastRight`, `ClearsBit` and
  `SingleIsLone` say what comes out, and the powers of two are the sizes of sets
  of subsets (`PowerOfNext`), since `^` has no definition a prover could unfold;
- each node is free, half or full for this phase (`NodesRight`), and what a thread
  has seen of a node stays true (`Seen`);
- `SlotsTaken`: round 0 has a slot for each expected arrival, and as many of them
  are taken as threads have arrived or are climbing;
- `Flow`: a node above round 0 has had, or has at it, one thread for each full
  node of the one or two below it;
- `TreeFilled`: when a phase ends all nodes that its successor can use are full,
  which is free for the successor, whose phase is larger by 2. So tickets need no
  reset and may wrap.

From `Flow` a thread above round 0 finds room at its node (`NodeTaken`), and below
a full node everything is full and nobody is there (`FullBelow`). When the
root is filled, all slots of round 0 are therefore taken, so by `SlotsTaken` nobody
is missing but the thread itself (`RootFilled`); conversely, whoever marks a node
half leaves somebody missing (`NotLast`). `FullBelow`, and `FullAbove` for what a
phase leaves, are inductions over the rounds, made with the least round from which
on the claim fails (`FirstOf`).
`BarrierProofs` has an instance `TP` of `TreeBarrierProofs` for the suite's `T`,
shows that the two have the same actions (`TreeSameStep`), and that a step of the
suite is a step of each barrier or leaves it alone (`BarriersSeparate`).

**SemaphoreProofs.** Assumptions: finitely many threads, any `max()`, any
release amounts; an initial count of 0 or 1 for the binary semaphore, any
expected count for the latch.

- `SemaphoreCorrect`: `Spec => []CountInv`, where `CountInv` is `TypeOK /\ GivesUpOnlyWhenEmpty`.
- `SemaphoreImplements`: `Spec => Implements`.
- `BinaryCorrect`: `B!Spec => BinaryImplements`.
- `LatchCorrect`: `L!Spec => []PassedMeansZero`.
- `NativeCorrect`: `N!Spec => []NativePermits`.

`GivesUpOnlyWhenEmpty` and the type invariant are inductive together, because
the former says of every label what the thread there has seen: a thread at a
`compare_exchange` has read a count above zero, so a `compare_exchange` that
succeeds takes a permit that exists. The binary semaphore has `OneHolder`, which
says of each thread whether it is the holder where `OnePermit` only counts, since
by the old value that `exchange(0)` returns the thread becomes the holder or not. For the latch a thread's share of the
expected count is a set of units, so that the sum over threads is the size of a
set and needs no induction over the threads (`Units`).

For the native semaphore `NativeSums` relates the places a permit can be in: the
two buffers, the system semaphore, and threads that still have to post it
(`Due`) or to put it back (`Owing`); sums over threads are sizes of sets of units
here too. `NativePlaces` says at which label a thread can owe what. `NativeWakers`
says that whenever the back buffer holds permits, the system semaphore holds one
too, or some thread will look into the back buffer; that is what a sleeper
depends on. `NoneStranded` and `NativeWakers` are stated for `~Overlap`, the side of
disagreement 8 on which they hold; the rest holds on both.

**LockProofs.** Assumptions: finitely many threads; a lock count of 1 for a mutex
that is not recursive; any limit of readers; waiters and notifiers apart.

- `MutexesExclude`: `Mutex!Spec /\ Shared!Spec /\ [](which = "recursive" <=> IsRecursive) => []Exclusion`.
- `MutexesForgetNobody`: the same with `[]NoneForgotten`, under the assumption `SharedRoom`.
- `WaitLosesNothing`: `Wait!Spec /\ [](which = Variant) => []WakeUpNotLost`, for the
  variants `"native"` and `"condvar"`.
- `VersionTellsOfStores`: the same formula for the variant `"version"`, where
  `WakeUpNotLost` asks for less (`VersionTells`).

The variable `which` of the suite says which mutex and which variant a behaviour
uses; the suite never changes it, and its properties ask of each what it promises.

A timed mutex: while the count is not 0 there is one holder, which has locked as
often as the count says (`MutexOwned`). A shared mutex: the lower part of
`__state_` is the number of threads that hold it for reading, and the entered bit
belongs to one writer, at gate 2 or inside (`SharedCounts`, `SharedWriter`). `SharedRoom` says that at most one thread more
than `__n_readers_` uses the mutex. It cannot be dropped: with two readers at
most and four threads TLC finds the state of disagreement 10, two sleepers and
one notification. The limit of the code is 2^31 - 1, so programs meet the
hypothesis, and `WriterNotForgotten`, about gate 2, needs none.

Atomic wait: with the native variant the count in the table is exactly the
number of threads between their announcement and its end (`WaitCounts`), and a
thread asleep on a value that was replaced has a notifier about to look at the
count or to wake it (`NativeRemembers`). With the condition variable, a thread
that is about to sleep or asleep is announced by the credit, or a notifier that took
the credit still has to pass the mutex (`CondvarRemembers`). The third variant,
with versions, may lose a wake-up (disagreement 9) and returns because its sleep
has a time limit, which is for TLC (`CallsReturn`). What is proved is why that is
enough: the version is read before the last test of the value and incremented
after every store, so a thread that sleeps on a replaced value holds an old
version, or a notifier has yet to increment it (`VersionTells`). The invariant,
`VersionRemembers`, says it of every label from the reading of the version to the
sleep. It needs all notifiers to change the version
(`VersionNotifier = Notifier`) and a version that does not wrap.

**SharedStateProofs.** Assumptions: `"none"` is no flag and `NoThread` no thread
(names the models use for "nothing"), any flags and threads for one-time
initialization; finitely many threads with pointers or futures; the promise, the
runner of async and those who share the future are different threads.

- `GuardsCorrect`: `Once!Spec /\ Mutex!Spec /\ Futex!Spec => []GuardsRight`.
- `OnceImplements`: `Once!Spec /\ Mutex!Spec /\ Futex!Spec => InitializedOnce`.
- `BlockCorrect`: `Weak!Spec => []ControlBlockRight`.
- `FutureCorrect`: `Assoc!Spec => []FutureNotUsedAfterFree`.
- `FutureGivesOneResult`: `Assoc!Spec => []OneResult`.

Guards: the invariant says that the flag, or the init byte, is pending exactly
while one thread is in the initialization (`Initializing`), whose id stands
beside it. Both guards are proved with and without the thread id
(`HasThreadId`), although a suite runs them with it.

Control block: all shared owners are one weak owner together. The invariant
(`BlockInv`) makes that `Group`, which is there while a pointer is or while one
thread destroys the object, and counts the releases under way (`Releasing`) as
weak owners too. `__release_weak` frees without a decrement when it reads 0; it
may, because 0 then says that the reader is the only one of
`wWeak`, `Releasing` and `Group`. A `lock()` that succeeds found a count that was not -1,
so there is still a shared owner.

Future: `FutureInv` adds to the two properties that who waits holds a reference
(`WaitersHold`), that the last owner of an async state waits alone for the
function (`ZeroAlone`), and what the kind of the state rules out (`KindsMeet`):
only a promise is broken or made ready at thread exit, only a waiter runs a
deferred function, and an async state has a result exactly when its runner has
ended. The runner holds no reference, so `FreedLast` rests on that last conjunct.

**SmallAtomicProofs.** Assumptions (`SuiteAssumption`): widths above 0, the small one below
that of the proxy; finitely many values in the word. Any threads and calls; the
operations and arguments are those of the suite.

- `ProxyIsInvisible`: `Spec => ProxyImplements`.
- `WordIsShared`: `Spec => WordImplements`.

The state invariants are short: a thread inside an operation has a call of the
right types (`UInv`, `SInv`); the signed proxy stays the sign extension of a small
value, so nothing ever needs cleaning; and an attempt on the word is based on a
guess that agrees with what the call expects of its own value (`Guessed`), so a
`compare_exchange` that hits the whole word is one on the value. The work is in
the arithmetic. An operation on the proxy leaves the small value it should because
`+`, `-` and the operations per bit only look at lower bits: `RemainderPlus` and
`RepWider` for the former; for the latter `DigitsDecide` (numbers with the same
lower digits have the same remainder by 2^k), `PerDigitAgrees`, `MaskKeeps` for
the `fetch_and` that cleans, and `SignedStays` (and, or, xor of sign-extended
numbers are sign-extended). The library has no facts about powers. `PowerPositive` and
`PowerOfNext` get them from the number of subsets of a finite set, and induction
over the digits is by the first number at which a claim fails (`FirstOf`).

**ExceptionProofs, ExceptionSuiteProofs.** Assumptions (`ExceptionAssumption`):
finitely many dependent exceptions; primary, dependent and foreign exceptions and
the null pointer are different objects. Any threads, primary and foreign exceptions and
bounds, with and without ARM EHABI.

- `CxaInvariant`: `ObjectsAssumption => (Spec => []CxaInv)`, about `CxaException` alone.
- `ExceptionLivesWhileOwned`: `Spec => []LivesWhileOwned`.
- `UncaughtExceptionsCounted`: `Spec => []CountsRight`.
- `CurrentExceptionIsRight`: `Spec => []RightException`.

The last three are about the suite's own `Spec` and properties; of the constants
they assume what the suite does. `ObjectsAssumption` adds to `ExceptionAssumption`
that no cleanup runs `throw;` of an exception in flight (`RethrowInCleanup` is
`FALSE`, as in the suite): without it the invariant is false, which is
disagreement 13.

None of the three properties is inductive. What keeps an exception alive is its
`referenceCount`, which `__cxa_end_catch` decrements when `handlerCount` reaches
0; so the count of owners is right only if `handlerCount` is, and that is
changed by walking a linked list (`caughtExceptions`, `nextException`) whose end may
be an exception of another runtime. `CxaInv` therefore describes the whole
structure in terms of the frames of each thread's program:

- each exception of this runtime is on one thread, with at most one frame that is
  not a handler, in the state that the frame says (`FramesMatch`, `OnePlace`);
- the caught list is the list of the native handlers, innermost first, each
  exception once, and then at most one foreign exception (`CaughtInOrder`,
  `ForeignHeld`); the list has each exception once because its handlers are
  next to each other, also when it is in flight again (`HandlersTogether`). This is
  what a test hardly reaches, and the reason why `__cxa_begin_catch` may compare
  with the head of the list only;
- `handlerCount` is the number of handlers, negated while the exception is
  rethrown (`HandlerCounts`);
- `referenceCount` is the number of `exception_ptr`s, dependent exceptions and one
  for the thread that uses it, and the exception is alive while it is above zero
  (`RefsCounted`);
- `uncaughtExceptions` counts the flights (`FlightsCounted`), and on ARM EHABI
  the propagating list is the list of the cleanups (`Propagates`).

A step pushes, replaces or removes one frame of one thread (`Pushes`, `Retops`,
`Removes`), and the lemmas of `ExceptionProofs` say for each of these what happens
to each part. `ExceptionSuiteProofs` has an instance of `ExceptionProofs` for every
instance of `CxaException` in the suite, shows that the two have the same
actions (`SharedSame`, `NestedSame`, `EhabiSame`), and that a step of the suite is
a step of the part that `which` names.

Only model-checked:

- liveness (fairness and ENABLED are out of the prover's reach): `AllReturn`,
  `CallsReturn` of four suites, `PermitIsTaken`, `GetsThrough`;
- the emergency heap and the unwinding of `exceptions` (`Tiled`, `UnwindsAsPlanned`,
  `SpecHonoured`), and the properties of `algorithms`, whose modules
  compute over sequences with folds and recursive operators: what those return
  for every input needs induction over data, which the prover does not do.

## 5. Not modelled

The models stand for about 6,200 source lines. What they leave out, and why:

- *Sequential and compile-time code*, by far the largest part of the tree: type
  traits, tuple, array, span, functional, chrono, ratio, limits, containers and
  algorithms of libcxx, cmath and complex. It keeps no state between calls that
  somebody else sees; floating point is out of TLC's reach.
- *Parsing, formatting and tables*: the rest of `locale.cpp` (classification,
  collation, money and time formats), the demangler, the decoding of DWARF and
  ARM tables in libunwind, the register files of its targets, generated
  instruction text. A model of these would repeat the code line by line.
- *Operating system calls*: filesystem, random device, the thin wrappers over
  pthread, Win32 and dispatch.
- *Other implementations of what is modelled*: the `mbarrier` instructions and
  everything else under NVIDIA-only conditions; the unwinders for ARM EHABI, SEH
  and setjmp/longjmp; the guards without threads; conversions through the C
  locale; `atomic_base.h` but for its loops, `atomic_c11.h`, `atomic_gcc.h` and the HIP back end,
  where an operation is one compiler intrinsic with the order it is given.
- *Lock-based atomics*: every access is inside one lock.
- *`memcpy_async`*: on HIP a plain copy before the call returns, which touches
  neither barrier nor pipeline. *`stream_ref`*: one query of the runtime per
  call. *Memory resources*: concepts and type erasure.
- *Within modelled components*: `packaged_task`, which is a promise and a
  function; the list of condition variables notified at thread exit; pointer
  adjustments and allocation failure in `cxa_exception.cpp`; the search by name of
  `_LIBCXXABI_FORGIVING_DYNAMIC_CAST`, and the pointer flags but `const`,
  `volatile` and `noexcept`; memory orders outside
  the litmus modules, where atomic operations interleave.

## 6. Plan

Done: every module of section 2, the seven suites, and theorems about every
component of `MCBarriers`, `MCSemaphores`, `MCSmallAtomics`, `MCLocks` and
`MCSharedState` and the exception objects.

Next, proofs: the blocks of the emergency heap. Then, models: the lock-based atomics and the ARM
EHABI unwinder.
