# A TLA+ verification of the MJIT Ruby runtime

This Ruby compiles hot iseqs to machine code in the background (MJIT).  The
project models the parts of the runtime where threads, the collector, a compiler
process and the program meet, and the tables underneath: the JIT engine, the
frames that run its code, the GVL and native threads, the Ruby-level
synchronisation primitives, the garbage collector and the hash tables.  TLC
checks the models on small instances; TLAPS proves the central properties for
instances of any size.

## 1. Inventory

### The JIT engine: `mjit.c`, `mjit.h`

* **Units.** A `struct rb_mjit_unit` is one iseq on its way to machine code:
  status, `.so` handle, object file, `freed_p`, priority, the global speculation
  the code relies on, and a `rb_mjit_unit_iseq` that points back.  It sits in one
  of three lists, in the free list, in `curr_unit`, or in the hands of a worker.
* **Workers.** A thread makes the precompiled header; then workers take units
  from the queue, translate, run the compiler, check and load.  They share one
  mutex and four condition variables with the client.
* **Client.** Ruby threads, one at a time under the GVL: count calls and add
  iseqs, wait for ahead-of-time code, redo an iseq whose speculation failed,
  cancel all code when a global speculation breaks, evict code, bracket a garbage
  collection, free the unit of a collected iseq, end, fork.
* **Speculation.** Global: basic operations not redefined, no tracing.  Per
  instruction: `mutation_insns` remembers which one failed; after
  `max_mutations` failures code is generated without speculation.
* **Frames.** Code that a frame executes, on any fiber, must stay loaded; a frame
  whose speculation broke is flagged and leaves at its next test.

### What surrounds it

| part | source | how it meets the others |
|---|---|---|
| native threads, GVL, timer thread | `thread_pthread.c`, `thread.c` | every client operation, every collection and every table operation runs under the GVL |
| signals | `signal.c` | a handler counts, the timer thread interrupts the main thread |
| Mutex, ConditionVariable, Queue, join, kill, exit, fork | `thread_sync.c`, `thread.c` | sleep through `native_sleep`, are woken by interrupts, and share `vm->sleeper` for deadlock detection |
| garbage collector | `gc.c` | brackets each step with `mjit_gc_start` and `mjit_gc_finish`; frees iseqs |
| hash tables | `st.c`, `hash.c` | Hash, symbols, method tables, instance variables |
| redefinition, tracing | `vm.c`, `vm_trace.c` | clear a speculation and call `mjit_cancel_all` |
| continuations and fibers | `cont.c` | their frames keep code in use |
| end of the program | `eval.c` | ends threads, then `mjit_finish` |

The rest of the interpreter (parser, compiler, other core classes, encodings,
extensions, I/O) is sequential code on Ruby values; PROJECT.json lists it part by
part.

## 2. Modules

| module | what it is |
|---|---|
| `MjitEngine` | units, workers, client: one action per critical section or lock-free step |
| `GcExclusion` | what the GC handshake of the engine promises |
| `MjitFrames` | frames that execute JIT code, mutations, cancel flags, unloading, fibers, continuations |
| `ThreadSched` | GVL, `native_sleep`, blocking regions, interrupts, timer thread, signals |
| `ThreadSync` | Mutex, ConditionVariable, SizedQueue, join, stop, wakeup, raise, kill, the end of threads and process, fork, deadlock detection |
| `GcMark` | generations, incremental marking, write barriers, lazy sweeping, slots |
| `StTable` | st.c tables and the rules under which hash.c uses them |
| `OrderedMap` | what a table promises: a map in insertion order |
| `MCEngine`, `MCFrames`, `MCGc`, `MCSt` | instances for TLC: symmetry, pages, hash functions, programs |
| `MjitEngineProofs`, `MjitUnitProofs`, `MjitFaultProofs`, `MjitFramesProofs`, `GcMarkProofs`, `ThreadSchedProofs`, `ThreadSyncProofs`, `ThreadCountProofs` | theorems |

What each model takes from another is a property checked there.  `OneRuns` of
`ThreadSched` is why `MjitEngine` has one client, `GcMark` one mutator, and an
operation of `ThreadSync` or `StTable` is one action up to the point where it
sleeps, calls back or checks interrupts.  `InterruptArrives` is why a thread
of `ThreadSync` that was told leaves its sleep.  `PublishedCodeIsLoaded`
of `MjitEngine` is why `MjitFrames` loads code in one step.

In every module a constant (`Events` or `Programs`) says what the program and its
environment do, so that a run asks about the programs it names, all of them in
one run.  Undefined behaviour and the choices of the OS are nondeterministic.

### `MjitEngine`

* A critical section is one action with the guard `MutexFree`.  Where it spans two
  actions - the top of the worker loop, entered with the mutex held - `mutex`
  names the holder in between.  Code outside critical sections is an action of its
  own.
* `pthread_cond_wait` sets `wait[t]`; the thread is not `Awake` until a signal on
  that condition (or a spurious wakeup), and then runs the test of its loop again.
* Lists are sets.  Priority in `get_from_list` is kept (`Best`): a high priority
  unit first; which of the others has most calls is left open.
* Unit structures are recycled as `create_unit` and `free_unit` do; `Units` is the
  memory, and `MemoryBound` stops a behaviour that would need more.
* An object file is the iseq it was compiled from, a handle likewise; `dlopen(NULL)`
  is `Main`.  So code of a wrong iseq can be told apart.
* Undefined behaviour: the uninitialised `stat` of a worker whose compiler did not
  start; the static argument vectors of `start_unit`, which two workers may
  overwrite; the unlocked halves of `create_unit` and `free_unit` (`overlap`).
* `fault` names the assertion, NULL dereference or second lock of the mutex that
  ends the process.

Left out: out-of-memory branches (`xmalloc` raises), logging, file names, the text
of the C code.

### `MjitFrames`

* A frame is its iseq, the code it executes (`None`: the interpreter) and its
  environment.  `VM_FRAME_FLAG_CANCEL` is a bit of `ep[0]`, so `canceled` is a set
  of environments, which a restored continuation shares with the frames it was
  copied from.
* A code remembers what it was generated from: iseq, mutation number, the
  instructions it speculates on, the speculations of the whole function and the
  global one.
* `SpecFail` and `Canceled` are the jumps of the generated code to `stop_spec` and
  `cancel`.  JIT code tests the flag after a call.
* The workers' part is `Load`; `mjit_add_iseq_to_process` stays a step of its own
  after `mjit_redo_iseq`, because workers run in between.
* `Visited` are the stacks that marking and cancelling walk; `sth` says whether the
  saved stack of a fiber is not NULL.  That of a continuation is always NULL.

### `ThreadSched`

* A critical section of `vm->gvl.lock` or of `th->interrupt_lock` is one action; a
  thread on a condition variable is at the position of that name until it is in
  `awake`.  A signal wakes at least one waiter if there is one.
* `unblock` and `ubf` are the unblock function and the ubf list; SIGVTALRM to a
  thread that has not entered its system call is lost.
* The timer thread (`tt`) reads the ubf list without the lock, chooses between
  polling and sleeping for ever, and reads its two pipes (`normal`, `low`).
* The signal handler's increments of `signal_buff.cnt` and `.size`, and its write to
  the pipe, are separate steps.

### `ThreadSync`

* An action is what a thread does with the GVL until it sleeps or checks interrupts.
  `lock_func` and `native_sleep` run without the GVL and are positions of their own.
* Waiters are sequences (queues, condition variable) or sets (join lists), as the
  code's lists are used.
* `sleeper` is a number that the operations increment and decrement where the code
  does; `Counted` is what it ought to be.
* A blocking call (`op`) records whether it sleeps for ever; only those take part in
  deadlock detection.  `patrol` is the one mutex waiter that wakes up to look.

### `GcMark`

* One variable per bitmap, with the code's double use of the marking bits (grey
  during incremental marking, remember set otherwise).  The mark stack is a set.
* The collector stops between marking steps and between pages of a lazy sweep, and
  there the mutator allocates, writes with and without barriers, copies arrays,
  unprotects, clones and recycles.
* `Alive` is `is_live_object`; a reference to an object that is not alive, held by
  a root or by a live object, is the error the properties are about.

### `StTable`

* A table is its entries (with the deleted ones), the start of their range,
  `num_entries` and the bins; `entries_bound` is the length of the sequence.
* Probing follows `secondary_hash`; a search that does not end in `ProbeLength` steps
  has been round all bins with `perterb` zero and never ends.
* A traversal is one action per callback; in between the program may run any
  operation, nested traversals included.  `due` and `seen` are history variables.
* What callers of st.c must not do is a guard with a name: see `MayInsert`, and the
  notes in section 3.

## 3. Model checking

### Runs that pass

| run | states | shows |
|---|---|---|
| `jit` | 27,238 | JIT mode with collections, redone iseqs, the end, and failures of the compiler, of `dlopen` and of the header: callable code is loaded and belongs to its iseq (`PublishedCodeIsLoaded`), lists agree with statuses, units and iseqs point at each other, no fault |
| `workers` | 31,770 | two workers: a unit is in one place (`OnePlace`), the engine implements `GcExclusion`, teardown only after both have left their loops; a waiting collection starts, the program ends, queued units are taken |
| `aot` | 343,484 | AOT mode when compiler and loader succeed: no fault, a call that waits for code returns, also with a cache of one |
| `any_environment` | 178,623 | with every event on: types, GC exclusion, and an iseq that waits for code has its unit in the queue or in a worker's hands, or has none (`NotReadyIsQueued`) |
| `frames` | 558,752 | no frame executes unloaded code, a redefinition flags every frame that trusts it, redos are finite (`RedoConverges`): recursion, eviction, redo, AOT, exceptions, two fibers, continuations |
| `sched` | 235,143 | one thread has the GVL (`OneRuns`); no waiter, yielder or interrupt is forgotten (`NoLostWakeup`, `InterruptArrives`); waiters get their turn (`TimeSlice`), interrupted threads leave their sleep or system call, signals are handled |
| `sync` | 227,551 | mutexes have the owner they say (`OwnerKeeps`), no wakeup of a mutex, queue, condition variable or join is lost, `vm->sleeper` is right, a deadlock is reported when and only when there is one, the process ends |
| `gc` | 1,404,082 | nothing reachable is freed (`NoDangling`); the invariants that the code's own checkers state: black to white, old to young, clean slots, ages against bits |
| `hash` | 104,106 | a table implements `OrderedMap`; every search ends and finds what is there (`FindsAll`); a traversal passes each entry that stays exactly once, whatever its callbacks do (`ForeachVisitsOnce`) |

Each property is also shown to depend on the code: with one definition replaced by
a wrong variant kept beside it (`PopKeeps`, `WakeupLost`, `ThreadOnly`,
`gvl_release_common_silent`, `Signalled_none`, `gc_marks_finish_once`,
`CurrentIndex_stale`, ...) TLC finds it violated.

`QueueDrains` is checked without redos.  With them it fails, as it should:
`get_from_list` prefers units of high priority and of many calls, so a unit can
wait for ever behind an iseq that is redone again and again.

### Runs that find a disagreement

These check one statement of a comment or an assertion against the code, and TLC
finds a behaviour that breaks it.  PROJECT.json quotes the statement.

| run | what happens |
|---|---|
| `free_race` | a collection recycles a unit a worker is about to load |
| `frames_continuation` | a continuation goes on in unloaded code |
| `shift_empty` | `shift` on an empty Hash resets the entries but not the bins; after enough rounds no bin is empty |

The same way TLC finds the following, with the events or programs in the third
column added to those of the passing run of the module.  They have no run of their
own; the properties are in the modules.

| property | source | with | what happens |
|---|---|---|---|
| `NoFault` | mjit.c:2615 | AOT, `cc_fail` or `dl_fail` | a failed AOT compilation or load leaves a NULL unit for the next call |
| `NoFault` | mjit.c:2758 | `bop` or `trace`, `gc` | `mjit_cancel_all` allocates, collects and locks the mutex twice |
| `NoFault` | mjit.c:1995 | `spawn_fail`, cache of 1 | a compiler that did not start counts as success |
| `NoFault` | mjit.c:3047 | `cc_fail`, `profile`, `finish` | statistics are printed through a NULL unit |
| `NoFault` | mjit.c:1809 | two workers, three units, `cc_fail`, `redo` | a worker compiles the iseq of the other one; its unit becomes obsolete while its iseq still waits for it, and the asserts of `unload_units` fail |
| `AotCallReturns` | mjit.c:1918 | AOT, `dl_fail` | `load_unit` leaves the status at SUCCESS when `dlopen` fails, and the call waits for LOADED or FAILED ("Unit compilation or its load failed", mjit.c:171) |
| `AotCallReturns` | mjit.c:2618 | AOT, `pch_fail` | a call waits for ever after the header failed (mjit.c:1969: the workers leave) |
| `ActiveCodeIsValid` | mjit.c:2027 | `bop` | the speculation is tested in one critical section, the code published in another; `mjit_cancel_all` in between does not see the unit |
| `OwnObjectFile` | mjit.c:1809 | two workers | they share the static argument vectors of `start_unit` |
| `OnePlace` | mjit.c:2195 | `overlap`, `cc_fail`, `redo` | `create_unit` without the mutex: a unit in two places |
| `CacheBounded` | mjit.c:2534 | two iseqs, cache of 1 | more codes are loaded than `max_cache_size` |
| `CleanFinish` | mjit.c:3093 | `finish` | the mutex is destroyed while the last worker holds it |
| `ChildNotBlocked` | mjit.c:2830 | `fork`, `redo` | the child locks a mutex that only a worker of the parent unlocks |
| `StatusDiagram` | mjit.c:2570 | `redo` | LOADED goes to FAILED, not to IN_QUEUE |
| `WrongCodeIsCanceled` | mjit.c:2716 | `insn` and `bop` together | a frame in obsolete code is not flagged |
| `MutationsDefined` | mjit.c:2640 | `insn`, two instructions | an element of `mutation_insns` below `jit_mutations_num` is unset |
| `LastMutationIsSafe` | mjit.c:1654 | `insn` | the last mutation still speculates |
| `DeadlockReported` | thread.c:4913 | `lock`, `cv`, `fork` together | `rb_thread_atfork` leaves `patrol_thread` pointing at a thread the child does not have, and every `rb_check_deadlock` of the child returns |
| `QueueServed` | thread_sync.c:977 | `queue`, `max`, `fork`, `create` together, without the condition on `max` and `fork` | threads of the parent stay on the list of waiting producers of the child; `rb_szqueue_max_set` counts its wakeups by them, and a live producer sleeps on beside a free place |
| `FindsAll` | st.c:1184 | `st_insert2 without bins` | `st_insert2` does not count the new entry of a table without bins (`st_check`: `n == tab->num_entries`) |
| `ForeachVisitsOnce` | st.c:1468 | `st_foreach` and `st_delete` together | a callback that deletes its own entry and makes the table rebuild loses the place: with bins the index is `~0 - 2` and the traversal ends early, without them it is `~0` and the traversal starts again at 0 |

A passing run leaves out what makes a known disagreement happen (`free` in `jit`,
compiler failures in `aot`, `insn` with `bop` in `frames`, `st_shift of empty` in
`hash`), so that it says what holds otherwise.

### Known and not stated as properties

* An iseq whose compilation failed keeps `NOT_READY_JIT_ISEQ_FUN` without a unit and
  is interpreted for ever (mjit.c:2014).  The object file of a requeued unit is not
  removed (mjit.c:2220).  `mjit_free_iseq` leaves `ui->iseq` of an iseq without unit
  dangling (mjit.c:2677).  In a forked child `mjit_cancel_all` returns early and frames
  keep a broken speculation (mjit.c:2735).  A worker copies caches while the
  interpreter writes them (mjit.c:1274).
* A consumer that is woken for an item and then killed leaves the item to nobody, and
  so does the main thread when it was woken and `rb_check_deadlock` of another thread
  raises `fatal` in it: `QueueServed` is about programs without exceptions, until a
  deadlock is reported.  A `Thread#raise` that reaches a dying thread replaces the kill:
  `ExitEnds` is about programs without `raise`.
* `rb_copy_wb_protected_attribute` (gc.c:6016) into an old object would leave it old
  and unprotected; `init_copy` is given a fresh one.  "clone old" is the mutator
  operation that does it, and the theorems assume it away (`FreshClones`).
* `st_update` keeps entry and bin across its callback (st.c:1402); a block of
  `Hash#update` that changes the same Hash is not stopped when st_assert is off.
  `st_foreach` without check must not return ST_DELETE for an entry it has lost.  A
  callback must not insert the key it was called for after deleting it
  (`MayInsert`); `no_new_key` of hash.c sees to it for Hashes.

### Bounds

* Engine: one or two workers, one or two iseqs, two or three unit structures.  A race
  is between two threads over one unit, and the second iseq is the one a recycled
  structure is given to.  Thresholds are scaled down with both sides of each
  comparison reachable: `NUM_CALLS_TO_ADD` (5) is 1 or 2, `max_cache_size` (at least
  10) is 1 or 2, `max_mutations` (2) is 1, the tenth that `unload_units` frees in
  addition is a half.
* `frames`: stacks of at most two frames (`MaxDepth`; recursion needs two), two
  fibers; `Codes` bounds the loaded code.
* `sched`: two threads, one signal, three programs.  The proof is for any number, and
  its invariant `SInv` was also checked by TLC with three threads (12.9 million states).
* `sync`: three threads (two that block each other and one that looks), eight
  programs, one interrupt (`MaxInterrupts`), a queue of at most two.
* `gc`: three objects on two pages, one reference each (`MaxRefs`), `OldAge` 2 for
  `RVALUE_OLD_AGE` 3: one age is young and not new.  Also checked with `OldAge` 1 and
  two references (3.4 million states); the proof has no such bounds.
* `hash`: three keys that share bins, one with the reserved hash value.
  `MINIMAL_POWER2` (2), `MAX_POWER2_FOR_TABLES_WITHOUT_BINS` (4) and the shift of
  `secondary_hash` (11) are 1, 1 and 3, so that three keys take a table through
  packing, bins, growth, compaction and shrinking.  At most two nested traversals.
  The finding of `shift_empty` does not depend on the scale: the smallest table with
  bins has 64 of them in the code and 4 in the run.

Deadlock is checked in all runs except `any_environment`, `sched` and `sync`, where
the process may end, hang in a known way, or wait for an event that never comes.
Program code that does nothing with MJIT is the step `Quiet`.

### Fairness

* `MjitEngine`: the OS runs every worker and the header thread, and a Ruby thread
  inside an MJIT operation goes on: weak fairness for each.  A worker that waits for
  the end of collections also gets strong fairness for its entry while none runs:
  POSIX does not promise it, but without it no program that keeps collecting would
  compile anything.  Compiler processes end.
* `ThreadSched`: every native thread is scheduled, `poll` times out, Ruby code checks
  for interrupts at back branches and returns (`RUBY_VM_CHECK_INTS`), a signal handler
  that began ends.  Nothing is assumed of when a system call returns.
* `ThreadSync`: every thread gets the GVL (`TimeSlice` of `ThreadSched`), the timed
  wait of the patrol ends, and a running thread checks interrupts (strong: it may be
  inside a call each time it is looked at).
* Nowhere is it assumed that the program calls anything or that a wakeup is spurious.

## 4. Proofs

All theorems are for any value of the constants that the named assumptions of the
modules allow (TLC evaluates these in the runs).  Each rests on an inductive
invariant, checked by TLC before it was proved.

* **`MjitUnitProofs`**: `TypeCorrect`, in any environment.  `TypeOK` is inductive
  because it says where a worker's unit and the client's iseq are not NULL.  That
  `jit_mutations_num` stays within its array rests on `Exhausted`.
* `MjitUnitProofs` (the invariant, and the steps of a worker and of the client that move
  one unit) and **`MjitFaultProofs`** (the steps that move many, and the theorems):
  `UnitsAreInOnePlace`, `ListsHoldTheirStatus`, `UnitsAndIseqsMatch`,
  `CalledCodeIsLoaded`, `WaitingIseqsAreQueued`, for any number of workers, iseqs and
  units.  None of them is inductive, nor are they together.  `UnitInv` says that the
  three lists, the free list, new memory, the unit being formed and the hands of the
  workers are disjoint (`PlaceInv`, `HandsInv`); which status and handle go with a list
  (`StatusInv`); that every unit somebody may still load or run is the one its iseq
  points at (`OwnInv`); that `jit_code` is code exactly where the unit is active
  (`CodeInv`); and what the client relies on between two critical sections
  (`ClientInv`).  Each action is shown to be one of a few moves of units between these
  places (`Takes`, `Requeues`, `Discards`, `Fails`, `Publishes`, `Enqueues`,
  `Obsoletes`, ...), and each move to keep the invariant. Hypothesis: `Orderly`, neither
  `free` nor `overlap` among the events: the first is the race of the run `free_race`,
  the second that of `create_unit` (section 3). `NotReadyIsQueued` is also checked, not
  proved, with both (`any_environment`).
* **`MjitEngineProofs`**: three theorems for any number of workers and any environment.
  `GcExclusionHolds`: the invariant `GcInv` adds `CountOK`: until a fork,
  `units_in_translation` is the number of workers between the two critical sections of
  `start_unit`; without it the test of the counter says nothing about the workers.
  `EngineImplementsGcExclusion`: each step of the engine is a step of `GcExclusion` or
  leaves its variables alone.  `WorkersLeaveFirst`: `FinishInv` says that
  `finished_workers` counts the workers that left their loops, each once, and that a
  forked child, which has none, is never inside `mjit_finish`.
* `NoAssertionFails` (in `MjitEngineProofs`, from the invariants of `MjitFaultProofs`):
  no assertion fails, no NULL unit is dereferenced and the mutex is not locked twice,
  for any number of iseqs, units and mutations.  `FaultInv` adds to `UnitInv` and
  `FinishInv` which of the workers' positions go with the state of the precompiled
  header (`PchInv`), what is known of a unit at each stage of its compilation
  (`StageInv`), and that no iseq points at an obsolete unit except while it is being
  replaced (`CalmInv`).  Hypothesis: `Benign`, which excludes, besides what `Orderly`
  does, the situations in which `NoFault` fails (section 3): a second worker,
  `spawn_fail`, `profile`, collections together with `bop` or `trace`, and failures of
  the compiler or of `dlopen` in AOT mode.  The runs `jit` and `aot` are instances of
  it.
* **`GcMarkProofs`**: `NothingReachableIsFreed`, `NoBlackToWhite`,
  `OldObjectsAreRemembered`, `SlotsAreClean`, `AgesMatchBits`, for any heap, any
  partition into pages and any `RVALUE_OLD_AGE`.  The invariant `IInv` has one part for
  the time between markings (`Between`: a minor collection may start from these bits)
  and one for marking (`Marking`): a marked object is `Pending` - on the mark stack, in
  the hands of the collector, on a page whose remember set is still to be read, or
  unprotected during incremental marking - or all it refers to is marked, and if it
  is old, uncollectible or remembered.  That the pending set is empty when marking ends
  gives `NoDangling` for the sweep.  What `gc_mark` does to a set of children is one
  lemma (`MarkEffect`).  Hypothesis: `FreshClones` (section 3).
* **`ThreadSchedProofs`**: `GvlExcludes`, `NobodySleepsOn`, `NoInterruptIsMissed`, for any
  number of threads.  `SInv` adds to the properties that `gvl.waiting` counts the
  threads on `gvl.cond` (what `gvl_release_common` and `gvl_yield` decide by), that one
  thread at a time is the yielding one, and that an interrupted thread in a blocking
  region is in the ubf list with a timer thread that polls or has its pipe written.
* **`MjitFramesProofs`**: `CodeInUseStays`, `BrokenCodeIsLeft`, `RedosEnd`, for any number
  of iseqs, codes, fibers, threads and mutations.  `FInv` says that `jit_code`
  and the list of active units agree (`CodesOK`), that code which can be redone
  speculates on no more than its unit iseq allows (`WholeOK`), that every stack in use
  is one `mark_thread_unit_iseqs` and `cancel_thread_frames` visit (`StacksVisited`), and
  that after a redefinition no active code trusts the operation (`BopOK`); each is
  needed where code is unloaded, redone, marked or cancelled.  `BrokenCodeIsLeft` is about the
  programs in which `WrongCodeIsCanceled` holds (section 3).  `RedosEnd` is an action
  property: every redo lowers the number of mutations and speculations that are left.
* **`ThreadSyncProofs`**: `MutexesHaveKeepers`, `UnlocksReachWaiters`,
  `SleepersCanBeFound`, for any number of threads and mutexes and any program.
  `SyncInv` says of each thread on its own which call it is in where (`Place`, `Call`),
  what its `th->status` may be (`State`: whoever makes it runnable also interrupts it),
  which mutexes are its own (`Holds`), and on which list it is (`Queued`).
  `SleepersAreListed` speaks of threads in `native_sleep` only; to be kept it has to be
  said of a thread from its first check of interrupts on, with the status in the place
  of the interrupt flag.  `NoLostUnlock` is inductive with `Holds`.  A step is shown to
  keep the clauses of every thread that it does not act on by one lemma (`StepKeeps`)
  from what the step leaves as it was (`Undisturbed`, `Told`, `StillListed`); the rest
  is about the thread that acts.
* **`ThreadCountProofs`**: `SleepersAreCounted`, `ReportsAreTrue` (an action property),
  `DeadlocksAreReported`, for any finite number of threads (`ThreadsFinite`).  `CountInv`
  adds to `SleepersCounted` that a deadlock nobody reported has a patrol thread
  (`PatrolSet`), because the last thread to block either finds the deadlock or is the
  patrol.  That the patrol is alive needs one of two more invariants: no thread is left
  behind by fork (`PatrolLives`), or no mutex is ever locked (`Unlocked`).  So the theorem
  is about programs that do not both lock and fork; in those that do the
  property fails (section 3).
* `QueuesAreServed` (in **`ThreadCountProofs`**): that an item has somebody awake to
  take it is not inductive, because that thread takes one item and there may be more.
  `QueueInv` counts: while some callers of `pop` are on the list, the other callers of
  `pop` are at least as many as the items (`Served`), and the same of producers and free
  places.  It also needs that lists hold a thread once and only threads in that call
  (`ListsInv`), and that no exception is pending.  The theorem is about what
  `QueueServed` says and no more: until an exception or a deadlock report reaches a
  thread, and not for programs with both `max=` and `fork`.

Only model-checked: liveness, which needs reasoning about fairness and `ENABLED` that
the prover does not do; `StTable`, whose probe sequences and folds over entries would
need induction over data.  What fails in general (section 3) is proved for the
programs and environments in which it holds, and each hypothesis is named above.

## 5. Not modelled

* Engine: the failure paths of `mjit_init` (mjit.c:2945), the links of the lists,
  options, file names; the generated C code beyond where it speculates and tests the
  flag; the contents of call and inline caches; memory above the top of a stack, which
  a stale saved stack pointer of a root fiber reaches (cont.c:453); forks in
  `MjitFrames`.
* Threads: creation and caching of native threads, stacks, priorities, the reserved
  pipes and the `writing` counter of `native_stop_timer_thread`; native mutexes held at
  fork; `thread_win32.c`; `Thread.handle_interrupt` masks, trap contexts,
  `abort_on_exception`, thread-local data.
* Collector: finalizers and zombies, heap growth, malloc accounting, what triggers a
  collection, conservative scanning (a set of roots), that a started collection ends.
* Tables: `st_copy`, keys whose hash values change, compare functions that call back,
  default values, `compare_by_identity`; the many Hash methods built from those
  modelled.
* The rest of the interpreter is the larger part of the repository: sequential code
  on Ruby values (parser, compiler, core classes, encodings), I/O, extensions and
  libraries written in Ruby.  It has no concurrency or protocol of its own, and its
  properties are those of single calls, which the test suite covers.
