---------------------------- MODULE ThreadSched ----------------------------
(***************************************************************************)
(* Native threads of the interpreter: the global VM lock (GVL), sleeping,  *)
(* blocking regions, interrupts, the timer thread and signals.             *)
(* thread_pthread.c, thread.c, signal.c.                                   *)
(*                                                                         *)
(* A critical section of vm->gvl.lock or th->interrupt_lock is one action. *)
(* A thread that waits on a condition variable is at a position of that    *)
(* name, and goes on only when it is in awake; then it repeats its test.   *)
(***************************************************************************)
EXTENDS Naturals, FiniteSets

CONSTANTS
  Threads,      \* native threads that run Ruby code
  Main,         \* vm->main_thread
  None,         \* no thread
  MaxSignals,   \* bound: signals received in a behaviour
  Programs      \* sets of things programs and their environment do

ASSUME ThreadsAssumption ==
  /\ IsFiniteSet(Threads) /\ Main \in Threads /\ None \notin Threads
  /\ MaxSignals \in Nat
  /\ Programs \subseteq SUBSET {"sleep", "region", "interrupt", "signal", "exit", "pass",
                                "spurious"}

VARIABLES
  acquired, waiting, need_yield, wait_yield,  \* vm->gvl
  running,          \* vm->running_thread
  pc, after, awake, \* position, where gvl_acquire returns to, signalled threads
  flag, got,        \* th->interrupt_flag, the bits an execute_interrupts took
  unblock, ubf,     \* th->unblock.func, ubf_list
  tt, polling,      \* position of the timer thread, need_polling
  normal, low,      \* the pipes of the timer thread hold something
  cnt, size, hpc,   \* signal_buff, position of the signal handler
  received,         \* signals received so far
  events            \* what the program and its environment do

gvlVars == <<acquired, waiting, need_yield, wait_yield>>
sigVars == <<cnt, size, hpc, received>>
ttVars  == <<tt, polling>>
vars == <<gvlVars, running, pc, after, awake, flag, got, unblock, ubf, ttVars,
          normal, low, sigVars, events>>

\* Positions of a thread that has the GVL, and of one that does not.
Holding  == {"set", "run", "check", "ints", "region", "unreg", "reset", "exit"}
Outside  == {"acquire", "cond", "switch", "switch_wait", "sched_yield",
             "sleep_lock", "sleeping", "enter", "syscall", "dead"}
Bits == {"timer", "pending", "trap"}

Holds(t) == pc[t] \in Holding
At(c) == {t \in Threads : pc[t] = c}
rb_thread_alone(t) == \A u \in Threads \ {t} : pc[u] = "dead"

Init ==
  /\ events \in Programs
  /\ acquired = TRUE /\ waiting = 0 /\ need_yield = FALSE /\ wait_yield = FALSE
  /\ running = Main
  /\ pc = [t \in Threads |-> IF t = Main THEN "run" ELSE "acquire"]
  /\ after = [t \in Threads |-> "run"]
  /\ awake = {}
  /\ flag = [t \in Threads |-> {}] /\ got = [t \in Threads |-> {}]
  /\ unblock = [t \in Threads |-> "none"] /\ ubf = {}
  /\ tt = "ubf" /\ polling = FALSE
  /\ normal = FALSE /\ low = FALSE
  /\ cnt = 0 /\ size = 0 /\ hpc = "idle" /\ received = 0

TypeOK ==
  /\ {acquired, need_yield, wait_yield, polling, normal, low} \subseteq BOOLEAN
  /\ waiting \in Nat
  /\ running \in Threads \cup {None}
  /\ pc \in [Threads -> Holding \cup Outside]
  /\ after \in [Threads -> {"run", "check", "unreg"}]
  /\ awake \subseteq Threads
  /\ flag \in [Threads -> SUBSET Bits] /\ got \in [Threads -> SUBSET Bits]
  /\ unblock \in [Threads -> {"none", "cond", "select"}] /\ ubf \subseteq Threads
  /\ tt \in {"ubf", "tick", "signal", "decide", "read", "poll", "forever"}
  /\ cnt \in Nat /\ size \in Nat /\ hpc \in {"idle", "size", "write"}
  /\ received \in 0 .. MaxSignals /\ events \in Programs

----------------------------------------------------------------------------
(* The GVL *)

\* native_cond_signal wakes one of the threads that wait on c, if there is one.
Signal(c, aw) ==
  {aw \cup {t} : t \in At(c) \ aw} \cup (IF At(c) \subseteq aw THEN {aw} ELSE {})

\* for a mutant: the timer thread is not woken
AcquireLoses_silent(t, aw) ==
  /\ acquired
  /\ waiting' = waiting + 1
  /\ pc' = [pc EXCEPT ![t] = "cond"]
  /\ awake' = aw \ {t}
  /\ UNCHANGED <<acquired, low>>

\* gvl_acquire_common, entered with gvl.lock by t, when aw are awake.
AcquireLoses(t, aw) ==
  /\ acquired
  /\ waiting' = waiting + 1
  /\ low' = (low \/ waiting' = 1)
  /\ pc' = [pc EXCEPT ![t] = "cond"]
  /\ awake' = aw \ {t}
  /\ UNCHANGED acquired

AcquireWins(t, aw) ==
  /\ ~acquired /\ acquired' = TRUE
  /\ pc' = [pc EXCEPT ![t] = "set"]
  /\ awake' = aw \ {t}
  /\ UNCHANGED <<waiting, low>>

gvl_acquire_common(t, aw) == AcquireLoses(t, aw) \/ AcquireWins(t, aw)

gvl_acquire(t) ==
  /\ pc[t] = "acquire"
  /\ gvl_acquire_common(t, awake)
  /\ UNCHANGED <<need_yield, wait_yield, running, after, flag, got, unblock, ubf,
                 ttVars, normal, sigVars>>

\* A waiter of gvl.cond is awake and tests acquired again.
CondAgain(t) ==
  /\ pc[t] = "cond" /\ t \in awake /\ acquired
  /\ awake' = awake \ {t}
  /\ UNCHANGED <<gvlVars, running, pc, after, flag, got, unblock, ubf, ttVars,
                 normal, low, sigVars>>

\* for a mutant: a waiter that is awake does not test acquired again
CondWins_if(t) ==
  /\ pc[t] = "cond" /\ t \in awake
  /\ acquired' = TRUE
  /\ waiting' = waiting - 1
  /\ need_yield' = FALSE
  /\ awake' \in (IF need_yield THEN Signal("switch", awake \ {t}) ELSE {awake \ {t}})
  /\ pc' = [pc EXCEPT ![t] = "set"]
  /\ UNCHANGED <<wait_yield, running, after, flag, got, unblock, ubf, ttVars,
                 normal, low, sigVars>>

CondWins(t) ==
  /\ pc[t] = "cond" /\ t \in awake /\ ~acquired
  /\ acquired' = TRUE
  /\ waiting' = waiting - 1
  /\ need_yield' = FALSE
  /\ awake' \in (IF need_yield THEN Signal("switch", awake \ {t}) ELSE {awake \ {t}})
  /\ pc' = [pc EXCEPT ![t] = "set"]
  /\ UNCHANGED <<wait_yield, running, after, flag, got, unblock, ubf, ttVars,
                 normal, low, sigVars>>

\* for a mutant: nobody is signalled
gvl_release_common_silent ==
  acquired' = FALSE /\ UNCHANGED awake

\* gvl_release_common
gvl_release_common ==
  /\ acquired' = FALSE
  /\ awake' \in IF waiting > 0 THEN Signal("cond", awake) ELSE {awake}

\* gvl_release(), then position p.
gvl_release(t, p) ==
  /\ gvl_release_common
  /\ pc' = [pc EXCEPT ![t] = p]
  /\ UNCHANGED <<waiting, need_yield, wait_yield>>

\* gvl_yield, up to the first wait or to sched_yield.
gvl_yield(t) ==
  /\ gvl_release_common
  /\ \/ /\ wait_yield
        /\ pc' = [pc EXCEPT ![t] = "switch_wait"]
        /\ UNCHANGED <<need_yield, wait_yield>>
     \/ /\ ~wait_yield /\ waiting > 0
        /\ need_yield' = TRUE /\ wait_yield' = TRUE
        /\ pc' = [pc EXCEPT ![t] = "switch"]
     \/ /\ ~wait_yield /\ waiting = 0
        /\ pc' = [pc EXCEPT ![t] = "sched_yield"]
        /\ UNCHANGED <<need_yield, wait_yield>>
  /\ after' = [after EXCEPT ![t] = "check"]
  /\ UNCHANGED waiting

\* The waits of gvl_yield, repeated while their condition holds.
YieldAgain(t) ==
  /\ t \in awake
  /\ \/ pc[t] = "switch" /\ need_yield
     \/ pc[t] = "switch_wait" /\ wait_yield
  /\ awake' = awake \ {t}
  /\ UNCHANGED <<gvlVars, running, pc, after, flag, got, unblock, ubf, ttVars,
                 normal, low, sigVars>>

\* The yielding thread saw another one take the GVL: it lets the other
\* yielding threads go, and asks for the GVL again.
SwitchDone(t) ==
  /\ \/ pc[t] = "switch" /\ t \in awake /\ ~need_yield /\ wait_yield' = FALSE
     \/ pc[t] = "sched_yield" /\ UNCHANGED wait_yield
  /\ gvl_acquire_common(t, awake \cup At("switch_wait"))
  /\ UNCHANGED <<need_yield, running, after, flag, got, unblock, ubf, ttVars,
                 normal, sigVars>>

SwitchWaitDone(t) ==
  /\ pc[t] = "switch_wait" /\ t \in awake /\ ~wait_yield
  /\ gvl_acquire_common(t, awake)
  /\ UNCHANGED <<need_yield, wait_yield, running, after, flag, got, unblock, ubf,
                 ttVars, normal, sigVars>>

\* POSIX lets a wait return without a signal.
Spurious(t) ==
  /\ "spurious" \in events
  /\ pc[t] \in {"cond", "switch", "switch_wait", "sleeping"} /\ t \notin awake
  /\ awake' = awake \cup {t}
  /\ UNCHANGED <<gvlVars, running, pc, after, flag, got, unblock, ubf, ttVars,
                 normal, low, sigVars>>

rb_thread_set_current(t) ==
  /\ pc[t] = "set"
  /\ running' = t
  /\ pc' = [pc EXCEPT ![t] = after[t]]
  /\ after' = [after EXCEPT ![t] = "run"]
  /\ UNCHANGED <<gvlVars, awake, flag, got, unblock, ubf, ttVars, normal,
                 low, sigVars>>

----------------------------------------------------------------------------
(* What a Ruby thread does with the GVL *)

\* Thread.pass
thread_s_pass(t) ==
  /\ "pass" \in events /\ pc[t] = "run" /\ ~rb_thread_alone(t)
  /\ gvl_yield(t)
  /\ UNCHANGED <<running, flag, got, unblock, ubf, ttVars, normal, low, sigVars>>

\* The end of thread_start_func_2: running_thread is cleared before the thread
\* structure goes, and the GVL is released last.
ThreadEnds(t) ==
  /\ "exit" \in events /\ pc[t] = "run" /\ t # Main
  /\ running' = None
  /\ pc' = [pc EXCEPT ![t] = "exit"]
  /\ UNCHANGED <<gvlVars, after, awake, flag, got, unblock, ubf, ttVars, normal,
                 low, sigVars>>

ThreadGone(t) ==
  /\ pc[t] = "exit"
  /\ gvl_release(t, "dead")
  /\ UNCHANGED <<running, after, flag, got, unblock, ubf, ttVars, normal, low,
                 sigVars>>

\* native_sleep: without the GVL, under interrupt_lock, it does not wait when
\* the thread is interrupted already.
native_sleep(t) ==
  /\ "sleep" \in events /\ pc[t] = "run"
  /\ gvl_release(t, "sleep_lock")
  /\ after' = [after EXCEPT ![t] = "check"]
  /\ UNCHANGED <<running, flag, got, unblock, ubf, ttVars, normal, low, sigVars>>

Interrupted(t) == flag[t] \cap {"pending", "trap"} # {}

\* for a mutant: the thread waits without a look at interrupt_flag
SleepLock_blind(t) ==
  /\ pc[t] = "sleep_lock"
  /\ pc' = [pc EXCEPT ![t] = "sleeping"]
  /\ unblock' = [unblock EXCEPT ![t] = "cond"]
  /\ UNCHANGED <<gvlVars, running, after, awake, flag, got, ubf, ttVars, normal,
                 low, sigVars>>

SleepLock(t) ==
  /\ pc[t] = "sleep_lock"
  /\ IF Interrupted(t)
     THEN pc' = [pc EXCEPT ![t] = "acquire"] /\ UNCHANGED unblock
     ELSE /\ pc' = [pc EXCEPT ![t] = "sleeping"]
          /\ unblock' = [unblock EXCEPT ![t] = "cond"]
  /\ UNCHANGED <<gvlVars, running, after, awake, flag, got, ubf, ttVars, normal,
                 low, sigVars>>

SleepOver(t) ==
  /\ pc[t] = "sleeping" /\ t \in awake
  /\ awake' = awake \ {t}
  /\ unblock' = [unblock EXCEPT ![t] = "none"]
  /\ pc' = [pc EXCEPT ![t] = "acquire"]
  /\ UNCHANGED <<gvlVars, running, after, flag, got, ubf, ttVars, normal, low,
                 sigVars>>

\* blocking_region_begin: set_unblock_function checks interrupts until there
\* are none; then the GVL is released and the system call is made.
blocking_region_begin(t) ==
  /\ "region" \in events /\ pc[t] = "run" /\ flag[t] = {}
  /\ unblock' = [unblock EXCEPT ![t] = "select"]
  /\ pc' = [pc EXCEPT ![t] = "region"]
  /\ UNCHANGED <<gvlVars, running, after, awake, flag, got, ubf, ttVars, normal,
                 low, sigVars>>

RegionRelease(t) ==
  /\ pc[t] = "region"
  /\ gvl_release(t, "enter")
  /\ after' = [after EXCEPT ![t] = "unreg"]
  /\ UNCHANGED <<running, flag, got, unblock, ubf, ttVars, normal, low, sigVars>>

SyscallEnters(t) ==
  /\ pc[t] = "enter"
  /\ pc' = [pc EXCEPT ![t] = "syscall"]
  /\ UNCHANGED <<gvlVars, running, after, awake, flag, got, unblock, ubf, ttVars,
                 normal, low, sigVars>>

SyscallReturns(t) ==
  /\ pc[t] = "syscall"
  /\ pc' = [pc EXCEPT ![t] = "acquire"]
  /\ UNCHANGED <<gvlVars, running, after, awake, flag, got, unblock, ubf, ttVars,
                 normal, low, sigVars>>

\* blocking_region_end, with the GVL: off the ubf list, then no ubf.
unregister_ubf_list(t) ==
  /\ pc[t] = "unreg"
  /\ ubf' = ubf \ {t}
  /\ pc' = [pc EXCEPT ![t] = "reset"]
  /\ UNCHANGED <<gvlVars, running, after, awake, flag, got, unblock, ttVars,
                 normal, low, sigVars>>

reset_unblock_function(t) ==
  /\ pc[t] = "reset"
  /\ unblock' = [unblock EXCEPT ![t] = "none"]
  /\ pc' = [pc EXCEPT ![t] = "check"]
  /\ UNCHANGED <<gvlVars, running, after, awake, flag, got, ubf, ttVars, normal,
                 low, sigVars>>
----------------------------------------------------------------------------
(* Interrupts *)

\* SIGVTALRM makes a system call of these threads return; it is lost on a
\* thread that has not entered it yet.
Kicked(ts) == [t \in Threads |->
                IF t \in ts /\ pc[t] = "syscall" THEN "acquire" ELSE pc[t]]

\* The ubf of native_sleep signals sleep_cond.
ubf_pthread_cond_signal(t) ==
  /\ awake' = awake \cup {t}
  /\ UNCHANGED <<ubf, normal, pc>>

\* The ubf of a blocking region: the timer thread is to repeat the signal, and
\* is woken for it unless it is the caller.
ubf_select(t, timer) ==
  /\ ubf' = ubf \cup {t}
  /\ normal' = (normal \/ ~timer)
  /\ pc' = Kicked({t})
  /\ UNCHANGED awake

\* rb_threadptr_interrupt_common(t): set the bit, call the ubf.
rb_threadptr_interrupt_common(t, bit, timer) ==
  /\ flag' = [flag EXCEPT ![t] = @ \cup {bit}]
  /\ \/ unblock[t] = "cond" /\ ubf_pthread_cond_signal(t)
     \/ unblock[t] = "select" /\ ubf_select(t, timer)
     \/ unblock[t] = "none" /\ UNCHANGED <<awake, ubf, normal, pc>>

\* A running thread interrupts another: Thread#raise, kill, wakeup, run ...
rb_threadptr_interrupt(u, t) ==
  /\ "interrupt" \in events /\ pc[u] = "run" /\ u # t /\ pc[t] # "dead"
  /\ rb_threadptr_interrupt_common(t, "pending", FALSE)
  /\ UNCHANGED <<gvlVars, running, after, got, unblock, ttVars, low, sigVars>>

\* RUBY_VM_CHECK_INTS and the loop of rb_threadptr_execute_interrupts: after a
\* sleep, a blocking region or a yield, a thread comes to "check" and goes on
\* only when nothing is pending.
NoInterrupts(t) ==
  /\ pc[t] = "check" /\ flag[t] = {}
  /\ pc' = [pc EXCEPT ![t] = "run"]
  /\ UNCHANGED <<gvlVars, running, after, awake, flag, got, unblock, ubf, ttVars,
                 normal, low, sigVars>>

threadptr_get_interrupts(t) ==
  /\ pc[t] \in {"run", "check"} /\ flag[t] # {}
  /\ got' = [got EXCEPT ![t] = flag[t]]
  /\ flag' = [flag EXCEPT ![t] = {}]
  /\ pc' = [pc EXCEPT ![t] = "ints"]
  /\ UNCHANGED <<gvlVars, running, after, awake, unblock, ubf, ttVars, normal, low,
                 sigVars>>

\* The main thread runs the trap of the next signal (rb_get_next_signal).
NextSignal(t) ==
  /\ pc[t] = "ints" /\ t = Main /\ "trap" \in got[t]
  /\ \/ /\ size # 0 /\ cnt > 0
        /\ cnt' = cnt - 1 /\ size' = size - 1
        /\ UNCHANGED got
     \/ /\ size = 0 \/ cnt = 0
        /\ got' = [got EXCEPT ![t] = @ \ {"trap"}]
        /\ UNCHANGED <<cnt, size>>
  /\ UNCHANGED <<gvlVars, running, pc, after, awake, flag, unblock, ubf, ttVars,
                 normal, low, hpc, received>>

\* The rest: exceptions of other threads, then the end of the time slice.
ExecuteInterrupts(t) ==
  /\ pc[t] = "ints" /\ (t = Main => "trap" \notin got[t])
  /\ got' = [got EXCEPT ![t] = {}]
  /\ IF "timer" \in got[t] /\ ~rb_thread_alone(t)
     THEN gvl_yield(t)
     ELSE pc' = [pc EXCEPT ![t] = "check"] /\ UNCHANGED <<gvlVars, after, awake>>
  /\ UNCHANGED <<running, flag, unblock, ubf, ttVars, normal, low, sigVars>>

----------------------------------------------------------------------------
(* Signals and the timer thread *)

\* for a mutant: the pipe is not written
wakeup_none == UNCHANGED normal

\* rb_thread_wakeup_timer_thread
rb_thread_wakeup_timer_thread == normal' = TRUE

\* sighandler: signal_enque counts the signal, then the total; then it wakes
\* the timer thread.
sighandler ==
  /\ \/ /\ "signal" \in events /\ hpc = "idle" /\ received < MaxSignals
        /\ cnt' = cnt + 1 /\ hpc' = "size" /\ received' = received + 1
        /\ UNCHANGED <<size, normal>>
     \/ /\ hpc = "size"
        /\ size' = size + 1 /\ hpc' = "write" /\ UNCHANGED <<cnt, normal, received>>
     \/ /\ hpc = "write"
        /\ rb_thread_wakeup_timer_thread /\ hpc' = "idle" /\ UNCHANGED <<cnt, size, received>>
  /\ UNCHANGED <<gvlVars, running, pc, after, awake, flag, got, unblock, ubf, ttVars,
                 low>>

\* ubf_wakeup_all_threads
ubf_wakeup_all_threads ==
  /\ tt = "ubf" /\ tt' = "tick"
  /\ pc' = Kicked(ubf)
  /\ UNCHANGED <<gvlVars, running, after, awake, flag, got, unblock, ubf, polling,
                 normal, low, sigVars>>

\* timer_thread_function: the bit for the running thread ...
TimerInterrupt ==
  /\ tt = "tick" /\ tt' = "signal"
  /\ flag' = [t \in Threads |-> IF t = running THEN flag[t] \cup {"timer"} ELSE flag[t]]
  /\ UNCHANGED <<gvlVars, running, pc, after, awake, got, unblock, ubf, polling,
                 normal, low, sigVars>>

\* ... and an interrupt of the main thread when a signal waits.
rb_threadptr_check_signal ==
  /\ tt = "signal" /\ tt' = "decide"
  /\ IF size > 0 THEN rb_threadptr_interrupt_common(Main, "trap", TRUE)
                 ELSE UNCHANGED <<flag, awake, ubf, normal, pc>>
  /\ UNCHANGED <<gvlVars, running, after, got, unblock, polling, low, sigVars>>

\* for a mutant: the ubf list does not keep the timer thread awake
NeedPolling_never ==
  /\ tt = "decide" /\ tt' = "read"
  /\ polling' = FALSE
  /\ UNCHANGED <<gvlVars, running, pc, after, awake, flag, got, unblock, ubf, normal,
                 low, sigVars>>

\* timer_thread_sleep reads the ubf list and gvl.waiting without their locks.
NeedPolling ==
  /\ tt = "decide" /\ tt' = "read"
  /\ polling' = (ubf # {})
  /\ UNCHANGED <<gvlVars, running, pc, after, awake, flag, got, unblock, ubf, normal,
                 low, sigVars>>

timer_thread_sleep ==
  /\ tt = "read"
  /\ tt' = IF waiting > 0 \/ polling THEN "poll" ELSE "forever"
  /\ polling' = FALSE
  /\ UNCHANGED <<gvlVars, running, pc, after, awake, flag, got, unblock, ubf, normal,
                 low, sigVars>>

\* The poll ends: by its timeout, or because a pipe it looks at is not empty.
PollEnds ==
  /\ \/ tt = "poll" /\ ~normal /\ UNCHANGED <<normal, low>>
     \/ tt = "poll" /\ normal /\ normal' = FALSE /\ low' = FALSE
     \/ tt = "forever" /\ (normal \/ low) /\ normal' = FALSE /\ low' = FALSE
  /\ tt' = "ubf"
  /\ UNCHANGED <<gvlVars, running, pc, after, awake, flag, got, unblock, ubf, polling,
                 sigVars>>

TimerThread ==
  \/ ubf_wakeup_all_threads \/ TimerInterrupt \/ rb_threadptr_check_signal
  \/ NeedPolling \/ timer_thread_sleep \/ PollEnds

\* What thread t does of itself, and goes on to do until it runs Ruby code.
Step(t) ==
  \/ gvl_acquire(t) \/ CondAgain(t) \/ CondWins(t) \/ YieldAgain(t)
  \/ SwitchDone(t) \/ SwitchWaitDone(t) \/ rb_thread_set_current(t)
  \/ ThreadGone(t) \/ SleepLock(t) \/ SleepOver(t) \/ RegionRelease(t)
  \/ SyscallEnters(t) \/ unregister_ubf_list(t) \/ reset_unblock_function(t)
  \/ NoInterrupts(t) \/ threadptr_get_interrupts(t) \/ NextSignal(t) \/ ExecuteInterrupts(t)

Next ==
  /\ \/ \E t \in Threads :
          \/ Step(t) \/ Spurious(t) \/ SyscallReturns(t)
          \/ thread_s_pass(t) \/ ThreadEnds(t) \/ native_sleep(t)
          \/ blocking_region_begin(t)
          \/ \E u \in Threads : rb_threadptr_interrupt(u, t)
     \/ TimerThread \/ sighandler
  /\ UNCHANGED events

Spec == Init /\ [][Next]_vars

\* The operating system schedules every thread, poll times out, and Ruby code
\* checks for interrupts at every back branch and return.  Nothing is assumed
\* of when a system call returns, of spurious wakeups, or of the program.
Fairness ==
  /\ \A t \in Threads : WF_vars(UNCHANGED events /\ Step(t))
  /\ WF_vars(UNCHANGED events /\ TimerThread)
  /\ WF_vars(UNCHANGED events /\ hpc # "idle" /\ sighandler)

FairSpec == Spec /\ Fairness

----------------------------------------------------------------------------
(* Properties *)

\* One thread runs Ruby code at a time, and gvl.acquired says whether one does:
\* gvl_acquire_common and gvl_release_common keep flag and owner together
\* through waits, yields, sleeps and blocking regions.  vm->running_thread, which
\* timer_thread_function writes to without the GVL, is never a thread that is gone.
OneRuns ==
  /\ \A t, u \in Threads : Holds(t) /\ Holds(u) => t = u
  /\ acquired <=> \E t \in Threads : Holds(t)
  /\ running # None => pc[running] # "dead"

\* Nobody is left asleep on the three condition variables of the GVL.
\* gvl_release_common signals one waiter, and a thread that did not wait may
\* take the GVL before it: still the GVL is never free while all threads that
\* wait for it sleep.  In gvl_yield, a thread that waits for another to take the
\* GVL has one to wait for, and a thread that waits for the yielding one too.
NoLostWakeup ==
  /\ ~acquired /\ At("cond") # {} => At("cond") \cap awake # {}
  /\ need_yield => At("cond") # {}
  /\ wait_yield <=> At("switch") # {}
  /\ ~need_yield => At("switch") \subseteq awake
  /\ ~wait_yield => At("switch_wait") \subseteq awake

\* An interrupt is not missed: not between the test and the wait of
\* native_sleep, and not between the release of the GVL and the system call of
\* a blocking region, where SIGVTALRM is lost and the timer thread repeats it.
InterruptArrives ==
  \A t \in Threads : Interrupted(t) =>
    /\ pc[t] = "sleeping" => t \in awake
    /\ pc[t] \in {"enter", "syscall"} =>
         t \in ubf /\ (tt = "forever" => normal \/ low)

\* A thread does not keep the GVL while another waits for it: the timer thread
\* is woken by the first waiter and ends the time slice.
TimeSlice ==
  \A t \in Threads : \A u \in Threads \ {t} :
    (pc[t] = "cond" /\ Holds(u)) ~> (pc[t] # "cond" \/ ~Holds(u))

\* An interrupted thread leaves native_sleep and its system call.
InterruptedLeaves ==
  \A t \in Threads :
    (Interrupted(t) /\ pc[t] \in {"sleeping", "enter", "syscall"})
      ~> pc[t] \notin {"sleeping", "enter", "syscall"}

\* A signal is handled by the main thread, whatever the main thread waits for.
SignalHandled == (size > 0) ~> (size = 0)
============================================================================
