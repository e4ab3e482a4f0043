------------------------- MODULE ThreadSchedProofs -------------------------
(***************************************************************************)
(* The GVL of ThreadSched, for any number of threads: one thread runs Ruby *)
(* code, no thread is left asleep on a condition variable of the GVL, and  *)
(* no interrupt is missed by a thread that sleeps or makes a system call.  *)
(***************************************************************************)
EXTENDS ThreadSched, FiniteSetTheorems, TLAPS

USE SMTT(30), ZenonT(60)

----------------------------------------------------------------------------
(* The inductive invariant. *)

\* the part of TypeOK the argument needs
Types ==
  /\ running \in Threads \cup {None}
  /\ pc \in [Threads -> Holding \cup Outside]
  /\ after \in [Threads -> {"run", "check", "unreg"}]
  /\ awake \subseteq Threads
  /\ flag \in [Threads -> SUBSET Bits]
  /\ unblock \in [Threads -> {"none", "cond", "select"}]

\* one owner; a thread that has cleared running_thread does not come back
Owner ==
  /\ \A t, u \in Threads : Holds(t) /\ Holds(u) => t = u
  /\ acquired <=> \E t \in Threads : Holds(t)
  /\ \A t \in Threads : pc[t] \in {"exit", "dead"} => running # t

\* gvl.waiting counts the threads at gvl.cond, which gvl_release_common and
\* gvl_yield rely on; one thread at a time is the yielding one
Counted == waiting = Cardinality(At("cond"))

Wakeups ==
  /\ NoLostWakeup
  /\ need_yield => wait_yield
  /\ \A t, u \in At("switch") : t = u

\* a thread in a blocking region, from set_unblock_function on
InRegion(t) == pc[t] \in {"region", "enter", "syscall"}

\* The unblock function is there before the GVL goes, and an interrupt from
\* then on is in the ubf list.  A timer thread that has seen the list empty and
\* is about to sleep, or sleeps, finds its pipe written.
Interrupts ==
  \A t \in Threads :
    /\ pc[t] = "sleeping" => unblock[t] = "cond"
    /\ InRegion(t) => unblock[t] = "select"
    /\ Interrupted(t) =>
         /\ pc[t] = "sleeping" => t \in awake
         /\ InRegion(t) => t \in ubf
         /\ InRegion(t) /\ (tt = "forever" \/ (tt = "read" /\ ~polling)) => normal

SInv == Types /\ Owner /\ Counted /\ Wakeups /\ Interrupts

----------------------------------------------------------------------------
(* Types. *)

LEMMA SignalWakes ==
  ASSUME NEW c, NEW aw \in SUBSET Threads, NEW s \in Signal(c, aw)
  PROVE  /\ s \subseteq Threads /\ aw \subseteq s
         /\ s \subseteq aw \cup At(c)
         /\ At(c) # {} => At(c) \cap s # {}
         /\ (\A t, u \in At(c) : t = u) => At(c) \subseteq s
BY DEF Signal, At

LEMMA KickedKeeps ==
  ASSUME Types, NEW ts
  PROVE  /\ Kicked(ts) \in [Threads -> Holding \cup Outside]
         /\ \A t \in Threads : \/ Kicked(ts)[t] = pc[t]
                               \/ pc[t] = "syscall" /\ Kicked(ts)[t] = "acquire"
BY DEF Types, Kicked, Holding, Outside

ThreadStep(t) ==
  \/ Step(t) \/ Spurious(t) \/ SyscallReturns(t)
  \/ thread_s_pass(t) \/ ThreadEnds(t) \/ native_sleep(t)
  \/ blocking_region_begin(t)
  \/ \E u \in Threads : rb_threadptr_interrupt(u, t)

LEMMA TypesKeep ==
  ASSUME SInv, Next
  PROVE  Types'
<1> USE DEF gvlVars, ttVars, sigVars, Holding, Outside, SInv, Types, At, Bits
<1>1. ASSUME NEW t \in Threads, ThreadStep(t)
      PROVE  Types'
  <2>1. CASE gvl_acquire(t) \/ SwitchDone(t) \/ SwitchWaitDone(t)
    BY <2>1
    DEF gvl_acquire, SwitchDone, SwitchWaitDone, gvl_acquire_common, AcquireWins,
     AcquireLoses
  <2>2. CASE CondAgain(t) \/ YieldAgain(t) \/ Spurious(t)
    BY <2>2
    DEF CondAgain, YieldAgain, Spurious
  <2>3. CASE CondWins(t)
    BY <2>3, SignalWakes
    DEF CondWins
  <2>4. CASE rb_thread_set_current(t) \/ ThreadEnds(t)
    BY <2>4
    DEF rb_thread_set_current, ThreadEnds
  <2>5. CASE ThreadGone(t) \/ RegionRelease(t) \/ native_sleep(t)
    BY <2>5, SignalWakes
    DEF ThreadGone, RegionRelease, native_sleep, gvl_release, gvl_release_common
  <2>6. CASE SleepLock(t) \/ SleepOver(t) \/ blocking_region_begin(t)
    BY <2>6
    DEF SleepLock, SleepOver, blocking_region_begin
  <2>7. CASE SyscallEnters(t) \/ SyscallReturns(t) \/ unregister_ubf_list(t) \/ reset_unblock_function(t)
    BY <2>7
    DEF SyscallEnters, SyscallReturns, unregister_ubf_list, reset_unblock_function
  <2>8. CASE NoInterrupts(t) \/ threadptr_get_interrupts(t) \/ NextSignal(t)
    BY <2>8
    DEF NoInterrupts, threadptr_get_interrupts, NextSignal
  <2>9. CASE ExecuteInterrupts(t) \/ thread_s_pass(t)
    BY <2>9, SignalWakes
    DEF ExecuteInterrupts, thread_s_pass, gvl_yield, gvl_release_common
  <2>10. CASE \E u \in Threads : rb_threadptr_interrupt(u, t)
    BY <2>10, KickedKeeps
    DEF rb_threadptr_interrupt, rb_threadptr_interrupt_common, ubf_select, ubf_pthread_cond_signal
  <2> QED BY <1>1, <2>1, <2>2, <2>3, <2>4, <2>5, <2>6, <2>7, <2>8, <2>9, <2>10, ZenonT(60)
        DEF ThreadStep, Step
<1>2. CASE ubf_wakeup_all_threads
  BY <1>2, KickedKeeps
  DEF ubf_wakeup_all_threads
<1>3. CASE rb_threadptr_check_signal
  BY <1>3, KickedKeeps, ThreadsAssumption
  DEF rb_threadptr_check_signal, rb_threadptr_interrupt_common, ubf_select,
     ubf_pthread_cond_signal
<1>4. CASE TimerInterrupt
  BY <1>4
  DEF TimerInterrupt
<1>5. CASE NeedPolling \/ timer_thread_sleep \/ PollEnds \/ sighandler
  BY <1>5
  DEF NeedPolling, timer_thread_sleep, PollEnds, sighandler
<1> QED BY <1>1, <1>2, <1>3, <1>4, <1>5, ZenonT(60) DEF Next, ThreadStep, TimerThread

\* gvl.waiting tells gvl_release_common whether there is a thread to signal.
LEMMA WaitingCounts ==
  ASSUME Counted
  PROVE  waiting \in Nat /\ (waiting > 0 <=> At("cond") # {})
<1>1. IsFiniteSet(At("cond"))
  BY ThreadsAssumption, FS_Subset DEF At
<1> QED BY <1>1, FS_CardinalityType, FS_EmptySet DEF Counted

LEMMA OwnerKeeps ==
  ASSUME SInv, Next
  PROVE  Owner'
<1> USE DEF gvlVars, ttVars, sigVars, Holding, Outside, SInv, Types, Owner, Holds
<1>1. ASSUME NEW t \in Threads, ThreadStep(t)
      PROVE  Owner'
  <2>1. CASE gvl_acquire(t) \/ SwitchDone(t) \/ SwitchWaitDone(t)
    BY <2>1
    DEF gvl_acquire, SwitchDone, SwitchWaitDone, gvl_acquire_common, AcquireWins,
     AcquireLoses
  <2>2. CASE CondAgain(t) \/ YieldAgain(t) \/ Spurious(t)
    BY <2>2
    DEF CondAgain, YieldAgain, Spurious
  <2>3. CASE CondWins(t)
    BY <2>3, SignalWakes
    DEF CondWins
  <2>4. CASE rb_thread_set_current(t) \/ ThreadEnds(t)
    BY <2>4, ThreadsAssumption
    DEF rb_thread_set_current, ThreadEnds
  <2>5. CASE ThreadGone(t) \/ RegionRelease(t) \/ native_sleep(t)
    BY <2>5, SignalWakes
    DEF ThreadGone, RegionRelease, native_sleep, gvl_release, gvl_release_common
  <2>6. CASE SleepLock(t) \/ SleepOver(t) \/ blocking_region_begin(t)
    BY <2>6
    DEF SleepLock, SleepOver, blocking_region_begin
  <2>7. CASE SyscallEnters(t) \/ SyscallReturns(t) \/ unregister_ubf_list(t) \/ reset_unblock_function(t)
    BY <2>7
    DEF SyscallEnters, SyscallReturns, unregister_ubf_list, reset_unblock_function
  <2>8. CASE NoInterrupts(t) \/ threadptr_get_interrupts(t) \/ NextSignal(t)
    BY <2>8
    DEF NoInterrupts, threadptr_get_interrupts, NextSignal
  <2>9. CASE ExecuteInterrupts(t) \/ thread_s_pass(t)
    BY <2>9, SignalWakes
    DEF ExecuteInterrupts, thread_s_pass, gvl_yield, gvl_release_common
  <2>10. CASE \E u \in Threads : rb_threadptr_interrupt(u, t)
    BY <2>10, KickedKeeps
    DEF rb_threadptr_interrupt, rb_threadptr_interrupt_common, ubf_select, ubf_pthread_cond_signal
  <2> QED BY <1>1, <2>1, <2>2, <2>3, <2>4, <2>5, <2>6, <2>7, <2>8, <2>9, <2>10, ZenonT(60)
        DEF ThreadStep, Step
<1>2. CASE ubf_wakeup_all_threads
  BY <1>2, KickedKeeps
  DEF ubf_wakeup_all_threads
<1>3. CASE rb_threadptr_check_signal
  BY <1>3, KickedKeeps, ThreadsAssumption
  DEF rb_threadptr_check_signal, rb_threadptr_interrupt_common, ubf_select,
     ubf_pthread_cond_signal
<1>4. CASE TimerInterrupt
  BY <1>4
  DEF TimerInterrupt
<1>5. CASE NeedPolling \/ timer_thread_sleep \/ PollEnds \/ sighandler
  BY <1>5
  DEF NeedPolling, timer_thread_sleep, PollEnds, sighandler
<1> QED BY <1>1, <1>2, <1>3, <1>4, <1>5, ZenonT(60) DEF Next, ThreadStep, TimerThread

LEMMA WakeupsKeep ==
  ASSUME SInv, Next
  PROVE  Wakeups'
<1> USE DEF gvlVars, ttVars, sigVars, Holding, Outside, SInv, Types, Wakeups, NoLostWakeup, At
<1>1. ASSUME NEW t \in Threads, ThreadStep(t)
      PROVE  Wakeups'
  <2>1. CASE gvl_acquire(t) \/ SwitchDone(t) \/ SwitchWaitDone(t)
    BY <2>1
    DEF gvl_acquire, SwitchDone, SwitchWaitDone, gvl_acquire_common, AcquireWins,
     AcquireLoses
  <2>2. CASE CondAgain(t) \/ YieldAgain(t) \/ Spurious(t)
    BY <2>2
    DEF CondAgain, YieldAgain, Spurious
  <2>3. CASE CondWins(t)
    BY <2>3, SignalWakes
    DEF CondWins
  <2>4. CASE rb_thread_set_current(t) \/ ThreadEnds(t)
    BY <2>4
    DEF rb_thread_set_current, ThreadEnds
  <2>5. CASE ThreadGone(t) \/ RegionRelease(t) \/ native_sleep(t)
    BY <2>5, SignalWakes, WaitingCounts
    DEF ThreadGone, RegionRelease, native_sleep, gvl_release, gvl_release_common
  <2>6. CASE SleepLock(t) \/ SleepOver(t) \/ blocking_region_begin(t)
    BY <2>6
    DEF SleepLock, SleepOver, blocking_region_begin
  <2>7. CASE SyscallEnters(t) \/ SyscallReturns(t) \/ unregister_ubf_list(t) \/ reset_unblock_function(t)
    BY <2>7
    DEF SyscallEnters, SyscallReturns, unregister_ubf_list, reset_unblock_function
  <2>8. CASE NoInterrupts(t) \/ threadptr_get_interrupts(t) \/ NextSignal(t)
    BY <2>8
    DEF NoInterrupts, threadptr_get_interrupts, NextSignal
  <2>9. CASE ExecuteInterrupts(t) \/ thread_s_pass(t)
    BY <2>9, SignalWakes, WaitingCounts
    DEF ExecuteInterrupts, thread_s_pass, gvl_yield, gvl_release_common
  <2>10. CASE \E u \in Threads : rb_threadptr_interrupt(u, t)
    BY <2>10, KickedKeeps
    DEF rb_threadptr_interrupt, rb_threadptr_interrupt_common, ubf_select, ubf_pthread_cond_signal
  <2> QED BY <1>1, <2>1, <2>2, <2>3, <2>4, <2>5, <2>6, <2>7, <2>8, <2>9, <2>10, ZenonT(60)
        DEF ThreadStep, Step
<1>2. CASE ubf_wakeup_all_threads
  BY <1>2, KickedKeeps
  DEF ubf_wakeup_all_threads
<1>3. CASE rb_threadptr_check_signal
  BY <1>3, KickedKeeps, ThreadsAssumption
  DEF rb_threadptr_check_signal, rb_threadptr_interrupt_common, ubf_select,
     ubf_pthread_cond_signal
<1>4. CASE TimerInterrupt
  BY <1>4, ZenonT(60)
  DEF TimerInterrupt
<1>5. CASE NeedPolling \/ timer_thread_sleep \/ PollEnds \/ sighandler
  BY <1>5
  DEF NeedPolling, timer_thread_sleep, PollEnds, sighandler
<1> QED BY <1>1, <1>2, <1>3, <1>4, <1>5 DEF Next, ThreadStep, TimerThread

\* The threads at gvl.cond stay, or one of them comes or goes, and is counted.
CondStep ==
  \/ At("cond")' = At("cond") /\ waiting' = waiting
  \/ \E u \in Threads : /\ u \notin At("cond")
                        /\ At("cond")' = At("cond") \cup {u} /\ waiting' = waiting + 1
  \/ \E u \in Threads : /\ u \in At("cond")
                        /\ At("cond")' = At("cond") \ {u} /\ waiting' = waiting - 1

LEMMA CondSteps ==
  ASSUME SInv, Next
  PROVE  CondStep
<1> USE DEF gvlVars, ttVars, sigVars, Holding, Outside, SInv, Types, At, CondStep
<1>1. ASSUME NEW t \in Threads, ThreadStep(t)
      PROVE  CondStep
  <2>1. CASE gvl_acquire(t) \/ SwitchDone(t) \/ SwitchWaitDone(t)
    BY <2>1
    DEF gvl_acquire, SwitchDone, SwitchWaitDone, gvl_acquire_common, AcquireWins,
     AcquireLoses
  <2>2. CASE CondAgain(t) \/ YieldAgain(t) \/ Spurious(t)
    BY <2>2
    DEF CondAgain, YieldAgain, Spurious
  <2>3. CASE CondWins(t)
    BY <2>3, SignalWakes
    DEF CondWins
  <2>4. CASE rb_thread_set_current(t) \/ ThreadEnds(t)
    BY <2>4, ZenonT(60)
    DEF rb_thread_set_current, ThreadEnds
  <2>5. CASE ThreadGone(t) \/ RegionRelease(t) \/ native_sleep(t)
    BY <2>5, SignalWakes
    DEF ThreadGone, RegionRelease, native_sleep, gvl_release, gvl_release_common
  <2>6. CASE SleepLock(t) \/ SleepOver(t) \/ blocking_region_begin(t)
    BY <2>6, ZenonT(60)
    DEF SleepLock, SleepOver, blocking_region_begin
  <2>7. CASE SyscallEnters(t) \/ SyscallReturns(t) \/ unregister_ubf_list(t) \/ reset_unblock_function(t)
    BY <2>7, ZenonT(60)
    DEF SyscallEnters, SyscallReturns, unregister_ubf_list, reset_unblock_function
  <2>8. CASE NoInterrupts(t) \/ threadptr_get_interrupts(t) \/ NextSignal(t)
    BY <2>8, ZenonT(60)
    DEF NoInterrupts, threadptr_get_interrupts, NextSignal
  <2>9. CASE ExecuteInterrupts(t) \/ thread_s_pass(t)
    BY <2>9, SignalWakes
    DEF ExecuteInterrupts, thread_s_pass, gvl_yield, gvl_release_common
  <2>10. CASE \E u \in Threads : rb_threadptr_interrupt(u, t)
    BY <2>10, KickedKeeps
    DEF rb_threadptr_interrupt, rb_threadptr_interrupt_common, ubf_select, ubf_pthread_cond_signal
  <2> QED BY <1>1, <2>1, <2>2, <2>3, <2>4, <2>5, <2>6, <2>7, <2>8, <2>9, <2>10, ZenonT(60)
        DEF ThreadStep, Step
<1>2. CASE ubf_wakeup_all_threads
  BY <1>2, KickedKeeps, ZenonT(60)
  DEF ubf_wakeup_all_threads
<1>3. CASE rb_threadptr_check_signal
  BY <1>3, KickedKeeps, ThreadsAssumption
  DEF rb_threadptr_check_signal, rb_threadptr_interrupt_common, ubf_select,
     ubf_pthread_cond_signal
<1>4. CASE TimerInterrupt
  BY <1>4, ZenonT(60)
  DEF TimerInterrupt
<1>5. CASE NeedPolling \/ timer_thread_sleep \/ PollEnds \/ sighandler
  BY <1>5
  DEF NeedPolling, timer_thread_sleep, PollEnds, sighandler
<1> QED BY <1>1, <1>2, <1>3, <1>4, <1>5 DEF Next, ThreadStep, TimerThread

LEMMA CountedKeeps ==
  ASSUME SInv, Next
  PROVE  Counted'
<1>1. IsFiniteSet(At("cond")) /\ Cardinality(At("cond")) \in Nat
  BY ThreadsAssumption, FS_Subset, FS_CardinalityType DEF At
<1>2. waiting = Cardinality(At("cond"))
  BY DEF SInv, Counted
<1>3. CASE At("cond")' = At("cond") /\ waiting' = waiting
  BY <1>2, <1>3 DEF Counted
<1>4. ASSUME NEW u \in Threads, u \notin At("cond"),
             At("cond")' = At("cond") \cup {u}, waiting' = waiting + 1
      PROVE  Counted'
  BY <1>1, <1>2, <1>4, FS_AddElement DEF Counted
<1>5. ASSUME NEW u \in Threads, u \in At("cond"),
             At("cond")' = At("cond") \ {u}, waiting' = waiting - 1
      PROVE  Counted'
  BY <1>1, <1>2, <1>5, FS_RemoveElement DEF Counted
<1> QED BY <1>3, <1>4, <1>5, CondSteps DEF CondStep

LEMMA InterruptsKeep ==
  ASSUME SInv, Next
  PROVE  Interrupts'
<1> USE DEF gvlVars, ttVars, sigVars, Holding, Outside, SInv, Types, Interrupts, InRegion, Interrupted, Bits
<1>1. ASSUME NEW t \in Threads, ThreadStep(t)
      PROVE  Interrupts'
  <2>1. CASE gvl_acquire(t) \/ SwitchDone(t) \/ SwitchWaitDone(t)
    BY <2>1
    DEF gvl_acquire, SwitchDone, SwitchWaitDone, gvl_acquire_common, AcquireWins,
     AcquireLoses
  <2>2. CASE CondAgain(t) \/ YieldAgain(t) \/ Spurious(t)
    BY <2>2
    DEF CondAgain, YieldAgain, Spurious
  <2>3. CASE CondWins(t)
    BY <2>3, SignalWakes
    DEF CondWins
  <2>4. CASE rb_thread_set_current(t) \/ ThreadEnds(t)
    BY <2>4
    DEF rb_thread_set_current, ThreadEnds
  <2>5. CASE ThreadGone(t) \/ RegionRelease(t) \/ native_sleep(t)
    BY <2>5, SignalWakes
    DEF ThreadGone, RegionRelease, native_sleep, gvl_release, gvl_release_common
  <2>6. CASE SleepLock(t) \/ SleepOver(t) \/ blocking_region_begin(t)
    BY <2>6
    DEF SleepLock, SleepOver, blocking_region_begin
  <2>7. CASE SyscallEnters(t) \/ SyscallReturns(t) \/ unregister_ubf_list(t) \/ reset_unblock_function(t)
    BY <2>7
    DEF SyscallEnters, SyscallReturns, unregister_ubf_list, reset_unblock_function
  <2>8. CASE NoInterrupts(t) \/ threadptr_get_interrupts(t) \/ NextSignal(t)
    BY <2>8
    DEF NoInterrupts, threadptr_get_interrupts, NextSignal
  <2>9. CASE ExecuteInterrupts(t) \/ thread_s_pass(t)
    BY <2>9, SignalWakes
    DEF ExecuteInterrupts, thread_s_pass, gvl_yield, gvl_release_common
  <2>10. CASE \E u \in Threads : rb_threadptr_interrupt(u, t)
    <3>1. PICK u \in Threads : rb_threadptr_interrupt(u, t)
      BY <2>10
    <3>2. CASE unblock[t] = "cond" /\ ubf_pthread_cond_signal(t)
      BY <3>1, <3>2 DEF rb_threadptr_interrupt, rb_threadptr_interrupt_common, ubf_pthread_cond_signal
    <3>3. CASE unblock[t] = "select" /\ ubf_select(t, FALSE)
      <4>1. normal'
        BY <3>3, ZenonT(60) DEF ubf_select
      <4>2. ubf' = ubf \cup {t} /\ awake' = awake /\ pc' = Kicked({t})
        BY <3>3 DEF ubf_select
      <4>3. flag' = [flag EXCEPT ![t] = @ \cup {"pending"}] /\ UNCHANGED <<unblock, tt, polling>>
        BY <3>1 DEF rb_threadptr_interrupt, rb_threadptr_interrupt_common
      <4> QED BY <3>3, <4>1, <4>2, <4>3, KickedKeeps
    <3>4. CASE unblock[t] = "none" /\ UNCHANGED <<awake, ubf, normal, pc>>
      BY <3>1, <3>4, ZenonT(60) DEF rb_threadptr_interrupt, rb_threadptr_interrupt_common
    <3> QED BY <3>1, <3>2, <3>3, <3>4, ZenonT(60) DEF rb_threadptr_interrupt, rb_threadptr_interrupt_common
  <2> QED BY <1>1, <2>1, <2>2, <2>3, <2>4, <2>5, <2>6, <2>7, <2>8, <2>9, <2>10, ZenonT(60)
        DEF ThreadStep, Step
<1>2. CASE ubf_wakeup_all_threads
  BY <1>2, KickedKeeps, ZenonT(60)
  DEF ubf_wakeup_all_threads
<1>3. CASE rb_threadptr_check_signal
  BY <1>3, KickedKeeps, ThreadsAssumption
  DEF rb_threadptr_check_signal, rb_threadptr_interrupt_common, ubf_select,
     ubf_pthread_cond_signal
<1>4. CASE TimerInterrupt
  BY <1>4
  DEF TimerInterrupt
<1>5. CASE NeedPolling
  <2>1. polling' \/ ubf = {}
    BY <1>5, ZenonT(60) DEF NeedPolling
  <2> QED BY <1>5, <2>1 DEF NeedPolling
<1>6. CASE timer_thread_sleep
  BY <1>6 DEF timer_thread_sleep
<1>7. CASE PollEnds
  BY <1>7 DEF PollEnds
<1>8. CASE sighandler
  BY <1>8 DEF sighandler, rb_thread_wakeup_timer_thread
<1> QED BY <1>1, <1>2, <1>3, <1>4, <1>5, <1>6, <1>7, <1>8, ZenonT(60) DEF Next, ThreadStep, TimerThread

----------------------------------------------------------------------------
(* The theorems. *)

LEMMA InitHolds ==
  ASSUME Init
  PROVE  SInv
<1> USE ThreadsAssumption DEF Init
<1>1. Types
  BY DEF Types, Holding, Outside
<1>2. Owner
  BY DEF Owner, Holds, Holding
<1>3. At("cond") = {} /\ At("switch") = {} /\ At("switch_wait") = {}
  BY DEF At
<1>4. Counted
  BY <1>3, FS_EmptySet, ZenonT(60) DEF Counted
<1>5. Wakeups
  BY <1>3 DEF Wakeups, NoLostWakeup
<1>6. Interrupts
  BY DEF Interrupts, InRegion, Interrupted
<1> QED BY <1>1, <1>2, <1>4, <1>5, <1>6 DEF SInv

LEMMA StutterKeeps ==
  ASSUME SInv, UNCHANGED vars
  PROVE  SInv'
<1> USE DEF vars, gvlVars, ttVars, SInv
<1>1. Types' /\ Owner' /\ Interrupts'
  BY DEF Types, Owner, Holds, Interrupts, InRegion, Interrupted
<1>2. \A c : At(c)' = At(c)
  BY DEF At
<1>3. Counted' /\ Wakeups'
  BY <1>2 DEF Counted, Wakeups, NoLostWakeup
<1> QED BY <1>1, <1>3, ZenonT(60)

\* The invariant is inductive.
THEOREM Invariance == Spec => []SInv
<1>1. Init => SInv
  BY InitHolds
<1>2. SInv /\ [Next]_vars => SInv'
  BY TypesKeep, OwnerKeeps, CountedKeeps, WakeupsKeep, InterruptsKeep, StutterKeeps DEF SInv
<1> QED BY <1>1, <1>2, PTL DEF Spec

\* Mutual exclusion of the GVL, for any number of threads: through
\* gvl_acquire_common, gvl_yield, sleeps and blocking regions one thread runs
\* Ruby code, gvl.acquired is true exactly then, and vm->running_thread is not
\* a thread that is gone.
THEOREM GvlExcludes == Spec => []OneRuns
<1>1. SInv => OneRuns
  BY DEF SInv, Types, Owner, OneRuns
<1> QED BY <1>1, Invariance, PTL

\* The one native_cond_signal of gvl_release_common, and the handshake of
\* gvl_yield with need_yield and wait_yield, wake enough threads: the GVL is
\* never free while all who wait for it sleep, however many they are.
THEOREM NobodySleepsOn == Spec => []NoLostWakeup
<1>1. SInv => NoLostWakeup
  BY ZenonT(60) DEF SInv, Wakeups
<1> QED BY <1>1, Invariance, PTL

\* An interrupt reaches a thread between the test and the wait of native_sleep,
\* and between blocking_region_begin and its system call: the thread is woken,
\* or it is in the ubf list and the timer thread does not sleep.
THEOREM NoInterruptIsMissed == Spec => []InterruptArrives
<1>1. SInv => InterruptArrives
  BY DEF SInv, Interrupts, InRegion, InterruptArrives
<1> QED BY <1>1, Invariance, PTL
============================================================================
