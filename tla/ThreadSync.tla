----------------------------- MODULE ThreadSync -----------------------------
(***************************************************************************)
(* Ruby threads and what they wait for: Mutex, ConditionVariable,          *)
(* SizedQueue, join, Thread.stop; wakeup, raise, kill, the end of threads  *)
(* and of the process, and the detection of deadlocks.                     *)
(* thread_sync.c, thread.c, eval.c.                                        *)
(*                                                                         *)
(* An action is what a thread does with the GVL until it gives it up or    *)
(* checks interrupts, where it may have to yield.  Without the GVL run     *)
(* native_sleep ("asleep") and lock_func ("lock_func").                    *)
(***************************************************************************)
EXTENDS Integers, Sequences, FiniteSets

CONSTANTS
  Threads, Main,  \* threads; vm->main_thread
  Mutexes, None,
  Items,          \* what is pushed
  MaxLens,        \* values of SizedQueue#max
  MaxInterrupts,  \* bound: Thread#raise, kill, wakeup and spurious wakeups in a behaviour
  Programs        \* sets of operations that programs use

ASSUME SyncAssumption ==
  /\ Main \in Threads /\ None \notin Threads \cup Mutexes
  /\ MaxLens \subseteq Nat \ {0} /\ MaxLens # {} /\ MaxInterrupts \in Nat
  /\ Programs \subseteq SUBSET {"lock", "sleep", "cv", "queue", "max", "clear", "close",
                                "join", "stop", "create", "raise", "kill", "wakeup",
                                "spurious", "exit", "timed", "fork"}

ASSUME ThreadsFinite == IsFiniteSet(Threads)

VARIABLES
  status, living,     \* th->status, vm->living_threads
  pos, op, exc,       \* position, blocking call, exception it is left with
  pend, intr, to_kill,\* th->pending_interrupt_queue, interrupt_flag, to_kill
  sleeper, patrol,    \* vm->sleeper, patrol_thread
  owner, keeping,     \* mutex->th, th->keeping_mutexes
  woken, res,         \* signalled threads of lock_func, and what it returned
  que, max, closed,   \* the SizedQueue
  qwait, pwait,       \* QUEUE_WAITERS, SZQUEUE_WAITERS
  cvwait, join_list,  \* CONDVAR_WAITERS, th->join_list
  interrupts, reports,\* interrupts so far, whether a deadlock was reported
  ops                 \* the operations of the program

mutexVars == <<owner, keeping, woken>>
waitVars  == <<qwait, pwait, cvwait, join_list>>
queVars   == <<que, max, closed>>
vars == <<status, living, pos, op, exc, pend, intr, to_kill, sleeper, patrol, mutexVars, res,
          queVars, waitVars, interrupts, reports, ops>>

Free == [kind |-> "none", arg |-> None, forever |-> TRUE]
Kinds == {"none", "lock", "sleep", "cv", "pop", "push", "join", "stop"}
Calls == [kind : Kinds, arg : Threads \cup Mutexes \cup {None}, forever : BOOLEAN]
Statuses == {"runnable", "stopped", "stopped_forever", "killed"}
Places == {"unborn", "run", "check_first", "asleep", "check_again", "lock_func", "lock_ret",
           "lock_check", "term_sleep", "done", "dead"}

Init ==
  /\ ops \in Programs
  /\ status = [t \in Threads |-> "runnable"]
  /\ living = IF "create" \in ops THEN {Main} ELSE Threads
  /\ pos = [t \in Threads |-> IF t \in living THEN "run" ELSE "unborn"]
  /\ op = [t \in Threads |-> Free] /\ exc = [t \in Threads |-> "none"]
  /\ pend = [t \in Threads |-> <<>>] /\ intr = [t \in Threads |-> FALSE]
  /\ to_kill = {}
  /\ sleeper = 0 /\ patrol = None
  /\ owner = [m \in Mutexes |-> None] /\ keeping = [t \in Threads |-> {}]
  /\ woken = {} /\ res = [t \in Threads |-> 0]
  /\ que = <<>> /\ max \in (IF "queue" \in ops THEN MaxLens ELSE {CHOOSE n \in MaxLens : TRUE})
  /\ closed = FALSE
  /\ qwait = <<>> /\ pwait = <<>> /\ cvwait = <<>>
  /\ join_list = [t \in Threads |-> {}]
  /\ interrupts = 0 /\ reports = 0

TypeOK ==
  /\ status \in [Threads -> Statuses]
  /\ living \subseteq Threads
  /\ pos \in [Threads -> Places] /\ op \in [Threads -> Calls]
  /\ exc \in [Threads -> {"none", "raise", "kill"}]
  /\ pend \in [Threads -> Seq({"raise", "kill"})]
  /\ intr \in [Threads -> BOOLEAN] /\ to_kill \subseteq Threads
  /\ sleeper \in Int /\ patrol \in Threads \cup {None}
  /\ owner \in [Mutexes -> Threads \cup {None}]
  /\ keeping \in [Threads -> SUBSET Mutexes]
  /\ woken \subseteq Threads /\ res \in [Threads -> 0 .. 2]
  /\ que \in Seq(Items) /\ max \in MaxLens /\ closed \in BOOLEAN
  /\ qwait \in Seq(Threads) /\ pwait \in Seq(Threads) /\ cvwait \in Seq(Threads)
  /\ join_list \in [Threads -> SUBSET Threads]
  /\ interrupts \in 0 .. MaxInterrupts /\ reports \in {0, 1} /\ ops \in Programs

Stopped == {"stopped", "stopped_forever"}

\* The threads in lock_func of m wait on mutex->cond (mutex->cond_waiting).
Waiters(m) == {t \in Threads : pos[t] = "lock_func" /\ op[t].arg = m}

----------------------------------------------------------------------------
(* Interrupts: what waking the threads S does to intr, status and woken *)

\* rb_threadptr_interrupt: the flag, and the ubf; lock_interrupt broadcasts.
Flagged(S) == [t \in Threads |-> intr[t] \/ t \in S]
Broadcast(S, w) ==
  w \cup UNION {Waiters(op[t].arg) : t \in {u \in S : pos[u] \in {"lock_func", "lock_ret"}}}

\* for a mutant: the flag alone
Ready_flag(S, st) == st

\* rb_thread_wakeup_alive also makes a stopped thread runnable.
Ready(S, st) ==
  [t \in Threads |-> IF t \in S /\ st[t] \in Stopped THEN "runnable" ELSE st[t]]

\* wakeup_first_thread: the first thread of the list that is alive, if there is
\* one; it and those before it leave the list.
Alive(list) == {i \in DOMAIN list : status[list[i]] # "killed"}
FirstAlive(list) == CHOOSE i \in Alive(list) : \A j \in Alive(list) : i <= j
FirstThread(list) == IF Alive(list) = {} THEN {} ELSE {list[FirstAlive(list)]}

AfterFirst(list) ==
  IF Alive(list) = {} THEN <<>> ELSE SubSeq(list, FirstAlive(list) + 1, Len(list))

\* wakeup_all_threads
AllThreads(list) == {list[i] : i \in Alive(list)}

\* rb_ary_delete; a thread is on a list once, since it waits for one thing.
Listed(list) == {list[i] : i \in DOMAIN list}
Delete(list, t) ==
  LET k == CHOOSE i \in DOMAIN list : list[i] = t
  IN IF t \in Listed(list)
     THEN [i \in 1 .. Len(list) - 1 |-> list[IF i < k THEN i ELSE i + 1]] ELSE list

\* for a mutant: nobody
Signalled_none(m, w) == {w}

\* native_cond_signal on mutex->cond when m is given up: one of its waiters.
Signalled(m, w) ==
  LET asleep == Waiters(m) \ w
  IN IF asleep = {} THEN {w} ELSE {w \cup {t} : t \in asleep}

----------------------------------------------------------------------------
(* Deadlock detection *)

\* for a mutant: a thread that was told to go on counts as asleep
NoLiveThreads_blind(me, alive, n, st, fl, ow) ==
  /\ Cardinality(alive) <= n
  /\ patrol \in {None, me}
  /\ \A t \in alive :
       /\ st[t] = "stopped_forever"
       /\ t # me /\ pos[t] \in {"lock_func", "lock_ret"} =>
            LET m == op[t].arg IN ow[m] # t /\ (ow[m] = None => Waiters(m) = {})

\* rb_check_deadlock, called by me in the state the arguments describe, finds
\* that no thread of living can go on.
NoLiveThreads(me, alive, n, st, fl, ow) ==
  /\ Cardinality(alive) <= n
  /\ patrol \in {None, me}
  /\ \A t \in alive :
       /\ st[t] = "stopped_forever" /\ ~fl[t]
       /\ t # me /\ pos[t] \in {"lock_func", "lock_ret"} =>
            LET m == op[t].arg IN ow[m] # t /\ (ow[m] = None => Waiters(m) = {})

\* It then takes one from sleeper and raises fatal in the main thread, unless
\* that one is dead.
Report(dead, st, fl, n, w) ==
  /\ sleeper' = IF dead THEN n - 1 ELSE n
  /\ reports' = IF dead THEN 1 ELSE reports
  /\ LET told == dead /\ st[Main] # "killed"
     IN /\ pend' = IF told THEN [pend EXCEPT ![Main] = Append(@, "raise")] ELSE pend
        /\ intr' = IF told THEN [fl EXCEPT ![Main] = TRUE] ELSE fl
        /\ woken' \in (IF told THEN {Broadcast({Main}, v) : v \in w} ELSE w)

----------------------------------------------------------------------------
(* The ends of blocking calls *)

\* The call is over: an exception is rescued, a kill stays with the thread.
Returned(t, e) ==
  /\ pos' = [pos EXCEPT ![t] = "run"]
  /\ op' = [op EXCEPT ![t] = Free]
  /\ exc' = [exc EXCEPT ![t] = IF e = "kill" THEN e ELSE "none"]

\* Sleeps in the call o, from its first check of interrupts.
SleepBegins(t, o) ==
  /\ pos' = [pos EXCEPT ![t] = "check_first"]
  /\ op' = [op EXCEPT ![t] = o]
  /\ UNCHANGED exc

Asleep(o) == IF o.forever THEN "stopped_forever" ELSE "stopped"

\* for a mutant: nobody
Patrol_none(t) == patrol

\* The last thread to wait for a mutex waits with a time limit.
Patrol(t) ==
  IF Cardinality(living) = sleeper + 1 /\ patrol = None THEN t ELSE patrol

\* rb_mutex_lock(m) when the mutex is held: one turn of its loop up to the wait
\* in lock_func, which mutex->lock makes atomic.
LockBegins(t, m, fl) ==
  /\ status' = [status EXCEPT ![t] = "stopped_forever"]
  /\ sleeper' = sleeper + 1
  /\ patrol' = Patrol(t)
  /\ IF owner[m] = None
     THEN /\ owner' = [owner EXCEPT ![m] = t]
          /\ res' = [res EXCEPT ![t] = 0] /\ pos' = [pos EXCEPT ![t] = "lock_ret"]
     ELSE /\ res' = [res EXCEPT ![t] = 1] /\ UNCHANGED owner
          /\ pos' = [pos EXCEPT ![t] = IF fl[t] THEN "lock_ret" ELSE "lock_func"]
  /\ intr' = fl
  /\ UNCHANGED keeping

\* The rest of the call o of t once its mutex is taken, or left by e.
Locked(t, o, e) ==
  /\ Returned(t, e)
  /\ cvwait' = IF o.kind = "cv" THEN Delete(cvwait, t) ELSE cvwait

\* rb_mutex_lock(m), then the rest of the call o, left with e.
rb_mutex_lock(t, o, e, fl) ==
  LET m == o.arg
  IN \/ /\ owner[m] = None
        /\ owner' = [owner EXCEPT ![m] = t]
        /\ keeping' = [keeping EXCEPT ![t] = @ \cup {m}]
        /\ Locked(t, o, e)
        /\ status' = [status EXCEPT ![t] = "runnable"]
        /\ intr' = fl
        /\ UNCHANGED <<sleeper, patrol, woken, res>>
     \/ /\ owner[m] \notin {None, t}
        /\ LockBegins(t, m, fl)
        /\ op' = [op EXCEPT ![t] = o] /\ exc' = [exc EXCEPT ![t] = e]
        /\ UNCHANGED <<cvwait, woken>>

\* queue_do_pop and szqueue_do_pop, from the test of the loop.
queue_do_pop(t, st, fl) ==
  \/ /\ que # <<>>
     /\ que' = Tail(que)
     /\ LET full == Len(que) - 1 >= max
            first == IF full THEN {} ELSE FirstThread(pwait)
        IN /\ pwait' = IF full THEN pwait ELSE AfterFirst(pwait)
           /\ status' = Ready(first, st)
           /\ intr' = [u \in Threads |-> fl[u] \/ u \in first]
           /\ woken' = Broadcast(first, woken)
     /\ qwait' = Delete(qwait, t)
     /\ Returned(t, "none")
  \/ /\ que = <<>> /\ closed
     /\ Returned(t, "none")
     /\ status' = st /\ intr' = fl /\ qwait' = Delete(qwait, t)
     /\ UNCHANGED <<que, pwait, woken>>
  \/ /\ que = <<>> /\ ~closed
     /\ qwait' = Append(Delete(qwait, t), t)
     /\ status' = [st EXCEPT ![t] = "stopped_forever"]
     /\ SleepBegins(t, [Free EXCEPT !.kind = "pop"])
     /\ intr' = fl /\ UNCHANGED <<que, pwait, woken>>

Full == Len(que) >= max

\* rb_szqueue_push and queue_do_push, from the test of the loop.
rb_szqueue_push(t, st, fl) ==
  \/ /\ ~Full /\ ~closed
     /\ \E x \in Items : que' = Append(que, x)
     /\ LET first == FirstThread(qwait)
        IN /\ qwait' = AfterFirst(qwait)
           /\ status' = Ready(first, st)
           /\ intr' = [u \in Threads |-> fl[u] \/ u \in first]
           /\ woken' = Broadcast(first, woken)
     /\ pwait' = Delete(pwait, t)
     /\ Returned(t, "none")
  \/ /\ closed
     /\ Returned(t, "none")
     /\ status' = st /\ intr' = fl /\ pwait' = Delete(pwait, t)
     /\ UNCHANGED <<que, qwait, woken>>
  \/ /\ Full /\ ~closed
     /\ pwait' = Append(Delete(pwait, t), t)
     /\ status' = [st EXCEPT ![t] = "stopped_forever"]
     /\ SleepBegins(t, [Free EXCEPT !.kind = "push"])
     /\ intr' = fl /\ UNCHANGED <<que, qwait, woken>>

----------------------------------------------------------------------------
(* Sleeping *)

\* sleep_forever and sleep_timeval go on to native_sleep while nobody made the
\* thread runnable; the callers in "sleep", "cv" and "join" sleep only once.
StillStopped(t) ==
  /\ status[t] = Asleep(op[t])
  /\ pos[t] = "check_again" => op[t].kind \in {"pop", "push", "stop"}

\* The loop of thread_join_sleep, the limit of which may be over.
JoinOver(t) == status[op[t].arg] = "killed" \/ ~op[t].forever

\* The interrupts are checked and there are none: sleep, or end the call.
native_sleep(t) ==
  /\ pos[t] \in {"check_first", "check_again"} /\ pend[t] = <<>> /\ StillStopped(t)
  /\ LET fl == [intr EXCEPT ![t] = FALSE]
         n  == IF op[t].forever THEN sleeper + 1 ELSE sleeper
     IN Report(op[t].forever /\ NoLiveThreads(t, living, n, status, fl, owner),
               status, fl, n, {woken})
  /\ pos' = [pos EXCEPT ![t] = "asleep"]
  /\ UNCHANGED <<status, living, op, exc, to_kill, patrol, owner, keeping, res, queVars,
                 waitVars, interrupts>>

\* for a mutant: the sleeper is not counted off
Wakes_counted(t) ==
  /\ pos[t] = "asleep"
  /\ \/ (intr[t] \/ ~op[t].forever) /\ UNCHANGED interrupts
     \/ /\ "spurious" \in ops /\ interrupts < MaxInterrupts /\ ~intr[t]
        /\ interrupts' = interrupts + 1
  /\ pos' = [pos EXCEPT ![t] = "check_again"]
  /\ UNCHANGED <<status, living, op, exc, pend, intr, to_kill, sleeper, patrol, mutexVars,
                 res, queVars, waitVars, reports>>

\* An interrupt ends native_sleep; so may a spurious wakeup, and the time.
Wakes(t) ==
  /\ pos[t] = "asleep"
  /\ \/ (intr[t] \/ ~op[t].forever) /\ UNCHANGED interrupts
     \/ /\ "spurious" \in ops /\ interrupts < MaxInterrupts /\ ~intr[t]
        /\ interrupts' = interrupts + 1
  /\ sleeper' = IF op[t].forever THEN sleeper - 1 ELSE sleeper
  /\ pos' = [pos EXCEPT ![t] = "check_again"]
  /\ UNCHANGED <<status, living, op, exc, pend, intr, to_kill, patrol, mutexVars, res,
                 queVars, waitVars, reports>>

\* for a mutant: the node stays
remove_from_join_list_none(t, u) == join_list

remove_from_join_list(t, u) ==
  IF status[u] # "killed" THEN [join_list EXCEPT ![u] = @ \ {t}] ELSE join_list

\* After the sleep: the caller looks at what it waits for.
SleepEnds(t) ==
  /\ pos[t] \in {"check_first", "check_again"} /\ pend[t] = <<>> /\ ~StillStopped(t)
  /\ LET fl == [intr EXCEPT ![t] = FALSE]
         st == [status EXCEPT ![t] = "runnable"]
     IN \/ /\ op[t].kind = "pop" /\ queue_do_pop(t, st, fl)
           /\ UNCHANGED <<sleeper, patrol, owner, keeping, res, cvwait, join_list>>
        \/ /\ op[t].kind = "push" /\ rb_szqueue_push(t, st, fl)
           /\ UNCHANGED <<sleeper, patrol, owner, keeping, res, cvwait, join_list>>
        \/ /\ op[t].kind = "stop" /\ Returned(t, "none")
           /\ status' = st /\ intr' = fl
           /\ UNCHANGED <<sleeper, patrol, mutexVars, res, que, waitVars>>
        \/ /\ op[t].kind = "join" /\ JoinOver(t)
           /\ Returned(t, "none")
           /\ join_list' = remove_from_join_list(t, op[t].arg)
           /\ status' = st /\ intr' = fl
           /\ UNCHANGED <<sleeper, patrol, mutexVars, res, que, qwait, pwait, cvwait>>
        \/ /\ op[t].kind = "join" /\ status[op[t].arg] # "killed"
           /\ SleepBegins(t, op[t])
           /\ status' = [st EXCEPT ![t] = Asleep(op[t])] /\ intr' = fl
           /\ UNCHANGED <<sleeper, patrol, mutexVars, res, que, waitVars>>
        \/ /\ op[t].kind \in {"sleep", "cv"} /\ rb_mutex_lock(t, op[t], "none", fl)
           /\ UNCHANGED <<que, qwait, pwait, join_list>>
  /\ UNCHANGED <<living, pend, to_kill, max, closed, interrupts, reports>>

\* The interrupts are checked and there is one: an exception leaves the call,
\* through the rb_ensure that takes the thread off the list it waits on.
Raised(t) ==
  /\ pos[t] \in {"run", "check_first", "check_again", "lock_check"}
  /\ pend[t] # <<>>
  /\ LET e  == Head(pend[t])
         o  == op[t]
         fl == [intr EXCEPT ![t] = FALSE]
     IN /\ pend' = [pend EXCEPT ![t] = IF e = "kill" THEN <<>> ELSE Tail(@)]
        /\ to_kill' = IF e = "kill" THEN to_kill \cup {t} ELSE to_kill
        /\ qwait' = IF o.kind = "pop" THEN Delete(qwait, t) ELSE qwait
        /\ pwait' = IF o.kind = "push" THEN Delete(pwait, t) ELSE pwait
        /\ join_list' = IF o.kind = "join" THEN remove_from_join_list(t, o.arg)
                        ELSE join_list
        /\ IF o.kind \in {"sleep", "cv"} /\ pos[t] # "lock_check"
           THEN rb_mutex_lock(t, o, e, fl)
           ELSE /\ Locked(t, o, e)
                /\ status' = [status EXCEPT ![t] = "runnable"]
                /\ intr' = fl
                /\ UNCHANGED <<sleeper, patrol, mutexVars, res>>
  /\ UNCHANGED <<living, queVars, interrupts, reports>>

\* RUBY_VM_CHECK_INTS in Ruby code, when there is no exception.
CheckInts(t) ==
  /\ pos[t] = "run" /\ intr[t] /\ pend[t] = <<>>
  /\ intr' = [intr EXCEPT ![t] = FALSE]
  /\ UNCHANGED <<status, living, pos, op, exc, pend, to_kill, sleeper, patrol, mutexVars,
                 res, queVars, waitVars, interrupts, reports>>

----------------------------------------------------------------------------
(* Mutex#lock on a mutex that is held *)

\* lock_func goes round its loop: signalled, or by the time limit of the patrol.
lock_func(t) ==
  /\ pos[t] = "lock_func"
  /\ LET m == op[t].arg
     IN \/ /\ t \in woken \/ patrol = t
           /\ owner[m] = None
           /\ owner' = [owner EXCEPT ![m] = t] /\ res' = [res EXCEPT ![t] = 0]
           /\ pos' = [pos EXCEPT ![t] = "lock_ret"]
        \/ /\ t \in woken \/ patrol = t
           /\ owner[m] # None /\ intr[t]
           /\ res' = [res EXCEPT ![t] = 1]
           /\ pos' = [pos EXCEPT ![t] = "lock_ret"] /\ UNCHANGED owner
        \/ /\ patrol = t
           /\ owner[m] # None /\ ~intr[t]
           /\ res' = [res EXCEPT ![t] = 2]
           /\ pos' = [pos EXCEPT ![t] = "lock_ret"] /\ UNCHANGED owner
        \/ /\ t \in woken /\ owner[m] # None /\ ~intr[t]
           /\ UNCHANGED <<owner, res, pos>>
  /\ woken' = woken \ {t}
  /\ UNCHANGED <<status, living, op, exc, pend, intr, to_kill, sleeper, patrol, keeping,
                 queVars, waitVars, interrupts, reports>>

\* rb_mutex_lock has the GVL again.
LockReturns(t) ==
  /\ pos[t] = "lock_ret"
  /\ patrol' = IF patrol = t THEN None ELSE patrol
  /\ LET m == op[t].arg
     IN /\ Report(owner[m] # None /\ res[t] = 2
                    /\ NoLiveThreads(t, living, sleeper, status, intr, owner),
                  status, intr, sleeper - 1, {woken})
        /\ status' = [status EXCEPT ![t] = "runnable"]
        /\ IF owner[m] = t
           THEN keeping' = [keeping EXCEPT ![t] = @ \cup {m}] /\ Locked(t, op[t], exc[t])
           ELSE /\ pos' = [pos EXCEPT ![t] = "lock_check"]
                /\ UNCHANGED <<keeping, op, exc, cvwait>>
  /\ UNCHANGED <<living, to_kill, owner, res, queVars, qwait, pwait, join_list, interrupts>>

\* After an interrupt, or the patrol: no exception, wait again.
LockAgain(t) ==
  /\ pos[t] = "lock_check" /\ pend[t] = <<>>
  /\ LockBegins(t, op[t].arg, [intr EXCEPT ![t] = FALSE])
  /\ UNCHANGED <<living, op, exc, pend, to_kill, woken, queVars, waitVars, interrupts, reports>>

----------------------------------------------------------------------------
(* What a thread begins in Ruby code *)

Runs(t) == pos[t] = "run" /\ exc[t] # "kill"

\* Mutex#lock; on a mutex of its own it raises and nothing changes.
Lock(t, m) ==
  /\ "lock" \in ops /\ Runs(t)
  /\ rb_mutex_lock(t, [Free EXCEPT !.kind = "lock", !.arg = m], "none", intr)
  /\ UNCHANGED <<living, pend, to_kill, queVars, qwait, pwait, join_list, interrupts,
                 reports>>

\* rb_mutex_unlock_th, when t holds m.
rb_mutex_unlock_th(t, m) ==
  /\ owner[m] = t
  /\ owner' = [owner EXCEPT ![m] = None]
  /\ keeping' = [keeping EXCEPT ![t] = @ \ {m}]
  /\ woken' \in Signalled(m, woken)

\* Mutex#unlock, also in the ensure clause of a thread that is killed.
Unlock(t, m) ==
  /\ pos[t] = "run"
  /\ rb_mutex_unlock_th(t, m)
  /\ UNCHANGED <<status, living, pos, op, exc, pend, intr, to_kill, sleeper, patrol, res,
                 queVars, waitVars, interrupts, reports>>

Forever == IF "timed" \in ops THEN BOOLEAN ELSE {TRUE}

\* rb_mutex_sleep and rb_condvar_wait: on the list, give up the mutex, sleep.
rb_mutex_sleep(t, m) ==
  /\ Runs(t)
  /\ \E k \in ops \cap {"sleep", "cv"}, f \in Forever :
       /\ SleepBegins(t, [kind |-> k, arg |-> m, forever |-> f])
       /\ status' = [status EXCEPT ![t] = IF f THEN "stopped_forever" ELSE "stopped"]
       /\ cvwait' = IF k = "cv" THEN Append(cvwait, t) ELSE cvwait
  /\ rb_mutex_unlock_th(t, m)
  /\ UNCHANGED <<living, pend, intr, to_kill, sleeper, patrol, res, queVars, qwait, pwait,
                 join_list, interrupts, reports>>

\* The calls that only wake threads: S, which leave their list.
WakeUp(S) ==
  /\ status' = Ready(S, status)
  /\ intr' = Flagged(S)
  /\ woken' = Broadcast(S, woken)

\* rb_condvar_signal and rb_condvar_broadcast
CvSignal(t) ==
  /\ "cv" \in ops /\ Runs(t)
  /\ \/ WakeUp(FirstThread(cvwait)) /\ cvwait' = AfterFirst(cvwait)
     \/ WakeUp(AllThreads(cvwait)) /\ cvwait' = <<>>
  /\ UNCHANGED <<living, pos, op, exc, pend, to_kill, sleeper, patrol, owner, keeping, res,
                 queVars, qwait, pwait, join_list, interrupts, reports>>

Queue(t) ==
  /\ "queue" \in ops /\ Runs(t)
  /\ queue_do_pop(t, status, intr) \/ rb_szqueue_push(t, status, intr)
  /\ UNCHANGED <<living, pend, to_kill, sleeper, patrol, owner, keeping, res, max, closed,
                 cvwait, join_list, interrupts, reports>>

\* queue_do_close
queue_do_close(t) ==
  /\ "close" \in ops /\ Runs(t) /\ ~closed
  /\ closed' = TRUE
  /\ WakeUp(AllThreads(qwait) \cup AllThreads(pwait)) /\ qwait' = <<>> /\ pwait' = <<>>
  /\ UNCHANGED <<living, pos, op, exc, pend, to_kill, sleeper, patrol, owner, keeping, res,
                 que, max, cvwait, join_list, interrupts, reports>>

rb_szqueue_clear(t) ==
  /\ "clear" \in ops /\ Runs(t)
  /\ que' = <<>> /\ WakeUp(AllThreads(pwait)) /\ pwait' = <<>>
  /\ UNCHANGED <<living, pos, op, exc, pend, to_kill, sleeper, patrol, owner, keeping, res,
                 max, closed, qwait, cvwait, join_list, interrupts, reports>>

NewMax == MaxLens \ {max}

\* SizedQueue#max=: as many producers as there are new places are woken.
rb_szqueue_max_set(t) ==
  /\ "max" \in ops /\ Runs(t)
  /\ max' \in NewMax
  /\ LET diff == IF max' > max THEN max' - max ELSE 0
         n == IF diff < Len(pwait) THEN diff ELSE Len(pwait)
     IN /\ WakeUp(AllThreads(SubSeq(pwait, 1, n)))
        /\ pwait' = SubSeq(pwait, n + 1, Len(pwait))
  /\ UNCHANGED <<living, pos, op, exc, pend, to_kill, sleeper, patrol, owner, keeping, res,
                 que, closed, qwait, cvwait, join_list, interrupts, reports>>

\* thread_join of a thread that is alive.
thread_join(t, u) ==
  /\ "join" \in ops /\ Runs(t) /\ u \in living \ {t, Main}
  /\ join_list' = [join_list EXCEPT ![u] = @ \cup {t}]
  /\ \E f \in Forever :
       /\ SleepBegins(t, [kind |-> "join", arg |-> u, forever |-> f])
       /\ status' = [status EXCEPT ![t] = IF f THEN "stopped_forever" ELSE "stopped"]
  /\ UNCHANGED <<living, pend, intr, to_kill, sleeper, patrol, mutexVars, res, queVars,
                 qwait, pwait, cvwait, interrupts, reports>>

rb_thread_stop(t) ==
  /\ "stop" \in ops /\ Runs(t) /\ living # {t}
  /\ SleepBegins(t, [Free EXCEPT !.kind = "stop"])
  /\ status' = [status EXCEPT ![t] = "stopped_forever"]
  /\ UNCHANGED <<living, pend, intr, to_kill, sleeper, patrol, mutexVars, res, queVars,
                 waitVars, interrupts, reports>>

----------------------------------------------------------------------------
(* Threads act on threads *)

\* rb_threadptr_raise and rb_thread_kill of another thread; rb_thread_kill of
\* the main thread is MainExits of the caller's own.
Interrupt(t, u) ==
  /\ Runs(t) /\ u \in living \ {t} /\ status[u] # "killed" /\ interrupts < MaxInterrupts
  /\ \E e \in ops \cap {"raise", "kill"} :
       /\ e = "kill" => u # Main /\ u \notin to_kill
       /\ pend' = [pend EXCEPT ![u] = Append(@, e)]
  /\ intr' = Flagged({u})
  /\ woken' = Broadcast({u}, woken)
  /\ interrupts' = interrupts + 1
  /\ UNCHANGED <<status, living, pos, op, exc, to_kill, sleeper, patrol, owner, keeping, res,
                 queVars, waitVars, reports>>

rb_thread_wakeup(t, u) ==
  /\ "wakeup" \in ops /\ Runs(t) /\ u \in living \ {t} /\ status[u] # "killed"
  /\ interrupts < MaxInterrupts /\ interrupts' = interrupts + 1
  /\ WakeUp({u})
  /\ UNCHANGED <<living, pos, op, exc, pend, to_kill, sleeper, patrol, owner, keeping, res,
                 queVars, waitVars, reports>>

thread_create_core(t, u) ==
  /\ Runs(t) /\ pos[u] = "unborn" /\ status[Main] # "killed"
  /\ living' = living \cup {u}
  /\ pos' = [pos EXCEPT ![u] = "run"]
  /\ UNCHANGED <<status, op, exc, pend, intr, to_kill, sleeper, patrol, mutexVars, res,
                 queVars, waitVars, interrupts, reports>>

\* for a mutant: the mutexes stay with the thread
UnlockAll_none(t) == owner

\* rb_threadptr_unlock_all_locking_mutexes: one waiter of each mutex is woken.
UnlockAll(t) == [m \in Mutexes |-> IF m \in keeping[t] THEN None ELSE owner[m]]
SignalledAll(t, w) ==
  {v \in SUBSET Threads :
     /\ w \subseteq v
     /\ \A u \in v \ w : \E m \in keeping[t] : u \in Waiters(m)
     /\ \A m \in keeping[t] : \E x \in Signalled(m, w) : v \cap Waiters(m) = x \cap Waiters(m)}

\* When only the main thread is left, and it ends the process, it is told.
LastTells(alive) ==
  IF status[Main] = "killed" /\ alive = {Main} THEN {Main} ELSE {}

\* The end of thread_start_func_2.
thread_start_func_2(t) ==
  /\ pos[t] = "run" /\ t # Main
  /\ LET st == Ready(join_list[t], [status EXCEPT ![t] = "killed"])
         alive == living \ {t}
         told == join_list[t] \cup LastTells(alive)
         fl == Flagged(told)
     IN /\ status' = st
        /\ living' = alive
        /\ owner' = UnlockAll(t)
        /\ Report(NoLiveThreads(t, alive, sleeper, st, fl, UnlockAll(t)), st, fl, sleeper,
                  SignalledAll(t, Broadcast(told, woken)))
  /\ keeping' = [keeping EXCEPT ![t] = {}]
  /\ pos' = [pos EXCEPT ![t] = "dead"]
  /\ UNCHANGED <<op, exc, to_kill, patrol, res, queVars, waitVars, interrupts>>

\* for a mutant: the threads are not interrupted
terminate_all_quiet(p) ==
  /\ pend' = [t \in Threads |-> IF t = Main THEN p
                                ELSE IF t \in living THEN Append(pend[t], "kill") ELSE pend[t]]
  /\ intr' = [t \in Threads |-> t # Main /\ intr[t]]

\* terminate_all: the others are to be killed; fl, w are intr and woken so far.
terminate_all(p) ==
  /\ pend' = [t \in Threads |-> IF t = Main THEN p
                                ELSE IF t \in living THEN Append(pend[t], "kill") ELSE pend[t]]
  /\ intr' = [t \in Threads |-> t # Main /\ (intr[t] \/ t \in living)]

\* ruby_cleanup and rb_thread_terminate_all in the main thread: it checks
\* interrupts, counts as killed, gives up its mutexes and waits for the others.
MainExits ==
  /\ "exit" \in ops /\ Runs(Main)
  /\ status' = [status EXCEPT ![Main] = "killed"]
  /\ owner' = UnlockAll(Main) /\ keeping' = [keeping EXCEPT ![Main] = {}]
  /\ terminate_all(IF pend[Main] = <<>> THEN <<>> ELSE Tail(pend[Main]))
  /\ woken' \in SignalledAll(Main, Broadcast(living \ {Main}, woken))
  /\ pos' = [pos EXCEPT ![Main] = IF living = {Main} THEN "done" ELSE "term_sleep"]
  /\ UNCHANGED <<living, op, exc, to_kill, sleeper, patrol, res, queVars, waitVars, interrupts,
                 reports>>

\* Woken, the main thread looks again; an exception makes it repeat the kills.
TermWakes ==
  /\ pos[Main] = "term_sleep" /\ intr[Main]
  /\ IF pend[Main] = <<>>
     THEN intr' = [intr EXCEPT ![Main] = FALSE] /\ UNCHANGED <<pend, woken>>
     ELSE terminate_all(Tail(pend[Main])) /\ woken' = Broadcast(living \ {Main}, woken)
  /\ pos' = [pos EXCEPT ![Main] = IF living = {Main} THEN "done" ELSE "term_sleep"]
  /\ UNCHANGED <<status, living, op, exc, to_kill, sleeper, patrol, owner, keeping, res,
                 queVars, waitVars, interrupts, reports>>

\* rb_thread_atfork in a child the main thread forks: only that thread is left.
rb_thread_atfork ==
  /\ "fork" \in ops /\ Runs(Main) /\ living # {Main}
  /\ LET gone == living \ {Main}
     IN /\ status' = [t \in Threads |-> IF t \in gone THEN "killed" ELSE status[t]]
        /\ pos' = [t \in Threads |-> IF t \in gone THEN "dead" ELSE pos[t]]
        /\ keeping' = [t \in Threads |-> IF t \in gone THEN {} ELSE keeping[t]]
        /\ owner' = [m \in Mutexes |-> IF owner[m] \in gone THEN None ELSE owner[m]]
  /\ living' = {Main} /\ sleeper' = 0
  /\ join_list' = [join_list EXCEPT ![Main] = {}]
  /\ UNCHANGED <<op, exc, pend, intr, to_kill, patrol, woken, res, queVars, qwait, pwait,
                 cvwait, interrupts, reports>>

----------------------------------------------------------------------------
\* What a thread does of itself once it is in a call, interrupted or killed.
Step(t) ==
  \/ native_sleep(t) \/ ((intr[t] \/ ~op[t].forever) /\ Wakes(t))
  \/ SleepEnds(t) \/ lock_func(t) \/ LockReturns(t) \/ LockAgain(t)
  \/ (exc[t] = "kill" /\ thread_start_func_2(t))

Begins(t) ==
  \/ \E m \in Mutexes : Lock(t, m) \/ Unlock(t, m) \/ rb_mutex_sleep(t, m)
  \/ CvSignal(t) \/ Queue(t) \/ queue_do_close(t) \/ rb_szqueue_clear(t)
  \/ rb_szqueue_max_set(t) \/ rb_thread_stop(t) \/ thread_start_func_2(t)
  \/ \E u \in Threads : \/ thread_join(t, u) \/ Interrupt(t, u) \/ rb_thread_wakeup(t, u)
                        \/ thread_create_core(t, u)

Next ==
  /\ \/ \E t \in Threads : Step(t) \/ Wakes(t) \/ Raised(t) \/ CheckInts(t) \/ Begins(t)
     \/ MainExits \/ TermWakes \/ rb_thread_atfork
  /\ UNCHANGED ops

Spec == Init /\ [][Next]_vars

\* Every thread gets the GVL; Ruby code checks interrupts again and again
\* (strong: it may be in a call each time); the patrol's wait times out.
\* Nothing is assumed of what the program begins.
Fairness ==
  /\ \A t \in Threads : /\ WF_vars(UNCHANGED ops /\ (Step(t) \/ CheckInts(t)))
                        /\ SF_vars(UNCHANGED ops /\ Raised(t))
  /\ WF_vars(UNCHANGED ops /\ TermWakes)

FairSpec == Spec /\ Fairness

----------------------------------------------------------------------------
(* Properties *)

\* mutex->th and th->keeping_mutexes agree, but for a thread that took the mutex
\* in lock_func and has not the GVL yet; no thread ends and keeps a mutex.
OwnerKeeps ==
  \A m \in Mutexes, t \in Threads :
    owner[m] = t <=>
      \/ m \in keeping[t] /\ t \in living
      \/ pos[t] = "lock_ret" /\ op[t].arg = m /\ res[t] = 0

\* A mutex is never free while all its waiters sleep: the thread unlock signals
\* may lose the mutex to a newcomer, be interrupted, killed or end its patrol.
NoLostUnlock ==
  \A m \in Mutexes : owner[m] = None /\ Waiters(m) # {} => Waiters(m) \cap woken # {}

\* A thread that sleeps and was not told is where the one it waits for looks:
\* the waiters of the queue or the condition variable, the join list of a live
\* thread.  The nodes of a join list lie on the stacks of the joining threads:
\* whoever is on the list of a live thread is still in thread_join.
SleepersAreListed ==
  /\ \A t \in living : pos[t] = "asleep" /\ ~intr[t] =>
       /\ op[t].kind = "pop"  => t \in Listed(qwait)
       /\ op[t].kind = "push" => t \in Listed(pwait)
       /\ op[t].kind = "cv" => t \in Listed(cvwait)
       /\ op[t].kind = "join" => op[t].arg \in living /\ t \in join_list[op[t].arg]
  /\ \A u \in living : \A t \in join_list[u] :
       t \in living /\ op[t].kind = "join" /\ op[t].arg = u

\* Nothing that a sleeping consumer or producer waits for is there, unless
\* another one is awake to take it.  It is so until an exception reaches a
\* thread that was woken (of another thread, or the report of a deadlock), which
\* leaves its item to nobody; and rb_szqueue_max_set spends its wakeups on the
\* threads that were on the list before a fork.
QueueServed ==
  ops \cap {"raise", "kill", "exit"} = {} /\ reports = 0 /\ ~ {"max", "fork"} \subseteq ops =>
  LET Sleeping(k) == {t \in living : op[t].kind = k /\ pos[t] = "asleep" /\ ~intr[t]}
      Awake(k) == {t \in living : op[t].kind = k} \ Sleeping(k)
  IN /\ (que # <<>> \/ closed) /\ Sleeping("pop") # {} => Awake("pop") # {}
     /\ (Len(que) < max \/ closed) /\ Sleeping("push") # {} => Awake("push") # {}

\* vm->sleeper counts the threads in sleep_forever and rb_mutex_lock until a
\* deadlock is reported; never more, so that rb_check_deadlock has no rb_bug.
Counted == {t \in living : \/ pos[t] = "asleep" /\ op[t].forever
                           \/ pos[t] \in {"lock_func", "lock_ret"}}
SleepersCounted ==
  /\ sleeper <= Cardinality(Counted)
  /\ reports = 0 => sleeper = Cardinality(Counted)

\* A thread that waits for others: asleep and not told, or in lock_func for a
\* mutex that another thread has.
Blocked(t) ==
  /\ ~intr[t]
  /\ \/ pos[t] = "asleep" /\ op[t].forever
     \/ pos[t] = "lock_func" /\ owner[op[t].arg] # None

\* fatal "No live threads left. Deadlock?" is raised only when no thread can go
\* on: every one but the caller of rb_check_deadlock is blocked.
ReportIsTrue ==
  [][reports' > reports =>
       \E t \in Threads : \A u \in living \ {t} : Blocked(u)]_vars

\* When every thread waits for others, the patrol is on its way to find out.
DeadlockReported ==
  reports = 0 /\ (\A t \in living : Blocked(t)) =>
    patrol \in living

\* The process ends: every thread, whatever it waits for, is woken and killed.
\* (A Thread#raise that a dying thread gets in an ensure clause and rescues
\* outside it replaces the kill: programs without Thread#raise only.)
ExitEnds ==
  (pos[Main] = "term_sleep" /\ "raise" \notin ops) ~> (pos[Main] = "done")
============================================================================
