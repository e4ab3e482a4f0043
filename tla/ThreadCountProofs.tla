-------------------------- MODULE ThreadCountProofs -------------------------
(***************************************************************************)
(* Theorems about ThreadSync that count threads, for any number of them.   *)
(* Deadlock detection: vm->sleeper counts the threads that sleep for ever  *)
(* or wait for a mutex, what rb_check_deadlock reports is true, and a      *)
(* deadlock is not missed.  The queue: there are as many threads awake as  *)
(* there are items (or free places) that sleeping ones wait for.           *)
(***************************************************************************)
EXTENDS ThreadSyncProofs, FiniteSetTheorems

USE ZenonT(60)

\* When every thread waits for others and it was not reported, the patrol is set.
PatrolSet ==
  reports = 0 /\ (\A t \in living : Blocked(t)) => patrol # None

CountInv == SleepersCounted /\ PatrolSet

Moves(t) ==
  \A u \in Threads \ {t} : pos'[u] = pos[u] /\ op'[u] = op[u] /\ (u \in living' <=> u \in living)

Out == {"unborn", "run", "check_first", "check_again", "lock_check", "term_sleep", "done", "dead"}

LEMMA CountedFinite ==
  ASSUME TypeOK
  PROVE  /\ IsFiniteSet(Counted) /\ Cardinality(Counted) \in Nat
         /\ IsFiniteSet(living) /\ Cardinality(living) \in Nat
         /\ Counted \subseteq living /\ living \subseteq Threads
<1>1. living \in SUBSET Threads /\ Counted \in SUBSET Threads /\ Counted \subseteq living
  BY CallTypes DEF Counted
<1> QED BY <1>1, ThreadsFinite, FS_Subset, FS_CardinalityType

----------------------------------------------------------------------------
(* The threads that count *)

LEMMA InitCount == Init => CountInv
<1> SUFFICES ASSUME Init PROVE CountInv
  OBVIOUS
<1>1. Main \in living /\ \A t \in living : pos[t] = "run"
  BY SyncAssumption DEF Init
<1>2. Counted = {} /\ ~Blocked(Main)
  BY <1>1 DEF Counted, Blocked
<1>3. Cardinality(Counted) = 0
  BY <1>2, FS_EmptySet
<1>4. SleepersCounted /\ PatrolSet
  BY <1>1, <1>2, <1>3, SMTT(30) DEF Init, SleepersCounted, PatrolSet
<1> QED BY <1>4 DEF CountInv

LEMMA NextCount == SyncInv /\ CountInv /\ SyncInv' /\ [Next]_vars => CountInv'
\* What one thread's step does to the threads that count.
<1>CountStays.
      ASSUME SyncInv, SyncInv', NEW t \in Threads, Moves(t), t \in Counted <=> t \in Counted'
      PROVE  Counted' = Counted
  <2> USE <1>CountStays
  <2>1. living \subseteq Threads /\ living' \subseteq Threads
    BY DEF SyncInv, TypeOK
  <2>2. \A u \in Threads \ {t} : u \in Counted' <=> u \in Counted
    BY DEF Counted, Moves
  <2> QED BY <2>1, <2>2 DEF Counted
<1>CountEnters.
      ASSUME SyncInv, SyncInv', NEW t \in Threads, Moves(t), t \notin Counted, t \in Counted'
      PROVE  /\ Counted' = Counted \cup {t}
             /\ Cardinality(Counted') = Cardinality(Counted) + 1
  <2> USE <1>CountEnters
  <2>1. living \subseteq Threads /\ living' \subseteq Threads
    BY DEF SyncInv, TypeOK
  <2>2. \A u \in Threads \ {t} : u \in Counted' <=> u \in Counted
    BY DEF Counted, Moves
  <2>3. Counted' = Counted \cup {t}
    BY <2>1, <2>2 DEF Counted
  <2> QED BY <2>3, CountedFinite, FS_AddElement DEF SyncInv
<1>CountLeaves.
      ASSUME SyncInv, SyncInv', NEW t \in Threads, Moves(t), t \in Counted, t \notin Counted'
      PROVE  /\ Counted' = Counted \ {t}
             /\ Cardinality(Counted') = Cardinality(Counted) - 1
  <2> USE <1>CountLeaves
  <2>1. living \subseteq Threads /\ living' \subseteq Threads
    BY DEF SyncInv, TypeOK
  <2>2. \A u \in Threads \ {t} : u \in Counted' <=> u \in Counted
    BY DEF Counted, Moves
  <2>3. Counted' = Counted \ {t}
    BY <2>1, <2>2 DEF Counted
  <2> QED BY <2>3, CountedFinite, FS_RemoveElement DEF SyncInv
\* A step of a thread that is awake and stays so.
<1>QuietCounts.
      ASSUME SyncInv, CountInv, SyncInv', NEW t \in Threads, Moves(t), pos[t] \in Out,
             pos'[t] \in Out \ {"unborn", "dead"}, UNCHANGED <<sleeper, reports>>
      PROVE  CountInv'
  <2> USE <1>QuietCounts
  <2>1. t \notin Counted /\ t \notin Counted'
    BY DEF Counted, Out
  <2>2. Counted' = Counted
    BY <2>1, <1>CountStays
  <2>3. t \in living' /\ ~Blocked(t)'
    BY DEF SyncInv, ThreadOK, Place, Blocked, Out
  <2>4. SleepersCounted'
    BY <2>2 DEF CountInv, SleepersCounted
  <2>5. PatrolSet'
    BY <2>3 DEF PatrolSet
  <2> QED BY <2>4, <2>5 DEF CountInv
\* The same, when it only acts on others.
<1>ActsCounts.
      ASSUME SyncInv, CountInv, SyncInv', NEW t \in Threads, pos[t] = "run",
             UNCHANGED <<pos, op, living, sleeper, reports>>
      PROVE  CountInv'
  <2> USE <1>ActsCounts
  <2>1. Moves(t)
    BY DEF Moves
  <2> QED BY <2>1, <1>QuietCounts DEF Out
\* The same, when it begins a call in which it sleeps, or returns from it.
<1>CallCounts.
      ASSUME SyncInv, CountInv, SyncInv', NEW t \in Threads, pos[t] \in Out,
             UNCHANGED <<living, sleeper, reports>>,
             (\E e : Returned(t, e)) \/ (\E o : SleepBegins(t, o))
      PROVE  CountInv'
  <2> USE <1>CallCounts
  <2>1. pos \in [Threads -> Places] /\ op \in [Threads -> Calls]
    BY CallTypes DEF SyncInv
  <2>2. \E o : \E p \in {"run", "check_first"} : pos' = [pos EXCEPT ![t] = p] /\ op' = [op EXCEPT ![t] = o]
    BY DEF Returned, SleepBegins
  <2>3. pos'[t] \in {"run", "check_first"} /\ Moves(t)
    BY <2>1, <2>2 DEF Moves
  <2> QED BY <2>3, <1>QuietCounts DEF Out
<1>BlockedThreads.
      ASSUME SyncInv', \A u \in living' : Blocked(u)'
      PROVE  /\ Counted' = living' /\ Cardinality(living') \in Nat
             /\ \A u \in living' :
                  /\ status'[u] = "stopped_forever" /\ ~intr'[u] /\ pos'[u] \in {"asleep", "lock_func"}
                  /\ pos'[u] = "lock_func" => owner'[op'[u].arg] \notin {u, None}
  <2> USE <1>BlockedThreads
  <2>1. living' \in SUBSET Threads
    BY DEF SyncInv, TypeOK
  <2>2. Counted' = living'
    BY DEF Blocked, Counted
  <2>3. Cardinality(living') \in Nat
    BY <2>1, ThreadsFinite, FS_Subset, FS_CardinalityType
  <2>4. ASSUME NEW u \in living'
        PROVE  /\ status'[u] = "stopped_forever" /\ ~intr'[u] /\ pos'[u] \in {"asleep", "lock_func"}
               /\ pos'[u] = "lock_func" => owner'[op'[u].arg] \notin {u, None}
    <3>1. ThreadOK(u)' /\ Blocked(u)'
      BY <2>1 DEF SyncInv
    <3>2. ~intr'[u] /\ pos'[u] \in {"asleep", "lock_func"}
      BY <3>1 DEF Blocked
    <3>3. CASE pos'[u] = "asleep"
      <4>1. op'[u].forever /\ status'[u] = Asleep(op[u])'
        BY <3>1, <3>2, <3>3 DEF Blocked, ThreadOK, State, Sleeps
      <4> QED BY <3>2, <3>3, <4>1 DEF Asleep
    <3>4. CASE pos'[u] = "lock_func"
      <4>1. status'[u] = "stopped_forever" /\ owner'[op'[u].arg] # None
        BY <3>1, <3>2, <3>4 DEF Blocked, ThreadOK, State
      <4>2. u \in living' /\ op'[u].arg \in Mutexes /\ op'[u].arg \notin keeping'[u]
        BY <3>1, <3>4 DEF ThreadOK, Call, Holds
      <4>3. owner'[op'[u].arg] # u
        BY <3>1, <3>4, <4>2 DEF ThreadOK, Holds
      <4> QED BY <3>2, <3>4, <4>1, <4>3
    <3> QED BY <3>2, <3>3, <3>4
  <2> QED BY <2>2, <2>3, <2>4
\* The last thread to wait for a mutex becomes the patrol.
<1>LockBeginsCounts.
      ASSUME SyncInv, CountInv, SyncInv', NEW t \in Threads, pos[t] \in Out \ {"unborn", "dead"},
             NEW m, NEW fl, LockBegins(t, m, fl), NEW o, op' = [op EXCEPT ![t] = o],
             UNCHANGED <<living, reports>>
      PROVE  CountInv'
  <2> USE <1>LockBeginsCounts
  <2>1. pos \in [Threads -> Places] /\ op \in [Threads -> Calls] /\ sleeper \in Int
    BY CallTypes DEF SyncInv
  <2>2. \E p \in {"lock_func", "lock_ret"} : pos' = [pos EXCEPT ![t] = p]
    BY DEF LockBegins
  <2>3. pos'[t] \in {"lock_func", "lock_ret"} /\ Moves(t)
    BY <2>1, <2>2 DEF Moves
  <2>4. t \in living /\ t \notin Counted /\ t \in Counted'
    BY <2>3 DEF SyncInv, ThreadOK, Place, Counted, Out
  <2>5. Cardinality(Counted') = Cardinality(Counted) + 1 /\ Cardinality(Counted) \in Nat
    BY <2>3, <2>4, <1>CountEnters, CountedFinite DEF SyncInv
  <2>6. sleeper' = sleeper + 1
    BY DEF LockBegins
  <2>7. SleepersCounted'
    BY <2>1, <2>5, <2>6, SMTT(30) DEF CountInv, SleepersCounted
  <2>8. ASSUME reports' = 0, \A u \in living' : Blocked(u)'
        PROVE  patrol' # None
    <3>1. Counted' = living
      BY <2>8, <1>BlockedThreads
    <3>2. sleeper = Cardinality(Counted)
      BY <2>8 DEF CountInv, SleepersCounted
    <3>3. Cardinality(living) = sleeper + 1
      BY <3>1, <3>2, <2>5
    <3>4. patrol' = IF patrol = None THEN t ELSE patrol
      BY <3>3 DEF LockBegins, Patrol
    <3> QED BY <3>4, SyncAssumption
  <2>9. PatrolSet'
    BY <2>8 DEF PatrolSet
  <2> QED BY <2>7, <2>9 DEF CountInv
<1>MutexLockCounts.
      ASSUME SyncInv, CountInv, SyncInv', NEW t \in Threads, pos[t] \in Out \ {"unborn", "dead"},
             NEW o, NEW e, NEW fl, rb_mutex_lock(t, o, e, fl), UNCHANGED <<living, reports>>
      PROVE  CountInv'
  <2> USE <1>MutexLockCounts
  <2>1. CASE Locked(t, o, e) /\ UNCHANGED sleeper
    BY <2>1, <1>CallCounts DEF Locked
  <2>2. CASE LockBegins(t, o.arg, fl) /\ op' = [op EXCEPT ![t] = o]
    BY <2>2, <1>LockBeginsCounts
  <2> QED BY <2>1, <2>2 DEF rb_mutex_lock
\* What rb_check_deadlock finds when every thread that it looks at is blocked.
<1>DeadlockFound.
      ASSUME SyncInv, CountInv, SyncInv', NEW t \in Threads, NEW n, NEW fl,
             \A u \in living' : Blocked(u)', n = Cardinality(Counted'), intr' = fl,
             \A u \in living' : u # t => pos'[u] = pos[u] /\ op'[u] = op[u]
      PROVE  patrol \in {None, t} => NoLiveThreads(t, living', n, status', fl, owner')
  <2> USE <1>DeadlockFound
  <2>1. /\ Counted' = living'
        /\ \A u \in living' :
             /\ status'[u] = "stopped_forever" /\ ~intr'[u] /\ pos'[u] \in {"asleep", "lock_func"}
             /\ pos'[u] = "lock_func" => owner'[op'[u].arg] \notin {u, None}
    BY <1>BlockedThreads
  <2>2. Cardinality(living') <= n
    BY <2>1, <1>BlockedThreads, SMTT(30)
  <2> QED BY <2>1, <2>2 DEF NoLiveThreads
<1>NativeSleepCounts.
      ASSUME SyncInv, CountInv, SyncInv', NEW t \in Threads, native_sleep(t)
      PROVE  CountInv'
  <2> USE <1>NativeSleepCounts
  <2> DEFINE fl == [intr EXCEPT ![t] = FALSE]
             n == IF op[t].forever THEN sleeper + 1 ELSE sleeper
             dead == op[t].forever /\ NoLiveThreads(t, living, n, status, fl, owner)
  <2>1. /\ pos \in [Threads -> Places] /\ op \in [Threads -> Calls] /\ sleeper \in Int
        /\ pos[t] \in {"check_first", "check_again"} /\ pos' = [pos EXCEPT ![t] = "asleep"]
        /\ UNCHANGED <<op, living, status, owner, patrol>>
    BY CallTypes DEF SyncInv, native_sleep
  <2>2. pos'[t] = "asleep" /\ Moves(t) /\ t \in living /\ t \notin Counted
    BY <2>1 DEF Moves, Counted, SyncInv, ThreadOK, Place
  <2>3. t \in Counted' <=> op[t].forever
    BY <2>1, <2>2 DEF Counted
  <2>4. Cardinality(Counted) \in Nat
    BY CountedFinite DEF SyncInv
  <2>5. Report(dead, status, fl, n, {woken})
    BY DEF native_sleep
  <2>6. /\ sleeper' = IF dead THEN n - 1 ELSE n
        /\ reports' = IF dead THEN 1 ELSE reports
        /\ ~dead => intr' = fl
    BY <2>5 DEF Report
  <2>7. CASE ~op[t].forever
    <3>1. Counted' = Counted /\ ~Blocked(t)'
      BY <2>1, <2>2, <2>3, <2>7, <1>CountStays DEF Blocked
    <3>2. sleeper' = sleeper /\ reports' = reports
      BY <2>6, <2>7
    <3>3. SleepersCounted' /\ PatrolSet'
      BY <2>1, <2>2, <3>1, <3>2 DEF SleepersCounted, PatrolSet, CountInv
    <3> QED BY <3>3 DEF CountInv
  <2>8. CASE op[t].forever
    <3>1. Cardinality(Counted') = Cardinality(Counted) + 1
      BY <2>2, <2>3, <2>8, <1>CountEnters
    <3>2. n = sleeper + 1 /\ (dead <=> NoLiveThreads(t, living, n, status, fl, owner))
      BY <2>8
    <3> HIDE DEF n, dead, fl
    <3>3. SleepersCounted'
      BY <2>1, <2>4, <2>6, <3>1, <3>2, SMTT(30) DEF SleepersCounted, CountInv
    <3>4. ASSUME reports' = 0, \A u \in living' : Blocked(u)'
          PROVE  patrol' # None
      <4>1. ~dead /\ reports = 0 /\ intr' = fl
        BY <2>6, <3>4, SMTT(30)
      <4>2. n = Cardinality(Counted')
        BY <2>1, <2>4, <3>1, <3>2, <4>1 DEF SleepersCounted, CountInv
      <4>3. \A u \in living' : u # t => pos'[u] = pos[u] /\ op'[u] = op[u]
        BY <2>1 DEF SyncInv, TypeOK
      <4>4. patrol \in {None, t} => NoLiveThreads(t, living', n, status', fl, owner')
        BY <3>4, <4>1, <4>2, <4>3, <1>DeadlockFound
      <4> QED BY <2>1, <3>2, <4>1, <4>4
    <3>5. PatrolSet'
      BY <3>4 DEF PatrolSet
    <3> QED BY <3>3, <3>5 DEF CountInv
  <2> QED BY <2>7, <2>8
<1>WakesCounts.
      ASSUME SyncInv, CountInv, SyncInv', NEW t \in Threads, Wakes(t)
      PROVE  CountInv'
  <2> USE <1>WakesCounts
  <2>1. /\ pos \in [Threads -> Places] /\ op \in [Threads -> Calls] /\ sleeper \in Int
        /\ pos[t] = "asleep" /\ pos' = [pos EXCEPT ![t] = "check_again"]
        /\ UNCHANGED <<op, living, reports>>
        /\ sleeper' = IF op[t].forever THEN sleeper - 1 ELSE sleeper
    BY CallTypes DEF SyncInv, Wakes
  <2>2. pos'[t] = "check_again" /\ Moves(t) /\ t \in living /\ t \notin Counted' /\ ~Blocked(t)'
    BY <2>1 DEF Moves, Counted, SyncInv, ThreadOK, Place, Blocked
  <2>3. Cardinality(Counted) \in Nat /\ (t \in Counted <=> op[t].forever)
    BY <2>1, <2>2, CountedFinite DEF SyncInv, Counted
  <2>4. CASE op[t].forever
    <3>1. Cardinality(Counted') = Cardinality(Counted) - 1 /\ sleeper' = sleeper - 1
      BY <2>1, <2>2, <2>3, <2>4, <1>CountLeaves
    <3>2. SleepersCounted' /\ PatrolSet'
      BY <2>1, <2>2, <2>3, <3>1, SMTT(30) DEF SleepersCounted, PatrolSet, CountInv
    <3> QED BY <3>2 DEF CountInv
  <2>5. CASE ~op[t].forever
    <3>1. Counted' = Counted /\ sleeper' = sleeper
      BY <2>1, <2>2, <2>3, <2>5, <1>CountStays
    <3>2. SleepersCounted' /\ PatrolSet'
      BY <2>1, <2>2, <3>1 DEF SleepersCounted, PatrolSet, CountInv
    <3> QED BY <3>2 DEF CountInv
  <2> QED BY <2>4, <2>5
<1>LockFuncCounts.
      ASSUME SyncInv, CountInv, SyncInv', NEW t \in Threads, lock_func(t)
      PROVE  CountInv'
  <2> USE <1>LockFuncCounts
  <2>1. /\ pos \in [Threads -> Places] /\ pos[t] = "lock_func"
        /\ UNCHANGED <<op, living, reports, sleeper, intr, patrol>>
    BY CallTypes DEF SyncInv, lock_func
  <2>2. \/ pos' = [pos EXCEPT ![t] = "lock_ret"]
        \/ UNCHANGED <<pos, owner>>
    BY DEF lock_func
  <2>3. pos'[t] \in {"lock_func", "lock_ret"} /\ Moves(t)
    BY <2>1, <2>2 DEF Moves
  <2>4. t \in living /\ t \in Counted /\ t \in Counted'
    BY <2>1, <2>3 DEF SyncInv, ThreadOK, Place, Counted
  <2>5. Counted' = Counted
    BY <2>3, <2>4, <1>CountStays
  <2>6. SleepersCounted'
    BY <2>1, <2>5 DEF CountInv, SleepersCounted
  <2>7. ASSUME pos' = [pos EXCEPT ![t] = "lock_ret"]
        PROVE  PatrolSet'
    <3>1. ~Blocked(t)' /\ t \in living'
      BY <2>1, <2>4, <2>7 DEF Blocked
    <3> QED BY <3>1 DEF PatrolSet
  <2>8. ASSUME UNCHANGED <<pos, owner>>
        PROVE  PatrolSet'
    <3>1. \A u \in living : Blocked(u)' <=> Blocked(u)
      BY <2>1, <2>8 DEF Blocked
    <3> QED BY <2>1, <3>1 DEF PatrolSet, CountInv
  <2>9. PatrolSet'
    BY <2>2, <2>7, <2>8
  <2> QED BY <2>6, <2>9 DEF CountInv
<1>LockReturnsCounts.
      ASSUME SyncInv, CountInv, SyncInv', NEW t \in Threads, LockReturns(t)
      PROVE  CountInv'
  <2> USE <1>LockReturnsCounts
  <2> DEFINE dead == owner[op[t].arg] # None /\ res[t] = 2
                       /\ NoLiveThreads(t, living, sleeper, status, intr, owner)
  <2>1. /\ pos \in [Threads -> Places] /\ op \in [Threads -> Calls] /\ sleeper \in Int
        /\ pos[t] = "lock_ret" /\ UNCHANGED living
    BY CallTypes DEF SyncInv, LockReturns
  <2>2. \E o : \E p \in {"run", "lock_check"} : pos' = [pos EXCEPT ![t] = p] /\ op' = [op EXCEPT ![t] = o]
    <3>1. CASE owner[op[t].arg] = t
      BY <3>1 DEF LockReturns, Locked, Returned
    <3>2. CASE owner[op[t].arg] # t
      <4>1. pos' = [pos EXCEPT ![t] = "lock_check"] /\ op' = [op EXCEPT ![t] = op[t]]
        BY <2>1, <3>2 DEF LockReturns
      <4> QED BY <4>1
    <3> QED BY <3>1, <3>2
  <2>3. pos'[t] \in {"run", "lock_check"} /\ Moves(t)
    BY <2>1, <2>2 DEF Moves
  <2>4. t \in living' /\ t \in Counted /\ t \notin Counted' /\ ~Blocked(t)'
    BY <2>1, <2>3 DEF SyncInv, ThreadOK, Place, Counted, Blocked
  <2>5. Cardinality(Counted') = Cardinality(Counted) - 1 /\ Cardinality(Counted) \in Nat
    BY <2>3, <2>4, <1>CountLeaves, CountedFinite DEF SyncInv
  <2>6. Report(dead, status, intr, sleeper - 1, {woken})
    BY DEF LockReturns
  <2> HIDE DEF dead
  <2>7. /\ sleeper' = IF dead THEN sleeper - 2 ELSE sleeper - 1
        /\ reports' = IF dead THEN 1 ELSE reports
    BY <2>1, <2>6, SMTT(30) DEF Report
  <2>8. SleepersCounted' /\ PatrolSet'
    BY <2>1, <2>4, <2>5, <2>7, SMTT(30) DEF SleepersCounted, PatrolSet, CountInv
  <2> QED BY <2>8 DEF CountInv
\* The end of a thread: the others may now wait for nobody.
<1>ThreadEndCounts.
      ASSUME SyncInv, CountInv, SyncInv', NEW t \in Threads, thread_start_func_2(t)
      PROVE  CountInv'
  <2> USE <1>ThreadEndCounts
  <2> DEFINE alive == living \ {t}
             st == Ready(join_list[t], [status EXCEPT ![t] = "killed"])
             told == join_list[t] \cup LastTells(alive)
             fl == Flagged(told)
             dead == NoLiveThreads(t, alive, sleeper, st, fl, UnlockAll(t))
  <2>1. /\ pos \in [Threads -> Places] /\ op \in [Threads -> Calls] /\ sleeper \in Int
        /\ pos[t] = "run" /\ pos' = [pos EXCEPT ![t] = "dead"]
        /\ UNCHANGED <<op, patrol>> /\ living' = alive /\ status' = st /\ owner' = UnlockAll(t)
    BY CallTypes DEF SyncInv, thread_start_func_2
  <2>2. pos'[t] = "dead" /\ Moves(t) /\ t \notin Counted /\ t \notin Counted'
    BY <2>1 DEF Moves, Counted
  <2>3. Counted' = Counted /\ Cardinality(Counted) \in Nat
    BY <2>2, <1>CountStays, CountedFinite DEF SyncInv
  <2>4. Report(dead, st, fl, sleeper, SignalledAll(t, Broadcast(told, woken)))
    BY DEF thread_start_func_2
  <2> HIDE DEF st, told, fl
  <2>5. /\ sleeper' = IF dead THEN sleeper - 1 ELSE sleeper
        /\ reports' = IF dead THEN 1 ELSE reports
        /\ ~dead => intr' = fl
    BY <2>4 DEF Report
  <2>6. dead <=> NoLiveThreads(t, living', sleeper, status', fl, owner')
    BY <2>1
  <2> HIDE DEF alive, dead
  <2>7. SleepersCounted'
    BY <2>1, <2>3, <2>5, SMTT(30) DEF SleepersCounted, CountInv
  <2>8. ASSUME reports' = 0, \A u \in living' : Blocked(u)'
        PROVE  patrol' # None
    <3>1. ~dead /\ reports = 0 /\ intr' = fl
      BY <2>5, <2>8, SMTT(30)
    <3>2. sleeper = Cardinality(Counted')
      BY <2>3, <3>1 DEF SleepersCounted, CountInv
    <3>3. \A u \in living' : u # t => pos'[u] = pos[u] /\ op'[u] = op[u]
      BY <2>1 DEF SyncInv, TypeOK
    <3>4. patrol \in {None, t} => NoLiveThreads(t, living', sleeper, status', fl, owner')
      BY <2>8, <3>1, <3>2, <3>3, <1>DeadlockFound
    <3> QED BY <2>1, <2>6, <3>1, <3>4
  <2>9. PatrolSet'
    BY <2>8 DEF PatrolSet
  <2> QED BY <2>7, <2>9 DEF CountInv
<1>SleepEndsCounts.
      ASSUME SyncInv, CountInv, SyncInv', NEW t \in Threads, SleepEnds(t)
      PROVE  CountInv'
  <2> USE <1>SleepEndsCounts
  <2> DEFINE fl == [intr EXCEPT ![t] = FALSE]
             st == [status EXCEPT ![t] = "runnable"]
  <2>1. pos[t] \in Out \ {"unborn", "dead"} /\ UNCHANGED <<living, reports>>
    BY DEF SleepEnds, Out
  <2>2. \/ queue_do_pop(t, st, fl) /\ UNCHANGED sleeper
        \/ rb_szqueue_push(t, st, fl) /\ UNCHANGED sleeper
        \/ Returned(t, "none") /\ UNCHANGED sleeper
        \/ SleepBegins(t, op[t]) /\ UNCHANGED sleeper
        \/ rb_mutex_lock(t, op[t], "none", fl)
    BY DEF SleepEnds
  <2> HIDE DEF fl, st
  <2>3. \/ (\E e : Returned(t, e)) /\ UNCHANGED sleeper
        \/ (\E o : SleepBegins(t, o)) /\ UNCHANGED sleeper
        \/ rb_mutex_lock(t, op[t], "none", fl)
    BY <2>2 DEF queue_do_pop, rb_szqueue_push
  <2> QED BY <2>1, <2>3, <1>CallCounts, <1>MutexLockCounts
<1>RaisedCounts.
      ASSUME SyncInv, CountInv, SyncInv', NEW t \in Threads, Raised(t)
      PROVE  CountInv'
  <2> USE <1>RaisedCounts
  <2> DEFINE fl == [intr EXCEPT ![t] = FALSE]
             e == Head(pend[t])
  <2>1. pos[t] \in Out \ {"unborn", "dead"} /\ UNCHANGED <<living, reports>>
    BY DEF Raised, Out
  <2>2. \/ Locked(t, op[t], e) /\ UNCHANGED sleeper
        \/ rb_mutex_lock(t, op[t], e, fl)
    BY DEF Raised
  <2> HIDE DEF fl, e
  <2>3. \/ (\E x : Returned(t, x)) /\ UNCHANGED sleeper
        \/ rb_mutex_lock(t, op[t], e, fl)
    BY <2>2 DEF Locked
  <2> QED BY <2>1, <2>3, <1>CallCounts, <1>MutexLockCounts
<1>QueueCounts.
      ASSUME SyncInv, CountInv, SyncInv', NEW t \in Threads, Queue(t)
      PROVE  CountInv'
  <2> USE <1>QueueCounts
  <2>1. pos[t] \in Out /\ UNCHANGED <<living, sleeper, reports>>
    BY DEF Queue, Runs, Out
  <2>2. queue_do_pop(t, status, intr) \/ rb_szqueue_push(t, status, intr)
    BY DEF Queue
  <2>3. (\E e : Returned(t, e)) \/ (\E o : SleepBegins(t, o))
    BY <2>2 DEF queue_do_pop, rb_szqueue_push
  <2> QED BY <2>1, <2>3, <1>CallCounts
\* What a thread begins in Ruby code, locks and queues apart.
<1>BeginsCounts.
      ASSUME SyncInv, CountInv, SyncInv', NEW t \in Threads,
             \/ \E m \in Mutexes : Unlock(t, m) \/ rb_mutex_sleep(t, m)
             \/ CvSignal(t) \/ queue_do_close(t) \/ rb_szqueue_clear(t) \/ rb_szqueue_max_set(t)
             \/ rb_thread_stop(t) \/ CheckInts(t)
             \/ \E u \in Threads : thread_join(t, u) \/ Interrupt(t, u) \/ rb_thread_wakeup(t, u)
      PROVE  CountInv'
  <2> USE <1>BeginsCounts
  <2> DEFINE A == /\ pos[t] = "run" /\ UNCHANGED <<living, sleeper, reports>>
                  /\ UNCHANGED <<pos, op>> \/ \E o : SleepBegins(t, o)
  <2>1. ASSUME NEW m \in Mutexes, Unlock(t, m) \/ rb_mutex_sleep(t, m) PROVE A
    <3>1. pos[t] = "run" /\ UNCHANGED <<living, sleeper, reports>>
      BY <2>1 DEF Unlock, rb_mutex_sleep, Runs
    <3>2. UNCHANGED <<pos, op>> \/ \E o : SleepBegins(t, o)
      BY <2>1 DEF Unlock, rb_mutex_sleep
    <3> QED BY <3>1, <3>2
  <2>2. CvSignal(t) \/ queue_do_close(t) \/ rb_szqueue_clear(t) \/ rb_szqueue_max_set(t) => A
    BY DEF CvSignal, queue_do_close, rb_szqueue_clear, rb_szqueue_max_set, Runs
  <2>3. rb_thread_stop(t) \/ CheckInts(t) => A
    BY DEF rb_thread_stop, CheckInts, Runs
  <2>4. ASSUME NEW u \in Threads, thread_join(t, u) \/ Interrupt(t, u) \/ rb_thread_wakeup(t, u)
        PROVE  A
    <3>1. pos[t] = "run" /\ UNCHANGED <<living, sleeper, reports>>
      BY <2>4 DEF thread_join, Interrupt, rb_thread_wakeup, Runs
    <3>2. UNCHANGED <<pos, op>> \/ \E o : SleepBegins(t, o)
      BY <2>4 DEF thread_join, Interrupt, rb_thread_wakeup
    <3> QED BY <3>1, <3>2
  <2>5. A
    <3> HIDE DEF A
    <3> QED BY <2>1, <2>2, <2>3, <2>4
  <2>6. CASE UNCHANGED <<pos, op>>
    BY <2>5, <2>6, <1>ActsCounts
  <2>7. CASE \E o : SleepBegins(t, o)
    BY <2>5, <2>7, <1>CallCounts DEF Out
  <2> QED BY <2>5, <2>6, <2>7
\* A new thread runs; the main thread ends the process, or forks.
<1>ProcessCounts.
      ASSUME SyncInv, CountInv, SyncInv',
             \/ \E t, u \in Threads : thread_create_core(t, u)
             \/ MainExits \/ TermWakes
      PROVE  CountInv'
  <2> USE <1>ProcessCounts
  <2>1. pos \in [Threads -> Places] /\ op \in [Threads -> Calls] /\ Main \in Threads
    BY CallTypes, SyncAssumption DEF SyncInv
  <2>2. CASE \E t, u \in Threads : thread_create_core(t, u)
    <3>1. PICK t \in Threads, u \in Threads : thread_create_core(t, u)
      BY <2>2
    <3>2. /\ pos[u] = "unborn" /\ pos'[u] = "run" /\ Moves(u)
          /\ UNCHANGED <<sleeper, reports>>
      BY <2>1, <3>1 DEF thread_create_core, Moves
    <3> QED BY <3>2, <1>QuietCounts DEF Out
  <2>3. CASE MainExits \/ TermWakes
    <3>1. /\ pos[Main] \in {"run", "term_sleep"} /\ UNCHANGED <<op, living, sleeper, reports>>
          /\ \E p \in {"term_sleep", "done"} : pos' = [pos EXCEPT ![Main] = p]
      BY <2>3 DEF MainExits, TermWakes, Runs
    <3>2. pos'[Main] \in {"term_sleep", "done"} /\ Moves(Main)
      BY <2>1, <3>1 DEF Moves
    <3> QED BY <2>1, <3>1, <3>2, <1>QuietCounts DEF Out
  <2> QED BY <2>2, <2>3
<1>ForkCounts.
      ASSUME SyncInv, CountInv, SyncInv', rb_thread_atfork
      PROVE  CountInv'
  <2> USE <1>ForkCounts
  <2>1. /\ pos \in [Threads -> Places] /\ Main \in Threads /\ pos[Main] = "run"
        /\ living' = {Main} /\ sleeper' = 0
    BY CallTypes, SyncAssumption DEF SyncInv, rb_thread_atfork, Runs
  <2>2. pos'[Main] = "run"
    BY <2>1 DEF rb_thread_atfork
  <2>3. Counted' = {} /\ ~Blocked(Main)'
    BY <2>1, <2>2 DEF Counted, Blocked
  <2>4. Cardinality(Counted') = 0
    BY <2>3, FS_EmptySet
  <2>5. SleepersCounted' /\ PatrolSet'
    BY <2>1, <2>3, <2>4, SMTT(30) DEF SleepersCounted, PatrolSet
  <2> QED BY <2>5 DEF CountInv
<1> QED
  <2> SUFFICES ASSUME SyncInv, CountInv, SyncInv', [Next]_vars
               PROVE  CountInv'
    OBVIOUS
  <2>1. ASSUME NEW t \in Threads, Step(t) \/ Wakes(t) \/ Raised(t) \/ CheckInts(t)
        PROVE  CountInv'
    <3>1. CASE LockAgain(t)
      <4>1. /\ pos[t] \in Out \ {"unborn", "dead"} /\ op \in [Threads -> Calls]
            /\ UNCHANGED <<living, op, reports>>
        BY <3>1, CallTypes DEF LockAgain, Out, SyncInv
      <4>2. op' = [op EXCEPT ![t] = op[t]]
        BY <4>1
      <4>3. PICK m, fl : LockBegins(t, m, fl)
        BY <3>1 DEF LockAgain
      <4> QED BY <4>1, <4>2, <4>3, <1>LockBeginsCounts
    <3>2. CASE native_sleep(t) \/ Wakes(t)
      BY <3>2, <1>NativeSleepCounts, <1>WakesCounts
    <3>3. CASE lock_func(t) \/ LockReturns(t) \/ thread_start_func_2(t)
      BY <3>3, <1>LockFuncCounts, <1>LockReturnsCounts, <1>ThreadEndCounts
    <3>4. CASE SleepEnds(t) \/ Raised(t) \/ CheckInts(t)
      BY <3>4, <1>SleepEndsCounts, <1>RaisedCounts, <1>BeginsCounts
    <3> QED BY <2>1, <3>1, <3>2, <3>3, <3>4 DEF Step
  <2>2. ASSUME NEW t \in Threads, Begins(t)
        PROVE  CountInv'
    <3>1. CASE \E m \in Mutexes : Lock(t, m)
      <4>1. PICK m \in Mutexes : Lock(t, m)
        BY <3>1
      <4>2. pos[t] \in Out \ {"unborn", "dead"} /\ UNCHANGED <<living, reports>>
        BY <4>1 DEF Lock, Runs, Out
      <4>3. \E o, e, fl : rb_mutex_lock(t, o, e, fl)
        BY <4>1 DEF Lock
      <4> QED BY <4>2, <4>3, <1>MutexLockCounts
    <3>2. CASE Queue(t) \/ thread_start_func_2(t)
      BY <3>2, <1>QueueCounts, <1>ThreadEndCounts
    <3>3. CASE \E u \in Threads : thread_create_core(t, u)
      BY <3>3, <1>ProcessCounts
    <3>4. CASE \/ \E m \in Mutexes : Unlock(t, m) \/ rb_mutex_sleep(t, m)
               \/ CvSignal(t) \/ queue_do_close(t) \/ rb_szqueue_clear(t)
               \/ rb_szqueue_max_set(t) \/ rb_thread_stop(t)
               \/ \E u \in Threads : thread_join(t, u) \/ Interrupt(t, u)
                                     \/ rb_thread_wakeup(t, u)
      BY <3>4, <1>BeginsCounts
    <3> QED BY <2>2, <3>1, <3>2, <3>3, <3>4 DEF Begins
  <2>3. CASE MainExits \/ TermWakes \/ rb_thread_atfork
    BY <2>3, <1>ProcessCounts, <1>ForkCounts
  <2>4. CASE UNCHANGED vars
    <3>1. Counted' = Counted /\ (PatrolSet' <=> PatrolSet)
      BY <2>4 DEF vars, mutexVars, Counted, PatrolSet, Blocked
    <3> QED BY <2>4, <3>1 DEF vars, CountInv, SleepersCounted
  <2> QED BY <2>1, <2>2, <2>3, <2>4 DEF Next

----------------------------------------------------------------------------
(* Reports *)

LEMMA NextReports == SyncInv /\ CountInv /\ Next /\ reports' > reports =>
                       \E t \in Threads : \A u \in living \ {t} : Blocked(u)
\* When rb_check_deadlock finds no live thread, the others are blocked.
<1>FoundIsBlocked.
      ASSUME SyncInv, NEW t \in Threads, NEW alive \in SUBSET living, NEW n, NEW st, NEW fl, NEW ow,
             NoLiveThreads(t, alive, n, st, fl, ow), alive \ {t} \subseteq Counted,
             \A u \in alive \ {t} : intr[u] => fl[u],
             \A m \in Mutexes : ow[m] = owner[m] \/ (ow[m] = None /\ owner[m] = t)
      PROVE  \A u \in alive \ {t} : Blocked(u)
  <2> USE <1>FoundIsBlocked
  <2> TAKE u \in alive \ {t}
  <2>1. /\ u \in Threads /\ u # t /\ ~intr[u] /\ patrol \in {None, t} /\ u \in Counted
        /\ pos[u] \in {"lock_func", "lock_ret"} =>
             ow[op[u].arg] # u /\ (ow[op[u].arg] = None => Waiters(op[u].arg) = {})
    <3>1. u \in Threads /\ u # t /\ u \in alive /\ u \in Counted
      BY CallTypes DEF SyncInv
    <3>2. /\ ~fl[u] /\ patrol \in {None, t}
          /\ pos[u] \in {"lock_func", "lock_ret"} =>
               ow[op[u].arg] # u /\ (ow[op[u].arg] = None => Waiters(op[u].arg) = {})
      BY <3>1 DEF NoLiveThreads
    <3> QED BY <3>1, <3>2
  <2>2. ThreadOK(u) /\ res[u] \in 0 .. 2
    BY <2>1 DEF SyncInv, TypeOK
  <2>3. CASE pos[u] = "asleep" /\ op[u].forever
    BY <2>1, <2>3 DEF Blocked
  <2>4. CASE pos[u] = "lock_func"
    <3>1. u \in Waiters(op[u].arg) /\ op[u].arg \in Mutexes
      BY <2>1, <2>2, <2>4 DEF Waiters, ThreadOK, Call
    <3>2. ow[op[u].arg] # None
      BY <2>1, <2>4, <3>1
    <3>3. owner[op[u].arg] # None
      BY <3>1, <3>2
    <3> QED BY <2>1, <2>4, <3>3 DEF Blocked
  <2>5. pos[u] # "lock_ret"
    <3> SUFFICES ASSUME pos[u] = "lock_ret" PROVE FALSE
      OBVIOUS
    <3>1. op[u].arg \in Mutexes /\ ow[op[u].arg] # u
      BY <2>1, <2>2 DEF ThreadOK, Call
    <3>2. res[u] # 0
      BY <2>1, <2>2, <3>1 DEF ThreadOK, Holds
    <3>3. res[u] # 1 /\ res[u] # 2
      BY <2>1, <2>2, SyncAssumption, SMTT(30) DEF ThreadOK, Holds
    <3> QED BY <2>2, <3>2, <3>3, SMTT(30)
  <2> QED BY <2>1, <2>3, <2>4, <2>5 DEF Counted
\* As many threads sleep as there are: they are the threads there are.
<1>AllCounted.
      ASSUME SyncInv, CountInv, NEW S \in SUBSET living, Counted \subseteq S,
             Cardinality(S) <= sleeper
      PROVE  S = Counted
  <2> USE <1>AllCounted
  <2>1. IsFiniteSet(S) /\ Cardinality(S) \in Nat
    BY CountedFinite, FS_Subset, FS_CardinalityType DEF SyncInv
  <2>2. Counted \in SUBSET S /\ Cardinality(Counted) \in Nat /\ Cardinality(Counted) <= Cardinality(S)
    BY <2>1, CountedFinite, FS_Subset DEF SyncInv
  <2>3. sleeper \in Int /\ sleeper <= Cardinality(Counted)
    BY CallTypes DEF SyncInv, CountInv, SleepersCounted
  <2>4. Cardinality(Counted) = Cardinality(S)
    BY <2>1, <2>2, <2>3, SMTT(30)
  <2> QED BY <2>1, <2>2, <2>4, FS_Subset
<1>OneLess.
      ASSUME SyncInv, NEW t \in living
      PROVE  Cardinality(living \ {t}) = Cardinality(living) - 1
  <2> USE <1>OneLess
  <2>1. IsFiniteSet(living)
    BY CountedFinite DEF SyncInv
  <2> QED BY <2>1, FS_RemoveElement
<1> QED
  <2> SUFFICES ASSUME SyncInv, CountInv, Next, reports' > reports
               PROVE  \E t \in Threads : \A u \in living \ {t} : Blocked(u)
    OBVIOUS
  <2>1. reports \in {0, 1} /\ reports' # reports /\ sleeper \in Int
    BY SMTT(30) DEF SyncInv, TypeOK
  <2>2. Cardinality(living) \in Nat /\ IsFiniteSet(living) /\ Counted \subseteq living
    BY CountedFinite DEF SyncInv
  <2>3. ASSUME NEW t \in Threads, native_sleep(t)
        PROVE  \A u \in living \ {t} : Blocked(u)
    <3> DEFINE fl == [intr EXCEPT ![t] = FALSE]
               n == IF op[t].forever THEN sleeper + 1 ELSE sleeper
               dead == op[t].forever /\ NoLiveThreads(t, living, n, status, fl, owner)
    <3>1. Report(dead, status, fl, n, {woken}) /\ pos[t] \in {"check_first", "check_again"}
      BY <2>3 DEF native_sleep
    <3>2. dead
      BY <2>1, <3>1 DEF Report
    <3>3. NoLiveThreads(t, living, sleeper + 1, status, fl, owner)
      BY <3>2
    <3>4. \A u \in living \ {t} : intr[u] => fl[u]
      BY CallTypes DEF SyncInv
    <3> HIDE DEF fl, n, dead
    <3>5. Cardinality(living) <= sleeper + 1
      BY <3>3 DEF NoLiveThreads
    <3>6. t \in living /\ t \notin Counted
      BY <3>1 DEF SyncInv, ThreadOK, Place, Counted
    <3>7. Cardinality(living \ {t}) = Cardinality(living) - 1
      BY <3>6, <1>OneLess
    <3>8. living \ {t} = Counted
      BY <2>1, <2>2, <3>5, <3>6, <3>7, <1>AllCounted, SMTT(30)
    <3> QED BY <3>3, <3>4, <3>8, <1>FoundIsBlocked
  <2>4. ASSUME NEW t \in Threads, LockReturns(t)
        PROVE  \A u \in living \ {t} : Blocked(u)
    <3> DEFINE dead == owner[op[t].arg] # None /\ res[t] = 2
                         /\ NoLiveThreads(t, living, sleeper, status, intr, owner)
    <3>1. Report(dead, status, intr, sleeper - 1, {woken})
      BY <2>4 DEF LockReturns
    <3>2. dead
      BY <2>1, <3>1 DEF Report
    <3>3. NoLiveThreads(t, living, sleeper, status, intr, owner)
      BY <3>2
    <3>4. Cardinality(living) <= sleeper
      BY <3>3 DEF NoLiveThreads
    <3>5. living = Counted
      BY <2>2, <3>4, <1>AllCounted
    <3> QED BY <3>3, <3>5, <1>FoundIsBlocked
  <2>5. ASSUME NEW t \in Threads, thread_start_func_2(t)
        PROVE  \A u \in living \ {t} : Blocked(u)
    <3> DEFINE alive == living \ {t}
               st == Ready(join_list[t], [status EXCEPT ![t] = "killed"])
               told == join_list[t] \cup LastTells(alive)
               fl == Flagged(told)
               dead == NoLiveThreads(t, alive, sleeper, st, fl, UnlockAll(t))
    <3>1. /\ Report(dead, st, fl, sleeper, SignalledAll(t, Broadcast(told, woken)))
          /\ pos[t] = "run"
      BY <2>5 DEF thread_start_func_2
    <3>2. NoLiveThreads(t, alive, sleeper, st, fl, UnlockAll(t))
      BY <2>1, <3>1 DEF Report
    <3>3. \A u \in alive \ {t} : intr[u] => fl[u]
      BY CallTypes DEF SyncInv, Flagged
    <3>4. \A m \in Mutexes : \/ UnlockAll(t)[m] = owner[m]
                             \/ UnlockAll(t)[m] = None /\ owner[m] = t
      BY <3>1 DEF UnlockAll, SyncInv, ThreadOK, Holds, Place
    <3> HIDE DEF st, told, fl, dead
    <3>5. Cardinality(alive) <= sleeper
      BY <3>2 DEF NoLiveThreads
    <3>6. alive \in SUBSET living /\ Counted \subseteq alive /\ alive = living \ {t}
      BY <2>2, <3>1 DEF Counted
    <3> HIDE DEF alive
    <3>7. alive = Counted
      BY <3>5, <3>6, <1>AllCounted
    <3>8. \A u \in alive \ {t} : Blocked(u)
      BY <3>2, <3>3, <3>4, <3>6, <3>7, <1>FoundIsBlocked, SMTT(30)
    <3> QED BY <3>6, <3>8
  <2>6. ASSUME NEW t \in Threads, Step(t) \/ Wakes(t) \/ Raised(t) \/ CheckInts(t) \/ Begins(t)
        PROVE  native_sleep(t) \/ LockReturns(t) \/ thread_start_func_2(t)
    <3>1. reports' # reports
      BY <2>1
    <3>2. ~Wakes(t) /\ ~SleepEnds(t) /\ ~lock_func(t) /\ ~LockAgain(t) /\ ~Raised(t) /\ ~CheckInts(t)
      BY <3>1 DEF Wakes, SleepEnds, lock_func, LockAgain, Raised, CheckInts
    <3>3. \A m \in Mutexes : ~Lock(t, m) /\ ~Unlock(t, m) /\ ~rb_mutex_sleep(t, m)
      BY <3>1 DEF Lock, Unlock, rb_mutex_sleep
    <3>4. /\ ~CvSignal(t) /\ ~Queue(t) /\ ~queue_do_close(t) /\ ~rb_szqueue_clear(t)
          /\ ~rb_szqueue_max_set(t) /\ ~rb_thread_stop(t)
      BY <3>1 DEF CvSignal, Queue, queue_do_close, rb_szqueue_clear, rb_szqueue_max_set,
                  rb_thread_stop
    <3>5. \A u \in Threads : /\ ~thread_join(t, u) /\ ~Interrupt(t, u) /\ ~rb_thread_wakeup(t, u)
                             /\ ~thread_create_core(t, u)
      BY <3>1 DEF thread_join, Interrupt, rb_thread_wakeup, thread_create_core
    <3> QED BY <2>6, <3>2, <3>3, <3>4, <3>5 DEF Step, Begins
  <2>7. ~MainExits /\ ~TermWakes /\ ~rb_thread_atfork
    BY <2>1 DEF MainExits, TermWakes, rb_thread_atfork
  <2> QED BY <2>3, <2>4, <2>5, <2>6, <2>7 DEF Next

----------------------------------------------------------------------------
(* The patrol thread lives *)

\* Only a child process that was forked has a patrol thread that is not alive,
\* and only programs that lock have one.
PatrolLives == "fork" \notin ops => patrol \in living \cup {None}
Unlocked ==
  "lock" \notin ops => /\ patrol = None /\ \A m \in Mutexes : owner[m] = None
                      /\ \A t \in Threads : op[t].kind \notin {"lock", "sleep", "cv"}

LEMMA InitPatrol == Init => PatrolLives /\ Unlocked
<1> SUFFICES ASSUME Init PROVE PatrolLives /\ Unlocked
  OBVIOUS
<1>1. patrol = None /\ \A m \in Mutexes : owner[m] = None
  BY DEF Init
<1>2. \A t \in Threads : op[t] = Free
  BY DEF Init
<1>3. Free.kind = "none"
  BY DEF Free
<1>4. \A t \in Threads : op[t].kind \notin {"lock", "sleep", "cv"}
  BY <1>2, <1>3
<1> QED BY <1>1, <1>4 DEF PatrolLives, Unlocked

LEMMA NextLives == SyncInv /\ PatrolLives /\ Next => PatrolLives'
<1> SUFFICES ASSUME SyncInv, PatrolLives, Next, "fork" \notin ops
             PROVE  patrol' \in living' \cup {None}
  BY DEF PatrolLives, Next
<1> patrol \in living \cup {None}
  BY DEF PatrolLives
<1>1. ASSUME NEW t \in Threads, thread_start_func_2(t)
      PROVE  patrol' \in living' \cup {None}
  <2>1. pos[t] = "run" /\ patrol' = patrol /\ living' = living \ {t}
    BY <1>1 DEF thread_start_func_2
  <2>2. patrol # t
    BY <2>1, InRuby
  <2> QED BY <2>1, <2>2
<1>2. ASSUME NEW t \in Threads, LockReturns(t)
      PROVE  patrol' \in living' \cup {None}
  BY <1>2 DEF LockReturns
<1>3. ASSUME NEW t \in Threads, SleepEnds(t) \/ Raised(t) \/ LockAgain(t) \/ \E m \in Mutexes : Lock(t, m)
      PROVE  patrol' \in living' \cup {None}
  <2>1. living' = living /\ pos[t] \in {"run", "check_first", "check_again", "lock_check"}
    BY <1>3 DEF SleepEnds, Raised, LockAgain, Lock, Runs
  <2>2. t \in living
    BY <2>1 DEF SyncInv, ThreadOK, Place
  <2>3. \A m, fl : LockBegins(t, m, fl) => patrol' \in {patrol, t}
    BY DEF LockBegins, Patrol
  <2>4. \A o, e, fl : rb_mutex_lock(t, o, e, fl) => patrol' \in {patrol, t}
    BY <2>3 DEF rb_mutex_lock
  <2>5. patrol' \in {patrol, t}
    <3>1. CASE SleepEnds(t)
      BY <2>4, <3>1 DEF SleepEnds
    <3>2. CASE Raised(t)
      BY <2>4, <3>2 DEF Raised
    <3> QED BY <1>3, <2>3, <2>4, <3>1, <3>2 DEF LockAgain, Lock
  <2> QED BY <2>1, <2>2, <2>5
<1>4. ASSUME NEW t \in Threads,
             native_sleep(t) \/ Wakes(t) \/ lock_func(t) \/ CheckInts(t) \/ CvSignal(t)
               \/ Queue(t) \/ queue_do_close(t) \/ rb_szqueue_clear(t)
               \/ rb_szqueue_max_set(t) \/ rb_thread_stop(t)
      PROVE  patrol' \in living' \cup {None}
  BY <1>4 DEF native_sleep, Wakes, lock_func, CheckInts, CvSignal, Queue, queue_do_close,
    rb_szqueue_clear, rb_szqueue_max_set, rb_thread_stop
<1>5. ASSUME NEW t \in Threads, NEW m \in Mutexes, Unlock(t, m) \/ rb_mutex_sleep(t, m)
      PROVE  patrol' \in living' \cup {None}
  BY <1>5 DEF Unlock, rb_mutex_sleep
<1>6. ASSUME NEW t \in Threads, NEW u \in Threads,
             \/ thread_join(t, u) \/ Interrupt(t, u) \/ rb_thread_wakeup(t, u)
             \/ thread_create_core(t, u)
      PROVE  patrol' \in living' \cup {None}
  BY <1>6 DEF thread_join, Interrupt, rb_thread_wakeup, thread_create_core
<1>7. CASE MainExits \/ TermWakes
  BY <1>7 DEF MainExits, TermWakes
<1>8. ~rb_thread_atfork
  BY DEF rb_thread_atfork
<1> QED BY <1>1, <1>2, <1>3, <1>4, <1>5, <1>6, <1>7, <1>8 DEF Next, Step, Begins

\* A program that does not lock has no mutex to unlock, sleep or wait with.
LEMMA NextUnlocked == SyncInv /\ Unlocked /\ Next => Unlocked'
<1> DEFINE K == {"lock", "sleep", "cv"}
           U == /\ patrol = None /\ \A m \in Mutexes : owner[m] = None
                /\ \A t \in Threads : op[t].kind \notin K
<1> SUFFICES ASSUME SyncInv, U, Next, "lock" \notin ops
             PROVE  U'
  BY DEF Unlocked, Next
<1>1. /\ op \in [Threads -> Calls] /\ owner \in [Mutexes -> Threads \cup {None}]
      /\ None \notin Threads
  BY CallTypes, SyncAssumption DEF SyncInv
<1>2. \A t \in Threads : pos[t] \notin {"lock_func", "lock_ret", "lock_check"}
  BY DEF SyncInv, ThreadOK, Call
<1>3. \A t \in Threads : /\ ~lock_func(t) /\ ~LockReturns(t) /\ ~LockAgain(t)
                         /\ \A m \in Mutexes : ~Lock(t, m) /\ ~Unlock(t, m) /\ ~rb_mutex_sleep(t, m)
  <2>1. \A t \in Threads : ~lock_func(t) /\ ~LockReturns(t) /\ ~LockAgain(t)
    BY <1>2 DEF lock_func, LockReturns, LockAgain
  <2>2. \A t \in Threads : \A m \in Mutexes : ~Lock(t, m) /\ ~rb_mutex_unlock_th(t, m)
    BY <1>1 DEF Lock, rb_mutex_unlock_th
  <2> QED BY <2>1, <2>2 DEF Unlock, rb_mutex_sleep
<1>4. ASSUME UNCHANGED <<op, owner, patrol>>
      PROVE  U'
  BY <1>4
<1>5. ASSUME UNCHANGED <<owner, patrol>>, NEW t \in Threads, NEW o, o.kind \notin K,
             op' = [op EXCEPT ![t] = o]
      PROVE  U'
  <2>1. \A u \in Threads : op'[u] \in {op[u], o}
    BY <1>1, <1>5
  <2> QED BY <1>5, <2>1
<1>6. Free.kind \notin K
  <2>1. Free.kind = "none"
    BY DEF Free
  <2> QED BY <2>1
<1>7. ASSUME UNCHANGED <<owner, patrol>>, NEW t \in Threads, NEW e, Returned(t, e)
      PROVE  U'
  BY <1>5, <1>6, <1>7 DEF Returned
<1>8. \A k \in {"pop", "push", "stop"} : [Free EXCEPT !.kind = k].kind \notin K
  BY DEF Free
<1>9. \A u, f : [kind |-> "join", arg |-> u, forever |-> f].kind \notin K
  OBVIOUS
<1> HIDE DEF U, K
<1>10. ASSUME NEW t \in Threads, UNCHANGED <<owner, patrol>>, NEW st, NEW fl,
              queue_do_pop(t, st, fl) \/ rb_szqueue_push(t, st, fl)
       PROVE  U'
  <2>1. CASE Returned(t, "none")
    BY <1>7, <1>10, <2>1
  <2>2. CASE \E k \in {"pop", "push"} : op' = [op EXCEPT ![t] = [Free EXCEPT !.kind = k]]
    BY <1>5, <1>8, <1>10, <2>2
  <2> QED BY <1>10, <2>1, <2>2 DEF queue_do_pop, rb_szqueue_push, SleepBegins
<1>11. ASSUME NEW t \in Threads, SleepEnds(t)
       PROVE  U'
  <2>1. op[t].kind \notin K
    BY DEF U
  <2>2. CASE op[t].kind \in {"pop", "push"}
    BY <1>10, <1>11, <2>2 DEF SleepEnds
  <2>3. CASE op[t].kind \in {"stop", "join"}
    <3>1. UNCHANGED <<owner, patrol>> /\ (Returned(t, "none") \/ op' = [op EXCEPT ![t] = op[t]])
      BY <1>11, <2>3 DEF SleepEnds, SleepBegins, mutexVars
    <3> QED BY <1>5, <1>7, <2>1, <3>1
  <2> QED BY <1>11, <2>1, <2>2, <2>3 DEF SleepEnds, K
<1>12. ASSUME NEW t \in Threads, Raised(t)
       PROVE  U'
  <2>1. op[t].kind \notin {"sleep", "cv"}
    BY DEF U, K
  <2>2. UNCHANGED <<owner, patrol>> /\ \E e : Returned(t, e)
    BY <1>12, <2>1 DEF Raised, Locked, mutexVars
  <2> QED BY <1>7, <2>2
<1>13. ASSUME NEW t \in Threads, Queue(t) \/ rb_thread_stop(t) \/ \E u \in Threads : thread_join(t, u)
       PROVE  U'
  <2>1. UNCHANGED <<owner, patrol>>
    BY <1>13 DEF Queue, rb_thread_stop, thread_join, mutexVars
  <2>2. CASE Queue(t)
    BY <1>10, <2>1, <2>2 DEF Queue
  <2>3. CASE rb_thread_stop(t)
    BY <1>5, <1>8, <2>1, <2>3 DEF rb_thread_stop, SleepBegins
  <2>4. CASE \E u \in Threads : thread_join(t, u)
    <3>1. PICK u, f : op' = [op EXCEPT ![t] = [kind |-> "join", arg |-> u, forever |-> f]]
      BY <2>4 DEF thread_join, SleepBegins
    <3> DEFINE o == [kind |-> "join", arg |-> u, forever |-> f]
    <3>2. o.kind \notin K /\ op' = [op EXCEPT ![t] = o]
      BY <1>9, <3>1
    <3> HIDE DEF o
    <3> QED BY <1>5, <2>1, <3>2
  <2> QED BY <1>13, <2>2, <2>3, <2>4
<1>14. ASSUME NEW t \in Threads,
              \/ native_sleep(t) \/ Wakes(t) \/ CheckInts(t) \/ CvSignal(t) \/ queue_do_close(t)
              \/ rb_szqueue_clear(t) \/ rb_szqueue_max_set(t)
              \/ \E u \in Threads : \/ Interrupt(t, u) \/ rb_thread_wakeup(t, u)
                                    \/ thread_create_core(t, u)
       PROVE  U'
  <2>1. UNCHANGED <<op, owner, patrol>>
    BY <1>14 DEF native_sleep, Wakes, CheckInts, CvSignal, queue_do_close, rb_szqueue_clear,
      rb_szqueue_max_set, Interrupt, rb_thread_wakeup, thread_create_core, mutexVars
  <2> QED BY <1>4, <2>1
<1>15. ASSUME UNCHANGED <<op, patrol>>, \A m \in Mutexes : owner'[m] \in {owner[m], None}
       PROVE  U'
  BY <1>15 DEF U
<1>16. ASSUME NEW t \in Threads, thread_start_func_2(t)
       PROVE  U'
  BY <1>15, <1>16 DEF thread_start_func_2, UnlockAll
<1>17. CASE MainExits \/ TermWakes \/ rb_thread_atfork
  <2>1. UNCHANGED <<op, patrol>> /\ \A m \in Mutexes : owner'[m] \in {owner[m], None}
    BY <1>17 DEF MainExits, TermWakes, rb_thread_atfork, UnlockAll
  <2> QED BY <1>15, <2>1
<1> QED BY <1>3, <1>11, <1>12, <1>13, <1>14, <1>16, <1>17 DEF Next, Step, Begins

----------------------------------------------------------------------------
(* Theorems *)

LEMMA Counts == Spec => [](SyncInv /\ CountInv)
<1>1. Init => SyncInv /\ CountInv
  BY InitSync, InitCount
<1>2. SyncInv /\ CountInv /\ [Next]_vars => (SyncInv /\ CountInv)'
  BY NextSync, NextCount
<1> QED BY <1>1, <1>2, PTL DEF Spec

\* vm->sleeper is the number of threads in sleep_forever and rb_mutex_lock, and
\* once a deadlock was reported it is not more: for any number of threads.
THEOREM SleepersAreCounted == Spec => []SleepersCounted
<1>1. SyncInv /\ CountInv => SleepersCounted
  BY DEF CountInv
<1> QED BY <1>1, Counts, PTL

\* A deadlock is reported, or there is a patrol thread that holds up the report.
THEOREM DeadlocksArePatrolled == Spec => []PatrolSet
<1>1. SyncInv /\ CountInv => PatrolSet
  BY DEF CountInv
<1> QED BY <1>1, Counts, PTL

\* fatal "No live threads left. Deadlock?" is raised only when every thread but
\* the caller of rb_check_deadlock is blocked.
THEOREM ReportsAreTrue == Spec => ReportIsTrue
<1>1. SyncInv /\ CountInv /\ [Next]_vars =>
        [reports' > reports => \E t \in Threads : \A u \in living \ {t} : Blocked(u)]_vars
  BY NextReports
<1> QED BY <1>1, Counts, PTL DEF Spec, ReportIsTrue

\* When every thread waits for others the deadlock was reported or the patrol,
\* which is alive, is on its way to find it: of all programs but those that both
\* lock mutexes and fork, as a child of fork may have the patrol of its parent.
THEOREM DeadlocksAreReported == Spec => []({"lock", "fork"} \subseteq ops \/ DeadlockReported)
<1>1. SyncInv /\ PatrolLives /\ Unlocked /\ [Next]_vars => (PatrolLives /\ Unlocked)'
  <2>1. PatrolLives /\ Unlocked /\ UNCHANGED vars => (PatrolLives /\ Unlocked)'
    BY DEF PatrolLives, Unlocked, vars, mutexVars
  <2> QED BY <2>1, NextLives, NextUnlocked
<1>2. Spec => [](PatrolLives /\ Unlocked)
  BY <1>1, InitPatrol, Counts, PTL DEF Spec
<1>3. CountInv /\ PatrolLives /\ Unlocked => {"lock", "fork"} \subseteq ops \/ DeadlockReported
  BY DEF CountInv, PatrolSet, PatrolLives, Unlocked, DeadlockReported
<1> QED BY <1>2, <1>3, Counts, PTL

----------------------------------------------------------------------------
(* Consumers and producers of a queue *)

\* The threads in a call of a kind.
In(k) == {t \in living : op[t].kind = k}

Distinct(s) == \A i, j \in DOMAIN s : s[i] = s[j] => i = j

\* While some of the threads P are on the list s, the others of P are enough
\* for the n items (or free places) there are.
Served(P, s, n, c) == P \cap Listed(s) # {} => ~c /\ n <= Cardinality(P \ Listed(s))

\* No exception has reached a thread, nor will.
Calm == ops \cap {"raise", "kill", "exit"} = {} /\ reports = 0 /\ ~ {"max", "fork"} \subseteq ops

\* Who is on a list.  Threads that a fork killed stay there, with their call.
ListsInv ==
  /\ \A t \in Threads : pend[t] = <<>>
  /\ \A t \in Listed(qwait) : op[t].kind = "pop"
  /\ \A t \in Listed(pwait) : op[t].kind = "push"
  /\ Distinct(qwait) /\ Distinct(pwait)
  /\ "fork" \notin ops => Listed(pwait) \subseteq living

QueueInv ==
  Calm => /\ ListsInv
          /\ Served(In("pop"), qwait, Len(que), closed)
          /\ Served(In("push"), pwait, max - Len(que), closed)

----------------------------------------------------------------------------
(* Lists without repetition *)

LEMMA DeleteTakesOff ==
  ASSUME NEW s \in Seq(Threads), NEW t \in Threads, Distinct(s)
  PROVE  Listed(Delete(s, t)) = Listed(s) \ {t} /\ Distinct(Delete(s, t))
<1> DEFINE k == CHOOSE i \in DOMAIN s : s[i] = t
           d == [i \in 1 .. Len(s) - 1 |-> s[IF i < k THEN i ELSE i + 1]]
<1>1. CASE t \notin Listed(s)
  BY <1>1 DEF Delete
<1>2. CASE t \in Listed(s)
  <2>1. k \in 1 .. Len(s) /\ s[k] = t /\ Len(s) \in Nat /\ DOMAIN s = 1 .. Len(s)
    BY <1>2, SMTT(30) DEF Listed
  <2>2. Delete(s, t) = d
    BY <1>2 DEF Delete
  <2> HIDE DEF k
  <2>3. DOMAIN d = 1 .. Len(s) - 1
    OBVIOUS
  <2>4. ASSUME NEW i \in DOMAIN d
        PROVE  \E j \in DOMAIN s : j # k /\ j = (IF i < k THEN i ELSE i + 1) /\ d[i] = s[j]
    BY <2>1, <2>3, SMTT(30)
  <2>5. t \notin Listed(d) /\ \A u \in Listed(d) : u \in Listed(s)
    <3>1. \A i \in DOMAIN d : d[i] # t
      BY <2>1, <2>4 DEF Distinct
    <3>2. \A i \in DOMAIN d : d[i] \in Listed(s)
      BY <2>4 DEF Listed
    <3> HIDE DEF d
    <3> QED BY <3>1, <3>2 DEF Listed
  <2>6. Distinct(d)
    <3> SUFFICES ASSUME NEW i \in DOMAIN d, NEW j \in DOMAIN d, d[i] = d[j]
                 PROVE  i = j
      BY DEF Distinct
    <3>1. (IF i < k THEN i ELSE i + 1) = (IF j < k THEN j ELSE j + 1)
      BY <2>4 DEF Distinct
    <3> QED BY <2>1, <2>3, <3>1, SMTT(30)
  <2> HIDE DEF d
  <2> QED BY <2>2, <2>5, <2>6, DeleteKeepsOthers
<1> QED BY <1>1, <1>2

\* A thread that is to sleep is on the list once.
LEMMA AppendPutsOn ==
  ASSUME NEW s \in Seq(Threads), NEW t \in Threads, Distinct(s)
  PROVE  LET r == Append(Delete(s, t), t)
         IN Listed(r) = Listed(s) \cup {t} /\ Distinct(r)
<1> DEFINE d == Delete(s, t)
<1>1. d \in Seq(Threads) /\ Listed(d) = Listed(s) \ {t} /\ Distinct(d)
  BY DeleteTakesOff, DeleteKeepsOthers
<1> HIDE DEF d
<1>2. Listed(Append(d, t)) = Listed(d) \cup {t}
  BY <1>1, AppendKeeps
<1>3. /\ DOMAIN Append(d, t) = (DOMAIN d) \cup {Len(d) + 1} /\ Append(d, t)[Len(d) + 1] = t
      /\ \A i \in DOMAIN d : Append(d, t)[i] = d[i]
  BY <1>1, SMTT(30)
<1>4. \A i \in DOMAIN d : d[i] # t
  BY <1>1 DEF Listed
<1>5. Distinct(Append(d, t))
  BY <1>1, <1>3, <1>4 DEF Distinct
<1> QED BY <1>1, <1>2, <1>5 DEF d

LEMMA TailLeavesHead ==
  ASSUME NEW s \in Seq(Threads), NEW n \in 0 .. Len(s), Distinct(s)
  PROVE  LET r == SubSeq(s, n + 1, Len(s))
         IN /\ r \in Seq(Threads) /\ Distinct(r) /\ Listed(r) \subseteq Listed(s)
            /\ \A i \in 1 .. n : s[i] \in Listed(s) /\ s[i] \notin Listed(r)
            /\ \A i \in 1 .. Len(s) : i <= n \/ s[i] \in Listed(r)
<1> DEFINE r == SubSeq(s, n + 1, Len(s))
<1>1. r \in Seq(Threads) /\ DOMAIN r = 1 .. Len(s) - n /\ DOMAIN s = 1 .. Len(s) /\ Len(s) \in Nat
  BY SMTT(30)
<1>2. \A i \in DOMAIN r : r[i] = s[n + i] /\ n + i \in DOMAIN s /\ n + i > n
  BY <1>1, SMTT(30)
<1> HIDE DEF r
<1>3. Distinct(r)
  <2> SUFFICES ASSUME NEW i \in DOMAIN r, NEW j \in DOMAIN r, r[i] = r[j]
               PROVE  i = j
    BY DEF Distinct
  <2>1. n + i = n + j
    BY <1>2 DEF Distinct
  <2> QED BY <1>1, <2>1, SMTT(30)
<1>4. Listed(r) \subseteq Listed(s)
  BY <1>2 DEF Listed
<1>5. ASSUME NEW i \in 1 .. n
      PROVE  s[i] \in Listed(s) /\ s[i] \notin Listed(r)
  <2>1. i \in DOMAIN s /\ \A j \in DOMAIN r : n + j # i
    BY <1>1, SMTT(30)
  <2>2. \A j \in DOMAIN r : r[j] # s[i]
    BY <1>2, <2>1 DEF Distinct
  <2> QED BY <2>1, <2>2 DEF Listed
<1>6. ASSUME NEW i \in 1 .. Len(s), ~ (i <= n)
      PROVE  s[i] \in Listed(r)
  <2>1. i - n \in DOMAIN r /\ n + (i - n) = i
    BY <1>1, <1>6, SMTT(30)
  <2>2. r[i - n] = s[i]
    BY <1>2, <2>1
  <2> QED BY <2>1, <2>2 DEF Listed
<1> QED BY <1>1, <1>3, <1>4, <1>5, <1>6 DEF r

\* wakeup_first_thread takes the first living thread off, and no other.
LEMMA FirstTakenOff ==
  ASSUME NEW s \in Seq(Threads), Distinct(s)
  PROVE  /\ AfterFirst(s) \in Seq(Threads) /\ Distinct(AfterFirst(s))
         /\ Listed(AfterFirst(s)) \subseteq Listed(s)
         /\ (\E u \in Listed(s) : status[u] # "killed") =>
              \E f \in Listed(s) :
                /\ status[f] # "killed" /\ f \notin Listed(AfterFirst(s))
                /\ \A u \in Listed(s) : u = f \/ u \in Listed(AfterFirst(s)) \/ status[u] = "killed"
<1>1. CASE Alive(s) = {}
  <2>1. AfterFirst(s) = <<>>
    BY <1>1 DEF AfterFirst
  <2>2. DOMAIN <<>> = {} /\ <<>> \in Seq(Threads)
    BY SMTT(30)
  <2>3. Distinct(<<>>) /\ Listed(<<>>) = {}
    BY <2>2 DEF Distinct, Listed
  <2>4. \A u \in Listed(s) : status[u] = "killed"
    BY <1>1 DEF Alive, Listed
  <2> QED BY <2>1, <2>2, <2>3, <2>4
<1>2. CASE Alive(s) # {}
  <2> DEFINE k == FirstAlive(s)
  <2>1. k \in Alive(s) /\ \A j \in Alive(s) : k <= j
    <3>1. Alive(s) \in SUBSET Nat
      BY SMTT(30) DEF Alive
    <3>2. \E i \in Alive(s) : \A j \in Alive(s) : i <= j
      BY <3>1, <1>2, HasLeast
    <3> QED BY <3>2 DEF FirstAlive
  <2>2. FirstThread(s) = {s[k]} /\ AfterFirst(s) = SubSeq(s, k + 1, Len(s))
    BY <1>2 DEF FirstThread, AfterFirst
  <2> HIDE DEF k
  <2>3. k \in 0 .. Len(s) /\ k \in 1 .. k /\ k \in DOMAIN s
    BY <2>1, SMTT(30) DEF Alive
  <2>4. /\ AfterFirst(s) \in Seq(Threads) /\ Distinct(AfterFirst(s))
        /\ Listed(AfterFirst(s)) \subseteq Listed(s)
        /\ s[k] \in Listed(s) /\ s[k] \notin Listed(AfterFirst(s))
    <3> DEFINE r == SubSeq(s, k + 1, Len(s))
    <3>1. /\ r \in Seq(Threads) /\ Distinct(r) /\ Listed(r) \subseteq Listed(s)
          /\ \A i \in 1 .. k : s[i] \in Listed(s) /\ s[i] \notin Listed(r)
      BY <2>3, TailLeavesHead
    <3> HIDE DEF r
    <3>2. AfterFirst(s) = r
      BY <2>2 DEF r
    <3> QED BY <2>3, <3>1, <3>2
  <2>5. status[s[k]] # "killed"
    BY <2>1 DEF Alive
  <2>6. \A u \in Listed(s) : u = s[k] \/ u \in Listed(AfterFirst(s)) \/ status[u] = "killed"
    BY <2>2, FirstIsWoken
  <2> QED BY <2>4, <2>5, <2>6
<1> QED BY <1>1, <1>2

----------------------------------------------------------------------------
(* One side of the queue: P waits on s for n items *)

LEMMA WaitersFinite ==
  ASSUME NEW P \in SUBSET Threads, NEW Q
  PROVE  IsFiniteSet(P \ Q) /\ Cardinality(P \ Q) \in Nat
BY ThreadsFinite, FS_Subset, FS_CardinalityType

\* One of them takes an item and leaves, or somebody else does.
LEMMA OneServed ==
  ASSUME NEW P \in SUBSET Threads, NEW s \in Seq(Threads), NEW n \in Int, NEW c, NEW t \in Threads,
         Distinct(s), Served(P, s, n, c)
  PROVE  /\ Served(P \ {t}, Delete(s, t), n - 1, c)
         /\ c => Served(P \ {t}, Delete(s, t), n, c)
<1> DEFINE W == P \ Listed(s)
           V == (P \ {t}) \ Listed(Delete(s, t))
<1>1. Listed(Delete(s, t)) = Listed(s) \ {t}
  BY DeleteTakesOff
<1>2. V = W \ {t} /\ IsFiniteSet(W) /\ Cardinality(W) \in Nat
  BY <1>1, WaitersFinite
<1>3. Cardinality(V) = IF t \in W THEN Cardinality(W) - 1 ELSE Cardinality(W)
  <2> HIDE DEF W, V
  <2> QED BY <1>2, FS_RemoveElement
<1>4. n <= Cardinality(W) => n - 1 <= Cardinality(V)
  <2> HIDE DEF W, V
  <2> QED BY <1>2, <1>3, SMTT(30)
<1>5. (P \ {t}) \cap Listed(Delete(s, t)) # {} => P \cap Listed(s) # {}
  BY <1>1
<1> QED BY <1>4, <1>5 DEF Served

\* An item comes, and wakeup_first_thread wakes one of them for it.
LEMMA OneWoken ==
  ASSUME NEW P \in SUBSET Threads, NEW s \in Seq(Threads), NEW n \in Int, NEW c,
         Distinct(s), Served(P, s, n, c), \A u \in Listed(s) : u \in P <=> status[u] # "killed"
  PROVE  Served(P, AfterFirst(s), n + 1, c)
<1> SUFFICES ASSUME P \cap Listed(AfterFirst(s)) # {}
             PROVE  ~c /\ n + 1 <= Cardinality(P \ Listed(AfterFirst(s)))
  BY DEF Served
<1>1. PICK f \in Listed(s) :
        /\ status[f] # "killed" /\ f \notin Listed(AfterFirst(s))
        /\ \A u \in Listed(s) : u = f \/ u \in Listed(AfterFirst(s)) \/ status[u] = "killed"
  BY FirstTakenOff
<1>2. Listed(AfterFirst(s)) \subseteq Listed(s)
  BY FirstTakenOff
<1> DEFINE W == P \ Listed(s)
           V == P \ Listed(AfterFirst(s))
<1>3. V = W \cup {f} /\ f \notin W
  BY <1>1, <1>2
<1>4. IsFiniteSet(W) /\ Cardinality(W) \in Nat
  BY WaitersFinite
<1>5. Cardinality(V) = Cardinality(W) + 1
  BY <1>3, <1>4, FS_AddElement
<1>6. ~c /\ n <= Cardinality(W)
  BY <1>2 DEF Served
<1> HIDE DEF W, V
<1>7. n + 1 <= Cardinality(V)
  BY <1>4, <1>5, <1>6, SMTT(30)
<1> QED BY <1>6, <1>7 DEF V

\* SizedQueue#max= makes places and wakes as many of them.
LEMMA HeadServed ==
  ASSUME NEW P \in SUBSET Threads, NEW s \in Seq(Threads), NEW n \in Int, NEW c,
         NEW k \in 0 .. Len(s), Distinct(s), Served(P, s, n, c), Listed(s) \subseteq P
  PROVE  Served(P, SubSeq(s, k + 1, Len(s)), n + k, c)
<1> DEFINE r == SubSeq(s, k + 1, Len(s))
           W == P \ Listed(s)
           V == P \ Listed(r)
           H == {s[i] : i \in 1 .. k}
           f == [i \in 1 .. k |-> s[i]]
<1>1. /\ Listed(r) \subseteq Listed(s)
      /\ \A i \in 1 .. k : s[i] \in Listed(s) /\ s[i] \notin Listed(r)
      /\ \A i \in 1 .. Len(s) : i <= k \/ s[i] \in Listed(r)
  BY TailLeavesHead
<1> HIDE DEF r
<1>2. k \in Nat /\ k \in Int /\ 1 \in Int /\ DOMAIN s = 1 .. Len(s) /\ (1 .. k) \subseteq DOMAIN s
  BY SMTT(30)
<1>3. \A i \in 1 .. Len(s) : i <= k => i \in 1 .. k
  BY <1>2, SMTT(30)
<1>4. V = W \cup H /\ W \cap H = {}
  <2>1. \A u \in Listed(s) : u \in H \/ u \in Listed(r)
    BY <1>1, <1>2, <1>3 DEF Listed
  <2>2. \A u \in H : u \in Listed(s) /\ u \notin Listed(r)
    BY <1>1
  <2> HIDE DEF H
  <2> QED BY <1>1, <2>1, <2>2
<1>5. IsFiniteSet(1 .. k) /\ Cardinality(1 .. k) = k
  <2>1. IsFiniteSet(1 .. k) /\ Cardinality(1 .. k) = IF 1 > k THEN 0 ELSE k - 1 + 1
    BY <1>2, FS_Interval
  <2> QED BY <1>2, <2>1, SMTT(30)
<1>6. IsFiniteSet(H) /\ Cardinality(H) = k
  <2>1. f \in [1 .. k -> H] /\ \A i \in 1 .. k : f[i] = s[i]
    OBVIOUS
  <2>2. \A h \in H : \E i \in 1 .. k : f[i] = h
    OBVIOUS
  <2>3. \A i, j \in 1 .. k : f[i] = f[j] => i = j
    BY <1>2, <2>1 DEF Distinct
  <2> HIDE DEF f, H
  <2>4. f \in Surjection(1 .. k, H) /\ f \in Injection(1 .. k, H)
    BY <2>1, <2>2, <2>3 DEF Surjection, Injection, IsInjective
  <2> QED BY <1>5, <2>4, FS_Surjection
<1>7. IsFiniteSet(W) /\ Cardinality(W) \in Nat
  BY WaitersFinite
<1>8. Cardinality(V) = Cardinality(W) + k
  <2>1. Cardinality(V) = Cardinality(W) + Cardinality(H) - Cardinality(W \cap H)
    BY <1>4, <1>6, <1>7, FS_Union
  <2>2. Cardinality(W \cap H) = 0
    BY <1>4, FS_EmptySet
  <2> HIDE DEF V, W, H
  <2> QED BY <1>2, <1>6, <1>7, <2>1, <2>2, SMTT(30)
<1>9. n <= Cardinality(W) => n + k <= Cardinality(V)
  <2> HIDE DEF V, W
  <2> QED BY <1>2, <1>7, <1>8, SMTT(30)
<1>10. P \cap Listed(r) # {} => ~c /\ n + k <= Cardinality(V)
  BY <1>1, <1>9 DEF Served
<1> QED BY <1>10 DEF Served, r

\* There is nothing to be had.
LEMMA NoneServed ==
  ASSUME NEW P \in SUBSET Threads, NEW s, NEW n \in Int, NEW c, n <= 0, ~c
  PROVE  Served(P, s, n, c)
<1>1. Cardinality(P \ Listed(s)) \in Nat
  BY WaitersFinite
<1>2. n <= Cardinality(P \ Listed(s))
  BY <1>1, SMTT(30)
<1> QED BY <1>2 DEF Served

LEMMA NobodyWaits ==
  ASSUME NEW P, NEW n, NEW c
  PROVE  Served(P, <<>>, n, c) /\ Distinct(<<>>) /\ Listed(<<>>) = {}
<1>1. DOMAIN <<>> = {}
  BY SMTT(30)
<1>2. Listed(<<>>) = {} /\ Distinct(<<>>)
  BY <1>1 DEF Listed, Distinct
<1> QED BY <1>2 DEF Served

\* Fewer items than before, or none.
LEMMA FewerServed ==
  ASSUME NEW P \in SUBSET Threads, NEW s, NEW n \in Int, NEW c, NEW m \in Int,
         Served(P, s, n, c), m <= n \/ m <= 0
  PROVE  Served(P, s, m, c)
<1>1. Cardinality(P \ Listed(s)) \in Nat
  BY WaitersFinite
<1>2. n <= Cardinality(P \ Listed(s)) => m <= Cardinality(P \ Listed(s))
  BY <1>1, SMTT(30)
<1> QED BY <1>2 DEF Served

----------------------------------------------------------------------------
(* Steps of the threads *)

LEMMA QueueTypes ==
  ASSUME TypeOK, NEW k
  PROVE  /\ que \in Seq(Items) /\ Len(que) \in Nat /\ Len(que) \in Int /\ max \in Nat
         /\ max - Len(que) \in Int /\ qwait \in Seq(Threads) /\ pwait \in Seq(Threads)
         /\ op \in [Threads -> Calls] /\ living \subseteq Threads /\ In(k) \in SUBSET Threads
<1>1. /\ que \in Seq(Items) /\ qwait \in Seq(Threads) /\ pwait \in Seq(Threads)
      /\ op \in [Threads -> Calls] /\ living \subseteq Threads
  BY CallTypes
<1>2. max \in Nat
  BY SyncAssumption DEF TypeOK
<1>3. Len(que) \in Nat
  BY <1>1, SMTT(30)
<1>4. Len(que) \in Int /\ max - Len(que) \in Int
  BY <1>2, <1>3, SMTT(30)
<1> QED BY <1>1, <1>2, <1>3, <1>4 DEF In

\* A thread on a list is in its call, or was killed in it.
LEMMA ListedAlive ==
  ASSUME SyncInv, NEW k \in {"pop", "push"}, NEW s \in Seq(Threads),
         \A u \in Listed(s) : op[u].kind = k
  PROVE  \A u \in Listed(s) : u \in In(k) <=> status[u] # "killed"
<1>1. Free.kind = "none"
  BY DEF Free
<1>2. Listed(s) \subseteq Threads
  BY SMTT(30) DEF Listed
<1>3. ASSUME NEW u \in Listed(s)
      PROVE  u \in In(k) <=> status[u] # "killed"
  <2>1. Place(u) /\ Call(u) /\ op[u] # Free
    BY <1>1, <1>2 DEF SyncInv, ThreadOK
  <2> QED BY <2>1 DEF Place, Call, In
<1> QED BY <1>3

\* A step outside the queue.
LEMMA QuietQueue ==
  ASSUME QueueInv, TypeOK, TypeOK', UNCHANGED <<que, max, closed, qwait, pwait, ops>>,
         reports' = 0 => reports = 0,
         Calm /\ Calm' => \A u \in Threads : pend'[u] = <<>>,
         \A u \in Threads : \A k \in {"pop", "push"} : op'[u].kind = k <=> op[u].kind = k,
         \A u \in Threads : op[u].kind \in {"pop", "push"} => (u \in living' <=> u \in living)
  PROVE  QueueInv'
<1> SUFFICES ASSUME Calm'
             PROVE  /\ ListsInv' /\ Served(In("pop"), qwait, Len(que), closed)'
                    /\ Served(In("push"), pwait, max - Len(que), closed)'
  BY DEF QueueInv
<1>1. Calm
  BY DEF Calm
<1>2. living \subseteq Threads /\ living' \subseteq Threads
  BY DEF TypeOK
<1>3. In("pop")' = In("pop") /\ In("push")' = In("push")
  BY <1>2 DEF In
<1>4. Listed(qwait) \subseteq Threads /\ Listed(pwait) \subseteq Threads
  <2>1. \A s \in Seq(Threads) : Listed(s) \subseteq Threads
    BY SMTT(30) DEF Listed
  <2> QED BY <2>1, CallTypes
<1>5. ListsInv
  BY <1>1 DEF QueueInv
<1>6. ListsInv'
  BY <1>1, <1>4, <1>5 DEF ListsInv
<1>7. /\ Served(In("pop"), qwait, Len(que), closed)'
      /\ Served(In("push"), pwait, max - Len(que), closed)'
  BY <1>1, <1>3 DEF QueueInv, Served
<1> QED BY <1>6, <1>7

\* The same: the thread t begins or ends a call that is not of the queue.
LEMMA OtherCall ==
  ASSUME QueueInv, TypeOK, TypeOK', UNCHANGED <<que, max, closed, qwait, pwait, ops, living>>,
         reports' = 0 => reports = 0,
         Calm /\ Calm' => \A u \in Threads : pend'[u] = <<>>,
         NEW t \in Threads, op[t].kind \notin {"pop", "push"},
         NEW o, o.kind \notin {"pop", "push"}, op' = [op EXCEPT ![t] = o]
  PROVE  QueueInv'
<1>1. op \in [Threads -> Calls]
  BY CallTypes
<1>2. op'[t] = o /\ \A u \in Threads \ {t} : op'[u] = op[u]
  BY <1>1
<1>3. \A u \in Threads : \A k \in {"pop", "push"} : op'[u].kind = k <=> op[u].kind = k
  BY <1>2
<1> QED BY <1>3, QuietQueue

\* What the queue operations leave of the lists.
LEMMA ListsKept ==
  ASSUME ListsInv, TypeOK, TypeOK', NEW t \in Threads, UNCHANGED <<living, ops, pend>>,
         t \in living,
         \A u \in Threads \ {t} : op'[u] = op[u],
         Distinct(qwait'), Distinct(pwait'),
         \A u \in Listed(qwait') : u = t \/ u \in Listed(qwait),
         \A u \in Listed(pwait') : u = t \/ u \in Listed(pwait),
         t \in Listed(qwait') => op'[t].kind = "pop",
         t \in Listed(pwait') => op'[t].kind = "push"
  PROVE  ListsInv'
<1>1. \A s \in Seq(Threads) : Listed(s) \subseteq Threads
  BY SMTT(30) DEF Listed
<1>2. Listed(qwait') \subseteq Threads /\ Listed(pwait') \subseteq Threads
  BY <1>1 DEF TypeOK
<1>3. ASSUME NEW u \in Listed(qwait')
      PROVE  op'[u].kind = "pop"
  <2>1. CASE u = t
    BY <2>1
  <2>2. CASE u # t
    <3>1. u \in Listed(qwait) /\ u \in Threads \ {t}
      BY <1>2, <2>2
    <3>2. op'[u] = op[u] /\ op[u].kind = "pop"
      BY <3>1 DEF ListsInv
    <3> QED BY <3>2
  <2> QED BY <2>1, <2>2
<1>4. ASSUME NEW u \in Listed(pwait')
      PROVE  op'[u].kind = "push"
  <2>1. CASE u = t
    BY <2>1
  <2>2. CASE u # t
    <3>1. u \in Listed(pwait) /\ u \in Threads \ {t}
      BY <1>2, <2>2
    <3>2. op'[u] = op[u] /\ op[u].kind = "push"
      BY <3>1 DEF ListsInv
    <3> QED BY <3>2
  <2> QED BY <2>1, <2>2
<1>5. "fork" \notin ops' => Listed(pwait') \subseteq living'
  BY DEF ListsInv
<1>6. \A u \in Threads : pend'[u] = <<>>
  BY DEF ListsInv
<1> QED BY <1>3, <1>4, <1>5, <1>6 DEF ListsInv

\* Who is in the calls after a step of t.
LEMMA CallersAre ==
  ASSUME TypeOK, TypeOK', NEW t \in living, UNCHANGED living, NEW o, op' = [op EXCEPT ![t] = o],
         NEW k
  PROVE  /\ o.kind = k => In(k)' = In(k) \cup {t}
         /\ o.kind # k => In(k)' = In(k) \ {t}
         /\ op[t].kind # k => t \notin In(k)
         /\ op'[t] = o /\ \A u \in Threads \ {t} : op'[u] = op[u]
<1>1. op \in [Threads -> Calls] /\ living \subseteq Threads
  BY CallTypes
<1>2. op'[t] = o /\ \A u \in Threads \ {t} : op'[u] = op[u]
  BY <1>1
<1> QED BY <1>1, <1>2 DEF In

----------------------------------------------------------------------------
(* The operations of the queue *)

LEMMA PopServes ==
  ASSUME SyncInv, TypeOK', QueueInv, NEW t \in living, op[t].kind \in {"none", "pop"},
         NEW st, NEW fl, queue_do_pop(t, st, fl),
         UNCHANGED <<living, pend, max, closed, reports, ops>>
  PROVE  QueueInv'
<1> SUFFICES ASSUME Calm'
             PROVE  /\ ListsInv' /\ Served(In("pop"), qwait, Len(que), closed)'
                    /\ Served(In("push"), pwait, max - Len(que), closed)'
  BY DEF QueueInv
<1> DEFINE P == In("pop")
           V == In("push")
           n == Len(que)
<1>1. TypeOK /\ t \in Threads
  BY CallTypes DEF SyncInv
<1>2. /\ que \in Seq(Items) /\ n \in Nat /\ n \in Int /\ max \in Nat /\ max - n \in Int
      /\ qwait \in Seq(Threads) /\ pwait \in Seq(Threads)
      /\ P \in SUBSET Threads /\ V \in SUBSET Threads
  BY <1>1, QueueTypes
<1>3. Calm /\ ListsInv /\ Served(P, qwait, n, closed) /\ Served(V, pwait, max - n, closed)
  BY DEF Calm, QueueInv
<1>4. /\ Distinct(qwait) /\ Distinct(pwait) /\ t \notin Listed(pwait)
      /\ \A u \in Listed(pwait) : u \in V <=> status[u] # "killed"
  BY <1>2, <1>3, ListedAlive DEF ListsInv
<1>5. t \notin V /\ Free.kind = "none"
  <2>1. Free.kind = "none"
    BY DEF Free
  <2> QED BY <2>1 DEF In
<1>6. Listed(Delete(qwait, t)) = Listed(qwait) \ {t} /\ Distinct(Delete(qwait, t))
  BY <1>1, <1>2, <1>4, DeleteTakesOff
<1>7. ASSUME Returned(t, "none"), qwait' = Delete(qwait, t), pwait' \in {pwait, AfterFirst(pwait)}
      PROVE  ListsInv' /\ In("pop")' = P \ {t} /\ In("push")' = V
  <2>1. op' = [op EXCEPT ![t] = Free]
    BY <1>7 DEF Returned
  <2>2. /\ In("pop")' = P \ {t} /\ In("push")' = V
        /\ \A u \in Threads \ {t} : op'[u] = op[u]
    <3>1. In("pop")' = P \ {t} /\ \A u \in Threads \ {t} : op'[u] = op[u]
      BY <1>1, <1>5, <2>1, CallersAre
    <3>2. In("push")' = V \ {t}
      BY <1>1, <1>5, <2>1, CallersAre
    <3> QED BY <1>5, <3>1, <3>2
  <2>3. Distinct(pwait') /\ Listed(pwait') \subseteq Listed(pwait)
    BY <1>2, <1>4, <1>7, FirstTakenOff
  <2>4. t \notin Listed(pwait') /\ t \notin Listed(qwait') /\ Listed(qwait') \subseteq Listed(qwait)
    BY <1>4, <1>6, <1>7, <2>3
  <2>5. ListsInv'
    BY <1>1, <1>3, <1>6, <1>7, <2>2, <2>3, <2>4, ListsKept
  <2> QED BY <2>2, <2>5
<1> HIDE DEF P, V, n
<1>8. CASE que # <<>> /\ Returned(t, "none") /\ que' = Tail(que) /\ qwait' = Delete(qwait, t)
           /\ pwait' = IF Len(que) - 1 >= max THEN pwait ELSE AfterFirst(pwait)
  <2>1. Len(que') = n - 1 /\ max - (n - 1) \in Int /\ max - (n - 1) = (max - n) + 1
    <3>1. Len(que') = Len(que) - 1
      BY <1>2, <1>8, SMTT(30)
    <3> QED BY <1>2, <3>1, SMTT(30) DEF n
  <2>2. ListsInv' /\ In("pop")' = P \ {t} /\ In("push")' = V
    BY <1>7, <1>8
  <2>3. Served(P \ {t}, qwait', n - 1, closed)
    BY <1>1, <1>2, <1>3, <1>4, <1>8, OneServed
  <2>4. Served(V, pwait', max - (n - 1), closed)
    <3>1. CASE n - 1 >= max
      <4>1. max - (n - 1) <= 0 /\ pwait' = pwait
        BY <1>2, <1>8, <3>1, SMTT(30) DEF n
      <4> QED BY <1>2, <1>3, <2>1, <4>1, FewerServed
    <3>2. CASE ~ (n - 1 >= max)
      <4>1. pwait' = AfterFirst(pwait)
        BY <1>8, <3>2 DEF n
      <4>2. Served(V, AfterFirst(pwait), (max - n) + 1, closed)
        BY <1>2, <1>3, <1>4, OneWoken
      <4> QED BY <2>1, <4>1, <4>2
    <3> QED BY <3>1, <3>2
  <2> QED BY <2>1, <2>2, <2>3, <2>4 DEF Served
<1>9. CASE closed /\ Returned(t, "none") /\ qwait' = Delete(qwait, t) /\ UNCHANGED <<que, pwait>>
  <2>1. ListsInv' /\ In("pop")' = P \ {t} /\ In("push")' = V
    BY <1>7, <1>9
  <2>2. Served(P \ {t}, qwait', n, closed)
    BY <1>1, <1>2, <1>3, <1>4, <1>9, OneServed
  <2>3. Len(que') = n
    BY <1>9 DEF n
  <2> QED BY <1>3, <1>9, <2>1, <2>2, <2>3 DEF Served
<1>10. CASE /\ que = <<>> /\ ~closed /\ qwait' = Append(Delete(qwait, t), t)
            /\ SleepBegins(t, [Free EXCEPT !.kind = "pop"]) /\ UNCHANGED <<que, pwait>>
  <2> DEFINE o == [Free EXCEPT !.kind = "pop"]
  <2>1. o.kind = "pop" /\ op' = [op EXCEPT ![t] = o]
    <3>1. o.kind = "pop"
      BY CallForever DEF Kinds
    <3> QED BY <1>10, <3>1 DEF SleepBegins
  <2> HIDE DEF o
  <2>2. /\ In("pop")' = P \cup {t} /\ In("push")' = V /\ op'[t].kind = "pop"
        /\ \A u \in Threads \ {t} : op'[u] = op[u]
    <3>1. /\ In("pop")' = In("pop") \cup {t} /\ op'[t] = o
          /\ \A u \in Threads \ {t} : op'[u] = op[u]
      BY <1>1, <2>1, CallersAre
    <3>2. In("push")' = In("push") \ {t}
      BY <1>1, <2>1, CallersAre
    <3> QED BY <1>5, <2>1, <3>1, <3>2 DEF P, V
  <2>3. Listed(qwait') = Listed(qwait) \cup {t} /\ Distinct(qwait')
    BY <1>1, <1>2, <1>4, <1>10, AppendPutsOn
  <2>4. ListsInv'
    BY <1>1, <1>3, <1>4, <1>10, <2>2, <2>3, ListsKept
  <2>5. Len(que') = n /\ n <= 0
    <3>1. Len(que) = 0
      BY <1>10
    <3> QED BY <1>2, <1>10, <3>1, SMTT(30) DEF n
  <2>6. Served(P \cup {t}, qwait', n, closed)
    <3>1. P \cup {t} \in SUBSET Threads
      BY <1>1, <1>2
    <3> QED BY <1>2, <1>10, <2>5, <3>1, NoneServed
  <2> QED BY <1>3, <1>10, <2>2, <2>4, <2>5, <2>6 DEF Served
<1> QED BY <1>8, <1>9, <1>10 DEF queue_do_pop

LEMMA PushServes ==
  ASSUME SyncInv, TypeOK', QueueInv, NEW t \in living, op[t].kind \in {"none", "push"},
         NEW st, NEW fl, rb_szqueue_push(t, st, fl),
         UNCHANGED <<living, pend, max, closed, reports, ops>>
  PROVE  QueueInv'
<1> SUFFICES ASSUME Calm'
             PROVE  /\ ListsInv' /\ Served(In("pop"), qwait, Len(que), closed)'
                    /\ Served(In("push"), pwait, max - Len(que), closed)'
  BY DEF QueueInv
<1> DEFINE P == In("pop")
           V == In("push")
           n == Len(que)
<1>1. TypeOK /\ t \in Threads
  BY CallTypes DEF SyncInv
<1>2. /\ que \in Seq(Items) /\ n \in Nat /\ n \in Int /\ max \in Nat /\ max - n \in Int
      /\ qwait \in Seq(Threads) /\ pwait \in Seq(Threads)
      /\ P \in SUBSET Threads /\ V \in SUBSET Threads
  BY <1>1, QueueTypes
<1>3. Calm /\ ListsInv /\ Served(P, qwait, n, closed) /\ Served(V, pwait, max - n, closed)
  BY DEF Calm, QueueInv
<1>4. /\ Distinct(qwait) /\ Distinct(pwait) /\ t \notin Listed(qwait)
      /\ \A u \in Listed(qwait) : u \in P <=> status[u] # "killed"
  BY <1>2, <1>3, ListedAlive DEF ListsInv
<1>5. t \notin P /\ Free.kind = "none"
  <2>1. Free.kind = "none"
    BY DEF Free
  <2> QED BY <2>1 DEF In
<1>6. Listed(Delete(pwait, t)) = Listed(pwait) \ {t} /\ Distinct(Delete(pwait, t))
  BY <1>1, <1>2, <1>4, DeleteTakesOff
<1>7. ASSUME Returned(t, "none"), pwait' = Delete(pwait, t), qwait' \in {qwait, AfterFirst(qwait)}
      PROVE  ListsInv' /\ In("push")' = V \ {t} /\ In("pop")' = P
  <2>1. op' = [op EXCEPT ![t] = Free]
    BY <1>7 DEF Returned
  <2>2. /\ In("push")' = V \ {t} /\ In("pop")' = P
        /\ \A u \in Threads \ {t} : op'[u] = op[u]
    <3>1. In("push")' = V \ {t} /\ \A u \in Threads \ {t} : op'[u] = op[u]
      BY <1>1, <1>5, <2>1, CallersAre
    <3>2. In("pop")' = P \ {t}
      BY <1>1, <1>5, <2>1, CallersAre
    <3> QED BY <1>5, <3>1, <3>2
  <2>3. Distinct(qwait') /\ Listed(qwait') \subseteq Listed(qwait)
    BY <1>2, <1>4, <1>7, FirstTakenOff
  <2>4. t \notin Listed(pwait') /\ t \notin Listed(qwait') /\ Listed(pwait') \subseteq Listed(pwait)
    BY <1>4, <1>6, <1>7, <2>3
  <2>5. ListsInv'
    BY <1>1, <1>3, <1>6, <1>7, <2>2, <2>3, <2>4, ListsKept
  <2> QED BY <2>2, <2>5
<1> HIDE DEF P, V, n
<1>8. CASE Returned(t, "none") /\ (\E x \in Items : que' = Append(que, x))
           /\ pwait' = Delete(pwait, t) /\ qwait' = AfterFirst(qwait)
  <2>1. Len(que') = n + 1 /\ max - (n + 1) = (max - n) - 1
    <3>1. Len(que') = Len(que) + 1
      BY <1>2, <1>8, SMTT(30)
    <3> QED BY <1>2, <3>1, SMTT(30) DEF n
  <2>2. ListsInv' /\ In("push")' = V \ {t} /\ In("pop")' = P
    BY <1>7, <1>8
  <2>3. Served(V \ {t}, pwait', (max - n) - 1, closed)
    BY <1>1, <1>2, <1>3, <1>4, <1>8, OneServed
  <2>4. Served(P, qwait', n + 1, closed)
    BY <1>2, <1>3, <1>4, <1>8, OneWoken
  <2> QED BY <2>1, <2>2, <2>3, <2>4 DEF Served
<1>9. CASE closed /\ Returned(t, "none") /\ pwait' = Delete(pwait, t) /\ UNCHANGED <<que, qwait>>
  <2>1. ListsInv' /\ In("push")' = V \ {t} /\ In("pop")' = P
    BY <1>7, <1>9
  <2>2. Served(V \ {t}, pwait', max - n, closed)
    BY <1>1, <1>2, <1>3, <1>4, <1>9, OneServed
  <2>3. Len(que') = n
    BY <1>9 DEF n
  <2> QED BY <1>3, <1>9, <2>1, <2>2, <2>3 DEF Served
<1>10. CASE /\ Full /\ ~closed /\ pwait' = Append(Delete(pwait, t), t)
            /\ SleepBegins(t, [Free EXCEPT !.kind = "push"]) /\ UNCHANGED <<que, qwait>>
  <2> DEFINE o == [Free EXCEPT !.kind = "push"]
  <2>1. o.kind = "push" /\ op' = [op EXCEPT ![t] = o]
    <3>1. o.kind = "push"
      BY CallForever DEF Kinds
    <3> QED BY <1>10, <3>1 DEF SleepBegins
  <2> HIDE DEF o
  <2>2. /\ In("push")' = V \cup {t} /\ In("pop")' = P /\ op'[t].kind = "push"
        /\ \A u \in Threads \ {t} : op'[u] = op[u]
    <3>1. /\ In("push")' = In("push") \cup {t} /\ op'[t] = o
          /\ \A u \in Threads \ {t} : op'[u] = op[u]
      BY <1>1, <2>1, CallersAre
    <3>2. In("pop")' = In("pop") \ {t}
      BY <1>1, <2>1, CallersAre
    <3> QED BY <1>5, <2>1, <3>1, <3>2 DEF P, V
  <2>3. Listed(pwait') = Listed(pwait) \cup {t} /\ Distinct(pwait')
    BY <1>1, <1>2, <1>4, <1>10, AppendPutsOn
  <2>4. ListsInv'
    BY <1>1, <1>3, <1>4, <1>10, <2>2, <2>3, ListsKept
  <2>5. Len(que') = n /\ max - n <= 0
    BY <1>2, <1>10, SMTT(30) DEF n, Full
  <2>6. Served(V \cup {t}, pwait', max - n, closed)
    <3>1. V \cup {t} \in SUBSET Threads
      BY <1>1, <1>2
    <3> QED BY <1>2, <1>10, <2>5, <3>1, NoneServed
  <2> QED BY <1>3, <1>10, <2>2, <2>4, <2>5, <2>6 DEF Served
<1> QED BY <1>8, <1>9, <1>10 DEF rb_szqueue_push

\* Queue#close and SizedQueue#clear leave nobody on the lists they wake.
LEMMA CloseServes ==
  ASSUME SyncInv, TypeOK', QueueInv, NEW t \in Threads, UNCHANGED ops,
         queue_do_close(t) \/ rb_szqueue_clear(t)
  PROVE  QueueInv'
<1> SUFFICES ASSUME Calm'
             PROVE  /\ ListsInv' /\ Served(In("pop"), qwait, Len(que), closed)'
                    /\ Served(In("push"), pwait, max - Len(que), closed)'
  BY DEF QueueInv
<1>1. /\ UNCHANGED <<living, op, pend, reports, ops>> /\ pwait' = <<>>
      /\ qwait' = <<>> \/ (UNCHANGED <<qwait, closed>> /\ que' = <<>>)
  BY DEF queue_do_close, rb_szqueue_clear
<1>2. Calm /\ ListsInv /\ Served(In("pop"), qwait, Len(que), closed)
  BY <1>1 DEF Calm, QueueInv
<1>3. Distinct(<<>>) /\ Listed(<<>>) = {} /\ Listed(pwait') = {}
  BY <1>1, NobodyWaits
<1>4. Served(In("push"), pwait, max - Len(que), closed)'
  BY <1>3 DEF Served
<1>5. In("pop")' = In("pop")
  BY <1>1 DEF In
<1>6. Served(In("pop"), qwait, Len(que), closed)'
  <2>1. CASE qwait' = <<>>
    <3>1. Listed(qwait') = {}
      BY <1>3, <2>1
    <3> QED BY <3>1 DEF Served
  <2>2. CASE UNCHANGED <<qwait, closed>> /\ que' = <<>>
    <3>1. Len(que') \in Int /\ Len(que') <= 0
      BY <2>2, SMTT(30)
    <3>2. Len(que) \in Int /\ In("pop") \in SUBSET Threads
      BY QueueTypes DEF SyncInv
    <3>3. Served(In("pop"), qwait, Len(que'), closed)
      BY <1>2, <3>1, <3>2, FewerServed
    <3> QED BY <1>5, <2>2, <3>3 DEF Served
  <2> QED BY <1>1, <2>1, <2>2
<1>7. ListsInv'
  <2>1. Distinct(pwait') /\ Distinct(qwait') /\ Listed(qwait') \subseteq Listed(qwait)
    BY <1>1, <1>2, <1>3 DEF ListsInv
  <2> QED BY <1>1, <1>2, <1>3, <2>1 DEF ListsInv
<1> QED BY <1>4, <1>6, <1>7

LEMMA WokenForMax ==
  ASSUME NEW a \in Nat, NEW b \in Nat, NEW l \in Nat, NEW k \in Int
  PROVE  LET diff == IF b > a THEN b - a ELSE 0
             n == IF diff < l THEN diff ELSE l
         IN n \in 0 .. l /\ (n = l \/ b - k <= (a - k) + n)
BY SMTT(30)

\* SizedQueue#max= in a process that did not fork.
LEMMA MaxSetServes ==
  ASSUME SyncInv, TypeOK', QueueInv, NEW t \in Threads, UNCHANGED ops, rb_szqueue_max_set(t)
  PROVE  QueueInv'
<1> SUFFICES ASSUME Calm'
             PROVE  /\ ListsInv' /\ Served(In("pop"), qwait, Len(que), closed)'
                    /\ Served(In("push"), pwait, max - Len(que), closed)'
  BY DEF QueueInv
<1>1. UNCHANGED <<living, op, pend, reports, ops, que, closed, qwait>> /\ "max" \in ops
  BY DEF rb_szqueue_max_set
<1>2. /\ Calm /\ ListsInv /\ Served(In("pop"), qwait, Len(que), closed)
      /\ Served(In("push"), pwait, max - Len(que), closed)
  BY <1>1 DEF Calm, QueueInv
<1> DEFINE V == In("push")
           k == Len(que)
           diff == IF max' > max THEN max' - max ELSE 0
           n == IF diff < Len(pwait) THEN diff ELSE Len(pwait)
<1>3. /\ pwait \in Seq(Threads) /\ k \in Int /\ max \in Nat /\ max - k \in Int
      /\ V \in SUBSET Threads
  BY QueueTypes DEF SyncInv
<1>4. max' \in Nat
  BY SyncAssumption DEF TypeOK
<1>5. Len(pwait) \in Nat
  BY <1>3, SMTT(30)
<1>6. Listed(pwait) \subseteq V /\ Distinct(pwait)
  BY <1>1, <1>2 DEF Calm, ListsInv, In
<1>7. pwait' = SubSeq(pwait, n + 1, Len(pwait))
  BY DEF rb_szqueue_max_set
<1>8. In("push")' = V /\ In("pop")' = In("pop")
  BY <1>1 DEF In
<1> HIDE DEF V, k
<1>9. n \in 0 .. Len(pwait)
  BY <1>3, <1>4, <1>5, WokenForMax
<1>10. n = Len(pwait) \/ max' - k <= (max - k) + n
  BY <1>3, <1>4, <1>5, WokenForMax
<1>11. max' - k \in Int /\ (max - k) + n \in Int
  BY <1>3, <1>4, <1>9, SMTT(30)
<1> HIDE DEF n
<1>12. Distinct(pwait') /\ Listed(pwait') \subseteq Listed(pwait)
  BY <1>3, <1>6, <1>7, <1>9, TailLeavesHead
<1>13. Served(V, pwait', (max - k) + n, closed)
  BY <1>2, <1>3, <1>6, <1>7, <1>9, HeadServed DEF V, k
<1>14. Served(V, pwait', max' - k, closed)
  <2>1. CASE n = Len(pwait)
    <3>1. Listed(pwait') = {}
      <4>1. pwait' = <<>>
        BY <1>3, <1>5, <1>7, <2>1, SMTT(30)
      <4> QED BY <4>1, NobodyWaits
    <3> QED BY <3>1 DEF Served
  <2>2. CASE max' - k <= (max - k) + n
    BY <1>3, <1>11, <1>13, <2>2, FewerServed
  <2> QED BY <1>10, <2>1, <2>2
<1>15. /\ Served(In("pop"), qwait, Len(que), closed)'
       /\ Served(In("push"), pwait, max - Len(que), closed)'
  <2>1. k = Len(que')
    BY <1>1 DEF k
  <2> QED BY <1>1, <1>2, <1>8, <1>14, <2>1 DEF Served
<1>16. ListsInv'
  BY <1>1, <1>2, <1>12 DEF ListsInv
<1> QED BY <1>15, <1>16

----------------------------------------------------------------------------
(* The other steps *)

\* A deadlock is reported, or nothing is sent to a thread.
LEMMA ReportIsCalm ==
  ASSUME QueueInv, NEW dead, NEW st, NEW fl, NEW n, NEW w, Report(dead, st, fl, n, w)
  PROVE  /\ reports' = 0 => reports = 0
         /\ Calm /\ Calm' => \A u \in Threads : pend'[u] = <<>>
<1>1. CASE dead
  BY <1>1, SMTT(30) DEF Report, Calm
<1>2. CASE ~dead
  BY <1>2 DEF Report, QueueInv, ListsInv
<1> QED BY <1>1, <1>2

LEMMA PendIsCalm ==
  ASSUME QueueInv, UNCHANGED <<pend, reports>>
  PROVE  /\ reports' = 0 => reports = 0
         /\ Calm /\ Calm' => \A u \in Threads : pend'[u] = <<>>
BY DEF QueueInv, ListsInv

LEMMA SleepersServe ==
  ASSUME SyncInv, TypeOK', QueueInv, NEW t \in Threads, UNCHANGED ops,
         \/ native_sleep(t) \/ Wakes(t) \/ CheckInts(t) \/ lock_func(t) \/ LockAgain(t)
         \/ CvSignal(t) \/ (\E m \in Mutexes : Unlock(t, m))
         \/ (\E u \in Threads : rb_thread_wakeup(t, u))
  PROVE  QueueInv'
<1>1. UNCHANGED <<que, max, closed, qwait, pwait, op, living>>
  BY DEF native_sleep, Wakes, CheckInts, lock_func, LockAgain, CvSignal, Unlock,
    rb_thread_wakeup, queVars, waitVars
<1>2. /\ reports' = 0 => reports = 0
      /\ Calm /\ Calm' => \A u \in Threads : pend'[u] = <<>>
  <2>1. CASE native_sleep(t)
    BY <2>1, ReportIsCalm DEF native_sleep
  <2>2. CASE UNCHANGED <<pend, reports>>
    BY <2>2, PendIsCalm
  <2> QED BY <2>1, <2>2 DEF Wakes, CheckInts, lock_func, LockAgain, CvSignal, Unlock,
        rb_thread_wakeup
<1> QED BY <1>1, <1>2, QuietQueue DEF SyncInv

LEMMA FreeCall ==
  ASSUME SyncInv, NEW t \in Threads
  PROVE  /\ Free.kind = "none" /\ (pos[t] = "run" => op[t].kind = "none" /\ t \in living)
         /\ pos[t] \in {"lock_func", "lock_ret", "lock_check"} => op[t].kind \notin {"pop", "push"}
         /\ pos[t] \in {"check_first", "check_again"} => t \in living
<1>1. Free.kind = "none"
  BY DEF Free
<1>2. Place(t) /\ Call(t)
  BY DEF SyncInv, ThreadOK
<1> QED BY <1>1, <1>2 DEF Place, Call

LEMMA MutexLockServes ==
  ASSUME SyncInv, TypeOK', QueueInv, NEW t \in Threads, op[t].kind \notin {"pop", "push"},
         NEW o, o.kind \notin {"pop", "push"}, NEW e, NEW fl, rb_mutex_lock(t, o, e, fl),
         UNCHANGED <<que, max, closed, qwait, pwait, ops, living, pend, reports>>
  PROVE  QueueInv'
<1>1. \E x \in {Free, o} : op' = [op EXCEPT ![t] = x]
  BY DEF rb_mutex_lock, Locked, Returned
<1>2. Free.kind \notin {"pop", "push"}
  BY FreeCall
<1>3. /\ reports' = 0 => reports = 0
      /\ Calm /\ Calm' => \A u \in Threads : pend'[u] = <<>>
  BY PendIsCalm
<1> QED BY <1>1, <1>2, <1>3, OtherCall DEF SyncInv

LEMMA CallsServe ==
  ASSUME SyncInv, TypeOK', QueueInv, NEW t \in Threads, UNCHANGED ops,
         \/ rb_thread_stop(t) \/ (\E u \in Threads : thread_join(t, u))
         \/ (\E m \in Mutexes : Lock(t, m) \/ rb_mutex_sleep(t, m))
  PROVE  QueueInv'
<1>1. UNCHANGED <<que, max, closed, qwait, pwait, living, pend, reports>> /\ pos[t] = "run"
  BY DEF rb_thread_stop, thread_join, Lock, rb_mutex_sleep, queVars, waitVars, Runs
<1>2. op[t].kind \notin {"pop", "push"}
  BY <1>1, FreeCall
<1>3. /\ reports' = 0 => reports = 0
      /\ Calm /\ Calm' => \A u \in Threads : pend'[u] = <<>>
  BY <1>1, PendIsCalm
<1>4. ASSUME NEW o, o.kind \notin {"pop", "push"}, op' = [op EXCEPT ![t] = o]
      PROVE  QueueInv'
  BY <1>1, <1>2, <1>3, <1>4, OtherCall DEF SyncInv
<1>5. CASE rb_thread_stop(t)
  <2> DEFINE o == [Free EXCEPT !.kind = "stop"]
  <2>1. o.kind = "stop"
    BY CallForever DEF Kinds
  <2>2. op' = [op EXCEPT ![t] = o]
    BY <1>5 DEF rb_thread_stop, SleepBegins
  <2> HIDE DEF o
  <2> QED BY <1>4, <2>1, <2>2
<1>6. ASSUME NEW k \in {"join", "sleep", "cv"}, NEW a, NEW f,
             SleepBegins(t, [kind |-> k, arg |-> a, forever |-> f])
      PROVE  QueueInv'
  <2> DEFINE o == [kind |-> k, arg |-> a, forever |-> f]
  <2>1. o.kind = k /\ op' = [op EXCEPT ![t] = o]
    BY <1>6 DEF SleepBegins
  <2> HIDE DEF o
  <2> QED BY <1>4, <2>1
<1>7. CASE (\E u \in Threads : thread_join(t, u)) \/ (\E m \in Mutexes : rb_mutex_sleep(t, m))
  BY <1>6, <1>7 DEF thread_join, rb_mutex_sleep
<1>8. ASSUME NEW m \in Mutexes, Lock(t, m)
      PROVE  QueueInv'
  <2> DEFINE o == [Free EXCEPT !.kind = "lock", !.arg = m]
  <2>1. o.kind = "lock"
    BY DEF Free
  <2>2. rb_mutex_lock(t, o, "none", intr)
    BY <1>8 DEF Lock
  <2> HIDE DEF o
  <2> QED BY <1>1, <1>2, <2>1, <2>2, MutexLockServes
<1> QED BY <1>5, <1>7, <1>8

LEMMA LockReturnsServes ==
  ASSUME SyncInv, TypeOK', QueueInv, NEW t \in Threads, UNCHANGED ops, LockReturns(t)
  PROVE  QueueInv'
<1>1. UNCHANGED <<que, max, closed, qwait, pwait, living>> /\ pos[t] = "lock_ret"
  BY DEF LockReturns, queVars
<1>2. op[t].kind \notin {"pop", "push"} /\ Free.kind \notin {"pop", "push"}
  BY <1>1, FreeCall
<1>3. /\ reports' = 0 => reports = 0
      /\ Calm /\ Calm' => \A u \in Threads : pend'[u] = <<>>
  BY ReportIsCalm DEF LockReturns
<1>4. CASE UNCHANGED op
  BY <1>1, <1>3, <1>4, QuietQueue DEF SyncInv
<1>5. CASE op' = [op EXCEPT ![t] = Free]
  BY <1>1, <1>2, <1>3, <1>5, OtherCall DEF SyncInv
<1> QED BY <1>4, <1>5 DEF LockReturns, Locked, Returned

LEMMA SleepEndsServes ==
  ASSUME SyncInv, TypeOK', QueueInv, NEW t \in Threads, UNCHANGED ops, SleepEnds(t)
  PROVE  QueueInv'
<1>1. UNCHANGED <<living, pend, max, closed, reports>> /\ pos[t] \in {"check_first", "check_again"}
  BY DEF SleepEnds
<1>2. t \in living
  BY <1>1, FreeCall
<1>3. CASE op[t].kind = "pop"
  BY <1>1, <1>2, <1>3, PopServes DEF SleepEnds
<1>4. CASE op[t].kind = "push"
  BY <1>1, <1>2, <1>4, PushServes DEF SleepEnds
<1>5. CASE op[t].kind \in {"sleep", "cv"}
  BY <1>1, <1>5, MutexLockServes DEF SleepEnds
<1>6. CASE op[t].kind \in {"stop", "join"}
  <2>1. /\ UNCHANGED <<que, qwait, pwait>>
        /\ op' = [op EXCEPT ![t] = Free] \/ op' = [op EXCEPT ![t] = op[t]]
    BY <1>6 DEF SleepEnds, Returned, SleepBegins, waitVars
  <2>2. op[t].kind \notin {"pop", "push"} /\ Free.kind \notin {"pop", "push"}
    BY <1>6, FreeCall
  <2>3. /\ reports' = 0 => reports = 0
        /\ Calm /\ Calm' => \A u \in Threads : pend'[u] = <<>>
    BY <1>1, PendIsCalm
  <2> QED BY <1>1, <2>1, <2>2, <2>3, OtherCall DEF SyncInv
<1> QED BY <1>3, <1>4, <1>5, <1>6 DEF SleepEnds

LEMMA QueueServes ==
  ASSUME SyncInv, TypeOK', QueueInv, NEW t \in Threads, UNCHANGED ops, Queue(t)
  PROVE  QueueInv'
<1>1. UNCHANGED <<living, pend, max, closed, reports>> /\ pos[t] = "run"
  BY DEF Queue, Runs
<1>2. op[t].kind = "none" /\ t \in living
  BY <1>1, FreeCall
<1> QED BY <1>1, <1>2, PopServes, PushServes DEF Queue

\* Threads are created and end in Ruby code.
LEMMA ThreadsComeAndGo ==
  ASSUME SyncInv, TypeOK', QueueInv, NEW t \in Threads, UNCHANGED ops,
         thread_start_func_2(t) \/ (\E u \in Threads : thread_create_core(t, u))
  PROVE  QueueInv'
<1>1. UNCHANGED <<que, max, closed, qwait, pwait, op>>
  BY DEF thread_start_func_2, thread_create_core, queVars, waitVars
<1>2. /\ reports' = 0 => reports = 0
      /\ Calm /\ Calm' => \A u \in Threads : pend'[u] = <<>>
  <2>1. CASE thread_start_func_2(t)
    BY <2>1, ReportIsCalm DEF thread_start_func_2
  <2>2. CASE \E u \in Threads : thread_create_core(t, u)
    BY <2>2, PendIsCalm DEF thread_create_core
  <2> QED BY <2>1, <2>2
<1>3. PICK u \in Threads : /\ pos[u] \in {"unborn", "run"}
                           /\ living' = living \cup {u} \/ living' = living \ {u}
  BY DEF thread_start_func_2, thread_create_core
<1>4. op[u].kind = "none"
  <2>1. op[u] = Free
    BY <1>3 DEF SyncInv, ThreadOK, Call
  <2> QED BY <2>1, FreeCall
<1>5. \A v \in Threads : op[v].kind \in {"pop", "push"} => (v \in living' <=> v \in living)
  BY <1>3, <1>4
<1> QED BY <1>1, <1>2, <1>5, QuietQueue DEF SyncInv

\* The child of fork has one thread, in Ruby code.
LEMMA ForkServes ==
  ASSUME SyncInv, TypeOK', QueueInv, UNCHANGED ops, rb_thread_atfork
  PROVE  QueueInv'
<1> SUFFICES ASSUME Calm'
             PROVE  /\ ListsInv' /\ Served(In("pop"), qwait, Len(que), closed)'
                    /\ Served(In("push"), pwait, max - Len(que), closed)'
  BY DEF QueueInv
<1>1. /\ UNCHANGED <<op, pend, reports, que, max, closed, qwait, pwait>> /\ living' = {Main}
      /\ pos[Main] = "run" /\ "fork" \in ops
  BY DEF rb_thread_atfork, queVars, Runs
<1>2. Calm /\ ListsInv
  BY <1>1 DEF Calm, QueueInv
<1>3. op[Main].kind = "none"
  BY <1>1, SyncAssumption, FreeCall
<1>4. In("pop")' = {} /\ In("push")' = {}
  BY <1>1, <1>3 DEF In
<1>5. ListsInv'
  BY <1>1, <1>2 DEF ListsInv
<1> QED BY <1>4, <1>5 DEF Served

\* While nothing is raised no thread is left with an exception.
LEMMA CalmServes ==
  ASSUME SyncInv, TypeOK', QueueInv, UNCHANGED ops,
         \/ MainExits \/ TermWakes
         \/ \E t \in Threads : Raised(t) \/ \E u \in Threads : Interrupt(t, u)
  PROVE  QueueInv'
<1> SUFFICES ASSUME Calm'
             PROVE  QueueInv'
  BY DEF QueueInv
<1>1. UNCHANGED reports
  BY DEF MainExits, TermWakes, Raised, Interrupt
<1>2. Calm
  BY <1>1 DEF Calm
<1>3. \A t \in Threads : pend[t] = <<>>
  BY <1>2 DEF QueueInv, ListsInv
<1>4. ~MainExits /\ \A t \in Threads : ~Raised(t) /\ \A u \in Threads : ~Interrupt(t, u)
  BY <1>2, <1>3 DEF MainExits, Raised, Interrupt, Calm
<1>5. TermWakes /\ pend[Main] = <<>>
  BY <1>3, <1>4, SyncAssumption
<1>6. UNCHANGED <<que, max, closed, qwait, pwait, op, living, pend>>
  BY <1>5 DEF TermWakes, queVars, waitVars
<1>7. /\ reports' = 0 => reports = 0
      /\ Calm /\ Calm' => \A u \in Threads : pend'[u] = <<>>
  BY <1>1, <1>6, PendIsCalm
<1> QED BY <1>6, <1>7, QuietQueue DEF SyncInv

LEMMA InitQueue == Init => QueueInv
<1> SUFFICES ASSUME Init
             PROVE  QueueInv
  OBVIOUS
<1>1. /\ \A t \in Threads : pend[t] = <<>>
      /\ qwait = <<>> /\ pwait = <<>>
  BY DEF Init
<1>2. Distinct(<<>>) /\ Listed(<<>>) = {}
  BY NobodyWaits
<1>3. ListsInv
  BY <1>1, <1>2 DEF ListsInv
<1>4. /\ Served(In("pop"), qwait, Len(que), closed)
      /\ Served(In("push"), pwait, max - Len(que), closed)
  BY <1>1, <1>2 DEF Served
<1> QED BY <1>3, <1>4 DEF QueueInv

LEMMA NextQueue == SyncInv /\ QueueInv /\ SyncInv' /\ [Next]_vars => QueueInv'
<1> SUFFICES ASSUME SyncInv, QueueInv, TypeOK', [Next]_vars
             PROVE  QueueInv'
  BY DEF SyncInv
<1>1. CASE UNCHANGED vars
  <2>1. UNCHANGED <<que, max, closed, qwait, pwait, op, living, pend, reports, ops>>
    BY <1>1 DEF vars, queVars, waitVars
  <2>2. /\ reports' = 0 => reports = 0
        /\ Calm /\ Calm' => \A u \in Threads : pend'[u] = <<>>
    BY <2>1, PendIsCalm
  <2> QED BY <2>1, <2>2, QuietQueue DEF SyncInv
<1>2. ASSUME UNCHANGED ops, NEW t \in Threads,
             \/ native_sleep(t) \/ Wakes(t) \/ CheckInts(t) \/ lock_func(t) \/ LockAgain(t)
             \/ CvSignal(t) \/ (\E m \in Mutexes : Unlock(t, m))
             \/ (\E u \in Threads : rb_thread_wakeup(t, u))
      PROVE  QueueInv'
  BY <1>2, SleepersServe
<1>3. ASSUME UNCHANGED ops, NEW t \in Threads,
             \/ rb_thread_stop(t) \/ (\E u \in Threads : thread_join(t, u))
             \/ (\E m \in Mutexes : Lock(t, m) \/ rb_mutex_sleep(t, m))
      PROVE  QueueInv'
  BY <1>3, CallsServe
<1>4. ASSUME UNCHANGED ops, NEW t \in Threads,
             \/ LockReturns(t) \/ SleepEnds(t) \/ Queue(t) \/ queue_do_close(t)
             \/ rb_szqueue_clear(t) \/ rb_szqueue_max_set(t)
      PROVE  QueueInv'
  BY <1>4, LockReturnsServes, SleepEndsServes, QueueServes, CloseServes, MaxSetServes
<1>5. ASSUME UNCHANGED ops, NEW t \in Threads,
             thread_start_func_2(t) \/ (\E u \in Threads : thread_create_core(t, u))
      PROVE  QueueInv'
  BY <1>5, ThreadsComeAndGo
<1>6. ASSUME UNCHANGED ops,
             \/ MainExits \/ TermWakes \/ rb_thread_atfork
             \/ \E t \in Threads : Raised(t) \/ \E u \in Threads : Interrupt(t, u)
      PROVE  QueueInv'
  BY <1>6, CalmServes, ForkServes
<1> QED BY <1>1, <1>2, <1>3, <1>4, <1>5, <1>6 DEF Next, Step, Begins

\* If there is something to be had, one of the callers is not on the list.
LEMMA SomebodyAwake ==
  ASSUME NEW P \in SUBSET Threads, NEW s, NEW n \in Int, NEW c, Served(P, s, n, c),
         \E u \in P : u \in Listed(s), n > 0 \/ c
  PROVE  \E u \in P : u \notin Listed(s)
<1>1. ~c /\ n <= Cardinality(P \ Listed(s))
  BY DEF Served
<1>2. Cardinality(P \ Listed(s)) \in Nat
  BY WaitersFinite
<1>3. Cardinality(P \ Listed(s)) # 0
  BY <1>1, <1>2, SMTT(30)
<1> QED BY <1>3, FS_EmptySet

\* Nothing that a sleeping consumer or producer waits for is there, unless
\* another one is awake to take it: for any number of threads, items and
\* values of SizedQueue#max.
THEOREM QueuesAreServed == Spec => []QueueServed
<1>1. SyncInv /\ QueueInv => QueueServed
  <2> SUFFICES ASSUME SyncInv, QueueInv, Calm
               PROVE  LET Sleeping(k) == {t \in living : op[t].kind = k /\ pos[t] = "asleep" /\ ~intr[t]}
                          Awake(k) == {t \in living : op[t].kind = k} \ Sleeping(k)
                      IN /\ (que # <<>> \/ closed) /\ Sleeping("pop") # {} => Awake("pop") # {}
                         /\ (Len(que) < max \/ closed) /\ Sleeping("push") # {} => Awake("push") # {}
    BY DEF QueueServed, Calm
  <2> DEFINE Sleeping(k) == {t \in living : op[t].kind = k /\ pos[t] = "asleep" /\ ~intr[t]}
             Awake(k) == {t \in living : op[t].kind = k} \ Sleeping(k)
  <2>1. /\ \A t \in Sleeping("pop") : t \in In("pop") \cap Listed(qwait)
        /\ \A t \in Sleeping("push") : t \in In("push") \cap Listed(pwait)
    <3>1. ASSUME NEW t \in living, pos[t] = "asleep", ~intr[t]
          PROVE  /\ op[t].kind = "pop" => t \in Listed(qwait)
                 /\ op[t].kind = "push" => t \in Listed(pwait)
      <4>1. ThreadOK(t)
        BY CallTypes DEF SyncInv
      <4>2. Sleeps(t) /\ status[t] # "runnable"
        BY <3>1, <4>1 DEF ThreadOK, State, Sleeps
      <4> QED BY <4>1, <4>2 DEF ThreadOK, Queued
    <3> QED BY <3>1 DEF In
  <2>2. /\ In("pop") \ Listed(qwait) \subseteq Awake("pop")
        /\ In("push") \ Listed(pwait) \subseteq Awake("push")
    BY <2>1 DEF In
  <2>3. /\ Sleeping("pop") # {} => In("pop") \cap Listed(qwait) # {}
        /\ Sleeping("push") # {} => In("push") \cap Listed(pwait) # {}
    BY <2>1
  <2> HIDE DEF Sleeping, Awake
  <2>4. /\ Served(In("pop"), qwait, Len(que), closed)
        /\ Served(In("push"), pwait, max - Len(que), closed)
    BY DEF QueueInv
  <2>5. /\ In("pop") \in SUBSET Threads /\ In("push") \in SUBSET Threads /\ que \in Seq(Items)
        /\ Len(que) \in Nat /\ Len(que) \in Int /\ max \in Nat /\ max - Len(que) \in Int
    BY QueueTypes DEF SyncInv
  <2>6. (que # <<>> => Len(que) > 0) /\ (Len(que) < max => max - Len(que) > 0)
    BY <2>5, SMTT(30)
  <2>7. (que # <<>> \/ closed) /\ Sleeping("pop") # {} => Awake("pop") # {}
    <3>1. ASSUME que # <<>> \/ closed, Sleeping("pop") # {}
          PROVE  \E u \in In("pop") : u \notin Listed(qwait)
      <4>1. (\E u \in In("pop") : u \in Listed(qwait)) /\ (Len(que) > 0 \/ closed)
        BY <2>3, <2>6, <3>1
      <4> QED BY <2>4, <2>5, <4>1, SomebodyAwake
    <3> QED BY <2>2, <3>1
  <2>8. (Len(que) < max \/ closed) /\ Sleeping("push") # {} => Awake("push") # {}
    <3>1. ASSUME Len(que) < max \/ closed, Sleeping("push") # {}
          PROVE  \E u \in In("push") : u \notin Listed(pwait)
      <4>1. (\E u \in In("push") : u \in Listed(pwait)) /\ (max - Len(que) > 0 \/ closed)
        BY <2>3, <2>6, <3>1
      <4> QED BY <2>4, <2>5, <4>1, SomebodyAwake
    <3> QED BY <2>2, <3>1
  <2> QED BY <2>7, <2>8 DEF Sleeping, Awake
<1>2. SyncInv /\ QueueInv /\ [Next]_vars => (SyncInv /\ QueueInv)'
  BY NextSync, NextQueue
<1>3. Init => SyncInv /\ QueueInv
  BY InitSync, InitQueue
<1> QED BY <1>1, <1>2, <1>3, PTL DEF Spec

============================================================================
