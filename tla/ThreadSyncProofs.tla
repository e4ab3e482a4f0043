-------------------------- MODULE ThreadSyncProofs --------------------------
(***************************************************************************)
(* The threads of ThreadSync, for any number of threads and mutexes and    *)
(* any program: mutexes have one owner and no unlock is lost, and every    *)
(* thread that sleeps is on the list that the one it waits for looks at.   *)
(* The lemmas are about lists and wakeups, mutexes, calls that sleep, the  *)
(* ends of threads and of the process, and fork; then the theorems.        *)
(***************************************************************************)
EXTENDS ThreadSync, WellFoundedInduction, TLAPS

USE ZenonT(60)

----------------------------------------------------------------------------
(* The inductive invariant: what is true of each thread. *)

Sleeps(t) == pos[t] \in {"check_first", "asleep", "check_again"}

\* Who is alive; the main thread, once it ends the process, counts as killed
\* and stays on living_threads.
Place(t) ==
  /\ t \in living <=> pos[t] \notin {"unborn", "dead"}
  /\ status[t] = "killed" <=> pos[t] \in {"dead", "term_sleep", "done"}
  /\ pos[t] \in {"term_sleep", "done"} => t = Main
  /\ t = Main => pos[t] \notin {"unborn", "dead"}

\* The call a thread is in.
Call(t) ==
  /\ pos[t] \in {"unborn", "run", "term_sleep", "done"} => op[t] = Free
  /\ Sleeps(t) => op[t].kind \in {"sleep", "cv", "pop", "push", "join", "stop"}
  /\ pos[t] \in {"lock_func", "lock_ret", "lock_check"} =>
       op[t].kind \in {"lock", "sleep", "cv"}
  /\ op[t].kind \in {"lock", "sleep", "cv"} => op[t].arg \in Mutexes
  /\ op[t].kind = "join" => op[t].arg \in Threads \ {t, Main}

\* th->status; whoever makes a sleeping thread runnable also interrupts it.
State(t) ==
  /\ pos[t] \in {"unborn", "run", "lock_check"} => status[t] = "runnable"
  /\ Sleeps(t) => status[t] \in {Asleep(op[t]), "runnable"}
  /\ pos[t] \in {"lock_func", "lock_ret"} => status[t] \in {"stopped_forever", "runnable"}
  /\ pos[t] \in {"asleep", "lock_func", "lock_ret"} /\ status[t] = "runnable" => intr[t]

\* The mutexes of a thread, the one it waits for, and why lock_func returned.
Holds(t) ==
  /\ \A m \in Mutexes :
       owner[m] = t <=> \/ m \in keeping[t] /\ t \in living
                        \/ pos[t] = "lock_ret" /\ op[t].arg = m /\ res[t] = 0
  /\ t \notin living => keeping[t] = {}
  /\ t \in living /\ op[t].kind \in {"lock", "sleep", "cv"} => op[t].arg \notin keeping[t]
  /\ pos[t] = "lock_ret" /\ res[t] = 1 => intr[t]
  /\ pos[t] = "lock_ret" /\ res[t] = 2 => patrol = t
  /\ patrol = t => pos[t] \in {"lock_func", "lock_ret", "dead"}

\* Until somebody makes it runnable a thread that is to sleep is on its list,
\* and only a thread in thread_join is on a join list.
Queued(t) ==
  /\ Sleeps(t) /\ status[t] # "runnable" =>
       /\ op[t].kind = "pop" => t \in Listed(qwait)
       /\ op[t].kind = "push" => t \in Listed(pwait)
       /\ op[t].kind = "cv" => t \in Listed(cvwait)
       /\ op[t].kind = "join" => op[t].arg \in living /\ t \in join_list[op[t].arg]
  /\ Sleeps(t) /\ op[t].kind = "join" =>
       pos[op[t].arg] = "dead" \/ (op[t].arg \in living /\ t \in join_list[op[t].arg])
  /\ \A u \in Threads : pos[u] # "dead" /\ t \in join_list[u] =>
       t \in living /\ op[t].kind = "join" /\ op[t].arg = u

ThreadOK(t) == Place(t) /\ Call(t) /\ State(t) /\ Holds(t) /\ Queued(t)

SyncInv == TypeOK /\ (\A t \in Threads : ThreadOK(t)) /\ NoLostUnlock

----------------------------------------------------------------------------
(* Lists of waiting threads. *)

\* The natural numbers are well ordered.
LEMMA HasLeast ==
  ASSUME NEW T, T \subseteq Nat, T # {}
  PROVE  \E x \in T : \A y \in T : x <= y
<1> DEFINE R == OpToRel(<, Nat)
<1>1. IsWellFoundedOn(R, Nat)
  BY NatLessThanWellFounded
<1>2. \A x, y \in Nat : x < y => <<x, y>> \in R
  BY DEF OpToRel
<1> HIDE DEF R
<1>3. PICK x \in T : \A y \in T : ~ (<<y, x>> \in R)
  BY <1>1, WFMin
<1>4. \A y \in T : x <= y
  <2> TAKE y \in T
  <2>1. x \in Nat /\ y \in Nat
    OBVIOUS
  <2>2. ~ (y < x)
    BY <2>1, <1>2, <1>3
  <2> QED BY <2>1, <2>2, SMTT(30)
<1> QED BY <1>4

\* rb_ary_delete takes nobody else off the list.
LEMMA DeleteKeepsOthers ==
  ASSUME NEW s \in Seq(Threads), NEW t \in Threads
  PROVE  /\ Delete(s, t) \in Seq(Threads)
         /\ \A u \in Listed(s) : u # t => u \in Listed(Delete(s, t))
<1> DEFINE k == CHOOSE i \in DOMAIN s : s[i] = t
           d == [i \in 1 .. Len(s) - 1 |-> s[IF i < k THEN i ELSE i + 1]]
<1>1. CASE t \notin Listed(s)
  BY <1>1 DEF Delete
<1>2. CASE t \in Listed(s)
  <2>1. k \in 1 .. Len(s) /\ s[k] = t /\ Len(s) - 1 \in Nat
    BY <1>2, SMTT(30) DEF Listed
  <2>2. Delete(s, t) = d
    BY <1>2 DEF Delete
  <2> HIDE DEF k
  <2>3. d \in Seq(Threads) /\ DOMAIN d = 1 .. Len(s) - 1
    BY <2>1, SMTT(30)
  <2>4. ASSUME NEW u \in Listed(s), u # t
        PROVE  u \in Listed(d)
    <3>1. PICK i \in 1 .. Len(s) : s[i] = u
      BY SMTT(30) DEF Listed
    <3>2. CASE i < k
      <4>1. i \in 1 .. Len(s) - 1 /\ d[i] = u
        BY <3>1, <3>2, <2>1, SMTT(30)
      <4> QED BY <4>1 DEF Listed
    <3>3. CASE i > k
      <4>1. i - 1 \in 1 .. Len(s) - 1 /\ d[i - 1] = u
        BY <3>1, <3>3, <2>1, SMTT(30)
      <4> QED BY <4>1 DEF Listed
    <3> QED BY <3>1, <3>2, <3>3, <2>1, <2>4, SMTT(30)
  <2> QED BY <2>2, <2>3, <2>4
<1> QED BY <1>1, <1>2

LEMMA AppendKeeps ==
  ASSUME NEW s \in Seq(Threads), NEW t \in Threads
  PROVE  Append(s, t) \in Seq(Threads) /\ Listed(Append(s, t)) = Listed(s) \cup {t}
<1>1. Append(s, t) \in Seq(Threads) /\ Len(Append(s, t)) = Len(s) + 1
  BY SMTT(30)
<1>2. Append(s, t)[Len(s) + 1] = t /\ \A i \in 1 .. Len(s) : Append(s, t)[i] = s[i]
  BY SMTT(30)
<1>3. DOMAIN Append(s, t) = 1 .. Len(s) + 1 /\ DOMAIN s = 1 .. Len(s) /\ Len(s) \in Nat
  BY <1>1, SMTT(30)
<1>4. 1 .. Len(s) + 1 = (1 .. Len(s)) \cup {Len(s) + 1}
  BY <1>3, SMTT(30)
<1>5. ASSUME NEW u \in Listed(Append(s, t))
      PROVE  u \in Listed(s) \/ u = t
  BY <1>2, <1>3, <1>4 DEF Listed
<1>6. t \in Listed(Append(s, t)) /\ \A u \in Listed(s) : u \in Listed(Append(s, t))
  BY <1>2, <1>3, <1>4 DEF Listed
<1> QED BY <1>1, <1>5, <1>6

LEMMA AppendLists ==
  ASSUME NEW s \in Seq(Threads), NEW t \in Threads
  PROVE  /\ Append(Delete(s, t), t) \in Seq(Threads)
         /\ t \in Listed(Append(Delete(s, t), t))
         /\ \A u \in Listed(s) : u # t => u \in Listed(Append(Delete(s, t), t))
<1> DEFINE d == Delete(s, t)
<1>1. d \in Seq(Threads) /\ \A u \in Listed(s) : u # t => u \in Listed(d)
  BY DeleteKeepsOthers
<1> HIDE DEF d
<1>2. Append(d, t) \in Seq(Threads) /\ Listed(Append(d, t)) = Listed(d) \cup {t}
  BY <1>1, AppendKeeps
<1> QED BY <1>1, <1>2 DEF d

\* wakeup_first_thread passes over dead threads only.
LEMMA FirstIsWoken ==
  ASSUME NEW s \in Seq(Threads)
  PROVE  /\ AfterFirst(s) \in Seq(Threads) /\ FirstThread(s) \subseteq Threads
         /\ \A u \in Listed(s) : \/ u \in FirstThread(s) \/ u \in Listed(AfterFirst(s))
                                 \/ status[u] = "killed"
<1>1. CASE Alive(s) = {}
  BY <1>1, SMTT(30) DEF AfterFirst, FirstThread, Alive, Listed
<1>2. CASE Alive(s) # {}
  <2> DEFINE k == FirstAlive(s)
  <2>1. k \in Alive(s) /\ \A j \in Alive(s) : k <= j
    <3>1. Alive(s) \in SUBSET Nat
      BY SMTT(30) DEF Alive
    <3>2. \E i \in Alive(s) : \A j \in Alive(s) : i <= j
      BY <3>1, <1>2, HasLeast
    <3> QED BY <3>2 DEF FirstAlive
  <2>2. FirstThread(s) = {s[k]} /\ AfterFirst(s) = SubSeq(s, k + 1, Len(s))
    BY <1>2 DEF FirstThread, AfterFirst
  <2> HIDE DEF k
  <2>3. k \in 1 .. Len(s)
    BY <2>1, SMTT(30) DEF Alive
  <2>4. SubSeq(s, k + 1, Len(s)) \in Seq(Threads)
    BY <2>3, SMTT(30)
  <2>5. ASSUME NEW u \in Listed(s), status[u] # "killed", u # s[k]
        PROVE  u \in Listed(SubSeq(s, k + 1, Len(s)))
    <3>1. PICK i \in 1 .. Len(s) : s[i] = u
      BY SMTT(30) DEF Listed
    <3>2. i > k
      BY <3>1, <2>1, <2>3, <2>5, SMTT(30) DEF Alive
    <3> DEFINE r == SubSeq(s, k + 1, Len(s))
    <3>3. r = [j \in 1 .. Len(s) - k |-> s[k + j]]
      BY <2>3, SMTT(30)
    <3>4. i - k \in DOMAIN r /\ r[i - k] = u
      BY <3>1, <3>2, <3>3, <2>3, SMTT(30)
    <3> QED BY <3>4 DEF Listed
  <2> QED BY <2>2, <2>3, <2>4, <2>5, SMTT(30)
<1> QED BY <1>1, <1>2

----------------------------------------------------------------------------
(* Types. *)

LEMMA WakingTypes ==
  ASSUME TypeOK, NEW S, NEW w \in SUBSET Threads, NEW st \in [Threads -> Statuses]
  PROVE  /\ Ready(S, st) \in [Threads -> Statuses]
         /\ Flagged(S) \in [Threads -> BOOLEAN]
         /\ Broadcast(S, w) \subseteq Threads /\ w \subseteq Broadcast(S, w)
         /\ Broadcast(S, w) \in SUBSET Threads
BY SMTT(30) DEF TypeOK, Statuses, Ready, Flagged, Broadcast, Waiters

LEMMA SignalTypes ==
  ASSUME NEW m, NEW w \in SUBSET Threads, NEW v \in Signalled(m, w)
  PROVE  /\ v \subseteq Threads /\ w \subseteq v
         /\ Waiters(m) # {} => Waiters(m) \cap v # {}
BY DEF Signalled, Waiters

LEMMA ReportTypes ==
  ASSUME TypeOK, NEW dead \in BOOLEAN, NEW st \in [Threads -> Statuses],
         NEW fl \in [Threads -> BOOLEAN], NEW n \in Int, NEW w \in SUBSET SUBSET Threads,
         Report(dead, st, fl, n, w)
  PROVE  /\ sleeper' \in Int /\ reports' \in {0, 1}
         /\ pend' \in [Threads -> Seq({"raise", "kill"})]
         /\ intr' \in [Threads -> BOOLEAN] /\ woken' \subseteq Threads
         /\ \A t \in Threads : fl[t] => intr'[t]
         /\ \E v \in w : v \subseteq woken'
<1>1. Main \in Threads
  BY SyncAssumption
<1>2. ASSUME NEW v \in SUBSET Threads
      PROVE  Broadcast({Main}, v) \subseteq Threads /\ v \subseteq Broadcast({Main}, v)
  BY SMTT(30) DEF Broadcast, Waiters
<1>3. woken' \subseteq Threads /\ \E v \in w : v \subseteq woken'
  <2>1. PICK v \in w : woken' \in {v, Broadcast({Main}, v)}
    BY DEF Report
  <2>2. v \subseteq Threads /\ v \subseteq woken' /\ woken' \subseteq Threads
    BY <1>2, <2>1
  <2> QED BY <2>2
<1>4. pend' \in [Threads -> Seq({"raise", "kill"})]
  BY <1>1, SMTT(30) DEF Report, TypeOK
<1> QED BY <1>1, <1>3, <1>4, SMTT(30) DEF Report, TypeOK

----------------------------------------------------------------------------
(* A step of t, seen by the other threads. *)

\* They are where they were with what they had; some are told to go on.
Undisturbed(u) ==
  /\ pos'[u] = pos[u] /\ op'[u] = op[u] /\ res'[u] = res[u] /\ keeping'[u] = keeping[u]
  /\ u \in living' <=> u \in living
  /\ \A m \in Mutexes : owner'[m] = u <=> owner[m] = u
  /\ patrol' = u <=> patrol = u
Told(u) ==
  \/ status'[u] = status[u] /\ (intr[u] => intr'[u])
  \/ status[u] \in Stopped /\ status'[u] = "runnable" /\ intr'[u]

\* They leave a list when they are made runnable, or dead.
StaysOn(u, list, rest) ==
  u \in Listed(list) /\ status[u] # "killed" /\ status'[u] # "runnable" => u \in Listed(rest)
StillListed(u) ==
  /\ StaysOn(u, qwait, qwait') /\ StaysOn(u, pwait, pwait') /\ StaysOn(u, cvwait, cvwait')
  /\ \A v \in Threads :
       /\ pos'[v] # "dead" => (u \in join_list'[v] <=> u \in join_list[v])
       /\ v \in living /\ v \notin living' =>
            pos'[v] = "dead" /\ (u \in join_list[v] => status'[u] = "runnable")
       /\ v # u /\ pos[v] = "dead" => pos'[v] = "dead"

Others(t) == \A u \in Threads \ {t} : Undisturbed(u) /\ Told(u) /\ StillListed(u)

LEMMA LeavesList ==
  ASSUME NEW s \in Seq(Threads), NEW t \in Threads, NEW r \in {s, Delete(s, t)}
  PROVE  r \in Seq(Threads) /\ \A u \in Threads \ {t} : StaysOn(u, s, r)
BY DeleteKeepsOthers DEF StaysOn

LEMMA OthersKeep ==
  ASSUME SyncInv, TypeOK', NEW t \in Threads, Others(t), Place(t)',
         NEW u \in Threads \ {t}
  PROVE  ThreadOK(u)'
<1>1. ThreadOK(u) /\ Undisturbed(u) /\ Told(u) /\ StillListed(u)
  BY DEF SyncInv, Others
<1>2. Place(u)' /\ Call(u)'
  BY <1>1 DEF ThreadOK, Place, Call, Undisturbed, Told, Stopped, Sleeps, Free
<1>3. State(u)'
  BY <1>1 DEF ThreadOK, State, Undisturbed, Told, Stopped, Sleeps, Asleep
<1>4. Holds(u)'
  <2>1. Holds(u) /\ Undisturbed(u) /\ (intr[u] => intr'[u])
    BY <1>1 DEF ThreadOK, Told
  <2> QED BY <2>1 DEF Holds, Undisturbed
<1>5. Queued(u)'
  <2>1. Queued(u) /\ Undisturbed(u) /\ StillListed(u)
    BY <1>1 DEF ThreadOK
  <2>2. ASSUME Sleeps(u)', status'[u] # "runnable"
        PROVE  Sleeps(u) /\ status[u] \notin {"runnable", "killed"}
    BY <1>1, <2>2 DEF ThreadOK, Place, Undisturbed, Told, Stopped, Sleeps
  <2>3. ASSUME Sleeps(u)', status'[u] # "runnable"
        PROVE  /\ op'[u].kind = "pop" => u \in Listed(qwait')
               /\ op'[u].kind = "push" => u \in Listed(pwait')
               /\ op'[u].kind = "cv" => u \in Listed(cvwait')
    BY <2>1, <2>2, <2>3 DEF Queued, StillListed, StaysOn, Undisturbed
  <2>4. ASSUME Sleeps(u)', status'[u] # "runnable", op'[u].kind = "join"
        PROVE  op'[u].arg \in living' /\ u \in join_list'[op'[u].arg]
    <3> DEFINE v == op[u].arg
    <3>1. op'[u].arg = v /\ v \in living /\ u \in join_list[v] /\ v \in Threads
      BY <2>1, <2>2, <2>4 DEF Queued, Undisturbed, SyncInv, TypeOK
    <3>2. v \in living'
      BY <2>1, <2>4, <3>1 DEF StillListed
    <3>3. pos'[v] # "dead"
      <4>1. CASE v = t
        BY <4>1, <3>2 DEF Place
      <4>2. CASE v # t
        <5>1. Place(v) /\ pos'[v] = pos[v]
          BY <4>2, <3>1 DEF SyncInv, ThreadOK, Others, Undisturbed
        <5> QED BY <5>1, <3>1 DEF Place
      <4> QED BY <4>1, <4>2
    <3>4. u \in join_list'[v]
      BY <2>1, <3>1, <3>3 DEF StillListed
    <3> QED BY <3>1, <3>2, <3>4
  <2>5. ASSUME NEW v \in Threads, pos'[v] # "dead", u \in join_list'[v]
        PROVE  u \in living' /\ op'[u].kind = "join" /\ op'[u].arg = v
    <3>1. u \in join_list[v]
      BY <2>1, <2>5 DEF StillListed
    <3>2. pos[v] # "dead"
      <4>1. CASE v = u
        BY <4>1, <2>1, <2>5 DEF Undisturbed
      <4>2. CASE v # u
        BY <4>2, <2>1, <2>5 DEF StillListed
      <4> QED BY <4>1, <4>2
    <3> QED BY <2>1, <3>1, <3>2 DEF Queued, Undisturbed
  <2>6. ASSUME Sleeps(u)', op'[u].kind = "join"
        PROVE  pos'[op'[u].arg] = "dead" \/ (op'[u].arg \in living' /\ u \in join_list'[op'[u].arg])
    <3> DEFINE v == op[u].arg
    <3>1. /\ op'[u].arg = v /\ v \in Threads \ {u}
          /\ pos[v] = "dead" \/ (v \in living /\ u \in join_list[v])
      BY <1>1, <2>1, <2>6 DEF ThreadOK, Call, Queued, Undisturbed, Sleeps
    <3>2. CASE pos[v] = "dead"
      BY <2>1, <3>1, <3>2 DEF StillListed
    <3>3. CASE v \in living /\ u \in join_list[v]
      BY <2>1, <3>1, <3>3 DEF StillListed
    <3> QED BY <3>1, <3>2, <3>3
  <2> QED BY <2>3, <2>4, <2>5, <2>6 DEF Queued
<1> QED BY <1>2, <1>3, <1>4, <1>5 DEF ThreadOK

LEMMA StepKeeps ==
  ASSUME SyncInv, TypeOK', NEW t \in Threads, Others(t), ThreadOK(t)', NoLostUnlock'
  PROVE  SyncInv'
<1>1. Place(t)'
  BY DEF ThreadOK
<1>2. \A u \in Threads \ {t} : ThreadOK(u)'
  BY <1>1, OthersKeep
<1> QED BY <1>2 DEF SyncInv

----------------------------------------------------------------------------
(* A step of t, seen by t. *)

\* A thread that does not wait in rb_mutex_lock.
LEMMA NotLocking ==
  ASSUME SyncInv, NEW t \in Threads,
         pos[t] \in {"run", "check_first", "asleep", "check_again", "lock_check"}
  PROVE  /\ t \in living /\ status[t] # "killed" /\ patrol # t
         /\ \A m \in Mutexes : owner[m] = t <=> m \in keeping[t]
         /\ \A u \in Threads : pos[u] # "dead" /\ t \in join_list[u] =>
              op[t].kind = "join" /\ op[t].arg = u
         /\ pos[t] = "run" => op[t] = Free /\ status[t] = "runnable"
         /\ \A m \in Mutexes : t \notin Waiters(m)
<1>1. ThreadOK(t)
  BY DEF SyncInv
<1>2. t \in living /\ status[t] # "killed"
  BY <1>1 DEF ThreadOK, Place
<1>3. patrol # t /\ \A m \in Mutexes : owner[m] = t <=> m \in keeping[t]
  BY <1>1, <1>2 DEF ThreadOK, Holds
<1>4. \A u \in Threads : pos[u] # "dead" /\ t \in join_list[u] =>
              op[t].kind = "join" /\ op[t].arg = u
  BY <1>1 DEF ThreadOK, Queued
<1>5. pos[t] = "run" => op[t] = Free /\ status[t] = "runnable"
  BY <1>1 DEF ThreadOK, Call, State
<1> QED BY <1>2, <1>3, <1>4, <1>5 DEF Waiters

LEMMA InRuby ==
  ASSUME SyncInv, NEW t \in Threads, pos[t] = "run"
  PROVE  /\ t \in living /\ patrol # t /\ op[t] = Free /\ status[t] = "runnable"
         /\ \A m \in Mutexes : owner[m] = t <=> m \in keeping[t]
         /\ \A u \in Threads : pos[u] # "dead" => t \notin join_list[u]
<1>1. op[t] = Free
  BY NotLocking
<1>2. \A u \in Threads : pos[u] # "dead" => t \notin join_list[u]
  BY <1>1, NotLocking, SMTT(30) DEF Free
<1> QED BY <1>1, <1>2, NotLocking

\* A thread that is back in Ruby code.
LEMMA ReturnKeeps ==
  ASSUME NEW t \in Threads, TypeOK', t \in living', patrol' # t,
         pos'[t] = "run", op'[t] = Free, status'[t] = "runnable",
         \A m \in Mutexes : owner'[m] = t <=> m \in keeping'[t],
         \A u \in Threads : pos'[u] # "dead" => t \notin join_list'[u]
  PROVE  ThreadOK(t)'
<1>1. Place(t)' /\ Call(t)' /\ State(t)'
  BY SMTT(30) DEF Place, Call, State, Sleeps, Free
<1>2. Holds(t)'
  BY SMTT(30) DEF Holds, Free
<1>3. Queued(t)'
  BY DEF Queued, Sleeps
<1> QED BY <1>1, <1>2, <1>3 DEF ThreadOK

\* A thread that begins to sleep.
LEMMA SleepKeeps ==
  ASSUME NEW t \in Threads, TypeOK', t \in living', patrol' # t,
         pos'[t] = "check_first", status'[t] = Asleep(op'[t]),
         op'[t].kind \in {"sleep", "cv", "pop", "push", "join", "stop"},
         \A m \in Mutexes : owner'[m] = t <=> m \in keeping'[t],
         op'[t].kind \in {"sleep", "cv"} => op'[t].arg \in Mutexes \ keeping'[t],
         op'[t].kind = "join" => op'[t].arg \in living' \ {t, Main} /\ t \in join_list'[op'[t].arg],
         op'[t].kind = "pop" => t \in Listed(qwait'),
         op'[t].kind = "push" => t \in Listed(pwait'),
         op'[t].kind = "cv" => t \in Listed(cvwait'),
         \A u \in Threads : pos'[u] # "dead" /\ t \in join_list'[u] =>
           op'[t].kind = "join" /\ op'[t].arg = u
  PROVE  ThreadOK(t)'
<1>1. Place(t)'
  BY DEF Place, Asleep
<1>2. Call(t)'
  BY DEF Call, Sleeps, TypeOK
<1>3. State(t)'
  BY DEF State, Sleeps
<1>4. Holds(t)'
  BY DEF Holds
<1>5. Queued(t)'
  BY DEF Queued, Sleeps
<1> QED BY <1>1, <1>2, <1>3, <1>4, <1>5 DEF ThreadOK

\* Unless it unlocks one, a step of t leaves a free mutex with a thread that was
\* signalled: nobody begins to wait for a mutex that is free.
LEMMA UnlockKept ==
  ASSUME SyncInv, NEW t \in Threads, Others(t), woken \subseteq woken',
         pos[t] # "lock_func",
         \A m \in Mutexes : owner'[m] = None => owner[m] = None,
         \A m \in Mutexes : pos'[t] = "lock_func" /\ op'[t].arg = m => owner'[m] # None
  PROVE  NoLostUnlock'
<1> SUFFICES ASSUME NEW m \in Mutexes, owner'[m] = None, NEW u \in Waiters(m)'
             PROVE  Waiters(m)' \cap woken' # {}
  BY DEF NoLostUnlock
<1>1. owner[m] = None /\ u \in Threads /\ u # t
  BY DEF Waiters
<1>2. u \in Waiters(m)
  BY <1>1 DEF Waiters, Others, Undisturbed
<1>3. PICK v \in Waiters(m) : v \in woken
  BY <1>1, <1>2 DEF SyncInv, NoLostUnlock
<1>4. v \in Waiters(m)'
  BY <1>3 DEF Waiters, Others, Undisturbed
<1> QED BY <1>3, <1>4

\* A thread in Ruby code that wakes others and goes on.
LEMMA WakersKeep ==
  \A t \in Threads :
    /\ SyncInv /\ UNCHANGED ops
    /\ \/ CvSignal(t) \/ queue_do_close(t) \/ rb_szqueue_clear(t) \/ rb_szqueue_max_set(t)
       \/ CheckInts(t) \/ \E u \in Threads : Interrupt(t, u) \/ rb_thread_wakeup(t, u)
    => SyncInv'
<1>AllAreWoken.
      ASSUME NEW s \in Seq(Threads)
      PROVE  /\ AllThreads(s) \subseteq Threads
             /\ \A u \in Listed(s) : u \in AllThreads(s) \/ status[u] = "killed"
  BY <1>AllAreWoken, SMTT(30) DEF AllThreads, Alive, Listed
\* SizedQueue#max= wakes the head of the list and leaves the rest on it.
<1>HeadIsWoken.
      ASSUME NEW s \in Seq(Threads), NEW n \in 0 .. Len(s)
      PROVE  /\ SubSeq(s, 1, n) \in Seq(Threads) /\ SubSeq(s, n + 1, Len(s)) \in Seq(Threads)
             /\ \A u \in Listed(s) : \/ u \in Listed(SubSeq(s, 1, n))
                                     \/ u \in Listed(SubSeq(s, n + 1, Len(s)))
  <2> USE <1>HeadIsWoken
  <2> DEFINE a == SubSeq(s, 1, n)
             b == SubSeq(s, n + 1, Len(s))
  <2>1. a \in Seq(Threads) /\ b \in Seq(Threads)
    BY SMTT(30)
  <2>2. ASSUME NEW u \in Listed(s)
        PROVE  u \in Listed(a) \/ u \in Listed(b)
    <3>1. PICK i \in 1 .. Len(s) : s[i] = u
      BY SMTT(30) DEF Listed
    <3>2. CASE i <= n
      <4>1. i \in DOMAIN a /\ a[i] = u
        BY <3>1, <3>2, SMTT(30)
      <4> QED BY <4>1 DEF Listed
    <3>3. CASE i > n
      <4>1. i - n \in DOMAIN b /\ b[i - n] = u
        BY <3>1, <3>3, SMTT(30)
      <4> QED BY <4>1 DEF Listed
    <3> QED BY <3>1, <3>2, <3>3, SMTT(30)
  <2> QED BY <2>1, <2>2
<1>WakeUpTells.
      ASSUME TypeOK, NEW S, WakeUp(S)
      PROVE  /\ status' \in [Threads -> Statuses] /\ intr' \in [Threads -> BOOLEAN]
             /\ woken' \subseteq Threads /\ woken \subseteq woken'
             /\ \A u \in Threads : /\ Told(u)
                                   /\ u \in S /\ status[u] # "killed" => status'[u] = "runnable"
                                   /\ status[u] = "runnable" => status'[u] = "runnable"
  <2> USE <1>WakeUpTells
  <2>1. status \in [Threads -> Statuses] /\ woken \in SUBSET Threads
    BY DEF TypeOK, Statuses
  <2>2. /\ Ready(S, status) \in [Threads -> Statuses] /\ Flagged(S) \in [Threads -> BOOLEAN]
        /\ Broadcast(S, woken) \subseteq Threads /\ woken \subseteq Broadcast(S, woken)
    BY <2>1, WakingTypes
  <2>3. \A u \in Threads : /\ Told(u)
                           /\ u \in S /\ status[u] # "killed" => status'[u] = "runnable"
                           /\ status[u] = "runnable" => status'[u] = "runnable"
    BY <2>1 DEF WakeUp, Ready, Flagged, Told, Stopped, Statuses
  <2> QED BY <2>2, <2>3 DEF WakeUp
\* A thread in Ruby code that wakes others and goes on.
<1>WakerKeeps.
      ASSUME SyncInv, TypeOK', NEW t \in Threads, pos[t] = "run",
             UNCHANGED <<living, pos, op, patrol, owner, keeping, res, join_list>>,
             woken \subseteq woken', status'[t] = "runnable",
             \A u \in Threads \ {t} : /\ Told(u) /\ StaysOn(u, qwait, qwait')
                                      /\ StaysOn(u, pwait, pwait') /\ StaysOn(u, cvwait, cvwait')
      PROVE  SyncInv'
  <2> USE <1>WakerKeeps
  <2>1. Others(t)
    BY DEF Others, Undisturbed, StillListed
  <2>2. NoLostUnlock'
    BY <2>1, UnlockKept
  <2>3. ThreadOK(t)'
    BY InRuby, ReturnKeeps
  <2> QED BY <2>1, <2>2, <2>3, StepKeeps
<1>CvSignalKeeps.
      ASSUME SyncInv, NEW t \in Threads, CvSignal(t), UNCHANGED ops
      PROVE  SyncInv'
  <2> USE <1>CvSignalKeeps
  <2>1. TypeOK /\ pos[t] = "run" /\ status[t] = "runnable" /\ cvwait \in Seq(Threads)
    BY NotLocking DEF SyncInv, TypeOK, CvSignal, Runs
  <2>2. CASE WakeUp(FirstThread(cvwait)) /\ cvwait' = AfterFirst(cvwait)
    <3>1. TypeOK'
      BY <2>1, <2>2, <1>WakeUpTells, FirstIsWoken DEF CvSignal, TypeOK, Statuses, queVars
    <3>2. \A u \in Threads : Told(u) /\ StaysOn(u, cvwait, cvwait')
      BY <2>1, <2>2, <1>WakeUpTells, FirstIsWoken DEF StaysOn
    <3> QED BY <2>1, <2>2, <3>1, <3>2, <1>WakeUpTells, <1>WakerKeeps DEF CvSignal, StaysOn
  <2>3. CASE WakeUp(AllThreads(cvwait)) /\ cvwait' = <<>>
    <3>1. TypeOK'
      BY <2>1, <2>3, <1>WakeUpTells, SMTT(30) DEF CvSignal, TypeOK, Statuses, queVars
    <3>2. \A u \in Threads : Told(u) /\ StaysOn(u, cvwait, cvwait')
      BY <2>1, <2>3, <1>WakeUpTells, <1>AllAreWoken DEF StaysOn
    <3> QED BY <2>1, <2>3, <3>1, <3>2, <1>WakeUpTells, <1>WakerKeeps DEF CvSignal, StaysOn
  <2> QED BY <2>2, <2>3 DEF CvSignal
<1>CloseKeeps.
      ASSUME SyncInv, NEW t \in Threads, queue_do_close(t), UNCHANGED ops
      PROVE  SyncInv'
  <2> USE <1>CloseKeeps
  <2> DEFINE S == AllThreads(qwait) \cup AllThreads(pwait)
  <2>1. TypeOK /\ pos[t] = "run" /\ status[t] = "runnable" /\ {qwait, pwait} \subseteq Seq(Threads)
    BY NotLocking, SMTT(30) DEF SyncInv, TypeOK, queue_do_close, Runs
  <2>2. WakeUp(S)
    BY DEF queue_do_close
  <2>3. TypeOK'
    BY <2>1, <2>2, <1>WakeUpTells, SMTT(30) DEF queue_do_close, TypeOK, Statuses
  <2>4. \A u \in Threads : Told(u) /\ StaysOn(u, qwait, qwait') /\ StaysOn(u, pwait, pwait')
    BY <2>1, <2>2, <1>WakeUpTells, <1>AllAreWoken, SMTT(30) DEF StaysOn
  <2> QED BY <2>1, <2>2, <2>3, <2>4, <1>WakeUpTells, <1>WakerKeeps DEF queue_do_close, StaysOn
<1>ClearKeeps.
      ASSUME SyncInv, NEW t \in Threads, rb_szqueue_clear(t), UNCHANGED ops
      PROVE  SyncInv'
  <2> USE <1>ClearKeeps
  <2>1. TypeOK /\ pos[t] = "run" /\ status[t] = "runnable" /\ pwait \in Seq(Threads)
    BY NotLocking DEF SyncInv, TypeOK, rb_szqueue_clear, Runs
  <2>2. WakeUp(AllThreads(pwait))
    BY DEF rb_szqueue_clear
  <2>3. TypeOK'
    BY <2>1, <2>2, <1>WakeUpTells, SMTT(30) DEF rb_szqueue_clear, TypeOK, Statuses
  <2>4. \A u \in Threads : Told(u) /\ StaysOn(u, pwait, pwait')
    BY <2>1, <2>2, <1>WakeUpTells, <1>AllAreWoken DEF StaysOn
  <2> QED BY <2>1, <2>2, <2>3, <2>4, <1>WakeUpTells, <1>WakerKeeps DEF rb_szqueue_clear, StaysOn
\* The loop of SizedQueue#max= wakes no more threads than there are.
<1>WokenByMax.
      ASSUME NEW new \in Nat, NEW old \in Nat, NEW s \in Seq(Threads)
      PROVE  LET diff == IF new > old THEN new - old ELSE 0
             IN (IF diff < Len(s) THEN diff ELSE Len(s)) \in 0 .. Len(s)
  BY <1>WokenByMax, SMTT(30)
<1>MaxSetKeeps.
      ASSUME SyncInv, NEW t \in Threads, rb_szqueue_max_set(t), UNCHANGED ops
      PROVE  SyncInv'
  <2> USE <1>MaxSetKeeps
  <2> DEFINE diff == IF max' > max THEN max' - max ELSE 0
             n == IF diff < Len(pwait) THEN diff ELSE Len(pwait)
             head == SubSeq(pwait, 1, n)
  <2>1. TypeOK /\ pos[t] = "run" /\ status[t] = "runnable" /\ pwait \in Seq(Threads)
    BY NotLocking DEF SyncInv, TypeOK, rb_szqueue_max_set, Runs
  <2>2. WakeUp(AllThreads(head)) /\ pwait' = SubSeq(pwait, n + 1, Len(pwait))
    BY DEF rb_szqueue_max_set
  <2>3. n \in 0 .. Len(pwait)
    <3>1. max \in Nat /\ max' \in Nat
      BY <2>1, SyncAssumption DEF TypeOK, rb_szqueue_max_set, NewMax
    <3> QED BY <2>1, <3>1, <1>WokenByMax
  <2> HIDE DEF n
  <2>4. head \in Seq(Threads) /\ pwait' \in Seq(Threads)
    BY <2>1, <2>2, <2>3, <1>HeadIsWoken
  <2>5. TypeOK'
    BY <2>1, <2>2, <2>4, <1>WakeUpTells DEF rb_szqueue_max_set, TypeOK, Statuses, NewMax
  <2>6. \A u \in Threads : u \in Listed(pwait) => u \in Listed(head) \/ u \in Listed(pwait')
    BY <2>1, <2>2, <2>3, <1>HeadIsWoken
  <2>7. \A u \in Threads : Told(u) /\ StaysOn(u, pwait, pwait')
    <3> HIDE DEF head
    <3> QED BY <2>1, <2>2, <2>4, <2>6, <1>WakeUpTells, <1>AllAreWoken DEF StaysOn
  <2> QED BY <2>1, <2>2, <2>5, <2>7, <1>WakeUpTells, <1>WakerKeeps DEF rb_szqueue_max_set, StaysOn
<1>WakeupKeeps.
      ASSUME SyncInv, NEW t \in Threads, NEW u \in Threads, rb_thread_wakeup(t, u), UNCHANGED ops
      PROVE  SyncInv'
  <2> USE <1>WakeupKeeps
  <2>1. TypeOK /\ pos[t] = "run" /\ status[t] = "runnable" /\ WakeUp({u})
    BY NotLocking DEF SyncInv, TypeOK, rb_thread_wakeup, Runs
  <2>2. TypeOK'
    BY <2>1, <1>WakeUpTells, SyncAssumption, SMTT(30) DEF rb_thread_wakeup, TypeOK, Statuses,
      queVars, waitVars
  <2> QED BY <2>1, <2>2, <1>WakeUpTells, <1>WakerKeeps DEF rb_thread_wakeup, StaysOn, waitVars
<1>InterruptKeeps.
      ASSUME SyncInv, NEW t \in Threads, NEW u \in Threads, Interrupt(t, u), UNCHANGED ops
      PROVE  SyncInv'
  <2> USE <1>InterruptKeeps
  <2>1. TypeOK /\ pos[t] = "run" /\ status[t] = "runnable"
    BY NotLocking DEF SyncInv, TypeOK, Interrupt, Runs
  <2>2. intr' \in [Threads -> BOOLEAN] /\ woken' \subseteq Threads /\ woken \subseteq woken'
    BY <2>1, SMTT(30) DEF Interrupt, TypeOK, Flagged, Broadcast, Waiters
  <2>3. pend' \in [Threads -> Seq({"raise", "kill"})] /\ interrupts' \in 0 .. MaxInterrupts
    BY <2>1, SyncAssumption, SMTT(30) DEF Interrupt, TypeOK
  <2>4. UNCHANGED <<status, living, pos, op, exc, to_kill, sleeper, patrol, owner, keeping,
                    res, queVars, waitVars, reports>>
    BY DEF Interrupt
  <2>5. TypeOK'
    BY <2>1, <2>2, <2>3, <2>4 DEF TypeOK, queVars, waitVars
  <2>6. \A v \in Threads : Told(v)
    BY <2>1 DEF Interrupt, Told, Flagged
  <2> QED BY <2>1, <2>2, <2>4, <2>5, <2>6, <1>WakerKeeps DEF StaysOn, waitVars
<1>CheckIntsKeeps.
      ASSUME SyncInv, NEW t \in Threads, CheckInts(t), UNCHANGED ops
      PROVE  SyncInv'
  <2> USE <1>CheckIntsKeeps
  <2>1. TypeOK /\ pos[t] = "run" /\ status[t] = "runnable"
    BY NotLocking DEF SyncInv, TypeOK, CheckInts
  <2>2. TypeOK'
    BY <2>1 DEF CheckInts, TypeOK, mutexVars, queVars, waitVars
  <2>3. \A v \in Threads \ {t} : Told(v)
    BY <2>1 DEF CheckInts, TypeOK, Told
  <2> QED BY <2>1, <2>2, <2>3, <1>WakerKeeps DEF CheckInts, StaysOn, mutexVars, waitVars
<1> QED
  BY <1>CvSignalKeeps, <1>CloseKeeps, <1>ClearKeeps, <1>MaxSetKeeps, <1>WakeupKeeps,
     <1>InterruptKeeps, <1>CheckIntsKeeps

----------------------------------------------------------------------------
(* Sleeping *)

\* A thread that begins to sleep without a mutex, goes into native_sleep and
\* comes out of it.
LEMMA SleepersKeep ==
  \A t \in Threads :
    /\ SyncInv /\ UNCHANGED ops
    /\ \/ native_sleep(t) \/ Wakes(t) \/ rb_thread_stop(t) \/ \E u \in Threads : thread_join(t, u)
    => SyncInv'
\* Into native_sleep, or out of it.
<1>SleeperMoves.
      ASSUME SyncInv, TypeOK', NEW t \in Threads, Sleeps(t), Sleeps(t)',
             pos' = [pos EXCEPT ![t] = pos'[t]], pos'[t] = "asleep" => status[t] # "runnable",
             UNCHANGED <<status, living, op, patrol, owner, keeping, res, waitVars>>,
             woken \subseteq woken', \A u \in Threads \ {t} : intr[u] => intr'[u]
      PROVE  SyncInv'
  <2> USE <1>SleeperMoves
  <2>1. ThreadOK(t) /\ TypeOK
    BY DEF SyncInv
  <2>2. \A u \in Threads \ {t} : pos'[u] = pos[u]
    BY <2>1 DEF TypeOK
  <2>3. Others(t)
    BY <2>2 DEF Others, Undisturbed, Told, StillListed, StaysOn, waitVars, Sleeps
  <2>4. NoLostUnlock'
    BY <2>3, UnlockKept DEF Sleeps
  <2>5. Place(t)' /\ Call(t)' /\ State(t)' /\ Holds(t)'
    BY <2>1 DEF ThreadOK, Place, Call, State, Holds, Sleeps
  <2>6. Queued(t)'
    <3>1. \A u \in Threads : pos'[u] = "dead" <=> pos[u] = "dead"
      BY <2>2 DEF Sleeps
    <3>2. Queued(t) /\ (op[t].kind = "join" => op[t].arg \in Threads)
      BY <2>1 DEF ThreadOK, Call
    <3> QED BY <3>1, <3>2 DEF Queued, waitVars
  <2> QED BY <2>3, <2>4, <2>5, <2>6, StepKeeps DEF ThreadOK
<1>NativeSleepKeeps.
      ASSUME SyncInv, NEW t \in Threads, native_sleep(t), UNCHANGED ops
      PROVE  SyncInv'
  <2> USE <1>NativeSleepKeeps
  <2> DEFINE fl == [intr EXCEPT ![t] = FALSE]
             n == IF op[t].forever THEN sleeper + 1 ELSE sleeper
             dead == op[t].forever /\ NoLiveThreads(t, living, n, status, fl, owner)
  <2>1. TypeOK /\ status \in [Threads -> Statuses]
    BY DEF SyncInv, TypeOK, Statuses
  <2>2. /\ fl \in [Threads -> BOOLEAN] /\ n \in Int
        /\ {woken} \in SUBSET SUBSET Threads /\ dead \in BOOLEAN
    BY <2>1, SMTT(30) DEF TypeOK, NoLiveThreads
  <2>3. Report(dead, status, fl, n, {woken})
    BY DEF native_sleep
  <2>4. \A u \in Threads \ {t} : intr[u] => fl[u]
    BY <2>1 DEF TypeOK
  <2> HIDE DEF fl, n, dead
  <2>5. /\ sleeper' \in Int /\ reports' \in {0, 1}
        /\ pend' \in [Threads -> Seq({"raise", "kill"})]
        /\ intr' \in [Threads -> BOOLEAN] /\ woken' \subseteq Threads
        /\ \A u \in Threads : fl[u] => intr'[u]
        /\ \E v \in {woken} : v \subseteq woken'
    BY <2>1, <2>2, <2>3, ReportTypes, SMTT(30)
  <2>6. /\ Sleeps(t) /\ pos' = [pos EXCEPT ![t] = "asleep"] /\ status[t] # "runnable"
        /\ UNCHANGED <<status, living, op, exc, to_kill, patrol, owner, keeping, res, queVars,
                   waitVars, interrupts>>
    BY DEF native_sleep, StillStopped, Asleep, Sleeps
  <2>7. TypeOK' /\ pos'[t] = "asleep"
    BY <2>1, <2>5, <2>6 DEF TypeOK, Places, queVars, waitVars
  <2> QED BY <2>4, <2>5, <2>6, <2>7, <1>SleeperMoves DEF Sleeps
<1>WakesKeeps.
      ASSUME SyncInv, NEW t \in Threads, Wakes(t), UNCHANGED ops
      PROVE  SyncInv'
  <2> USE <1>WakesKeeps
  <2>1. TypeOK
    BY DEF SyncInv
  <2>2. interrupts' \in 0 .. MaxInterrupts /\ sleeper' \in Int
    BY <2>1, SyncAssumption, SMTT(30) DEF TypeOK, Wakes
  <2>3. /\ pos[t] = "asleep" /\ pos' = [pos EXCEPT ![t] = "check_again"]
        /\ UNCHANGED <<status, living, op, exc, pend, intr, to_kill, patrol, mutexVars, res,
                       queVars, waitVars, reports>>
    BY DEF Wakes
  <2>4. TypeOK' /\ pos'[t] = "check_again"
    BY <2>1, <2>2, <2>3 DEF TypeOK, Places, mutexVars, queVars, waitVars
  <2> QED BY <2>3, <2>4, <1>SleeperMoves DEF Sleeps, mutexVars
\* A thread in Ruby code that begins to sleep without a mutex.
<1>JoinKeeps.
      ASSUME SyncInv, NEW t \in Threads, NEW u \in Threads, thread_join(t, u), UNCHANGED ops
      PROVE  SyncInv'
  <2> USE <1>JoinKeeps
  <2>1. TypeOK /\ pos[t] = "run" /\ u \in living \ {t, Main}
    BY DEF SyncInv, thread_join, Runs
  <2>2. PICK f \in BOOLEAN :
          /\ SleepBegins(t, [kind |-> "join", arg |-> u, forever |-> f])
          /\ status' = [status EXCEPT ![t] = IF f THEN "stopped_forever" ELSE "stopped"]
    BY DEF thread_join, Forever
  <2>3. /\ join_list' = [join_list EXCEPT ![u] = @ \cup {t}]
        /\ UNCHANGED <<living, pend, intr, to_kill, sleeper, patrol, mutexVars, res, queVars,
                       qwait, pwait, cvwait, interrupts, reports>>
    BY DEF thread_join
  <2>4. TypeOK'
    BY <2>1, <2>2, <2>3 DEF TypeOK, Places, Calls, Statuses, SleepBegins, Kinds, mutexVars, queVars
  <2>5. Others(t)
    BY <2>1, <2>2, <2>3 DEF TypeOK, SleepBegins, Others, Undisturbed, Told, StillListed,
      StaysOn, mutexVars
  <2>6. NoLostUnlock'
    BY <2>1, <2>2, <2>3, <2>5, UnlockKept DEF SleepBegins, mutexVars, TypeOK
  <2>7. /\ t \in living /\ patrol # t /\ op[t] = Free
        /\ \A m \in Mutexes : owner[m] = t <=> m \in keeping[t]
        /\ \A v \in Threads : pos[v] # "dead" => t \notin join_list[v]
    BY <2>1, InRuby
  <2>8. ThreadOK(t)'
    <3>1. /\ pos'[t] = "check_first" /\ op'[t] = [kind |-> "join", arg |-> u, forever |-> f]
          /\ status'[t] = Asleep(op'[t])
      BY <2>1, <2>2 DEF TypeOK, SleepBegins, Asleep
    <3>2. t \in join_list'[u] /\ \A v \in Threads \ {u} : join_list'[v] = join_list[v]
      BY <2>1, <2>3 DEF TypeOK
    <3>3. \A v \in Threads : pos'[v] # "dead" => pos[v] # "dead"
      BY <2>1, <2>2 DEF TypeOK, SleepBegins
    <3> QED BY <2>1, <2>3, <2>4, <2>7, <3>1, <3>2, <3>3, SleepKeeps, SMTT(30) DEF mutexVars
  <2> QED BY <2>4, <2>5, <2>6, <2>8, StepKeeps
<1>StopKeeps.
      ASSUME SyncInv, NEW t \in Threads, rb_thread_stop(t), UNCHANGED ops
      PROVE  SyncInv'
  <2> USE <1>StopKeeps
  <2>1. /\ TypeOK /\ pos[t] = "run" /\ SleepBegins(t, [Free EXCEPT !.kind = "stop"])
        /\ status' = [status EXCEPT ![t] = "stopped_forever"]
        /\ UNCHANGED <<living, pend, intr, to_kill, sleeper, patrol, mutexVars, res, queVars,
                       waitVars, interrupts, reports>>
    BY DEF SyncInv, rb_thread_stop, Runs
  <2>2. TypeOK'
    BY <2>1 DEF TypeOK, Places, Calls, Statuses, SleepBegins, Kinds, Free, mutexVars, queVars,
      waitVars
  <2>3. Others(t)
    BY <2>1 DEF TypeOK, SleepBegins, Others, Undisturbed, Told, StillListed, StaysOn, mutexVars,
      waitVars
  <2>4. NoLostUnlock'
    BY <2>1, <2>3, UnlockKept DEF SleepBegins, mutexVars, TypeOK
  <2>5. ThreadOK(t)'
    <3>1. /\ t \in living /\ patrol # t /\ op[t] = Free
          /\ \A m \in Mutexes : owner[m] = t <=> m \in keeping[t]
          /\ \A v \in Threads : pos[v] # "dead" => t \notin join_list[v]
      BY <2>1, InRuby
    <3>2. /\ pos'[t] = "check_first" /\ status'[t] = Asleep(op'[t]) /\ op'[t].kind = "stop"
          /\ \A v \in Threads : pos'[v] # "dead" => pos[v] # "dead"
      BY <2>1 DEF TypeOK, SleepBegins, Asleep, Free
    <3> QED BY <2>1, <2>2, <3>1, <3>2, SleepKeeps DEF mutexVars, waitVars
  <2> QED BY <2>2, <2>3, <2>4, <2>5, StepKeeps
<1> QED
  BY <1>NativeSleepKeeps, <1>WakesKeeps, <1>JoinKeeps, <1>StopKeeps

----------------------------------------------------------------------------
(* Mutexes *)

LockTyped ==
  /\ owner' \in [Mutexes -> Threads \cup {None}] /\ keeping' \in [Threads -> SUBSET Mutexes]
  /\ pos' \in [Threads -> Places] /\ op' \in [Threads -> Calls]
  /\ exc' \in [Threads -> {"none", "raise", "kill"}] /\ cvwait' \in Seq(Threads)
  /\ status' \in [Threads -> Statuses] /\ intr' \in [Threads -> BOOLEAN]
  /\ sleeper' \in Int /\ patrol' \in Threads \cup {None}
  /\ woken' \subseteq Threads /\ res' \in [Threads -> 0 .. 2]

LEMMA LockBeginsTypes ==
  ASSUME TypeOK, NEW t \in Threads, NEW m \in Mutexes, NEW fl \in [Threads -> BOOLEAN],
         LockBegins(t, m, fl)
  PROVE  /\ owner' \in [Mutexes -> Threads \cup {None}] /\ keeping' = keeping
         /\ pos' \in [Threads -> Places] /\ patrol' \in Threads \cup {None}
         /\ status' \in [Threads -> Statuses] /\ intr' \in [Threads -> BOOLEAN]
         /\ sleeper' \in Int /\ res' \in [Threads -> 0 .. 2]
<1>1. /\ owner \in [Mutexes -> Threads \cup {None}] /\ pos \in [Threads -> Places]
      /\ res \in [Threads -> 0 .. 2] /\ status \in [Threads -> Statuses]
      /\ sleeper \in Int /\ patrol \in Threads \cup {None}
  BY DEF TypeOK, Places, Statuses
<1>2. owner' \in [Mutexes -> Threads \cup {None}]
  BY <1>1, SMTT(30) DEF LockBegins
<1>3. res' \in [Threads -> 0 .. 2]
  <2>1. res' = [res EXCEPT ![t] = 0] \/ res' = [res EXCEPT ![t] = 1]
    BY DEF LockBegins
  <2> QED BY <1>1, <2>1, SMTT(30)
<1>4. pos' \in [Threads -> Places]
  <2>1. \/ pos' = [pos EXCEPT ![t] = "lock_ret"] \/ pos' = [pos EXCEPT ![t] = "lock_func"]
    BY DEF LockBegins
  <2> QED BY <1>1, <2>1 DEF Places
<1>5. /\ patrol' \in Threads \cup {None} /\ sleeper' \in Int
      /\ status' \in [Threads -> Statuses] /\ intr' \in [Threads -> BOOLEAN]
      /\ keeping' = keeping
  BY <1>1, SMTT(30) DEF LockBegins, Patrol, Statuses
<1> QED BY <1>2, <1>3, <1>4, <1>5

LEMMA LockTypes ==
  ASSUME TypeOK, NEW t \in Threads, NEW o \in Calls, o.arg \in Mutexes,
         NEW e \in {"none", "raise", "kill"}, NEW fl \in [Threads -> BOOLEAN],
         rb_mutex_lock(t, o, e, fl)
  PROVE  LockTyped
<1>1. Delete(cvwait, t) \in Seq(Threads)
  BY DeleteKeepsOthers DEF TypeOK
<1>2. CASE owner[o.arg] = None
  <2>1. /\ owner' = [owner EXCEPT ![o.arg] = t]
        /\ keeping' = [keeping EXCEPT ![t] = @ \cup {o.arg}]
        /\ Returned(t, e) /\ cvwait' \in {cvwait, Delete(cvwait, t)}
        /\ status' = [status EXCEPT ![t] = "runnable"] /\ intr' = fl
        /\ UNCHANGED <<sleeper, patrol, woken, res>>
    BY <1>2 DEF rb_mutex_lock, Locked
  <2>2. /\ pos' \in [Threads -> Places] /\ op' \in [Threads -> Calls]
        /\ exc' \in [Threads -> {"none", "raise", "kill"}]
    BY <2>1 DEF TypeOK, Returned, Free, Calls, Places, Kinds
  <2>3. owner' \in [Mutexes -> Threads \cup {None}] /\ keeping' \in [Threads -> SUBSET Mutexes]
    BY <2>1 DEF TypeOK
  <2>4. status' \in [Threads -> Statuses] /\ cvwait' \in Seq(Threads)
    BY <1>1, <2>1 DEF TypeOK, Statuses
  <2> QED BY <2>1, <2>2, <2>3, <2>4 DEF LockTyped, TypeOK
<1>3. CASE owner[o.arg] # None
  <2>1. /\ LockBegins(t, o.arg, fl) /\ op' = [op EXCEPT ![t] = o]
        /\ exc' = [exc EXCEPT ![t] = e] /\ UNCHANGED <<cvwait, woken>>
    BY <1>3 DEF rb_mutex_lock
  <2>2. op' \in [Threads -> Calls] /\ exc' \in [Threads -> {"none", "raise", "kill"}]
    BY <2>1 DEF TypeOK, Calls
  <2>3. keeping \in [Threads -> SUBSET Mutexes] /\ woken \subseteq Threads /\ cvwait \in Seq(Threads)
    BY DEF TypeOK
  <2> QED BY <2>1, <2>2, <2>3, LockBeginsTypes DEF LockTyped
<1> QED BY <1>2, <1>3

\* The mutex was free.
LEMMA MutexTaken ==
  ASSUME SyncInv, TypeOK', NEW t \in Threads, NEW m \in Mutexes,
         pos[t] \in {"run", "check_first", "check_again"},
         op[t].kind # "join", owner[m] = None,
         owner' = [owner EXCEPT ![m] = t], keeping' = [keeping EXCEPT ![t] = @ \cup {m}],
         pos' = [pos EXCEPT ![t] = "run"], op' = [op EXCEPT ![t] = Free],
         status' = [status EXCEPT ![t] = "runnable"],
         \A u \in Threads \ {t} : intr'[u] = intr[u],
         UNCHANGED <<living, patrol, woken, res, qwait, pwait, join_list>>,
         cvwait' \in {cvwait, Delete(cvwait, t)}
  PROVE  SyncInv'
<1>1. /\ TypeOK /\ cvwait \in Seq(Threads) /\ owner \in [Mutexes -> Threads \cup {None}]
      /\ None \notin Threads
  BY SyncAssumption DEF SyncInv, TypeOK
<1>2. \A u \in Threads \ {t} : StaysOn(u, cvwait, cvwait')
  BY <1>1, DeleteKeepsOthers DEF StaysOn
<1>3. \A u \in Threads \ {t} : \A x \in Mutexes : owner'[x] = u <=> owner[x] = u
  BY <1>1
<1>4. \A u \in Threads \ {t} : /\ pos'[u] = pos[u] /\ op'[u] = op[u] /\ keeping'[u] = keeping[u]
                               /\ status'[u] = status[u]
  BY <1>1, SMTT(30) DEF TypeOK
<1>5. Others(t)
  <2>1. \A u \in Threads \ {t} : Undisturbed(u) /\ Told(u)
    BY <1>3, <1>4 DEF Undisturbed, Told
  <2>2. \A v \in Threads : pos[v] = "dead" => pos'[v] = "dead"
    BY <1>4
  <2>3. \A u \in Threads \ {t} : StillListed(u)
    BY <1>2, <2>2 DEF StillListed, StaysOn
  <2> QED BY <2>1, <2>3 DEF Others
<1>6. NoLostUnlock'
  <2>1. \A x \in Mutexes : owner'[x] = None => owner[x] = None
    BY <1>1
  <2>2. pos'[t] = "run"
    <3>1. pos \in [Threads -> Places]
      BY <1>1 DEF TypeOK
    <3> QED BY <3>1
  <2> QED BY <1>5, <2>1, <2>2, UnlockKept
<1>7. /\ t \in living /\ patrol # t /\ \A x \in Mutexes : owner[x] = t <=> x \in keeping[t]
      /\ \A u \in Threads : pos[u] # "dead" => t \notin join_list[u]
  BY NotLocking
<1>8. \A x \in Mutexes : owner'[x] = t <=> x \in keeping'[t]
  <2>1. keeping'[t] = keeping[t] \cup {m}
    <3>1. keeping \in [Threads -> SUBSET Mutexes]
      BY <1>1 DEF TypeOK
    <3> QED BY <3>1
  <2> QED BY <1>1, <1>7, <2>1
<1>9. /\ pos'[t] = "run" /\ op'[t] = Free /\ status'[t] = "runnable"
      /\ \A u \in Threads : pos'[u] # "dead" => t \notin join_list'[u]
  <2>1. pos \in [Threads -> Places] /\ op \in [Threads -> Calls] /\ status \in [Threads -> Statuses]
    BY <1>1 DEF TypeOK
  <2> QED BY <1>4, <1>7, <2>1
<1>10. ThreadOK(t)'
  BY <1>7, <1>8, <1>9, ReturnKeeps
<1> QED BY <1>5, <1>6, <1>10, StepKeeps

\* It was not, when rb_mutex_lock looked.
LEMMA MutexAwaited ==
  ASSUME SyncInv, TypeOK', NEW t \in Threads, NEW m \in Mutexes, NEW fl \in [Threads -> BOOLEAN],
         pos[t] \in {"run", "check_first", "check_again", "lock_check"},
         op[t].kind # "join", m \notin keeping[t], LockBegins(t, m, fl),
         \A u \in Threads \ {t} : fl[u] = intr[u],
         op'[t].kind \in {"lock", "sleep", "cv"}, op'[t].arg = m,
         \A u \in Threads \ {t} : op'[u] = op[u],
         UNCHANGED <<living, woken, waitVars>>
  PROVE  SyncInv'
<1>1. TypeOK /\ None \notin Threads /\ owner \in [Mutexes -> Threads \cup {None}]
  BY SyncAssumption DEF SyncInv, TypeOK
<1>9. /\ status \in [Threads -> Statuses] /\ pos \in [Threads -> Places]
      /\ res \in [Threads -> 0 .. 2]
  BY <1>1 DEF TypeOK
<1>10. /\ status' = [status EXCEPT ![t] = "stopped_forever"] /\ intr' = fl /\ keeping' = keeping
       /\ \/ /\ owner[m] = None /\ owner' = [owner EXCEPT ![m] = t]
             /\ res' = [res EXCEPT ![t] = 0] /\ pos' = [pos EXCEPT ![t] = "lock_ret"]
          \/ /\ owner[m] # None /\ owner' = owner /\ res' = [res EXCEPT ![t] = 1]
             /\ \/ fl[t] /\ pos' = [pos EXCEPT ![t] = "lock_ret"]
                \/ pos' = [pos EXCEPT ![t] = "lock_func"]
  BY DEF LockBegins
<1>2. \A u \in Threads \ {t} : /\ pos'[u] = pos[u] /\ res'[u] = res[u] /\ keeping'[u] = keeping[u]
                               /\ status'[u] = status[u] /\ intr'[u] = intr[u]
  BY <1>9, <1>10
<1>3. \A u \in Threads \ {t} : /\ \A x \in Mutexes : owner'[x] = u <=> owner[x] = u
                               /\ patrol' = u <=> patrol = u
  BY <1>1, SMTT(30) DEF LockBegins, Patrol
<1>4. Others(t)
  BY <1>2, <1>3 DEF Others, Undisturbed, Told, StillListed, StaysOn, waitVars
<1>5. NoLostUnlock'
  <2>1. /\ \A x \in Mutexes : owner'[x] = None => owner[x] = None
        /\ pos'[t] = "lock_func" => owner'[m] # None
    BY <1>1, <1>9, <1>10
  <2> QED BY <1>4, <2>1, UnlockKept
<1>6. /\ t \in living /\ patrol # t /\ \A x \in Mutexes : owner[x] = t <=> x \in keeping[t]
      /\ \A u \in Threads : pos[u] # "dead" => t \notin join_list[u]
  BY NotLocking
<1>7. /\ pos'[t] \in {"lock_func", "lock_ret"} /\ status'[t] = "stopped_forever"
      /\ keeping' = keeping
      /\ pos'[t] = "lock_ret" => \/ owner[m] = None /\ res'[t] = 0
                                 \/ owner[m] # None /\ res'[t] = 1 /\ intr'[t]
      /\ pos'[t] = "lock_func" => owner[m] # None
      /\ owner' = IF owner[m] = None THEN [owner EXCEPT ![m] = t] ELSE owner
  BY <1>1, <1>9, <1>10
<1>8. ThreadOK(t)'
  <2>1. Place(t)' /\ Call(t)' /\ State(t)'
    BY <1>6, <1>7 DEF Place, Call, State, Sleeps
  <2>2. Holds(t)'
    <3>1. ASSUME NEW x \in Mutexes
          PROVE  owner'[x] = t <=> x \in keeping'[t] \/ (pos'[t] = "lock_ret" /\ m = x /\ res'[t] = 0)
      <4>1. CASE x = m
        BY <1>1, <1>6, <1>7, <4>1, SMTT(30)
      <4>2. CASE x # m
        BY <1>1, <1>6, <1>7, <4>2
      <4> QED BY <4>1, <4>2
    <3> QED BY <1>6, <1>7, <3>1, SMTT(30) DEF Holds
  <2>3. Queued(t)'
    BY <1>2, <1>6, <1>7 DEF Queued, Sleeps, waitVars
  <2> QED BY <2>1, <2>2, <2>3 DEF ThreadOK
<1> QED BY <1>4, <1>5, <1>8, StepKeeps

\* rb_mutex_lock in the call o, which may be the one t is in.
LEMMA MutexLockKeeps ==
  ASSUME SyncInv, TypeOK', NEW t \in Threads, NEW o \in Calls, NEW e,
         NEW fl \in [Threads -> BOOLEAN], rb_mutex_lock(t, o, e, fl),
         pos[t] \in {"run", "check_first", "check_again"}, op[t].kind # "join",
         o.kind \in {"lock", "sleep", "cv"}, o.arg \in Mutexes,
         \A u \in Threads \ {t} : fl[u] = intr[u],
         UNCHANGED <<living, qwait, pwait, join_list>>
  PROVE  SyncInv'
<1>1. TypeOK
  BY DEF SyncInv
<1>2. CASE owner[o.arg] = None
  <2>1. /\ owner' = [owner EXCEPT ![o.arg] = t]
        /\ keeping' = [keeping EXCEPT ![t] = @ \cup {o.arg}]
        /\ pos' = [pos EXCEPT ![t] = "run"] /\ op' = [op EXCEPT ![t] = Free]
        /\ status' = [status EXCEPT ![t] = "runnable"] /\ intr' = fl
        /\ UNCHANGED <<patrol, woken, res>> /\ cvwait' \in {cvwait, Delete(cvwait, t)}
    BY <1>2 DEF rb_mutex_lock, Locked, Returned
  <2> QED BY <1>2, <2>1, MutexTaken
<1>3. CASE owner[o.arg] # None
  <2>1. /\ LockBegins(t, o.arg, fl) /\ op' = [op EXCEPT ![t] = o] /\ UNCHANGED <<cvwait, woken>>
        /\ owner[o.arg] # t
    BY <1>3 DEF rb_mutex_lock
  <2>2. op'[t] = o /\ \A u \in Threads \ {t} : op'[u] = op[u]
    BY <1>1, <2>1 DEF TypeOK
  <2>3. o.arg \notin keeping[t]
    BY <2>1, NotLocking
  <2> QED BY <2>1, <2>2, <2>3, MutexAwaited DEF waitVars
<1> QED BY <1>2, <1>3

\* A thread that takes a mutex, waits for one or gives one up.
LEMMA MutexesKeep ==
  \A t \in Threads :
    /\ SyncInv /\ UNCHANGED ops
    /\ \/ LockAgain(t) \/ lock_func(t) \/ LockReturns(t)
       \/ \E m \in Mutexes : Lock(t, m) \/ Unlock(t, m) \/ rb_mutex_sleep(t, m)
    => SyncInv'
<1>LockKeeps.
      ASSUME SyncInv, NEW t \in Threads, NEW m \in Mutexes, Lock(t, m), UNCHANGED ops
      PROVE  SyncInv'
  <2> USE <1>LockKeeps
  <2> DEFINE o == [Free EXCEPT !.kind = "lock", !.arg = m]
  <2>1. /\ TypeOK /\ pos[t] = "run" /\ rb_mutex_lock(t, o, "none", intr)
        /\ UNCHANGED <<living, pend, to_kill, queVars, qwait, pwait, join_list, interrupts,
                       reports>>
    BY DEF SyncInv, Lock, Runs
  <2>2. o \in Calls /\ o.kind = "lock" /\ o.arg = m /\ intr \in [Threads -> BOOLEAN]
    BY <2>1 DEF Calls, Free, Kinds, TypeOK
  <2>3. op[t].kind # "join"
    BY <2>1, InRuby, SMTT(30) DEF Free
  <2> HIDE DEF o
  <2>4. LockTyped
    BY <2>1, <2>2, LockTypes
  <2>5. TypeOK'
    BY <2>1, <2>4 DEF TypeOK, LockTyped, queVars
  <2> QED BY <2>1, <2>2, <2>3, <2>5, MutexLockKeeps
<1>LockAgainKeeps.
      ASSUME SyncInv, NEW t \in Threads, LockAgain(t), UNCHANGED ops
      PROVE  SyncInv'
  <2> USE <1>LockAgainKeeps
  <2> DEFINE m == op[t].arg
             fl == [intr EXCEPT ![t] = FALSE]
  <2>1. /\ TypeOK /\ pos[t] = "lock_check" /\ LockBegins(t, m, fl)
        /\ UNCHANGED <<living, op, exc, pend, to_kill, woken, queVars, waitVars, interrupts,
                       reports>>
    BY DEF SyncInv, LockAgain
  <2>2. fl \in [Threads -> BOOLEAN] /\ \A u \in Threads \ {t} : fl[u] = intr[u]
    BY <2>1 DEF TypeOK
  <2>3. /\ op[t].kind \in {"lock", "sleep", "cv"} /\ m \in Mutexes /\ m \notin keeping[t]
    BY <2>1 DEF SyncInv, ThreadOK, Place, Call, Holds
  <2> HIDE DEF fl
  <2>4. /\ owner' \in [Mutexes -> Threads \cup {None}] /\ keeping' = keeping
        /\ pos' \in [Threads -> Places] /\ patrol' \in Threads \cup {None}
        /\ status' \in [Threads -> Statuses] /\ intr' \in [Threads -> BOOLEAN]
        /\ sleeper' \in Int /\ res' \in [Threads -> 0 .. 2]
    BY <2>1, <2>2, <2>3, LockBeginsTypes
  <2>5. TypeOK'
    BY <2>1, <2>4 DEF TypeOK, Places, Statuses, queVars, waitVars
  <2> QED BY <2>1, <2>2, <2>3, <2>5, MutexAwaited
<1>LockFuncKeeps.
      ASSUME SyncInv, NEW t \in Threads, lock_func(t), UNCHANGED ops
      PROVE  SyncInv'
  <2> USE <1>LockFuncKeeps
  <2> DEFINE m == op[t].arg
  <2>1. TypeOK /\ None \notin Threads /\ owner \in [Mutexes -> Threads \cup {None}]
    BY SyncAssumption DEF SyncInv, TypeOK
  <2>2. /\ pos[t] = "lock_func" /\ woken' = woken \ {t}
        /\ UNCHANGED <<status, living, op, exc, pend, intr, to_kill, sleeper, patrol, keeping,
                       queVars, waitVars, interrupts, reports>>
    BY DEF lock_func
  <2>3. \/ /\ owner[m] = None /\ owner' = [owner EXCEPT ![m] = t]
           /\ res' = [res EXCEPT ![t] = 0] /\ pos' = [pos EXCEPT ![t] = "lock_ret"]
        \/ /\ owner[m] # None /\ intr[t] /\ UNCHANGED owner
           /\ res' = [res EXCEPT ![t] = 1] /\ pos' = [pos EXCEPT ![t] = "lock_ret"]
        \/ /\ owner[m] # None /\ patrol = t /\ UNCHANGED owner
           /\ res' = [res EXCEPT ![t] = 2] /\ pos' = [pos EXCEPT ![t] = "lock_ret"]
        \/ owner[m] # None /\ UNCHANGED <<owner, res, pos>>
    BY DEF lock_func
  <2>4. ThreadOK(t) /\ m \in Mutexes /\ t \in living
    BY <2>2 DEF SyncInv, ThreadOK, Place, Call
  <2> HIDE DEF m
  <2>5. /\ owner' \in [Mutexes -> Threads \cup {None}] /\ res' \in [Threads -> 0 .. 2]
        /\ pos' \in [Threads -> Places]
    <3>1. res \in [Threads -> 0 .. 2] /\ pos \in [Threads -> Places]
      BY <2>1 DEF TypeOK, Places
    <3>2. owner' \in [Mutexes -> Threads \cup {None}]
      BY <2>1, <2>3
    <3>3. res' \in [Threads -> 0 .. 2]
      BY <2>3, <3>1, SMTT(30)
    <3>4. pos' \in [Threads -> Places]
      BY <2>3, <3>1 DEF Places
    <3> QED BY <3>2, <3>3, <3>4
  <2>6. TypeOK'
    BY <2>1, <2>2, <2>5 DEF TypeOK, Places, queVars, waitVars
  <2>7. \A u \in Threads \ {t} : /\ pos'[u] = pos[u] /\ res'[u] = res[u]
                                 /\ \A x \in Mutexes : owner'[x] = u <=> owner[x] = u
    BY <2>1, <2>3, <2>4 DEF TypeOK
  <2>8. pos'[t] \in {"lock_func", "lock_ret"}
    BY <2>1, <2>2, <2>3 DEF TypeOK
  <2>9. Others(t)
    BY <2>2, <2>7 DEF Others, Undisturbed, Told, StillListed, StaysOn, waitVars
  <2>10. NoLostUnlock'
    <3> SUFFICES ASSUME NEW x \in Mutexes, owner'[x] = None, NEW u \in Waiters(x)'
                 PROVE  Waiters(x)' \cap woken' # {}
      BY DEF NoLostUnlock
    <3>1. x # m /\ owner[x] = None
      BY <2>1, <2>3, <2>4
    <3>2. \A v \in Threads : v \in Waiters(x)' <=> v # t /\ v \in Waiters(x)
      BY <2>2, <2>7, <3>1 DEF Waiters, m
    <3>3. u \in Waiters(x)
      BY <3>2 DEF Waiters
    <3>4. PICK v \in Waiters(x) : v \in woken
      BY <3>1, <3>3 DEF SyncInv, NoLostUnlock
    <3>5. v # t /\ v \in Threads
      BY <3>1, <3>4 DEF Waiters, m
    <3> QED BY <2>2, <3>2, <3>4, <3>5
  <2>11. ThreadOK(t)'
    <3>1. Place(t)' /\ Call(t)' /\ State(t)'
      BY <2>2, <2>4, <2>8 DEF ThreadOK, Place, Call, State, Sleeps, Asleep
    <3>2. Holds(t)'
      <4>1. \A x \in Mutexes : owner[x] = t <=> x \in keeping[t]
        BY <2>2, <2>4 DEF ThreadOK, Holds
      <4>2. m \notin keeping[t]
        BY <2>2, <2>4 DEF ThreadOK, Holds, Call, m
      <4>5. 0 # 1 /\ 0 # 2 /\ 1 # 2
        BY SMTT(30)
      <4>3. CASE owner[m] = None
        <5>1. /\ owner'[m] = t /\ \A x \in Mutexes \ {m} : owner'[x] = owner[x]
              /\ res'[t] = 0 /\ pos'[t] = "lock_ret"
          BY <2>1, <2>3, <2>4, <4>3 DEF TypeOK
        <5> QED BY <2>2, <2>4, <4>1, <4>2, <4>5, <5>1 DEF ThreadOK, Holds, m
      <4>4. CASE owner[m] # None
        <5>1. \/ pos'[t] = "lock_ret" /\ res'[t] = 1 /\ intr[t]
              \/ pos'[t] = "lock_ret" /\ res'[t] = 2 /\ patrol = t
              \/ pos'[t] = "lock_func"
          BY <2>1, <2>2, <2>3, <2>4, <4>4 DEF TypeOK
        <5>2. owner' = owner
          BY <2>3, <4>4
        <5> QED BY <2>2, <2>4, <4>1, <4>2, <4>5, <5>1, <5>2 DEF ThreadOK, Holds, m
      <4> QED BY <4>3, <4>4
    <3>3. Queued(t)'
      <4>1. \A u \in Threads : pos'[u] # "dead" => pos[u] # "dead"
        BY <2>2, <2>7
      <4>2. Queued(t)
        BY <2>4 DEF ThreadOK
      <4> QED BY <2>2, <2>8, <4>1, <4>2 DEF Queued, Sleeps, waitVars
    <3> QED BY <3>1, <3>2, <3>3 DEF ThreadOK
  <2> QED BY <2>6, <2>9, <2>10, <2>11, StepKeeps
<1>LockReturnsKeeps.
      ASSUME SyncInv, NEW t \in Threads, LockReturns(t), UNCHANGED ops
      PROVE  SyncInv'
  <2> USE <1>LockReturnsKeeps
  <2> DEFINE m == op[t].arg
             dead == owner[m] # None /\ res[t] = 2
                       /\ NoLiveThreads(t, living, sleeper, status, intr, owner)
  <2>1. /\ TypeOK /\ status \in [Threads -> Statuses] /\ intr \in [Threads -> BOOLEAN]
        /\ sleeper - 1 \in Int /\ {woken} \in SUBSET SUBSET Threads /\ dead \in BOOLEAN
        /\ cvwait \in Seq(Threads) /\ owner \in [Mutexes -> Threads \cup {None}]
        /\ None \notin Threads
    <3>1. sleeper - 1 \in Int
      <4>1. sleeper \in Int
        BY DEF SyncInv, TypeOK
      <4> QED BY <4>1, SMTT(30)
    <3>2. dead \in BOOLEAN
      BY DEF NoLiveThreads
    <3>3. cvwait \in Seq(Threads) /\ owner \in [Mutexes -> Threads \cup {None}]
      BY DEF SyncInv, TypeOK
    <3>4. /\ TypeOK /\ status \in [Threads -> Statuses] /\ intr \in [Threads -> BOOLEAN]
          /\ {woken} \in SUBSET SUBSET Threads
      BY DEF SyncInv, TypeOK, Statuses
    <3> QED BY <3>1, <3>2, <3>3, <3>4, SyncAssumption
  <2>2. /\ pos[t] = "lock_ret" /\ patrol' = IF patrol = t THEN None ELSE patrol
        /\ Report(dead, status, intr, sleeper - 1, {woken})
        /\ status' = [status EXCEPT ![t] = "runnable"]
        /\ UNCHANGED <<living, to_kill, owner, res, queVars, qwait, pwait, join_list, interrupts>>
    BY DEF LockReturns
  <2>3. \/ /\ owner[m] = t /\ keeping' = [keeping EXCEPT ![t] = @ \cup {m}]
           /\ Locked(t, op[t], exc[t])
        \/ /\ owner[m] # t /\ pos' = [pos EXCEPT ![t] = "lock_check"]
           /\ UNCHANGED <<keeping, op, exc, cvwait>>
    BY DEF LockReturns
  <2>4. ThreadOK(t) /\ m \in Mutexes /\ t \in living
    BY <2>2 DEF SyncInv, ThreadOK, Place, Call
  <2> HIDE DEF m, dead
  <2>5. /\ sleeper' \in Int /\ reports' \in {0, 1}
        /\ pend' \in [Threads -> Seq({"raise", "kill"})]
        /\ intr' \in [Threads -> BOOLEAN] /\ woken' \subseteq Threads
        /\ \A u \in Threads : intr[u] => intr'[u]
        /\ \E v \in {woken} : v \subseteq woken'
    BY <2>1, <2>2, ReportTypes, SMTT(30)
  <2>6. /\ keeping' \in [Threads -> SUBSET Mutexes] /\ pos' \in [Threads -> Places]
        /\ op' \in [Threads -> Calls] /\ exc' \in [Threads -> {"none", "raise", "kill"}]
        /\ cvwait' \in {cvwait, Delete(cvwait, t)}
    <3>1. /\ keeping \in [Threads -> SUBSET Mutexes] /\ pos \in [Threads -> Places]
          /\ op \in [Threads -> Calls] /\ exc \in [Threads -> {"none", "raise", "kill"}]
      BY <2>1 DEF TypeOK, Places, Calls
    <3>2. CASE owner[m] = t
      <4>1. /\ keeping' = [keeping EXCEPT ![t] = @ \cup {m}] /\ Returned(t, exc[t])
            /\ cvwait' \in {cvwait, Delete(cvwait, t)}
        BY <2>3, <3>2 DEF Locked
      <4>2. keeping' \in [Threads -> SUBSET Mutexes]
        BY <2>4, <3>1, <4>1
      <4> QED BY <3>1, <4>1, <4>2 DEF Returned, Places, Calls, Free, Kinds
    <3>3. CASE owner[m] # t
      BY <2>3, <3>1, <3>3 DEF Places
    <3> QED BY <3>2, <3>3
  <2>7. cvwait' \in Seq(Threads) /\ \A u \in Threads \ {t} : StaysOn(u, cvwait, cvwait')
    <3>1. cvwait \in Seq(Threads)
      BY <2>1 DEF TypeOK
    <3> QED BY <2>6, <3>1, LeavesList
  <2>8. TypeOK'
    <3>1. status' \in [Threads -> Statuses] /\ patrol' \in Threads \cup {None}
      BY <2>1, <2>2 DEF TypeOK, Statuses
    <3> QED BY <2>1, <2>2, <2>5, <2>6, <2>7, <3>1 DEF TypeOK, queVars
  <2>9. \A u \in Threads \ {t} : /\ pos'[u] = pos[u] /\ op'[u] = op[u] /\ keeping'[u] = keeping[u]
                                 /\ status'[u] = status[u] /\ (patrol' = u <=> patrol = u)
    BY <2>1, <2>2, <2>3 DEF TypeOK, Locked, Returned
  <2>10. Others(t)
    <3>1. \A u \in Threads \ {t} : Undisturbed(u) /\ Told(u)
      BY <2>2, <2>5, <2>9 DEF Undisturbed, Told
    <3>2. \A v \in Threads : pos[v] = "dead" => pos'[v] = "dead"
      BY <2>2, <2>9
    <3>3. \A u \in Threads \ {t} : StillListed(u)
      BY <2>2, <2>7, <3>2 DEF StillListed, StaysOn
    <3> QED BY <3>1, <3>3 DEF Others
  <2>11. pos'[t] \in {"run", "lock_check"} /\ status'[t] = "runnable" /\ patrol' # t
    BY <2>1, <2>2, <2>3 DEF TypeOK, Locked, Returned
  <2>12. NoLostUnlock'
    BY <2>2, <2>5, <2>10, <2>11, UnlockKept
  <2>13. \A u \in Threads : pos'[u] # "dead" => t \notin join_list'[u]
    <3>1. \A u \in Threads : pos'[u] # "dead" => pos[u] # "dead"
      BY <2>2, <2>9
    <3> QED BY <2>2, <2>4, <3>1 DEF ThreadOK, Queued, Call
  <2>14. CASE owner[m] = t
    <3>1. pos'[t] = "run" /\ op'[t] = Free /\ keeping'[t] = keeping[t] \cup {m}
      BY <2>1, <2>3, <2>14 DEF TypeOK, Locked, Returned
    <3>2. \A x \in Mutexes : owner'[x] = t <=> x \in keeping'[t]
      BY <2>2, <2>4, <2>14, <3>1 DEF ThreadOK, Holds, m
    <3>3. ThreadOK(t)'
      BY <2>2, <2>4, <2>8, <2>11, <2>13, <3>1, <3>2, ReturnKeeps
    <3> QED BY <2>8, <2>10, <2>12, <3>3, StepKeeps
  <2>15. CASE owner[m] # t
    <3>1. pos'[t] = "lock_check" /\ op'[t] = op[t] /\ keeping'[t] = keeping[t]
      BY <2>1, <2>3, <2>15 DEF TypeOK
    <3>2. Place(t)' /\ Call(t)' /\ State(t)'
      BY <2>2, <2>4, <2>11, <3>1 DEF ThreadOK, Place, Call, State, Sleeps
    <3>3. Holds(t)'
      BY <2>2, <2>4, <2>11, <2>15, <3>1 DEF ThreadOK, Holds, m
    <3>4. Queued(t)'
      BY <2>13, <3>1 DEF Queued, Sleeps
    <3>5. ThreadOK(t)'
      BY <3>2, <3>3, <3>4 DEF ThreadOK
    <3> QED BY <2>8, <2>10, <2>12, <3>5, StepKeeps
  <2> QED BY <2>14, <2>15
\* A mutex given up goes to a waiter that is signalled.
<1>UnlockSignals.
      ASSUME SyncInv, NEW t \in Threads, NEW m \in Mutexes, Others(t), pos[t] # "lock_func",
             pos'[t] # "lock_func", rb_mutex_unlock_th(t, m)
      PROVE  NoLostUnlock'
  <2> USE <1>UnlockSignals
  <2> SUFFICES ASSUME NEW x \in Mutexes, owner'[x] = None, NEW u \in Waiters(x)'
               PROVE  Waiters(x)' \cap woken' # {}
    BY DEF NoLostUnlock
  <2>1. \A v \in Threads : v \in Waiters(x)' <=> v \in Waiters(x)
    BY DEF Waiters, Others, Undisturbed
  <2>2. u \in Waiters(x) /\ woken \subseteq Threads /\ owner \in [Mutexes -> Threads \cup {None}]
    BY <2>1 DEF Waiters, SyncInv, TypeOK
  <2>3. woken \subseteq woken' /\ (Waiters(m) # {} => Waiters(m) \cap woken' # {})
    BY <2>2, SignalTypes DEF rb_mutex_unlock_th
  <2>4. CASE x = m
    BY <2>1, <2>2, <2>3, <2>4 DEF Waiters
  <2>5. CASE x # m
    <3>1. owner[x] = None
      BY <2>2, <2>5 DEF rb_mutex_unlock_th
    <3>2. PICK v \in Waiters(x) : v \in woken
      BY <2>2, <3>1 DEF SyncInv, NoLostUnlock
    <3> QED BY <2>1, <2>3, <3>2 DEF Waiters
  <2> QED BY <2>4, <2>5
<1>UnlockTypes.
      ASSUME SyncInv, NEW t \in Threads, NEW m \in Mutexes, rb_mutex_unlock_th(t, m), pos[t] = "run"
      PROVE  /\ owner' \in [Mutexes -> Threads \cup {None}] /\ keeping' \in [Threads -> SUBSET Mutexes]
             /\ woken' \subseteq Threads /\ m \notin keeping'[t]
             /\ \A x \in Mutexes : owner'[x] = t <=> x \in keeping'[t]
             /\ \A u \in Threads \ {t} : /\ keeping'[u] = keeping[u]
                                         /\ \A x \in Mutexes : owner'[x] = u <=> owner[x] = u
  <2> USE <1>UnlockTypes
  <2>1. /\ owner \in [Mutexes -> Threads \cup {None}] /\ keeping \in [Threads -> SUBSET Mutexes]
        /\ woken \subseteq Threads /\ None \notin Threads
    BY SyncAssumption DEF SyncInv, TypeOK
  <2>2. \A x \in Mutexes : owner[x] = t <=> x \in keeping[t]
    BY InRuby
  <2>3. woken' \subseteq Threads
    BY <2>1, SignalTypes DEF rb_mutex_unlock_th
  <2>4. owner[m] = t /\ owner' = [owner EXCEPT ![m] = None] /\ keeping' = [keeping EXCEPT ![t] = @ \ {m}]
    BY DEF rb_mutex_unlock_th
  <2> QED BY <2>1, <2>2, <2>3, <2>4
<1>UnlockKeeps.
      ASSUME SyncInv, NEW t \in Threads, NEW m \in Mutexes, Unlock(t, m), UNCHANGED ops
      PROVE  SyncInv'
  <2> USE <1>UnlockKeeps
  <2>1. /\ TypeOK /\ pos[t] = "run" /\ rb_mutex_unlock_th(t, m)
        /\ UNCHANGED <<status, living, pos, op, exc, pend, intr, to_kill, sleeper, patrol, res,
                       queVars, waitVars, interrupts, reports>>
    BY DEF SyncInv, Unlock
  <2>2. TypeOK'
    BY <2>1, <1>UnlockTypes DEF TypeOK, queVars, waitVars
  <2>3. Others(t)
    BY <2>1, <1>UnlockTypes DEF Others, Undisturbed, Told, StillListed, StaysOn, waitVars
  <2>4. NoLostUnlock'
    BY <2>1, <2>3, <1>UnlockSignals
  <2>5. ThreadOK(t)'
    BY <2>1, <2>2, InRuby, <1>UnlockTypes, ReturnKeeps DEF waitVars
  <2> QED BY <2>2, <2>3, <2>4, <2>5, StepKeeps
<1>MutexSleepKeeps.
      ASSUME SyncInv, NEW t \in Threads, NEW m \in Mutexes, rb_mutex_sleep(t, m), UNCHANGED ops
      PROVE  SyncInv'
  <2> USE <1>MutexSleepKeeps
  <2>1. /\ TypeOK /\ pos[t] = "run" /\ rb_mutex_unlock_th(t, m) /\ cvwait \in Seq(Threads)
        /\ UNCHANGED <<living, pend, intr, to_kill, sleeper, patrol, res, queVars, qwait, pwait,
                       join_list, interrupts, reports>>
    BY DEF SyncInv, TypeOK, rb_mutex_sleep, Runs
  <2>2. PICK k \in ops \cap {"sleep", "cv"}, f \in Forever :
          /\ SleepBegins(t, [kind |-> k, arg |-> m, forever |-> f])
          /\ status' = [status EXCEPT ![t] = IF f THEN "stopped_forever" ELSE "stopped"]
          /\ cvwait' = IF k = "cv" THEN Append(cvwait, t) ELSE cvwait
    BY DEF rb_mutex_sleep
  <2> DEFINE o == [kind |-> k, arg |-> m, forever |-> f]
  <2>11. o.kind = k /\ o.arg = m
    OBVIOUS
  <2> f \in BOOLEAN
    <3>1. \A g \in Forever : g \in BOOLEAN
      BY ZenonT(30) DEF Forever
    <3> QED BY <3>1
  <2>3. Append(cvwait, t) \in Seq(Threads) /\ Listed(Append(cvwait, t)) = Listed(cvwait) \cup {t}
    BY <2>1, AppendKeeps
  <2>4. /\ pos' = [pos EXCEPT ![t] = "check_first"] /\ UNCHANGED exc
        /\ op' = [op EXCEPT ![t] = o]
    BY <2>2 DEF SleepBegins
  <2>5. TypeOK'
    <3>1. /\ pos' \in [Threads -> Places] /\ op' \in [Threads -> Calls]
          /\ status' \in [Threads -> Statuses] /\ cvwait' \in Seq(Threads)
      BY <2>1, <2>2, <2>3, <2>4 DEF TypeOK, Places, Calls, Kinds, Statuses
    <3> QED BY <2>1, <2>4, <3>1, <1>UnlockTypes DEF TypeOK, Places, Calls, Statuses, queVars
  <2>6. \A u \in Threads \ {t} : pos'[u] = pos[u] /\ op'[u] = op[u] /\ status'[u] = status[u]
    <3>1. \A u \in Threads \ {t} : status'[u] = status[u]
      BY <2>1, <2>2 DEF TypeOK
    <3> QED BY <2>1, <2>4, <3>1 DEF TypeOK
  <2>7. /\ pos'[t] = "check_first" /\ op'[t] = o /\ status'[t] = Asleep(op'[t])
    BY <2>1, <2>2, <2>4 DEF TypeOK, Asleep
  <2> HIDE DEF o
  <2>8. Others(t)
    <3>1. \A u \in Threads \ {t} : Undisturbed(u)
      BY <2>1, <2>6, <1>UnlockTypes DEF Undisturbed
    <3>2. \A u \in Threads \ {t} : Told(u)
      BY <2>1, <2>6 DEF Told
    <3>3. \A u \in Threads \ {t} : StaysOn(u, cvwait, cvwait')
      BY <2>2, <2>3 DEF StaysOn
    <3>4. \A v \in Threads : pos[v] = "dead" => pos'[v] = "dead"
      BY <2>1, <2>6
    <3>5. \A u \in Threads \ {t} : StillListed(u)
      BY <2>1, <3>3, <3>4 DEF StillListed, StaysOn
    <3> QED BY <3>1, <3>2, <3>5 DEF Others
  <2>9. NoLostUnlock'
    BY <2>1, <2>7, <2>8, <1>UnlockSignals
  <2>10. ThreadOK(t)'
    <3>1. \A u \in Threads : pos'[u] # "dead" => t \notin join_list'[u]
      <4>1. \A u \in Threads : pos[u] # "dead" => t \notin join_list[u]
        BY <2>1, InRuby
      <4>2. \A u \in Threads : pos'[u] # "dead" => pos[u] # "dead"
        BY <2>1, <2>6
      <4> QED BY <2>1, <4>1, <4>2
    <3>2. op'[t].kind = k /\ op'[t].arg = m
      BY <2>7, <2>11
    <3>3. op'[t].kind = "cv" => t \in Listed(cvwait')
      BY <2>2, <2>3, <3>2
    <3>4. t \in living' /\ patrol' # t /\ op'[t].kind \in {"sleep", "cv"}
      BY <2>1, <3>2, InRuby
    <3> QED BY <2>1, <2>5, <2>7, <3>1, <3>2, <3>3, <3>4, <1>UnlockTypes, SleepKeeps
  <2> QED BY <2>5, <2>8, <2>9, <2>10, StepKeeps
<1> QED
  BY <1>LockKeeps, <1>LockAgainKeeps, <1>LockFuncKeeps, <1>LockReturnsKeeps, <1>UnlockKeeps,
     <1>MutexSleepKeeps

----------------------------------------------------------------------------
(* Calls that end, and calls that sleep again *)

LEMMA CallTypes ==
  ASSUME TypeOK
  PROVE  /\ pos \in [Threads -> Places] /\ op \in [Threads -> Calls]
         /\ exc \in [Threads -> {"none", "raise", "kill"}] /\ que \in Seq(Items)
         /\ qwait \in Seq(Threads) /\ pwait \in Seq(Threads) /\ cvwait \in Seq(Threads)
         /\ status \in [Threads -> Statuses] /\ woken \in SUBSET Threads
         /\ join_list \in [Threads -> SUBSET Threads] /\ intr \in [Threads -> BOOLEAN]
         /\ keeping \in [Threads -> SUBSET Mutexes] /\ living \subseteq Threads
         /\ pend \in [Threads -> Seq({"raise", "kill"})] /\ sleeper \in Int
         /\ owner \in [Mutexes -> Threads \cup {None}]
BY DEF TypeOK, Places, Calls, Statuses

\* Waking S once t itself is runnable again.
Waken(S, st, fl) ==
  /\ status' = Ready(S, st) /\ woken' = Broadcast(S, woken)
  /\ intr' = [u \in Threads |-> fl[u] \/ u \in S]

\* In st and fl t is runnable, and the others are as they were.
Resumed(t, st, fl) ==
  /\ st \in [Threads -> Statuses] /\ fl \in [Threads -> BOOLEAN] /\ st[t] = "runnable"
  /\ \A u \in Threads \ {t} : st[u] = status[u] /\ (fl[u] <=> intr[u])

\* A call that sleeps until it is woken.
LEMMA CallForever ==
  ASSUME NEW k \in Kinds
  PROVE  LET o == [Free EXCEPT !.kind = k]
         IN o \in Calls /\ o.kind = k /\ o.arg = None /\ Asleep(o) = "stopped_forever"
<1> DEFINE o == [Free EXCEPT !.kind = k]
<1>1. o \in Calls
  <2>1. Free \in Calls
    BY DEF Calls, Free, Kinds
  <2> QED BY <2>1 DEF Calls
<1>2. o.kind = k /\ o.arg = None /\ o.forever = TRUE
  BY DEF Free
<1> QED BY <1>1, <1>2 DEF Asleep

\* A thread that begins, ends or goes on with a call that may sleep.
LEMMA CallsKeep ==
  \A t \in Threads :
    /\ SyncInv /\ UNCHANGED ops
    /\ \/ Queue(t) \/ SleepEnds(t) \/ Raised(t)
    => SyncInv'
<1>CallReturns.
      ASSUME SyncInv, TypeOK', NEW t \in Threads, NEW e, Returned(t, e),
             pos[t] \in {"run", "check_first", "check_again", "lock_check"},
             UNCHANGED <<living, patrol, owner, keeping, res>>, woken \subseteq woken',
             status'[t] = "runnable",
             \A u \in Threads \ {t} : /\ Told(u) /\ StaysOn(u, qwait, qwait')
                                      /\ StaysOn(u, pwait, pwait') /\ StaysOn(u, cvwait, cvwait'),
             \A v \in Threads : pos[v] # "dead" => join_list'[v] = join_list[v] \ {t}
      PROVE  SyncInv'
  <2> USE <1>CallReturns
  <2>1. pos \in [Threads -> Places] /\ op \in [Threads -> Calls]
    BY CallTypes DEF SyncInv
  <2>2. /\ pos'[t] = "run" /\ op'[t] = Free
        /\ \A u \in Threads \ {t} : pos'[u] = pos[u] /\ op'[u] = op[u]
    BY <2>1 DEF Returned
  <2>3. Others(t)
    <3>1. \A u \in Threads \ {t} : Undisturbed(u)
      BY <2>2 DEF Undisturbed
    <3>2. \A v \in Threads : pos'[v] = "dead" <=> pos[v] = "dead"
      BY <2>2
    <3>3. \A u \in Threads \ {t} : StillListed(u)
      BY <3>2 DEF StillListed
    <3> QED BY <3>1, <3>3 DEF Others
  <2>4. NoLostUnlock'
    BY <2>2, <2>3, UnlockKept
  <2>5. ThreadOK(t)'
    <3>1. t \in living' /\ patrol' # t /\ \A m \in Mutexes : owner'[m] = t <=> m \in keeping'[t]
      BY NotLocking
    <3>2. \A u \in Threads : pos'[u] # "dead" => pos[u] # "dead"
      BY <2>2
    <3>3. \A u \in Threads : pos'[u] # "dead" => t \notin join_list'[u]
      BY <3>2
    <3> QED BY <2>2, <3>1, <3>3, ReturnKeeps
  <2> QED BY <2>3, <2>4, <2>5, StepKeeps
<1>CallSleeps.
      ASSUME SyncInv, TypeOK', NEW t \in Threads, NEW o \in Calls,
             pos[t] \in {"run", "check_first", "check_again"}, SleepBegins(t, o),
             UNCHANGED <<living, patrol, owner, keeping, res, woken, cvwait, join_list>>,
             status'[t] = Asleep(o), op[t].kind = "join" => o.kind = "join" /\ o.arg = op[t].arg,
             o.kind \in {"pop", "push", "join"},
             \A u \in Threads \ {t} : /\ Told(u) /\ StaysOn(u, qwait, qwait')
                                      /\ StaysOn(u, pwait, pwait'),
             o.kind = "join" => o.arg \in living \ {t, Main} /\ t \in join_list[o.arg],
             o.kind = "pop" => t \in Listed(qwait'), o.kind = "push" => t \in Listed(pwait')
      PROVE  SyncInv'
  <2> USE <1>CallSleeps
  <2>1. pos \in [Threads -> Places] /\ op \in [Threads -> Calls]
    BY CallTypes DEF SyncInv
  <2>2. /\ pos'[t] = "check_first" /\ op'[t] = o
        /\ \A u \in Threads \ {t} : pos'[u] = pos[u] /\ op'[u] = op[u]
    BY <2>1 DEF SleepBegins
  <2>3. Others(t)
    <3>1. \A u \in Threads \ {t} : Undisturbed(u) /\ StaysOn(u, cvwait, cvwait')
      BY <2>2 DEF Undisturbed, StaysOn
    <3>2. \A v \in Threads : pos'[v] = "dead" <=> pos[v] = "dead"
      BY <2>2
    <3>3. \A u \in Threads \ {t} : StillListed(u)
      BY <3>1, <3>2 DEF StillListed
    <3> QED BY <3>1, <3>3 DEF Others
  <2>4. NoLostUnlock'
    BY <2>2, <2>3, UnlockKept
  <2>5. \A u \in Threads : pos'[u] # "dead" /\ t \in join_list'[u] => o.kind = "join" /\ o.arg = u
    <3> SUFFICES ASSUME NEW u \in Threads, pos'[u] # "dead", t \in join_list'[u]
                 PROVE  o.kind = "join" /\ o.arg = u
      BY ZenonT(30)
    <3>1. op[t].kind = "join" /\ op[t].arg = u
      BY <2>2, NotLocking, SMTT(30)
    <3> QED BY <3>1
  <2>6. t \in living' /\ patrol' # t /\ \A m \in Mutexes : owner'[m] = t <=> m \in keeping'[t]
    BY NotLocking
  <2>7. ThreadOK(t)'
    BY <2>2, <2>5, <2>6, SleepKeeps
  <2> QED BY <2>3, <2>4, <2>7, StepKeeps
<1>WakingTells.
      ASSUME TypeOK, NEW t \in Threads, NEW st, NEW fl, Resumed(t, st, fl), NEW S, Waken(S, st, fl)
      PROVE  /\ status' \in [Threads -> Statuses] /\ intr' \in [Threads -> BOOLEAN]
             /\ woken' \subseteq Threads /\ woken \subseteq woken' /\ status'[t] = "runnable"
             /\ \A u \in Threads \ {t} : /\ Told(u)
                                         /\ u \in S /\ status[u] # "killed" => status'[u] = "runnable"
  <2> USE <1>WakingTells
  <2>1. status \in [Threads -> Statuses] /\ woken \in SUBSET Threads
    BY DEF TypeOK, Statuses
  <2>2. /\ Ready(S, st) \in [Threads -> Statuses]
        /\ Broadcast(S, woken) \subseteq Threads /\ woken \subseteq Broadcast(S, woken)
    BY <2>1, WakingTypes DEF Resumed
  <2>3. intr' \in [Threads -> BOOLEAN] /\ \A u \in Threads : intr'[u] <=> fl[u] \/ u \in S
    BY DEF Waken, Resumed
  <2>4. \A u \in Threads \ {t} : /\ Told(u)
                                 /\ u \in S /\ status[u] # "killed" => status'[u] = "runnable"
    <3> TAKE u \in Threads \ {t}
    <3>1. /\ status'[u] = IF u \in S /\ status[u] \in Stopped THEN "runnable" ELSE status[u]
      BY DEF Ready, Waken, Resumed
    <3>2. intr[u] \/ u \in S => intr'[u]
      BY <2>3 DEF Resumed
    <3> QED BY <2>1, <3>1, <3>2 DEF Told, Stopped, Statuses
  <2>5. status'[t] = "runnable"
    BY DEF Ready, Stopped, Waken, Resumed
  <2> QED BY <2>2, <2>3, <2>4, <2>5 DEF Waken
<1>PopKeeps.
      ASSUME SyncInv, NEW t \in Threads, pos[t] \in {"run", "check_first", "check_again"},
             NEW st, NEW fl, Resumed(t, st, fl),
             op[t].kind \in {"none", "pop"}, queue_do_pop(t, st, fl),
             UNCHANGED <<living, pend, to_kill, sleeper, patrol, owner, keeping, res, max, closed,
                         cvwait, join_list, interrupts, reports, ops>>
      PROVE  SyncInv'
  <2> USE <1>PopKeeps
  <2>1. /\ TypeOK /\ qwait \in Seq(Threads) /\ pwait \in Seq(Threads) /\ que \in Seq(Items)
        /\ pos \in [Threads -> Places] /\ op \in [Threads -> Calls]
        /\ exc \in [Threads -> {"none", "raise", "kill"}] /\ woken \subseteq Threads
    BY CallTypes DEF SyncInv
  <2>2. \A v \in Threads : pos[v] # "dead" => join_list'[v] = join_list[v] \ {t}
    <3>1. \A v \in Threads : pos[v] # "dead" => t \notin join_list[v]
      BY NotLocking
    <3> QED BY <3>1
  <2>3. /\ Delete(qwait, t) \in Seq(Threads)
        /\ \A u \in Threads \ {t} : StaysOn(u, qwait, Delete(qwait, t))
    BY <2>1, DeleteKeepsOthers DEF StaysOn
  <2>4. \A u \in Threads \ {t} : StaysOn(u, cvwait, cvwait')
    BY DEF StaysOn
  <2>5. ASSUME Returned(t, "none")
        PROVE  /\ pos' \in [Threads -> Places] /\ op' \in [Threads -> Calls]
               /\ exc' \in [Threads -> {"none", "raise", "kill"}]
    BY <2>1, <2>5 DEF Returned, Places, Calls, Free, Kinds
  <2>6. CASE que # <<>>
    <3> DEFINE full == Len(que) - 1 >= max
               first == IF full THEN {} ELSE FirstThread(pwait)
    <3>1. /\ que' = Tail(que) /\ pwait' = IF full THEN pwait ELSE AfterFirst(pwait)
          /\ Waken(first, st, fl) /\ qwait' = Delete(qwait, t) /\ Returned(t, "none")
      BY <2>6 DEF queue_do_pop, Waken
    <3> HIDE DEF full
    <3>2. /\ pwait' \in Seq(Threads)
          /\ \A u \in Listed(pwait) : u \in first \/ u \in Listed(pwait') \/ status[u] = "killed"
      BY <2>1, <3>1, FirstIsWoken
    <3> HIDE DEF first
    <3>3. /\ status' \in [Threads -> Statuses] /\ intr' \in [Threads -> BOOLEAN]
          /\ woken' \subseteq Threads /\ woken \subseteq woken' /\ status'[t] = "runnable"
          /\ \A u \in Threads \ {t} : /\ Told(u)
                                      /\ u \in first /\ status[u] # "killed" => status'[u] = "runnable"
      BY <2>1, <3>1, <1>WakingTells, SMTT(30)
    <3>4. que' \in Seq(Items)
      BY <2>1, <2>6, <3>1, SMTT(30)
    <3>5. TypeOK'
      BY <2>1, <2>3, <2>5, <3>1, <3>2, <3>3, <3>4 DEF TypeOK
    <3>6. \A u \in Threads \ {t} : StaysOn(u, pwait, pwait') /\ StaysOn(u, qwait, qwait')
      BY <2>3, <3>1, <3>2, <3>3 DEF StaysOn
    <3> QED BY <2>2, <2>4, <3>1, <3>3, <3>5, <3>6, <1>CallReturns
  <2>7. CASE que = <<>> /\ closed
    <3>1. /\ Returned(t, "none") /\ status' = st /\ intr' = fl /\ qwait' = Delete(qwait, t)
          /\ UNCHANGED <<que, pwait, woken>>
      BY <2>7 DEF queue_do_pop
    <3>2. TypeOK'
      BY <2>1, <2>3, <2>5, <3>1 DEF TypeOK, Resumed
    <3>3. /\ \A u \in Threads \ {t} : Told(u) /\ StaysOn(u, pwait, pwait')
          /\ status'[t] = "runnable"
      BY <3>1 DEF StaysOn, Told, Resumed
    <3> QED BY <2>2, <2>3, <2>4, <3>1, <3>2, <3>3, <1>CallReturns
  <2>8. CASE que = <<>> /\ ~closed
    <3> DEFINE o == [Free EXCEPT !.kind = "pop"]
    <3>1. /\ qwait' = Append(Delete(qwait, t), t) /\ status' = [st EXCEPT ![t] = "stopped_forever"]
          /\ SleepBegins(t, o) /\ intr' = fl /\ UNCHANGED <<que, pwait, woken>>
      BY <2>8 DEF queue_do_pop
    <3>2. /\ o \in Calls /\ o.kind = "pop" /\ o.arg = None /\ Asleep(o) = "stopped_forever"
      BY CallForever DEF Kinds
    <3> HIDE DEF o
    <3>3. qwait' \in Seq(Threads) /\ t \in Listed(qwait')
      BY <2>1, <3>1, AppendLists
    <3>4. \A u \in Threads \ {t} : StaysOn(u, qwait, qwait')
      BY <2>1, <3>1, AppendLists DEF StaysOn
    <3>5. status' \in [Threads -> Statuses] /\ status'[t] = "stopped_forever"
      BY <3>1 DEF Statuses, Resumed
    <3>6. \A u \in Threads \ {t} : Told(u) /\ StaysOn(u, pwait, pwait')
      BY <3>1, <3>5 DEF StaysOn, Told, Resumed
    <3>7. pos' \in [Threads -> Places] /\ op' \in [Threads -> Calls] /\ exc' = exc
      BY <2>1, <3>1, <3>2 DEF Places, SleepBegins
    <3>8. TypeOK'
      BY <2>1, <3>1, <3>3, <3>5, <3>7 DEF TypeOK, Resumed
    <3> QED BY <3>1, <3>2, <3>3, <3>4, <3>5, <3>6, <3>8, <1>CallSleeps
  <2> QED BY <2>6, <2>7, <2>8
<1>PushKeeps.
      ASSUME SyncInv, NEW t \in Threads, pos[t] \in {"run", "check_first", "check_again"},
             NEW st, NEW fl, Resumed(t, st, fl),
             op[t].kind \in {"none", "push"}, rb_szqueue_push(t, st, fl),
             UNCHANGED <<living, pend, to_kill, sleeper, patrol, owner, keeping, res, max, closed,
                         cvwait, join_list, interrupts, reports, ops>>
      PROVE  SyncInv'
  <2> USE <1>PushKeeps
  <2>1. /\ TypeOK /\ qwait \in Seq(Threads) /\ pwait \in Seq(Threads) /\ que \in Seq(Items)
        /\ pos \in [Threads -> Places] /\ op \in [Threads -> Calls]
        /\ exc \in [Threads -> {"none", "raise", "kill"}] /\ woken \subseteq Threads
    BY CallTypes DEF SyncInv
  <2>2. \A v \in Threads : pos[v] # "dead" => join_list'[v] = join_list[v] \ {t}
    <3>1. \A v \in Threads : pos[v] # "dead" => t \notin join_list[v]
      BY NotLocking
    <3> QED BY <3>1
  <2>3. /\ Delete(pwait, t) \in Seq(Threads)
        /\ \A u \in Threads \ {t} : StaysOn(u, pwait, Delete(pwait, t))
    BY <2>1, DeleteKeepsOthers DEF StaysOn
  <2>4. \A u \in Threads \ {t} : StaysOn(u, cvwait, cvwait')
    BY DEF StaysOn
  <2>5. ASSUME Returned(t, "none")
        PROVE  /\ pos' \in [Threads -> Places] /\ op' \in [Threads -> Calls]
               /\ exc' \in [Threads -> {"none", "raise", "kill"}]
    BY <2>1, <2>5 DEF Returned, Places, Calls, Free, Kinds
  <2>6. CASE ~Full /\ ~closed
    <3> DEFINE first == FirstThread(qwait)
    <3>1. /\ \E x \in Items : que' = Append(que, x)
          /\ qwait' = AfterFirst(qwait)
          /\ Waken(first, st, fl) /\ pwait' = Delete(pwait, t) /\ Returned(t, "none")
      BY <2>6 DEF rb_szqueue_push, Waken
    <3>2. /\ qwait' \in Seq(Threads)
          /\ \A u \in Listed(qwait) : u \in first \/ u \in Listed(qwait') \/ status[u] = "killed"
      BY <2>1, <3>1, FirstIsWoken
    <3> HIDE DEF first
    <3>3. /\ status' \in [Threads -> Statuses] /\ intr' \in [Threads -> BOOLEAN]
          /\ woken' \subseteq Threads /\ woken \subseteq woken' /\ status'[t] = "runnable"
          /\ \A u \in Threads \ {t} : /\ Told(u)
                                      /\ u \in first /\ status[u] # "killed" => status'[u] = "runnable"
      BY <2>1, <3>1, <1>WakingTells, SMTT(30)
    <3>4. que' \in Seq(Items)
      BY <2>1, <3>1, SMTT(30)
    <3>5. TypeOK'
      BY <2>1, <2>3, <2>5, <3>1, <3>2, <3>3, <3>4 DEF TypeOK
    <3>6. \A u \in Threads \ {t} : StaysOn(u, pwait, pwait') /\ StaysOn(u, qwait, qwait')
      BY <2>3, <3>1, <3>2, <3>3 DEF StaysOn
    <3> QED BY <2>2, <2>4, <3>1, <3>3, <3>5, <3>6, <1>CallReturns
  <2>7. CASE closed
    <3>1. /\ Returned(t, "none") /\ status' = st /\ intr' = fl /\ pwait' = Delete(pwait, t)
          /\ UNCHANGED <<que, qwait, woken>>
      BY <2>7 DEF rb_szqueue_push
    <3>2. TypeOK'
      BY <2>1, <2>3, <2>5, <3>1 DEF TypeOK, Resumed
    <3>3. /\ \A u \in Threads \ {t} : Told(u) /\ StaysOn(u, qwait, qwait')
          /\ status'[t] = "runnable"
      BY <3>1 DEF StaysOn, Told, Resumed
    <3> QED BY <2>2, <2>3, <2>4, <3>1, <3>2, <3>3, <1>CallReturns
  <2>8. CASE Full /\ ~closed
    <3> DEFINE o == [Free EXCEPT !.kind = "push"]
    <3>1. /\ pwait' = Append(Delete(pwait, t), t) /\ status' = [st EXCEPT ![t] = "stopped_forever"]
          /\ SleepBegins(t, o) /\ intr' = fl /\ UNCHANGED <<que, qwait, woken>>
      BY <2>8 DEF rb_szqueue_push
    <3>2. /\ o \in Calls /\ o.kind = "push" /\ o.arg = None /\ Asleep(o) = "stopped_forever"
      BY CallForever DEF Kinds
    <3> HIDE DEF o
    <3>3. pwait' \in Seq(Threads) /\ t \in Listed(pwait')
      BY <2>1, <3>1, AppendLists
    <3>4. \A u \in Threads \ {t} : StaysOn(u, pwait, pwait')
      BY <2>1, <3>1, AppendLists DEF StaysOn
    <3>5. status' \in [Threads -> Statuses] /\ status'[t] = "stopped_forever"
      BY <3>1 DEF Statuses, Resumed
    <3>6. \A u \in Threads \ {t} : Told(u) /\ StaysOn(u, qwait, qwait')
      BY <3>1, <3>5 DEF StaysOn, Told, Resumed
    <3>7. pos' \in [Threads -> Places] /\ op' \in [Threads -> Calls] /\ exc' = exc
      BY <2>1, <3>1, <3>2 DEF Places, SleepBegins
    <3>8. TypeOK'
      BY <2>1, <3>1, <3>3, <3>5, <3>7 DEF TypeOK, Resumed
    <3> QED BY <3>1, <3>2, <3>3, <3>4, <3>5, <3>6, <3>8, <1>CallSleeps
  <2> QED BY <2>6, <2>7, <2>8
<1>QueueKeeps.
      ASSUME SyncInv, NEW t \in Threads, Queue(t), UNCHANGED ops
      PROVE  SyncInv'
  <2> USE <1>QueueKeeps
  <2>1. TypeOK /\ pos[t] = "run"
    BY DEF SyncInv, Queue, Runs
  <2>2. Resumed(t, status, intr) /\ op[t].kind = "none"
    BY <2>1, InRuby, CallTypes, SMTT(30) DEF Resumed, Free
  <2>3. UNCHANGED <<living, pend, to_kill, sleeper, patrol, owner, keeping, res, max, closed,
                    cvwait, join_list, interrupts, reports>>
    BY DEF Queue
  <2>4. CASE queue_do_pop(t, status, intr)
    BY <2>1, <2>2, <2>3, <2>4, <1>PopKeeps
  <2>5. CASE rb_szqueue_push(t, status, intr)
    BY <2>1, <2>2, <2>3, <2>5, <1>PushKeeps
  <2> QED BY <2>4, <2>5 DEF Queue
\* A thread in thread_join is on the list of the thread it waits for while that
\* one lives, and takes itself off it.
<1>StillJoining.
      ASSUME SyncInv, NEW t \in Threads, pos[t] \in {"check_first", "check_again"},
             op[t].kind = "join", status[op[t].arg] # "killed"
      PROVE  op[t].arg \in living \ {t, Main} /\ t \in join_list[op[t].arg]
  <2> USE <1>StillJoining
  <2>1. ThreadOK(t) /\ op[t].arg \in Threads \ {t, Main} /\ ThreadOK(op[t].arg)
    BY DEF SyncInv, ThreadOK, Call
  <2>2. pos[op[t].arg] # "dead"
    BY <2>1 DEF ThreadOK, Place
  <2> QED BY <2>1, <2>2 DEF ThreadOK, Queued, Sleeps
<1>LeavesJoinList.
      ASSUME SyncInv, NEW t \in Threads, pos[t] \in {"check_first", "check_again"},
             op[t].kind = "join", join_list' = remove_from_join_list(t, op[t].arg)
      PROVE  /\ join_list' \in [Threads -> SUBSET Threads]
             /\ \A v \in Threads : pos[v] # "dead" => join_list'[v] = join_list[v] \ {t}
  <2> USE <1>LeavesJoinList
  <2> DEFINE u == op[t].arg
  <2>1. join_list \in [Threads -> SUBSET Threads]
    BY CallTypes DEF SyncInv
  <2>2. u \in Threads \ {t, Main} /\ (status[u] = "killed" => pos[u] = "dead")
    BY DEF SyncInv, ThreadOK, Call, Place
  <2>3. \A v \in Threads : pos[v] # "dead" /\ v # u => t \notin join_list[v]
    BY NotLocking
  <2> HIDE DEF u
  <2>4. join_list' = IF status[u] # "killed" THEN [join_list EXCEPT ![u] = @ \ {t}] ELSE join_list
    BY DEF remove_from_join_list, u
  <2>5. CASE status[u] = "killed"
    BY <2>1, <2>2, <2>3, <2>4, <2>5
  <2>6. CASE status[u] # "killed"
    BY <2>1, <2>2, <2>3, <2>4, <2>6
  <2> QED BY <2>5, <2>6
<1>SleepEndsKeeps.
      ASSUME SyncInv, NEW t \in Threads, SleepEnds(t), UNCHANGED ops
      PROVE  SyncInv'
  <2> USE <1>SleepEndsKeeps
  <2> DEFINE fl == [intr EXCEPT ![t] = FALSE]
             st == [status EXCEPT ![t] = "runnable"]
  <2>1. /\ TypeOK /\ pos[t] \in {"check_first", "check_again"}
        /\ UNCHANGED <<living, pend, to_kill, max, closed, interrupts, reports, ops>>
    BY DEF SyncInv, SleepEnds
  <2>2. status \in [Threads -> Statuses] /\ intr \in [Threads -> BOOLEAN] /\ op \in [Threads -> Calls]
    BY <2>1, CallTypes
  <2>3. Resumed(t, st, fl) /\ st[t] = "runnable"
    BY <2>2 DEF Resumed, Statuses
  <2>4. ThreadOK(t)
    BY DEF SyncInv
  <2>5. \/ /\ op[t].kind = "pop" /\ queue_do_pop(t, st, fl)
           /\ UNCHANGED <<sleeper, patrol, owner, keeping, res, cvwait, join_list>>
        \/ /\ op[t].kind = "push" /\ rb_szqueue_push(t, st, fl)
           /\ UNCHANGED <<sleeper, patrol, owner, keeping, res, cvwait, join_list>>
        \/ /\ op[t].kind = "stop" /\ Returned(t, "none")
           /\ status' = st /\ intr' = fl
           /\ UNCHANGED <<sleeper, patrol, mutexVars, res, que, waitVars>>
        \/ /\ op[t].kind = "join" /\ Returned(t, "none")
           /\ join_list' = remove_from_join_list(t, op[t].arg)
           /\ status' = st /\ intr' = fl
           /\ UNCHANGED <<sleeper, patrol, mutexVars, res, que, qwait, pwait, cvwait>>
        \/ /\ op[t].kind = "join" /\ status[op[t].arg] # "killed" /\ SleepBegins(t, op[t])
           /\ status' = [st EXCEPT ![t] = Asleep(op[t])] /\ intr' = fl
           /\ UNCHANGED <<sleeper, patrol, mutexVars, res, que, waitVars>>
        \/ /\ op[t].kind \in {"sleep", "cv"} /\ rb_mutex_lock(t, op[t], "none", fl)
           /\ UNCHANGED <<que, qwait, pwait, join_list>>
    BY DEF SleepEnds
  <2> HIDE DEF fl, st
  <2>6. CASE op[t].kind = "pop"
    BY <2>1, <2>3, <2>5, <2>6, <1>PopKeeps
  <2>7. CASE op[t].kind = "push"
    BY <2>1, <2>3, <2>5, <2>7, <1>PushKeeps
  <2>8. ASSUME Returned(t, "none"), status' = st, intr' = fl,
               join_list' \in [Threads -> SUBSET Threads],
               \A v \in Threads : pos[v] # "dead" => join_list'[v] = join_list[v] \ {t},
               UNCHANGED <<sleeper, patrol, mutexVars, res, que, qwait, pwait, cvwait>>
        PROVE  SyncInv'
    <3>1. /\ pos' \in [Threads -> Places] /\ op' \in [Threads -> Calls]
          /\ exc' \in [Threads -> {"none", "raise", "kill"}]
      BY <2>1, <2>8, CallTypes DEF Returned, Places, Calls, Free, Kinds
    <3>2. TypeOK'
      BY <2>1, <2>3, <2>8, <3>1 DEF TypeOK, Resumed, mutexVars
    <3>3. \A u \in Threads \ {t} : /\ Told(u) /\ StaysOn(u, qwait, qwait')
                                   /\ StaysOn(u, pwait, pwait') /\ StaysOn(u, cvwait, cvwait')
      BY <2>3, <2>8 DEF Told, StaysOn, Resumed
    <3> QED BY <2>1, <2>3, <2>8, <3>2, <3>3, <1>CallReturns DEF mutexVars
  <2>9. CASE op[t].kind = "stop"
    <3>1. \A v \in Threads : pos[v] # "dead" => t \notin join_list[v]
      BY <2>1, <2>9, NotLocking
    <3>2. join_list \in [Threads -> SUBSET Threads]
      BY <2>1, CallTypes
    <3>3. /\ Returned(t, "none") /\ status' = st /\ intr' = fl
          /\ UNCHANGED <<sleeper, patrol, mutexVars, res, que, waitVars>>
      BY <2>5, <2>9
    <3> QED BY <2>8, <3>1, <3>2, <3>3 DEF waitVars
  <2>10. CASE /\ op[t].kind = "join" /\ Returned(t, "none")
              /\ join_list' = remove_from_join_list(t, op[t].arg)
              /\ status' = st /\ intr' = fl
              /\ UNCHANGED <<sleeper, patrol, mutexVars, res, que, qwait, pwait, cvwait>>
    <3>1. /\ join_list' \in [Threads -> SUBSET Threads]
          /\ \A v \in Threads : pos[v] # "dead" => join_list'[v] = join_list[v] \ {t}
      BY <2>1, <2>10, <1>LeavesJoinList
    <3> QED BY <2>8, <2>10, <3>1
  <2>11. CASE /\ op[t].kind = "join" /\ status[op[t].arg] # "killed" /\ SleepBegins(t, op[t])
              /\ status' = [st EXCEPT ![t] = Asleep(op[t])] /\ intr' = fl
              /\ UNCHANGED <<sleeper, patrol, mutexVars, res, que, waitVars>>
    <3>1. /\ status' \in [Threads -> Statuses] /\ status'[t] = Asleep(op[t])
          /\ intr' \in [Threads -> BOOLEAN]
      BY <2>2, <2>3, <2>11 DEF Resumed, Statuses, Asleep
    <3>2. pos' \in [Threads -> Places] /\ op' \in [Threads -> Calls] /\ exc' = exc
      BY <2>1, <2>11, CallTypes DEF SleepBegins, Places
    <3>3. TypeOK'
      BY <2>1, <2>11, <3>1, <3>2 DEF TypeOK, mutexVars, waitVars
    <3>4. \A u \in Threads \ {t} : /\ Told(u) /\ StaysOn(u, qwait, qwait')
                                   /\ StaysOn(u, pwait, pwait')
      BY <2>3, <2>11 DEF Told, StaysOn, Resumed, waitVars
    <3>5. op[t].arg \in living \ {t, Main} /\ t \in join_list[op[t].arg]
      BY <2>1, <2>11, <1>StillJoining
    <3> QED BY <2>1, <2>2, <2>11, <3>1, <3>3, <3>4, <3>5, <1>CallSleeps DEF mutexVars, waitVars
  <2>12. CASE op[t].kind \in {"sleep", "cv"}
    <3>1. /\ rb_mutex_lock(t, op[t], "none", fl) /\ UNCHANGED <<que, qwait, pwait, join_list>>
          /\ op[t].arg \in Mutexes /\ op[t] \in Calls /\ fl \in [Threads -> BOOLEAN]
          /\ \A u \in Threads \ {t} : fl[u] = intr[u]
      BY <2>2, <2>4, <2>5, <2>12 DEF ThreadOK, Call, fl
    <3>2. LockTyped
      BY <2>1, <3>1, LockTypes
    <3>3. TypeOK'
      BY <2>1, <3>1, <3>2 DEF TypeOK, LockTyped
    <3> QED BY <2>1, <2>12, <3>1, <3>3, MutexLockKeeps
  <2> QED BY <2>5, <2>6, <2>7, <2>9, <2>10, <2>11, <2>12
<1>RaisedKeeps.
      ASSUME SyncInv, NEW t \in Threads, Raised(t), UNCHANGED ops
      PROVE  SyncInv'
  <2> USE <1>RaisedKeeps
  <2> DEFINE e == Head(pend[t])
             o == op[t]
             fl == [intr EXCEPT ![t] = FALSE]
  <2>1. /\ TypeOK /\ pos[t] \in {"run", "check_first", "check_again", "lock_check"}
        /\ pend[t] # <<>> /\ UNCHANGED <<living, queVars, interrupts, reports>>
    BY DEF SyncInv, Raised
  <2>2. /\ pend' = [pend EXCEPT ![t] = IF e = "kill" THEN <<>> ELSE Tail(@)]
        /\ to_kill' = IF e = "kill" THEN to_kill \cup {t} ELSE to_kill
        /\ qwait' = IF o.kind = "pop" THEN Delete(qwait, t) ELSE qwait
        /\ pwait' = IF o.kind = "push" THEN Delete(pwait, t) ELSE pwait
        /\ join_list' = IF o.kind = "join" THEN remove_from_join_list(t, o.arg) ELSE join_list
        /\ IF o.kind \in {"sleep", "cv"} /\ pos[t] # "lock_check"
           THEN rb_mutex_lock(t, o, e, fl)
           ELSE /\ Locked(t, o, e)
                /\ status' = [status EXCEPT ![t] = "runnable"]
                /\ intr' = fl
                /\ UNCHANGED <<sleeper, patrol, mutexVars, res>>
    BY ZenonT(30) DEF Raised
  <2>3. /\ e \in {"raise", "kill"} /\ pend' \in [Threads -> Seq({"raise", "kill"})]
        /\ to_kill' \subseteq Threads
    <3>1. pend \in [Threads -> Seq({"raise", "kill"})] /\ to_kill \subseteq Threads
      BY <2>1 DEF TypeOK
    <3>2. e \in {"raise", "kill"} /\ Tail(pend[t]) \in Seq({"raise", "kill"})
      BY <2>1, <3>1, SMTT(30)
    <3> QED BY <2>2, <3>1, <3>2, SMTT(30)
  <2>4. /\ o \in Calls /\ fl \in [Threads -> BOOLEAN] /\ \A u \in Threads \ {t} : fl[u] = intr[u]
        /\ qwait \in Seq(Threads) /\ pwait \in Seq(Threads) /\ cvwait \in Seq(Threads)
        /\ status \in [Threads -> Statuses] /\ join_list \in [Threads -> SUBSET Threads]
    BY <2>1, CallTypes
  <2>5. /\ o.kind \in {"lock", "sleep", "cv"} => o.arg \in Mutexes
        /\ o.kind = "join" => pos[t] \in {"check_first", "check_again"}
    <3>1. ThreadOK(t)
      BY DEF SyncInv
    <3> QED BY <2>1, <3>1, SMTT(30) DEF ThreadOK, Call, Free
  <2> HIDE DEF e, fl
  <2>6. CASE o.kind \in {"sleep", "cv"} /\ pos[t] # "lock_check"
    <3>1. rb_mutex_lock(t, o, e, fl) /\ UNCHANGED <<qwait, pwait, join_list>>
      BY <2>2, <2>6
    <3> HIDE DEF o
    <3>2. LockTyped
      BY <2>1, <2>3, <2>4, <2>5, <2>6, <3>1, LockTypes
    <3>3. TypeOK'
      BY <2>1, <2>3, <3>1, <3>2 DEF TypeOK, LockTyped, queVars
    <3>4. op[t].kind # "join"
      BY <2>6 DEF o
    <3> QED BY <2>1, <2>4, <2>5, <2>6, <3>1, <3>3, <3>4, MutexLockKeeps
  <2>7. CASE ~(o.kind \in {"sleep", "cv"} /\ pos[t] # "lock_check")
    <3>1. /\ Returned(t, e) /\ cvwait' = IF o.kind = "cv" THEN Delete(cvwait, t) ELSE cvwait
          /\ status' = [status EXCEPT ![t] = "runnable"] /\ intr' = fl
          /\ UNCHANGED <<sleeper, patrol, owner, keeping, woken, res>>
      BY <2>2, <2>7 DEF Locked, mutexVars
    <3>2. /\ join_list' \in [Threads -> SUBSET Threads]
          /\ \A v \in Threads : pos[v] # "dead" => join_list'[v] = join_list[v] \ {t}
      <4>1. CASE o.kind = "join"
        BY <2>2, <2>5, <4>1, <1>LeavesJoinList
      <4>2. CASE o.kind # "join"
        <5>1. \A v \in Threads : pos[v] # "dead" => t \notin join_list[v]
          BY <2>1, <4>2, NotLocking
        <5> QED BY <2>2, <2>4, <4>2, <5>1
      <4> QED BY <4>1, <4>2
    <3>3. /\ qwait' \in Seq(Threads) /\ pwait' \in Seq(Threads) /\ cvwait' \in Seq(Threads)
          /\ \A u \in Threads \ {t} : /\ StaysOn(u, qwait, qwait') /\ StaysOn(u, pwait, pwait')
                                      /\ StaysOn(u, cvwait, cvwait')
      <4>1. /\ qwait' \in {qwait, Delete(qwait, t)} /\ pwait' \in {pwait, Delete(pwait, t)}
            /\ cvwait' \in {cvwait, Delete(cvwait, t)}
        BY <2>2, <3>1
      <4>2. qwait' \in Seq(Threads) /\ \A u \in Threads \ {t} : StaysOn(u, qwait, qwait')
        BY <2>4, <4>1, LeavesList
      <4>3. pwait' \in Seq(Threads) /\ \A u \in Threads \ {t} : StaysOn(u, pwait, pwait')
        BY <2>4, <4>1, LeavesList
      <4>4. cvwait' \in Seq(Threads) /\ \A u \in Threads \ {t} : StaysOn(u, cvwait, cvwait')
        BY <2>4, <4>1, LeavesList
      <4> QED BY <4>2, <4>3, <4>4
    <3>4. /\ status' \in [Threads -> Statuses] /\ status'[t] = "runnable"
          /\ \A u \in Threads \ {t} : Told(u)
      <4>1. status' \in [Threads -> Statuses] /\ status'[t] = "runnable"
        BY <2>4, <3>1 DEF Statuses
      <4>2. \A u \in Threads \ {t} : status'[u] = status[u] /\ intr'[u] = intr[u]
        BY <2>4, <3>1
      <4> QED BY <4>1, <4>2 DEF Told
    <3>5. /\ pos' \in [Threads -> Places] /\ op' \in [Threads -> Calls]
          /\ exc' \in [Threads -> {"none", "raise", "kill"}]
      BY <2>1, <3>1, CallTypes DEF Returned, Places, Calls, Free, Kinds
    <3>6. TypeOK'
      BY <2>1, <2>3, <2>4, <3>1, <3>2, <3>3, <3>4, <3>5
      DEF TypeOK, queVars
    <3> QED BY <2>1, <3>1, <3>2, <3>3, <3>4, <3>6, <1>CallReturns
  <2> QED BY <2>6, <2>7
<1> QED
  BY <1>QueueKeeps, <1>SleepEndsKeeps, <1>RaisedKeeps

----------------------------------------------------------------------------
(* The beginning and the end of threads *)

\* The beginning and the end of a thread, and of the process; and the child of
\* a fork, in which only the main thread is left.
LEMMA ThreadsKeep ==
  /\ SyncInv /\ UNCHANGED ops
  /\ \/ MainExits \/ TermWakes \/ rb_thread_atfork
     \/ \E t \in Threads : thread_start_func_2(t) \/ \E u \in Threads : thread_create_core(t, u)
  => SyncInv'
<1>CreateKeeps.
      ASSUME SyncInv, NEW t \in Threads, NEW u \in Threads, thread_create_core(t, u), UNCHANGED ops
      PROVE  SyncInv'
  <2> USE <1>CreateKeeps
  <2>1. /\ TypeOK /\ pos[u] = "unborn" /\ living' = living \cup {u}
        /\ pos' = [pos EXCEPT ![u] = "run"]
        /\ UNCHANGED <<status, op, exc, pend, intr, to_kill, sleeper, patrol, mutexVars, res,
                       queVars, waitVars, interrupts, reports>>
    BY DEF SyncInv, thread_create_core
  <2>2. pos \in [Threads -> Places] /\ living \subseteq Threads
    BY <2>1, CallTypes
  <2>3. pos' \in [Threads -> Places] /\ pos'[u] = "run" /\ \A v \in Threads \ {u} : pos'[v] = pos[v]
    BY <2>1, <2>2 DEF Places
  <2>4. TypeOK'
    BY <2>1, <2>2, <2>3 DEF TypeOK, mutexVars, queVars, waitVars
  <2>5. Others(u)
    <3>1. \A v \in Threads \ {u} : Undisturbed(v) /\ Told(v)
      BY <2>1, <2>3 DEF Undisturbed, Told, mutexVars
    <3>2. \A v \in Threads : pos'[v] = "dead" <=> pos[v] = "dead"
      BY <2>1, <2>3
    <3>3. \A v \in Threads \ {u} : StillListed(v)
      BY <2>1, <3>2 DEF StillListed, StaysOn, waitVars
    <3> QED BY <3>1, <3>3 DEF Others
  <2>6. NoLostUnlock'
    BY <2>1, <2>3, <2>5, UnlockKept DEF mutexVars
  <2>7. /\ op[u] = Free /\ status[u] = "runnable" /\ patrol # u /\ u \notin living
        /\ \A m \in Mutexes : owner[m] = u <=> m \in keeping[u]
        /\ \A v \in Threads : pos[v] # "dead" => u \notin join_list[v]
    <3>1. ThreadOK(u)
      BY DEF SyncInv
    <3>2. u \notin living /\ op[u] = Free /\ status[u] = "runnable"
      BY <2>1, <3>1 DEF ThreadOK, Place, Call, State
    <3> QED BY <2>1, <3>1, <3>2 DEF ThreadOK, Holds, Queued
  <2>8. \A v \in Threads : pos'[v] # "dead" => u \notin join_list'[v]
    BY <2>1, <2>3, <2>7 DEF waitVars
  <2>9. ThreadOK(u)'
    BY <2>1, <2>3, <2>4, <2>7, <2>8, ReturnKeeps DEF mutexVars
  <2> QED BY <2>4, <2>5, <2>6, <2>9, StepKeeps
\* A thread that ends gives up its mutexes, each of them to a waiter.
<1>UnlockAllTypes.
      ASSUME SyncInv, NEW t \in Threads, pos[t] = "run"
      PROVE  /\ UnlockAll(t) \in [Mutexes -> Threads \cup {None}]
             /\ \A m \in Mutexes : UnlockAll(t)[m] # t
             /\ \A u \in Threads \ {t} : \A m \in Mutexes : UnlockAll(t)[m] = u <=> owner[m] = u
  <2> USE <1>UnlockAllTypes
  <2>1. owner \in [Mutexes -> Threads \cup {None}] /\ None \notin Threads
    BY SyncAssumption DEF SyncInv, TypeOK
  <2>2. \A m \in Mutexes : owner[m] = t <=> m \in keeping[t]
    BY InRuby
  <2> QED BY <2>1, <2>2, SMTT(30) DEF UnlockAll
<1>UnlockAllSignals.
      ASSUME SyncInv, NEW t \in Threads, Others(t), pos[t] # "lock_func", pos'[t] # "lock_func",
             owner' = UnlockAll(t), NEW w \in SUBSET Threads, woken \subseteq w,
             NEW v \in SignalledAll(t, w), v \subseteq woken'
      PROVE  NoLostUnlock'
  <2> USE <1>UnlockAllSignals
  <2> SUFFICES ASSUME NEW m \in Mutexes, owner'[m] = None, NEW u \in Waiters(m)'
               PROVE  Waiters(m)' \cap woken' # {}
    BY DEF NoLostUnlock
  <2>1. \A x \in Threads : x \in Waiters(m)' <=> x \in Waiters(m)
    BY DEF Waiters, Others, Undisturbed
  <2>2. u \in Waiters(m) /\ Waiters(m) \subseteq Threads
    BY <2>1 DEF Waiters
  <2>3. CASE m \in keeping[t]
    <3>1. PICK x \in Signalled(m, w) : v \cap Waiters(m) = x \cap Waiters(m)
      BY <2>3 DEF SignalledAll
    <3>2. Waiters(m) \cap x # {}
      BY <2>2, SignalTypes
    <3> QED BY <2>1, <2>2, <3>1, <3>2
  <2>4. CASE m \notin keeping[t]
    <3>1. owner[m] = None
      BY <2>4 DEF UnlockAll
    <3>2. PICK x \in Waiters(m) : x \in woken
      BY <2>2, <3>1 DEF SyncInv, NoLostUnlock
    <3>3. x \in woken'
      BY <3>2 DEF SignalledAll
    <3> QED BY <2>1, <2>2, <3>2, <3>3
  <2> QED BY <2>3, <2>4
<1>ThreadEndKeeps.
      ASSUME SyncInv, NEW t \in Threads, thread_start_func_2(t), UNCHANGED ops
      PROVE  SyncInv'
  <2> USE <1>ThreadEndKeeps
  <2> DEFINE st == Ready(join_list[t], [status EXCEPT ![t] = "killed"])
             alive == living \ {t}
             told == join_list[t] \cup LastTells(alive)
             fl == Flagged(told)
             dead == NoLiveThreads(t, alive, sleeper, st, fl, UnlockAll(t))
             w == Broadcast(told, woken)
  <2>1. /\ TypeOK /\ pos[t] = "run" /\ t # Main /\ status' = st /\ living' = alive
        /\ owner' = UnlockAll(t) /\ Report(dead, st, fl, sleeper, SignalledAll(t, w))
        /\ keeping' = [keeping EXCEPT ![t] = {}] /\ pos' = [pos EXCEPT ![t] = "dead"]
        /\ UNCHANGED <<op, exc, to_kill, patrol, res, queVars, waitVars, interrupts>>
    BY DEF SyncInv, thread_start_func_2
  <2>2. /\ status \in [Threads -> Statuses] /\ woken \in SUBSET Threads
        /\ pos \in [Threads -> Places] /\ keeping \in [Threads -> SUBSET Mutexes]
        /\ living \subseteq Threads /\ sleeper \in Int
    BY <2>1, CallTypes
  <2>3. /\ st \in [Threads -> Statuses] /\ fl \in [Threads -> BOOLEAN]
        /\ w \in SUBSET Threads /\ woken \subseteq w
    <3>1. [status EXCEPT ![t] = "killed"] \in [Threads -> Statuses]
      BY <2>2 DEF Statuses
    <3> HIDE DEF told
    <3>2. st \in [Threads -> Statuses]
      BY <3>1 DEF Ready, Statuses
    <3>3. fl \in [Threads -> BOOLEAN]
      BY DEF Flagged
    <3>4. w \in SUBSET Threads /\ woken \subseteq w
      BY <2>2 DEF Broadcast, Waiters
    <3> QED BY <3>2, <3>3, <3>4
  <2>4. dead \in BOOLEAN /\ SignalledAll(t, w) \in SUBSET SUBSET Threads
    BY DEF NoLiveThreads, SignalledAll
  <2>5. /\ st[t] = "killed"
        /\ \A u \in Threads \ {t} :
             st[u] = IF u \in join_list[t] /\ status[u] \in Stopped THEN "runnable" ELSE status[u]
    BY <2>2 DEF Ready, Stopped
  <2>6. \A u \in Threads : /\ intr[u] => fl[u]
                           /\ u \in join_list[t] => fl[u]
    <3>1. \A u \in Threads : fl[u] <=> intr[u] \/ u \in told
      BY DEF Flagged
    <3> HIDE DEF fl
    <3> QED BY <3>1
  <2> HIDE DEF st, alive, told, fl, dead, w
  <2>7. /\ sleeper' \in Int /\ reports' \in {0, 1}
        /\ pend' \in [Threads -> Seq({"raise", "kill"})]
        /\ intr' \in [Threads -> BOOLEAN] /\ woken' \subseteq Threads
        /\ \A u \in Threads : fl[u] => intr'[u]
        /\ \E v \in SignalledAll(t, w) : v \subseteq woken'
    BY <2>1, <2>2, <2>3, <2>4, ReportTypes
  <2>8. /\ pos' \in [Threads -> Places] /\ pos'[t] = "dead" /\ keeping'[t] = {}
        /\ keeping' \in [Threads -> SUBSET Mutexes]
        /\ \A u \in Threads \ {t} : pos'[u] = pos[u] /\ keeping'[u] = keeping[u]
    BY <2>1, <2>2 DEF Places
  <2>9. TypeOK'
    <3>1. owner' \in [Mutexes -> Threads \cup {None}] /\ living' \subseteq Threads
      BY <2>1, <2>2, <1>UnlockAllTypes DEF alive
    <3> QED BY <2>1, <2>3, <2>7, <2>8, <3>1 DEF TypeOK, queVars, waitVars
  <2>10. Others(t)
    <3>1. \A u \in Threads \ {t} : Undisturbed(u)
      BY <2>1, <2>8, <1>UnlockAllTypes, SMTT(30) DEF Undisturbed, alive
    <3>2. \A u \in Threads \ {t} : Told(u)
      BY <2>1, <2>5, <2>6, <2>7 DEF Told
    <3>3. \A v \in Threads : pos[v] = "dead" => pos'[v] = "dead"
      BY <2>8
    <3>4. ASSUME NEW u \in Threads \ {t}, u \in join_list[t]
          PROVE  status'[u] = "runnable"
      <4>1. u \in living /\ op[u].kind = "join"
        BY <2>1, <3>4 DEF SyncInv, ThreadOK, Queued
      <4>2. ThreadOK(u)
        BY DEF SyncInv
      <4>3. status[u] # "killed"
        BY <4>1, <4>2, SMTT(30) DEF ThreadOK, Place, Call, Free
      <4>4. status[u] \in Stopped \/ status[u] = "runnable"
        BY <2>2, <4>3 DEF Statuses, Stopped
      <4> QED BY <2>1, <2>5, <3>4, <4>4
    <3>5. \A u \in Threads \ {t} : StillListed(u)
      <4>1. \A v \in living : v \notin living' => v = t
        BY <2>1 DEF alive
      <4> QED BY <2>1, <2>8, <3>3, <3>4, <4>1 DEF StillListed, StaysOn, waitVars
    <3> QED BY <3>1, <3>2, <3>5 DEF Others
  <2>11. NoLostUnlock'
    <3>1. PICK v \in SignalledAll(t, w) : v \subseteq woken'
      BY <2>7
    <3> QED BY <2>1, <2>3, <2>8, <2>10, <3>1, <1>UnlockAllSignals
  <2>12. ThreadOK(t)'
    <3>1. /\ op[t] = Free /\ patrol # t
          /\ \A u \in Threads : pos[u] # "dead" => t \notin join_list[u]
      BY <2>1, InRuby
    <3>2. Place(t)' /\ Call(t)' /\ State(t)'
      BY <2>1, <2>5, <2>8, <3>1, SMTT(30) DEF Place, Call, State, Sleeps, Free, alive
    <3>3. Holds(t)'
      BY <2>1, <2>8, <3>1, <1>UnlockAllTypes DEF Holds, alive
    <3>4. Queued(t)'
      <4>1. \A u \in Threads : pos'[u] # "dead" => t \notin join_list'[u]
        BY <2>1, <2>8, <3>1 DEF waitVars
      <4> QED BY <2>8, <4>1 DEF Queued, Sleeps
    <3> QED BY <3>2, <3>3, <3>4 DEF ThreadOK
  <2> QED BY <2>9, <2>10, <2>11, <2>12, StepKeeps
<1>TerminateTypes.
      ASSUME TypeOK, NEW p \in Seq({"raise", "kill"}), terminate_all(p)
      PROVE  /\ pend' \in [Threads -> Seq({"raise", "kill"})] /\ intr' \in [Threads -> BOOLEAN]
             /\ \A u \in Threads \ {Main} : intr[u] => intr'[u]
  <2> USE <1>TerminateTypes
  <2>1. pend \in [Threads -> Seq({"raise", "kill"})] /\ intr \in [Threads -> BOOLEAN]
    BY DEF TypeOK
  <2>2. \A u \in Threads : Append(pend[u], "kill") \in Seq({"raise", "kill"})
    BY <2>1, SMTT(30)
  <2>3. pend' \in [Threads -> Seq({"raise", "kill"})]
    BY <2>1, <2>2 DEF terminate_all
  <2>4. intr' \in [Threads -> BOOLEAN] /\ \A u \in Threads \ {Main} : intr[u] => intr'[u]
    BY <2>1 DEF terminate_all
  <2> QED BY <2>3, <2>4
<1>MainExitsKeeps.
      ASSUME SyncInv, MainExits, UNCHANGED ops
      PROVE  SyncInv'
  <2> USE <1>MainExitsKeeps
  <2> DEFINE w == Broadcast(living \ {Main}, woken)
             p == IF pend[Main] = <<>> THEN <<>> ELSE Tail(pend[Main])
  <2>1. /\ TypeOK /\ Main \in Threads /\ pos[Main] = "run"
        /\ status' = [status EXCEPT ![Main] = "killed"]
        /\ owner' = UnlockAll(Main) /\ keeping' = [keeping EXCEPT ![Main] = {}]
        /\ terminate_all(p) /\ woken' \in SignalledAll(Main, w)
        /\ UNCHANGED <<living, op, exc, to_kill, sleeper, patrol, res, queVars, waitVars,
                       interrupts, reports>>
    BY SyncAssumption DEF SyncInv, MainExits, Runs
  <2>2. PICK q \in {"done", "term_sleep"} : pos' = [pos EXCEPT ![Main] = q]
    <3>1. CASE living = {Main}
      BY <3>1 DEF MainExits
    <3>2. CASE living # {Main}
      BY <3>2 DEF MainExits
    <3> QED BY <3>1, <3>2
  <2>3. /\ status \in [Threads -> Statuses] /\ woken \in SUBSET Threads
        /\ pos \in [Threads -> Places] /\ keeping \in [Threads -> SUBSET Mutexes]
        /\ p \in Seq({"raise", "kill"})
    BY <2>1, CallTypes, SMTT(30)
  <2>4. w \in SUBSET Threads /\ woken \subseteq w
    BY <2>3 DEF Broadcast, Waiters
  <2> HIDE DEF w, p
  <2>5. /\ pend' \in [Threads -> Seq({"raise", "kill"})] /\ intr' \in [Threads -> BOOLEAN]
        /\ \A u \in Threads \ {Main} : intr[u] => intr'[u]
    BY <2>1, <2>3, <1>TerminateTypes
  <2>6. /\ pos' \in [Threads -> Places] /\ pos'[Main] \in {"done", "term_sleep"}
        /\ keeping'[Main] = {} /\ status'[Main] = "killed"
        /\ keeping' \in [Threads -> SUBSET Mutexes] /\ status' \in [Threads -> Statuses]
        /\ \A u \in Threads \ {Main} : /\ pos'[u] = pos[u] /\ keeping'[u] = keeping[u]
                                       /\ status'[u] = status[u]
    <3>1. /\ pos' \in [Threads -> Places] /\ pos'[Main] \in {"done", "term_sleep"}
          /\ \A u \in Threads \ {Main} : pos'[u] = pos[u]
      BY <2>1, <2>2, <2>3 DEF Places
    <3>2. /\ keeping' \in [Threads -> SUBSET Mutexes] /\ keeping'[Main] = {}
          /\ \A u \in Threads \ {Main} : keeping'[u] = keeping[u]
      BY <2>1, <2>3
    <3>3. /\ status' \in [Threads -> Statuses] /\ status'[Main] = "killed"
          /\ \A u \in Threads \ {Main} : status'[u] = status[u]
      BY <2>1, <2>3 DEF Statuses
    <3> QED BY <3>1, <3>2, <3>3
  <2>7. woken' \subseteq Threads
    BY <2>1 DEF SignalledAll
  <2>8. TypeOK'
    BY <2>1, <2>5, <2>6, <2>7, <1>UnlockAllTypes DEF TypeOK, queVars, waitVars
  <2>9. Others(Main)
    <3>1. \A u \in Threads \ {Main} : Undisturbed(u) /\ Told(u)
      <4>1. \A u \in Threads \ {Main} : \A m \in Mutexes : owner'[m] = u <=> owner[m] = u
        <5>1. \A u \in Threads \ {Main} : \A m \in Mutexes : UnlockAll(Main)[m] = u <=> owner[m] = u
          BY <2>1, <1>UnlockAllTypes
        <5> QED BY <2>1, <5>1
      <4>2. \A u \in Threads \ {Main} : Undisturbed(u)
        BY <2>1, <2>6, <4>1 DEF Undisturbed
      <4>3. \A u \in Threads \ {Main} : Told(u)
        BY <2>1, <2>5, <2>6 DEF Told
      <4> QED BY <4>2, <4>3
    <3>2. \A v \in Threads : pos[v] = "dead" <=> pos'[v] = "dead"
      BY <2>1, <2>6
    <3>3. \A u \in Threads \ {Main} : StillListed(u)
      BY <2>1, <3>2 DEF StillListed, StaysOn, waitVars
    <3> QED BY <3>1, <3>3 DEF Others
  <2>10. NoLostUnlock'
    BY <2>1, <2>4, <2>6, <2>9, <1>UnlockAllSignals
  <2>11. ThreadOK(Main)'
    <3>1. /\ op[Main] = Free /\ patrol # Main /\ Main \in living
          /\ \A u \in Threads : pos[u] # "dead" => Main \notin join_list[u]
      BY <2>1, InRuby
    <3>2. Place(Main)' /\ Call(Main)' /\ State(Main)'
      <4>1. Place(Main)'
        BY <2>1, <2>6, <3>1 DEF Place
      <4>2. op'[Main] = Free
        BY <2>1, <3>1
      <4> QED BY <2>6, <4>1, <4>2, SMTT(30) DEF Call, State, Sleeps, Free
    <3>3. Holds(Main)'
      <4>1. \A m \in Mutexes : owner'[m] # Main
        BY <2>1, <1>UnlockAllTypes
      <4> QED BY <2>1, <2>6, <3>1, <4>1 DEF Holds, Free
    <3>4. Queued(Main)'
      <4>1. \A u \in Threads : pos'[u] # "dead" => Main \notin join_list'[u]
        BY <2>1, <2>6, <3>1 DEF waitVars
      <4> QED BY <2>6, <4>1 DEF Queued, Sleeps
    <3> QED BY <3>2, <3>3, <3>4 DEF ThreadOK
  <2> QED BY <2>1, <2>8, <2>9, <2>10, <2>11, StepKeeps
<1>TermWakesKeeps.
      ASSUME SyncInv, TermWakes, UNCHANGED ops
      PROVE  SyncInv'
  <2> USE <1>TermWakesKeeps
  <2>1. /\ TypeOK /\ Main \in Threads /\ pos[Main] = "term_sleep" /\ ThreadOK(Main)
        /\ UNCHANGED <<status, living, op, exc, to_kill, sleeper, patrol, owner, keeping, res,
                       queVars, waitVars, interrupts, reports>>
    BY SyncAssumption DEF SyncInv, TermWakes
  <2>2. PICK q \in {"done", "term_sleep"} : pos' = [pos EXCEPT ![Main] = q]
    <3>1. CASE living = {Main}
      BY <3>1 DEF TermWakes
    <3>2. CASE living # {Main}
      BY <3>2 DEF TermWakes
    <3> QED BY <3>1, <3>2
  <2>3. /\ pos \in [Threads -> Places] /\ woken \in SUBSET Threads /\ intr \in [Threads -> BOOLEAN]
        /\ pend \in [Threads -> Seq({"raise", "kill"})]
    BY <2>1, CallTypes
  <2>4. /\ pend' \in [Threads -> Seq({"raise", "kill"})] /\ intr' \in [Threads -> BOOLEAN]
        /\ \A u \in Threads \ {Main} : intr[u] => intr'[u]
        /\ woken' \subseteq Threads /\ woken \subseteq woken'
    <3>1. CASE pend[Main] = <<>>
      <4>1. intr' = [intr EXCEPT ![Main] = FALSE] /\ UNCHANGED <<pend, woken>>
        BY <3>1 DEF TermWakes
      <4> QED BY <2>1, <2>3, <4>1
    <3>2. CASE pend[Main] # <<>>
      <4>1. /\ terminate_all(Tail(pend[Main])) /\ woken' = Broadcast(living \ {Main}, woken)
            /\ Tail(pend[Main]) \in Seq({"raise", "kill"})
        BY <2>1, <2>3, <3>2, SMTT(30) DEF TermWakes
      <4>2. /\ woken' \subseteq Threads /\ woken \subseteq woken'
        BY <4>1, <2>3 DEF Broadcast, Waiters
      <4> DEFINE p == Tail(pend[Main])
      <4>3. terminate_all(p) /\ p \in Seq({"raise", "kill"})
        BY <4>1
      <4> HIDE DEF p
      <4> QED BY <2>1, <4>2, <4>3, <1>TerminateTypes
    <3> QED BY <3>1, <3>2
  <2>5. /\ pos' \in [Threads -> Places] /\ pos'[Main] \in {"done", "term_sleep"}
        /\ \A u \in Threads \ {Main} : pos'[u] = pos[u]
    BY <2>1, <2>2, <2>3 DEF Places
  <2>6. TypeOK'
    BY <2>1, <2>4, <2>5 DEF TypeOK, Places, queVars, waitVars
  <2>7. \A v \in Threads : pos[v] = "dead" <=> pos'[v] = "dead"
    BY <2>1, <2>5
  <2>8. Others(Main)
    <3>1. \A u \in Threads \ {Main} : Undisturbed(u) /\ Told(u)
      BY <2>1, <2>4, <2>5 DEF Undisturbed, Told
    <3>2. \A u \in Threads \ {Main} : StillListed(u)
      BY <2>1, <2>7 DEF StillListed, StaysOn, waitVars
    <3> QED BY <3>1, <3>2 DEF Others
  <2>9. NoLostUnlock'
    BY <2>1, <2>4, <2>5, <2>8, UnlockKept
  <2>10. ThreadOK(Main)'
    <3>1. Place(Main)' /\ Call(Main)' /\ State(Main)'
      BY <2>1, <2>5 DEF ThreadOK, Place, Call, State, Sleeps
    <3>3. Holds(Main)'
      BY <2>1, <2>5 DEF ThreadOK, Holds
    <3>2. Queued(Main)'
      BY <2>1, <2>5, <2>7 DEF ThreadOK, Queued, Sleeps, waitVars
    <3> QED BY <3>1, <3>2, <3>3 DEF ThreadOK
  <2> QED BY <2>1, <2>6, <2>8, <2>9, <2>10, StepKeeps
\* In the child of a fork only the main thread is left.
<1>ForkKeeps.
      ASSUME SyncInv, rb_thread_atfork, UNCHANGED ops
      PROVE  SyncInv'
  <2> USE <1>ForkKeeps
  <2> DEFINE gone == living \ {Main}
  <2>1. /\ TypeOK /\ Main \in Threads /\ None \notin Threads /\ pos[Main] = "run"
        /\ living' = {Main} /\ sleeper' = 0 /\ join_list' = [join_list EXCEPT ![Main] = {}]
        /\ UNCHANGED <<op, exc, pend, intr, to_kill, patrol, woken, res, queVars, qwait, pwait,
                       cvwait, interrupts, reports>>
    BY SyncAssumption DEF SyncInv, rb_thread_atfork, Runs
  <2>2. /\ status' = [t \in Threads |-> IF t \in gone THEN "killed" ELSE status[t]]
        /\ pos' = [t \in Threads |-> IF t \in gone THEN "dead" ELSE pos[t]]
        /\ keeping' = [t \in Threads |-> IF t \in gone THEN {} ELSE keeping[t]]
        /\ owner' = [m \in Mutexes |-> IF owner[m] \in gone THEN None ELSE owner[m]]
    BY DEF rb_thread_atfork
  <2> HIDE DEF gone
  <2>3. /\ status \in [Threads -> Statuses] /\ pos \in [Threads -> Places]
        /\ keeping \in [Threads -> SUBSET Mutexes] /\ owner \in [Mutexes -> Threads \cup {None}]
        /\ join_list \in [Threads -> SUBSET Threads]
    BY <2>1, CallTypes
  <2>4. /\ status' \in [Threads -> Statuses] /\ pos' \in [Threads -> Places]
        /\ keeping' \in [Threads -> SUBSET Mutexes] /\ owner' \in [Mutexes -> Threads \cup {None}]
        /\ join_list' \in [Threads -> SUBSET Threads]
    <3>1. status' \in [Threads -> Statuses] /\ pos' \in [Threads -> Places]
      BY <2>2, <2>3 DEF Statuses, Places
    <3> QED BY <2>1, <2>2, <2>3, <3>1
  <2>5. TypeOK'
    BY <2>1, <2>4, SMTT(30) DEF TypeOK, queVars
  <2>6. \A t \in Threads : t \in living <=> pos[t] \notin {"unborn", "dead"}
    BY DEF SyncInv, ThreadOK, Place
  <2>7. \A t \in Threads :
          /\ t = Main => /\ pos'[t] = "run" /\ status'[t] = status[t] /\ keeping'[t] = keeping[t]
          /\ t # Main => /\ pos'[t] = IF t \in living THEN "dead" ELSE pos[t]
                         /\ status'[t] = IF t \in living THEN "killed" ELSE status[t]
                         /\ keeping'[t] = IF t \in living THEN {} ELSE keeping[t]
    BY <2>1, <2>2 DEF gone
  <2>8. \A t \in Threads \ {Main} : pos'[t] \in {"dead", "unborn"}
    BY <2>3, <2>6, <2>7 DEF Places
  <2>9. NoLostUnlock'
    BY <2>1, <2>7, <2>8 DEF NoLostUnlock, Waiters
  <2>10. ASSUME NEW t \in Threads \ {Main}
         PROVE  ThreadOK(t)'
    <3>1. ThreadOK(t) /\ pos'[t] \in {"dead", "unborn"} /\ t \notin living'
      BY <2>1, <2>8 DEF SyncInv
    <3>2. Place(t)'
      BY <2>6, <2>7, <2>8, <3>1 DEF ThreadOK, Place
    <3>3. Call(t)' /\ State(t)'
      BY <2>1, <2>6, <2>7, <2>8, <3>1 DEF ThreadOK, Call, State, Sleeps
    <3>4. Holds(t)'
      <4>1. \A m \in Mutexes : owner'[m] # t
        <5> TAKE m \in Mutexes
        <5>1. CASE t \in living
          BY <2>1, <2>2, <2>3, <5>1 DEF gone
        <5>2. CASE t \notin living
          BY <2>1, <2>2, <2>6, <3>1, <5>2 DEF ThreadOK, Holds
        <5> QED BY <5>1, <5>2
      <4>2. keeping'[t] = {} /\ (patrol' = t => pos'[t] = "dead")
        BY <2>1, <2>6, <2>7, <3>1 DEF ThreadOK, Holds
      <4> QED BY <3>1, <4>1, <4>2 DEF Holds
    <3>5. Queued(t)'
      <4>1. ASSUME NEW u \in Threads, pos'[u] # "dead"
            PROVE  t \notin join_list'[u]
        <5>1. CASE u = Main
          BY <2>1, <2>3, <5>1
        <5>2. CASE u # Main
          <6>1. pos[u] = "unborn" /\ join_list'[u] = join_list[u]
            BY <2>1, <2>3, <2>6, <2>7, <2>8, <4>1, <5>2
          <6>2. ASSUME t \in join_list[u]
                PROVE  FALSE
            <7>1. t \in living /\ op[t].kind = "join" /\ op[t].arg = u
              BY <3>1, <6>1, <6>2 DEF ThreadOK, Queued
            <7>2. Sleeps(t)
              BY <2>3, <2>6, <3>1, <7>1, SMTT(30) DEF ThreadOK, Call, Sleeps, Places, Free
            <7>3. u \notin living
              BY <2>6, <6>1
            <7> QED BY <3>1, <6>1, <7>1, <7>2, <7>3 DEF ThreadOK, Queued
          <6> QED BY <6>1, <6>2
        <5> QED BY <5>1, <5>2
      <4> QED BY <3>1, <4>1 DEF Queued, Sleeps
    <3> QED BY <3>2, <3>3, <3>4, <3>5 DEF ThreadOK
  <2>11. ThreadOK(Main)'
    <3>1. /\ Main \in living /\ patrol # Main /\ op[Main] = Free /\ status[Main] = "runnable"
          /\ \A m \in Mutexes : owner[m] = Main <=> m \in keeping[Main]
          /\ \A u \in Threads : pos[u] # "dead" => Main \notin join_list[u]
      BY <2>1, InRuby
    <3>2. \A m \in Mutexes : owner'[m] = Main <=> m \in keeping'[Main]
      BY <2>1, <2>2, <2>7, <3>1 DEF gone
    <3>3. \A u \in Threads : pos'[u] # "dead" => Main \notin join_list'[u]
      BY <2>1, <2>3, <2>7, <3>1
    <3> QED BY <2>1, <2>5, <2>7, <3>1, <3>2, <3>3, ReturnKeeps
  <2> QED BY <2>5, <2>9, <2>10, <2>11 DEF SyncInv
<1> QED
  BY <1>CreateKeeps, <1>ThreadEndKeeps, <1>MainExitsKeeps, <1>TermWakesKeeps, <1>ForkKeeps

----------------------------------------------------------------------------
(* The invariant *)

LEMMA InitSync == Init => SyncInv
<1> SUFFICES ASSUME Init
             PROVE  SyncInv
  OBVIOUS
<1>1. /\ Main \in Threads /\ None \notin Threads /\ MaxInterrupts \in Nat
      /\ MaxLens # {}
  BY SyncAssumption
<1>2. max \in MaxLens
  <2>1. (CHOOSE n \in MaxLens : TRUE) \in MaxLens
    BY <1>1
  <2> QED BY <2>1 DEF Init
<1>3. /\ status = [t \in Threads |-> "runnable"] /\ Main \in living /\ living \subseteq Threads
      /\ pos = [t \in Threads |-> IF t \in living THEN "run" ELSE "unborn"]
      /\ op = [t \in Threads |-> Free] /\ patrol = None
      /\ owner = [m \in Mutexes |-> None] /\ keeping = [t \in Threads |-> {}]
      /\ join_list = [t \in Threads |-> {}]
  BY <1>1 DEF Init
<1>4. TypeOK
  <2>1. /\ op \in [Threads -> Calls] /\ pos \in [Threads -> Places]
        /\ pend \in [Threads -> Seq({"raise", "kill"})]
    BY <1>3, SMTT(30) DEF Init, Calls, Places, Free, Kinds
  <2>2. /\ exc \in [Threads -> {"none", "raise", "kill"}] /\ intr \in [Threads -> BOOLEAN]
        /\ to_kill \subseteq Threads /\ sleeper \in Int /\ woken \subseteq Threads
        /\ res \in [Threads -> 0 .. 2] /\ que \in Seq(Items) /\ closed \in BOOLEAN
        /\ {qwait, pwait, cvwait} \subseteq Seq(Threads)
        /\ interrupts \in 0 .. MaxInterrupts /\ reports \in {0, 1} /\ ops \in Programs
    <3>1. /\ exc = [t \in Threads |-> "none"] /\ intr = [t \in Threads |-> FALSE]
          /\ res = [t \in Threads |-> 0] /\ to_kill = {} /\ sleeper = 0 /\ woken = {}
          /\ que = <<>> /\ closed = FALSE /\ qwait = <<>> /\ pwait = <<>> /\ cvwait = <<>>
          /\ interrupts = 0 /\ reports = 0 /\ ops \in Programs
      BY DEF Init
    <3>2. /\ exc \in [Threads -> {"none", "raise", "kill"}] /\ intr \in [Threads -> BOOLEAN]
          /\ res \in [Threads -> 0 .. 2]
      BY <3>1, SMTT(30)
    <3>3. que \in Seq(Items) /\ {qwait, pwait, cvwait} \subseteq Seq(Threads)
      <4>1. <<>> \in Seq(Items) /\ <<>> \in Seq(Threads)
        BY SMTT(30)
      <4> QED BY <3>1, <4>1
    <3>4. /\ to_kill \subseteq Threads /\ sleeper \in Int /\ woken \subseteq Threads
          /\ closed \in BOOLEAN /\ interrupts \in 0 .. MaxInterrupts /\ reports \in {0, 1}
      <4>1. 0 \in Int /\ 0 \in 0 .. MaxInterrupts
        BY <1>1, SMTT(30)
      <4> QED BY <3>1, <4>1
    <3> QED BY <3>1, <3>2, <3>3, <3>4
  <2>3. /\ status \in [Threads -> Statuses] /\ patrol \in Threads \cup {None}
        /\ owner \in [Mutexes -> Threads \cup {None}]
        /\ keeping \in [Threads -> SUBSET Mutexes]
        /\ join_list \in [Threads -> SUBSET Threads]
    BY <1>3 DEF Statuses
  <2> QED BY <1>2, <1>3, <2>1, <2>2, <2>3 DEF TypeOK, Calls, Places, Statuses
<1>5. ASSUME NEW t \in Threads
      PROVE  ThreadOK(t)
  <2>1. Place(t) /\ Call(t) /\ State(t)
    BY <1>1, <1>3 DEF Place, Call, State, Sleeps, Free
  <2>2. Holds(t) /\ Queued(t)
    BY <1>1, <1>3 DEF Holds, Queued, Sleeps, Free
  <2> QED BY <2>1, <2>2 DEF ThreadOK
<1>6. NoLostUnlock
  BY <1>3 DEF NoLostUnlock, Waiters
<1> QED BY <1>4, <1>5, <1>6 DEF SyncInv

LEMMA NextSync == SyncInv /\ [Next]_vars => SyncInv'
<1> SUFFICES ASSUME SyncInv, [Next]_vars
             PROVE  SyncInv'
  OBVIOUS
<1>1. CASE UNCHANGED vars
  <2>1. /\ UNCHANGED <<status, living, pos, op, exc, pend, intr, to_kill, sleeper, patrol>>
        /\ UNCHANGED <<owner, keeping, woken, res, que, max, closed, qwait, pwait, cvwait>>
        /\ UNCHANGED <<join_list, interrupts, reports, ops>>
    BY <1>1 DEF vars, mutexVars, queVars, waitVars
  <2>2. TypeOK'
    BY <2>1 DEF SyncInv, TypeOK
  <2>3. ASSUME NEW t \in Threads
        PROVE  ThreadOK(t)'
    <3>1. Place(t)' /\ Call(t)' /\ State(t)'
      BY <2>1 DEF SyncInv, ThreadOK, Place, Call, State, Sleeps
    <3>2. Holds(t)' /\ Queued(t)'
      BY <2>1, SMTT(30) DEF SyncInv, ThreadOK, Holds, Queued, Sleeps
    <3> QED BY <3>1, <3>2 DEF ThreadOK
  <2>4. NoLostUnlock'
    BY <2>1 DEF SyncInv, NoLostUnlock, Waiters
  <2> QED BY <2>2, <2>3, <2>4 DEF SyncInv
<1>2. ASSUME NEW t \in Threads, Step(t) \/ Begins(t) \/ Wakes(t) \/ Raised(t) \/ CheckInts(t),
             UNCHANGED ops
      PROVE  SyncInv'
  <2>1. CASE \/ native_sleep(t) \/ Wakes(t) \/ SleepEnds(t) \/ Raised(t) \/ CheckInts(t)
             \/ lock_func(t) \/ LockReturns(t) \/ LockAgain(t) \/ thread_start_func_2(t)
    BY <1>2, <2>1, SleepersKeep, CallsKeep, MutexesKeep, WakersKeep, ThreadsKeep
  <2>2. CASE \E m \in Mutexes : Lock(t, m) \/ Unlock(t, m) \/ rb_mutex_sleep(t, m)
    BY <1>2, <2>2, MutexesKeep
  <2>3. CASE \E u \in Threads : \/ thread_join(t, u) \/ Interrupt(t, u) \/ rb_thread_wakeup(t, u)
                                \/ thread_create_core(t, u)
    BY <1>2, <2>3, SleepersKeep, WakersKeep, ThreadsKeep
  <2>4. CASE \/ CvSignal(t) \/ Queue(t) \/ queue_do_close(t) \/ rb_szqueue_clear(t)
             \/ rb_szqueue_max_set(t) \/ rb_thread_stop(t)
    BY <1>2, <2>4, WakersKeep, CallsKeep, SleepersKeep
  <2>5. CASE Step(t)
    BY <2>1, <2>5 DEF Step
  <2>6. CASE Begins(t)
    BY <2>1, <2>2, <2>3, <2>4, <2>6 DEF Begins
  <2> QED BY <1>2, <2>1, <2>5, <2>6
<1>3. CASE (MainExits \/ TermWakes \/ rb_thread_atfork) /\ UNCHANGED ops
  BY <1>3, ThreadsKeep
<1> QED BY <1>1, <1>2, <1>3 DEF Next

\* The threads, their mutexes and their lists are consistent after every step,
\* whatever the program and however many threads.
THEOREM ThreadsAgree == Spec => []SyncInv
<1>1. Init => SyncInv
  BY InitSync
<1>2. SyncInv /\ [Next]_vars => SyncInv'
  BY NextSync
<1> QED BY <1>1, <1>2, PTL DEF Spec

\* mutex->th and th->keeping_mutexes agree: whoever holds a mutex will give it
\* up, and a thread that ends (rb_threadptr_unlock_all_locking_mutexes), is
\* killed or lost in a fork leaves none behind.
THEOREM MutexesHaveKeepers == Spec => []OwnerKeeps
<1>1. SyncInv => OwnerKeeps
  BY DEF SyncInv, ThreadOK, Holds, OwnerKeeps
<1> QED BY <1>1, ThreadsAgree, PTL

\* rb_mutex_unlock_th signals one waiter; whatever becomes of that one, a free
\* mutex with waiters has one that is on its way.
THEOREM UnlocksReachWaiters == Spec => []NoLostUnlock
<1>1. SyncInv => NoLostUnlock
  BY DEF SyncInv
<1> QED BY <1>1, ThreadsAgree, PTL

\* A thread asleep that nobody told is on the list its waker will look at: no
\* push, pop, signal, close or end of a thread can miss it.
THEOREM SleepersCanBeFound == Spec => []SleepersAreListed
<1>1. SyncInv => SleepersAreListed
  <2> SUFFICES ASSUME SyncInv
               PROVE  SleepersAreListed
    OBVIOUS
  <2>1. ASSUME NEW t \in living, pos[t] = "asleep", ~intr[t]
        PROVE  /\ op[t].kind = "pop"  => t \in Listed(qwait)
               /\ op[t].kind = "push" => t \in Listed(pwait)
               /\ op[t].kind = "cv" => t \in Listed(cvwait)
               /\ op[t].kind = "join" => op[t].arg \in living /\ t \in join_list[op[t].arg]
    <3>1. ThreadOK(t)
      BY CallTypes DEF SyncInv
    <3>2. Sleeps(t) /\ status[t] # "runnable"
      BY <2>1, <3>1 DEF ThreadOK, State, Sleeps
    <3> QED BY <3>1, <3>2 DEF ThreadOK, Queued
  <2>2. ASSUME NEW u \in living, NEW t \in join_list[u]
        PROVE  t \in living /\ op[t].kind = "join" /\ op[t].arg = u
    <3>1. u \in Threads /\ t \in Threads
      BY CallTypes DEF SyncInv
    <3>2. ThreadOK(t) /\ pos[u] # "dead"
      BY <3>1 DEF SyncInv, ThreadOK, Place
    <3> QED BY <3>1, <3>2 DEF ThreadOK, Queued
  <2> QED BY <2>1, <2>2 DEF SleepersAreListed
<1> QED BY <1>1, ThreadsAgree, PTL

============================================================================
