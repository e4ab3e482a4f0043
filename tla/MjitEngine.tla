----------------------------- MODULE MjitEngine -----------------------------
(***************************************************************************)
(* The MJIT engine of mjit.c: one thread that makes the precompiled        *)
(* header, worker threads that translate, compile and load units, and the  *)
(* client: the Ruby thread that holds the GVL.  The engine mutex and the   *)
(* GVL make every client operation sequential, so all Ruby threads are one *)
(* actor here.                                                             *)
(*                                                                         *)
(* A critical section of the code is one action, guarded by the mutex      *)
(* being free.  Where a section spans two actions (the top of the worker   *)
(* loop) the mutex is held between them.  What the code does outside its   *)
(* critical sections is an action of its own.  A thread in                 *)
(* pthread_cond_wait has wait[t] # "no"; a wakeup sends it back to the     *)
(* test of its while loop.                                                 *)
(*                                                                         *)
(* fault names the assertion or NULL dereference that ended the process.   *)
(***************************************************************************)
EXTENDS Integers, FiniteSets, Functions

CONSTANTS
    Workers,        \* worker threads (mjit_opts.threads of them)
    Client,         \* the Ruby thread that holds the GVL
    Iseqs,          \* the iseqs of the program
    Units,          \* the unit structures xmalloc may return: bounds memory
    None,           \* NULL
    Main,           \* the handle dlopen(NULL) returns: the program itself
    Aot,            \* mjit_opts.aot
    NumCallsToAdd,  \* NUM_CALLS_TO_ADD
    MaxMutations,   \* mjit_opts.max_mutations
    MaxCache,       \* mjit_opts.max_cache_size
    UnloadShare,    \* the 10 of "Remove 1/10 units more"
    Events          \* what the environment may do, see EventNames

\* cc_fail     the C compiler exits with an error
\* spawn_fail  the C file cannot be opened, or vfork fails
\* dl_fail     dlopen returns NULL
\* pch_fail    the precompiled header cannot be made
\* gc          the client collects garbage
\* free        a collection frees an iseq
\* redo        a speculation of JIT code fails
\* bop         a basic operation is redefined
\* trace       a trace hook is added or removed
\* fork        the process forks; the model follows the child
\* finish      the program ends
\* profile     mjit_opts.profile is set
\* spurious    pthread_cond_wait returns without a signal
\* overlap     create_unit, which takes no lock, overlaps a free_unit of a worker
EventNames == {"cc_fail", "spawn_fail", "dl_fail", "pch_fail", "gc", "free",
               "redo", "bop", "trace", "fork", "finish", "profile",
               "spurious", "overlap"}

Threads == Workers \cup {Client}
Flags == {"trace", "bop"}
Statuses == {"NOT_FORMED", "IN_QUEUE", "IN_GENERATION",
             "FAILED", "SUCCESS", "LOADED"}
NotCode == {"NOT_ADDED", "NOT_READY_JIT", "NOT_READY_AOT"}

ASSUME WorkersAssumption == IsFiniteSet(Workers) /\ Client \notin Workers
ASSUME UnitsAssumption ==
    /\ IsFiniteSet(Units) /\ None \notin Units /\ Units \cap NotCode = {}
ASSUME IseqsAssumption == None \notin Iseqs /\ Main \notin Iseqs /\ None # Main
ASSUME BoundsAssumption ==
    /\ NumCallsToAdd \in Nat \ {0} /\ MaxMutations \in Nat
    /\ MaxCache \in Nat /\ UnloadShare \in Nat \ {0}
ASSUME EventsAssumption == Events \subseteq EventNames /\ Aot \in BOOLEAN

VARIABLES
    mutex,                  \* holder of mjit_engine_mutex between actions
    wait,                   \* the condition variable each thread waits on
    pch_status, mjit_init_p, finish_workers_p, finished_workers,
    in_gc, units_in_translation,
    unit_queue, active_units, obsolete_units, free_unit_list, curr_unit,
    heap,                   \* unit structures not yet allocated
    unit,                   \* struct rb_mjit_unit
    ui,                     \* struct rb_mjit_unit_iseq of each iseq
    jit_code, calls,        \* iseq->body->jit_code and ->resume_calls
    alive,                  \* iseqs not collected
    spec,                   \* the broken global speculations, as flags
    wpc, wunit, wexit, whandle,     \* worker: control, u, exit_code, handle
    cpc, ciseq, cunit, cret,        \* client: control, iseq, u, return point
    fault

sync == <<mutex, wait>>
state == <<pch_status, mjit_init_p, finish_workers_p, finished_workers>>
gcv == <<in_gc, units_in_translation>>
lists == <<unit_queue, active_units, obsolete_units>>
mem == <<free_unit_list, curr_unit, heap>>
iseqs == <<ui, jit_code, calls, alive>>
wv == <<wpc, wunit, wexit, whandle>>
cv == <<cpc, ciseq, cunit, cret>>
vars == <<sync, state, gcv, lists, mem, unit, iseqs, spec, wv, cv, fault>>

-----------------------------------------------------------------------------
\* Threads.

MutexFree == mutex = None

Awake(t) == wait[t] = "no"

\* pthread_cond_wait(&cond, &mjit_engine_mutex)
CondWait(t, cond) == wait' = [wait EXCEPT ![t] = cond]

\* Wrong variant: the signal is not sent.
WakeupLost(cond) == UNCHANGED wait

\* pthread_cond_broadcast; only the client waits on mjit_client_wakeup, so
\* pthread_cond_signal on it is the same.
Wakeup(cond) ==
    wait' = [t \in Threads |-> IF wait[t] = cond THEN "no" ELSE wait[t]]

\* assert fails, or NULL is dereferenced: the process ends.
Abort(where) ==
    /\ fault' = where
    /\ UNCHANGED <<sync, state, gcv, lists, mem, unit, iseqs, spec, wv, cv>>

-----------------------------------------------------------------------------
\* Units.

\* Speculations s of a unit can be used now: no flag is broken that s trusts.
valid_global_spec_state_p(s) == spec \subseteq s

\* create_unit and add_iseq_to_unit: no speculation, no code, iseq i.
NewUnit(i) == [status |-> "NOT_FORMED", ui |-> i, spec_state |-> Flags,
               handle |-> None, freed_p |-> FALSE, high_priority_p |-> FALSE,
               ofname |-> FALSE, obj |-> None]

\* Where create_unit takes a structure from.
Available == IF free_unit_list # {} THEN free_unit_list ELSE heap

\* free_unit: close the handle, remove the object file, forget its name.
Freed(r) == [r EXCEPT !.handle = None, !.ofname = FALSE,
                      !.obj = IF r.status = "SUCCESS" THEN None ELSE @]

\* jit_code of an iseq whose code is being compiled again.
NotReady == IF Aot THEN "NOT_READY_AOT" ELSE "NOT_READY_JIT"

\* discard_unit asserts ui->unit == u, and reads through u->unit_iseq.
CanDiscard(u) == unit[u].ui # None /\ ui[unit[u].ui].unit = u

\* free_unit of a worker puts u on the free list.  The client may be in the
\* middle of create_unit: it then overwrites the head of the list.
Push(u) ==
    \/ free_unit_list' = free_unit_list \cup {u}
    \/ /\ "overlap" \in Events /\ cpc = "create" /\ free_unit_list # {}
       /\ UNCHANGED free_unit_list

\* Wrong variant: the unit iseq keeps its pointer to the unit.
discard_unit_keeps_ui(u) ==
    unit' = [unit EXCEPT ![u] = Freed(@)] /\ UNCHANGED ui /\ Push(u)

discard_unit(u) ==
    /\ unit' = [unit EXCEPT ![u] = Freed(@)]
    /\ ui' = [ui EXCEPT ![unit[u].ui].unit = None]
    /\ Push(u)

IsCode(i) == jit_code[i] \in Units

-----------------------------------------------------------------------------
Init ==
    /\ mutex = None /\ wait = [t \in Threads |-> "no"]
    /\ pch_status = "NOT_READY" /\ mjit_init_p = TRUE
    /\ finish_workers_p = FALSE /\ finished_workers = 0
    /\ in_gc = FALSE /\ units_in_translation = 0
    /\ unit_queue = {} /\ active_units = {} /\ obsolete_units = {}
    /\ free_unit_list = {} /\ curr_unit = None /\ heap = Units
    /\ unit = [u \in Units |-> NewUnit(None)]
    /\ ui = [i \in Iseqs |-> [made |-> FALSE, iseq |-> FALSE,
                              unit |-> None, jit_mutations_num |-> 0]]
    /\ jit_code = [i \in Iseqs |-> "NOT_ADDED"]
    /\ calls = [i \in Iseqs |-> 0] /\ alive = [i \in Iseqs |-> TRUE]
    /\ spec = {}
    /\ wpc = [w \in Workers |-> "pch"] /\ wunit = [w \in Workers |-> None]
    /\ wexit = [w \in Workers |-> TRUE] /\ whandle = [w \in Workers |-> None]
    /\ cpc = "run" /\ ciseq = None /\ cunit = None /\ cret = "run"
    /\ fault = "none"

-----------------------------------------------------------------------------
\* The thread that makes the precompiled header.

make_pch(ok) ==
    /\ MutexFree /\ pch_status = "NOT_READY"
    /\ ok \/ "pch_fail" \in Events
    /\ pch_status' = IF ok THEN "SUCCESS" ELSE "FAILED"
    /\ Wakeup("pch")
    /\ UNCHANGED <<mutex, mjit_init_p, finish_workers_p, finished_workers,
                   gcv, lists, mem, unit, iseqs, spec, wv, cv, fault>>

-----------------------------------------------------------------------------
\* Workers.

Goto(w, pc) == wpc' = [wpc EXCEPT ![w] = pc]

\* Wait for the precompiled header; then enter the loop, holding the mutex.
WorkerPch(w) ==
    /\ wpc[w] = "pch" /\ Awake(w) /\ MutexFree
    /\ \/ /\ pch_status = "NOT_READY" /\ CondWait(w, "pch")
          /\ UNCHANGED <<mutex, wpc>>
       \/ /\ pch_status = "FAILED" /\ Goto(w, "pch_failed")
          /\ UNCHANGED sync
       \/ /\ pch_status = "SUCCESS" /\ Goto(w, "top")
          /\ mutex' = w /\ UNCHANGED wait
    /\ UNCHANGED <<state, gcv, lists, mem, unit, iseqs, spec,
                   wunit, wexit, whandle, cv, fault>>

\* The header failed: switch MJIT off, without the mutex ...
WorkerSwitchOff(w) ==
    /\ wpc[w] = "pch_failed" /\ Goto(w, "switched_off")
    /\ mjit_init_p' = FALSE
    /\ UNCHANGED <<sync, pch_status, finish_workers_p, finished_workers, gcv,
                   lists, mem, unit, iseqs, spec, wunit, wexit, whandle, cv,
                   fault>>

\* ... and leave, holding the mutex until the thread unlocks it.
WorkerLeave(w) ==
    /\ wpc[w] = "switched_off" /\ MutexFree /\ Goto(w, "exit")
    /\ finished_workers' = finished_workers + 1
    /\ mutex' = w /\ Wakeup("client")
    /\ UNCHANGED <<pch_status, mjit_init_p, finish_workers_p, gcv, lists, mem,
                   unit, iseqs, spec, wunit, wexit, whandle, cv, fault>>

\* get_from_list: a high priority unit if there is one, else the most called.
Best ==
    LET high == {u \in unit_queue : unit[u].high_priority_p}
    IN  IF high # {} THEN high ELSE unit_queue

\* The top of the loop, holding the mutex: finish, or take a unit from the
\* queue, or go to wait for one.
WorkerTop(w) ==
    /\ wpc[w] = "top" /\ mutex = w
    /\ \/ /\ finish_workers_p /\ Goto(w, "exit")
          /\ finished_workers' = finished_workers + 1
          /\ UNCHANGED <<mutex, unit_queue, unit, wunit>>
       \/ /\ ~finish_workers_p
          /\ \E u \in Best :
                /\ unit_queue' = unit_queue \ {u}
                /\ unit' = [unit EXCEPT ![u] =
                       [@ EXCEPT !.status = "IN_GENERATION",
                                 !.high_priority_p = FALSE]]
                /\ wunit' = [wunit EXCEPT ![w] = u]
          /\ Goto(w, "gc") /\ mutex' = None
          /\ UNCHANGED finished_workers
       \/ /\ ~finish_workers_p /\ unit_queue = {}
          /\ Goto(w, "idle") /\ mutex' = None
          /\ UNCHANGED <<finished_workers, unit_queue, unit, wunit>>
    /\ UNCHANGED <<wait, pch_status, mjit_init_p, finish_workers_p, gcv,
                   active_units, obsolete_units, mem, iseqs, spec,
                   wexit, whandle, cv, fault>>

\* The unlock after the loop.
WorkerExit(w) ==
    /\ wpc[w] = "exit" /\ Goto(w, "done")
    /\ mutex' = None
    /\ UNCHANGED <<wait, state, gcv, lists, mem, unit, iseqs, spec,
                   wunit, wexit, whandle, cv, fault>>

\* Nothing in the queue: wait on mjit_worker_wakeup, then back to the top.
WorkerIdle(w) ==
    /\ wpc[w] = "idle" /\ Awake(w) /\ MutexFree
    /\ IF unit_queue = {} /\ ~finish_workers_p
       THEN CondWait(w, "worker") /\ UNCHANGED <<mutex, wpc>>
       ELSE Goto(w, "top") /\ mutex' = w /\ UNCHANGED wait
    /\ UNCHANGED <<state, gcv, lists, mem, unit, iseqs, spec,
                   wunit, wexit, whandle, cv, fault>>

\* start_unit: wait until no collection runs, announce the translation.
WorkerEnterTranslation(w) ==
    /\ wpc[w] = "gc" /\ Awake(w) /\ MutexFree
    /\ \/ /\ in_gc /\ CondWait(w, "gc")
          /\ UNCHANGED <<units_in_translation, wpc, unit>>
       \/ /\ ~in_gc /\ Goto(w, "translate")
          /\ units_in_translation' = units_in_translation + 1
          /\ unit' = [unit EXCEPT ![wunit[w]].ofname = TRUE]
          /\ UNCHANGED wait
    /\ UNCHANGED <<mutex, state, in_gc, lists, mem, iseqs, spec,
                   wunit, wexit, whandle, cv, fault>>

\* translate_unit_iseq: the C code relies on the speculations valid now.
WorkerTranslate(w) ==
    /\ wpc[w] = "translate"
    /\ \/ /\ unit' = [unit EXCEPT ![wunit[w]].spec_state = spec]
          /\ wexit' = [wexit EXCEPT ![w] = TRUE]
       \/ /\ "spawn_fail" \in Events
          /\ wexit' = [wexit EXCEPT ![w] = FALSE] /\ UNCHANGED unit
    /\ Goto(w, "translated")
    /\ UNCHANGED <<sync, state, gcv, lists, mem, iseqs, spec,
                   wunit, whandle, cv, fault>>

WorkerLeaveTranslation(w) ==
    /\ wpc[w] = "translated" /\ MutexFree
    /\ units_in_translation' = units_in_translation - 1
    /\ Wakeup("client") /\ Goto(w, "args")
    /\ UNCHANGED <<mutex, state, in_gc, lists, mem, unit, iseqs, spec,
                   wunit, wexit, whandle, cv, fault>>

\* The units of the workers that use the static argument vectors of
\* start_unit now: a worker may pick up what another one stored there.
ArgUnits == {wunit[v] : v \in {x \in Workers : wpc[x] = "args"}}

\* start_unit starts the C compiler on input[0] and output[1].  A compilation
\* that cannot be started only marks the unit; its exit code is whatever the
\* worker's uninitialised stat holds.
WorkerSpawn(w) ==
    /\ wpc[w] = "args" /\ Goto(w, "status")
    /\ \/ /\ wexit[w]
          /\ \E in, out \in ArgUnits, ok \in BOOLEAN :
                /\ ok \/ "cc_fail" \in Events
                /\ unit' = [unit EXCEPT ![out].obj =
                                IF ok THEN unit[in].ui ELSE None]
                /\ wexit' = [wexit EXCEPT ![w] = ok]
       \/ /\ ~wexit[w] \/ "spawn_fail" \in Events
          /\ unit' = [unit EXCEPT ![wunit[w]] =
                 [@ EXCEPT !.status = "FAILED", !.ofname = FALSE, !.obj = None]]
          /\ \E stat \in BOOLEAN : wexit' = [wexit EXCEPT ![w] = stat]
    /\ UNCHANGED <<sync, state, gcv, lists, mem, iseqs, spec,
                   wunit, whandle, cv, fault>>

\* Wrong variant: only a failure is noted.
WorkerStatusOnFailure(w) ==
    /\ wpc[w] = "status" /\ MutexFree /\ Goto(w, "check")
    /\ unit' = [unit EXCEPT ![wunit[w]].status = IF wexit[w] THEN @ ELSE "FAILED"]
    /\ UNCHANGED <<sync, state, gcv, lists, mem, iseqs, spec,
                   wunit, wexit, whandle, cv, fault>>

\* waitpid returned: set up the status.
WorkerStatus(w) ==
    /\ wpc[w] = "status" /\ MutexFree /\ Goto(w, "check")
    /\ unit' = [unit EXCEPT ![wunit[w]].status =
                    IF wexit[w] THEN "SUCCESS" ELSE "FAILED"]
    /\ UNCHANGED <<sync, state, gcv, lists, mem, iseqs, spec,
                   wunit, wexit, whandle, cv, fault>>

\* Back to the top of the loop with the mutex held, after telling the client.
BackToTop(w) ==
    /\ mutex' = w /\ Wakeup("client") /\ Goto(w, "top")
    /\ wunit' = [wunit EXCEPT ![w] = None]
    /\ wexit' = [wexit EXCEPT ![w] = TRUE]
    /\ whandle' = [whandle EXCEPT ![w] = None]

\* Discard a failed or collected unit, put a unit with a broken speculation
\* back into the queue, or go to load the code.
WorkerCheck(w) ==
    LET u == wunit[w] IN
    /\ wpc[w] = "check" /\ MutexFree
    /\ \/ /\ ~wexit[w] \/ unit[u].freed_p
          /\ CanDiscard(u) /\ discard_unit(u)
          /\ BackToTop(w) /\ UNCHANGED unit_queue
       \/ /\ wexit[w] /\ ~unit[u].freed_p
          /\ ~valid_global_spec_state_p(unit[u].spec_state)
          /\ unit_queue' = unit_queue \cup {u}
          /\ unit' = [unit EXCEPT ![u].status = "IN_QUEUE"]
          /\ BackToTop(w) /\ UNCHANGED <<ui, free_unit_list>>
       \/ /\ wexit[w] /\ ~unit[u].freed_p
          /\ valid_global_spec_state_p(unit[u].spec_state)
          /\ Goto(w, "load")
          /\ UNCHANGED <<sync, unit_queue, unit, ui, free_unit_list,
                         wunit, wexit, whandle>>
    /\ UNCHANGED <<state, gcv, active_units, obsolete_units, curr_unit, heap,
                   jit_code, calls, alive, spec, cv, fault>>

\* remove(ofname)
Unlinked(r) == [r EXCEPT !.obj = None]

\* load_unit up to its critical section: dlopen, remove the object file.
WorkerDlopen(w) ==
    LET u == wunit[w] IN
    /\ wpc[w] = "load" /\ unit[u].status = "SUCCESS" /\ Goto(w, "publish")
    /\ \E h \in {IF unit[u].ofname THEN unit[u].obj ELSE Main}
                  \cup (IF "dl_fail" \in Events THEN {None} ELSE {}) :
          whandle' = [whandle EXCEPT ![w] = h]
    /\ unit' = [unit EXCEPT ![u] = Unlinked(@)]
    /\ UNCHANGED <<sync, state, gcv, lists, mem, iseqs, spec,
                   wunit, wexit, cv, fault>>

\* The critical section of load_unit: nothing for a collected iseq; discard
\* the unit if there is no handle; obsolete it if dlsym does not find the
\* function of the iseq; otherwise publish the code.
WorkerPublish(w) ==
    LET u == wunit[w]
        i == unit[u].ui
        h == whandle[w]
        loaded(status) == unit' = [unit EXCEPT ![u] =
            [@ EXCEPT !.status = status, !.handle = h, !.ofname = FALSE]]
        setCode(c) == jit_code' = [jit_code EXCEPT ![i] = c]
    IN
    /\ wpc[w] = "publish" /\ MutexFree /\ i # None
    /\ \/ /\ ~ui[i].iseq /\ unit' = [unit EXCEPT ![u].ofname = FALSE]
          /\ UNCHANGED <<active_units, obsolete_units, free_unit_list, ui,
                         jit_code>>
       \/ /\ ui[i].iseq /\ h = None
          /\ CanDiscard(u) /\ discard_unit(u) /\ setCode("NOT_ADDED")
          /\ UNCHANGED <<active_units, obsolete_units>>
       \/ /\ ui[i].iseq /\ h \notin {None, i}
          /\ loaded("FAILED") /\ setCode("NOT_ADDED")
          /\ obsolete_units' = obsolete_units \cup {u}
          /\ UNCHANGED <<active_units, free_unit_list, ui>>
       \/ /\ ui[i].iseq /\ h = i
          /\ loaded("LOADED") /\ setCode(u)
          /\ active_units' = active_units \cup {u}
          /\ UNCHANGED <<obsolete_units, free_unit_list, ui>>
    /\ Goto(w, "loaded")
    /\ UNCHANGED <<sync, state, gcv, unit_queue, curr_unit, heap, calls, alive,
                   spec, wunit, wexit, whandle, cv, fault>>

\* After load_unit: wake the client, on to the top of the loop.
WorkerLoaded(w) ==
    /\ wpc[w] = "loaded" /\ MutexFree /\ BackToTop(w)
    /\ UNCHANGED <<state, gcv, lists, mem, unit, iseqs, spec, cv, fault>>

\* The asserts of discard_unit and load_unit, and ui->iseq in load_unit.
WorkerAbort(w) ==
    LET u == wunit[w] IN
    \/ /\ wpc[w] = "check" /\ MutexFree
       /\ ~wexit[w] \/ unit[u].freed_p
       /\ ~CanDiscard(u) /\ Abort("discard_unit")
    \/ wpc[w] = "load" /\ unit[u].status # "SUCCESS" /\ Abort("load_unit")
    \/ /\ wpc[w] = "publish" /\ MutexFree
       /\ \/ unit[u].ui = None
          \/ /\ unit[u].ui # None /\ ui[unit[u].ui].iseq
             /\ whandle[w] = None /\ ~CanDiscard(u)
       /\ Abort("publish")

worker(w) ==
    \/ WorkerPch(w) \/ WorkerSwitchOff(w) \/ WorkerLeave(w) \/ WorkerTop(w)
    \/ WorkerExit(w) \/ WorkerIdle(w) \/ WorkerEnterTranslation(w)
    \/ WorkerTranslate(w) \/ WorkerLeaveTranslation(w) \/ WorkerSpawn(w)
    \/ WorkerStatus(w) \/ WorkerCheck(w) \/ WorkerDlopen(w)
    \/ WorkerPublish(w) \/ WorkerLoaded(w) \/ WorkerAbort(w)

-----------------------------------------------------------------------------
\* The client.  cpc is "run" while it executes Ruby code.

\* mjit_execute_iseq_0 on an iseq without code: count the call; at the
\* threshold the iseq goes to mjit_add_iseq_to_process.  Calls past the
\* threshold, or while jit_code is not NOT_ADDED, decide nothing.
ClientCall(i) ==
    /\ cpc = "run" /\ alive[i] /\ mjit_init_p /\ ~Aot
    /\ jit_code[i] = "NOT_ADDED" /\ calls[i] < NumCallsToAdd
    /\ calls' = [calls EXCEPT ![i] = @ + 1]
    /\ IF calls'[i] = NumCallsToAdd
       THEN /\ jit_code' = [jit_code EXCEPT ![i] = "NOT_READY_JIT"]
            /\ cpc' = "add" /\ ciseq' = i
       ELSE UNCHANGED <<jit_code, cpc, ciseq>>
    /\ UNCHANGED <<sync, state, gcv, lists, mem, unit, ui, alive, spec, wv,
                   cunit, cret, fault>>

\* mjit_aot_process: an iseq was formed, once.
mjit_aot_process(i) ==
    /\ cpc = "run" /\ mjit_init_p /\ Aot /\ alive[i]
    /\ ~ui[i].made /\ jit_code[i] = "NOT_ADDED"
    /\ jit_code' = [jit_code EXCEPT ![i] = "NOT_READY_AOT"]
    /\ cpc' = "add" /\ ciseq' = i
    /\ UNCHANGED <<sync, state, gcv, lists, mem, unit, ui, calls, alive, spec,
                   wv, cunit, cret, fault>>

\* Wrong variant: an iseq that had a unit before is not added again.
AddStartOnce ==
    /\ cpc = "add"
    /\ IF mjit_init_p /\ ui[ciseq].unit = None
       THEN cpc' = "create" /\ UNCHANGED ciseq
       ELSE cpc' = "run" /\ ciseq' = None
    /\ UNCHANGED <<sync, state, gcv, lists, mem, unit, iseqs, spec, wv,
                   cunit, cret, fault>>

\* mjit_add_iseq_to_process does nothing when MJIT is off.
AddStart ==
    /\ cpc = "add"
    /\ IF mjit_init_p THEN cpc' = "create" /\ UNCHANGED ciseq
                      ELSE cpc' = "run" /\ ciseq' = None
    /\ UNCHANGED <<sync, state, gcv, lists, mem, unit, iseqs, spec, wv,
                   cunit, cret, fault>>

\* Some worker is in the critical section where it frees its unit.
Freeing ==
    \E w \in Workers : MutexFree /\
        \/ wpc[w] = "check" /\ (~wexit[w] \/ unit[wunit[w]].freed_p)
        \/ wpc[w] = "publish" /\ whandle[w] = None

\* Wrong variant: the head of the free list is used, but not removed.
PopKeeps(u) == UNCHANGED free_unit_list /\ heap' = heap \ {u}

\* create_unit takes u, without the mutex.  A worker in the middle of
\* free_unit puts the old head back.
Pop(u) ==
    /\ heap' = heap \ {u}
    /\ \/ free_unit_list' = free_unit_list \ {u}
       \/ "overlap" \in Events /\ Freeing /\ UNCHANGED free_unit_list

\* create_iseq_unit, without the mutex.
create_iseq_unit ==
    /\ cpc = "create" /\ cpc' = "enqueue"
    /\ \E u \in Available :
          /\ curr_unit' = u /\ Pop(u)
          /\ unit' = [unit EXCEPT ![u] = NewUnit(ciseq)]
          /\ ui' = [ui EXCEPT ![ciseq] =
                 [@ EXCEPT !.unit = u, !.made = TRUE, !.iseq = TRUE]]
    /\ UNCHANGED <<sync, state, gcv, lists, jit_code, calls, alive, spec, wv,
                   ciseq, cunit, cret, fault>>

\* unload_units frees the unused obsolete units, then evicts unused active
\* units (in the code the least called) until there is room.
Unused(S, used) == {u \in S : unit[u].ui \notin used}

Evictable(used) ==
    LET kept == obsolete_units \ Unused(obsolete_units, used)
        room == MaxCache - Cardinality(active_units) \div UnloadShare
        over == Cardinality(active_units) + Cardinality(kept) - room
        idle == Unused(active_units, used)
        n == IF over <= 0 THEN 0
             ELSE IF over > Cardinality(idle) THEN Cardinality(idle) ELSE over
    IN  {E \in SUBSET idle : Cardinality(E) = n}

\* unload_units, after finish_forming_curr_unit put curr_unit into the queue.
\* used: the iseqs with a frame on the stack of a thread or a continuation.
Unload(used, evicted) ==
    LET gone == Unused(obsolete_units, used) \cup (IF Aot THEN {} ELSE evicted)
        hit(i) == \E u \in evicted : unit[u].ui = i
    IN
    /\ obsolete_units' = obsolete_units \ gone
    /\ active_units' = active_units \ evicted
    /\ unit_queue' = unit_queue \cup {curr_unit} \cup (IF Aot THEN evicted ELSE {})
    /\ free_unit_list' = free_unit_list \cup gone
    /\ unit' = [u \in Units |->
                  CASE u = curr_unit -> [unit[u] EXCEPT !.status = "IN_QUEUE"]
                    [] u \in gone -> Freed(unit[u])
                    [] u \in evicted \ gone ->
                         [unit[u] EXCEPT !.status = "IN_QUEUE", !.handle = None]
                    [] OTHER -> unit[u]]
    /\ ui' = [i \in Iseqs |-> IF hit(i) /\ ~Aot
                              THEN [ui[i] EXCEPT !.unit = None] ELSE ui[i]]
    /\ jit_code' = [i \in Iseqs |-> IF hit(i) THEN NotReady ELSE jit_code[i]]
    /\ calls' = [i \in Iseqs |-> IF hit(i) THEN 0 ELSE calls[i]]

CacheFull == Cardinality(active_units) + Cardinality(obsolete_units) >= MaxCache

\* The asserts of mark_unit_iseqs and unload_units.
CanUnload ==
    /\ \A u \in active_units \cup obsolete_units :
          unit[u].handle # None /\ unit[u].ui # None
    /\ \A u \in obsolete_units : ui[unit[u].ui].unit # u
    /\ \A u \in active_units : ui[unit[u].ui].unit = u /\ ui[unit[u].ui].iseq

\* The critical section of mjit_add_iseq_to_process.
mjit_add_iseq_to_process ==
    /\ cpc = "enqueue" /\ MutexFree
    /\ \/ /\ ~CacheFull
          /\ unit_queue' = unit_queue \cup {curr_unit}
          /\ unit' = [unit EXCEPT ![curr_unit].status = "IN_QUEUE"]
          /\ UNCHANGED <<active_units, obsolete_units, free_unit_list, ui,
                         jit_code, calls>>
       \/ /\ CacheFull /\ CanUnload
          /\ \E used \in SUBSET Iseqs : \E evicted \in Evictable(used) :
                Unload(used, evicted)
    /\ curr_unit' = None /\ Wakeup("worker")
    /\ cpc' = "run" /\ ciseq' = None
    /\ UNCHANGED <<mutex, state, gcv, heap, alive, spec, wv, cunit, cret, fault>>

\* JIT code of i runs into a failed speculation and calls mjit_change_iseq,
\* mjit_ivar_spec_fail or mjit_ep_eq_bp_fail.
ClientSpecFail(i) ==
    /\ cpc = "run" /\ "redo" \in Events /\ alive[i] /\ IsCode(i)
    /\ cpc' = "redo" /\ ciseq' = i
    /\ UNCHANGED <<sync, state, gcv, lists, mem, unit, iseqs, spec, wv,
                   cunit, cret, fault>>

\* Wrong variant: one mutation too many.
ExhaustedLate(i) == ui[i].jit_mutations_num > MaxMutations

Exhausted(i) == ui[i].jit_mutations_num >= MaxMutations

\* Wrong variant: the status of the obsolete unit is not changed.
ObsoleteLoaded(u) ==
    /\ active_units' = active_units \ {u}
    /\ obsolete_units' = obsolete_units \cup {u} /\ UNCHANGED unit

\* The code of u is not used for new calls any more.
Obsolete(u) ==
    /\ active_units' = active_units \ {u}
    /\ obsolete_units' = obsolete_units \cup {u}
    /\ unit' = [unit EXCEPT ![u].status = "FAILED"]

\* Wrong variant: the iseq keeps the obsolete code.
KeepCode(i) == UNCHANGED jit_code

ResetCode(i) == jit_code' = [jit_code EXCEPT ![i] = NotReady]

\* mjit_redo_iseq: the code becomes obsolete, the iseq is added again.
mjit_redo_iseq(spec_fail_p) ==
    LET u == ui[ciseq].unit IN
    /\ cpc = "redo" /\ MutexFree /\ u # None
    /\ IF unit[u].status # "LOADED" \/ Exhausted(ciseq)
       THEN /\ cpc' = "run" /\ ciseq' = None
            /\ UNCHANGED <<unit, ui, jit_code, active_units, obsolete_units>>
       ELSE /\ ui' = [ui EXCEPT ![ciseq].jit_mutations_num =
                                    IF spec_fail_p THEN @ + 1 ELSE @]
            /\ Obsolete(u) /\ ResetCode(ciseq)
            /\ cpc' = "add" /\ UNCHANGED ciseq
    /\ UNCHANGED <<sync, state, gcv, unit_queue, mem, calls, alive, spec, wv,
                   cunit, cret, fault>>

\* mjit_execute_iseq_0 on an iseq that is compiled ahead of time.
ClientAotCall(i) ==
    /\ cpc = "run" /\ alive[i] /\ mjit_init_p
    /\ jit_code[i] = "NOT_READY_AOT"
    /\ cpc' = "get" /\ ciseq' = i
    /\ UNCHANGED <<sync, state, gcv, lists, mem, unit, iseqs, spec, wv,
                   cunit, cret, fault>>

\* mjit_get_iseq_fun: increase_unit_priority (curr_unit is NULL here) ...
increase_unit_priority ==
    LET u == ui[ciseq].unit IN
    /\ cpc = "get" /\ MutexFree /\ u # None
    /\ unit' = [unit EXCEPT ![u].high_priority_p = TRUE]
    /\ Wakeup("worker") /\ cpc' = "get_wait" /\ cunit' = u
    /\ UNCHANGED <<mutex, state, gcv, lists, mem, iseqs, spec, wv,
                   ciseq, cret, fault>>

\* ... then wait until the unit is loaded or has failed.
mjit_get_iseq_fun ==
    /\ cpc = "get_wait" /\ Awake(Client) /\ MutexFree
    /\ IF unit[cunit].status \in {"LOADED", "FAILED"}
       THEN cpc' = "run" /\ ciseq' = None /\ cunit' = None /\ UNCHANGED wait
       ELSE CondWait(Client, "client") /\ UNCHANGED <<cpc, ciseq, cunit>>
    /\ UNCHANGED <<mutex, state, gcv, lists, mem, unit, iseqs, spec, wv,
                   cret, fault>>

\* A basic operation is redefined: the flag is set, then mjit_cancel_all.
BopRedefined ==
    /\ cpc = "run" /\ "bop" \in Events
    /\ spec' = spec \cup {"bop"} /\ cpc' = "cancel"
    /\ UNCHANGED <<sync, state, gcv, lists, mem, unit, iseqs, wv,
                   ciseq, cunit, cret, fault>>

\* recalc_add_ruby_vm_event_flags and recalc_remove_ruby_vm_event_flags clear
\* ruby_vm_event_flags first ...
TraceRecalc ==
    /\ cpc = "run" /\ "trace" \in Events
    /\ spec' = spec \ {"trace"} /\ cpc' = "recalc"
    /\ UNCHANGED <<sync, state, gcv, lists, mem, unit, iseqs, wv,
                   ciseq, cunit, cret, fault>>

\* ... and sum up the events that are still counted: if there are any, all
\* code is cancelled.
TraceSet(on) ==
    /\ cpc = "recalc"
    /\ IF on THEN spec' = spec \cup {"trace"} /\ cpc' = "cancel"
             ELSE cpc' = "run" /\ UNCHANGED spec
    /\ UNCHANGED <<sync, state, gcv, lists, mem, unit, iseqs, wv,
                   ciseq, cunit, cret, fault>>

\* The loaded units whose speculations do not hold any more.
Broken == {u \in active_units : /\ unit[u].status = "LOADED"
                                /\ ~valid_global_spec_state_p(unit[u].spec_state)}

\* The structures create_unit may return, one for each unit of S: the free
\* list first, then new memory.
Replacements(S) ==
    {f \in Injection(S, free_unit_list \cup heap) :
        Range(f) \subseteq free_unit_list \/ free_unit_list \subseteq Range(f)}

\* The critical section of mjit_cancel_all: each broken unit becomes obsolete
\* and a new unit of the same iseq goes to the queue.
mjit_cancel_all ==
    /\ cpc = "cancel" /\ cpc' = "run"
    /\ \/ /\ ~mjit_init_p /\ UNCHANGED <<wait, lists, mem, unit, ui, jit_code>>
       \/ /\ mjit_init_p /\ MutexFree /\ Wakeup("worker")
          /\ \A u \in Broken : unit[u].ui # None /\ ui[unit[u].ui].iseq
          /\ \E new \in Replacements(Broken) :
             LET of(v) == unit[CHOOSE u \in Broken : new[u] = v].ui IN
                /\ active_units' = active_units \ Broken
                /\ obsolete_units' = obsolete_units \cup Broken
                /\ unit_queue' = unit_queue \cup Range(new)
                /\ free_unit_list' = free_unit_list \ Range(new)
                /\ heap' = heap \ Range(new)
                /\ unit' = [v \in Units |->
                     CASE v \in Broken -> [unit[v] EXCEPT !.status = "FAILED"]
                       [] v \in Range(new) ->
                            [NewUnit(of(v)) EXCEPT !.status = "IN_QUEUE"]
                       [] OTHER -> unit[v]]
                /\ ui' = [i \in Iseqs |->
                     IF \E u \in Broken : unit[u].ui = i
                     THEN [ui[i] EXCEPT !.unit =
                              new[CHOOSE u \in Broken : unit[u].ui = i]]
                     ELSE ui[i]]
                /\ jit_code' = [i \in Iseqs |->
                     IF \E u \in Broken : unit[u].ui = i
                     THEN "NOT_READY_JIT" ELSE jit_code[i]]
          /\ UNCHANGED curr_unit
    /\ UNCHANGED <<mutex, state, gcv, calls, alive, spec, wv,
                   ciseq, cunit, cret, fault>>

\* gc_enter, from Ruby code or from an xmalloc of create_iseq_unit.
GcEnter ==
    /\ cpc \in {"run", "create"} /\ "gc" \in Events /\ mjit_init_p
    /\ cpc' = "gc_start" /\ cret' = cpc
    /\ UNCHANGED <<sync, state, gcv, lists, mem, unit, iseqs, spec, wv,
                   ciseq, cunit, fault>>

\* Wrong variant: off by one.
TranslationAlmostOver == units_in_translation <= 1

TranslationOver == units_in_translation = 0

\* mjit_gc_start: wait until no worker translates.
mjit_gc_start ==
    /\ cpc = "gc_start" /\ Awake(Client) /\ MutexFree
    /\ IF TranslationOver
       THEN in_gc' = TRUE /\ cpc' = "gc" /\ UNCHANGED wait
       ELSE CondWait(Client, "client") /\ UNCHANGED <<in_gc, cpc>>
    /\ UNCHANGED <<mutex, state, units_in_translation, lists, mem, unit, iseqs,
                   spec, wv, ciseq, cunit, cret, fault>>

\* mjit_free_iseq: the collection frees an iseq that is not on the stack.
mjit_free_iseq(i) ==
    LET u == ui[i].unit
        running == u # None /\ unit[u].status = "IN_GENERATION"
    IN
    /\ cpc = "gc" /\ "free" \in Events /\ alive[i] /\ i # ciseq
    /\ alive' = [alive EXCEPT ![i] = FALSE]
    /\ \/ /\ ~mjit_init_p \/ ~ui[i].made \/ (MutexFree /\ u = None)
          /\ UNCHANGED <<lists, free_unit_list, unit, ui>>
       \/ /\ mjit_init_p /\ ui[i].made /\ MutexFree /\ running
          /\ ui' = [ui EXCEPT ![i].iseq = FALSE]
          /\ unit' = [unit EXCEPT ![u].freed_p = TRUE]
          /\ UNCHANGED <<lists, free_unit_list>>
       \/ /\ mjit_init_p /\ ui[i].made /\ MutexFree /\ u # None
          /\ ~running /\ CanDiscard(u)
          /\ unit_queue' = IF unit[u].status = "IN_QUEUE"
                           THEN unit_queue \ {u} ELSE unit_queue
          /\ active_units' = IF unit[u].status = "LOADED"
                             THEN active_units \ {u} ELSE active_units
          /\ ui' = [ui EXCEPT ![i] = [@ EXCEPT !.iseq = FALSE, !.unit = None]]
          /\ unit' = [unit EXCEPT ![u] = Freed(@)]
          /\ free_unit_list' = free_unit_list \cup {u}
          /\ UNCHANGED obsolete_units
    /\ UNCHANGED <<sync, state, gcv, curr_unit, heap, jit_code, calls, spec, wv,
                   cv, fault>>

\* mjit_gc_finish: let the workers translate again.
mjit_gc_finish ==
    /\ cpc = "gc" /\ cpc' = cret /\ cret' = "run"
    /\ \/ ~mjit_init_p /\ UNCHANGED <<in_gc, wait>>
       \/ mjit_init_p /\ MutexFree /\ in_gc' = FALSE /\ Wakeup("gc")
    /\ UNCHANGED <<mutex, state, units_in_translation, lists, mem, unit, iseqs,
                   spec, wv, ciseq, cunit, fault>>

-----------------------------------------------------------------------------
\* The end of the program, and a fork.

\* mjit_finish: wait for the precompiled header ...
FinishStart ==
    /\ cpc = "run" /\ "finish" \in Events
    /\ cpc' = IF mjit_init_p THEN "fin_pch" ELSE "done"
    /\ UNCHANGED <<sync, state, gcv, lists, mem, unit, iseqs, spec, wv,
                   ciseq, cunit, cret, fault>>

FinishPch ==
    /\ cpc = "fin_pch" /\ Awake(Client) /\ MutexFree
    /\ IF pch_status = "NOT_READY"
       THEN CondWait(Client, "pch") /\ UNCHANGED cpc
       ELSE cpc' = "fin_flag" /\ UNCHANGED wait
    /\ UNCHANGED <<mutex, state, gcv, lists, mem, unit, iseqs, spec, wv,
                   ciseq, cunit, cret, fault>>

\* ... tell the workers to finish, without the mutex ...
FinishFlag ==
    /\ cpc = "fin_flag" /\ cpc' = "fin_loop"
    /\ finish_workers_p' = TRUE
    /\ UNCHANGED <<sync, pch_status, mjit_init_p, finished_workers, gcv, lists,
                   mem, unit, iseqs, spec, wv, ciseq, cunit, cret, fault>>

\* Wrong variant: off by one.
AllFinishedButOne == finished_workers + 1 >= Cardinality(Workers)

AllFinished == finished_workers >= Cardinality(Workers)

\* ... wake them until all of them have counted themselves ...
FinishWake ==
    /\ cpc = "fin_loop" /\ ~AllFinished
    /\ MutexFree /\ Wakeup("worker")
    /\ UNCHANGED <<mutex, state, gcv, lists, mem, unit, iseqs, spec, wv, cv,
                   fault>>

\* print_statistics reads ui->unit->num and, through ui->iseq, the call counts
\* of every unit iseq.
CanPrint == "profile" \in Events =>
    \A i \in Iseqs : ui[i].made => ui[i].unit # None /\ (ui[i].iseq => alive[i])

\* ... then destroy the mutex, print the statistics and free all units.
mjit_finish ==
    LET all == unit_queue \cup active_units \cup obsolete_units IN
    /\ cpc = "fin_loop" /\ AllFinished /\ CanPrint
    /\ cpc' = "done" /\ mjit_init_p' = FALSE
    /\ unit' = [u \in Units |-> IF u \in all THEN Freed(unit[u]) ELSE unit[u]]
    /\ unit_queue' = {} /\ active_units' = {} /\ obsolete_units' = {}
    /\ free_unit_list' = free_unit_list \cup all
    /\ UNCHANGED <<sync, pch_status, finish_workers_p, finished_workers, gcv,
                   curr_unit, heap, iseqs, spec, wv, ciseq, cunit, cret, fault>>

\* fork and child_after_fork: in the child there are no workers, the mutex is
\* as the parent had it, and MJIT is off.
child_after_fork ==
    /\ cpc = "run" /\ "fork" \in Events /\ mjit_init_p
    /\ mjit_init_p' = FALSE
    /\ wpc' = [w \in Workers |-> "gone"]
    /\ wait' = [t \in Threads |-> "no"]
    /\ UNCHANGED <<mutex, pch_status, finish_workers_p, finished_workers, gcv,
                   lists, mem, unit, iseqs, spec, wunit, wexit, whandle, cv,
                   fault>>

-----------------------------------------------------------------------------
\* What ends a client, and what the environment does to any thread.

\* The asserts of mark_unit_iseqs and unload_units, the NULL unit in
\* mjit_get_iseq_fun and print_statistics, and the collection that an xmalloc
\* under the mutex starts in mjit_cancel_all: it locks the mutex again.
ClientAbort ==
    \/ cpc = "enqueue" /\ MutexFree /\ CacheFull /\ ~CanUnload /\ Abort("unload_units")
    \/ cpc = "fin_loop" /\ AllFinished /\ ~CanPrint /\ Abort("print_statistics")
    \/ cpc = "get" /\ ui[ciseq].unit = None /\ Abort("get_iseq_fun")
    \/ /\ cpc = "cancel" /\ MutexFree /\ mjit_init_p /\ "gc" \in Events
       /\ Cardinality(Broken) > Cardinality(free_unit_list)
       /\ Abort("relock")

\* The model is out of unit structures: stop here.
MemoryBound ==
    /\ \/ cpc = "create" /\ Available = {}
       \/ /\ cpc = "cancel" /\ mjit_init_p
          /\ Cardinality(Broken) > Cardinality(free_unit_list \cup heap)
    /\ cpc' = "bounded"
    /\ UNCHANGED <<sync, state, gcv, lists, mem, unit, iseqs, spec, wv,
                   ciseq, cunit, cret, fault>>

Spurious(t) ==
    /\ "spurious" \in Events /\ ~Awake(t)
    /\ wait' = [wait EXCEPT ![t] = "no"]
    /\ UNCHANGED <<mutex, state, gcv, lists, mem, unit, iseqs, spec, wv, cv,
                   fault>>

\* Ruby code that does not enter MJIT runs, or the process has ended.
Quiet ==
    /\ cpc \in {"run", "done", "bounded"} \/ fault # "none"
    /\ UNCHANGED vars

client ==
    \/ \E i \in Iseqs : \/ ClientCall(i) \/ mjit_aot_process(i)
                        \/ ClientSpecFail(i) \/ ClientAotCall(i)
                        \/ mjit_free_iseq(i)
    \/ AddStart \/ create_iseq_unit \/ mjit_add_iseq_to_process
    \/ \E b \in BOOLEAN : mjit_redo_iseq(b) \/ TraceSet(b)
    \/ increase_unit_priority \/ mjit_get_iseq_fun
    \/ BopRedefined \/ TraceRecalc \/ mjit_cancel_all
    \/ GcEnter \/ mjit_gc_start \/ mjit_gc_finish
    \/ FinishStart \/ FinishPch \/ FinishFlag \/ FinishWake \/ mjit_finish
    \/ child_after_fork \/ ClientAbort \/ MemoryBound

Next ==
    \/ /\ fault = "none"
       /\ \/ \E ok \in BOOLEAN : make_pch(ok)
          \/ \E w \in Workers : worker(w)
          \/ client
          \/ \E t \in Threads : Spurious(t)
    \/ Quiet

Spec == Init /\ [][Next]_vars

\* The OS runs every thread; a Ruby thread inside an MJIT operation goes on; a
\* worker that waits for the end of collections gets the mutex between two of
\* them at some time.
FairSpec ==
    /\ Spec
    /\ WF_vars(fault = "none" /\ \E ok \in BOOLEAN : make_pch(ok))
    /\ \A w \in Workers :
          /\ WF_vars(fault = "none" /\ worker(w))
          /\ SF_vars(fault = "none" /\ ~in_gc /\ WorkerEnterTranslation(w))
    /\ WF_vars(fault = "none" /\ cpc # "run" /\ client)

-----------------------------------------------------------------------------
\* Properties.

Places == <<unit_queue, active_units, obsolete_units, free_unit_list, heap>>
Translating == {w \in Workers : wpc[w] \in {"translate", "translated"}}
Held(w) == wpc[w] \in {"gc", "translate", "translated", "args", "status",
                       "check", "load", "publish"}
Running == cpc # "done"

UnitType ==
    [status : Statuses, ui : Iseqs \cup {None}, spec_state : SUBSET Flags,
     handle : Iseqs \cup {None, Main}, freed_p : BOOLEAN,
     high_priority_p : BOOLEAN, ofname : BOOLEAN, obj : Iseqs \cup {None}]
UiType ==
    [made : BOOLEAN, iseq : BOOLEAN, unit : Units \cup {None},
     jit_mutations_num : 0 .. MaxMutations]
WorkerPcs == {"pch", "pch_failed", "switched_off", "top", "exit", "done",
              "idle", "gc", "translate", "translated", "args", "status",
              "check", "load", "publish", "loaded", "gone"}
ClientPcs == {"run", "add", "create", "enqueue", "redo", "get", "get_wait", "recalc",
              "cancel", "gc_start", "gc", "fin_pch", "fin_flag", "fin_loop",
              "done", "bounded"}

TypeSync ==
    /\ mutex \in Threads \cup {None}
    /\ wait \in [Threads -> {"no", "pch", "client", "worker", "gc"}]
    /\ pch_status \in {"NOT_READY", "FAILED", "SUCCESS"}
    /\ mjit_init_p \in BOOLEAN /\ finish_workers_p \in BOOLEAN
    /\ in_gc \in BOOLEAN /\ spec \subseteq Flags
TypeCounters == finished_workers \in Nat /\ units_in_translation \in Int
TypeLists ==
    /\ unit_queue \subseteq Units /\ active_units \subseteq Units
    /\ obsolete_units \subseteq Units
    /\ free_unit_list \subseteq Units /\ heap \subseteq Units
    /\ curr_unit \in Units \cup {None}
TypeUnits == unit \in [Units -> UnitType]
TypeIseqs ==
    /\ ui \in [Iseqs -> UiType] /\ jit_code \in [Iseqs -> NotCode \cup Units]
    /\ calls \in [Iseqs -> 0 .. NumCallsToAdd] /\ alive \in [Iseqs -> BOOLEAN]
TypeWorkers ==
    /\ wpc \in [Workers -> WorkerPcs] /\ wunit \in [Workers -> Units \cup {None}]
    /\ wexit \in [Workers -> BOOLEAN]
    /\ whandle \in [Workers -> Iseqs \cup {None, Main}]
    /\ \A w \in Workers : Held(w) => wunit[w] \in Units
TypeClient ==
    /\ cpc \in ClientPcs /\ ciseq \in Iseqs \cup {None}
    /\ cunit \in Units \cup {None} /\ cret \in {"run", "create"}
    /\ cpc \in {"add", "create", "enqueue", "redo", "get", "get_wait"} => ciseq \in Iseqs
    /\ cpc \in {"gc_start", "gc"} /\ cret = "create" => ciseq \in Iseqs
    /\ cpc = "enqueue" => curr_unit \in Units
    /\ cpc = "get_wait" => cunit \in Units

\* Type correctness.  jit_mutations_num stays an index of mutation_insns, an
\* array of max_mutations + 1 elements (create_unit_iseq); u of a worker and
\* iseq of the client are not NULL where the code uses them.
TypeOK ==
    /\ TypeSync /\ TypeCounters /\ TypeLists /\ TypeUnits
    /\ TypeIseqs /\ TypeWorkers /\ TypeClient

\* mjit_gc_start: while a collection runs no worker reads iseqs to translate
\* them.
GcExcludesTranslation == in_gc => Translating = {}

\* The same as a specification: the engine implements GcExclusion.
Gc == INSTANCE GcExclusion WITH gc <- in_gc, translating <- Translating
ImplementsGcExclusion == Gc!Spec

\* A unit structure is in one place at a time: a list, the heap, the unit being
\* formed, or the hands of one worker (add_to_list: "It should be not in the
\* list before").
OnePlace ==
    /\ \A m, n \in 1 .. 5 : m # n => Places[m] \cap Places[n] = {}
    /\ \A w \in Workers : Held(w) =>
          /\ \A n \in 1 .. 5 : wunit[w] \notin Places[n]
          /\ \A v \in Workers : v # w /\ Held(v) => wunit[v] # wunit[w]
    /\ \A n \in 1 .. 5 : curr_unit \notin Places[n]

\* jit_code that mjit_execute_iseq_0 may call is the code of that iseq, in an
\* open handle, of a loaded unit in active_units that belongs to the iseq.
PublishedCodeIsLoaded ==
    Running => \A i \in Iseqs : alive[i] /\ IsCode(i) =>
        LET u == jit_code[i] IN
        /\ u \in active_units /\ unit[u].status = "LOADED"
        /\ unit[u].handle = i /\ unit[u].ui = i /\ ui[i].unit = u

\* "All units with status UNIT_LOADED are in this list.  They have also
\* non-null handles"; "All units in this list have status UNIT_FAILED.  They
\* have also non-null handles".
ListsMatchStatus ==
    Running => \A u \in Units :
        /\ u \in unit_queue => unit[u].status = "IN_QUEUE"
        /\ u \in active_units => unit[u].status = "LOADED" /\ unit[u].handle # None
        /\ u \in obsolete_units => unit[u].status = "FAILED" /\ unit[u].handle # None

\* A unit and its iseq point at each other, unless the iseq is collected or
\* the unit obsolete or free.
UnitsMatchIseqs ==
    Running => \A i \in Iseqs : ui[i].unit # None =>
        /\ unit[ui[i].unit].ui = i
        /\ ui[i].unit \notin free_unit_list \cup heap

\* No assertion fails and no NULL is dereferenced.
NoFault == fault = "none"

\* README.md: "When a global speculation becomes wrong, all currently executed
\* JIT functions are canceled": code that relies on a broken speculation is
\* active only until the client gets to mjit_cancel_all.
ActiveCodeIsValid ==
    \A u \in active_units :
        valid_global_spec_state_p(unit[u].spec_state) \/ cpc = "cancel"

\* mjit.h: max_cache_size is the "Maximal permitted number of iseq JIT codes in
\* a MJIT memory cache".
CacheBounded == Cardinality(active_units) + Cardinality(obsolete_units) <= MaxCache

\* mjit.h: NOT_READY_JIT_ISEQ_FUN says "ISEQ is already queued for the machine
\* code generation but the code is not ready yet".  A failed unit is discarded and
\* leaves the iseq without one; the unit of any other iseq that waits for code is
\* in the queue or in the hands of a worker, and not one that is spent.
NotReadyIsQueued ==
    Running /\ mjit_init_p => \A i \in Iseqs :
        jit_code[i] = NotReady /\ alive[i] /\ i # ciseq /\ ui[i].unit # None
            => ui[i].unit \in unit_queue \cup {wunit[w] : w \in {v \in Workers : Held(v)}}

\* mjit_finish: "So wait for a clean finish of the threads" before the mutex
\* they use is destroyed.
CleanFinish == cpc = "done" /\ finish_workers_p => mutex = None

\* mjit_finish frees units and closes their code only after every worker has
\* left its loop: no worker touches a unit that is freed with the program.
FinishAfterWorkers ==
    cpc = "done" /\ finish_workers_p => \A w \in Workers : wpc[w] \in {"exit", "done"}

\* child_after_fork: "switch off MJIT engine in the child as it does not inherit
\* MJIT threads": the child never waits for a mutex only a worker can unlock.
ChildNotBlocked == cpc = "redo" /\ mutex # None => wpc[mutex] # "gone"

\* start_unit: "creates a C file for iseqs in the unit U and starts a C compiler
\* to generate an object file of the C file".
OwnObjectFile ==
    \A w \in Workers : wpc[w] = "status" /\ wexit[w]
        => unit[wunit[w]].obj = unit[wunit[w]].ui

\* The diagram of unit_status (mjit.c:149-160) "shows the possible status
\* transitions"; a free structure may be formed again.
Diagram ==
    {<<"NOT_FORMED", "IN_QUEUE">>, <<"IN_QUEUE", "IN_GENERATION">>,
     <<"IN_GENERATION", "FAILED">>, <<"IN_GENERATION", "SUCCESS">>,
     <<"SUCCESS", "FAILED">>, <<"SUCCESS", "LOADED">>,
     <<"SUCCESS", "IN_QUEUE">>, <<"LOADED", "IN_QUEUE">>}
StatusDiagram ==
    [][\A u \in Units : LET s == unit[u].status
                            t == unit'[u].status
                        IN  s = t \/ t = "NOT_FORMED" \/ <<s, t>> \in Diagram]_unit

\* mjit_gc_start: a collection that waits for the workers starts, because the
\* queue the workers take units from grows by the client only.
GcStarts == cpc = "gc_start" ~> cpc = "gc"

\* mjit_finish: the program ends, no worker misses the wakeup.
FinishEnds == cpc = "fin_pch" ~> cpc = "done"

\* mjit_get_iseq_fun: "Return the code address, NULL in a failure case": the
\* call of an iseq compiled ahead of time returns.
AotCallReturns == cpc = "get_wait" ~> cpc # "get_wait"

\* worker: a unit in the queue is taken, no wakeup of the workers is lost.
QueueDrains == \A u \in Units : u \in unit_queue ~> u \notin unit_queue

=============================================================================
