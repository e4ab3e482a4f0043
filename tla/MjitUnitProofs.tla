--------------------------- MODULE MjitUnitProofs ---------------------------
(***************************************************************************)
(* The variables of the MJIT engine keep their types, in any environment.  *)
(* Then its unit structures, for any number of workers, iseqs and units    *)
(* and any cache size: each is in one place at a time, the lists hold      *)
(* units of the right status, units and iseqs point at each other and      *)
(* published code is loaded code. The theorems are in MjitFaultProofs.     *)
(*                                                                         *)
(* Every step of the engine is first shown to be one of a few moves of     *)
(* units between seven sets: the three lists, the free list, the heap, the *)
(* hands of the workers and the unit being formed. The invariant is then   *)
(* shown to hold after every move.                                         *)
(***************************************************************************)
EXTENDS MjitEngine, TLAPS

USE ZenonT(60)

-----------------------------------------------------------------------------
\* Type correctness.

LEMMA NewUnitType ==
    ASSUME NEW i \in Iseqs \cup {None}
    PROVE  NewUnit(i) \in UnitType
BY DEF NewUnit, UnitType, Statuses, Flags

LEMMA FreedType ==
    ASSUME NEW r \in UnitType
    PROVE  Freed(r) \in UnitType
<1>1. CASE r.status = "SUCCESS"
    BY <1>1 DEF Freed, UnitType
<1>2. CASE r.status # "SUCCESS"
    BY <1>2 DEF Freed, UnitType
<1> QED
    BY <1>1, <1>2

LEMMA FieldTypes ==
    ASSUME NEW r \in UnitType
    PROVE  /\ \A s \in Statuses : [r EXCEPT !.status = s] \in UnitType
           /\ \A s \in SUBSET Flags : [r EXCEPT !.spec_state = s] \in UnitType
           /\ \A h \in Iseqs \cup {None, Main} : [r EXCEPT !.handle = h] \in UnitType
           /\ \A b \in BOOLEAN : /\ [r EXCEPT !.freed_p = b] \in UnitType
                                 /\ [r EXCEPT !.high_priority_p = b] \in UnitType
                                 /\ [r EXCEPT !.ofname = b] \in UnitType
           /\ \A o \in Iseqs \cup {None} : [r EXCEPT !.obj = o] \in UnitType
<1>1. ASSUME NEW s \in Statuses PROVE [r EXCEPT !.status = s] \in UnitType
    BY DEF UnitType
<1>2. ASSUME NEW s \in SUBSET Flags PROVE [r EXCEPT !.spec_state = s] \in UnitType
    BY DEF UnitType
<1>3. ASSUME NEW h \in Iseqs \cup {None, Main}
      PROVE  [r EXCEPT !.handle = h] \in UnitType
    BY DEF UnitType
<1>4. ASSUME NEW b \in BOOLEAN
      PROVE  /\ [r EXCEPT !.freed_p = b] \in UnitType
             /\ [r EXCEPT !.high_priority_p = b] \in UnitType
             /\ [r EXCEPT !.ofname = b] \in UnitType
    BY DEF UnitType
<1>5. ASSUME NEW o \in Iseqs \cup {None} PROVE [r EXCEPT !.obj = o] \in UnitType
    BY DEF UnitType
<1> QED
    BY <1>1, <1>2, <1>3, <1>4, <1>5

LEMMA StatusNames ==
    {"NOT_FORMED", "IN_QUEUE", "IN_GENERATION", "FAILED", "SUCCESS", "LOADED"}
        \subseteq Statuses
BY DEF Statuses

LEMMA InitType == Init => TypeOK
<1> SUFFICES ASSUME Init PROVE TypeOK
    OBVIOUS
<1>1. TypeSync
    BY DEF Init, TypeSync, Threads, Flags
<1>2. TypeCounters
    BY SMTT(30) DEF Init, TypeCounters
<1>3. TypeLists
    BY DEF Init, TypeLists
<1>4. TypeUnits
    BY NewUnitType DEF Init, TypeUnits
<1>5. TypeIseqs
    BY BoundsAssumption, SMTT(30) DEF Init, TypeIseqs, UiType, NotCode
<1>6. TypeWorkers
    BY DEF Init, TypeWorkers, WorkerPcs, Held
<1>7. TypeClient
    BY DEF Init, TypeClient, ClientPcs
<1> QED
    BY <1>1, <1>2, <1>3, <1>4, <1>5, <1>6, <1>7 DEF TypeOK

LEMMA WorkerUnits ==
    ASSUME TypeOK, NEW w \in Workers, worker(w)
    PROVE  TypeUnits'
<1> USE DEF TypeOK, TypeUnits
<1> DEFINE T == [Units -> UnitType]
           u == wunit[w]
<1>1. CASE WorkerTop(w)
    <2>1. ASSUME NEW v \in Units
          PROVE  [unit EXCEPT ![v] = [@ EXCEPT !.status = "IN_GENERATION",
                                               !.high_priority_p = FALSE]] \in T
        BY FieldTypes, StatusNames
    <2>2. Best \subseteq Units
        BY DEF Best, TypeLists
    <2> QED
        BY <1>1, <2>1, <2>2 DEF WorkerTop
<1>2. CASE WorkerEnterTranslation(w)
    <2>1. [unit EXCEPT ![u].ofname = TRUE] \in T
        BY FieldTypes
    <2> QED
        BY <1>2, <2>1 DEF WorkerEnterTranslation
<1>3. CASE WorkerTranslate(w)
    <2>1. [unit EXCEPT ![u].spec_state = spec] \in T
        BY FieldTypes DEF TypeSync
    <2> QED
        BY <1>3, <2>1 DEF WorkerTranslate
<1>4. CASE WorkerSpawn(w)
    <2>1. ArgUnits \subseteq Units
        BY DEF ArgUnits, TypeWorkers, Held
    <2>2. ASSUME NEW in \in ArgUnits, NEW out \in ArgUnits, NEW ok \in BOOLEAN
          PROVE  [unit EXCEPT ![out].obj = IF ok THEN unit[in].ui ELSE None] \in T
        BY <2>1, SMTT(30) DEF UnitType
    <2>3. [unit EXCEPT ![u] = [@ EXCEPT !.status = "FAILED", !.ofname = FALSE,
                                        !.obj = None]] \in T
        BY FieldTypes, StatusNames
    <2> QED
        BY <1>4, <2>2, <2>3, SMTT(30) DEF WorkerSpawn
<1>5. CASE WorkerStatus(w)
    <2>1. ASSUME NEW s \in Statuses
          PROVE  [unit EXCEPT ![u].status = s] \in T
        BY FieldTypes
    <2>2. (IF wexit[w] THEN "SUCCESS" ELSE "FAILED") \in Statuses
        BY DEF Statuses
    <2> QED
        BY <1>5, <2>1, <2>2 DEF WorkerStatus
<1>6. CASE WorkerCheck(w)
    <2>1. u \in Units
        BY <1>6 DEF WorkerCheck, TypeWorkers, Held
    <2>2. [unit EXCEPT ![u] = Freed(@)] \in T
        BY <2>1, FreedType
    <2>3. [unit EXCEPT ![u].status = "IN_QUEUE"] \in T
        BY FieldTypes, StatusNames
    <2> QED
        BY <1>6, <2>2, <2>3 DEF WorkerCheck, discard_unit
<1>7. CASE WorkerDlopen(w)
    <2>1. [unit EXCEPT ![u] = Unlinked(@)] \in T
        BY FieldTypes DEF Unlinked
    <2> QED
        BY <1>7, <2>1 DEF WorkerDlopen
<1>8. CASE WorkerPublish(w)
    <2>1. u \in Units /\ whandle[w] \in Iseqs \cup {None, Main}
        BY <1>8 DEF WorkerPublish, TypeWorkers, Held
    <2>2. [unit EXCEPT ![u] = Freed(@)] \in T
        BY <2>1, FreedType
    <2>3. [unit EXCEPT ![u].ofname = FALSE] \in T
        BY FieldTypes
    <2>4. ASSUME NEW s \in Statuses, NEW h \in Iseqs \cup {None, Main}
          PROVE  [unit EXCEPT ![u] = [@ EXCEPT !.status = s, !.handle = h,
                                               !.ofname = FALSE]] \in T
        BY FieldTypes
    <2>5. ASSUME NEW s \in {"FAILED", "LOADED"}
          PROVE  [unit EXCEPT ![u] = [@ EXCEPT !.status = s, !.handle = whandle[w],
                                               !.ofname = FALSE]] \in T
        BY <2>1, <2>4 DEF Statuses
    <2> QED
        BY <1>8, <2>2, <2>3, <2>5 DEF WorkerPublish, discard_unit
<1> QED
    BY <1>1, <1>2, <1>3, <1>4, <1>5, <1>6, <1>7, <1>8
    DEF worker, WorkerPch, WorkerSwitchOff, WorkerLeave, WorkerExit, WorkerIdle,
        WorkerLeaveTranslation, WorkerLoaded, WorkerAbort, Abort

LEMMA WorkerSync ==
    ASSUME TypeOK, NEW w \in Workers, worker(w)
    PROVE  TypeSync'
BY DEF TypeOK, TypeSync, worker, WorkerPch, WorkerSwitchOff, WorkerLeave,
       WorkerTop, WorkerExit, WorkerIdle, WorkerEnterTranslation, WorkerTranslate,
       WorkerLeaveTranslation, WorkerSpawn, WorkerStatus, WorkerCheck, WorkerDlopen,
       WorkerPublish, WorkerLoaded, WorkerAbort, BackToTop, Abort, CondWait, Wakeup,
       sync, state, gcv, Threads

LEMMA WorkerCounters ==
    ASSUME TypeOK, NEW w \in Workers, worker(w)
    PROVE  TypeCounters'
<1> USE DEF TypeOK, TypeCounters
<1>1. CASE WorkerLeave(w)
    BY <1>1, SMTT(30) DEF WorkerLeave, gcv
<1>2. CASE WorkerTop(w)
    <2>1. /\ finished_workers' \in {finished_workers, finished_workers + 1}
          /\ UNCHANGED units_in_translation
        BY <1>2 DEF WorkerTop, gcv
    <2> QED
        BY <2>1, SMTT(30)
<1>3. CASE WorkerEnterTranslation(w)
    <2>1. /\ units_in_translation' \in {units_in_translation, units_in_translation + 1}
          /\ UNCHANGED finished_workers
        BY <1>3 DEF WorkerEnterTranslation, state
    <2> QED
        BY <2>1, SMTT(30)
<1>4. CASE WorkerLeaveTranslation(w)
    BY <1>4, SMTT(30) DEF WorkerLeaveTranslation, state
<1> QED
    BY <1>1, <1>2, <1>3, <1>4
    DEF worker, WorkerPch, WorkerSwitchOff, WorkerExit, WorkerIdle,
        WorkerTranslate, WorkerSpawn, WorkerStatus, WorkerCheck, WorkerDlopen,
        WorkerPublish, WorkerLoaded, WorkerAbort, Abort, state, gcv

LEMMA WorkerLists ==
    ASSUME TypeOK, NEW w \in Workers, worker(w)
    PROVE  TypeLists'
<1> USE DEF TypeOK, TypeLists
<1>1. wpc[w] \in {"check", "publish"} => wunit[w] \in Units
    BY DEF TypeWorkers, Held
<1>2. CASE WorkerCheck(w)
    BY <1>1, <1>2 DEF WorkerCheck, discard_unit, Push
<1>3. CASE WorkerPublish(w)
    BY <1>1, <1>3 DEF WorkerPublish, discard_unit, Push
<1> QED
    BY <1>2, <1>3
    DEF worker, WorkerPch, WorkerSwitchOff, WorkerLeave, WorkerTop, WorkerExit,
        WorkerIdle, WorkerEnterTranslation, WorkerTranslate,
        WorkerLeaveTranslation, WorkerSpawn, WorkerStatus, WorkerDlopen,
        WorkerLoaded, WorkerAbort, Abort, lists, mem

LEMMA WorkerIseqs ==
    ASSUME TypeOK, NEW w \in Workers, worker(w)
    PROVE  TypeIseqs'
<1> USE DEF TypeOK, TypeIseqs
<1>1. ASSUME NEW i PROVE [ui EXCEPT ![i].unit = None] \in [Iseqs -> UiType]
    BY DEF UiType
<1>2. CASE WorkerCheck(w)
    BY <1>1, <1>2, SMTT(30) DEF WorkerCheck, discard_unit
<1>3. CASE WorkerPublish(w)
    <2>1. wunit[w] \in Units
        BY <1>3 DEF WorkerPublish, TypeWorkers, Held
    <2> DEFINE i == unit[wunit[w]].ui
               C == [Iseqs -> NotCode \cup Units]
    <2>2. [jit_code EXCEPT ![i] = "NOT_ADDED"] \in C
        BY DEF NotCode
    <2>3. [jit_code EXCEPT ![i] = wunit[w]] \in C
        BY <2>1
    <2>4. [ui EXCEPT ![i].unit = None] \in [Iseqs -> UiType]
        BY <1>1
    <2>5. jit_code' \in C /\ ui' \in [Iseqs -> UiType]
        BY <1>3, <2>2, <2>3, <2>4 DEF WorkerPublish, discard_unit
    <2> QED
        BY <1>3, <2>5 DEF WorkerPublish
<1> QED
    BY <1>2, <1>3
    DEF worker, WorkerPch, WorkerSwitchOff, WorkerLeave, WorkerTop, WorkerExit,
        WorkerIdle, WorkerEnterTranslation, WorkerTranslate,
        WorkerLeaveTranslation, WorkerSpawn, WorkerStatus, WorkerDlopen,
        WorkerLoaded, WorkerAbort, Abort, iseqs

LEMMA WorkerWorkers ==
    ASSUME TypeOK, NEW w \in Workers, worker(w)
    PROVE  TypeWorkers'
<1> USE DEF TypeOK, TypeWorkers, WorkerPcs, Held, Goto
<1>1. CASE \/ WorkerPch(w) \/ WorkerSwitchOff(w) \/ WorkerLeave(w)
           \/ WorkerExit(w) \/ WorkerIdle(w)
    BY <1>1 DEF WorkerPch, WorkerSwitchOff, WorkerLeave, WorkerExit, WorkerIdle
<1>2. CASE WorkerTop(w)
    <2>1. Best \subseteq Units
        BY DEF Best, TypeLists
    <2>2. UNCHANGED <<wexit, whandle>>
        BY <1>2 DEF WorkerTop
    <2>3. ASSUME NEW u \in Units, Goto(w, "gc"), wunit' = [wunit EXCEPT ![w] = u]
          PROVE  TypeWorkers'
        BY <2>2, <2>3
    <2>4. CASE UNCHANGED wunit /\ (Goto(w, "exit") \/ Goto(w, "idle"))
        BY <2>2, <2>4
    <2> QED
        BY <1>2, <2>1, <2>3, <2>4 DEF WorkerTop
<1>3. CASE WorkerEnterTranslation(w) \/ WorkerLeaveTranslation(w) \/ WorkerStatus(w)
    BY <1>3 DEF WorkerEnterTranslation, WorkerLeaveTranslation, WorkerStatus
<1>4. CASE WorkerTranslate(w) \/ WorkerSpawn(w)
    <2>1. /\ wpc' \in {[wpc EXCEPT ![w] = "translated"], [wpc EXCEPT ![w] = "status"]}
          /\ \E b \in BOOLEAN : wexit' = [wexit EXCEPT ![w] = b]
          /\ UNCHANGED <<wunit, whandle>> /\ wunit[w] \in Units
        BY <1>4 DEF WorkerTranslate, WorkerSpawn
    <2> QED
        BY <2>1
<1>5. CASE WorkerCheck(w) \/ WorkerLoaded(w)
    BY <1>5 DEF WorkerCheck, WorkerLoaded, BackToTop
<1>6. CASE WorkerDlopen(w)
    <2>1. wunit[w] \in Units
        BY <1>6 DEF WorkerDlopen
    <2>2. unit[wunit[w]].obj \in Iseqs \cup {None}
        BY <2>1 DEF TypeUnits, UnitType
    <2>3. PICK h \in Iseqs \cup {None, Main} : whandle' = [whandle EXCEPT ![w] = h]
        BY <1>6, <2>2 DEF WorkerDlopen
    <2> QED
        BY <1>6, <2>3 DEF WorkerDlopen
<1>7. CASE WorkerPublish(w)
    BY <1>7 DEF WorkerPublish
<1>8. CASE WorkerAbort(w)
    BY <1>8 DEF WorkerAbort, Abort, wv
<1> QED
    BY <1>1, <1>2, <1>3, <1>4, <1>5, <1>6, <1>7, <1>8 DEF worker

LEMMA WorkerClient ==
    ASSUME TypeOK, NEW w \in Workers, worker(w)
    PROVE  TypeClient'
BY DEF TypeOK, TypeClient, worker, WorkerPch, WorkerSwitchOff, WorkerLeave,
       WorkerTop, WorkerExit, WorkerIdle, WorkerEnterTranslation, WorkerTranslate,
       WorkerLeaveTranslation, WorkerSpawn, WorkerStatus, WorkerCheck, WorkerDlopen,
       WorkerPublish, WorkerLoaded, WorkerAbort, Abort, cv, mem

LEMMA WorkerType ==
    ASSUME TypeOK, NEW w \in Workers, worker(w)
    PROVE  TypeOK'
BY WorkerUnits, WorkerSync, WorkerCounters, WorkerLists, WorkerIseqs,
   WorkerWorkers, WorkerClient DEF TypeOK

LEMMA ClientSync ==
    ASSUME TypeOK, client
    PROVE  TypeSync'
<1> USE DEF TypeOK, TypeSync, Threads, Flags, CondWait, Wakeup, sync, state, gcv
<1>1. CASE \E i \in Iseqs : \/ ClientCall(i) \/ mjit_aot_process(i)
                           \/ ClientSpecFail(i) \/ ClientAotCall(i)
                           \/ mjit_free_iseq(i)
    BY <1>1 DEF ClientCall, mjit_aot_process, ClientSpecFail, ClientAotCall,
                mjit_free_iseq
<1>2. CASE AddStart \/ create_iseq_unit \/ mjit_add_iseq_to_process
    BY <1>2 DEF AddStart, create_iseq_unit, mjit_add_iseq_to_process
<1>3. CASE \E b \in BOOLEAN : mjit_redo_iseq(b) \/ TraceSet(b)
    BY <1>3 DEF mjit_redo_iseq, TraceSet
<1>4. CASE increase_unit_priority \/ mjit_get_iseq_fun
    BY <1>4 DEF increase_unit_priority, mjit_get_iseq_fun
<1>5. CASE BopRedefined \/ TraceRecalc \/ mjit_cancel_all
    BY <1>5 DEF BopRedefined, TraceRecalc, mjit_cancel_all
<1>6. CASE GcEnter \/ mjit_gc_start \/ mjit_gc_finish
    BY <1>6 DEF GcEnter, mjit_gc_start, mjit_gc_finish
<1>7. CASE FinishStart \/ FinishPch \/ FinishFlag \/ FinishWake \/ mjit_finish
    BY <1>7 DEF FinishStart, FinishPch, FinishFlag, FinishWake, mjit_finish
<1>8. CASE child_after_fork \/ ClientAbort \/ MemoryBound
    BY <1>8 DEF child_after_fork, ClientAbort, Abort, MemoryBound
<1> QED
    BY <1>1, <1>2, <1>3, <1>4, <1>5, <1>6, <1>7, <1>8 DEF client

LEMMA ClientCounters ==
    ASSUME TypeOK, client
    PROVE  TypeCounters'
<1>1. UNCHANGED <<finished_workers, units_in_translation>>
    BY DEF client, ClientCall, mjit_aot_process, ClientSpecFail, ClientAotCall,
        mjit_free_iseq, AddStart, create_iseq_unit, mjit_add_iseq_to_process,
        mjit_redo_iseq, TraceSet, increase_unit_priority, mjit_get_iseq_fun,
        BopRedefined, TraceRecalc, mjit_cancel_all, GcEnter, mjit_gc_start,
        mjit_gc_finish, FinishStart, FinishPch, FinishFlag, FinishWake,
        mjit_finish, child_after_fork, ClientAbort, Abort, MemoryBound,
        state, gcv
<1> QED
    BY <1>1 DEF TypeOK, TypeCounters

LEMMA ClientWorkers ==
    ASSUME TypeOK, client
    PROVE  TypeWorkers'
<1> USE DEF TypeOK, TypeWorkers, Held
<1>1. CASE child_after_fork
    BY <1>1 DEF child_after_fork, WorkerPcs
<1>2. CASE UNCHANGED wv
    BY <1>2 DEF wv
<1> QED
    BY <1>1, <1>2
    DEF client, ClientCall, mjit_aot_process, ClientSpecFail, ClientAotCall,
        mjit_free_iseq, AddStart, create_iseq_unit, mjit_add_iseq_to_process,
        mjit_redo_iseq, TraceSet, increase_unit_priority, mjit_get_iseq_fun,
        BopRedefined, TraceRecalc, mjit_cancel_all, GcEnter, mjit_gc_start,
        mjit_gc_finish, FinishStart, FinishPch, FinishFlag, FinishWake,
        mjit_finish, ClientAbort, Abort, MemoryBound

LEMMA ClientClient ==
    ASSUME TypeOK, client
    PROVE  TypeClient'
<1> USE DEF TypeOK, TypeClient, ClientPcs
<1>1. CASE \E i \in Iseqs : ClientCall(i) \/ mjit_aot_process(i)
    BY <1>1 DEF ClientCall, mjit_aot_process, mem
<1>2. CASE \E i \in Iseqs : ClientSpecFail(i) \/ ClientAotCall(i)
    BY <1>2 DEF ClientSpecFail, ClientAotCall, mem
<1>3. CASE AddStart \/ \E i \in Iseqs : mjit_free_iseq(i)
    BY <1>3 DEF AddStart, mjit_free_iseq, mem, cv
<1>4. CASE create_iseq_unit
    <2>1. Available \subseteq Units
        BY DEF Available, TypeLists
    <2> QED
        BY <1>4, <2>1 DEF create_iseq_unit
<1>5. CASE mjit_add_iseq_to_process
    BY <1>5 DEF mjit_add_iseq_to_process
<1>6. CASE \E b \in BOOLEAN : mjit_redo_iseq(b)
    BY <1>6 DEF mjit_redo_iseq, mem
<1>7. CASE \E b \in BOOLEAN : TraceSet(b)
    BY <1>7 DEF TraceSet, mem
<1>8. CASE increase_unit_priority
    <2>1. ui[ciseq].unit \in Units
        BY <1>8 DEF increase_unit_priority, TypeIseqs, UiType
    <2> QED
        BY <1>8, <2>1 DEF increase_unit_priority, mem
<1>9. CASE mjit_get_iseq_fun
    BY <1>9 DEF mjit_get_iseq_fun, mem
<1>10. CASE BopRedefined \/ TraceRecalc
    BY <1>10 DEF BopRedefined, TraceRecalc, mem
<1>11. CASE mjit_cancel_all
    BY <1>11 DEF mjit_cancel_all, mem
<1>12. CASE GcEnter \/ mjit_gc_start \/ mjit_gc_finish
    BY <1>12 DEF GcEnter, mjit_gc_start, mjit_gc_finish, mem
<1>13. CASE FinishStart \/ FinishPch \/ FinishFlag \/ FinishWake
    BY <1>13 DEF FinishStart, FinishPch, FinishFlag, FinishWake, mem, cv
<1>14. CASE mjit_finish
    BY <1>14 DEF mjit_finish
<1>15. CASE child_after_fork \/ ClientAbort \/ MemoryBound
    BY <1>15 DEF child_after_fork, ClientAbort, Abort, MemoryBound, mem, cv
<1> QED
    BY <1>1, <1>2, <1>3, <1>4, <1>5, <1>6, <1>7, <1>8, <1>9, <1>10, <1>11,
       <1>12, <1>13, <1>14, <1>15 DEF client

LEMMA ClientLists ==
    ASSUME TypeOK, client
    PROVE  TypeLists'
<1> USE DEF TypeOK, TypeLists, lists, mem
<1>1. CASE \E i \in Iseqs : mjit_free_iseq(i)
    <2>1. \A i \in Iseqs : ui[i].unit \in Units \cup {None}
        BY DEF TypeIseqs, UiType
    <2>2. \/ UNCHANGED <<lists, mem>>
          \/ \E u \in Units :
                /\ unit_queue' \in {unit_queue, unit_queue \ {u}}
                /\ active_units' \in {active_units, active_units \ {u}}
                /\ UNCHANGED <<obsolete_units, curr_unit, heap>>
                /\ free_unit_list' = free_unit_list \cup {u}
        BY <1>1, <2>1 DEF mjit_free_iseq
    <2> QED
        BY <2>2
<1>2. CASE create_iseq_unit
    BY <1>2 DEF create_iseq_unit, Available, Pop
<1>3. CASE mjit_add_iseq_to_process
    <2>1. ASSUME NEW used, NEW evicted \in Evictable(used)
          PROVE  evicted \subseteq active_units
        BY DEF Evictable, Unused
    <2>2. curr_unit \in Units
        BY <1>3 DEF mjit_add_iseq_to_process, TypeClient
    <2>3. ASSUME NEW used, NEW evicted \in Evictable(used), Unload(used, evicted)
          PROVE  /\ unit_queue' \subseteq Units /\ active_units' \subseteq Units
                 /\ obsolete_units' \subseteq Units
                 /\ free_unit_list' \subseteq Units
        BY <2>1, <2>2, <2>3 DEF Unload, Unused
    <2> QED
        BY <1>3, <2>2, <2>3 DEF mjit_add_iseq_to_process
<1>4. CASE \E b \in BOOLEAN : mjit_redo_iseq(b)
    <2>1. cpc = "redo" => ui[ciseq].unit \in Units \cup {None}
        BY DEF TypeClient, TypeIseqs, UiType
    <2> QED
        BY <1>4, <2>1 DEF mjit_redo_iseq, Obsolete
<1>5. CASE mjit_cancel_all
    <2>1. ASSUME NEW new \in Replacements(Broken)
          PROVE  Range(new) \subseteq Units
        BY DEF Replacements, Injection, Range
    <2>2. Broken \subseteq Units
        BY DEF Broken
    <2> QED
        BY <1>5, <2>1, <2>2 DEF mjit_cancel_all
<1>6. CASE mjit_finish
    BY <1>6 DEF mjit_finish
<1>7. CASE UNCHANGED <<lists, mem>>
    BY <1>7
<1> QED
    BY <1>1, <1>2, <1>3, <1>4, <1>5, <1>6, <1>7
    DEF client, ClientCall, mjit_aot_process, ClientSpecFail, ClientAotCall,
        AddStart, TraceSet, increase_unit_priority, mjit_get_iseq_fun,
        BopRedefined, TraceRecalc, GcEnter, mjit_gc_start,
        mjit_gc_finish, FinishStart, FinishPch, FinishFlag, FinishWake,
        child_after_fork, ClientAbort, Abort, MemoryBound

LEMMA ClientUnits ==
    ASSUME TypeOK, client
    PROVE  TypeUnits'
<1> USE DEF TypeOK, TypeUnits
<1> DEFINE T == [Units -> UnitType]
<1>1. CASE \E i \in Iseqs : mjit_free_iseq(i)
    <2>1. ASSUME NEW u \in Units \cup {None}
          PROVE  [unit EXCEPT ![u] = Freed(@)] \in T
        BY FreedType
    <2>2. ASSUME NEW u PROVE [unit EXCEPT ![u].freed_p = TRUE] \in T
        BY FieldTypes
    <2>3. \A i \in Iseqs : ui[i].unit \in Units \cup {None}
        BY DEF TypeIseqs, UiType
    <2>4. \E u \in Units \cup {None} :
              unit' \in {unit, [unit EXCEPT ![u] = Freed(@)],
                         [unit EXCEPT ![u].freed_p = TRUE]}
        BY <1>1, <2>3 DEF mjit_free_iseq
    <2> QED
        BY <2>1, <2>2, <2>4, SMTT(30)
<1>2. CASE create_iseq_unit
    <2>1. cpc = "create" => [unit EXCEPT ![curr_unit'] = NewUnit(ciseq)] \in T
        BY NewUnitType DEF TypeClient
    <2> QED
        BY <1>2, <2>1 DEF create_iseq_unit
<1>3. CASE mjit_add_iseq_to_process
    <2>1. ASSUME NEW u, NEW s \in Statuses PROVE [unit EXCEPT ![u].status = s] \in T
        BY FieldTypes
    <2>2. [unit EXCEPT ![curr_unit].status = "IN_QUEUE"] \in T
        BY <2>1 DEF Statuses
    <2>3. ASSUME NEW used, NEW evicted, Unload(used, evicted)
          PROVE  unit' \in T
        <3>1. ASSUME NEW u \in Units
              PROVE  /\ [unit[u] EXCEPT !.status = "IN_QUEUE"] \in UnitType
                     /\ [unit[u] EXCEPT !.status = "IN_QUEUE", !.handle = None]
                            \in UnitType
            BY FieldTypes, StatusNames
        <3>2. \A u \in Units : Freed(unit[u]) \in UnitType
            BY FreedType
        <3> QED
            BY <2>3, <3>1, <3>2 DEF Unload
    <2> QED
        BY <1>3, <2>2, <2>3 DEF mjit_add_iseq_to_process
<1>4. CASE \E b \in BOOLEAN : mjit_redo_iseq(b)
    <2>1. ASSUME NEW u PROVE [unit EXCEPT ![u].status = "FAILED"] \in T
        BY FieldTypes, StatusNames
    <2> QED
        BY <1>4, <2>1 DEF mjit_redo_iseq, Obsolete
<1>5. CASE increase_unit_priority
    <2>1. ASSUME NEW u PROVE [unit EXCEPT ![u].high_priority_p = TRUE] \in T
        BY FieldTypes
    <2> QED
        BY <1>5, <2>1 DEF increase_unit_priority
<1>6. CASE mjit_cancel_all
    <2>1. ASSUME NEW u \in Units
          PROVE  [unit[u] EXCEPT !.status = "FAILED"] \in UnitType
        BY FieldTypes, StatusNames
    <2>2. ASSUME NEW i \in Iseqs \cup {None}
          PROVE  [NewUnit(i) EXCEPT !.status = "IN_QUEUE"] \in UnitType
        BY NewUnitType, FieldTypes, StatusNames
    <2>3. ASSUME NEW new \in Replacements(Broken), NEW v \in Range(new)
          PROVE  unit[CHOOSE u \in Broken : new[u] = v].ui \in Iseqs \cup {None}
        <3>1. \E u \in Broken : new[u] = v
            BY DEF Range, Replacements, Injection
        <3>2. (CHOOSE u \in Broken : new[u] = v) \in Units
            BY <3>1 DEF Broken, TypeLists
        <3> QED
            BY <3>2 DEF UnitType
    <2>4. ASSUME NEW new \in Replacements(Broken)
          PROVE  LET of(v) == unit[CHOOSE u \in Broken : new[u] = v].ui
                 IN  [v \in Units |->
                        CASE v \in Broken -> [unit[v] EXCEPT !.status = "FAILED"]
                          [] v \in Range(new) ->
                               [NewUnit(of(v)) EXCEPT !.status = "IN_QUEUE"]
                          [] OTHER -> unit[v]] \in T
        BY <2>1, <2>2, <2>3, SMTT(30)
    <2>5. \/ UNCHANGED unit
          \/ \E new \in Replacements(Broken) :
                 LET of(v) == unit[CHOOSE u \in Broken : new[u] = v].ui
                 IN  unit' = [v \in Units |->
                        CASE v \in Broken -> [unit[v] EXCEPT !.status = "FAILED"]
                          [] v \in Range(new) ->
                               [NewUnit(of(v)) EXCEPT !.status = "IN_QUEUE"]
                          [] OTHER -> unit[v]]
        BY <1>6 DEF mjit_cancel_all
    <2> QED
        BY <2>4, <2>5
<1>7. CASE mjit_finish
    <2>1. \A u \in Units : Freed(unit[u]) \in UnitType
        BY FreedType
    <2> QED
        BY <1>7, <2>1 DEF mjit_finish
<1>8. CASE UNCHANGED unit
    BY <1>8
<1> QED
    BY <1>1, <1>2, <1>3, <1>4, <1>5, <1>6, <1>7, <1>8
    DEF client, ClientCall, mjit_aot_process, ClientSpecFail, ClientAotCall,
        AddStart, TraceSet, mjit_get_iseq_fun,
        BopRedefined, TraceRecalc, GcEnter, mjit_gc_start,
        mjit_gc_finish, FinishStart, FinishPch, FinishFlag, FinishWake,
        child_after_fork, ClientAbort, Abort, MemoryBound

LEMMA ClientIseqs ==
    ASSUME TypeOK, client
    PROVE  TypeIseqs'
<1> USE DEF TypeOK, TypeIseqs
<1> DEFINE U == [Iseqs -> UiType]
           J == [Iseqs -> NotCode \cup Units]
<1>0. \A i \in Iseqs : /\ ui[i].unit \in Units \cup {None}
                       /\ ui[i].jit_mutations_num \in 0 .. MaxMutations
    BY DEF UiType
<1>1. CASE \E i \in Iseqs : ClientCall(i)
    <2>1. PICK i \in Iseqs : ClientCall(i)
        BY <1>1
    <2>2. [calls EXCEPT ![i] = @ + 1] \in [Iseqs -> 0 .. NumCallsToAdd]
        BY <2>1, BoundsAssumption, SMTT(30) DEF ClientCall
    <2>3. jit_code' \in J
        BY <2>1 DEF ClientCall, NotCode
    <2> QED
        BY <2>1, <2>2, <2>3 DEF ClientCall
<1>2. CASE \E i \in Iseqs : mjit_aot_process(i)
    BY <1>2 DEF mjit_aot_process, NotCode
<1>3. CASE \E i \in Iseqs : mjit_free_iseq(i)
    <2>1. PICK i \in Iseqs : mjit_free_iseq(i)
        BY <1>3
    <2>2. [ui EXCEPT ![i].iseq = FALSE] \in U
        BY DEF UiType
    <2>3. [ui EXCEPT ![i] = [@ EXCEPT !.iseq = FALSE, !.unit = None]] \in U
        BY DEF UiType
    <2>4. ui' \in U
        BY <2>1, <2>2, <2>3 DEF mjit_free_iseq
    <2>5. alive' \in [Iseqs -> BOOLEAN]
        BY <2>1 DEF mjit_free_iseq
    <2> QED
        BY <2>1, <2>4, <2>5 DEF mjit_free_iseq
<1>4. CASE create_iseq_unit
    <2>1. ASSUME NEW u \in Units
          PROVE  [ui EXCEPT ![ciseq] =
                    [@ EXCEPT !.unit = u, !.made = TRUE, !.iseq = TRUE]] \in U
        BY DEF UiType
    <2>2. Available \subseteq Units
        BY DEF Available, TypeLists
    <2>3. PICK u \in Available : ui' = [ui EXCEPT ![ciseq] =
                    [@ EXCEPT !.unit = u, !.made = TRUE, !.iseq = TRUE]]
        BY <1>4 DEF create_iseq_unit
    <2>4. ui' \in U
        <3>1. u \in Units
            BY <2>2
        <3> QED
            BY <2>1, <2>3, <3>1
    <2> QED
        BY <1>4, <2>4 DEF create_iseq_unit
<1>5. CASE mjit_add_iseq_to_process
    <2>1. ASSUME NEW used, NEW evicted, Unload(used, evicted)
          PROVE  TypeIseqs' \/ alive' # alive
        <3>1. ASSUME NEW i \in Iseqs PROVE [ui[i] EXCEPT !.unit = None] \in UiType
            BY DEF UiType
        <3>2. ui' \in U
            BY <2>1, <3>1 DEF Unload
        <3>3. jit_code' \in J
            BY <2>1 DEF Unload, NotReady, NotCode
        <3>4. 0 \in 0 .. NumCallsToAdd
            BY BoundsAssumption, SMTT(30)
        <3>5. calls' \in [Iseqs -> 0 .. NumCallsToAdd]
            BY <2>1, <3>4 DEF Unload
        <3> QED
            BY <3>2, <3>3, <3>5
    <2> QED
        BY <1>5, <2>1 DEF mjit_add_iseq_to_process
<1>6. CASE \E b \in BOOLEAN : mjit_redo_iseq(b)
    <2>1. PICK b \in BOOLEAN : mjit_redo_iseq(b)
        BY <1>6
    <2>2. [jit_code EXCEPT ![ciseq] = NotReady] \in J
        BY DEF NotReady, NotCode
    <2>3. jit_code' \in J /\ UNCHANGED <<calls, alive>>
        BY <2>1, <2>2 DEF mjit_redo_iseq, ResetCode
    <2>4. ciseq \in Iseqs
        BY <2>1 DEF mjit_redo_iseq, TypeClient
    <2>5. ASSUME NEW n \in 0 .. MaxMutations
          PROVE  [ui EXCEPT ![ciseq].jit_mutations_num = n] \in U
        BY DEF UiType
    <2>6. CASE ui[ciseq].jit_mutations_num >= MaxMutations
        BY <2>1, <2>3, <2>6 DEF mjit_redo_iseq, Exhausted
    <2>7. CASE ~(ui[ciseq].jit_mutations_num >= MaxMutations)
        <3> DEFINE n == ui[ciseq].jit_mutations_num
        <3>1. n \in 0 .. MaxMutations /\ n + 1 \in 0 .. MaxMutations
            BY <1>0, <2>4, <2>7, BoundsAssumption, SMTT(30)
        <3>2. [ui EXCEPT ![ciseq].jit_mutations_num = IF b THEN @ + 1 ELSE @] \in U
            <4>1. CASE b
                BY <2>5, <3>1, <4>1
            <4>2. CASE ~b
                BY <2>5, <3>1, <4>2
            <4> QED
                BY <4>1, <4>2
        <3> QED
            BY <2>1, <2>3, <3>2 DEF mjit_redo_iseq, Exhausted
    <2> QED
        BY <2>6, <2>7
<1>7. CASE mjit_cancel_all
    <2>1. ASSUME NEW new \in Replacements(Broken), NEW i \in Iseqs,
                 \E u \in Broken : unit[u].ui = i
          PROVE  new[CHOOSE u \in Broken : unit[u].ui = i] \in Units
        BY <2>1 DEF Replacements, Injection, TypeLists
    <2>2. ASSUME NEW i \in Iseqs, NEW u \in Units
          PROVE  [ui[i] EXCEPT !.unit = u] \in UiType
        BY DEF UiType
    <2>3. ASSUME NEW new \in Replacements(Broken)
          PROVE  [i \in Iseqs |->
                    IF \E u \in Broken : unit[u].ui = i
                    THEN [ui[i] EXCEPT !.unit =
                             new[CHOOSE u \in Broken : unit[u].ui = i]]
                    ELSE ui[i]] \in U
        BY <2>1, <2>2
    <2>4. \/ UNCHANGED ui
          \/ \E new \in Replacements(Broken) : ui' =
                 [i \in Iseqs |->
                    IF \E u \in Broken : unit[u].ui = i
                    THEN [ui[i] EXCEPT !.unit =
                             new[CHOOSE u \in Broken : unit[u].ui = i]]
                    ELSE ui[i]]
        BY <1>7 DEF mjit_cancel_all
    <2>5. ui' \in U
        BY <2>3, <2>4
    <2>6. jit_code' \in J
        BY <1>7 DEF mjit_cancel_all, NotCode
    <2> QED
        BY <1>7, <2>5, <2>6 DEF mjit_cancel_all
<1>8. CASE UNCHANGED iseqs
    BY <1>8 DEF iseqs
<1> QED
    BY <1>1, <1>2, <1>3, <1>4, <1>5, <1>6, <1>7, <1>8
    DEF client, ClientSpecFail, ClientAotCall, AddStart, TraceSet, mjit_get_iseq_fun,
        increase_unit_priority, BopRedefined, TraceRecalc, GcEnter,
        mjit_gc_start, mjit_gc_finish, FinishStart, FinishPch, FinishFlag,
        FinishWake, mjit_finish, child_after_fork, ClientAbort, Abort,
        MemoryBound

LEMMA NextType == TypeOK /\ [Next]_vars => TypeOK'
<1> SUFFICES ASSUME TypeOK, [Next]_vars PROVE TypeOK'
    OBVIOUS
<1>1. ASSUME NEW ok \in BOOLEAN, make_pch(ok) PROVE TypeOK'
    <2>1. TypeSync'
        BY <1>1 DEF make_pch, TypeOK, TypeSync, Wakeup, gcv
    <2>2. UNCHANGED <<finished_workers, units_in_translation, lists, mem, unit,
                      iseqs, wv, cv>>
        BY <1>1 DEF make_pch, gcv
    <2> QED
        BY <2>1, <2>2
        DEF TypeOK, TypeCounters, TypeLists, TypeUnits, TypeIseqs, TypeWorkers,
            TypeClient, Held, lists, mem, iseqs, wv, cv
<1>2. CASE \E w \in Workers : worker(w)
    BY <1>2, WorkerType
<1>3. CASE client
    BY <1>3, ClientSync, ClientCounters, ClientLists, ClientUnits, ClientIseqs,
       ClientWorkers, ClientClient DEF TypeOK
<1>4. ASSUME NEW t \in Threads, Spurious(t) PROVE TypeOK'
    <2>1. TypeSync'
        BY <1>4 DEF Spurious, TypeOK, TypeSync, state, gcv
    <2>2. UNCHANGED <<finished_workers, units_in_translation, lists, mem, unit,
                      iseqs, wv, cv>>
        BY <1>4 DEF Spurious, gcv, state
    <2> QED
        BY <2>1, <2>2
        DEF TypeOK, TypeCounters, TypeLists, TypeUnits, TypeIseqs, TypeWorkers,
            TypeClient, Held, lists, mem, iseqs, wv, cv
<1>5. CASE UNCHANGED vars
    <2> USE <1>5 DEF vars, TypeOK
    <2>1. TypeSync'
        BY DEF TypeSync, sync, state, gcv
    <2>2. TypeCounters' /\ TypeLists' /\ TypeUnits'
        BY DEF TypeCounters, TypeLists, TypeUnits, state, gcv, lists, mem
    <2>3. TypeIseqs'
        BY DEF TypeIseqs, iseqs
    <2>4. TypeWorkers'
        BY DEF TypeWorkers, Held, wv
    <2>5. TypeClient'
        BY DEF TypeClient, cv, mem
    <2> QED
        BY <2>1, <2>2, <2>3, <2>4, <2>5
<1> QED
    BY <1>1, <1>2, <1>3, <1>4, <1>5 DEF Next, Quiet

\* No step of the engine takes a variable out of its type: the index of
\* mutation_insns stays inside the array, and the unit of a worker and the
\* iseq of the client are set wherever the code uses them.
THEOREM TypeCorrect == Spec => []TypeOK
<1> QED
    BY InitType, NextType, PTL DEF Spec

-----------------------------------------------------------------------------
\* The units.

\* What the theorems exclude: a collection that frees an iseq may discard a
\* unit a worker still uses (mjit_free_iseq tests for UNIT_IN_GENERATION
\* only), and create_unit takes no lock, so that it may lose or repeat the
\* head of the free list.
Orderly == Events \cap {"free", "overlap"} = {}

\* The units the workers work on, the unit the client forms, and the units
\* that an iseq must point at.
Hands == {wunit[w] : w \in {v \in Workers : Held(v)}}
Forming == {curr_unit} \ {None}
Owned == unit_queue \cup active_units \cup Forming \cup Hands

\* The client adds ciseq and has not formed its unit yet.
Adding == cpc \in {"add", "create"} \/ (cpc \in {"gc_start", "gc"} /\ cret = "create")

HandsInv == \A v, w \in Workers : Held(v) /\ Held(w) /\ wunit[v] = wunit[w] => v = w

PlaceInv ==
    /\ unit_queue \cap (active_units \cup obsolete_units \cup free_unit_list
                          \cup heap \cup Forming \cup Hands) = {}
    /\ active_units \cap (obsolete_units \cup free_unit_list \cup heap
                            \cup Forming \cup Hands) = {}
    /\ obsolete_units \cap (free_unit_list \cup heap \cup Forming \cup Hands) = {}
    /\ free_unit_list \cap (heap \cup Forming \cup Hands) = {}
    /\ heap \cap (Forming \cup Hands) = {}
    /\ Forming \cap Hands = {}
    /\ Forming # {} => cpc = "enqueue"

StatusInv ==
    /\ \A u \in unit_queue : unit[u].status = "IN_QUEUE"
    /\ \A u \in active_units : unit[u].status = "LOADED" /\ unit[u].handle = unit[u].ui
    /\ \A u \in obsolete_units : unit[u].status = "FAILED" /\ unit[u].handle # None

OwnInv ==
    /\ \A u \in Owned \cup obsolete_units : unit[u].ui \in Iseqs /\ ui[unit[u].ui].iseq
    /\ \A u \in Owned : ui[unit[u].ui].unit = u
    /\ \A i \in Iseqs : ui[i].unit # None =>
          unit[ui[i].unit].ui = i /\ ui[i].unit \notin free_unit_list \cup heap
    /\ mjit_init_p => \A i \in Iseqs : ui[i].unit \in Owned \cup obsolete_units \cup {None}

CodeInv ==
    /\ \A i \in Iseqs : IsCode(i) => jit_code[i] \in active_units /\ ui[i].unit = jit_code[i]
    /\ \A u \in active_units : jit_code[unit[u].ui] = u
    /\ \A i \in Iseqs : jit_code[i] = "NOT_ADDED" => ui[i].unit \in obsolete_units \cup {None}
    /\ mjit_init_p => \A i \in Iseqs : ui[i].unit \in obsolete_units =>
          jit_code[i] = "NOT_ADDED" \/ (ciseq = i /\ (Adding \/ cpc = "bounded"))

\* What the client relies on between two critical sections.
ClientInv ==
    /\ cpc = "redo" => IsCode(ciseq)
    /\ Adding => ui[ciseq].unit \in obsolete_units \cup {None}
    /\ Adding \/ cpc = "enqueue" => jit_code[ciseq] # "NOT_ADDED"
    /\ cpc = "enqueue" => unit[curr_unit].ui = ciseq

UnitInv ==
    /\ TypeOK /\ PlaceInv /\ HandsInv
    /\ Running => StatusInv /\ OwnInv /\ CodeInv /\ ClientInv

-----------------------------------------------------------------------------
\* The hands of the workers.

LEMMA HeldIsUnit ==
    ASSUME TypeOK
    PROVE  Hands \subseteq Units /\ \A w \in Workers : Held(w) => wunit[w] \in Hands
BY DEF Hands, TypeOK, TypeWorkers

LEMMA HandsStay ==
    ASSUME \A v \in Workers : Held(v)' <=> Held(v),
           \A v \in Workers : Held(v) => wunit'[v] = wunit[v]
    PROVE  Hands' = Hands /\ (HandsInv => HandsInv')
<1>1. Hands' = Hands
    BY DEF Hands
<1>2. HandsInv => HandsInv'
    BY DEF HandsInv
<1> QED
    BY <1>1, <1>2

LEMMA HandsTake ==
    ASSUME NEW w \in Workers, NEW u, ~Held(w), Held(w)', wunit'[w] = u,
           \A v \in Workers : v # w => (Held(v)' <=> Held(v)) /\ wunit'[v] = wunit[v]
    PROVE  /\ Hands' = Hands \cup {u}
           /\ HandsInv /\ u \notin Hands => HandsInv'
<1>1. Hands' = Hands \cup {u}
    BY DEF Hands
<1>2. HandsInv /\ u \notin Hands => HandsInv'
    BY DEF Hands, HandsInv
<1> QED
    BY <1>1, <1>2

LEMMA HandsDrop ==
    ASSUME NEW w \in Workers, Held(w), ~(Held(w)'), HandsInv,
           \A v \in Workers : v # w => (Held(v)' <=> Held(v)) /\ wunit'[v] = wunit[v]
    PROVE  Hands' = Hands \ {wunit[w]} /\ HandsInv'
<1>1. ASSUME NEW u PROVE u \in Hands' <=> u \in Hands /\ u # wunit[w]
    <2>1. u \in Hands' <=> \E v \in Workers : Held(v)' /\ wunit'[v] = u
        BY DEF Hands
    <2>2. u \in Hands <=> \E v \in Workers : Held(v) /\ wunit[v] = u
        BY DEF Hands
    <2> QED
        BY <2>1, <2>2 DEF HandsInv
<1>2. HandsInv'
    BY DEF HandsInv
<1> QED
    BY <1>1, <1>2

-----------------------------------------------------------------------------
\* The moves of a worker.

SameUis == \A v \in Units : unit'[v].ui = unit[v].ui
SameMarks(S) ==
    \A v \in Units : v \in S \/ ( /\ unit'[v].status = unit[v].status
                                  /\ unit'[v].handle = unit[v].handle )

Rest ==
    /\ UNCHANGED <<lists, mem, ui, jit_code, Hands>>
    /\ SameUis /\ SameMarks(Hands)
Takes(u) ==
    /\ u \in unit_queue /\ unit_queue' = unit_queue \ {u} /\ Hands' = Hands \cup {u}
    /\ UNCHANGED <<active_units, obsolete_units, mem, ui, jit_code>>
    /\ SameUis /\ SameMarks({u})
Drops(u) == u \in Hands /\ Hands' = Hands \ {u} /\ UNCHANGED <<curr_unit, heap>>
Requeues(u) ==
    /\ Drops(u) /\ unit_queue' = unit_queue \cup {u}
    /\ UNCHANGED <<active_units, obsolete_units, free_unit_list, ui, jit_code>>
    /\ SameUis /\ SameMarks({u}) /\ unit'[u].status = "IN_QUEUE"
Discards(u) ==
    /\ Drops(u) /\ free_unit_list' = free_unit_list \cup {u} /\ UNCHANGED lists
    /\ SameUis /\ SameMarks({u})
    /\ CanDiscard(u) /\ ui' = [ui EXCEPT ![unit[u].ui].unit = None]
    /\ jit_code' \in {jit_code, [jit_code EXCEPT ![unit[u].ui] = "NOT_ADDED"]}
Fails(u) ==
    /\ Drops(u) /\ obsolete_units' = obsolete_units \cup {u}
    /\ UNCHANGED <<unit_queue, active_units, free_unit_list, ui>>
    /\ SameUis /\ SameMarks({u})
    /\ unit'[u].status = "FAILED" /\ unit'[u].handle # None
    /\ jit_code' = [jit_code EXCEPT ![unit[u].ui] = "NOT_ADDED"]
Publishes(u) ==
    /\ Drops(u) /\ active_units' = active_units \cup {u}
    /\ UNCHANGED <<unit_queue, obsolete_units, free_unit_list, ui>>
    /\ SameUis /\ SameMarks({u})
    /\ unit'[u].status = "LOADED" /\ unit'[u].handle = unit[u].ui
    /\ jit_code' = [jit_code EXCEPT ![unit[u].ui] = u]
\* The iseq is collected: only possible when the program has ended.
Loses(u) == Drops(u) /\ UNCHANGED <<lists, free_unit_list>> /\ ~Running

WorkerMove ==
    \/ Rest
    \/ \E u \in Units : \/ Takes(u) \/ Requeues(u) \/ Discards(u)
                        \/ Fails(u) \/ Publishes(u) \/ Loses(u)

LEMMA WorkerFrame ==
    ASSUME NEW w \in Workers, worker(w)
    PROVE  /\ UNCHANGED <<cpc, ciseq, cret, curr_unit, heap>>
           /\ UNCHANGED mjit_init_p \/ mjit_init_p' = FALSE
<1>1. UNCHANGED <<cpc, ciseq, cret>>
    BY DEF worker, WorkerPch, WorkerSwitchOff, WorkerLeave, WorkerTop, WorkerExit,
        WorkerIdle, WorkerEnterTranslation, WorkerTranslate, WorkerLeaveTranslation,
        WorkerSpawn, WorkerStatus, WorkerCheck, WorkerDlopen, WorkerPublish,
        WorkerLoaded, WorkerAbort, Abort, cv
<1>2. UNCHANGED <<curr_unit, heap>>
    BY DEF worker, WorkerPch, WorkerSwitchOff, WorkerLeave, WorkerTop, WorkerExit,
        WorkerIdle, WorkerEnterTranslation, WorkerTranslate, WorkerLeaveTranslation,
        WorkerSpawn, WorkerStatus, WorkerCheck, WorkerDlopen, WorkerPublish,
        WorkerLoaded, WorkerAbort, Abort, mem
<1>3. UNCHANGED mjit_init_p \/ mjit_init_p' = FALSE
    BY DEF worker, WorkerPch, WorkerSwitchOff, WorkerLeave, WorkerTop, WorkerExit,
        WorkerIdle, WorkerEnterTranslation, WorkerTranslate, WorkerLeaveTranslation,
        WorkerSpawn, WorkerStatus, WorkerCheck, WorkerDlopen, WorkerPublish,
        WorkerLoaded, WorkerAbort, Abort, state
<1> QED
    BY <1>1, <1>2, <1>3

\* A worker goes on to pc with the same unit, if it has one.
LEMMA GoesOn ==
    ASSUME TypeOK, HandsInv, NEW w \in Workers, NEW pc,
           wpc' = [wpc EXCEPT ![w] = pc], \A v \in Workers : v # w => wunit'[v] = wunit[v]
    PROVE  LET working == {"gc", "translate", "translated", "args", "status",
                           "check", "load", "publish"}
           IN  /\ Held(w) /\ pc \in working /\ wunit'[w] = wunit[w] =>
                     Hands' = Hands /\ HandsInv'
               /\ ~Held(w) /\ pc \notin working => Hands' = Hands /\ HandsInv'
               /\ ~Held(w) /\ pc \in working =>
                     /\ Hands' = Hands \cup {wunit'[w]}
                     /\ wunit'[w] \notin Hands => HandsInv'
               /\ Held(w) /\ pc \notin working =>
                     Hands' = Hands \ {wunit[w]} /\ HandsInv'
<1> DEFINE working == {"gc", "translate", "translated", "args", "status",
                       "check", "load", "publish"}
<1>0. wpc \in [Workers -> WorkerPcs]
    BY DEF TypeOK, TypeWorkers
<1>1. \A v \in Workers : v # w => (Held(v)' <=> Held(v))
    BY <1>0 DEF Held
<1>2. Held(w)' <=> pc \in working
    <2>1. wpc'[w] = pc
        BY <1>0
    <2> QED
        BY <2>1 DEF Held
<1> HIDE DEF working
<1>3. ASSUME Held(w), pc \in working, wunit'[w] = wunit[w]
      PROVE  Hands' = Hands /\ HandsInv'
    BY <1>1, <1>2, <1>3, HandsStay
<1>4. ASSUME ~Held(w), pc \notin working PROVE Hands' = Hands /\ HandsInv'
    BY <1>1, <1>2, <1>4, HandsStay
<1>5. ASSUME ~Held(w), pc \in working
      PROVE  Hands' = Hands \cup {wunit'[w]} /\ (wunit'[w] \notin Hands => HandsInv')
    BY <1>1, <1>2, <1>5, HandsTake
<1>6. ASSUME Held(w), pc \notin working
      PROVE  Hands' = Hands \ {wunit[w]} /\ HandsInv'
    BY <1>1, <1>2, <1>6, HandsDrop
<1> QED
    BY <1>3, <1>4, <1>5, <1>6 DEF working

\* A worker writes into a unit in its hands, except for the iseq of the unit.
LEMMA UnitWritten ==
    ASSUME TypeOK, NEW u \in Units, NEW S, u \in S, NEW r,
           r.ui = unit[u].ui, unit' = [unit EXCEPT ![u] = r]
    PROVE  SameUis /\ SameMarks(S) /\ unit'[u] = r
<1>0. unit \in [Units -> UnitType]
    BY DEF TypeOK, TypeUnits
<1>1. unit'[u] = r /\ \A v \in Units : v # u => unit'[v] = unit[v]
    BY <1>0
<1> QED
    BY <1>1 DEF SameUis, SameMarks

LEMMA WorkerControls ==
    ASSUME UnitInv, NEW w \in Workers,
           \/ WorkerPch(w) \/ WorkerSwitchOff(w) \/ WorkerLeave(w) \/ WorkerExit(w)
           \/ WorkerIdle(w) \/ WorkerLoaded(w) \/ WorkerAbort(w)
    PROVE  Rest /\ HandsInv'
<1>1. UNCHANGED <<lists, mem, ui, jit_code, unit>>
    BY DEF WorkerPch, WorkerSwitchOff, WorkerLeave, WorkerExit, WorkerIdle,
                 WorkerLoaded, WorkerAbort, Abort, iseqs
<1>2. SameUis /\ SameMarks(Hands)
    BY <1>1 DEF SameUis, SameMarks
<1>3. CASE UNCHANGED <<wpc, wunit>>
    BY <1>1, <1>2, <1>3, HandsStay DEF Held, UnitInv, Rest
<1>4. CASE ~UNCHANGED <<wpc, wunit>>
    <2>1. wunit \in [Workers -> Units \cup {None}]
        BY DEF UnitInv, TypeOK, TypeWorkers
    <2>2. ~Held(w)
        BY <1>4
        DEF WorkerPch, WorkerSwitchOff, WorkerLeave, WorkerExit, WorkerIdle,
            WorkerLoaded, WorkerAbort, Abort, wv, Held
    <2>3. \A v \in Workers : v # w => wunit'[v] = wunit[v]
        BY <2>1
        DEF WorkerPch, WorkerSwitchOff, WorkerLeave, WorkerExit, WorkerIdle,
            WorkerLoaded, WorkerAbort, Abort, wv, BackToTop
    <2>4. \E pc \in {"pch_failed", "top", "switched_off", "exit", "done"} :
              wpc' = [wpc EXCEPT ![w] = pc]
        BY <1>4
        DEF WorkerPch, WorkerSwitchOff, WorkerLeave, WorkerExit, WorkerIdle,
            WorkerLoaded, WorkerAbort, Abort, wv, BackToTop, Goto
    <2>5. Hands' = Hands /\ HandsInv'
        BY <2>2, <2>3, <2>4, GoesOn DEF UnitInv
    <2> QED
        BY <1>1, <1>2, <2>5 DEF Rest
<1> QED
    BY <1>3, <1>4

LEMMA TopMoves ==
    ASSUME UnitInv, NEW w \in Workers, WorkerTop(w)
    PROVE  WorkerMove /\ HandsInv'
<1>0. TypeOK /\ HandsInv /\ unit_queue \subseteq Units
    BY DEF UnitInv, TypeOK, TypeLists
<1>1. ~Held(w)
    BY DEF WorkerTop, Held
<1>2. CASE UNCHANGED <<unit_queue, unit, wunit>> /\ (Goto(w, "exit") \/ Goto(w, "idle"))
    <2>1. Hands' = Hands /\ HandsInv'
        BY <1>0, <1>1, <1>2, GoesOn DEF Goto
    <2>2. UNCHANGED <<lists, mem, ui, jit_code, unit>>
        BY <1>2 DEF WorkerTop, lists, iseqs
    <2> QED
        BY <2>1, <2>2 DEF WorkerMove, Rest, SameUis, SameMarks
<1>3. ASSUME NEW u \in Best, unit_queue' = unit_queue \ {u}, Goto(w, "gc"),
             unit' = [unit EXCEPT ![u] = [@ EXCEPT !.status = "IN_GENERATION",
                                                   !.high_priority_p = FALSE]],
             wunit' = [wunit EXCEPT ![w] = u]
      PROVE  WorkerMove /\ HandsInv'
    <2>1. u \in unit_queue /\ u \in Units
        BY <1>0 DEF Best
    <2>2. wunit'[w] = u /\ \A v \in Workers : v # w => wunit'[v] = wunit[v]
        BY <1>0, <1>3 DEF TypeOK, TypeWorkers
    <2>3. Hands' = Hands \cup {u} /\ (u \notin Hands => HandsInv')
        BY <1>0, <1>1, <1>3, <2>2, GoesOn DEF Goto
    <2>4. u \notin Hands
        BY <2>1 DEF UnitInv, PlaceInv
    <2> DEFINE r == [unit[u] EXCEPT !.status = "IN_GENERATION", !.high_priority_p = FALSE]
    <2>5. r.ui = unit[u].ui
        BY <1>0, <2>1 DEF TypeOK, TypeUnits, UnitType
    <2>6. unit' = [unit EXCEPT ![u] = r]
        BY <1>3
    <2> HIDE DEF r
    <2>7. SameUis /\ SameMarks({u})
        BY <1>0, <2>1, <2>5, <2>6, UnitWritten
    <2>8. UNCHANGED <<active_units, obsolete_units, mem, ui, jit_code>>
        BY DEF WorkerTop, iseqs
    <2>9. Takes(u)
        BY <1>3, <2>1, <2>3, <2>7, <2>8 DEF Takes
    <2> QED
        BY <2>1, <2>3, <2>4, <2>9 DEF WorkerMove
<1> QED
    BY <1>2, <1>3 DEF WorkerTop

LEMMA UiKept ==
    ASSUME NEW r \in UnitType
    PROVE  /\ \A x : /\ [r EXCEPT !.ofname = x].ui = r.ui
                     /\ [r EXCEPT !.spec_state = x].ui = r.ui
                     /\ [r EXCEPT !.obj = x].ui = r.ui
                     /\ [r EXCEPT !.status = x].ui = r.ui
           /\ Freed(r).ui = r.ui /\ Unlinked(r).ui = r.ui
<1>1. \A x : /\ [r EXCEPT !.ofname = x].ui = r.ui
             /\ [r EXCEPT !.spec_state = x].ui = r.ui
    BY DEF UnitType
<1>2. \A x : /\ [r EXCEPT !.obj = x].ui = r.ui
             /\ [r EXCEPT !.status = x].ui = r.ui
    BY DEF UnitType
<1>3. Freed(r).ui = r.ui
    BY DEF UnitType, Freed
<1>4. Unlinked(r).ui = r.ui
    BY DEF UnitType, Unlinked
<1> QED
    BY <1>1, <1>2, <1>3, <1>4

\* start_unit, waitpid and dlopen: the worker keeps its unit.
LEMMA WorkerKeepsUnit ==
    ASSUME UnitInv, NEW w \in Workers,
           \/ WorkerEnterTranslation(w) \/ WorkerTranslate(w) \/ WorkerLeaveTranslation(w)
           \/ WorkerSpawn(w) \/ WorkerStatus(w) \/ WorkerDlopen(w)
    PROVE  Rest /\ HandsInv'
<1>0. TypeOK /\ HandsInv /\ Hands \subseteq Units /\ unit \in [Units -> UnitType]
    BY HeldIsUnit DEF UnitInv, TypeOK, TypeUnits
<1>1. Held(w) /\ wunit[w] \in Hands /\ wunit[w] \in Units
    <2>1. Held(w)
        BY DEF Held, WorkerEnterTranslation, WorkerTranslate, WorkerLeaveTranslation,
               WorkerSpawn, WorkerStatus, WorkerDlopen
    <2> QED
        BY <1>0, <2>1, HeldIsUnit
<1>2. UNCHANGED <<lists, mem, ui, jit_code, wunit>>
    BY DEF WorkerEnterTranslation, WorkerTranslate, WorkerLeaveTranslation,
                 WorkerSpawn, WorkerStatus, WorkerDlopen, iseqs
<1>3. Hands' = Hands /\ HandsInv'
    <2>1. CASE UNCHANGED wpc
        BY <1>0, <1>2, <2>1, HandsStay DEF Held
    <2>2. CASE ~UNCHANGED wpc
        <3>1. \E pc \in {"translate", "translated", "args", "status", "check", "publish"} :
                  wpc' = [wpc EXCEPT ![w] = pc]
            BY <2>2
            DEF WorkerEnterTranslation, WorkerTranslate, WorkerLeaveTranslation,
                WorkerSpawn, WorkerStatus, WorkerDlopen, Goto
        <3> QED
            BY <1>0, <1>1, <1>2, <3>1, GoesOn
    <2> QED
        BY <2>1, <2>2
<1>4. UNCHANGED unit \/ \E u \in Hands : \E r : r.ui = unit[u].ui /\ unit' = [unit EXCEPT ![u] = r]
    <2> DEFINE Writes(u, r) == r.ui = unit[u].ui /\ unit' = [unit EXCEPT ![u] = r]
    <2> SUFFICES UNCHANGED unit \/ \E u \in Hands : \E r : Writes(u, r)
        OBVIOUS
    <2>1. CASE WorkerEnterTranslation(w)
        <3>1. UNCHANGED unit \/ Writes(wunit[w], [unit[wunit[w]] EXCEPT !.ofname = TRUE])
            BY <1>0, <1>1, <2>1, UiKept DEF WorkerEnterTranslation
        <3> QED
            BY <1>1, <3>1
    <2>2. CASE WorkerTranslate(w)
        <3>1. UNCHANGED unit \/ Writes(wunit[w], [unit[wunit[w]] EXCEPT !.spec_state = spec])
            BY <1>0, <1>1, <2>2, UiKept DEF WorkerTranslate
        <3> QED
            BY <1>1, <3>1
    <2>3. CASE WorkerLeaveTranslation(w)
        BY <2>3 DEF WorkerLeaveTranslation
    <2>4. CASE WorkerSpawn(w)
        <3>1. ASSUME NEW u \in ArgUnits PROVE u \in Hands
            BY <3>1 DEF ArgUnits, Hands, Held
        <3>2. ASSUME NEW in \in ArgUnits, NEW out \in ArgUnits, NEW ok,
                     unit' = [unit EXCEPT ![out].obj = IF ok THEN unit[in].ui ELSE None]
              PROVE  \E u \in Hands : \E r : Writes(u, r)
            <4>1. Writes(out, [unit[out] EXCEPT !.obj = IF ok THEN unit[in].ui ELSE None])
                BY <1>0, <3>1, <3>2, UiKept, SMTT(30)
            <4> QED
                BY <3>1, <4>1
        <3>3. ASSUME unit' = [unit EXCEPT ![wunit[w]] =
                         [@ EXCEPT !.status = "FAILED", !.ofname = FALSE, !.obj = None]]
              PROVE  \E u \in Hands : \E r : Writes(u, r)
            <4> DEFINE q == [unit[wunit[w]] EXCEPT !.status = "FAILED",
                                                   !.ofname = FALSE, !.obj = None]
            <4>1. q.ui = unit[wunit[w]].ui
                BY <1>0, <1>1 DEF UnitType
            <4>2. Writes(wunit[w], q)
                BY <3>3, <4>1
            <4> QED
                BY <1>1, <4>2
        <3> QED
            BY <2>4, <3>2, <3>3 DEF WorkerSpawn
    <2>5. CASE WorkerStatus(w)
        <3>1. Writes(wunit[w], [unit[wunit[w]] EXCEPT !.status =
                                    IF wexit[w] THEN "SUCCESS" ELSE "FAILED"])
            BY <1>0, <1>1, <2>5, UiKept, SMTT(30) DEF WorkerStatus
        <3> QED
            BY <1>1, <3>1
    <2>6. CASE WorkerDlopen(w)
        <3>1. Writes(wunit[w], Unlinked(unit[wunit[w]]))
            BY <1>0, <1>1, <2>6, UiKept DEF WorkerDlopen
        <3> QED
            BY <1>1, <3>1
    <2> QED
        BY <2>1, <2>2, <2>3, <2>4, <2>5, <2>6
<1>5. SameUis /\ SameMarks(Hands)
    <2>1. CASE UNCHANGED unit
        BY <2>1 DEF SameUis, SameMarks
    <2>2. ASSUME NEW u \in Hands, NEW r, r.ui = unit[u].ui, unit' = [unit EXCEPT ![u] = r]
          PROVE  SameUis /\ SameMarks(Hands)
        BY <1>0, <2>2, UnitWritten
    <2> QED
        BY <1>4, <2>1, <2>2
<1> QED
    BY <1>2, <1>3, <1>5 DEF Rest

LEMMA DiscardEffect ==
    ASSUME Orderly, TypeOK, NEW u \in Units, discard_unit(u)
    PROVE  /\ SameUis /\ SameMarks({u}) /\ free_unit_list' = free_unit_list \cup {u}
           /\ ui' = [ui EXCEPT ![unit[u].ui].unit = None]
<1>1. unit[u] \in UnitType
    BY DEF TypeOK, TypeUnits
<1>2. unit' = [unit EXCEPT ![u] = Freed(unit[u])]
    BY DEF discard_unit
<1>3. SameUis /\ SameMarks({u})
    BY <1>1, <1>2, UiKept, UnitWritten
<1> QED
    BY <1>3 DEF Orderly, discard_unit, Push

LEMMA CheckMoves ==
    ASSUME Orderly, UnitInv, NEW w \in Workers, WorkerCheck(w)
    PROVE  WorkerMove /\ HandsInv'
<1> DEFINE u == wunit[w]
<1>0. TypeOK /\ HandsInv /\ unit \in [Units -> UnitType]
    BY DEF UnitInv, TypeOK, TypeUnits
<1>1. Held(w) /\ u \in Hands /\ u \in Units
    <2>1. Held(w)
        BY DEF Held, WorkerCheck
    <2> QED
        BY <1>0, <2>1, HeldIsUnit
<1>2. UNCHANGED <<active_units, obsolete_units, curr_unit, heap, jit_code>>
    BY DEF WorkerCheck
<1>3. BackToTop(w) => Drops(u) /\ HandsInv'
    <2>1. BackToTop(w) => /\ wpc' = [wpc EXCEPT ![w] = "top"]
                          /\ \A v \in Workers : v # w => wunit'[v] = wunit[v]
        BY <1>0 DEF BackToTop, Goto, TypeOK, TypeWorkers
    <2>2. BackToTop(w) => Hands' = Hands \ {u} /\ HandsInv'
        BY <1>0, <1>1, <2>1, GoesOn
    <2> QED
        BY <1>1, <1>2, <2>2 DEF Drops
<1>4. CASE discard_unit(u) /\ CanDiscard(u) /\ BackToTop(w) /\ UNCHANGED unit_queue
    <2>1. UNCHANGED lists
        BY <1>2, <1>4 DEF lists
    <2>2. Discards(u)
        BY <1>0, <1>1, <1>2, <1>3, <1>4, <2>1, DiscardEffect DEF Discards
    <2> QED
        BY <1>1, <1>3, <1>4, <2>2 DEF WorkerMove
<1>5. CASE /\ unit_queue' = unit_queue \cup {u}
           /\ unit' = [unit EXCEPT ![u].status = "IN_QUEUE"]
           /\ BackToTop(w) /\ UNCHANGED <<ui, free_unit_list>>
    <2> DEFINE r == [unit[u] EXCEPT !.status = "IN_QUEUE"]
    <2>1. r.ui = unit[u].ui /\ r.status = "IN_QUEUE" /\ unit' = [unit EXCEPT ![u] = r]
        BY <1>0, <1>1, <1>5 DEF UnitType
    <2> HIDE DEF r
    <2>2. SameUis /\ SameMarks({u}) /\ unit'[u].status = "IN_QUEUE"
        BY <1>0, <1>1, <2>1, UnitWritten
    <2>3. Requeues(u)
        BY <1>2, <1>3, <1>5, <2>2 DEF Requeues
    <2> QED
        BY <1>1, <1>3, <1>5, <2>3 DEF WorkerMove
<1>6. CASE /\ Goto(w, "load")
           /\ UNCHANGED <<sync, unit_queue, unit, ui, free_unit_list, wunit, wexit, whandle>>
    <2>1. Hands' = Hands /\ HandsInv'
        BY <1>0, <1>1, <1>6, GoesOn DEF Goto
    <2>2. Rest
        BY <1>2, <1>6, <2>1 DEF Rest, SameUis, SameMarks, lists, mem
    <2> QED
        BY <2>1, <2>2 DEF WorkerMove
<1> QED
    BY <1>4, <1>5, <1>6 DEF WorkerCheck

LEMMA PublishMoves ==
    ASSUME Orderly, UnitInv, NEW w \in Workers, WorkerPublish(w)
    PROVE  WorkerMove /\ HandsInv'
<1> DEFINE u == wunit[w]
           i == unit[u].ui
           h == whandle[w]
<1>0. TypeOK /\ HandsInv /\ unit \in [Units -> UnitType]
    BY DEF UnitInv, TypeOK, TypeUnits
<1>1. Held(w) /\ u \in Hands /\ u \in Units
    <2>1. Held(w)
        BY DEF Held, WorkerPublish
    <2> QED
        BY <1>0, <2>1, HeldIsUnit
<1>2. UNCHANGED <<unit_queue, curr_unit, heap, wunit>> /\ Goto(w, "loaded")
    BY DEF WorkerPublish
<1>3. Drops(u) /\ HandsInv'
    <2>1. wpc' = [wpc EXCEPT ![w] = "loaded"] /\ \A v \in Workers : v # w => wunit'[v] = wunit[v]
        BY <1>2 DEF Goto
    <2>2. "loaded" \notin {"gc", "translate", "translated", "args", "status",
                          "check", "load", "publish"}
        OBVIOUS
    <2>3. Hands' = Hands \ {u} /\ HandsInv'
        BY <1>0, <1>1, <2>1, <2>2, GoesOn
    <2> QED
        BY <1>1, <1>2, <2>3 DEF Drops
<1>4. CASE ~ui[i].iseq /\ UNCHANGED <<active_units, obsolete_units, free_unit_list>>
    <2>1. ~Running
        BY <1>1, <1>4 DEF UnitInv, OwnInv, Owned
    <2> QED
        BY <1>1, <1>2, <1>3, <1>4, <2>1 DEF WorkerMove, Loses, lists
<1>5. CASE /\ CanDiscard(u) /\ discard_unit(u) /\ jit_code' = [jit_code EXCEPT ![i] = "NOT_ADDED"]
           /\ UNCHANGED <<active_units, obsolete_units>>
    <2>1. UNCHANGED lists
        BY <1>2, <1>5 DEF lists
    <2>2. Discards(u)
        BY <1>0, <1>1, <1>3, <1>5, <2>1, DiscardEffect DEF Discards
    <2> QED
        BY <1>1, <1>3, <2>2 DEF WorkerMove
<1>6. ASSUME NEW s, unit' = [unit EXCEPT ![u] = [@ EXCEPT !.status = s, !.handle = h,
                                                          !.ofname = FALSE]]
      PROVE  SameUis /\ SameMarks({u}) /\ unit'[u].status = s /\ unit'[u].handle = h
    <2> DEFINE r == [unit[u] EXCEPT !.status = s, !.handle = h, !.ofname = FALSE]
    <2>1. r.ui = unit[u].ui /\ r.status = s /\ r.handle = h
        BY <1>0, <1>1 DEF UnitType
    <2>2. unit' = [unit EXCEPT ![u] = r]
        BY <1>6
    <2> HIDE DEF r
    <2> QED
        BY <1>0, <1>1, <2>1, <2>2, UnitWritten
<1>7. CASE /\ h \notin {None, i} /\ jit_code' = [jit_code EXCEPT ![i] = "NOT_ADDED"]
           /\ unit' = [unit EXCEPT ![u] = [@ EXCEPT !.status = "FAILED", !.handle = h,
                                                    !.ofname = FALSE]]
           /\ obsolete_units' = obsolete_units \cup {u}
           /\ UNCHANGED <<active_units, free_unit_list, ui>>
    <2>1. SameUis /\ SameMarks({u}) /\ unit'[u].status = "FAILED" /\ unit'[u].handle = h
        BY <1>6, <1>7
    <2>2. Fails(u)
        BY <1>2, <1>3, <1>7, <2>1 DEF Fails
    <2> QED
        BY <1>1, <1>3, <2>2 DEF WorkerMove
<1>8. CASE /\ h = i /\ jit_code' = [jit_code EXCEPT ![i] = u]
           /\ unit' = [unit EXCEPT ![u] = [@ EXCEPT !.status = "LOADED", !.handle = h,
                                                    !.ofname = FALSE]]
           /\ active_units' = active_units \cup {u}
           /\ UNCHANGED <<obsolete_units, free_unit_list, ui>>
    <2>1. SameUis /\ SameMarks({u}) /\ unit'[u].status = "LOADED" /\ unit'[u].handle = h
        BY <1>6, <1>8
    <2>2. Publishes(u)
        BY <1>2, <1>3, <1>8, <2>1 DEF Publishes
    <2> QED
        BY <1>1, <1>3, <2>2 DEF WorkerMove
<1> QED
    BY <1>4, <1>5, <1>7, <1>8 DEF WorkerPublish

LEMMA WorkerMoves ==
    ASSUME Orderly, UnitInv, NEW w \in Workers, worker(w)
    PROVE  WorkerMove /\ HandsInv'
BY WorkerControls, WorkerKeepsUnit, TopMoves, CheckMoves, PublishMoves
DEF worker, WorkerMove

-----------------------------------------------------------------------------
\* A move of a worker keeps the invariant.

LEMMA MoveKeepsPlaces ==
    ASSUME UnitInv, WorkerMove, UNCHANGED <<cpc, curr_unit, heap>>
    PROVE  PlaceInv'
<1>0. PlaceInv /\ UNCHANGED <<Forming, heap, cpc>>
    BY DEF UnitInv, Forming
<1>1. CASE Rest
    BY <1>0, <1>1 DEF Rest, lists, mem, PlaceInv
<1>2. ASSUME NEW u \in Units, Takes(u) PROVE PlaceInv'
    BY <1>0, <1>2, SMTT(30) DEF Takes, mem, PlaceInv
<1>3. ASSUME NEW u \in Units, Requeues(u) PROVE PlaceInv'
    BY <1>0, <1>3, SMTT(30) DEF Requeues, Drops, PlaceInv
<1>4. ASSUME NEW u \in Units, Discards(u) PROVE PlaceInv'
    BY <1>0, <1>4, SMTT(30) DEF Discards, Drops, PlaceInv, lists
<1>5. ASSUME NEW u \in Units, Fails(u) PROVE PlaceInv'
    BY <1>0, <1>5, SMTT(30) DEF Fails, Drops, PlaceInv
<1>6. ASSUME NEW u \in Units, Publishes(u) PROVE PlaceInv'
    BY <1>0, <1>6, SMTT(30) DEF Publishes, Drops, PlaceInv
<1>7. ASSUME NEW u \in Units, Loses(u) PROVE PlaceInv'
    BY <1>0, <1>7 DEF Loses, Drops, PlaceInv, lists
<1> QED
    BY <1>1, <1>2, <1>3, <1>4, <1>5, <1>6, <1>7 DEF WorkerMove

LEMMA MoveKeepsStatus ==
    ASSUME UnitInv, WorkerMove, Running
    PROVE  StatusInv'
<1>0. /\ StatusInv /\ PlaceInv
      /\ unit_queue \subseteq Units /\ active_units \subseteq Units
      /\ obsolete_units \subseteq Units
    BY DEF UnitInv, TypeOK, TypeLists
<1>1. CASE Rest
    <2>1. UNCHANGED <<unit_queue, active_units, obsolete_units>> /\ SameUis /\ SameMarks(Hands)
        BY <1>1 DEF Rest, lists
    <2>2. \A u \in unit_queue \cup active_units \cup obsolete_units : u \notin Hands
        BY <1>0 DEF PlaceInv
    <2> QED
        BY <1>0, <2>1, <2>2 DEF StatusInv, SameUis, SameMarks
<1>2. ASSUME NEW u \in Units, SameUis, SameMarks({u}), unit_queue' = unit_queue,
             active_units' = active_units, obsolete_units' = obsolete_units,
             u \notin unit_queue \cup active_units \cup obsolete_units
      PROVE  StatusInv'
    BY <1>0, <1>2 DEF StatusInv, SameUis, SameMarks
<1>3. ASSUME NEW u \in Units, Takes(u) PROVE StatusInv'
    <2>1. u \notin active_units \cup obsolete_units
        BY <1>0, <1>3 DEF PlaceInv, Takes
    <2> QED
        BY <1>0, <1>3, <2>1 DEF StatusInv, Takes, SameUis, SameMarks
<1>4. ASSUME NEW u \in Units, Drops(u)
      PROVE  u \notin unit_queue \cup active_units \cup obsolete_units
    BY <1>0, <1>4 DEF PlaceInv, Drops
<1>5. ASSUME NEW u \in Units, Requeues(u) PROVE StatusInv'
    <2>1. u \notin unit_queue \cup active_units \cup obsolete_units
        BY <1>4, <1>5 DEF Requeues
    <2> QED
        BY <1>0, <1>5, <2>1 DEF StatusInv, Requeues, SameUis, SameMarks
<1>6. ASSUME NEW u \in Units, Discards(u) PROVE StatusInv'
    BY <1>2, <1>4, <1>6 DEF Discards, lists
<1>7. ASSUME NEW u \in Units, Fails(u) PROVE StatusInv'
    <2>1. u \notin unit_queue \cup active_units \cup obsolete_units
        BY <1>4, <1>7 DEF Fails
    <2> QED
        BY <1>0, <1>7, <2>1 DEF StatusInv, Fails, SameUis, SameMarks
<1>8. ASSUME NEW u \in Units, Publishes(u) PROVE StatusInv'
    <2>1. u \notin unit_queue \cup active_units \cup obsolete_units
        BY <1>4, <1>8 DEF Publishes
    <2> QED
        BY <1>0, <1>8, <2>1 DEF StatusInv, Publishes, SameUis, SameMarks
<1> QED
    BY <1>1, <1>3, <1>5, <1>6, <1>7, <1>8 DEF WorkerMove, Loses

\* discard_unit takes the unit from its iseq, and from no other one.
LEMMA IseqLosesUnit ==
    ASSUME TypeOK, NEW u \in Units, NEW i \in Iseqs, ui' = [ui EXCEPT ![i].unit = None]
    PROVE  /\ ui'[i].unit = None /\ \A j \in Iseqs : j # i => ui'[j] = ui[j]
           /\ \A j \in Iseqs : ui'[j].iseq = ui[j].iseq
<1>0. ui \in [Iseqs -> UiType]
    BY DEF TypeOK, TypeIseqs
<1> DEFINE r == [ui[i] EXCEPT !.unit = None]
<1>1. r.unit = None /\ r.iseq = ui[i].iseq /\ ui' = [ui EXCEPT ![i] = r]
    BY <1>0 DEF UiType
<1> HIDE DEF r
<1> QED
    BY <1>0, <1>1

LEMMA KnownUnits ==
    ASSUME UnitInv
    PROVE  /\ Owned \subseteq Units /\ obsolete_units \subseteq Units
           /\ \A i \in Iseqs : ui[i].unit \in Units \cup {None}
           /\ \A u \in Units : unit[u].ui \in Iseqs \cup {None}
           /\ None \notin Units /\ None \notin Iseqs /\ "NOT_ADDED" \notin Units
<1>1. Owned \subseteq Units /\ obsolete_units \subseteq Units
    BY HeldIsUnit DEF UnitInv, TypeOK, TypeLists, Owned, Forming
<1>2. \A i \in Iseqs : ui[i].unit \in Units \cup {None}
    BY DEF UnitInv, TypeOK, TypeIseqs, UiType
<1>3. \A u \in Units : unit[u].ui \in Iseqs \cup {None}
    BY DEF UnitInv, TypeOK, TypeUnits, UnitType
<1>4. None \notin Units /\ None \notin Iseqs /\ "NOT_ADDED" \notin Units
    BY UnitsAssumption, IseqsAssumption DEF NotCode
<1> QED
    BY <1>1, <1>2, <1>3, <1>4

\* The units that iseqs point at stay the same.
SameIseqs == \A i \in Iseqs : ui'[i].unit = ui[i].unit /\ ui'[i].iseq = ui[i].iseq

LEMMA SameOwners ==
    ASSUME UnitInv, Running, SameUis, SameIseqs,
           Owned' \cup obsolete_units' \subseteq Owned \cup obsolete_units,
           Owned' \subseteq Owned,
           free_unit_list' \cup heap' = free_unit_list \cup heap,
           mjit_init_p' => /\ mjit_init_p
                           /\ Owned' \cup obsolete_units' = Owned \cup obsolete_units
    PROVE  OwnInv'
<1>0. OwnInv /\ Owned' \subseteq Units /\ Owned' \cup obsolete_units' \subseteq Units
    BY KnownUnits DEF UnitInv
<1>1. \A u \in Units : unit'[u].ui = unit[u].ui
    BY DEF SameUis
<1>2. ASSUME NEW u \in Owned' \cup obsolete_units'
      PROVE  unit'[u].ui \in Iseqs /\ ui'[unit'[u].ui].iseq
    <2>1. unit'[u].ui = unit[u].ui /\ unit[u].ui \in Iseqs /\ ui[unit[u].ui].iseq
        BY <1>0, <1>1, <1>2 DEF OwnInv
    <2> QED
        BY <2>1 DEF SameIseqs
<1>3. ASSUME NEW u \in Owned' PROVE ui'[unit'[u].ui].unit = u
    <2>1. /\ unit'[u].ui = unit[u].ui /\ unit[u].ui \in Iseqs
          /\ ui[unit[u].ui].unit = u
        BY <1>0, <1>1, <1>3 DEF OwnInv
    <2> QED
        BY <2>1 DEF SameIseqs
<1>4. ASSUME NEW i \in Iseqs, ui'[i].unit # None
      PROVE  unit'[ui'[i].unit].ui = i /\ ui'[i].unit \notin free_unit_list' \cup heap'
    <2>1. ui'[i].unit = ui[i].unit /\ ui[i].unit \in Units
        BY <1>4, KnownUnits DEF SameIseqs
    <2> QED
        BY <1>0, <1>1, <1>4, <2>1 DEF OwnInv
<1>5. ASSUME mjit_init_p', NEW i \in Iseqs
      PROVE  ui'[i].unit \in Owned' \cup obsolete_units' \cup {None}
    BY <1>0, <1>5 DEF OwnInv, SameIseqs
<1> QED
    BY <1>2, <1>3, <1>4, <1>5 DEF OwnInv

\* A unit in the hands of a worker and its iseq point at each other; nothing
\* else points at either of them.
LEMMA HandOwner ==
    ASSUME UnitInv, Running, NEW u \in Hands
    PROVE  LET i == unit[u].ui IN
           /\ u \in Units /\ i \in Iseqs /\ ui[i].unit = u
           /\ u \notin obsolete_units /\ u \notin active_units
           /\ \A j \in Iseqs : ui[j].unit = u => j = i
           /\ \A v \in Owned : v # u => unit[v].ui # i
<1>1. OwnInv /\ u \in Owned /\ u \in Units /\ u # None
    BY KnownUnits DEF UnitInv, Owned
<1>2. u \notin obsolete_units /\ u \notin active_units
    BY DEF UnitInv, PlaceInv
<1>3. unit[u].ui \in Iseqs /\ ui[unit[u].ui].unit = u
    BY <1>1 DEF OwnInv
<1>4. ASSUME NEW j \in Iseqs, ui[j].unit = u PROVE j = unit[u].ui
    BY <1>1, <1>4 DEF OwnInv
<1>5. ASSUME NEW v \in Owned, v # u PROVE unit[v].ui # unit[u].ui
    <2>1. ui[unit[v].ui].unit = v
        BY <1>1, <1>5 DEF OwnInv
    <2> QED
        BY <1>3, <1>5, <2>1
<1> QED
    BY <1>1, <1>2, <1>3, <1>4, <1>5

LEMMA MoveKeepsOwners ==
    ASSUME UnitInv, WorkerMove, Running, UNCHANGED <<curr_unit, heap>>,
           mjit_init_p' => mjit_init_p
    PROVE  OwnInv'
<1>0. PlaceInv /\ Forming' = Forming /\ heap' = heap
    BY DEF UnitInv, Forming
<1>1. CASE Rest
    <2>1. Owned' = Owned /\ obsolete_units' = obsolete_units /\ free_unit_list' = free_unit_list
        BY <1>0, <1>1 DEF Rest, lists, mem, Owned
    <2> QED
        BY <1>0, <1>1, <2>1, SameOwners DEF Rest, SameIseqs
<1>2. ASSUME NEW u \in Units, Takes(u) PROVE OwnInv'
    <2>1. Owned' = Owned /\ obsolete_units' = obsolete_units /\ free_unit_list' = free_unit_list
        BY <1>0, <1>2 DEF Takes, mem, Owned
    <2> QED
        BY <1>0, <1>2, <2>1, SameOwners DEF Takes, SameIseqs
<1>3. ASSUME NEW u \in Units, Requeues(u) PROVE OwnInv'
    <2>1. Owned' = Owned /\ obsolete_units' = obsolete_units /\ free_unit_list' = free_unit_list
        BY <1>0, <1>3 DEF Requeues, Drops, Owned
    <2> QED
        BY <1>0, <1>3, <2>1, SameOwners DEF Requeues, SameIseqs
<1>4. ASSUME NEW u \in Units, Fails(u) PROVE OwnInv'
    <2>1. /\ Owned' \cup obsolete_units' = Owned \cup obsolete_units /\ Owned' \subseteq Owned
          /\ free_unit_list' = free_unit_list
        BY <1>0, <1>4 DEF Fails, Drops, Owned
    <2> QED
        BY <1>0, <1>4, <2>1, SameOwners DEF Fails, SameIseqs
<1>5. ASSUME NEW u \in Units, Publishes(u) PROVE OwnInv'
    <2>1. Owned' = Owned /\ obsolete_units' = obsolete_units /\ free_unit_list' = free_unit_list
        BY <1>0, <1>5 DEF Publishes, Drops, Owned
    <2> QED
        BY <1>0, <1>5, <2>1, SameOwners DEF Publishes, SameIseqs
<1>6. ASSUME NEW u \in Units, Discards(u) PROVE OwnInv'
    <2> DEFINE i == unit[u].ui
    <2>1. /\ i \in Iseqs /\ ui[i].unit = u /\ u \in Hands
          /\ \A j \in Iseqs : ui[j].unit = u => j = i
          /\ \A v \in Owned : v # u => unit[v].ui # i
        BY <1>6, HandOwner DEF Discards, Drops
    <2>2. /\ ui'[i].unit = None /\ \A j \in Iseqs : j # i => ui'[j] = ui[j]
          /\ \A j \in Iseqs : ui'[j].iseq = ui[j].iseq
        BY <1>6, <2>1, IseqLosesUnit DEF UnitInv, Discards
    <2>3. /\ Owned' = Owned \ {u} /\ obsolete_units' = obsolete_units
          /\ free_unit_list' = free_unit_list \cup {u}
        BY <1>0, <1>6, <2>1 DEF Discards, Drops, Owned, lists, PlaceInv
    <2>4. OwnInv /\ Owned \subseteq Units /\ obsolete_units \subseteq Units
          /\ \A v \in Units : unit'[v].ui = unit[v].ui
        BY <1>6, KnownUnits DEF UnitInv, Discards, SameUis
    <2> HIDE DEF i
    <2>5. (\A v \in Owned \cup obsolete_units : unit[v].ui \in Iseqs /\ ui[unit[v].ui].iseq)'
        BY <2>2, <2>3, <2>4 DEF OwnInv
    <2>6. (\A v \in Owned : ui[unit[v].ui].unit = v)'
        <3> SUFFICES ASSUME NEW v \in Owned, v # u PROVE ui'[unit'[v].ui].unit = v
            BY <2>3
        <3>1. v \in Units /\ unit'[v].ui = unit[v].ui /\ unit[v].ui # i /\ unit[v].ui \in Iseqs
              /\ ui[unit[v].ui].unit = v
            BY <2>1, <2>4 DEF OwnInv
        <3>2. ui'[unit[v].ui] = ui[unit[v].ui]
            BY <2>2, <3>1
        <3> QED
            BY <3>1, <3>2
    <2>7. ASSUME NEW j \in Iseqs, ui'[j].unit # None
          PROVE  unit'[ui'[j].unit].ui = j /\ ui'[j].unit \notin free_unit_list' \cup heap'
        <3>1. j # i /\ ui'[j].unit = ui[j].unit /\ ui[j].unit # u /\ ui[j].unit \in Units
            BY <2>1, <2>2, <2>7, KnownUnits
        <3> QED
            BY <1>0, <2>3, <2>4, <2>7, <3>1 DEF OwnInv
    <2>8. ASSUME mjit_init_p', NEW j \in Iseqs
          PROVE  ui'[j].unit \in Owned' \cup obsolete_units' \cup {None}
        BY <2>1, <2>2, <2>3, <2>4, <2>8 DEF OwnInv
    <2> QED
        BY <2>5, <2>6, <2>7, <2>8 DEF OwnInv
<1> QED
    BY <1>1, <1>2, <1>3, <1>4, <1>5, <1>6 DEF WorkerMove, Loses

\* The code of an iseq whose unit is in the hands of a worker is never relied
\* on by anyone.
LEMMA HandCode ==
    ASSUME UnitInv, Running, NEW u \in Hands
    PROVE  LET i == unit[u].ui IN
           /\ ~IsCode(i) /\ i \in Iseqs /\ ui[i].unit = u
           /\ \A v \in active_units : unit[v].ui # i /\ unit[v].ui \in Iseqs
           /\ Adding \/ cpc \in {"redo", "enqueue"} => ciseq # i
<1>1. /\ unit[u].ui \in Iseqs /\ ui[unit[u].ui].unit = u
      /\ u \notin obsolete_units /\ u \notin active_units
      /\ \A v \in Owned : v # u => unit[v].ui # unit[u].ui
      /\ u \in Units /\ u # None
    BY HandOwner, KnownUnits
<1>2. OwnInv /\ CodeInv /\ ClientInv /\ TypeOK
    BY DEF UnitInv
<1>3. ~IsCode(unit[u].ui)
    <2>1. \A i \in Iseqs : IsCode(i) => ui[i].unit \in active_units
        BY <1>2 DEF CodeInv
    <2> QED
        BY <1>1, <2>1
<1>4. \A v \in active_units : v \in Owned /\ v # u
    BY <1>1 DEF Owned
<1>5. \A v \in active_units : unit[v].ui # unit[u].ui /\ unit[v].ui \in Iseqs
    BY <1>1, <1>2, <1>4 DEF OwnInv
<1>6. Adding => ciseq # unit[u].ui
    BY <1>1, <1>2 DEF ClientInv
<1>7. cpc = "redo" => ciseq # unit[u].ui
    BY <1>2, <1>3 DEF ClientInv
<1>8. ASSUME cpc = "enqueue" PROVE ciseq # unit[u].ui
    <2>1. curr_unit \in Units
        BY <1>2, <1>8 DEF TypeOK, TypeClient
    <2>2. curr_unit \in Forming
        BY <2>1, KnownUnits DEF Forming
    <2>3. curr_unit \in Owned /\ curr_unit # u
        BY <2>2 DEF Owned, UnitInv, PlaceInv
    <2> QED
        BY <1>1, <1>2, <1>8, <2>3 DEF ClientInv
<1>9. Adding \/ cpc \in {"redo", "enqueue"} => ciseq # unit[u].ui
    BY <1>6, <1>7, <1>8
<1> QED
    BY <1>1, <1>3, <1>5, <1>9

\* The worker changes the code of one iseq at most.
LEMMA CodeWritten ==
    ASSUME TypeOK, NEW i \in Iseqs, NEW c, jit_code' = [jit_code EXCEPT ![i] = c]
    PROVE  jit_code'[i] = c /\ \A j \in Iseqs : j # i => jit_code'[j] = jit_code[j]
<1>1. jit_code \in [Iseqs -> Units \cup NotCode]
    BY DEF TypeOK, TypeIseqs
<1> QED
    BY <1>1

LEMMA MoveKeepsCode ==
    ASSUME UnitInv, WorkerMove, Running, UNCHANGED <<cpc, ciseq, cret>>,
           mjit_init_p' => mjit_init_p
    PROVE  CodeInv'
<1>0. /\ CodeInv /\ OwnInv /\ TypeOK /\ active_units \subseteq Units
      /\ ciseq' = ciseq /\ cpc' = cpc /\ Adding' = Adding
    BY DEF UnitInv, TypeOK, TypeLists, Adding
<1>1. ASSUME UNCHANGED <<active_units, obsolete_units, ui, jit_code>>, SameUis
      PROVE  CodeInv'
    BY <1>0, <1>1 DEF CodeInv, IsCode, SameUis
<1>2. ASSUME NEW u \in Units, Discards(u) PROVE CodeInv'
    <2> DEFINE i == unit[u].ui
    <2>1. /\ i \in Iseqs /\ ~IsCode(i) /\ u \in Hands
          /\ \A v \in active_units : unit[v].ui # i /\ unit[v].ui \in Iseqs
        BY <1>2, HandCode DEF Discards, Drops
    <2>2. /\ ui'[i].unit = None /\ \A j \in Iseqs : j # i => ui'[j] = ui[j]
        BY <1>2, <2>1, IseqLosesUnit DEF UnitInv, Discards
    <2>3. /\ \A j \in Iseqs : j # i => jit_code'[j] = jit_code[j]
          /\ jit_code'[i] \in {jit_code[i], "NOT_ADDED"}
        BY <1>0, <1>2, <2>1, CodeWritten DEF Discards
    <2>4. /\ active_units' = active_units /\ obsolete_units' = obsolete_units
          /\ None \notin obsolete_units /\ "NOT_ADDED" \notin Units
          /\ \A v \in Units : unit'[v].ui = unit[v].ui
        BY <1>2, KnownUnits DEF Discards, lists, SameUis
    <2> HIDE DEF i
    <2>5. ASSUME NEW j \in Iseqs, IsCode(j)'
          PROVE  jit_code'[j] \in active_units' /\ ui'[j].unit = jit_code'[j]
        <3>1. j # i
            BY <2>1, <2>3, <2>4, <2>5 DEF IsCode
        <3> QED
            BY <1>0, <2>2, <2>3, <2>4, <2>5, <3>1 DEF CodeInv, IsCode
    <2>6. \A v \in active_units' : jit_code'[unit'[v].ui] = v
        BY <1>0, <2>1, <2>3, <2>4 DEF CodeInv
    <2>7. ASSUME NEW j \in Iseqs, jit_code'[j] = "NOT_ADDED"
          PROVE  ui'[j].unit \in obsolete_units' \cup {None}
        BY <1>0, <2>2, <2>3, <2>4, <2>7 DEF CodeInv
    <2>8. ASSUME mjit_init_p', NEW j \in Iseqs, ui'[j].unit \in obsolete_units'
          PROVE  jit_code'[j] = "NOT_ADDED" \/ (ciseq = j /\ (Adding \/ cpc = "bounded"))
        BY <1>0, <2>2, <2>3, <2>4, <2>8 DEF CodeInv
    <2> QED
        BY <1>0, <2>5, <2>6, <2>7, <2>8 DEF CodeInv
<1>3. ASSUME NEW u \in Units, Fails(u) PROVE CodeInv'
    <2> DEFINE i == unit[u].ui
    <2>1. /\ i \in Iseqs /\ ~IsCode(i) /\ ui[i].unit = u
          /\ \A v \in active_units : unit[v].ui # i /\ unit[v].ui \in Iseqs
          /\ \A j \in Iseqs : ui[j].unit = u => j = i
        BY <1>3, HandCode, HandOwner DEF Fails, Drops
    <2>2. jit_code'[i] = "NOT_ADDED" /\ \A j \in Iseqs : j # i => jit_code'[j] = jit_code[j]
        BY <1>0, <1>3, <2>1, CodeWritten DEF Fails
    <2>3. /\ active_units' = active_units /\ obsolete_units' = obsolete_units \cup {u}
          /\ ui' = ui /\ "NOT_ADDED" \notin Units
          /\ \A v \in Units : unit'[v].ui = unit[v].ui
        BY <1>3, KnownUnits DEF Fails, SameUis
    <2> HIDE DEF i
    <2>4. ASSUME NEW j \in Iseqs, IsCode(j)'
          PROVE  jit_code'[j] \in active_units' /\ ui'[j].unit = jit_code'[j]
        BY <1>0, <2>2, <2>3, <2>4 DEF CodeInv, IsCode
    <2>5. \A v \in active_units' : jit_code'[unit'[v].ui] = v
        <3> SUFFICES ASSUME NEW v \in active_units PROVE jit_code'[unit'[v].ui] = v
            BY <2>3
        <3>1. v \in Units /\ jit_code[unit[v].ui] = v
            BY <1>0 DEF CodeInv
        <3>2. unit'[v].ui = unit[v].ui /\ jit_code'[unit[v].ui] = jit_code[unit[v].ui]
            BY <2>1, <2>2, <2>3, <3>1
        <3> QED
            BY <3>1, <3>2
    <2>6. ASSUME NEW j \in Iseqs, jit_code'[j] = "NOT_ADDED"
          PROVE  ui'[j].unit \in obsolete_units' \cup {None}
        BY <1>0, <2>1, <2>2, <2>3, <2>6 DEF CodeInv
    <2>7. ASSUME mjit_init_p', NEW j \in Iseqs, ui'[j].unit \in obsolete_units'
          PROVE  jit_code'[j] = "NOT_ADDED" \/ (ciseq = j /\ (Adding \/ cpc = "bounded"))
        BY <1>0, <2>1, <2>2, <2>3, <2>7 DEF CodeInv
    <2> QED
        BY <1>0, <2>4, <2>5, <2>6, <2>7 DEF CodeInv
<1>4. ASSUME NEW u \in Units, Publishes(u) PROVE CodeInv'
    <2> DEFINE i == unit[u].ui
    <2>1. /\ i \in Iseqs /\ ui[i].unit = u /\ u \notin obsolete_units
          /\ \A v \in active_units : unit[v].ui # i /\ unit[v].ui \in Iseqs
        BY <1>4, HandCode, HandOwner DEF Publishes, Drops
    <2>2. jit_code'[i] = u /\ \A j \in Iseqs : j # i => jit_code'[j] = jit_code[j]
        BY <1>0, <1>4, <2>1, CodeWritten DEF Publishes
    <2>3. /\ active_units' = active_units \cup {u} /\ obsolete_units' = obsolete_units
          /\ ui' = ui /\ u # "NOT_ADDED"
          /\ \A v \in Units : unit'[v].ui = unit[v].ui
        BY <1>4, KnownUnits DEF Publishes, SameUis
    <2>0. unit'[u].ui = i
        BY <2>3
    <2> HIDE DEF i
    <2>4. ASSUME NEW j \in Iseqs, IsCode(j)'
          PROVE  jit_code'[j] \in active_units' /\ ui'[j].unit = jit_code'[j]
        BY <1>0, <2>1, <2>2, <2>3, <2>4 DEF CodeInv, IsCode
    <2>5. \A v \in active_units' : jit_code'[unit'[v].ui] = v
        <3>1. ASSUME NEW v \in active_units PROVE jit_code'[unit'[v].ui] = v
            <4>1. v \in Units /\ jit_code[unit[v].ui] = v
                BY <1>0 DEF CodeInv
            <4>2. unit'[v].ui = unit[v].ui /\ jit_code'[unit[v].ui] = jit_code[unit[v].ui]
                BY <2>1, <2>2, <2>3, <4>1
            <4> QED
                BY <4>1, <4>2
        <3> QED
            BY <2>0, <2>2, <2>3, <3>1
    <2>6. ASSUME NEW j \in Iseqs, jit_code'[j] = "NOT_ADDED"
          PROVE  ui'[j].unit \in obsolete_units' \cup {None}
        BY <1>0, <2>2, <2>3, <2>6 DEF CodeInv
    <2>7. ASSUME mjit_init_p', NEW j \in Iseqs, ui'[j].unit \in obsolete_units'
          PROVE  jit_code'[j] = "NOT_ADDED" \/ (ciseq = j /\ (Adding \/ cpc = "bounded"))
        <3>1. ui[j].unit \in obsolete_units
            BY <2>3, <2>7
        <3>2. j # i
            BY <2>1, <3>1
        <3>3. jit_code[j] = "NOT_ADDED" \/ (ciseq = j /\ (Adding \/ cpc = "bounded"))
            BY <1>0, <2>7, <3>1 DEF CodeInv
        <3> QED
            BY <2>2, <3>2, <3>3
    <2> QED
        BY <1>0, <2>4, <2>5, <2>6, <2>7 DEF CodeInv
<1> QED
    BY <1>1, <1>2, <1>3, <1>4 DEF WorkerMove, Rest, Takes, Requeues, Loses, lists

LEMMA MoveKeepsClient ==
    ASSUME UnitInv, WorkerMove, Running, UNCHANGED <<cpc, ciseq, cret, curr_unit>>
    PROVE  ClientInv'
<1>0. /\ ClientInv /\ TypeOK /\ ciseq' = ciseq /\ cpc' = cpc /\ curr_unit' = curr_unit
      /\ Adding' = Adding /\ SameUis
      /\ cpc = "enqueue" => curr_unit \in Units
      /\ Adding \/ cpc \in {"redo", "enqueue"} => ciseq \in Iseqs
    BY DEF UnitInv, Adding, TypeOK, TypeClient, WorkerMove, Rest, Takes, Requeues,
           Discards, Fails, Publishes, Loses
<1>1. cpc = "enqueue" => unit'[curr_unit].ui = ciseq
    BY <1>0 DEF SameUis, ClientInv
<1>2. ASSUME \/ Adding
             \/ cpc \in {"redo", "enqueue"}
      PROVE  jit_code'[ciseq] = jit_code[ciseq]
    <2>1. ASSUME NEW u \in Hands PROVE unit[u].ui \in Iseqs /\ ciseq # unit[u].ui
        BY <1>2, <2>1, HandCode
    <2>2. \/ jit_code' = jit_code
          \/ \E u \in Hands : \E c : jit_code' = [jit_code EXCEPT ![unit[u].ui] = c]
        BY DEF WorkerMove, Rest, Takes, Requeues, Discards, Fails, Publishes, Loses, Drops
    <2>3. ASSUME NEW u \in Hands, NEW c, jit_code' = [jit_code EXCEPT ![unit[u].ui] = c]
          PROVE  jit_code'[ciseq] = jit_code[ciseq]
        BY <1>0, <1>2, <2>1, <2>3, CodeWritten
    <2> QED
        BY <2>2, <2>3
<1>3. ASSUME Adding
      PROVE  ui'[ciseq].unit \in obsolete_units' \cup {None}
    <2>1. ASSUME NEW u \in Units, Discards(u) PROVE ui'[ciseq].unit \in {ui[ciseq].unit, None}
        <3>1. unit[u].ui \in Iseqs
            BY <2>1, HandCode DEF Discards, Drops
        <3> QED
            BY <1>0, <1>3, <2>1, <3>1, IseqLosesUnit DEF Discards
    <2>2. ui'[ciseq].unit \in {ui[ciseq].unit, None} /\ obsolete_units \subseteq obsolete_units'
        BY <2>1 DEF WorkerMove, Rest, Takes, Requeues, Discards, Fails, Publishes, Loses,
                    lists
    <2> QED
        BY <1>0, <1>3, <2>2 DEF ClientInv
<1> QED
    BY <1>0, <1>1, <1>2, <1>3 DEF ClientInv, IsCode

LEMMA WorkerKeepsUnits ==
    ASSUME Orderly, UnitInv, TypeOK', NEW w \in Workers, worker(w)
    PROVE  UnitInv'
<1>1. WorkerMove /\ HandsInv'
    BY WorkerMoves
<1>2. /\ UNCHANGED <<cpc, ciseq, cret, curr_unit, heap>>
      /\ mjit_init_p' => mjit_init_p
    BY WorkerFrame
<1>3. PlaceInv'
    BY <1>1, <1>2, MoveKeepsPlaces
<1>4. Running' <=> Running
    BY <1>2 DEF Running
<1>5. Running => StatusInv' /\ OwnInv' /\ CodeInv' /\ ClientInv'
    BY <1>1, <1>2, MoveKeepsStatus, MoveKeepsOwners, MoveKeepsCode, MoveKeepsClient
<1> QED
    BY <1>1, <1>3, <1>4, <1>5 DEF UnitInv

-----------------------------------------------------------------------------
\* The moves of the client.

LEMMA HandsSame ==
    ASSUME UNCHANGED wv
    PROVE  Hands' = Hands /\ (HandsInv => HandsInv')
<1>1. \A v \in Workers : (Held(v)' <=> Held(v)) /\ wunit'[v] = wunit[v]
    BY DEF wv, Held
<1> QED
    BY <1>1, HandsStay

\* A step that only moves the client on: it touches no list, no pointer and no
\* code.
Moves ==
    /\ UNCHANGED <<lists, mem, ui, jit_code, Hands, mjit_init_p>>
    /\ SameUis /\ SameMarks({})
    /\ cpc' # "done" => cpc # "done"
    /\ cpc = "enqueue" <=> cpc' = "enqueue"
    /\ cpc = "enqueue" => ciseq' = ciseq
    /\ Adding' => Adding /\ ciseq' = ciseq
    /\ cpc = "add" /\ Adding' => mjit_init_p \/ cpc' = "add"
    /\ mjit_init_p /\ (Adding \/ cpc = "bounded") =>
          ciseq' = ciseq /\ (Adding' \/ cpc' = "bounded")
    /\ cpc' = "redo" => IsCode(ciseq') \/ (cpc = "redo" /\ ciseq' = ciseq)

LEMMA MovesKeepUnits ==
    ASSUME UnitInv, TypeOK', HandsInv', Moves
    PROVE  UnitInv'
<1>0. /\ unit_queue' = unit_queue /\ active_units' = active_units
      /\ obsolete_units' = obsolete_units /\ free_unit_list' = free_unit_list
      /\ heap' = heap /\ curr_unit' = curr_unit /\ ui' = ui /\ jit_code' = jit_code
      /\ Hands' = Hands /\ Forming' = Forming /\ Owned' = Owned
      /\ mjit_init_p' = mjit_init_p
    BY DEF Moves, lists, mem, Forming, Owned
<1>1. PlaceInv'
    BY <1>0 DEF UnitInv, PlaceInv, Moves
<1> SUFFICES ASSUME Running' PROVE StatusInv' /\ OwnInv' /\ CodeInv' /\ ClientInv'
    BY <1>1 DEF UnitInv
<1>2. /\ Running /\ StatusInv /\ OwnInv /\ CodeInv /\ ClientInv
      /\ \A u \in Units : /\ unit'[u].ui = unit[u].ui /\ unit'[u].status = unit[u].status
                          /\ unit'[u].handle = unit[u].handle
    BY DEF UnitInv, Moves, Running, SameUis, SameMarks
<1>3. /\ unit_queue \subseteq Units /\ active_units \subseteq Units
      /\ obsolete_units \subseteq Units
    BY DEF UnitInv, TypeOK, TypeLists
<1>4. StatusInv'
    BY <1>0, <1>2, <1>3 DEF StatusInv
<1>5. OwnInv'
    <2>1. SameUis /\ SameIseqs
        BY <1>0 DEF Moves, SameIseqs
    <2>2. /\ Owned' \cup obsolete_units' = Owned \cup obsolete_units /\ Owned' \subseteq Owned
          /\ free_unit_list' \cup heap' = free_unit_list \cup heap
        BY <1>0
    <2> QED
        BY <1>0, <1>2, <2>1, <2>2, SameOwners
<1>6. CodeInv'
    <2>1. /\ \A i \in Iseqs : IsCode(i)' => jit_code'[i] \in active_units' /\ ui'[i].unit = jit_code'[i]
          /\ \A u \in active_units' : jit_code'[unit'[u].ui] = u
          /\ \A i \in Iseqs : jit_code'[i] = "NOT_ADDED" => ui'[i].unit \in obsolete_units' \cup {None}
        <3>1. \A u \in active_units : unit'[u].ui = unit[u].ui
            BY <1>2, <1>3
        <3>2. \A u \in active_units' : jit_code'[unit'[u].ui] = u
            BY <1>0, <1>2, <3>1 DEF CodeInv
        <3> QED
            BY <1>0, <1>2, <3>2 DEF CodeInv, IsCode
    <2>2. ASSUME mjit_init_p', NEW i \in Iseqs, ui'[i].unit \in obsolete_units'
          PROVE  jit_code'[i] = "NOT_ADDED" \/ (ciseq' = i /\ (Adding' \/ cpc' = "bounded"))
        <3>1. jit_code[i] = "NOT_ADDED" \/ (ciseq = i /\ (Adding \/ cpc = "bounded"))
            BY <1>0, <1>2, <2>2 DEF CodeInv
        <3> QED
            BY <1>0, <2>2, <3>1, SMTT(30) DEF Moves
    <2> QED
        BY <2>1, <2>2 DEF CodeInv
<1>7. ClientInv'
    <2>1. cpc' = "redo" => IsCode(ciseq)'
        BY <1>0, <1>2 DEF ClientInv, Moves, IsCode
    <2>2. Adding' => /\ ui'[ciseq'].unit \in obsolete_units' \cup {None}
                     /\ jit_code'[ciseq'] # "NOT_ADDED"
        BY <1>0, <1>2 DEF ClientInv, Moves
    <2>3. ASSUME cpc' = "enqueue"
          PROVE  jit_code'[ciseq'] # "NOT_ADDED" /\ unit'[curr_unit'].ui = ciseq'
        <3>1. cpc = "enqueue" /\ curr_unit \in Units
            BY <2>3 DEF Moves, UnitInv, TypeOK, TypeClient
        <3> QED
            BY <1>0, <1>2, <3>1 DEF ClientInv, Moves
    <2> QED
        BY <2>1, <2>2, <2>3 DEF ClientInv
<1> QED
    BY <1>4, <1>5, <1>6, <1>7

\* The steps of the client, of the header thread and of the scheduler that
\* only move the client on.
LEMMA ControlMoves ==
    ASSUME UnitInv,
           \/ \E ok \in BOOLEAN : make_pch(ok)
           \/ \E t \in Threads : Spurious(t)
           \/ \E i \in Iseqs : ClientSpecFail(i) \/ ClientAotCall(i)
           \/ \E b \in BOOLEAN : TraceSet(b)
           \/ AddStart \/ increase_unit_priority \/ mjit_get_iseq_fun
           \/ BopRedefined \/ TraceRecalc \/ GcEnter \/ mjit_gc_start \/ mjit_gc_finish
           \/ FinishStart \/ FinishPch \/ FinishFlag \/ FinishWake
           \/ ClientAbort \/ MemoryBound \/ UNCHANGED vars
    PROVE  Moves /\ HandsInv'
<1>1. UNCHANGED <<lists, mem, ui, jit_code, wv, mjit_init_p>>
    BY DEF make_pch, Spurious, ClientSpecFail, ClientAotCall, TraceSet, AddStart,
        increase_unit_priority, mjit_get_iseq_fun, BopRedefined, TraceRecalc, GcEnter,
        mjit_gc_start, mjit_gc_finish, FinishStart, FinishPch, FinishFlag, FinishWake,
        ClientAbort, Abort, MemoryBound, vars, iseqs, state
<1>2. Hands' = Hands /\ HandsInv'
    BY <1>1, HandsSame DEF UnitInv
<1>3. SameUis /\ SameMarks({})
    <2>1. CASE increase_unit_priority
        <3> DEFINE u == ui[ciseq].unit
                   r == [unit[u] EXCEPT !.high_priority_p = TRUE]
        <3>0. unit \in [Units -> UnitType] /\ unit' = [unit EXCEPT ![u] = r]
            BY <2>1 DEF UnitInv, TypeOK, TypeUnits, increase_unit_priority
        <3>1. CASE u \in Units
            <4>1. r.ui = unit[u].ui /\ r.status = unit[u].status /\ r.handle = unit[u].handle
                BY <3>0, <3>1 DEF UnitType
            <4> HIDE DEF r
            <4>2. unit'[u] = r /\ \A v \in Units : v # u => unit'[v] = unit[v]
                BY <3>0, <3>1
            <4> QED
                BY <4>1, <4>2 DEF SameUis, SameMarks
        <3>2. CASE u \notin Units
            <4>1. \A v \in Units : unit'[v] = unit[v]
                BY <3>0, <3>2
            <4> QED
                BY <4>1 DEF SameUis, SameMarks
        <3> QED
            BY <3>1, <3>2
    <2>2. CASE UNCHANGED unit
        BY <2>2 DEF SameUis, SameMarks
    <2> QED
        BY <2>1, <2>2
        DEF make_pch, Spurious, ClientSpecFail, ClientAotCall, TraceSet, AddStart,
            mjit_get_iseq_fun, BopRedefined, TraceRecalc, GcEnter,
            mjit_gc_start, mjit_gc_finish, FinishStart, FinishPch, FinishFlag, FinishWake,
            ClientAbort, Abort, MemoryBound, vars
<1>4. /\ cpc' # "done" => cpc # "done"
      /\ cpc = "enqueue" <=> cpc' = "enqueue"
      /\ cpc = "enqueue" => ciseq' = ciseq
      /\ Adding' => Adding /\ ciseq' = ciseq
      /\ cpc = "add" /\ Adding' => mjit_init_p \/ cpc' = "add"
      /\ mjit_init_p /\ (Adding \/ cpc = "bounded") =>
            ciseq' = ciseq /\ (Adding' \/ cpc' = "bounded")
      /\ cpc' = "redo" => IsCode(ciseq') \/ (cpc = "redo" /\ ciseq' = ciseq)
    <2>0. cret \in {"run", "create"}
        BY DEF UnitInv, TypeOK, TypeClient
    <2>1. CASE \/ \E i \in Iseqs : ClientSpecFail(i) \/ ClientAotCall(i)
               \/ \E b \in BOOLEAN : TraceSet(b)
        BY <2>1 DEF ClientSpecFail, ClientAotCall, TraceSet, Adding, IsCode
    <2>2. CASE AddStart \/ increase_unit_priority \/ mjit_get_iseq_fun
        BY <2>2 DEF AddStart, increase_unit_priority, mjit_get_iseq_fun, Adding
    <2>3. CASE BopRedefined \/ TraceRecalc \/ FinishStart \/ FinishPch \/ FinishFlag \/ FinishWake
        BY <2>3 DEF BopRedefined, TraceRecalc, FinishStart, FinishPch, FinishFlag,
                    FinishWake, Adding, cv
    <2>4. CASE GcEnter
        BY <2>4 DEF GcEnter, Adding
    <2>5. CASE mjit_gc_start
        BY <2>5 DEF mjit_gc_start, Adding
    <2>6. CASE mjit_gc_finish
        BY <2>0, <2>6 DEF mjit_gc_finish, Adding
    <2>7. CASE MemoryBound
        BY <2>7 DEF MemoryBound, Adding
    <2>8. CASE UNCHANGED cv
        BY <2>8 DEF cv, Adding
    <2>9. ASSUME \/ \E ok \in BOOLEAN : make_pch(ok)
                 \/ \E t \in Threads : Spurious(t)
                 \/ ClientAbort \/ UNCHANGED vars
          PROVE  UNCHANGED cv
        BY <2>9 DEF make_pch, Spurious, ClientAbort, Abort, vars
    <2> QED
        BY <2>1, <2>2, <2>3, <2>4, <2>5, <2>6, <2>7, <2>8, <2>9
<1> QED
    BY <1>1, <1>2, <1>3, <1>4 DEF Moves

\* mjit_execute_iseq_0 and mjit_aot_process: an iseq without a unit of use is to
\* be added.
Adds(i) ==
    /\ UNCHANGED <<lists, mem, ui, unit, Hands, mjit_init_p>>
    /\ cpc = "run" /\ cpc' = "add" /\ ciseq' = i /\ jit_code[i] = "NOT_ADDED" /\ mjit_init_p
    /\ jit_code' = [jit_code EXCEPT ![i] = NotReady]

LEMMA CallMoves ==
    ASSUME UnitInv, NEW i \in Iseqs, ClientCall(i) \/ mjit_aot_process(i)
    PROVE  (Moves \/ Adds(i)) /\ HandsInv'
<1>1. UNCHANGED <<lists, mem, ui, unit, wv, mjit_init_p>>
    BY DEF ClientCall, mjit_aot_process, state
<1>2. Hands' = Hands /\ HandsInv'
    BY <1>1, HandsSame DEF UnitInv
<1>3. CASE ClientCall(i) /\ calls'[i] = NumCallsToAdd
    BY <1>1, <1>2, <1>3 DEF ClientCall, Adds, NotReady
<1>4. CASE mjit_aot_process(i)
    BY <1>1, <1>2, <1>4 DEF mjit_aot_process, Adds, NotReady
<1>5. CASE ClientCall(i) /\ calls'[i] # NumCallsToAdd
    <2>1. UNCHANGED <<jit_code, cpc, ciseq, cret>>
        BY <1>5 DEF ClientCall
    <2>2. cpc = "run" /\ SameUis /\ SameMarks({})
        BY <1>1, <1>5 DEF ClientCall, SameUis, SameMarks
    <2> QED
        BY <1>1, <1>2, <2>1, <2>2 DEF Moves, Adding
<1> QED
    BY <1>3, <1>4, <1>5

LEMMA AddsKeepUnits ==
    ASSUME UnitInv, TypeOK', HandsInv', NEW i \in Iseqs, Adds(i)
    PROVE  UnitInv'
<1>0. /\ unit_queue' = unit_queue /\ active_units' = active_units
      /\ obsolete_units' = obsolete_units /\ free_unit_list' = free_unit_list
      /\ heap' = heap /\ curr_unit' = curr_unit /\ ui' = ui /\ unit' = unit
      /\ Hands' = Hands /\ Forming' = Forming /\ Owned' = Owned
      /\ mjit_init_p' = mjit_init_p /\ Forming = {} /\ Running
      /\ cpc = "run" /\ ~Adding /\ Adding' /\ cpc' = "add" /\ ciseq' = i
      /\ jit_code[i] = "NOT_ADDED"
    BY DEF Adds, lists, mem, Forming, Owned, Adding, Running, UnitInv, PlaceInv
<1>1. PlaceInv'
    BY <1>0 DEF UnitInv, PlaceInv
<1>2. StatusInv /\ OwnInv /\ CodeInv /\ TypeOK /\ active_units \subseteq Units
    BY <1>0 DEF UnitInv, TypeOK, TypeLists
<1>3. StatusInv' /\ OwnInv'
    BY <1>0, <1>2 DEF StatusInv, OwnInv
<1>5. /\ jit_code'[i] = NotReady /\ NotReady # "NOT_ADDED" /\ NotReady \notin Units
      /\ \A j \in Iseqs : j # i => jit_code'[j] = jit_code[j]
    BY <1>2, CodeWritten, UnitsAssumption DEF Adds, NotReady, NotCode
<1>6. CodeInv'
    <2>1. \A j \in Iseqs : IsCode(j)' => jit_code'[j] \in active_units' /\ ui'[j].unit = jit_code'[j]
        BY <1>0, <1>2, <1>5 DEF CodeInv, IsCode
    <2>2. ASSUME NEW u \in active_units PROVE jit_code'[unit[u].ui] = u
        <3>1. /\ jit_code[unit[u].ui] = u /\ unit[u].ui \in Iseqs /\ u # "NOT_ADDED"
            <4>1. u \in Owned /\ u \in Units
                BY <1>2 DEF Owned
            <4> QED
                BY <1>2, <4>1, KnownUnits DEF CodeInv, OwnInv
        <3> QED
            BY <1>0, <1>5, <3>1
    <2>3. \A j \in Iseqs : jit_code'[j] = "NOT_ADDED" => ui'[j].unit \in obsolete_units' \cup {None}
        BY <1>0, <1>2, <1>5 DEF CodeInv
    <2>4. ASSUME mjit_init_p', NEW j \in Iseqs, ui'[j].unit \in obsolete_units'
          PROVE  jit_code'[j] = "NOT_ADDED" \/ (ciseq' = j /\ (Adding' \/ cpc' = "bounded"))
        <3>1. jit_code[j] = "NOT_ADDED"
            BY <1>0, <1>2, <2>4 DEF CodeInv
        <3> QED
            BY <1>0, <1>5, <3>1
    <2> QED
        BY <1>0, <2>1, <2>2, <2>3, <2>4 DEF CodeInv
<1>7. ClientInv'
    <2>1. ui'[ciseq'].unit \in obsolete_units' \cup {None} /\ jit_code'[ciseq'] # "NOT_ADDED"
        BY <1>0, <1>2, <1>5 DEF CodeInv
    <2>2. cpc' # "redo" /\ cpc' # "enqueue"
        BY <1>0
    <2> QED
        BY <2>1, <2>2 DEF ClientInv
<1> QED
    BY <1>1, <1>3, <1>6, <1>7 DEF UnitInv


\* create_iseq_unit: a free structure becomes the unit of ciseq.
Forms(u) ==
    /\ u \in free_unit_list \cup heap /\ cpc = "create" /\ cpc' = "enqueue"
    /\ free_unit_list' = free_unit_list \ {u} /\ heap' = heap \ {u} /\ curr_unit' = u
    /\ UNCHANGED <<lists, jit_code, Hands, mjit_init_p, ciseq>>
    /\ unit'[u].ui = ciseq /\ ui'[ciseq].unit = u /\ ui'[ciseq].iseq
    /\ \A v \in Units : v # u => unit'[v] = unit[v]
    /\ \A i \in Iseqs : i # ciseq => ui'[i] = ui[i]

LEMMA CreateMoves ==
    ASSUME Orderly, UnitInv, create_iseq_unit
    PROVE  (\E u \in Units : Forms(u)) /\ HandsInv'
<1>1. Hands' = Hands /\ HandsInv'
    BY HandsSame DEF UnitInv, create_iseq_unit
<1>2. /\ UNCHANGED <<lists, jit_code, mjit_init_p, ciseq>> /\ cpc = "create"
      /\ cpc' = "enqueue"
    BY DEF create_iseq_unit, state
<1>3. /\ unit \in [Units -> UnitType] /\ ui \in [Iseqs -> UiType] /\ ciseq \in Iseqs
      /\ free_unit_list \cup heap \subseteq Units
    BY <1>2 DEF UnitInv, TypeOK, TypeUnits, TypeIseqs, TypeClient, TypeLists
<1>4. PICK u \in Available :
          /\ curr_unit' = u /\ Pop(u) /\ unit' = [unit EXCEPT ![u] = NewUnit(ciseq)]
          /\ ui' = [ui EXCEPT ![ciseq] =
                       [@ EXCEPT !.unit = u, !.made = TRUE, !.iseq = TRUE]]
    BY DEF create_iseq_unit
<1>5. u \in free_unit_list \cup heap
    BY DEF Available
<1>6. free_unit_list' = free_unit_list \ {u} /\ heap' = heap \ {u}
    BY <1>4 DEF Pop, Orderly
<1>7. unit'[u] = NewUnit(ciseq) /\ \A v \in Units : v # u => unit'[v] = unit[v]
    BY <1>3, <1>4, <1>5
<1>8. NewUnit(ciseq).ui = ciseq
    BY DEF NewUnit
<1> DEFINE r == [ui[ciseq] EXCEPT !.unit = u, !.made = TRUE, !.iseq = TRUE]
<1>9. r.unit = u /\ r.iseq /\ ui' = [ui EXCEPT ![ciseq] = r]
    BY <1>3, <1>4 DEF UiType
<1> HIDE DEF r
<1>10. ui'[ciseq] = r /\ \A i \in Iseqs : i # ciseq => ui'[i] = ui[i]
    BY <1>3, <1>9
<1>11. Forms(u)
    BY <1>1, <1>2, <1>4, <1>5, <1>6, <1>7, <1>8, <1>9, <1>10 DEF Forms
<1> QED
    BY <1>1, <1>3, <1>5, <1>11

LEMMA FormsKeepsUnits ==
    ASSUME UnitInv, TypeOK', HandsInv', NEW u \in Units, Forms(u)
    PROVE  UnitInv'
<1>0. /\ unit_queue' = unit_queue /\ active_units' = active_units
      /\ obsolete_units' = obsolete_units /\ free_unit_list' = free_unit_list \ {u}
      /\ heap' = heap \ {u} /\ curr_unit' = u /\ jit_code' = jit_code
      /\ Hands' = Hands /\ mjit_init_p' = mjit_init_p /\ ciseq' = ciseq
      /\ cpc = "create" /\ cpc' = "enqueue" /\ u \in free_unit_list \cup heap
    BY DEF Forms, lists
<1>1. /\ Forming = {} /\ Running /\ Adding /\ ~(Adding') /\ ciseq \in Iseqs /\ u # None
      /\ Forming' = {u} /\ Owned' = Owned \cup {u}
    BY <1>0, KnownUnits
    DEF Forming, Running, Adding, UnitInv, PlaceInv, TypeOK, TypeClient, Owned
<1>2. u \notin Owned /\ u \notin obsolete_units /\ Owned \cap obsolete_units = {}
    BY <1>0, <1>1 DEF UnitInv, PlaceInv, Owned
<1>3. PlaceInv'
    <2>1. PlaceInv
        BY DEF UnitInv
    <2> QED
        BY <1>0, <1>1, <1>2, <2>1, SMTT(30) DEF PlaceInv, Owned
<1>4. StatusInv /\ OwnInv /\ CodeInv /\ ClientInv
    BY <1>1 DEF UnitInv
<1>5. /\ \A v \in Owned \cup obsolete_units : v # u /\ v \in Units /\ unit'[v] = unit[v]
      /\ unit_queue \subseteq Owned /\ active_units \subseteq Owned
    BY <1>2, KnownUnits DEF Forms, Owned
<1>6. /\ unit'[u].ui = ciseq /\ ui'[ciseq].unit = u /\ ui'[ciseq].iseq
      /\ \A i \in Iseqs : i # ciseq => ui'[i] = ui[i]
      /\ ui[ciseq].unit \in obsolete_units \cup {None} /\ jit_code[ciseq] # "NOT_ADDED"
    BY <1>1, <1>4 DEF Forms, ClientInv
<1>7. \A v \in Owned : unit[v].ui # ciseq
    <2>1. None \notin Owned
        BY KnownUnits
    <2> QED
        BY <1>2, <1>4, <1>6, <2>1, SMTT(30) DEF OwnInv
<1>8. StatusInv'
    BY <1>0, <1>4, <1>5 DEF StatusInv
<1>9. OwnInv'
    <2>1. ASSUME NEW v \in Owned \cup obsolete_units
          PROVE  unit'[v].ui \in Iseqs /\ ui'[unit'[v].ui].iseq
        <3>1. unit'[v] = unit[v] /\ unit[v].ui \in Iseqs /\ ui[unit[v].ui].iseq
            BY <1>4, <1>5 DEF OwnInv
        <3>2. unit[v].ui # ciseq => ui'[unit[v].ui] = ui[unit[v].ui]
            BY <1>6, <3>1
        <3> QED
            BY <1>6, <3>1, <3>2
    <2>2. ASSUME NEW v \in Owned PROVE ui'[unit'[v].ui].unit = v
        <3>1. /\ unit'[v] = unit[v] /\ unit[v].ui \in Iseqs /\ unit[v].ui # ciseq
              /\ ui[unit[v].ui].unit = v
            BY <1>4, <1>5, <1>7 DEF OwnInv
        <3> QED
            BY <1>6, <3>1
    <2>3. ASSUME NEW i \in Iseqs, ui'[i].unit # None
          PROVE  unit'[ui'[i].unit].ui = i /\ ui'[i].unit \notin free_unit_list' \cup heap'
        <3>1. CASE i = ciseq
            BY <1>0, <1>6, <3>1
        <3>2. CASE i # ciseq
            <4>1. ui'[i] = ui[i] /\ ui[i].unit \in Units /\ unit[ui[i].unit].ui = i
                  /\ ui[i].unit \notin free_unit_list \cup heap
                BY <1>4, <1>6, <2>3, <3>2, KnownUnits DEF OwnInv
            <4>2. unit'[ui[i].unit] = unit[ui[i].unit]
                BY <1>0, <4>1 DEF Forms
            <4> QED
                BY <1>0, <4>1, <4>2
        <3> QED
            BY <3>1, <3>2
    <2>4. ASSUME mjit_init_p', NEW i \in Iseqs
          PROVE  ui'[i].unit \in Owned' \cup obsolete_units' \cup {None}
        BY <1>0, <1>1, <1>4, <1>6, <2>4 DEF OwnInv
    <2>5. \A v \in Owned' \cup obsolete_units' : unit'[v].ui \in Iseqs /\ ui'[unit'[v].ui].iseq
        BY <1>0, <1>1, <1>6, <2>1
    <2>6. \A v \in Owned' : ui'[unit'[v].ui].unit = v
        BY <1>1, <1>6, <2>2
    <2> QED
        BY <2>3, <2>4, <2>5, <2>6 DEF OwnInv
<1>10. CodeInv'
    <2>1. ASSUME NEW i \in Iseqs, IsCode(i)
          PROVE  jit_code[i] \in active_units /\ ui'[i].unit = jit_code[i]
        <3>1. jit_code[i] \in active_units /\ ui[i].unit = jit_code[i]
            BY <1>4, <2>1 DEF CodeInv
        <3>2. i # ciseq
            BY <1>2, <1>5, <1>6, <3>1, KnownUnits, SMTT(30)
        <3> QED
            BY <1>6, <3>1, <3>2
    <2>2. ASSUME NEW v \in active_units PROVE jit_code[unit'[v].ui] = v
        BY <1>4, <1>5 DEF CodeInv
    <2>3. ASSUME NEW i \in Iseqs, jit_code[i] = "NOT_ADDED"
          PROVE  ui'[i].unit \in obsolete_units \cup {None}
        BY <1>4, <1>6, <2>3 DEF CodeInv
    <2>4. ASSUME mjit_init_p, NEW i \in Iseqs, ui'[i].unit \in obsolete_units
          PROVE  jit_code[i] = "NOT_ADDED"
        <3>1. i # ciseq
            BY <1>2, <1>6, <2>4
        <3> QED
            BY <1>4, <1>6, <2>4, <3>1 DEF CodeInv
    <2> QED
        BY <1>0, <2>1, <2>2, <2>3, <2>4 DEF CodeInv, IsCode
<1>11. ClientInv'
    <2>1. cpc' # "redo"
        BY <1>0
    <2> QED
        BY <1>0, <1>1, <1>6, <2>1 DEF ClientInv
<1> QED
    BY <1>3, <1>8, <1>9, <1>10, <1>11 DEF UnitInv


\* mjit_add_iseq_to_process: the unit goes to the queue, with the active units E
\* that unload_units takes out of the cache for the next time (ahead of time
\* compilation); the other ones it takes out, and the unused obsolete ones, are
\* freed: G.
Enqueues(E, G) ==
    /\ cpc = "enqueue" /\ cpc' = "run" /\ UNCHANGED <<heap, Hands, mjit_init_p>>
    /\ E \subseteq active_units /\ G \subseteq active_units \cup obsolete_units
    /\ E \cap G = {} /\ curr_unit' = None
    /\ unit_queue' = unit_queue \cup {curr_unit} \cup E
    /\ active_units' = active_units \ (E \cup G) /\ obsolete_units' = obsolete_units \ G
    /\ free_unit_list' = free_unit_list \cup G
    /\ SameUis /\ SameMarks(E \cup G \cup {curr_unit})
    /\ \A u \in E \cup {curr_unit} : unit'[u].status = "IN_QUEUE"
    /\ G # {} => \A u \in obsolete_units : ui[unit[u].ui].unit # u
    /\ Aot => G \subseteq obsolete_units
    /\ \A i \in Iseqs :
          LET hit(S) == \E u \in S : unit[u].ui = i IN
          /\ ui'[i].iseq = ui[i].iseq
          /\ ui'[i].unit = IF hit(G \cap active_units) THEN None ELSE ui[i].unit
          /\ IF hit((E \cup G) \cap active_units)
             THEN jit_code'[i] = NotReady ELSE jit_code'[i] = jit_code[i]

LEMMA EnqueueKeepsUnits ==
    ASSUME UnitInv, TypeOK', HandsInv', NEW E, NEW G, Enqueues(E, G)
    PROVE  UnitInv'
<1> DEFINE A == G \cap active_units
           hit(S, i) == \E u \in S : unit[u].ui = i
<1>0. /\ cpc = "enqueue" /\ cpc' = "run" /\ heap' = heap /\ Hands' = Hands
      /\ E \subseteq active_units /\ G \subseteq active_units \cup obsolete_units
      /\ E \cap G = {} /\ curr_unit' = None
      /\ unit_queue' = unit_queue \cup {curr_unit} \cup E
      /\ active_units' = active_units \ (E \cup G) /\ obsolete_units' = obsolete_units \ G
      /\ free_unit_list' = free_unit_list \cup G /\ mjit_init_p' = mjit_init_p
    BY DEF Enqueues
<1>1. /\ curr_unit \in Units /\ Forming = {curr_unit} /\ Forming' = {} /\ Running
      /\ ~Adding /\ ~(Adding')
    BY <1>0, KnownUnits DEF UnitInv, TypeOK, TypeClient, Forming, Running, Adding
<1>2. PlaceInv /\ StatusInv /\ OwnInv /\ CodeInv /\ TypeOK
    BY <1>1 DEF UnitInv
<1>3. PlaceInv'
    BY <1>0, <1>1, <1>2 DEF PlaceInv
<1>4. /\ Owned' = Owned \ A /\ active_units \subseteq Owned
      /\ A \subseteq active_units /\ E \cup A \subseteq active_units
    BY <1>0, <1>1, <1>2 DEF Owned, PlaceInv
<1>5. /\ unit_queue \subseteq Units /\ active_units \subseteq Units
      /\ obsolete_units \subseteq Units /\ Owned \subseteq Units
    BY <1>2, KnownUnits DEF TypeOK, TypeLists
<1>6. \A v \in Units : unit'[v].ui = unit[v].ui
    BY DEF Enqueues, SameUis
<1>7. \A i \in Iseqs :
          /\ ui'[i].iseq = ui[i].iseq
          /\ hit(A, i) => ui'[i].unit = None
          /\ ~hit(A, i) => ui'[i].unit = ui[i].unit
          /\ hit(E \cup A, i) => jit_code'[i] = NotReady
          /\ ~hit(E \cup A, i) => jit_code'[i] = jit_code[i]
    <2>1. (E \cup G) \cap active_units = E \cup A
        BY <1>0
    <2> QED
        BY <2>1 DEF Enqueues
\* The iseqs that are hit are the ones whose unit is taken out.
<1>8. /\ \A v \in Owned : unit[v].ui \in Iseqs /\ ui[unit[v].ui].unit = v
      /\ \A v \in obsolete_units : unit[v].ui \in Iseqs /\ ui[unit[v].ui].iseq
      /\ \A v \in Owned : ui[unit[v].ui].iseq
    BY <1>2 DEF OwnInv
<1>9. ASSUME NEW S \in SUBSET active_units, NEW v \in Owned, v \notin S
      PROVE  ~hit(S, unit[v].ui)
    BY <1>4, <1>8, <1>9
<1>10. \A i \in Iseqs : ui[i].unit # None => /\ unit[ui[i].unit].ui = i
                                            /\ ui[i].unit \in Units
                                            /\ ui[i].unit \notin free_unit_list \cup heap
    BY <1>2, KnownUnits DEF OwnInv
<1>11. \A i \in Iseqs : ui[i].unit \in obsolete_units => ui[i].unit \notin G
    <2> SUFFICES ASSUME NEW i \in Iseqs, ui[i].unit \in obsolete_units, ui[i].unit \in G
                 PROVE  FALSE
        OBVIOUS
    <2>1. ui[unit[ui[i].unit].ui].unit # ui[i].unit
        BY DEF Enqueues
    <2>2. ui[i].unit # None
        BY <1>5, KnownUnits
    <2> QED
        BY <1>10, <2>1, <2>2
<1> HIDE DEF A
<1>12. StatusInv'
    <2>1. \A v \in Units : v \notin E \cup G \cup {curr_unit} =>
              unit'[v].status = unit[v].status /\ unit'[v].handle = unit[v].handle
        BY DEF Enqueues, SameMarks
    <2>2. \A v \in E \cup {curr_unit} : unit'[v].status = "IN_QUEUE"
        BY DEF Enqueues
    <2>3. /\ \A v \in unit_queue : v \notin E \cup G \cup {curr_unit}
          /\ \A v \in active_units \ (E \cup G) : v \notin E \cup G \cup {curr_unit}
          /\ \A v \in obsolete_units \ G : v \notin E \cup G \cup {curr_unit}
        BY <1>0, <1>1, <1>2 DEF PlaceInv
    <2>4. \A v \in unit_queue' : unit'[v].status = "IN_QUEUE"
        BY <1>0, <1>2, <1>5, <2>1, <2>2, <2>3 DEF StatusInv
    <2>5. \A v \in active_units' : unit'[v].status = "LOADED" /\ unit'[v].handle = unit'[v].ui
        BY <1>0, <1>2, <1>5, <1>6, <2>1, <2>3 DEF StatusInv
    <2>6. \A v \in obsolete_units' : unit'[v].status = "FAILED" /\ unit'[v].handle # None
        BY <1>0, <1>2, <1>5, <2>1, <2>3 DEF StatusInv
    <2> QED
        BY <2>4, <2>5, <2>6 DEF StatusInv
<1>13. OwnInv'
    <2>1. ASSUME NEW v \in Owned' \cup obsolete_units'
          PROVE  unit'[v].ui \in Iseqs /\ ui'[unit'[v].ui].iseq
        <3>1. v \in Units /\ unit[v].ui \in Iseqs /\ ui[unit[v].ui].iseq
            BY <1>0, <1>4, <1>5, <1>8
        <3> QED
            BY <1>6, <1>7, <3>1
    <2>2. ASSUME NEW v \in Owned' PROVE ui'[unit'[v].ui].unit = v
        <3>1. v \in Owned /\ v \notin A /\ v \in Units /\ unit'[v].ui = unit[v].ui
            BY <1>4, <1>5, <1>6
        <3>2. ~hit(A, unit[v].ui)
            BY <1>4, <1>9, <3>1
        <3>3. unit[v].ui \in Iseqs /\ ui[unit[v].ui].unit = v
            BY <1>8, <3>1
        <3>4. ui'[unit[v].ui].unit = ui[unit[v].ui].unit
            BY <1>7, <3>2, <3>3
        <3> QED
            BY <3>1, <3>3, <3>4
    <2>3. ASSUME NEW i \in Iseqs, ui'[i].unit # None
          PROVE  unit'[ui'[i].unit].ui = i /\ ui'[i].unit \notin free_unit_list' \cup heap'
        <3>1. ~hit(A, i) /\ ui'[i].unit = ui[i].unit
            BY <1>7, <2>3
        <3>2. unit[ui[i].unit].ui = i /\ ui[i].unit \in Units
            BY <1>10, <2>3, <3>1
        <3>3. ui[i].unit \notin A
            BY <3>1, <3>2
        <3>4. ui[i].unit \notin free_unit_list \cup heap /\ ui[i].unit \notin G
            BY <1>0, <1>10, <1>11, <2>3, <3>1, <3>3 DEF A
        <3> QED
            BY <1>0, <1>6, <3>1, <3>2, <3>4
    <2>4. ASSUME mjit_init_p', NEW i \in Iseqs
          PROVE  ui'[i].unit \in Owned' \cup obsolete_units' \cup {None}
        <3>1. CASE hit(A, i)
            BY <1>7, <3>1
        <3>2. CASE ~hit(A, i)
            <4>1. ui'[i].unit = ui[i].unit /\ ui[i].unit \in Owned \cup obsolete_units \cup {None}
                BY <1>0, <1>2, <1>7, <2>4, <3>2 DEF OwnInv
            <4>2. ui[i].unit # None => ui[i].unit \notin A
                BY <1>10, <3>2
            <4> QED
                BY <1>0, <1>4, <1>11, <4>1, <4>2
        <3> QED
            BY <3>1, <3>2
    <2> QED
        BY <2>1, <2>2, <2>3, <2>4 DEF OwnInv
<1>14. CodeInv'
    <2>0. NotReady \notin Units /\ NotReady # "NOT_ADDED"
        BY UnitsAssumption DEF NotReady, NotCode
    <2>1. ASSUME NEW i \in Iseqs, IsCode(i)'
          PROVE  jit_code'[i] \in active_units' /\ ui'[i].unit = jit_code'[i]
        <3>1. ~hit(E \cup A, i) /\ jit_code'[i] = jit_code[i]
            BY <1>7, <2>0, <2>1 DEF IsCode
        <3>2. jit_code[i] \in active_units /\ ui[i].unit = jit_code[i] /\ jit_code[i] # None
            BY <1>2, <1>5, <2>1, <3>1, KnownUnits DEF CodeInv, IsCode
        <3>3. unit[jit_code[i]].ui = i
            BY <1>10, <3>2
        <3>4. jit_code[i] \notin E \cup A /\ ~hit(A, i)
            BY <3>1, <3>3
        <3>5. jit_code[i] \in active_units'
            BY <1>0, <3>2, <3>4 DEF A
        <3> QED
            BY <1>7, <3>1, <3>2, <3>4, <3>5
    <2>2. ASSUME NEW v \in active_units' PROVE jit_code'[unit'[v].ui] = v
        <3>1. v \in active_units /\ v \in Owned /\ v \notin E \cup A /\ unit'[v].ui = unit[v].ui
            BY <1>0, <1>4, <1>5, <1>6 DEF A
        <3>2. ~hit(E \cup A, unit[v].ui)
            BY <1>4, <1>9, <3>1
        <3>3. jit_code[unit[v].ui] = v /\ unit[v].ui \in Iseqs
            BY <1>2, <1>8, <3>1 DEF CodeInv
        <3> QED
            BY <1>7, <3>1, <3>2, <3>3
    <2>3. ASSUME NEW i \in Iseqs, jit_code'[i] = "NOT_ADDED"
          PROVE  ui'[i].unit \in obsolete_units' \cup {None}
        <3>1. ~hit(E \cup A, i) /\ jit_code[i] = "NOT_ADDED"
            BY <1>7, <2>0, <2>3
        <3>2. ~hit(A, i) /\ ui[i].unit \in obsolete_units \cup {None}
            BY <1>2, <3>1 DEF CodeInv
        <3> QED
            BY <1>0, <1>7, <1>11, <3>2
    <2>4. ASSUME mjit_init_p', NEW i \in Iseqs, ui'[i].unit \in obsolete_units'
          PROVE  jit_code'[i] = "NOT_ADDED"
        <3>1. ~hit(A, i) /\ ui[i].unit \in obsolete_units /\ ui[i].unit \notin active_units
              /\ ui[i].unit # None
            <4>1. ui'[i].unit # None /\ ui'[i].unit \in obsolete_units
                BY <1>0, <1>5, <2>4, KnownUnits
            <4>2. ~hit(A, i) /\ ui'[i].unit = ui[i].unit
                BY <1>7, <4>1
            <4> QED
                BY <1>2, <4>1, <4>2 DEF PlaceInv
        <3>2. jit_code[i] = "NOT_ADDED"
            BY <1>0, <1>1, <1>2, <2>4, <3>1 DEF CodeInv
        <3>3. ASSUME NEW v \in E \cup A PROVE unit[v].ui # i
            <4>1. v \in active_units /\ ui[unit[v].ui].unit = v
                BY <1>4, <1>8
            <4> QED
                BY <3>1, <4>1
        <3> QED
            BY <1>7, <3>2, <3>3
    <2> QED
        BY <2>1, <2>2, <2>3, <2>4 DEF CodeInv
<1>15. ClientInv'
    BY <1>0, <1>1 DEF ClientInv
<1> QED
    BY <1>3, <1>12, <1>13, <1>14, <1>15 DEF UnitInv

LEMMA FreedFields ==
    ASSUME NEW r \in UnitType
    PROVE  Freed(r).ui = r.ui
BY DEF Freed, UnitType

LEMMA EnqueueMoves ==
    ASSUME UnitInv, mjit_add_iseq_to_process
    PROVE  (\E E \in SUBSET Units, G \in SUBSET Units : Enqueues(E, G)) /\ HandsInv'
<1>1. Hands' = Hands /\ HandsInv'
    BY HandsSame DEF UnitInv, mjit_add_iseq_to_process
<1>2. /\ cpc = "enqueue" /\ cpc' = "run" /\ heap' = heap /\ mjit_init_p' = mjit_init_p
      /\ curr_unit' = None
    BY DEF mjit_add_iseq_to_process, state
<1>3. /\ unit \in [Units -> UnitType] /\ ui \in [Iseqs -> UiType]
      /\ curr_unit \in Units /\ jit_code \in [Iseqs -> NotCode \cup Units]
      /\ active_units \subseteq Units /\ obsolete_units \subseteq Units
    BY <1>2 DEF UnitInv, TypeOK, TypeUnits, TypeIseqs, TypeClient, TypeLists
<1>4. curr_unit \notin active_units \cup obsolete_units /\ active_units \cap obsolete_units = {}
    BY <1>2, <1>3, KnownUnits DEF UnitInv, PlaceInv, Forming
<1>5. ASSUME ~CacheFull PROVE Enqueues({}, {})
    <2>1. /\ unit_queue' = unit_queue \cup {curr_unit}
          /\ unit' = [unit EXCEPT ![curr_unit].status = "IN_QUEUE"]
          /\ UNCHANGED <<active_units, obsolete_units, free_unit_list, ui, jit_code>>
        BY <1>5 DEF mjit_add_iseq_to_process
    <2> DEFINE r == [unit[curr_unit] EXCEPT !.status = "IN_QUEUE"]
    <2>2. r.ui = unit[curr_unit].ui /\ r.status = "IN_QUEUE" /\ unit' = [unit EXCEPT ![curr_unit] = r]
        BY <1>3, <2>1 DEF UnitType
    <2> HIDE DEF r
    <2>3. SameUis /\ SameMarks({curr_unit}) /\ unit'[curr_unit] = r
        BY <1>3, <2>2, UnitWritten DEF UnitInv
    <2> QED
        BY <1>1, <1>2, <2>1, <2>2, <2>3 DEF Enqueues
<1>6. ASSUME CanUnload, NEW used \in SUBSET Iseqs, NEW evicted \in Evictable(used),
             Unload(used, evicted)
      PROVE  \E E \in SUBSET Units, G \in SUBSET Units : Enqueues(E, G)
    <2> DEFINE old == Unused(obsolete_units, used)
               gone == old \cup (IF Aot THEN {} ELSE evicted)
               E == IF Aot THEN evicted ELSE {}
    <2>1. evicted \subseteq active_units /\ old \subseteq obsolete_units
        BY DEF Evictable, Unused
    <2>2. /\ obsolete_units' = obsolete_units \ gone
          /\ active_units' = active_units \ evicted
          /\ unit_queue' = unit_queue \cup {curr_unit} \cup E
          /\ free_unit_list' = free_unit_list \cup gone
        BY <1>6 DEF Unload
    <2>3. /\ gone \subseteq active_units \cup obsolete_units /\ E \subseteq active_units
          /\ E \cap gone = {} /\ gone \cap active_units = IF Aot THEN {} ELSE evicted
          /\ (E \cup gone) \cap active_units = evicted
          /\ active_units \ evicted = active_units \ (E \cup gone)
          /\ evicted \ gone = E /\ curr_unit \notin gone \cup E
          /\ Aot => gone \subseteq obsolete_units
        BY <1>4, <2>1
    <2>4. \A v \in Units : unit'[v] =
              CASE v = curr_unit -> [unit[v] EXCEPT !.status = "IN_QUEUE"]
                [] v \in gone -> Freed(unit[v])
                [] v \in evicted \ gone ->
                     [unit[v] EXCEPT !.status = "IN_QUEUE", !.handle = None]
                [] OTHER -> unit[v]
        BY <1>6 DEF Unload
    <2>5. \A i \in Iseqs :
              LET hit == \E u \in evicted : unit[u].ui = i IN
              /\ ui'[i] = IF hit /\ ~Aot THEN [ui[i] EXCEPT !.unit = None] ELSE ui[i]
              /\ jit_code'[i] = IF hit THEN NotReady ELSE jit_code[i]
        BY <1>6 DEF Unload
    <2> HIDE DEF gone, E
    <2>6. ASSUME NEW v \in Units
          PROVE  /\ unit'[v].ui = unit[v].ui
                 /\ v \in E \cup {curr_unit} => unit'[v].status = "IN_QUEUE"
                 /\ v \notin E \cup gone \cup {curr_unit} => unit'[v] = unit[v]
        <3>0. unit[v] \in UnitType /\ Freed(unit[v]).ui = unit[v].ui
            BY <1>3, FreedFields
        <3>1. CASE v = curr_unit
            <4>1. unit'[v] = [unit[v] EXCEPT !.status = "IN_QUEUE"]
                BY <2>3, <2>4, <3>1
            <4> QED
                BY <3>0, <3>1, <4>1 DEF UnitType
        <3>2. CASE v \in gone
            <4>1. unit'[v] = Freed(unit[v])
                BY <2>3, <2>4, <3>2
            <4> QED
                BY <2>3, <3>0, <3>2, <4>1
        <3>3. CASE v \in E
            <4>1. unit'[v] = [unit[v] EXCEPT !.status = "IN_QUEUE", !.handle = None]
                BY <2>3, <2>4, <3>3
            <4> QED
                BY <3>0, <3>3, <4>1 DEF UnitType
        <3>4. CASE v \notin E \cup gone \cup {curr_unit}
            <4>1. unit'[v] = unit[v]
                BY <2>3, <2>4, <3>4
            <4> QED
                BY <3>4, <4>1
        <3> QED
            BY <3>1, <3>2, <3>3, <3>4
    <2>7. ASSUME NEW i \in Iseqs
          PROVE  LET hit(S) == \E u \in S : unit[u].ui = i IN
                 /\ ui'[i].iseq = ui[i].iseq
                 /\ ui'[i].unit = IF hit(gone \cap active_units) THEN None ELSE ui[i].unit
                 /\ IF hit((E \cup gone) \cap active_units)
                    THEN jit_code'[i] = NotReady ELSE jit_code'[i] = jit_code[i]
        <3> DEFINE hit(S) == \E u \in S : unit[u].ui = i
        <3>1. IF hit((E \cup gone) \cap active_units)
              THEN jit_code'[i] = NotReady ELSE jit_code'[i] = jit_code[i]
            <4>1. jit_code'[i] = IF hit(evicted) THEN NotReady ELSE jit_code[i]
                BY <2>5
            <4> QED
                BY <2>3, <4>1
        <3>2. ui[i] \in UiType
            BY <1>3
        <3>3. [ui[i] EXCEPT !.unit = None].unit = None /\ [ui[i] EXCEPT !.unit = None].iseq = ui[i].iseq
            BY <3>2 DEF UiType
        <3>4. CASE Aot
            <4>1. ~hit(gone \cap active_units) /\ ui'[i] = ui[i]
                BY <2>3, <2>5, <3>4
            <4> QED
                BY <3>1, <4>1
        <3>5. CASE ~Aot
            <4>1. gone \cap active_units = evicted
                BY <2>3, <3>5
            <4>2. ui'[i] = IF hit(evicted) THEN [ui[i] EXCEPT !.unit = None] ELSE ui[i]
                BY <2>5, <3>5
            <4>3. ui'[i].iseq = ui[i].iseq /\ ui'[i].unit = IF hit(evicted) THEN None ELSE ui[i].unit
                BY <3>3, <4>2
            <4> QED
                BY <3>1, <4>1, <4>3
        <3> QED
            BY <3>4, <3>5
    <2>8. SameUis /\ SameMarks(E \cup gone \cup {curr_unit})
          /\ \A v \in E \cup {curr_unit} : unit'[v].status = "IN_QUEUE"
        <3>1. E \cup {curr_unit} \subseteq Units
            BY <1>3, <2>3
        <3> QED
            BY <2>6, <3>1 DEF SameUis, SameMarks
    <2>9. \A u \in obsolete_units : ui[unit[u].ui].unit # u
        BY <1>6 DEF CanUnload
    <2>10. Enqueues(E, gone)
        BY <1>1, <1>2, <2>2, <2>3, <2>7, <2>8, <2>9 DEF Enqueues
    <2> QED
        BY <1>3, <2>3, <2>10
<1>7. \/ ~CacheFull
      \/ /\ CanUnload
         /\ \E used \in SUBSET Iseqs : \E evicted \in Evictable(used) : Unload(used, evicted)
    BY DEF mjit_add_iseq_to_process
<1> QED
    BY <1>1, <1>5, <1>6, <1>7

\* mjit_redo_iseq: the code of ciseq becomes obsolete.
Obsoletes(u) ==
    /\ cpc = "redo" /\ cpc' = "add" /\ UNCHANGED <<unit_queue, mem, Hands, mjit_init_p, ciseq>>
    /\ u = ui[ciseq].unit /\ u # None
    /\ active_units' = active_units \ {u} /\ obsolete_units' = obsolete_units \cup {u}
    /\ SameUis /\ SameMarks({u}) /\ SameIseqs
    /\ unit'[u].status = "FAILED" /\ unit'[u].handle = unit[u].handle
    /\ jit_code' = [jit_code EXCEPT ![ciseq] = NotReady]

LEMMA RedoMoves ==
    ASSUME UnitInv, NEW b \in BOOLEAN, mjit_redo_iseq(b)
    PROVE  (Moves \/ \E u \in Units : Obsoletes(u)) /\ HandsInv'
<1> DEFINE u == ui[ciseq].unit
<1>1. Hands' = Hands /\ HandsInv'
    BY HandsSame DEF UnitInv, mjit_redo_iseq
<1>2. /\ cpc = "redo" /\ UNCHANGED <<unit_queue, mem, mjit_init_p>> /\ u # None
    BY DEF mjit_redo_iseq, state
<1>3. /\ unit \in [Units -> UnitType] /\ ui \in [Iseqs -> UiType] /\ ciseq \in Iseqs
    BY <1>2 DEF UnitInv, TypeOK, TypeUnits, TypeIseqs, TypeClient
<1>4. u \in Units
    BY <1>2, <1>3 DEF UiType
<1>5. CASE unit[u].status # "LOADED" \/ Exhausted(ciseq)
    <2>1. cpc' = "run" /\ UNCHANGED <<unit, ui, jit_code, active_units, obsolete_units>>
        BY <1>5 DEF mjit_redo_iseq
    <2>2. SameUis /\ SameMarks({})
        BY <2>1 DEF SameUis, SameMarks
    <2> QED
        BY <1>1, <1>2, <2>1, <2>2 DEF Moves, Adding, lists
<1>6. CASE ~(unit[u].status # "LOADED" \/ Exhausted(ciseq))
    <2>1. /\ ui' = [ui EXCEPT ![ciseq].jit_mutations_num = IF b THEN @ + 1 ELSE @]
          /\ active_units' = active_units \ {u} /\ obsolete_units' = obsolete_units \cup {u}
          /\ unit' = [unit EXCEPT ![u].status = "FAILED"]
          /\ jit_code' = [jit_code EXCEPT ![ciseq] = NotReady]
          /\ cpc' = "add" /\ ciseq' = ciseq
        BY <1>6 DEF mjit_redo_iseq, Obsolete, ResetCode
    <2> DEFINE r == [unit[u] EXCEPT !.status = "FAILED"]
    <2>2. /\ r.ui = unit[u].ui /\ r.status = "FAILED" /\ r.handle = unit[u].handle
          /\ unit' = [unit EXCEPT ![u] = r]
        BY <1>3, <1>4, <2>1 DEF UnitType
    <2> HIDE DEF r
    <2>3. SameUis /\ SameMarks({u}) /\ unit'[u] = r
        <3>1. TypeOK /\ u \in {u}
            BY DEF UnitInv
        <3> HIDE DEF u
        <3> QED
            BY <1>4, <2>2, <3>1, UnitWritten
    <2>4. SameIseqs
        <3>1. \A i \in Iseqs : i # ciseq => ui'[i] = ui[i]
            BY <1>3, <2>1
        <3>2. ui'[ciseq].unit = ui[ciseq].unit /\ ui'[ciseq].iseq = ui[ciseq].iseq
            BY <1>3, <2>1 DEF UiType
        <3> QED
            BY <3>1, <3>2 DEF SameIseqs
    <2>5. UNCHANGED <<unit_queue, mem, Hands, mjit_init_p, ciseq>>
        BY <1>1, <1>2, <2>1
    <2>6. unit'[u].status = "FAILED" /\ unit'[u].handle = unit[u].handle
        BY <2>2, <2>3
    <2>7. Obsoletes(u)
        BY <1>2, <2>1, <2>3, <2>4, <2>5, <2>6 DEF Obsoletes
    <2> QED
        BY <1>1, <1>4, <2>7
<1> QED
    BY <1>5, <1>6

LEMMA ObsoletesKeepsUnits ==
    ASSUME UnitInv, TypeOK', HandsInv', NEW u \in Units, Obsoletes(u)
    PROVE  UnitInv'
<1>0. /\ unit_queue' = unit_queue /\ active_units' = active_units \ {u}
      /\ obsolete_units' = obsolete_units \cup {u} /\ free_unit_list' = free_unit_list
      /\ heap' = heap /\ curr_unit' = curr_unit /\ Hands' = Hands /\ Forming' = Forming
      /\ mjit_init_p' = mjit_init_p /\ cpc = "redo" /\ cpc' = "add" /\ ciseq' = ciseq
      /\ u = ui[ciseq].unit
    BY DEF Obsoletes, mem, Forming
<1>1. Running /\ Adding' /\ ~Adding /\ ciseq \in Iseqs /\ cpc # "bounded"
    BY <1>0 DEF Running, Adding, UnitInv, TypeOK, TypeClient
<1>2. PlaceInv /\ StatusInv /\ OwnInv /\ CodeInv /\ ClientInv /\ TypeOK
    BY <1>1 DEF UnitInv
<1>3. jit_code[ciseq] = u /\ u \in active_units
    BY <1>0, <1>1, <1>2 DEF ClientInv, CodeInv
<1>4. PlaceInv'
    <2>1. Forming = {}
        BY <1>0, <1>2 DEF PlaceInv
    <2> QED
        BY <1>0, <1>2, <1>3, <2>1, SMTT(30) DEF PlaceInv
<1>5. /\ Owned' = Owned \ {u} /\ Owned' \cup obsolete_units' = Owned \cup obsolete_units
      /\ active_units \subseteq Owned
    BY <1>0, <1>2, <1>3 DEF Owned, PlaceInv
<1>6. OwnInv'
    <2>1. SameUis /\ SameIseqs
        BY DEF Obsoletes
    <2>2. Owned' \subseteq Owned /\ free_unit_list' \cup heap' = free_unit_list \cup heap
        BY <1>0, <1>5
    <2> QED
        BY <1>0, <1>1, <1>5, <2>1, <2>2, SameOwners
<1>7. /\ \A v \in Units : unit'[v].ui = unit[v].ui
      /\ \A v \in Units : v # u => /\ unit'[v].status = unit[v].status
                                   /\ unit'[v].handle = unit[v].handle
      /\ unit'[u].status = "FAILED" /\ unit'[u].handle = unit[u].handle
      /\ \A i \in Iseqs : ui'[i].unit = ui[i].unit
    BY DEF Obsoletes, SameUis, SameMarks, SameIseqs
<1>8. /\ unit_queue \subseteq Units /\ active_units \subseteq Units
      /\ obsolete_units \subseteq Units
      /\ u \notin unit_queue /\ u \notin obsolete_units
    BY <1>2, <1>3 DEF TypeOK, TypeLists, PlaceInv
<1>9. /\ unit[u].ui = ciseq /\ unit[u].handle = ciseq /\ ciseq # None
      /\ \A i \in Iseqs : ui[i].unit = u => i = ciseq
    <2>1. u # None /\ None \notin Iseqs
        BY KnownUnits
    <2>2. \A i \in Iseqs : ui[i].unit = u => unit[u].ui = i
        BY <1>2, <2>1 DEF OwnInv
    <2>3. unit[u].handle = unit[u].ui
        BY <1>2, <1>3 DEF StatusInv
    <2>4. unit[u].ui = ciseq
        BY <1>0, <1>1, <2>2
    <2> QED
        BY <1>1, <2>1, <2>2, <2>3, <2>4
<1>10. StatusInv'
    <2>1. \A v \in unit_queue' : unit'[v].status = "IN_QUEUE"
        BY <1>0, <1>2, <1>7, <1>8 DEF StatusInv
    <2>2. \A v \in active_units' : unit'[v].status = "LOADED" /\ unit'[v].handle = unit'[v].ui
        BY <1>0, <1>2, <1>7, <1>8 DEF StatusInv
    <2>3. \A v \in obsolete_units' : unit'[v].status = "FAILED" /\ unit'[v].handle # None
        BY <1>0, <1>2, <1>7, <1>8, <1>9, SMTT(30) DEF StatusInv
    <2> QED
        BY <2>1, <2>2, <2>3 DEF StatusInv
<1>11. /\ jit_code'[ciseq] = NotReady /\ NotReady \notin Units /\ NotReady # "NOT_ADDED"
       /\ \A i \in Iseqs : i # ciseq => jit_code'[i] = jit_code[i]
    BY <1>1, <1>2, CodeWritten, UnitsAssumption DEF Obsoletes, NotReady, NotCode
<1>12. CodeInv'
    <2>1. ASSUME NEW i \in Iseqs, IsCode(i)'
          PROVE  jit_code'[i] \in active_units' /\ ui'[i].unit = jit_code'[i]
        <3>1. i # ciseq /\ jit_code'[i] = jit_code[i]
            BY <1>11, <2>1 DEF IsCode
        <3>2. jit_code[i] \in active_units /\ ui[i].unit = jit_code[i]
            BY <1>2, <2>1, <3>1 DEF CodeInv, IsCode
        <3> QED
            BY <1>0, <1>7, <1>9, <3>1, <3>2
    <2>2. ASSUME NEW v \in active_units' PROVE jit_code'[unit'[v].ui] = v
        <3>1. v \in active_units /\ v # u /\ v \in Units /\ v \in Owned
            BY <1>0, <1>5, <1>8
        <3>2. jit_code[unit[v].ui] = v /\ unit[v].ui \in Iseqs
            BY <1>2, <3>1 DEF CodeInv, OwnInv
        <3>3. unit[v].ui # ciseq
            BY <1>3, <3>1, <3>2
        <3> QED
            BY <1>7, <1>11, <3>1, <3>2, <3>3
    <2>3. ASSUME NEW i \in Iseqs, jit_code'[i] = "NOT_ADDED"
          PROVE  ui'[i].unit \in obsolete_units' \cup {None}
        <3>1. jit_code[i] = "NOT_ADDED"
            BY <1>11, <2>3
        <3>2. ui[i].unit \in obsolete_units \cup {None}
            BY <1>2, <3>1 DEF CodeInv
        <3> QED
            BY <1>0, <1>7, <3>2
    <2>4. ASSUME mjit_init_p', NEW i \in Iseqs, ui'[i].unit \in obsolete_units', i # ciseq
          PROVE  jit_code'[i] = "NOT_ADDED"
        <3>1. ui[i].unit \in obsolete_units
            BY <1>0, <1>7, <1>9, <2>4
        <3>2. jit_code[i] = "NOT_ADDED"
            BY <1>0, <1>1, <1>2, <2>4, <3>1 DEF CodeInv
        <3> QED
            BY <1>11, <2>4, <3>2
    <2> QED
        BY <1>0, <1>1, <2>1, <2>2, <2>3, <2>4 DEF CodeInv
<1>13. ClientInv'
    <2>1. cpc' # "redo" /\ cpc' # "enqueue"
        BY <1>0
    <2>2. ui'[ciseq'].unit \in obsolete_units' \cup {None} /\ jit_code'[ciseq'] # "NOT_ADDED"
        BY <1>0, <1>1, <1>7, <1>11
    <2> QED
        BY <2>1, <2>2 DEF ClientInv
<1> QED
    BY <1>4, <1>6, <1>10, <1>12, <1>13 DEF UnitInv

=============================================================================
