-------------------------- MODULE MjitEngineProofs --------------------------
(***************************************************************************)
(* Theorems about the MJIT engine that count workers: a collection and a   *)
(* translation exclude each other, and mjit_finish waits for the workers,  *)
(* for any number of workers and any environment. Then the theorem that    *)
(* needs all the others: no assertion of the engine fails, no NULL unit is *)
(* used and no mutex is locked twice, in the environments that Benign      *)
(* names.                                                                  *)
(***************************************************************************)
EXTENDS MjitFaultProofs, FiniteSetTheorems

USE ZenonT(60)

-----------------------------------------------------------------------------
\* Collections.

CountOK == Gone \/ units_in_translation = Cardinality(Translating)
GcInv == TypeOK /\ CountOK /\ GcExcludesTranslation

\* A step that neither starts nor ends a collection or a translation.
Apart == UNCHANGED <<in_gc, units_in_translation, Translating>> /\ (Gone => Gone')

LEMMA TranslatingFinite == IsFiniteSet(Translating)
BY WorkersAssumption, FS_Subset DEF Translating

LEMMA ApartKeepsGc == GcInv /\ TypeOK' /\ Apart => GcInv'
BY SMTT(30) DEF GcInv, Apart, CountOK, GcExcludesTranslation

LEMMA EnterStep ==
    ASSUME GcInv, NEW w \in Workers, WorkerEnterTranslation(w)
    PROVE  \/ Apart
           \/ /\ ~in_gc /\ UNCHANGED in_gc
              /\ Translating' = Translating \cup {w}
              /\ CountOK'
<1> USE DEF GcInv, TypeOK, TypeWorkers, Translating, Goto
<1>1. CASE in_gc
    BY <1>1 DEF WorkerEnterTranslation, TypeSync, Apart, Gone
<1>2. CASE ~in_gc
    <2>1. /\ wpc[w] = "gc" /\ wpc' = [wpc EXCEPT ![w] = "translate"]
          /\ units_in_translation' = units_in_translation + 1 /\ UNCHANGED in_gc
        BY <1>2 DEF WorkerEnterTranslation, TypeSync
    <2>2. Translating' = Translating \cup {w} /\ w \notin Translating
        BY <2>1
    <2>3. Cardinality(Translating') = Cardinality(Translating) + 1
        BY <2>2, TranslatingFinite, FS_AddElement
    <2>4. units_in_translation = Cardinality(Translating)
        BY <2>1 DEF CountOK, Gone
    <2> QED
        BY <1>2, <2>1, <2>2, <2>3, <2>4 DEF CountOK
<1> QED
    BY <1>1, <1>2

LEMMA LeaveStep ==
    ASSUME GcInv, NEW w \in Workers, WorkerLeaveTranslation(w)
    PROVE  UNCHANGED in_gc /\ Translating' = Translating \ {w} /\ CountOK'
<1> USE DEF GcInv, TypeOK, TypeWorkers, Translating, Goto
<1>1. /\ wpc[w] = "translated" /\ wpc' = [wpc EXCEPT ![w] = "args"]
      /\ units_in_translation' = units_in_translation - 1 /\ UNCHANGED in_gc
    BY DEF WorkerLeaveTranslation
<1>2. Translating' = Translating \ {w} /\ w \in Translating
    BY <1>1
<1>3. Cardinality(Translating') = Cardinality(Translating) - 1
    <2>1. Cardinality(Translating \ {w}) = Cardinality(Translating) - 1
        BY <1>2, TranslatingFinite, FS_RemoveElement
    <2> QED
        BY <1>2, <2>1
<1>4. units_in_translation = Cardinality(Translating)
    BY <1>1 DEF CountOK, Gone
<1> QED
    BY <1>1, <1>2, <1>3, <1>4 DEF CountOK

LEMMA OtherWorkerStep ==
    ASSUME GcInv, NEW w \in Workers, worker(w),
           ~WorkerEnterTranslation(w), ~WorkerLeaveTranslation(w)
    PROVE  Apart
<1> USE DEF GcInv, TypeOK, TypeWorkers, Goto
<1>1. UNCHANGED <<in_gc, units_in_translation>>
    BY DEF worker, WorkerPch, WorkerSwitchOff, WorkerLeave, WorkerTop, WorkerExit,
        WorkerIdle, WorkerTranslate, WorkerSpawn, WorkerStatus, WorkerCheck,
        WorkerDlopen, WorkerPublish, WorkerLoaded, WorkerAbort, Abort, gcv
<1>2. CASE WorkerTranslate(w)
    BY <1>1, <1>2 DEF WorkerTranslate, Apart, Gone, Translating
<1>3. CASE WorkerAbort(w)
    BY <1>1, <1>3 DEF WorkerAbort, Abort, wv, Apart, Gone, Translating
<1>4. CASE ~WorkerTranslate(w) /\ ~WorkerAbort(w)
    <2> DEFINE P == WorkerPcs \ {"translate", "translated", "gone"}
    <2>1. wpc[w] \in P /\ \E pc \in P : wpc' \in {wpc, [wpc EXCEPT ![w] = pc]}
        BY <1>4
        DEF worker, WorkerPch, WorkerSwitchOff, WorkerLeave, WorkerTop,
            WorkerExit, WorkerIdle, WorkerSpawn, WorkerStatus, WorkerCheck,
            WorkerDlopen, WorkerPublish, WorkerLoaded, BackToTop, WorkerPcs
    <2> QED
        BY <1>1, <2>1 DEF Apart, Gone, Translating
<1> QED
    BY <1>2, <1>3, <1>4

LEMMA ClientStep ==
    ASSUME GcInv, client
    PROVE  \/ Apart
           \/ mjit_gc_start \/ mjit_gc_finish \/ child_after_fork
<1>1. CASE UNCHANGED <<gcv, wv>>
    BY <1>1 DEF Apart, Gone, Translating, gcv, wv
<1> QED
    BY <1>1
    DEF client, ClientCall, mjit_aot_process, ClientSpecFail, ClientAotCall,
        mjit_free_iseq, AddStart, create_iseq_unit, mjit_add_iseq_to_process,
        mjit_redo_iseq, TraceSet, increase_unit_priority, mjit_get_iseq_fun,
        BopRedefined, TraceRecalc, mjit_cancel_all, GcEnter,
        FinishStart, FinishPch, FinishFlag, FinishWake,
        mjit_finish, ClientAbort, Abort, MemoryBound

LEMMA GcStartStep ==
    ASSUME GcInv, mjit_gc_start
    PROVE  \/ Apart
           \/ /\ Translating = {} /\ in_gc' = TRUE
              /\ UNCHANGED <<units_in_translation, wpc>>
<1> USE DEF GcInv
<1>1. CASE TranslationOver
    <2>1. /\ units_in_translation = 0 /\ in_gc' = TRUE
          /\ UNCHANGED <<units_in_translation, wpc>>
        BY <1>1 DEF mjit_gc_start, TranslationOver, wv
    <2>2. CASE Gone
        BY <2>1, <2>2 DEF Gone, Translating
    <2>3. CASE ~Gone
        BY <2>1, <2>3, TranslatingFinite, FS_EmptySet DEF CountOK
    <2> QED
        BY <2>1, <2>2, <2>3
<1>2. CASE ~TranslationOver
    BY <1>2 DEF mjit_gc_start, Apart, Gone, Translating, wv
<1> QED
    BY <1>1, <1>2

\* One step of the engine: the invariant holds after it, and it is a step of
\* GcExclusion or changes nothing there.
LEMMA GcStep ==
    ASSUME GcInv, [Next]_vars
    PROVE  GcInv' /\ [Gc!Next]_<<in_gc, Translating>>
<1> DEFINE Maps == [Gc!Next]_<<in_gc, Translating>>
<1>0. TypeOK'
    BY NextType DEF GcInv
<1>1. CASE Apart
    BY <1>0, <1>1, ApartKeepsGc DEF Apart
<1>2. ASSUME NEW w \in Workers, worker(w) PROVE GcInv' /\ Maps
    <2>1. CASE WorkerEnterTranslation(w)
        <3>1. CASE /\ ~in_gc /\ UNCHANGED in_gc
                   /\ Translating' = Translating \cup {w} /\ CountOK'
            <4>1. Gc!Begin(w)
                BY <3>1 DEF Gc!Begin
            <4>2. GcExcludesTranslation'
                BY <3>1 DEF GcExcludesTranslation
            <4> QED
                BY <1>0, <3>1, <4>1, <4>2 DEF GcInv, Gc!Next
        <3> QED
            BY <1>1, <2>1, <3>1, EnterStep
    <2>2. CASE WorkerLeaveTranslation(w)
        <3>1. UNCHANGED in_gc /\ Translating' = Translating \ {w} /\ CountOK'
            BY <2>2, LeaveStep
        <3>2. Gc!End(w)
            BY <3>1 DEF Gc!End
        <3>3. GcExcludesTranslation'
            BY <3>1 DEF GcInv, GcExcludesTranslation
        <3> QED
            BY <1>0, <3>1, <3>2, <3>3 DEF GcInv, Gc!Next
    <2> QED
        BY <1>1, <1>2, <2>1, <2>2, OtherWorkerStep
<1>3. CASE client
    <2>1. CASE mjit_gc_start
        <3>1. CASE /\ Translating = {} /\ in_gc' = TRUE
                   /\ UNCHANGED <<units_in_translation, wpc>>
            <4>1. UNCHANGED Translating /\ CountOK' /\ GcExcludesTranslation'
                BY <3>1 DEF GcInv, CountOK, Gone, GcExcludesTranslation, Translating
            <4>2. Gc!StartGc \/ UNCHANGED <<in_gc, Translating>>
                <5>1. in_gc \in BOOLEAN
                    BY DEF GcInv, TypeOK, TypeSync
                <5> QED
                    BY <3>1, <4>1, <5>1 DEF Gc!StartGc
            <4> QED
                BY <1>0, <4>1, <4>2 DEF GcInv, Gc!Next
        <3> QED
            BY <1>1, <2>1, <3>1, GcStartStep
    <2>2. CASE mjit_gc_finish
        <3>1. in_gc' = FALSE \/ UNCHANGED in_gc
            BY <2>2 DEF mjit_gc_finish
        <3>2. UNCHANGED <<units_in_translation, wpc>>
            BY <2>2 DEF mjit_gc_finish, wv
        <3>3. UNCHANGED Translating /\ CountOK' /\ GcExcludesTranslation'
            BY <3>1, <3>2, SMTT(30)
            DEF GcInv, CountOK, Gone, GcExcludesTranslation, Translating
        <3> QED
            BY <1>0, <3>1, <3>3 DEF GcInv, Gc!Next, Gc!EndGc
    <2>3. CASE child_after_fork
        <3>1. Gone' /\ Translating' = {} /\ UNCHANGED in_gc
            BY <2>3 DEF child_after_fork, Gone, Translating, gcv
        <3> QED
            BY <1>0, <3>1
            DEF GcInv, CountOK, GcExcludesTranslation, Gc!Next, Gc!Abandon
    <2> QED
        BY <1>1, <1>3, <2>1, <2>2, <2>3, ClientStep
<1>4. ASSUME NEW ok \in BOOLEAN, make_pch(ok) PROVE Apart
    BY <1>4 DEF make_pch, Apart, Gone, Translating, gcv, wv
<1>5. ASSUME NEW t \in Threads, Spurious(t) PROVE Apart
    BY <1>5 DEF Spurious, Apart, Gone, Translating, gcv, wv
<1>6. CASE UNCHANGED vars
    <2>1. Apart
        BY <1>6 DEF vars, Apart, Gone, Translating, gcv, wv
    <2> QED
        BY <1>1, <2>1
<1> QED
    BY <1>1, <1>2, <1>3, <1>4, <1>5, <1>6 DEF Next, Quiet

LEMMA GcInit == Init => GcInv /\ Gc!Init
<1> SUFFICES ASSUME Init PROVE GcInv /\ Gc!Init
    OBVIOUS
<1>1. Translating = {} /\ in_gc = FALSE /\ units_in_translation = 0
    BY DEF Init, Translating
<1> QED
    BY <1>1, InitType, FS_EmptySet DEF GcInv, CountOK, GcExcludesTranslation, Gc!Init

\* mjit_gc_start and start_unit: no worker reads the iseqs while the collector
\* may free or change them, whatever else the engine does meanwhile.
THEOREM GcExclusionHolds == Spec => []GcExcludesTranslation
<1>1. GcInv /\ [Next]_vars => GcInv'
    BY GcStep
<1>2. GcInv => GcExcludesTranslation
    BY DEF GcInv
<1> QED
    BY <1>1, <1>2, GcInit, PTL DEF Spec

\* The engine implements GcExclusion: collections and translations begin and
\* end exactly as the abstract handshake allows.
THEOREM EngineImplementsGcExclusion == Spec => ImplementsGcExclusion
<1>1. Init => GcInv /\ Gc!Init
    BY GcInit
<1>2. GcInv /\ [Next]_vars => GcInv' /\ [Gc!Next]_<<in_gc, Translating>>
    BY GcStep
<1> QED
    BY <1>1, <1>2, PTL DEF Spec, ImplementsGcExclusion, Gc!Spec

-----------------------------------------------------------------------------
\* The end of the program waits for the workers.

\* The workers that have left their loop, and what finished_workers says of
\* them.  A child has no workers to wait for: it never gets into the middle of
\* mjit_finish.
Left == {w \in Workers : wpc[w] \in {"exit", "done"}}
FinishInv ==
    /\ \A w \in Workers : wpc[w] = "gone" =>
          ~mjit_init_p /\ ~finish_workers_p
            /\ cpc \notin {"fin_pch", "fin_flag", "fin_loop"}
    /\ Gone \/ finished_workers = Cardinality(Left)
    /\ finish_workers_p => cpc \in {"fin_loop", "done"}
    /\ finish_workers_p /\ cpc = "done" => AllFinished

LEMMA LeftFinite == IsFiniteSet(Left) /\ Cardinality(Left) \in Nat
BY WorkersAssumption, FS_Subset, FS_CardinalityType DEF Left

\* One worker at a time leaves, and counts itself in the same critical section.
LEMMA LeavingIsCounted ==
    ASSUME TypeOK, NEW w \in Workers, worker(w)
    PROVE  /\ wpc[w] # "gone" /\ \A v \in Workers : wpc'[v] = "gone" <=> wpc[v] = "gone"
           /\ \/ Left' = Left /\ UNCHANGED finished_workers
              \/ /\ Left' = Left \cup {w} /\ w \notin Left
                 /\ finished_workers' = finished_workers + 1
<1> DEFINE In == WorkerPcs \ {"exit", "done", "gone"}
<1>0. wpc \in [Workers -> WorkerPcs]
    BY DEF TypeOK, TypeWorkers
<1>1. CASE WorkerLeave(w) \/ (WorkerTop(w) /\ finished_workers' # finished_workers)
    <2>1. /\ wpc[w] \in In /\ wpc' = [wpc EXCEPT ![w] = "exit"]
          /\ finished_workers' = finished_workers + 1
        BY <1>0, <1>1 DEF WorkerLeave, WorkerTop, Goto, WorkerPcs
    <2> QED
        BY <1>0, <2>1 DEF Left
<1>2. CASE WorkerExit(w)
    <2>1. /\ wpc[w] = "exit" /\ wpc' = [wpc EXCEPT ![w] = "done"]
          /\ UNCHANGED finished_workers
        BY <1>2 DEF WorkerExit, Goto, state
    <2> QED
        BY <1>0, <2>1 DEF Left
<1>3. CASE /\ ~WorkerLeave(w) /\ ~WorkerExit(w)
           /\ WorkerTop(w) => UNCHANGED finished_workers
    <2>0. TypeCounters
        BY DEF TypeOK
    <2>1. UNCHANGED finished_workers
        BY <1>3
        DEF worker, WorkerPch, WorkerSwitchOff, WorkerIdle, WorkerEnterTranslation,
            WorkerTranslate, WorkerLeaveTranslation, WorkerSpawn, WorkerStatus,
            WorkerCheck, WorkerDlopen, WorkerPublish, WorkerLoaded, WorkerAbort,
            Abort, state
    <2>3. wpc[w] \in In /\ \E pc \in In : wpc' \in {wpc, [wpc EXCEPT ![w] = pc]}
        <3>1. CASE WorkerTop(w)
            <4>1. finished_workers + 1 # finished_workers
                BY <2>0, SMTT(30) DEF TypeCounters
            <4> QED
                BY <2>1, <3>1, <4>1 DEF WorkerTop, Goto, WorkerPcs
        <3>2. CASE WorkerAbort(w)
            BY <3>2 DEF WorkerAbort, Abort, wv, WorkerPcs
        <3>3. CASE ~WorkerTop(w) /\ ~WorkerAbort(w)
            BY <1>3, <3>3
            DEF worker, WorkerPch, WorkerSwitchOff, WorkerIdle, WorkerEnterTranslation,
                WorkerTranslate, WorkerLeaveTranslation, WorkerSpawn, WorkerStatus,
                WorkerCheck, WorkerDlopen, WorkerPublish, WorkerLoaded, BackToTop,
                Goto, WorkerPcs
        <3> QED
            BY <3>1, <3>2, <3>3
    <2> QED
        BY <1>0, <2>1, <2>3 DEF Left
<1> QED
    BY <1>1, <1>2, <1>3

LEMMA WorkerFinish ==
    ASSUME TypeOK, FinishInv, NEW w \in Workers, worker(w)
    PROVE  FinishInv'
<1>1. UNCHANGED <<cpc, finish_workers_p>> /\ (mjit_init_p' => mjit_init_p)
    <2>1. UNCHANGED <<cpc, finish_workers_p>>
        BY DEF worker, WorkerPch, WorkerSwitchOff, WorkerLeave, WorkerTop, WorkerExit,
            WorkerIdle, WorkerEnterTranslation, WorkerTranslate,
            WorkerLeaveTranslation, WorkerSpawn, WorkerStatus, WorkerCheck,
            WorkerDlopen, WorkerPublish, WorkerLoaded, WorkerAbort, Abort, cv, state
    <2>2. UNCHANGED mjit_init_p \/ ~mjit_init_p'
        BY DEF worker, WorkerPch, WorkerSwitchOff, WorkerLeave, WorkerTop, WorkerExit,
            WorkerIdle, WorkerEnterTranslation, WorkerTranslate,
            WorkerLeaveTranslation, WorkerSpawn, WorkerStatus, WorkerCheck,
            WorkerDlopen, WorkerPublish, WorkerLoaded, WorkerAbort, Abort, state
    <2>3. CASE UNCHANGED mjit_init_p
        <3>1. mjit_init_p' = mjit_init_p
            BY <2>3
        <3>2. mjit_init_p' => mjit_init_p
            BY ONLY <3>1
        <3> QED
            BY <2>1, <3>2
    <2>4. CASE ~mjit_init_p'
        BY <2>1, <2>4
    <2> QED
        BY <2>2, <2>3, <2>4
<1>2. Gone => Gone'
    BY LeavingIsCounted DEF Gone
<1>3. CASE Left' = Left /\ UNCHANGED finished_workers
    BY <1>1, <1>2, <1>3, LeavingIsCounted DEF FinishInv, AllFinished
<1>4. CASE /\ Left' = Left \cup {w} /\ w \notin Left
           /\ finished_workers' = finished_workers + 1
    <2>1. Cardinality(Left') = Cardinality(Left) + 1
        BY <1>4, LeftFinite, FS_AddElement
    <2>2. finished_workers = Cardinality(Left)
        BY LeavingIsCounted DEF FinishInv, Gone
    <2>3. AllFinished => AllFinished'
        <3>1. finished_workers \in Nat /\ Cardinality(Workers) \in Nat
            BY WorkersAssumption, FS_CardinalityType DEF TypeOK, TypeCounters
        <3> QED
            BY <1>4, <3>1, SMTT(30) DEF AllFinished
    <2> QED
        BY <1>1, <1>4, <2>1, <2>2, <2>3, LeavingIsCounted DEF FinishInv
<1> QED
    BY <1>3, <1>4, LeavingIsCounted

LEMMA ClientFinish ==
    ASSUME TypeOK, FinishInv, client
    PROVE  FinishInv'
<1> DEFINE Middle == {"fin_pch", "fin_flag", "fin_loop"}
<1>1. CASE child_after_fork
    <2>1. /\ cpc = "run" /\ UNCHANGED <<cpc, finish_workers_p>> /\ ~mjit_init_p'
          /\ \A w \in Workers : wpc'[w] = "gone"
        BY <1>1 DEF child_after_fork, cv
    <2> QED
        BY <2>1 DEF FinishInv, Gone
<1>2. CASE ~child_after_fork
    <2>1. UNCHANGED <<wpc, finished_workers>>
        BY <1>2
        DEF client, ClientCall, mjit_aot_process, ClientSpecFail, ClientAotCall,
            mjit_free_iseq, AddStart, create_iseq_unit, mjit_add_iseq_to_process,
            mjit_redo_iseq, TraceSet, increase_unit_priority, mjit_get_iseq_fun,
            BopRedefined, TraceRecalc, mjit_cancel_all, GcEnter, mjit_gc_start,
            mjit_gc_finish, FinishStart, FinishPch, FinishFlag, FinishWake,
            mjit_finish, ClientAbort, Abort, MemoryBound, wv, state
    <2>2. UNCHANGED <<Left, Gone, AllFinished>>
        BY <2>1 DEF Left, Gone, AllFinished
    <2>3. CASE FinishStart
        BY <2>1, <2>2, <2>3 DEF FinishStart, FinishInv, state
    <2>4. CASE FinishPch
        BY <2>1, <2>2, <2>4 DEF FinishPch, FinishInv, state
    <2>5. CASE FinishFlag
        BY <2>1, <2>2, <2>5 DEF FinishFlag, FinishInv
    <2>6. CASE FinishWake
        BY <2>1, <2>2, <2>6 DEF FinishWake, FinishInv, state, cv
    <2>7. CASE mjit_finish
        BY <2>1, <2>2, <2>7 DEF mjit_finish, FinishInv
    <2>8. CASE ClientAbort
        <3>1. UNCHANGED <<mjit_init_p, finish_workers_p, cpc>>
            BY <2>8 DEF ClientAbort, Abort, state, cv
        <3> QED
            BY <2>1, <2>2, <3>1 DEF FinishInv
    <2>9. CASE ~FinishStart /\ ~FinishPch /\ ~FinishFlag /\ ~FinishWake
               /\ ~mjit_finish /\ ~ClientAbort
        <3>1. /\ UNCHANGED <<mjit_init_p, finish_workers_p>>
              /\ cpc \notin {"fin_loop", "done"} /\ cpc' \notin Middle
            <4>1. cret \notin Middle
                BY DEF TypeOK, TypeClient
            <4> QED
                BY <1>2, <2>9, <4>1
                DEF client, ClientCall, mjit_aot_process, ClientSpecFail, ClientAotCall,
                    mjit_free_iseq, AddStart, create_iseq_unit,
                    mjit_add_iseq_to_process, mjit_redo_iseq, TraceSet,
                    increase_unit_priority, mjit_get_iseq_fun, BopRedefined,
                    TraceRecalc, mjit_cancel_all, GcEnter, mjit_gc_start,
                    mjit_gc_finish, MemoryBound, state, cv
        <3> QED
            BY <2>1, <2>2, <3>1 DEF FinishInv
    <2> QED
        BY <2>3, <2>4, <2>5, <2>6, <2>7, <2>8, <2>9
<1> QED
    BY <1>1, <1>2

LEMMA NextFinish ==
    ASSUME TypeOK, FinishInv, [Next]_vars
    PROVE  FinishInv'
<1>1. ASSUME UNCHANGED <<wpc, cpc, mjit_init_p, finish_workers_p, finished_workers>>
      PROVE  FinishInv'
    BY <1>1 DEF FinishInv, Gone, Left, AllFinished
<1>2. ASSUME NEW ok \in BOOLEAN, make_pch(ok) PROVE FinishInv'
    BY <1>1, <1>2 DEF make_pch, wv, cv
<1>3. ASSUME NEW t \in Threads, Spurious(t) PROVE FinishInv'
    BY <1>1, <1>3 DEF Spurious, wv, cv, state
<1>4. CASE UNCHANGED vars
    BY <1>1, <1>4 DEF vars, wv, cv, state
<1> QED
    BY <1>2, <1>3, <1>4, WorkerFinish, ClientFinish DEF Next, Quiet

LEMMA InitFinish == Init => FinishInv
<1> SUFFICES ASSUME Init PROVE FinishInv
    OBVIOUS
<1>1. Left = {} /\ finished_workers = 0 /\ cpc = "run" /\ finish_workers_p = FALSE
      /\ \A w \in Workers : wpc[w] # "gone"
    BY DEF Init, Left
<1> QED
    BY <1>1, FS_EmptySet DEF FinishInv

LEMMA FinishInvariance == Spec => [](TypeOK /\ FinishInv)
<1>1. TypeOK /\ FinishInv /\ [Next]_vars => TypeOK' /\ FinishInv'
    BY NextType, NextFinish
<1> QED
    BY <1>1, InitType, InitFinish, PTL DEF Spec

LEMMA AllHaveLeft ==
    ASSUME FinishInv, AllFinished, finish_workers_p \/ cpc = "fin_loop", NEW v \in Workers
    PROVE  wpc[v] \in {"exit", "done"}
<1>1. finished_workers = Cardinality(Left)
    BY DEF FinishInv, Gone
<1>2. Left \subseteq Workers /\ Cardinality(Left) <= Cardinality(Workers)
      /\ (Cardinality(Left) = Cardinality(Workers) => Left = Workers)
    BY WorkersAssumption, FS_Subset DEF Left
<1>3. Cardinality(Left) \in Nat /\ Cardinality(Workers) \in Nat
    BY WorkersAssumption, LeftFinite, FS_CardinalityType
<1>4. Cardinality(Left) = Cardinality(Workers)
    <2>1. \A a, b \in Nat : a <= b /\ a >= b => a = b
        BY SMTT(30)
    <2> QED
        BY <1>1, <1>2, <1>3, <2>1 DEF AllFinished
<1> QED
    BY <1>2, <1>4 DEF Left

\* mjit_finish frees the units and their code only when every worker has left
\* its loop, for any number of workers: finished_workers counts each of them
\* once, and a forked child, which has none, never waits.
THEOREM WorkersLeaveFirst == Spec => []FinishAfterWorkers
<1>1. TypeOK /\ FinishInv => FinishAfterWorkers
    BY AllHaveLeft DEF FinishInv, FinishAfterWorkers
<1> QED
    BY <1>1, FinishInvariance, PTL

-----------------------------------------------------------------------------
\* No assertion fails: the invariants of MjitFaultProofs hold together.

FaultInv ==
    /\ UnitInv /\ FinishInv /\ NoFault /\ PchInv /\ StageInv
    /\ Running => CalmInv

LEMMA ClientKeepsPch ==
    ASSUME TypeOK, FinishInv, PchInv, client
    PROVE  PchInv'
<1>1. CASE child_after_fork
    BY <1>1 DEF child_after_fork, PchInv, Gone, Before, cv
<1>2. CASE mjit_finish
    <2>1. /\ cpc' = "done" /\ UNCHANGED <<pch_status, wpc>>
          /\ \A w \in Workers : wpc[w] \in {"exit", "done"}
        BY <1>2, AllHaveLeft DEF mjit_finish, wv
    <2> QED
        BY <2>1 DEF PchInv
<1>3. CASE ~child_after_fork /\ ~mjit_finish
    <2>1. /\ UNCHANGED <<pch_status, wpc, mjit_init_p>> /\ (cpc = "done" => cpc' = "done")
        BY <1>3
        DEF client, ClientCall, mjit_aot_process, ClientSpecFail, ClientAotCall,
            mjit_free_iseq, AddStart, create_iseq_unit, mjit_add_iseq_to_process,
            mjit_redo_iseq, TraceSet, increase_unit_priority, mjit_get_iseq_fun,
            BopRedefined, TraceRecalc, mjit_cancel_all, GcEnter, mjit_gc_start,
            mjit_gc_finish, FinishStart, FinishPch, FinishFlag, FinishWake,
            ClientAbort, Abort, MemoryBound, wv, state, cv
    <2>2. cpc' = "done" => cpc = "done" \/ ~mjit_init_p
        <3>1. cret # "done"
            BY DEF TypeOK, TypeClient
        <3> QED
            BY <1>3, <3>1
            DEF client, ClientCall, mjit_aot_process, ClientSpecFail, ClientAotCall,
                mjit_free_iseq, AddStart, create_iseq_unit, mjit_add_iseq_to_process,
                mjit_redo_iseq, TraceSet, increase_unit_priority, mjit_get_iseq_fun,
                BopRedefined, TraceRecalc, mjit_cancel_all, GcEnter, mjit_gc_start,
                mjit_gc_finish, FinishStart, FinishPch, FinishFlag, FinishWake,
                ClientAbort, Abort, MemoryBound, cv
    <2> QED
        BY <2>1, <2>2 DEF PchInv, Gone
<1> QED
    BY <1>1, <1>2, <1>3

LEMMA NextFault == Benign /\ FaultInv /\ [Next]_vars => FaultInv'
<1> SUFFICES ASSUME Benign, FaultInv, [Next]_vars PROVE FaultInv'
    OBVIOUS
<1>0. /\ Orderly /\ UnitInv /\ TypeOK /\ FinishInv /\ PchInv /\ StageInv /\ NoFault
      /\ Running => CalmInv
    BY DEF Benign, Orderly, FaultInv, UnitInv
<1>1. UnitInv' /\ FinishInv'
    BY <1>0, NextUnits, NextFinish
<1>2. ASSUME NEW w \in Workers, worker(w)
      PROVE  NoFault' /\ PchInv' /\ StageInv' /\ (Running' => CalmInv')
    <2>1. StageInv' /\ (Running => CalmInv') /\ UNCHANGED fault
        BY <1>0, <1>2, WorkerKeepsCalm
    <2>2. Running' <=> Running
        BY <1>2, WorkerFrame DEF Running, cv
    <2> QED
        BY <1>0, <1>2, <2>1, <2>2, WorkerKeepsPch DEF NoFault
<1>3. ASSUME client
      PROVE  NoFault' /\ PchInv' /\ StageInv' /\ (Running' => CalmInv')
    <2>1. ~ClientAbort /\ PchInv'
        BY <1>0, <1>3, ClientDoesNotAbort, ClientKeepsPch
    <2>2. UNCHANGED fault /\ Running
        BY <1>0, <1>3, <2>1, ClientFrame
    <2>3. StageInv'
        BY <1>0, <1>3, <2>2, ClientKeepsStage DEF CalmInv
    <2> QED
        BY <1>0, <1>3, <2>1, <2>2, <2>3, ClientKeepsCalm DEF NoFault
<1>4. ASSUME \/ \E ok \in BOOLEAN : make_pch(ok)
             \/ \E t \in Threads : Spurious(t)
             \/ UNCHANGED vars
      PROVE  NoFault' /\ PchInv' /\ StageInv' /\ (Running' => CalmInv')
    BY <1>0, <1>4, OthersKeepFault
<1>5. NoFault' /\ PchInv' /\ StageInv' /\ (Running' => CalmInv')
    BY <1>2, <1>3, <1>4 DEF Next, Quiet
<1> QED
    BY <1>1, <1>5 DEF FaultInv

LEMMA InitFault == Init => FaultInv
<1> SUFFICES ASSUME Init PROVE FaultInv
    OBVIOUS
<1>0. UnitInv /\ FinishInv
    BY InitUnits, InitFinish
<1>1. /\ obsolete_units = {} /\ fault = "none" /\ cpc = "run" /\ mjit_init_p
      /\ pch_status = "NOT_READY"
      /\ \A i \in Iseqs : jit_code[i] = "NOT_ADDED"
      /\ \A w \in Workers : wpc[w] = "pch" /\ wexit[w]
    BY DEF Init
<1>2. NotFreed
    <2>1. \A u \in Units : unit[u] = NewUnit(None)
        BY DEF Init
    <2>2. ~NewUnit(None).freed_p
        BY DEF NewUnit
    <2> QED
        BY <2>1, <2>2 DEF NotFreed
<1>3. PchInv /\ NoFault /\ CalmInv
    BY <1>1, <1>2
    DEF PchInv, NoFault, CalmInv, NoStaleUnit, AotHasUnit, ClientCalm
<1>4. StageInv
    BY <1>1 DEF StageInv, Stage
<1> QED
    BY <1>0, <1>3, <1>4 DEF FaultInv

LEMMA FaultInvariance == Benign => (Spec => []FaultInv)
<1>1. Benign /\ FaultInv /\ [Next]_vars => FaultInv'
    BY NextFault
<1> SUFFICES ASSUME Benign PROVE Spec => []FaultInv
    OBVIOUS
<1>2. FaultInv /\ [Next]_vars => FaultInv'
    BY <1>1
<1> QED
    BY InitFault, <1>2, PTL DEF Spec

\* No assertion of mjit.c fails and no NULL unit is read: the unit that
\* mark_unit_iseqs and unload_units meet has its iseq and its handle, the unit
\* that load_unit opens has its object file, and mjit_get_iseq_fun finds a unit.
\* Benign lists what is excluded.
THEOREM NoAssertionFails == Benign => (Spec => []NoFault)
<1>1. FaultInv => NoFault
    BY DEF FaultInv
<1> QED
    BY <1>1, FaultInvariance, PTL

=============================================================================
