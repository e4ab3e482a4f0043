------------------------------- MODULE GcMark -------------------------------
(***************************************************************************)
(* The garbage collector of gc.c: three generations of mark bits.          *)
(*                                                                         *)
(* Every object has an age, and its heap page has four bits for it: the    *)
(* mark bit, the uncollectible bit (old, or unprotected and referenced by  *)
(* an old object), the wb_unprotected bit (the object may be written       *)
(* without a write barrier) and the marking bit.  The last one has two     *)
(* meanings: while a full marking is done in steps (incremental) it says   *)
(* that the object is on the mark stack (grey), at every other time that   *)
(* the object is in the remember set.                                      *)
(*                                                                         *)
(* A minor collection starts from the uncollectible objects, which keep    *)
(* their mark bit, and visits only the remember set and the roots.  A full *)
(* one clears all bits.  The mutator (any Ruby thread that has the GVL)    *)
(* runs between the steps of an incremental marking and of a lazy sweep;   *)
(* what keeps the bits right then is rb_gc_writebarrier.                   *)
(*                                                                         *)
(* Heap pages are a partition of the slots.  The contents of an object are *)
(* the set of objects it refers to; the machine stack, the VM's tables and *)
(* the global variables are the set `roots'.  The mark stack is a set: the *)
(* order in which it is popped decides nothing below.  Finalizers, the     *)
(* sizes of the heap and what triggers a collection are left out: a        *)
(* collection may start whenever none is running.                          *)
(***************************************************************************)
EXTENDS Naturals, FiniteSets

CONSTANTS
    Objects,        \* the slots of the heap
    Pages,          \* the heap pages
    PageOf,         \* the page of a slot
    OldAge,         \* RVALUE_OLD_AGE
    MaxRefs,        \* bound: references an object holds
    Programs        \* sets of mutator operations; one of them is chosen

ASSUME HeapAssumption ==
    /\ PageOf \in [Objects -> Pages]
    /\ OldAge \in Nat \ {0}

VARIABLES
    live,       \* slots that hold an object (not T_NONE)
    refs,       \* the objects an object refers to
    roots,      \* objects the roots refer to
    age, marked, uncollectible, unprotected, marking,
    stack,      \* the mark stack
    mode,       \* gc_mode
    minor,      \* during_minor_gc
    inc,        \* during_incremental_marking
    step,       \* what the collector is doing; the mutator runs in "run"
    todo,       \* objects whose children the collector is about to mark
    left,       \* pages the remember set is still to be read from, or before_sweep
    ops         \* the operations the mutator uses

bits == <<age, marked, uncollectible, unprotected, marking>>
gcvars == <<stack, mode, minor, inc, step, todo, left>>
vars == <<live, refs, roots, bits, gcvars, ops>>

Old == {o \in Objects : age[o] = OldAge}        \* RVALUE_OLD_P
White == Objects \ marked
Black == marked \ marking

before_sweep(p) == mode = "sweeping" /\ p \in left

\* is_garbage_object: unmarked, and its page waits for the sweeper
Garbage == {o \in live \ marked : before_sweep(PageOf[o])}

\* is_live_object
Alive == live \ Garbage

Init ==
    /\ live = {} /\ roots = {}
    /\ refs = [o \in Objects |-> {}]
    /\ age = [o \in Objects |-> 0]
    /\ marked = {} /\ uncollectible = {} /\ unprotected = {} /\ marking = {}
    /\ stack = {} /\ todo = {} /\ left = {}
    /\ mode = "none" /\ step = "run"
    /\ minor = FALSE /\ inc = FALSE
    /\ ops \in Programs

TypeOK ==
    /\ live \subseteq Objects /\ roots \subseteq Objects
    /\ refs \in [Objects -> SUBSET Objects]
    /\ age \in [Objects -> 0..OldAge]
    /\ marked \subseteq Objects /\ uncollectible \subseteq Objects
    /\ unprotected \subseteq Objects /\ marking \subseteq Objects
    /\ stack \subseteq Objects /\ todo \subseteq Objects /\ left \subseteq Pages
    /\ mode \in {"none", "marking", "sweeping"}
    /\ step \in {"run", "remember", "roots", "drain", "shady"}
    /\ minor \in BOOLEAN /\ inc \in BOOLEAN

-----------------------------------------------------------------------------
(* Marking. *)

\* the age gc_aging gives an object that is marked for the first time
gc_aging(o) ==
    IF o \in Old \cup unprotected THEN age[o] ELSE age[o] + 1

\* for a mutant: an object that was marked before it became old is forgotten
rgengc_remember_none(S) == marking

\* the remember set (outside an incremental marking) with the objects of S
rgengc_remember(S) ==
    marking \cup S

\* rgengc_check_relation: what is young among the children of an old object
\* becomes old
Promoted(C, parentOld) ==
    IF parentOld THEN C \ (unprotected \cup Old) ELSE {}

\* gc_mark_ptr of every object of C, the children of one object that is old
\* or not, or the roots.  A promoted object that was marked before is scanned
\* again, now or by the next minor collection.  The objects of `popped' leave
\* the stack, scanned.
gc_mark(C, parentOld, popped) ==
    LET new   == C \ marked
        old   == Promoted(C, parentOld)
        reold == old \cap marked
    IN  /\ age' = [o \in Objects |-> IF o \in old THEN OldAge
                                     ELSE IF o \in new THEN gc_aging(o) ELSE age[o]]
        /\ uncollectible' = uncollectible \cup old
              \cup (IF parentOld THEN C \cap unprotected ELSE {})
              \cup {o \in new : age'[o] = OldAge /\ (o \notin Old \/ ~minor)}
        /\ marked' = marked \cup C
        /\ IF inc
           THEN /\ stack' = (stack \ popped) \cup new \cup (reold \ marking)
                /\ marking' = (marking \cup new \cup reold) \ popped
           ELSE /\ stack' = (stack \ popped) \cup new
                /\ marking' = rgengc_remember(reold)

\* gc_mark_children, of an object that is popped from the stack or not
gc_mark_children(o, popped) ==
    gc_mark(refs[o], o \in Old, popped)

mutator == <<live, refs, roots, unprotected, ops>>

\* a full marking forgets all bits, a minor one reads the remember set
gc_marks_start(full) ==
    IF full
    THEN /\ marked' = {} /\ marking' = {} /\ uncollectible' = {}
         /\ step' = "roots"
         /\ left' = {}
    ELSE /\ step' = "remember"
         /\ left' = Pages
         /\ UNCHANGED <<marked, marking, uncollectible>>

\* A minor collection is never incremental.
gc_start(full, immediate) ==
    /\ step = "run" /\ mode = "none"
    /\ mode' = "marking"
    /\ minor' = ~full
    /\ inc' = (full /\ ~immediate)
    /\ gc_marks_start(full)
    /\ UNCHANGED <<mutator, age, stack, todo>>

\* rgengc_rememberset_mark: read and clear the bits of a page ...
RememberPage(p) ==
    /\ step = "remember" /\ todo = {} /\ p \in left
    /\ left' = left \ {p}
    /\ todo' = {o \in marking \cup (uncollectible \cap unprotected) : PageOf[o] = p}
    /\ marking' = {o \in marking : PageOf[o] # p}
    /\ UNCHANGED <<mutator, age, marked, uncollectible, stack, mode, minor, inc, step>>

\* ... and mark the children of each object found there
\* (gc_marks_wb_unprotected_objects does the same with its own set)
ScanChildren(o) ==
    /\ step \in {"remember", "shady"} /\ o \in todo
    /\ gc_mark_children(o, {})
    /\ todo' = todo \ {o}
    /\ UNCHANGED <<mutator, mode, minor, inc, step, left>>

ScanEnds ==
    /\ step \in {"remember", "shady"} /\ todo = {} /\ left = {}
    /\ step' = IF step = "remember" THEN "roots" ELSE "drain"
    /\ UNCHANGED <<mutator, age, marked, uncollectible, marking, stack, mode, minor, inc, todo, left>>

\* gc_mark_roots at the end of gc_marks_start; the mutator goes on when the
\* marking is incremental
gc_mark_roots ==
    /\ step = "roots"
    /\ gc_mark(roots, FALSE, {})
    /\ step' = IF inc THEN "run" ELSE "drain"
    /\ UNCHANGED <<mutator, mode, minor, inc, todo, left>>

\* gc_mark_stacked_objects: one object
gc_mark_stacked_objects(o) ==
    /\ step = "drain" \/ (step = "run" /\ inc)
    /\ o \in stack
    /\ gc_mark_children(o, {o})
    /\ UNCHANGED <<mutator, mode, minor, inc, step, todo, left>>

\* for a mutant: gc_marks_finish does not read the roots again
gc_marks_finish_once ==
    /\ step = "run" /\ inc /\ stack = {}
    /\ inc' = FALSE
    /\ step' = "shady"
    /\ todo' = marked \cap unprotected
    /\ UNCHANGED <<mutator, age, marked, uncollectible, marking, stack, mode, minor, left>>

\* gc_marks_finish of an incremental marking: the roots once more; if that
\* marks nothing new, the unprotected objects, with the mutator stopped
gc_marks_finish ==
    /\ step = "run" /\ inc /\ stack = {}
    /\ gc_mark(roots, FALSE, {})
    /\ IF roots \subseteq marked
       THEN /\ inc' = FALSE
            /\ step' = "shady"
            /\ todo' = marked \cap unprotected
       ELSE UNCHANGED <<inc, step, todo>>
    /\ UNCHANGED <<mutator, mode, minor, left>>

\* the end of gc_marks_rest / gc_marks_step: gc_sweep
gc_sweep ==
    /\ step = "drain" /\ stack = {}
    /\ step' = "run"
    /\ mode' = "sweeping"
    /\ left' = Pages
    /\ UNCHANGED <<mutator, age, marked, uncollectible, marking, stack, minor, inc, todo>>

\* obj_free and heap_page_add_freeobj of the objects of dead
obj_free(dead) ==
    /\ live' = live \ dead
    /\ refs' = [o \in Objects |-> IF o \in dead THEN {} ELSE refs[o]]
    /\ age' = [o \in Objects |-> IF o \in dead THEN 0 ELSE age[o]]
    /\ unprotected' = unprotected \ dead

\* gc_page_sweep: what is not marked is freed; gc_setup_mark_bits
gc_page_sweep(p) ==
    /\ step = "run" /\ mode = "sweeping" /\ p \in left
    /\ LET page == {o \in Objects : PageOf[o] = p}
       IN  /\ obj_free((page \cap live) \ marked)
           /\ marked' = (marked \ page) \cup (uncollectible \cap page)
    /\ left' = left \ {p}
    /\ mode' = IF left' = {} THEN "none" ELSE mode
    /\ UNCHANGED <<roots, uncollectible, marking, stack, minor, inc, step, todo, ops>>

-----------------------------------------------------------------------------
(* The write barriers. *)

sameBits == UNCHANGED <<age, marked, uncollectible, marking, stack>>

gc_writebarrier_generational(a) ==
    /\ marking' = marking \cup {a}
    /\ UNCHANGED <<age, marked, uncollectible, stack>>

\* for a mutant: only the generations are looked at
gc_writebarrier_incremental_gen(a, b) ==
    IF a \in Old \cap Black /\ b \in marked \ (Old \cup unprotected)
    THEN /\ age' = [age EXCEPT ![b] = OldAge]
         /\ uncollectible' = uncollectible \cup {b}
         /\ stack' = IF b \in Black THEN stack \cup {b} ELSE stack
         /\ marking' = IF b \in Black THEN marking \cup {b} ELSE marking
         /\ UNCHANGED marked
    ELSE sameBits

gc_writebarrier_incremental(a, b) ==
    IF a \notin Black THEN sameBits
    ELSE IF b \in White
    THEN IF a \in unprotected THEN sameBits ELSE gc_mark({b}, a \in Old, {})
    ELSE IF a \notin Old \/ b \in Old THEN sameBits
    ELSE IF b \in unprotected
    THEN /\ uncollectible' = uncollectible \cup {b}
         /\ UNCHANGED <<age, marked, marking, stack>>
    ELSE /\ age' = [age EXCEPT ![b] = OldAge]
         /\ uncollectible' = uncollectible \cup {b}
         /\ stack' = IF b \in Black THEN stack \cup {b} ELSE stack
         /\ marking' = IF b \in Black THEN marking \cup {b} ELSE marking
         /\ UNCHANGED marked

rb_gc_writebarrier(a, b) ==
    IF inc THEN gc_writebarrier_incremental(a, b)
    ELSE IF a \notin Old \/ b \in Old THEN sameBits
    ELSE gc_writebarrier_generational(a)

rb_gc_writebarrier_remember(a) ==
    IF inc
    THEN /\ stack' = IF a \in Black THEN stack \cup {a} ELSE stack
         /\ marking' = IF a \in Black THEN marking \cup {a} ELSE marking
         /\ UNCHANGED <<age, marked, uncollectible>>
    ELSE /\ marking' = IF a \in Old THEN marking \cup {a} ELSE marking
         /\ UNCHANGED <<age, marked, uncollectible, stack>>

-----------------------------------------------------------------------------
(* The mutator.  It works on objects its stack refers to. *)

Mutates == step = "run"

collector == <<mode, minor, inc, step, todo, left>>

\* newobj_init in a free slot of a page that is not before_sweep.  The fields
\* given to it are stored without a barrier.
newobj_init(o, wb_protected, fields) ==
    /\ Mutates
    /\ o \notin live
    /\ ~before_sweep(PageOf[o])
    /\ live' = live \cup {o}
    /\ roots' = roots \cup {o}
    /\ refs' = [refs EXCEPT ![o] = fields]
    /\ unprotected' = IF wb_protected THEN unprotected ELSE unprotected \cup {o}
    /\ UNCHANGED <<age, marked, uncollectible, marking, stack, collector, ops>>

\* a reference is loaded to the stack: from a field of an object on the
\* stack, or by ObjectSpace._id2ref, which takes any object that is alive
Load(o) ==
    /\ Mutates
    /\ o \in Alive \ roots
    /\ roots' = roots \cup {o}
    /\ UNCHANGED <<live, refs, bits, gcvars, ops>>

Drop(o) ==
    /\ Mutates
    /\ o \in roots
    /\ roots' = roots \ {o}
    /\ UNCHANGED <<live, refs, bits, gcvars, ops>>

\* RB_OBJ_WRITE: store and barrier
Write(a, b) ==
    /\ Mutates /\ "write" \in ops
    /\ a \in roots /\ b \in roots \ refs[a]
    /\ Cardinality(refs[a]) < MaxRefs
    /\ refs' = [refs EXCEPT ![a] = @ \cup {b}]
    /\ rb_gc_writebarrier(a, b)
    /\ UNCHANGED <<live, roots, unprotected, collector, ops>>

\* a store to an unprotected object needs no barrier
WriteUnprotected(a, b) ==
    /\ Mutates /\ "shady" \in ops
    /\ a \in roots \cap unprotected /\ b \in roots \ refs[a]
    /\ Cardinality(refs[a]) < MaxRefs
    /\ refs' = [refs EXCEPT ![a] = @ \cup {b}]
    /\ UNCHANGED <<live, roots, bits, gcvars, ops>>

\* a store that overwrites a reference with a special constant
Clear(a, b) ==
    /\ Mutates
    /\ a \in roots /\ b \in refs[a]
    /\ refs' = [refs EXCEPT ![a] = @ \ {b}]
    /\ UNCHANGED <<live, roots, bits, gcvars, ops>>

\* a block of references is copied (ary_memcpy0, rb_ary_splice), then the
\* object is remembered
WriteMany(a, new) ==
    /\ Mutates /\ "copy" \in ops
    /\ a \in roots \ unprotected
    /\ refs' = [refs EXCEPT ![a] = new]
    /\ rb_gc_writebarrier_remember(a)
    /\ UNCHANGED <<live, roots, unprotected, collector, ops>>

\* for a mutant: the object keeps its age
Demoted_age(o) ==
    /\ UNCHANGED age
    /\ marking' = IF inc THEN marking ELSE marking \ {o}

\* RVALUE_DEMOTE: the mark bit stays
Demoted(o) ==
    /\ age' = [age EXCEPT ![o] = 0]
    /\ marking' = IF inc THEN marking ELSE marking \ {o}

rb_gc_writebarrier_unprotect(o) ==
    /\ Mutates /\ "unprotect" \in ops
    /\ o \in roots \ unprotected
    /\ unprotected' = unprotected \cup {o}
    /\ IF o \in Old
       THEN /\ Demoted(o)
            /\ marked' = marked \cup {o}
            /\ uncollectible' = uncollectible \cup {o}
       ELSE /\ age' = [age EXCEPT ![o] = 0]
            /\ UNCHANGED <<marked, uncollectible, marking>>
    /\ UNCHANGED <<live, refs, roots, gcvars, ops>>

\* rb_copy_wb_protected_attribute of an unprotected object, by init_copy for
\* Kernel#clone and #dup
rb_copy_wb_protected_attribute(dest) ==
    /\ Mutates
    /\ dest \in roots \ unprotected
    /\ IF dest \in Old
       THEN /\ "clone old" \in ops
            /\ Demoted(dest)
            /\ uncollectible' = uncollectible \ {dest}
            /\ UNCHANGED unprotected
       ELSE /\ "clone" \in ops
            /\ age' = [age EXCEPT ![dest] = 0]
            /\ unprotected' = unprotected \cup {dest}
            /\ UNCHANGED <<uncollectible, marking>>
    /\ UNCHANGED <<live, refs, roots, marked, gcvars, ops>>

\* for a mutant: the mark bit of an old object is left to the sweeper
MarkGoes_inc(o) == inc

\* rb_gc_force_recycle leaves the mark bit to a sweeper that is to come
MarkGoes(o) ==
    inc \/ o \in Old \/ ~before_sweep(PageOf[o])

\* rb_gc_force_recycle of an object its caller knows to be the only user of
rb_gc_force_recycle(o) ==
    /\ Mutates /\ "recycle" \in ops
    /\ o \in roots
    /\ \A a \in Alive \ {o} : o \notin refs[a]
    /\ live' = live \ {o}
    /\ roots' = roots \ {o}
    /\ refs' = [refs EXCEPT ![o] = {}]
    /\ age' = [age EXCEPT ![o] = 0]
    /\ uncollectible' = uncollectible \ {o}
    /\ unprotected' = unprotected \ {o}
    /\ marking' = marking \ {o}
    /\ stack' = IF inc THEN stack \ {o} ELSE stack
    /\ marked' = IF MarkGoes(o) THEN marked \ {o} ELSE marked
    /\ UNCHANGED <<collector, ops>>

Fields == {s \in SUBSET roots : Cardinality(s) <= MaxRefs}

Collect ==
    \/ \E full, immediate \in BOOLEAN : gc_start(full, immediate)
    \/ \E p \in Pages : RememberPage(p) \/ gc_page_sweep(p)
    \/ \E o \in Objects : ScanChildren(o) \/ gc_mark_stacked_objects(o)
    \/ ScanEnds \/ gc_mark_roots \/ gc_marks_finish \/ gc_sweep

Mutate ==
    \/ \E o \in Objects, wb \in BOOLEAN, f \in Fields : newobj_init(o, wb, f)
    \/ \E o \in Objects : \/ Load(o) \/ Drop(o)
                          \/ rb_gc_writebarrier_unprotect(o)
                          \/ rb_copy_wb_protected_attribute(o)
                          \/ rb_gc_force_recycle(o)
    \/ \E a, b \in Objects : Write(a, b) \/ WriteUnprotected(a, b) \/ Clear(a, b)
    \/ \E a \in Objects, f \in Fields : WriteMany(a, f)

Next == Collect \/ Mutate

Spec == Init /\ [][Next]_vars

-----------------------------------------------------------------------------
(* Properties. *)

\* No object the program can still get at is freed: what the roots and the
\* objects that are alive (is_live_object) refer to is alive, whatever the
\* program stores between the steps of an incremental marking or a lazy sweep.
NoDangling ==
    /\ roots \subseteq Alive
    /\ \A o \in Alive : refs[o] \subseteq Alive

\* "reachable objects from black objects should be black or grey objects"
\* (verify_internal_consistency_i, check_color_i), unless nothing guards the
\* object's fields; gc_marks_wb_unprotected_objects deals with those.
BlackToWhite ==
    inc /\ step = "run" =>
        \A o \in live \cap Black : o \in unprotected \/ refs[o] \subseteq marked

\* "reachable objects from an oldgen object should be old or (young with
\* remember)" (check_generation_i), so that a minor collection which starts
\* from the remember set misses nothing.
OldToYoung ==
    mode # "marking" =>
        \A o \in Alive \cap Old : o \in marking \/ refs[o] \subseteq uncollectible \cup marking

\* What newobj_init asserts of the slot it is given: no bit of an earlier
\* object is left, except a mark bit the sweeper has still to clear.
FreeSlotsAreClean ==
    \A o \in Objects \ live :
        /\ age[o] = 0
        /\ o \notin uncollectible \cup unprotected \cup marking \cup stack
        /\ o \in marked => before_sweep(PageOf[o])

\* check_rvalue_consistency: an unprotected object has no age; outside marking
\* an uncollectible object is marked and is old or unprotected, an old one is
\* uncollectible, and only old objects are remembered.
Generations ==
    /\ \A o \in unprotected : age[o] = 0
    /\ mode # "marking" =>
          /\ uncollectible \subseteq marked \cap (Old \cup unprotected)
          /\ Old \cap Alive \subseteq uncollectible
          /\ marking \subseteq Old
=============================================================================
