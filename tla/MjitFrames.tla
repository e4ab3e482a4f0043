----------------------------- MODULE MjitFrames -----------------------------
(***************************************************************************)
(* The frames that execute JIT code, and the code they execute: calls,     *)
(* failed speculations and mutations, cancellation through a flag in the   *)
(* frame, unloading of code that no frame uses, fibers and continuations.  *)
(*                                                                         *)
(* All of it runs in Ruby threads under the GVL, except that workers load  *)
(* code, which MjitEngine models step by step and Load here in one.        *)
(***************************************************************************)
EXTENDS Integers, Sequences, FiniteSets

CONSTANTS
    Iseqs,
    Insns,          \* instructions of an iseq whose code may speculate
    Codes,          \* machine code in memory: bounds the loaded units
    Fibers,         \* the fibers of the thread, each with a VM stack
    None,           \* NULL; code None of a frame: the interpreter runs it
    MaxMutations, MaxCache, UnloadShare,        \* as in MjitEngine
    MaxDepth,       \* bounds the frames of a stack
    Programs        \* what may happen: sets of events

\* aot      the option --jit:aot
\* insn     the speculation of an instruction fails
\* whole    a speculation of a whole function fails
\* bop      a basic operation is redefined
\* fiber    fibers are made, switched and freed
\* callcc   a continuation is captured and called
\* raise    an exception unwinds frames
EventNames == {"aot", "insn", "whole", "bop", "fiber", "callcc", "raise"}

\* Speculations of a whole function: ep_neq_bp_p is not set, ivar_spec is (an
\* iseq with few accesses to instance variables has only the first).
Whole == {"ep", "ivar"}

ASSUME FramesAssumption ==
    /\ MaxMutations \in Nat /\ MaxCache \in Nat /\ UnloadShare \in Nat \ {0}
    /\ MaxDepth \in Nat \ {0} /\ Programs \subseteq SUBSET EventNames
    /\ IsFiniteSet(Codes) /\ None \notin Codes \cup Iseqs \cup Insns
    /\ Codes \cap {"NOT_ADDED", "NOT_READY"} = {}

VARIABLES
    stack,          \* fiber -> frames, the last is the current one
    th,             \* the fiber that runs: its stack is the stack of the thread
    conts,          \* fibers registered with mjit_cont_new
    sth,            \* fiber -> saved_thread.stack is not NULL
    captured,       \* the continuation of callcc, a copy of a stack, or None
    canceled,       \* environments with VM_FRAME_FLAG_CANCEL
    code,           \* what a code was generated from
    active, obsolete,
    jit_code,       \* iseq -> code, "NOT_ADDED" or "NOT_READY"
    queued,         \* iseqs with a unit in the queue
    ui,             \* struct rb_mjit_unit_iseq
    bop_redefined,
    adding,         \* the iseq in mjit_add_iseq_to_process
    events          \* what happens in this behaviour

threadv == <<stack, th, captured>>
contv == <<conts, sth>>
codev == <<code, active, obsolete, jit_code, queued>>
vars == <<threadv, contv, canceled, codev, ui, bop_redefined, adding, events>>

-----------------------------------------------------------------------------
Frames(s) == {s[n] : n \in DOMAIN s}
Top == stack[th][Len(stack[th])]
IsCode(i) == jit_code[i] \in Codes
Loaded == active \cup obsolete

\* An environment no frame has: frames of a continuation share theirs with
\* the frames they were copied from.
Envs == 1 .. (Cardinality(Fibers) + 1) * MaxDepth
UsedEnvs == {f.env : f \in UNION {Frames(stack[c]) : c \in Fibers} \cup
                           (IF captured = None THEN {} ELSE Frames(captured.frames))}
NewEnv == CHOOSE e \in Envs \ UsedEnvs : TRUE

\* The current frame goes on, in its JIT code or in the interpreter: JIT code
\* that finds the flag after a call does not.
Running ==
    /\ adding = None
    /\ stack[th] # <<>> => Top.code = None \/ Top.env \notin canceled

\* No code is loaded here.
Blank == [iseq |-> None, mutation_num |-> 0, insns |-> {}, whole |-> {}, bop |-> FALSE]

Init ==
    /\ stack = [c \in Fibers |-> <<>>] /\ th \in Fibers
    /\ conts = {} /\ sth = [c \in Fibers |-> FALSE] /\ captured = None
    /\ canceled = {}
    /\ code = [c \in Codes |-> Blank]
    /\ active = {} /\ obsolete = {} /\ queued = {}
    /\ jit_code = [i \in Iseqs |-> "NOT_ADDED"]
    /\ ui = [i \in Iseqs |-> [jit_mutations_num |-> 0, whole |-> Whole,
                              insns |-> [k \in 0 .. MaxMutations |-> None]]]
    /\ bop_redefined = FALSE /\ adding = None
    /\ events \in Programs

-----------------------------------------------------------------------------
\* Code.

\* get_insn_mutation_num: instructions of i that caused mutations.
Mutated(i) == {ui[i].insns[k] : k \in 0 .. ui[i].jit_mutations_num - 1} \ {None}

\* translate_iseq_insn: the instructions that are translated as speculative
\* ones; get_safe_insn replaces the others.
Speculative(i) ==
    IF ui[i].jit_mutations_num >= MaxMutations THEN {} ELSE Insns \ Mutated(i)

\* A worker translates the iseq and loads the code.
Load(i) ==
    /\ i \in queued /\ queued' = queued \ {i}
    /\ \E c \in Codes \ Loaded :
          /\ code' = [code EXCEPT ![c] =
                 [iseq |-> i, mutation_num |-> ui[i].jit_mutations_num,
                  insns |-> Speculative(i), whole |-> ui[i].whole,
                  bop |-> ~bop_redefined]]
          /\ active' = active \cup {c}
          /\ jit_code' = [jit_code EXCEPT ![i] = c]
    /\ UNCHANGED <<threadv, contv, canceled, obsolete, ui, bop_redefined, adding>>

\* mjit_redo_iseq does nothing after the last mutation.
CanMutate(i) == ui[i].jit_mutations_num < MaxMutations

\* Wrong variant: the mutation is not counted.
NotCounted(n, spec_fail_p) == n

\* Only the failed speculation of an instruction counts.
Counted(n, spec_fail_p) == IF spec_fail_p THEN n + 1 ELSE n

\* mjit_redo_iseq, called only if i has code: the code becomes obsolete and
\* the iseq is added again.  r is the unit iseq, up to the mutations number.
Redo(i, r, spec_fail_p) ==
    IF IsCode(i) /\ CanMutate(i)
    THEN /\ ui' = [ui EXCEPT ![i] =
                        [r EXCEPT !.jit_mutations_num = Counted(@, spec_fail_p)]]
         /\ active' = active \ {jit_code[i]}
         /\ obsolete' = obsolete \cup {jit_code[i]}
         /\ jit_code' = [jit_code EXCEPT ![i] = "NOT_READY"]
         /\ adding' = i
    ELSE /\ ui' = [ui EXCEPT ![i] = r]
         /\ UNCHANGED <<active, obsolete, jit_code, adding>>

\* Wrong variant: only the stack of the thread.
ThreadOnly == {th}

\* The stacks that mark_thread_unit_iseqs and cancel_thread_frames visit: the
\* one of the thread, and those of registered fibers with a saved stack.  The
\* saved stack of a continuation is always NULL.
Visited == {th} \cup {c \in conts : sth[c]}

\* Wrong variant: only the current frame.
UsedByTop == IF stack[th] = <<>> THEN {} ELSE {Top.iseq}

\* mark_thread_unit_iseqs: used_code_p of the unit iseqs on the stacks.
Used == {f.iseq : f \in UNION {Frames(stack[c]) : c \in Visited}}

\* unload_units evicts active code that is not used, until there is room.
Evictable ==
    LET kept == {c \in obsolete : code[c].iseq \in Used}
        idle == {c \in active : code[c].iseq \notin Used}
        over == Cardinality(active) + Cardinality(kept)
                    - (MaxCache - Cardinality(active) \div UnloadShare)
        n == IF over <= 0 THEN 0
             ELSE IF over > Cardinality(idle) THEN Cardinality(idle) ELSE over
    IN  {E \in SUBSET idle : Cardinality(E) = n}

mjit_add_iseq_to_process ==
    /\ adding # None /\ adding' = None
    /\ IF Cardinality(Loaded) < MaxCache
       THEN /\ queued' = queued \cup {adding}
            /\ UNCHANGED <<code, active, obsolete, jit_code>>
       ELSE \E evicted \in Evictable :
            LET hit == {code[c].iseq : c \in evicted} IN
            /\ active' = active \ evicted
            /\ obsolete' = {c \in obsolete : code[c].iseq \in Used}
            /\ code' = [c \in Codes |-> IF c \in active' \cup obsolete' THEN code[c]
                                        ELSE Blank]
            /\ jit_code' = [i \in Iseqs |-> IF i \in hit THEN "NOT_READY"
                                            ELSE jit_code[i]]
            /\ queued' = queued \cup {adding} \cup (IF "aot" \in events THEN hit ELSE {})
    /\ UNCHANGED <<threadv, contv, canceled, ui, bop_redefined>>

-----------------------------------------------------------------------------
\* Frames.

\* A new frame, without the flag.  There are more environments than frames.
Push(i, c) ==
    /\ Envs \ UsedEnvs # {}
    /\ stack' = [stack EXCEPT ![th] = Append(@, [iseq |-> i, code |-> c, env |-> NewEnv])]
    /\ UNCHANGED canceled

\* The flags of frames that are gone are gone with them.
Forget == canceled' = canceled \cap UsedEnvs'

\* mjit_execute_iseq: an iseq without code is interpreted; the call that
\* reaches the threshold queues it.
CallInterpreted(i) ==
    /\ Running /\ Len(stack[th]) < MaxDepth /\ ~IsCode(i)
    /\ Push(i, None)
    /\ IF jit_code[i] = "NOT_ADDED"
       THEN jit_code' = [jit_code EXCEPT ![i] = "NOT_READY"] /\ adding' = i
       ELSE UNCHANGED <<jit_code, adding>>
    /\ UNCHANGED <<th, captured, contv, code, active, obsolete, queued, ui,
                   bop_redefined>>

CallCode(i) ==
    /\ Running /\ Len(stack[th]) < MaxDepth /\ IsCode(i)
    /\ Push(i, jit_code[i])
    /\ UNCHANGED <<th, captured, contv, codev, ui, bop_redefined, adding>>

\* The code checks the speculations of the whole function first: mjit_ivar_spec_fail
\* or mjit_ep_eq_bp_fail, and the frame is interpreted.
CallFails(i, s) ==
    /\ Running /\ Len(stack[th]) < MaxDepth /\ IsCode(i)
    /\ "whole" \in events /\ s \in code[jit_code[i]].whole
    /\ Push(i, None)
    /\ Redo(i, [ui[i] EXCEPT !.whole = @ \ {s}], FALSE)
    /\ UNCHANGED <<th, captured, contv, code, queued, bop_redefined>>

\* The interpreter goes on with the current frame.
Interpret ==
    LET s == stack[th] IN
    stack' = [stack EXCEPT ![th] = [s EXCEPT ![Len(s)].code = None]]

\* mjit_store_failed_spec_insn(iseq, p, k)
FailedInsnStored(r, k, p) == [r EXCEPT !.insns[k] = p]

\* stop_spec: store the instruction, change the iseq, interpret the frame.
StopSpec(p) ==
    /\ Redo(Top.iseq, FailedInsnStored(ui[Top.iseq], code[Top.code].mutation_num, p), TRUE)
    /\ Interpret
    /\ UNCHANGED <<th, captured, contv, canceled, code, queued, bop_redefined>>

\* A speculation fails in the current frame: that of a speculative
\* instruction, or, after a call, that ep and bp are equal.
SpecFail(p) ==
    /\ Running /\ stack[th] # <<>> /\ Top.code # None
    /\ \/ "insn" \in events /\ p \in code[Top.code].insns
       \/ "whole" \in events /\ "ep" \in code[Top.code].whole
    /\ StopSpec(p)

\* JIT code finds the flag of its frame after a call: it goes to stop_spec or
\* to cancel.
Canceled ==
    /\ adding = None /\ stack[th] # <<>> /\ Top.code # None /\ Top.env \in canceled
    /\ \/ \E p \in Insns : StopSpec(p)
       \/ /\ Interpret
          /\ UNCHANGED <<th, captured, contv, canceled, codev, ui, bop_redefined,
                         adding>>

Return ==
    /\ Running /\ stack[th] # <<>>
    /\ stack' = [stack EXCEPT ![th] = SubSeq(@, 1, Len(@) - 1)]
    /\ UNCHANGED <<th, captured, contv, codev, ui, bop_redefined, adding>>
    /\ Forget

\* An exception unwinds to frame n: vm_exec goes on with it in the interpreter.
Raise(n) ==
    LET s == SubSeq(stack[th], 1, n) IN
    /\ Running /\ "raise" \in events /\ n < Len(stack[th])
    /\ stack' = [stack EXCEPT ![th] = [s EXCEPT ![n].code = None]]
    /\ UNCHANGED <<th, captured, contv, codev, ui, bop_redefined, adding>>
    /\ Forget

\* cancel_thread_frames flags the frames of iseqs that have code now.
CancelFrames ==
    canceled' = canceled \cup
        {f.env : f \in {g \in UNION {Frames(stack[c]) : c \in Visited} : IsCode(g.iseq)}}

\* A basic operation is redefined: mjit_cancel_all, called by the method that
\* the current frame calls.
mjit_cancel_all ==
    LET broken == {c \in active : code[c].bop}
        hit == {code[c].iseq : c \in broken}
    IN
    /\ Running /\ "bop" \in events
    /\ bop_redefined' = TRUE /\ CancelFrames
    /\ active' = active \ broken /\ obsolete' = obsolete \cup broken
    /\ jit_code' = [i \in Iseqs |-> IF i \in hit THEN "NOT_READY" ELSE jit_code[i]]
    /\ queued' = queued \cup hit
    /\ UNCHANGED <<threadv, contv, code, ui, adding>>

-----------------------------------------------------------------------------
\* Fibers and continuations.

\* cont_init of a fiber, or of the running one when it is first needed.
mjit_cont_new(c) ==
    /\ Running /\ "fiber" \in events /\ c \notin conts
    /\ conts' = conts \cup {c} /\ sth' = [sth EXCEPT ![c] = TRUE]
    /\ UNCHANGED <<threadv, canceled, codev, ui, bop_redefined, adding>>

\* Wrong variant: the stack of the fiber that is left is not saved.
Switched(c) == [sth EXCEPT ![c] = FALSE]

\* cont_save_thread of the running fiber, cont_restore_thread of c.
SavedStacks(c) == [sth EXCEPT ![th] = TRUE, ![c] = FALSE]

fiber_switch(c) ==
    /\ Running /\ {th, c} \subseteq conts /\ c # th
    /\ th' = c /\ sth' = SavedStacks(c)
    /\ UNCHANGED <<stack, captured, conts, canceled, codev, ui, bop_redefined, adding>>

\* A finished fiber is collected.
mjit_cont_free(c) ==
    /\ Running /\ c \in conts \ {th} /\ stack[c] = <<>>
    /\ conts' = conts \ {c} /\ sth' = [sth EXCEPT ![c] = FALSE]
    /\ UNCHANGED <<threadv, canceled, codev, ui, bop_redefined, adding>>

\* callcc copies the stack.  The continuation is registered, with
\* saved_thread.stack NULL.
cont_capture ==
    /\ Running /\ "callcc" \in events /\ captured = None /\ stack[th] # <<>>
    /\ captured' = [fiber |-> th, frames |-> stack[th]]
    /\ UNCHANGED <<stack, th, contv, canceled, codev, ui, bop_redefined, adding>>

\* The continuation is called: its frames are the stack again.
cont_restore_thread ==
    /\ Running /\ captured # None /\ captured.fiber = th
    /\ stack' = [stack EXCEPT ![th] = captured.frames]
    /\ UNCHANGED <<th, captured, contv, codev, ui, bop_redefined, adding>>
    /\ Forget

Next ==
    /\ \/ \E i \in Iseqs : \/ Load(i) \/ CallInterpreted(i) \/ CallCode(i)
                           \/ \E s \in Whole : CallFails(i, s)
       \/ mjit_add_iseq_to_process
       \/ \E p \in Insns : SpecFail(p)
       \/ Canceled \/ Return \/ mjit_cancel_all
       \/ \E n \in 1 .. MaxDepth : Raise(n)
       \/ \E c \in Fibers : mjit_cont_new(c) \/ fiber_switch(c) \/ mjit_cont_free(c)
       \/ cont_capture \/ cont_restore_thread
    /\ UNCHANGED events

Spec == Init /\ [][Next]_vars

-----------------------------------------------------------------------------
\* Properties.

Frame == [iseq : Iseqs, code : Codes \cup {None}, env : Envs]
AllFrames == UNION {Frames(stack[c]) : c \in Fibers}

Generated == [iseq : Iseqs \cup {None}, mutation_num : 0 .. MaxMutations, insns : SUBSET Insns,
              whole : SUBSET Whole, bop : BOOLEAN]
UnitIseq == [jit_mutations_num : 0 .. MaxMutations, whole : SUBSET Whole,
             insns : [0 .. MaxMutations -> Insns \cup {None}]]

\* Type correctness.  The mutation number stays an index of mutation_insns, an
\* array of max_mutations + 1 elements, and stacks keep within their bound.
TypeOK ==
    /\ stack \in [Fibers -> Seq(Frame)] /\ \A c \in Fibers : Len(stack[c]) <= MaxDepth
    /\ captured # None => captured \in [fiber : Fibers, frames : Seq(Frame)]
    /\ captured # None => Len(captured.frames) \in 1 .. MaxDepth
    /\ th \in Fibers /\ conts \subseteq Fibers /\ sth \in [Fibers -> BOOLEAN]
    /\ canceled \subseteq Envs
    /\ active \subseteq Codes /\ obsolete \subseteq Codes /\ queued \subseteq Iseqs
    /\ jit_code \in [Iseqs -> Codes \cup {"NOT_ADDED", "NOT_READY"}]
    /\ code \in [Codes -> Generated] /\ ui \in [Iseqs -> UnitIseq]
    /\ bop_redefined \in BOOLEAN /\ adding \in Iseqs \cup {None}
    /\ events \in SUBSET EventNames

\* unload_units: obsolete code "might be still on the stack".  No frame executes
\* code that is unloaded, or another code loaded in its place.  (Continuations
\* break it: ContinuationsRunLoadedCode.)
FramesRunLoadedCode ==
    "callcc" \notin events => \A f \in AllFrames : f.code # None =>
        f.code \in Loaded /\ code[f.code].iseq = f.iseq

\* The same of every frame, that of a called continuation too.
ContinuationsRunLoadedCode ==
    \A f \in AllFrames : f.code # None =>
        f.code \in Loaded /\ code[f.code].iseq = f.iseq

\* README.md: "When a global speculation becomes wrong, all currently executed
\* JIT functions are canceled": JIT code that trusts that no basic operation is
\* redefined finds the flag of its frame once one is.
WrongCodeIsCanceled ==
    bop_redefined => \A f \in AllFrames :
        f.code # None /\ code[f.code].bop => f.env \in canceled

\* mutation_insns: "The array has JIT_MUTATIONS_NUM defined elements".
MutationsDefined ==
    \A i \in Iseqs : \A k \in 0 .. ui[i].jit_mutations_num - 1 : ui[i].insns[k] # None

\* "The last mutation will contain the code without speculation".
LastMutationIsSafe ==
    \A c \in active : code[c].mutation_num >= MaxMutations =>
        code[c].insns = {} /\ code[c].whole = {}

\* mjit_redo_iseq: there are finitely many mutations of an iseq.  Code that is
\* replaced because a speculation failed is replaced by code that speculates
\* less: a mutation is used up, or a speculation of the whole function is.
Measure(i) == (MaxMutations - ui[i].jit_mutations_num) + Cardinality(ui[i].whole)
RedoConverges ==
    [][\A i \in Iseqs : adding' = i /\ IsCode(i) => 0 <= Measure(i)' /\ Measure(i)' < Measure(i)]_vars

=============================================================================
