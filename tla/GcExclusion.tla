---------------------------- MODULE GcExclusion ----------------------------
(***************************************************************************)
(* What mjit_gc_start, mjit_gc_finish and start_unit promise together: the *)
(* iseqs are either collected or translated.  Translations exclude a       *)
(* collection, not each other.                                             *)
(***************************************************************************)
CONSTANT Workers
VARIABLES gc, translating

Init == gc = FALSE /\ translating = {}

\* mjit_gc_start waits until units_in_translation is 0.
StartGc == ~gc /\ translating = {} /\ gc' = TRUE /\ UNCHANGED translating

\* mjit_gc_finish.
EndGc == gc' = FALSE /\ UNCHANGED translating

\* start_unit waits until in_gc is FALSE.
Begin(w) == ~gc /\ translating' = translating \cup {w} /\ UNCHANGED gc

End(w) == translating' = translating \ {w} /\ UNCHANGED gc

\* fork: the child has no workers.
Abandon == translating' = {} /\ UNCHANGED gc

Next == StartGc \/ EndGc \/ Abandon \/ \E w \in Workers : Begin(w) \/ End(w)

Spec == Init /\ [][Next]_<<gc, translating>>
=============================================================================
