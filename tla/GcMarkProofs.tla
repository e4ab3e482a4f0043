---------------------------- MODULE GcMarkProofs ----------------------------
(***************************************************************************)
(* The garbage collector of GcMark frees nothing the program can reach,    *)
(* and keeps the bits of the generations, for any heap, any number of      *)
(* pages and generations, and any program.                                 *)
(***************************************************************************)
EXTENDS GcMark, TLAPS

USE SMTT(30), ZenonT(60)

-----------------------------------------------------------------------------
(* The inductive invariant. *)

\* which of the collector's variables mean something in which of its steps
Control ==
    /\ mode # "marking" => step = "run" /\ ~inc /\ stack = {} /\ todo = {}
    /\ mode = "none" => left = {}
    /\ mode = "marking" /\ step = "run" => inc
    /\ inc => ~minor /\ step \in {"run", "roots"} /\ todo = {} /\ left = {} /\ marking = stack
    /\ step = "remember" => minor
    /\ step = "shady" => ~minor /\ left = {}
    /\ step \in {"roots", "drain"} => todo = {} /\ left = {}
    /\ "clone old" \notin ops

\* no bit is set for a slot that is free, and the bits of one object agree
Bits ==
    /\ FreeSlotsAreClean
    /\ \A o \in unprotected : age[o] = 0
    /\ todo \subseteq marked
    /\ stack \subseteq marked
    /\ marking \subseteq marked
    /\ inc \/ marking \subseteq Old

\* outside marking: a minor collection may start from these bits
Between ==
    mode # "marking" =>
        /\ uncollectible \subseteq marked
        /\ uncollectible \subseteq Old \cup unprotected
        /\ \A o \in Old : o \in Alive => o \in uncollectible
        /\ \A o \in Old : o \in Alive => o \in marking \/ refs[o] \subseteq uncollectible
        /\ \A o \in marked : PageOf[o] \notin left => o \in uncollectible

\* marked objects whose children the collector has still to look at
Pending(o) ==
    \/ o \in stack \/ o \in todo
    \/ inc /\ o \in unprotected
    \/ /\ step = "remember" /\ PageOf[o] \in left
       /\ o \in marking \/ (o \in uncollectible /\ o \in unprotected)

\* during marking: what is marked and not pending is done
Marking ==
    mode = "marking" =>
        /\ uncollectible \subseteq marked
        /\ uncollectible \subseteq Old \cup unprotected
        /\ \A o \in Old : o \in marked => o \in uncollectible
        /\ minor => \A o \in Old : o \in live => o \in marked
        /\ step \in {"drain", "shady"} => roots \subseteq marked
        /\ \A o \in marked : Pending(o) \/ refs[o] \subseteq marked
        /\ \A o \in marked : o \in Old => Pending(o) \/ o \in marking \/ refs[o] \subseteq uncollectible

IInv == TypeOK /\ Control /\ Bits /\ NoDangling /\ Between /\ Marking

-----------------------------------------------------------------------------
(* Marking. *)

\* What gc_mark does, said of one object at a time.
Marks(C, p, popped) ==
    /\ marked' = marked \cup C
    /\ age' \in [Objects -> 0..OldAge]
    /\ \A o \in Objects : o \notin C \/ o \in unprotected \/ age[o] = OldAge => age'[o] = age[o]
    /\ \A o \in Objects : age'[o] = OldAge /\ age[o] # OldAge =>
          o \in stack' \/ (o \in marking' /\ o \in marked /\ ~inc)
    /\ \A o \in Objects : age'[o] = OldAge /\ o \in marked' => o \in uncollectible'
    /\ \A o \in uncollectible' : o \in uncollectible \/ o \in C
    /\ \A o \in uncollectible' : age'[o] = OldAge \/ o \in unprotected
    /\ uncollectible \subseteq uncollectible'
    /\ p => C \subseteq uncollectible'
    /\ \A o \in stack : o \in popped \/ o \in stack'
    /\ \A o \in C : o \in marked \/ o \in stack'
    /\ \A o \in stack' : (o \in stack /\ o \notin popped) \/ o \in C
    /\ inc => marking' = stack'
    /\ ~inc => marking \subseteq marking'
    /\ \A o \in marking' : ~inc => age'[o] = OldAge
    /\ \A o \in marking' : o \in marking \/ o \in C

LEMMA MarkEffect ==
    ASSUME NEW C \in SUBSET live, NEW p \in BOOLEAN, NEW popped \in SUBSET marked,
           IInv, mode = "marking", p => popped \subseteq Old,
           gc_mark(C, p, popped)
    PROVE  Marks(C, p, popped)
<1> DEFINE new == C \ marked
           old == Promoted(C, p)
           reold == old \cap marked
<1>0. /\ C \subseteq Objects /\ age \in [Objects -> 0..OldAge] /\ OldAge \in Nat \ {0}
      /\ \A o \in unprotected : age[o] = 0
  BY HeapAssumption DEF IInv, TypeOK, Bits
<1>1. /\ age' = [o \in Objects |-> IF o \in old THEN OldAge
                                  ELSE IF o \in new THEN gc_aging(o) ELSE age[o]]
      /\ uncollectible' = uncollectible \cup old
              \cup (IF p THEN C \cap unprotected ELSE {})
              \cup {o \in new : age'[o] = OldAge /\ (o \notin Old \/ ~minor)}
      /\ marked' = marked \cup C
  BY DEF gc_mark
<1>2. /\ inc => stack' = (stack \ popped) \cup new \cup (reold \ marking)
      /\ inc => marking' = (marking \cup new \cup reold) \ popped
      /\ ~inc => stack' = (stack \ popped) \cup new
      /\ ~inc => marking' = marking \cup reold
  BY DEF gc_mark, rgengc_remember
<1>3. \A o \in Objects : o \in old <=> p /\ o \in C /\ o \notin unprotected /\ age[o] # OldAge
  BY <1>0 DEF Promoted, Old
<1>3a. old \subseteq C
  BY DEF Promoted
<1>4. \A o \in Objects : o \notin unprotected /\ age[o] # OldAge => gc_aging(o) = age[o] + 1
  BY <1>0 DEF gc_aging, Old
<1>5. \A o \in Objects : o \in unprotected \/ age[o] = OldAge => gc_aging(o) = age[o]
  BY <1>0 DEF gc_aging, Old
<1>6. age' \in [Objects -> 0..OldAge]
  BY <1>0, <1>1, <1>4, <1>5
<1>7. \A o \in Objects : o \notin C \/ o \in unprotected \/ age[o] = OldAge => age'[o] = age[o]
  BY <1>0, <1>1, <1>3, <1>5
<1>8. \A o \in Objects : age'[o] = OldAge /\ age[o] # OldAge => o \in new \/ o \in reold
  BY <1>0, <1>1, <1>3
<1>9. \A o \in reold : age'[o] = OldAge
  BY <1>0, <1>1, <1>3a
<1>10. marking \subseteq marked /\ stack \subseteq marked /\ (inc => marking = stack /\ ~minor)
       /\ (~inc => marking \subseteq Old)
  BY ZenonT(60) DEF IInv, Bits, Control
<1>11. popped \cap (new \cup reold) = {}
  BY <1>0, <1>3, <1>3a DEF Old
<1> HIDE DEF new, reold
<1>12. \A o \in Objects : age'[o] = OldAge /\ age[o] # OldAge =>
          o \in stack' \/ (o \in marking' /\ o \in marked /\ ~inc)
  BY <1>2, <1>8, <1>10, <1>11 DEF reold
<1>13. \A o \in Objects : age'[o] = OldAge /\ o \in marked' => o \in uncollectible'
  <2> SUFFICES ASSUME NEW o \in Objects, age'[o] = OldAge, o \in marked'
               PROVE  o \in uncollectible'
    OBVIOUS
  <2>1. CASE o \in marked /\ age[o] = OldAge
    BY <1>1, <2>1 DEF IInv, Marking, Old
  <2>2. CASE o \in new /\ age[o] = OldAge
    <3>1. ~minor
      BY <1>0, <2>2 DEF IInv, Marking, Old, new
    <3> QED BY <1>1, <2>2, <3>1
  <2>3. CASE age[o] # OldAge
    BY <1>1, <1>8, <2>3 DEF Old, reold
  <2> QED BY <1>1, <2>1, <2>2, <2>3 DEF new
<1>14. \A o \in uncollectible' : o \in uncollectible \/ o \in C
  BY <1>1 DEF new, old, Promoted
<1>15. \A o \in uncollectible' : age'[o] = OldAge \/ o \in unprotected
  <2> SUFFICES ASSUME NEW o \in uncollectible', o \notin unprotected
               PROVE  age'[o] = OldAge
    OBVIOUS
  <2>1. CASE o \in uncollectible
    BY <1>7, <2>1 DEF IInv, Marking, Old
  <2>2. CASE o \in old
    BY <1>0, <1>1, <2>2 DEF old, Promoted
  <2> QED BY <1>1, <2>1, <2>2
<1>16. p => C \subseteq uncollectible'
  <2> SUFFICES ASSUME p, NEW o \in C
               PROVE  o \in uncollectible'
    OBVIOUS
  <2>1. CASE o \in unprotected
    BY <1>1, <2>1, ZenonT(60)
  <2>2. CASE age[o] = OldAge
    BY <1>0, <1>1, <1>7, <1>13, <2>2, ZenonT(60)
  <2>3. CASE o \in old
    BY <1>1, <2>3, ZenonT(60)
  <2> QED BY <1>0, <1>3, <2>1, <2>2, <2>3, ZenonT(60)
<1>17. /\ \A o \in stack : o \in popped \/ o \in stack'
       /\ \A o \in C : o \in marked \/ o \in stack'
  BY <1>2 DEF new
<1>18. \A o \in stack' : (o \in stack /\ o \notin popped) \/ o \in C
  BY <1>2, <1>10, <1>11 DEF new, reold, old, Promoted
<1>19. inc => marking' = stack'
  BY <1>2, <1>10, <1>11 DEF new, reold
<1>20. /\ ~inc => marking \subseteq marking'
       /\ \A o \in marking' : o \in marking \/ o \in C
  BY <1>2 DEF new, reold, old, Promoted
<1>21. \A o \in marking' : ~inc => age'[o] = OldAge
  BY <1>0, <1>2, <1>7, <1>9, <1>10 DEF Old
<1> QED
  BY <1>1, <1>6, <1>7, <1>12, <1>13, <1>14, <1>15, <1>16, <1>17, <1>18, <1>19, <1>20, <1>21
  DEF Marks

\* The heap is closed before and after a step of the collector while it marks.
LEMMA HeapStays ==
    ASSUME IInv, mode = "marking", mode' = "marking", UNCHANGED <<live, refs, roots>>
    PROVE  NoDangling' /\ Between'
<1>1. Alive = live /\ Alive' = live'
  BY DEF Alive, Garbage, before_sweep
<1>2. NoDangling
  BY DEF IInv
<1> QED
  BY <1>1, <1>2 DEF NoDangling, Between

\* Marking children or roots keeps the bits right.
LEMMA MarkKeepsBits ==
    ASSUME NEW C \in SUBSET live, NEW p, NEW popped, IInv, Marks(C, p, popped),
           mode = "marking", mode' = "marking",
           inc' = inc, todo' \subseteq todo, UNCHANGED <<live, unprotected>>
    PROVE  Bits'
<1>1. FreeSlotsAreClean'
  <2> SUFFICES ASSUME NEW o \in Objects \ live
               PROVE  /\ age'[o] = 0
                      /\ o \notin uncollectible' \cup unprotected' \cup marking' \cup stack'
                      /\ o \notin marked'
    BY DEF FreeSlotsAreClean
  <2>1. /\ age[o] = 0 /\ o \notin C
        /\ o \notin uncollectible \cup unprotected \cup marking \cup stack
        /\ o \notin marked
    BY DEF IInv, Bits, FreeSlotsAreClean, before_sweep
  <2> QED BY <2>1 DEF Marks
<1>2. \A o \in unprotected' : age'[o] = 0
  BY DEF Marks, IInv, Bits, TypeOK
<1>3. todo' \subseteq marked' /\ stack' \subseteq marked' /\ marking' \subseteq marked'
  BY DEF Marks, IInv, Bits
<1>4. inc' \/ marking' \subseteq Old'
  <2>1. live \subseteq Objects /\ marking \subseteq Objects
    BY DEF IInv, TypeOK
  <2> QED BY <2>1 DEF Marks, Old
<1> QED BY <1>1, <1>2, <1>3, <1>4 DEF Bits

LEMMA MarkKeepsTypes ==
    ASSUME NEW C \in SUBSET live, NEW p, NEW popped, IInv, Marks(C, p, popped),
           UNCHANGED <<live, roots, unprotected>>, refs' \in [Objects -> SUBSET Objects],
           todo' \subseteq Objects, left' \subseteq Pages, mode' \in {"none", "marking", "sweeping"},
           step' \in {"run", "remember", "roots", "drain", "shady"},
           minor' \in BOOLEAN, inc' \in BOOLEAN
    PROVE  TypeOK'
<1>1. TypeOK
  BY DEF IInv
<1>2. marked' \subseteq Objects /\ uncollectible' \subseteq Objects /\ stack' \subseteq Objects
      /\ marking' \subseteq Objects /\ age' \in [Objects -> 0..OldAge]
  BY <1>1 DEF Marks, TypeOK
<1> QED
  BY <1>1, <1>2 DEF TypeOK

\* What is not pending after marking the children of o (or the roots, when
\* nothing is popped) is done.
LEMMA MarkKeepsDone ==
    ASSUME NEW C \in SUBSET live, NEW p, NEW popped, IInv, Marks(C, p, popped),
           mode = "marking", mode' = "marking", minor' = minor,
           UNCHANGED <<live, roots, unprotected>>,
           \A o \in marked : \/ refs'[o] \subseteq refs[o]
                             \/ Pending(o)'
                             \/ refs'[o] \subseteq refs[o] \cup C /\ (o \in Old => p),
           roots \subseteq marked' \/ step' \notin {"drain", "shady"},
           \A o \in marked : Pending(o) =>
              Pending(o)' \/ (refs[o] \subseteq C /\ (o \in Old => p))
    PROVE  Marking'
<1>1. /\ uncollectible \subseteq marked
      /\ \A o \in Old : o \in marked => o \in uncollectible
      /\ minor => \A o \in Old : o \in live => o \in marked
      /\ \A o \in marked : Pending(o) \/ refs[o] \subseteq marked
      /\ \A o \in marked : o \in Old => Pending(o) \/ o \in marking \/ refs[o] \subseteq uncollectible
  BY DEF IInv, Marking
<1>2. TypeOK /\ (inc => marking = stack)
  BY ZenonT(60) DEF IInv, Control
<1>3. uncollectible' \subseteq marked'
  BY <1>1 DEF Marks
<1>4. uncollectible' \subseteq Old' \cup unprotected'
  BY <1>1, <1>2 DEF Marks, Old, TypeOK
<1>5. \A o \in Old' : o \in marked' => o \in uncollectible'
  BY DEF Marks, Old
<1>6. minor' => \A o \in Old' : o \in live' => o \in marked'
  BY <1>1 DEF Marks, Old
<1>7. \A o \in stack' : Pending(o)'
  BY DEF Pending
<1>8. \A o \in marked' : Pending(o)' \/ refs'[o] \subseteq marked'
  BY <1>1, <1>7 DEF Marks
<1>9. \A o \in marked' : o \in Old' => Pending(o)' \/ o \in marking' \/ refs'[o] \subseteq uncollectible'
  <2> SUFFICES ASSUME NEW o \in marked', o \in Old', ~Pending(o)', o \notin marking'
               PROVE  refs'[o] \subseteq uncollectible'
    OBVIOUS
  <2>1. o \in marked /\ o \in Old
    BY <1>7 DEF Marks, Old
  <2>2. CASE Pending(o)
    BY <2>1, <2>2 DEF Marks
  <2>3. CASE ~Pending(o)
    BY <1>1, <1>2, <2>1, <2>3 DEF Marks, Pending
  <2> QED BY <2>2, <2>3
<1>10. step' \in {"drain", "shady"} => roots' \subseteq marked'
  OBVIOUS
<1> HIDE DEF Pending
<1> QED
  BY <1>3, <1>4, <1>5, <1>6, <1>8, <1>9, <1>10 DEF Marking

-----------------------------------------------------------------------------
(* The steps of the collector. *)

LEMMA ScanChildrenKeeps ==
    ASSUME IInv, NEW o \in Objects, ScanChildren(o)
    PROVE  IInv'
<1>1. /\ step \in {"remember", "shady"} /\ o \in todo /\ mode = "marking" /\ ~inc
      /\ todo' = todo \ {o}
      /\ UNCHANGED <<live, refs, roots, unprotected, ops, mode, minor, inc, step, left>>
  BY ZenonT(60) DEF ScanChildren, mutator, IInv, Control, TypeOK
<1>2. refs[o] \in SUBSET live /\ o \in marked
  BY <1>1 DEF IInv, Bits, NoDangling, Alive, Garbage, FreeSlotsAreClean, before_sweep, TypeOK
<1> DEFINE p == o \in Old
<1>p. p \in BOOLEAN /\ gc_mark(refs[o], p, {})
  BY DEF ScanChildren, gc_mark_children
<1>q. p => o \in Old
  OBVIOUS
<1>r. o \in Old => p
  OBVIOUS
<1> HIDE DEF p
<1>3. Marks(refs[o], p, {})
  BY <1>1, <1>2, <1>p, <1>q, MarkEffect
<1>4. TypeOK'
  BY <1>1, <1>2, <1>3, MarkKeepsTypes, ZenonT(60) DEF IInv, TypeOK
<1>5. Bits'
  BY <1>1, <1>2, <1>3, MarkKeepsBits
<1>6. NoDangling' /\ Between'
  BY <1>1, HeapStays
<1>7. Marking'
  <2>1. \A u \in marked : Pending(u) => Pending(u)' \/ u = o
    BY <1>1, <1>3 DEF Pending, Marks
  <2>2. roots \subseteq marked' \/ step' \notin {"drain", "shady"}
    BY <1>1, <1>3 DEF Marks, IInv, Marking
  <2> QED BY <1>1, <1>2, <1>3, <1>r, <2>1, <2>2, MarkKeepsDone
<1>8. Control'
  BY <1>1, ZenonT(60) DEF IInv, Control
<1> QED BY <1>4, <1>5, <1>6, <1>7, <1>8 DEF IInv

LEMMA StackedKeeps ==
    ASSUME IInv, NEW o \in Objects, gc_mark_stacked_objects(o)
    PROVE  IInv'
<1>1. /\ step = "drain" \/ (step = "run" /\ inc)
      /\ o \in stack /\ mode = "marking"
      /\ UNCHANGED <<live, refs, roots, unprotected, ops, mode, minor, inc, step, todo, left>>
  BY ZenonT(60) DEF gc_mark_stacked_objects, mutator, IInv, Control, TypeOK
<1>2. refs[o] \in SUBSET live /\ o \in marked
  BY <1>1 DEF IInv, Bits, NoDangling, Alive, Garbage, FreeSlotsAreClean, before_sweep, TypeOK
<1> DEFINE p == o \in Old
<1>p. p \in BOOLEAN /\ gc_mark(refs[o], p, {o})
  BY DEF gc_mark_stacked_objects, gc_mark_children
<1>q. p => o \in Old
  OBVIOUS
<1>r. o \in Old => p
  OBVIOUS
<1> HIDE DEF p
<1>3. Marks(refs[o], p, {o})
  BY <1>1, <1>2, <1>p, <1>q, MarkEffect
<1>4. TypeOK'
  BY <1>1, <1>2, <1>3, MarkKeepsTypes, ZenonT(60) DEF IInv, TypeOK
<1>5. Bits'
  BY <1>1, <1>2, <1>3, MarkKeepsBits
<1>6. NoDangling' /\ Between'
  BY <1>1, HeapStays
<1>7. Marking'
  <2>1. \A u \in marked : Pending(u) => Pending(u)' \/ u = o
    BY <1>1, <1>3 DEF Pending, Marks
  <2>2. roots \subseteq marked' \/ step' \notin {"drain", "shady"}
    BY <1>1, <1>3 DEF Marks, IInv, Marking
  <2> QED BY <1>1, <1>2, <1>3, <1>r, <2>1, <2>2, MarkKeepsDone
<1>8. Control'
  BY <1>1, <1>3, ZenonT(60) DEF IInv, Control, Marks
<1> QED BY <1>4, <1>5, <1>6, <1>7, <1>8 DEF IInv

LEMMA RootsKeep ==
    ASSUME IInv, gc_mark_roots
    PROVE  IInv'
<1>1. /\ step = "roots" /\ mode = "marking" /\ todo = {} /\ left = {}
      /\ step' = IF inc THEN "run" ELSE "drain"
      /\ UNCHANGED <<live, refs, roots, unprotected, ops, mode, minor, inc, todo, left>>
  BY ZenonT(60) DEF gc_mark_roots, mutator, IInv, Control, TypeOK
<1>2. roots \in SUBSET live
  BY <1>1 DEF IInv, NoDangling, Alive
<1>3. Marks(roots, FALSE, {})
  BY <1>1, <1>2, MarkEffect, ZenonT(60) DEF gc_mark_roots
<1>4. TypeOK'
  BY <1>1, <1>2, <1>3, MarkKeepsTypes, ZenonT(60) DEF IInv, TypeOK
<1>5. Bits'
  BY <1>1, <1>2, <1>3, MarkKeepsBits, ZenonT(60)
<1>6. NoDangling' /\ Between'
  BY <1>1, HeapStays
<1>7. Marking'
  <2>1. \A u \in marked : Pending(u) => Pending(u)'
    BY <1>1, <1>3 DEF Pending, Marks
  <2>2. roots \subseteq marked'
    BY <1>3 DEF Marks
  <2> QED BY <1>1, <1>2, <1>3, <2>1, <2>2, MarkKeepsDone, ZenonT(60)
<1>8. Control'
  BY <1>1, <1>3, ZenonT(60) DEF IInv, Control, Marks
<1> QED BY <1>4, <1>5, <1>6, <1>7, <1>8 DEF IInv

LEMMA FinishKeeps ==
    ASSUME IInv, gc_marks_finish
    PROVE  IInv'
<1>1. /\ step = "run" /\ inc /\ stack = {} /\ mode = "marking" /\ todo = {} /\ left = {} /\ ~minor
      /\ UNCHANGED <<live, refs, roots, unprotected, ops, mode, minor, left>>
  BY ZenonT(60) DEF gc_marks_finish, mutator, IInv, Control, TypeOK
<1>2. roots \in SUBSET live
  BY <1>1 DEF IInv, NoDangling, Alive
<1>3. Marks(roots, FALSE, {})
  BY <1>1, <1>2, MarkEffect, ZenonT(60) DEF gc_marks_finish
<1>6. NoDangling' /\ Between'
  BY <1>1, HeapStays
<1>7. CASE ~(roots \subseteq marked)
  <2>0. UNCHANGED <<inc, step, todo>>
    BY <1>7 DEF gc_marks_finish
  <2>1. TypeOK'
    BY <1>1, <1>2, <1>3, <2>0, MarkKeepsTypes, ZenonT(60) DEF IInv, TypeOK
  <2>2. Bits'
    BY <1>1, <1>2, <1>3, <2>0, MarkKeepsBits, ZenonT(60)
  <2>3. \A u \in marked : Pending(u) => Pending(u)'
    BY <1>1, <1>3, <2>0 DEF Pending, Marks
  <2>4. Marking'
    BY <1>1, <1>2, <1>3, <2>0, <2>3, MarkKeepsDone, ZenonT(60)
  <2>5. Control'
    BY <1>1, <1>3, <2>0, ZenonT(60) DEF IInv, Control, Marks
  <2> QED BY <1>6, <2>1, <2>2, <2>4, <2>5 DEF IInv
<1>8. CASE roots \subseteq marked
  <2>0. inc' = FALSE /\ step' = "shady" /\ todo' = marked \cap unprotected
    BY <1>8 DEF gc_marks_finish
  <2>1. marked' = marked /\ age' = age
    BY <1>1, <1>8 DEF gc_marks_finish, gc_mark, Promoted, IInv, TypeOK
  <2>2. stack' = {} /\ marking' = {}
    BY <1>1, <1>8, ZenonT(60) DEF gc_marks_finish, gc_mark, Promoted, IInv, Control
  <2>3. uncollectible' = uncollectible
    BY <1>1, <1>8 DEF gc_marks_finish, gc_mark, Promoted
  <2>4. TypeOK'
    BY <1>1, <2>0, <2>1, <2>2, <2>3, ZenonT(60) DEF IInv, TypeOK
  <2>5. Bits'
    BY <1>1, <2>0, <2>1, <2>2, <2>3 DEF IInv, Bits, FreeSlotsAreClean, Old, before_sweep
  <2>6. Control'
    BY <1>1, <2>0, <2>2, ZenonT(60) DEF IInv, Control
  <2>7. \A u \in marked : Pending(u) => Pending(u)'
    BY <1>1, <2>0, ZenonT(60) DEF Pending, IInv, Control
  <2>8. Marking'
    BY <1>1, <1>8, <2>0, <2>1, <2>2, <2>3, <2>7, ZenonT(60) DEF IInv, Marking, Old, Control
  <2> QED BY <1>6, <2>4, <2>5, <2>6, <2>8 DEF IInv
<1> QED BY <1>7, <1>8

LEMMA StartKeeps ==
    ASSUME IInv, NEW full \in BOOLEAN, NEW immediate \in BOOLEAN, gc_start(full, immediate)
    PROVE  IInv'
<1>1. /\ step = "run" /\ mode = "none" /\ mode' = "marking" /\ minor' = ~full
      /\ inc' = (full /\ ~immediate) /\ ~inc /\ stack = {} /\ todo = {} /\ left = {}
      /\ UNCHANGED <<live, refs, roots, unprotected, ops, age, stack, todo>>
  BY ZenonT(60) DEF gc_start, mutator, IInv, Control
<1>2. Alive = live /\ Alive' = live'
  BY <1>1 DEF Alive, Garbage, before_sweep
<1>3. NoDangling' /\ Between'
  BY <1>1, <1>2 DEF IInv, NoDangling, Between
<1>4. CASE full
  <2>1. marked' = {} /\ marking' = {} /\ uncollectible' = {} /\ step' = "roots" /\ left' = {}
    BY <1>4 DEF gc_start, gc_marks_start
  <2>2. TypeOK'
    BY <1>1, <2>1 DEF IInv, TypeOK
  <2>3. Bits'
    BY <1>1, <2>1 DEF IInv, Bits, FreeSlotsAreClean, before_sweep
  <2>4. Control' /\ Marking'
    BY <1>1, <1>4, <2>1, ZenonT(60) DEF IInv, Control, Marking
  <2> QED BY <1>3, <2>2, <2>3, <2>4 DEF IInv
<1>5. CASE ~full
  <2>1. step' = "remember" /\ left' = Pages /\ UNCHANGED <<marked, marking, uncollectible>>
    BY <1>5 DEF gc_start, gc_marks_start
  <2>2. TypeOK'
    BY <1>1, <2>1 DEF IInv, TypeOK
  <2>3. Bits'
    BY <1>1, <1>5, <2>1 DEF IInv, Bits, FreeSlotsAreClean, before_sweep, Old
  <2>4. Control'
    BY <1>1, <1>5, <2>1, ZenonT(60) DEF IInv, Control
  <2>5. \A o \in marked : o \in uncollectible /\ PageOf[o] \in left'
    BY <1>1, <2>1, HeapAssumption DEF IInv, Between, TypeOK
  <2>6. Old' = Old
    BY <1>1 DEF Old
  <2>7. \A o \in marked : o \in unprotected => Pending(o)'
    BY <1>1, <2>1, <2>5 DEF Pending
  <2>8. \A o \in marked : o \in Old /\ o \in marking => Pending(o)'
    BY <1>1, <2>1, <2>5 DEF Pending
  <2>9. \A o \in marked : o \in unprotected \/ (o \in Old /\ o \in Alive)
    BY <1>1, <1>2, <2>5 DEF IInv, Between, Bits, FreeSlotsAreClean, before_sweep, TypeOK
  <2>10. Marking'
    BY <1>1, <1>2, <2>1, <2>6, <2>7, <2>8, <2>9 DEF IInv, Between, Marking
  <2> QED BY <1>3, <2>2, <2>3, <2>4, <2>10 DEF IInv
<1> QED BY <1>4, <1>5

LEMMA RememberKeeps ==
    ASSUME IInv, NEW p \in Pages, RememberPage(p)
    PROVE  IInv'
<1>1. /\ step = "remember" /\ todo = {} /\ p \in left /\ mode = "marking" /\ ~inc
      /\ left' = left \ {p}
      /\ todo' = {o \in marking \cup (uncollectible \cap unprotected) : PageOf[o] = p}
      /\ marking' = {o \in marking : PageOf[o] # p}
      /\ UNCHANGED <<live, refs, roots, unprotected, ops, age, marked, uncollectible, stack,
                     mode, minor, inc, step>>
  BY ZenonT(60) DEF RememberPage, mutator, IInv, Control, TypeOK
<1>2. NoDangling' /\ Between'
  BY <1>1, HeapStays
<1>3. TypeOK'
  BY <1>1 DEF IInv, TypeOK
<1>4. Control'
  BY <1>1, ZenonT(60) DEF IInv, Control
<1>5. Old' = Old
  BY <1>1, ZenonT(60) DEF Old
<1>6. Bits'
  BY <1>1, <1>5 DEF IInv, Bits, FreeSlotsAreClean, before_sweep, Marking
<1>7. \A o \in marked : Pending(o) => Pending(o)'
  BY <1>1 DEF Pending
<1>8. \A o \in marked : o \in marking => Pending(o)' \/ o \in marking'
  BY <1>1 DEF Pending
<1>9. Marking'
  BY <1>1, <1>5, <1>7, <1>8 DEF IInv, Marking
<1> QED BY <1>2, <1>3, <1>4, <1>6, <1>9 DEF IInv

LEMMA ScanEndsKeeps ==
    ASSUME IInv, ScanEnds
    PROVE  IInv'
<1>1. /\ step \in {"remember", "shady"} /\ todo = {} /\ left = {} /\ mode = "marking" /\ ~inc
      /\ step' = IF step = "remember" THEN "roots" ELSE "drain"
      /\ UNCHANGED <<live, refs, roots, unprotected, ops, age, marked, uncollectible, marking,
                     stack, mode, minor, inc, todo, left>>
  BY ZenonT(60) DEF ScanEnds, mutator, IInv, Control, TypeOK
<1>2. NoDangling' /\ Between'
  BY <1>1, HeapStays
<1>3. TypeOK' /\ Control'
  BY <1>1, ZenonT(60) DEF IInv, TypeOK, Control
<1>4. Old' = Old
  BY <1>1 DEF Old
<1>5. Bits'
  BY <1>1, <1>4 DEF IInv, Bits, FreeSlotsAreClean, before_sweep
<1>6. \A o \in marked : Pending(o) => Pending(o)'
  BY <1>1 DEF Pending
<1>7. Marking'
  BY <1>1, <1>4, <1>6 DEF IInv, Marking
<1> QED BY <1>2, <1>3, <1>5, <1>7 DEF IInv

\* When the mark stack is empty, what is marked is what is reachable and more.
LEMMA SweepKeeps ==
    ASSUME IInv, gc_sweep
    PROVE  IInv'
<1>1. /\ step = "drain" /\ stack = {} /\ todo = {} /\ mode = "marking" /\ ~inc
      /\ step' = "run" /\ mode' = "sweeping" /\ left' = Pages
      /\ UNCHANGED <<live, refs, roots, unprotected, ops, age, marked, uncollectible, marking,
                     stack, minor, inc, todo>>
  BY ZenonT(60) DEF gc_sweep, mutator, IInv, Control, TypeOK
<1>2. \A o \in Objects : ~Pending(o)
  BY <1>1 DEF Pending
<1>3. \A o \in Objects : PageOf[o] \in Pages
  BY HeapAssumption
<1>4. marked \subseteq live
  BY <1>1 DEF IInv, Bits, FreeSlotsAreClean, before_sweep, TypeOK
<1>5. Alive' = marked
  <2>1. \A o \in Objects : o \in Garbage' <=> o \in live /\ o \notin marked
    BY <1>1, <1>3 DEF Garbage, before_sweep
  <2> QED BY <1>1, <1>4, <2>1 DEF Alive, IInv, TypeOK
<1>6. NoDangling'
  BY <1>1, <1>2, <1>5 DEF NoDangling, IInv, Marking, TypeOK
<1>7. TypeOK' /\ Control'
  BY <1>1, ZenonT(60) DEF IInv, TypeOK, Control
<1>8. Old' = Old
  BY <1>1 DEF Old
<1>9. Bits'
  BY <1>1, <1>4, <1>8 DEF IInv, Bits, FreeSlotsAreClean
<1>10. Between'
  <2>1. \A o \in marked : PageOf[o] \in left'
    BY <1>1, <1>3 DEF IInv, TypeOK
  <2> QED BY <1>1, <1>2, <1>5, <1>8, <2>1 DEF IInv, Between, Marking, TypeOK
<1>11. Marking'
  BY <1>1 DEF Marking
<1> QED BY <1>6, <1>7, <1>9, <1>10, <1>11 DEF IInv

LEMMA PageSweepKeeps ==
    ASSUME IInv, NEW p \in Pages, gc_page_sweep(p)
    PROVE  IInv'
<1> DEFINE page == {o \in Objects : PageOf[o] = p}
           dead == (page \cap live) \ marked
<1>1. /\ step = "run" /\ mode = "sweeping" /\ p \in left /\ stack = {} /\ todo = {} /\ ~inc
      /\ live' = live \ dead
      /\ refs' = [o \in Objects |-> IF o \in dead THEN {} ELSE refs[o]]
      /\ age' = [o \in Objects |-> IF o \in dead THEN 0 ELSE age[o]]
      /\ unprotected' = unprotected \ dead
      /\ marked' = (marked \ page) \cup (uncollectible \cap page)
      /\ left' = left \ {p}
      /\ mode' = IF left' = {} THEN "none" ELSE mode
      /\ UNCHANGED <<roots, uncollectible, marking, stack, minor, inc, step, todo, ops>>
  BY ZenonT(60) DEF gc_page_sweep, obj_free, IInv, Control
<1>2. /\ \A o \in Objects : o \in page <=> PageOf[o] = p
      /\ \A o \in Objects : o \in dead <=> PageOf[o] = p /\ o \in live /\ o \notin marked
      /\ dead \subseteq Objects /\ page \subseteq Objects
  OBVIOUS
<1> HIDE DEF page, dead
<1>3. mode' \in {"none", "sweeping"} /\ (mode' = "none" => left' = {})
  BY <1>1
<1>4. TypeOK
  BY DEF IInv
<1>5. \A o \in Objects : before_sweep(PageOf[o])' <=> before_sweep(PageOf[o]) /\ PageOf[o] # p
  BY <1>1, <1>3 DEF before_sweep
<1>6. Alive' = Alive
  <2>1. \A o \in Objects : o \in Garbage' <=>
          o \in live' /\ o \notin marked' /\ before_sweep(PageOf[o])'
    BY <1>1, <1>4 DEF Garbage, TypeOK
  <2>2. \A o \in Objects : o \in Garbage <=>
          o \in live /\ o \notin marked /\ before_sweep(PageOf[o])
    BY <1>4, ZenonT(60) DEF Garbage, TypeOK
  <2>3. before_sweep(p)
    BY <1>1, ZenonT(60) DEF before_sweep
  <2>4. \A o \in Objects : o \in Alive' <=> o \in Alive
    BY <1>1, <1>2, <1>5, <2>1, <2>2, <2>3 DEF Alive
  <2> QED BY <1>1, <1>4, <2>4 DEF Alive, TypeOK
<1>7. \A o \in Alive : o \in Objects /\ o \notin dead
  BY <1>1, <1>2, <1>4 DEF Alive, Garbage, before_sweep, TypeOK
<1>8. TypeOK'
  <2>1. refs' \in [Objects -> SUBSET Objects]
    BY <1>1, <1>4 DEF TypeOK
  <2>2. age' \in [Objects -> 0..OldAge]
    BY <1>1, <1>4, HeapAssumption DEF TypeOK
  <2> QED BY <1>1, <1>3, <1>4, <2>1, <2>2 DEF TypeOK
<1>9. NoDangling'
  BY <1>1, <1>6, <1>7 DEF IInv, NoDangling
<1>10. Control'
  BY <1>1, <1>3, ZenonT(60) DEF IInv, Control
<1>11. Marking'
  BY <1>3, ZenonT(60) DEF Marking
<1>12. /\ uncollectible \subseteq marked /\ marking \subseteq marked /\ marking \subseteq Old
       /\ uncollectible \subseteq Old \cup unprotected
       /\ \A o \in Old : o \in Alive => o \in uncollectible
       /\ \A o \in marked : PageOf[o] \notin left => o \in uncollectible
  BY <1>1 DEF IInv, Between, Bits
<1>13. \A o \in Objects : o \in Old' <=> o \in Old /\ o \notin dead
  BY <1>1, <1>4, HeapAssumption DEF Old, TypeOK
<1>14. marking \subseteq live
  BY <1>4 DEF IInv, Bits, FreeSlotsAreClean, TypeOK
<1>15. marking \subseteq uncollectible
  BY <1>12, <1>14, <1>4 DEF Alive, Garbage, TypeOK
<1>16. Bits'
  <2>1. FreeSlotsAreClean'
    <3> SUFFICES ASSUME NEW o \in Objects, o \notin live'
                 PROVE  /\ age'[o] = 0
                        /\ o \notin uncollectible' \cup unprotected' \cup marking' \cup stack'
                        /\ o \in marked' => before_sweep(PageOf[o])'
      BY DEF FreeSlotsAreClean
    <3>1. CASE o \in dead
      BY <1>1, <1>2, <1>12, <1>15, <3>1, ZenonT(60)
    <3>2. CASE o \notin live
      BY <1>1, <1>2, <1>5, <1>12, <3>2 DEF IInv, Bits, FreeSlotsAreClean
    <3> QED BY <1>1, <3>1, <3>2
  <2>2. \A o \in unprotected' : age'[o] = 0
    BY <1>1, <1>4 DEF IInv, Bits, TypeOK
  <2>3. marking' \subseteq marked'
    BY <1>1, <1>2, <1>12, <1>15
  <2>4. marking' \subseteq Old'
    BY <1>1, <1>2, <1>4, <1>12, <1>13 DEF TypeOK
  <2> QED BY <1>1, <2>1, <2>2, <2>3, <2>4, ZenonT(60) DEF Bits
<1>17. Between'
  <2>1. uncollectible' \subseteq marked'
    BY <1>1, <1>2, <1>12
  <2>2. uncollectible' \subseteq Old' \cup unprotected'
    BY <1>1, <1>2, <1>4, <1>12, <1>13, ZenonT(60) DEF TypeOK
  <2>3. \A o \in Old' : o \in Alive' => o \in uncollectible'
    BY <1>1, <1>6, <1>7, <1>12, <1>13, ZenonT(60)
  <2>4. \A o \in Old' : o \in Alive' => o \in marking' \/ refs'[o] \subseteq uncollectible'
    BY <1>1, <1>6, <1>7, <1>13 DEF IInv, Between
  <2>5. \A o \in marked' : PageOf[o] \notin left' => o \in uncollectible'
    BY <1>1, <1>2, <1>4, <1>12 DEF TypeOK
  <2> QED BY <2>1, <2>2, <2>3, <2>4, <2>5, ZenonT(60) DEF Between
<1> QED BY <1>8, <1>9, <1>10, <1>11, <1>16, <1>17 DEF IInv

-----------------------------------------------------------------------------
(* The steps of the mutator. *)

\* A store while a marking is under way: the barrier has marked C, and the
\* object that is written is white, pending, or has all its new children in C.
LEMMA StoreKeeps ==
    ASSUME IInv, step = "run", inc, NEW C \in SUBSET live, NEW p \in BOOLEAN, Marks(C, p, {}),
           NEW a \in roots, NEW F, F \subseteq roots \cup refs[a], refs' = [refs EXCEPT ![a] = F],
           \/ F \subseteq refs[a] \/ a \notin marked \/ Pending(a)'
           \/ F \subseteq refs[a] \cup C /\ (a \in Old => p),
           UNCHANGED <<live, roots, unprotected, collector, ops>>
    PROVE  IInv'
<1>1. /\ mode = "marking" /\ todo = {} /\ left = {} /\ ~minor
      /\ UNCHANGED <<mode, minor, inc, step, todo, left>>
      /\ TypeOK /\ NoDangling
  BY ZenonT(60) DEF IInv, Control, collector
<1>2. Alive = live /\ Alive' = live'
  BY <1>1 DEF Alive, Garbage, before_sweep
<1>3. /\ refs' \in [Objects -> SUBSET Objects]
      /\ \A o \in Objects : o # a => refs'[o] = refs[o]
      /\ refs'[a] = F /\ a \in Objects /\ a \in live
      /\ F \subseteq live
  BY <1>1, <1>2 DEF TypeOK, NoDangling
<1>4. TypeOK'
  BY <1>1, <1>3, MarkKeepsTypes, ZenonT(60) DEF TypeOK
<1>5. Bits'
  BY <1>1, MarkKeepsBits, ZenonT(60)
<1>6. NoDangling' /\ Between'
  BY <1>1, <1>2, <1>3, ZenonT(60) DEF NoDangling, Between, TypeOK
<1>7. \A u \in marked : Pending(u) => Pending(u)'
  BY <1>1 DEF Pending, Marks
<1>8. Marking'
  BY <1>1, <1>3, <1>7, MarkKeepsDone DEF TypeOK
<1>9. Control'
  BY <1>1, ZenonT(60) DEF IInv, Control, Marks
<1> QED BY <1>4, <1>5, <1>6, <1>8, <1>9 DEF IInv

\* A store at any other time: an old object is remembered, or gets nothing
\* but old objects.
LEMMA StoreOutsideKeeps ==
    ASSUME IInv, step = "run", ~inc,
           NEW a \in roots, NEW F, F \subseteq roots \cup refs[a], refs' = [refs EXCEPT ![a] = F],
           a \in Old => a \in marking' \/ F \subseteq refs[a] \cup Old,
           \/ marking' = marking
           \/ a \in Old /\ marking' = marking \cup {a},
           UNCHANGED <<live, roots, unprotected, age, marked, uncollectible, stack, collector, ops>>
    PROVE  IInv'
<1>1. /\ mode # "marking" /\ todo = {} /\ stack = {}
      /\ UNCHANGED <<mode, minor, inc, step, todo, left>>
      /\ TypeOK /\ NoDangling /\ Bits /\ Between
  BY ZenonT(60) DEF IInv, Control, collector
<1>2. Alive' = Alive /\ Old' = Old
  BY <1>1 DEF Alive, Garbage, before_sweep, Old
<1>3. /\ refs' \in [Objects -> SUBSET Objects]
      /\ \A o \in Objects : o # a => refs'[o] = refs[o]
      /\ refs'[a] = F /\ a \in Objects /\ a \in Alive /\ a \in live
      /\ F \subseteq Alive
  BY <1>1 DEF TypeOK, NoDangling, Alive
<1>4. TypeOK'
  BY <1>1, <1>3, ZenonT(60) DEF TypeOK
<1>5. NoDangling'
  BY <1>1, <1>2, <1>3 DEF NoDangling, Alive, TypeOK
<1>6. a \in Old => a \in uncollectible /\ a \in marked
  BY <1>1, <1>3, ZenonT(60) DEF Between
<1>7. Bits'
  BY <1>1, <1>2, <1>3, <1>6, ZenonT(60) DEF Bits, FreeSlotsAreClean, before_sweep
<1>8. \A o \in Old : o \in Alive => o \in marking' \/ refs'[o] \subseteq uncollectible
  BY <1>1, <1>3 DEF Between, Old
<1>9. Between'
  BY <1>1, <1>2, <1>8 DEF Between
<1>10. Control' /\ Marking'
  BY <1>1, ZenonT(60) DEF IInv, Control, Marking
<1> QED BY <1>4, <1>5, <1>7, <1>9, <1>10 DEF IInv

\* what a step that leaves all bits alone marks
LEMMA MarksNothing ==
    ASSUME IInv, mode = "marking", sameBits
    PROVE  Marks({}, FALSE, {})
BY HeapAssumption, ZenonT(60) DEF IInv, TypeOK, Control, Bits, Marking, Marks, Old, sameBits

\* what the incremental barrier marks
LEMMA BarrierMarks ==
    ASSUME IInv, step = "run", inc, NEW a \in roots, NEW b \in roots,
           gc_writebarrier_incremental(a, b)
    PROVE  \E C \in SUBSET live, p \in BOOLEAN :
             /\ Marks(C, p, {})
             /\ \/ a \notin marked \/ a \in stack' \/ a \in unprotected
                \/ b \in C /\ (a \in Old => p)
<1>1. /\ mode = "marking" /\ TypeOK /\ Bits /\ Marking /\ marking = stack
      /\ a \in live /\ b \in live /\ a \in Objects /\ b \in Objects
      /\ OldAge \in Nat \ {0}
  BY HeapAssumption, ZenonT(60) DEF IInv, Control, NoDangling, Alive, TypeOK
<1>2. CASE a \notin Black
  <2>1. Marks({}, FALSE, {})
    BY <1>1, <1>2, MarksNothing, ZenonT(60) DEF gc_writebarrier_incremental
  <2>2. a \notin marked \/ a \in stack'
    BY <1>1, <1>2 DEF gc_writebarrier_incremental, sameBits, Black
  <2> QED BY <2>1, <2>2, ZenonT(60)
<1>3. CASE a \in Black /\ b \in White /\ a \in unprotected
  <2>1. Marks({}, FALSE, {})
    BY <1>1, <1>3, MarksNothing, ZenonT(60) DEF gc_writebarrier_incremental
  <2> QED BY <1>3, <2>1, ZenonT(60)
<1>4. CASE a \in Black /\ b \in White /\ a \notin unprotected
  <2> DEFINE p == a \in Old
  <2>p. p \in BOOLEAN /\ gc_mark({b}, p, {})
    BY <1>4 DEF gc_writebarrier_incremental
  <2>r. a \in Old => p
    OBVIOUS
  <2> HIDE DEF p
  <2>1. Marks({b}, p, {})
    BY <1>1, <2>p, MarkEffect
  <2> QED BY <1>1, <2>p, <2>r, <2>1
<1>5. CASE a \in Black /\ b \notin White /\ a \notin Old
  <2>1. sameBits /\ b \in marked
    BY <1>1, <1>5, ZenonT(60) DEF gc_writebarrier_incremental, White
  <2>2. Marks({b}, FALSE, {})
    BY <1>1, <2>1 DEF TypeOK, Bits, Marking, Marks, Old, sameBits
  <2> QED BY <1>1, <1>5, <2>2, ZenonT(60)
<1>6. CASE a \in Black /\ b \notin White /\ a \in Old /\ b \in Old
  <2>1. sameBits /\ b \in marked
    BY <1>1, <1>6, ZenonT(60) DEF gc_writebarrier_incremental, White
  <2>2. Marks({b}, TRUE, {})
    BY <1>1, <1>6, <2>1, ZenonT(60) DEF TypeOK, Bits, Marking, Marks, Old, sameBits
  <2> QED BY <1>1, <2>2, ZenonT(60)
<1>7. CASE a \in Black /\ b \notin White /\ a \in Old /\ b \notin Old /\ b \in unprotected
  <2>1. /\ uncollectible' = uncollectible \cup {b} /\ b \in marked
        /\ UNCHANGED <<age, marked, marking, stack>>
    BY <1>1, <1>7, ZenonT(60) DEF gc_writebarrier_incremental, White
  <2>2. Marks({b}, TRUE, {})
    BY <1>1, <1>7, <2>1 DEF TypeOK, Bits, Marking, Marks, Old
  <2> QED BY <1>1, <2>2, ZenonT(60)
<1>8. CASE a \in Black /\ b \notin White /\ a \in Old /\ b \notin Old /\ b \notin unprotected
  <2>1. /\ age' = [age EXCEPT ![b] = OldAge] /\ b \in marked
        /\ uncollectible' = uncollectible \cup {b}
        /\ stack' = IF b \in Black THEN stack \cup {b} ELSE stack
        /\ marking' = IF b \in Black THEN marking \cup {b} ELSE marking
        /\ marked' = marked
    BY <1>1, <1>8 DEF gc_writebarrier_incremental, White
  <2>2. stack' = stack \cup {b} /\ marking' = stack'
    BY <1>1, <2>1 DEF Black
  <2>3. /\ age' \in [Objects -> 0..OldAge] /\ age'[b] = OldAge
        /\ \A o \in Objects : o # b => age'[o] = age[o]
    BY <1>1, <2>1 DEF TypeOK
  <2>4. Marks({b}, TRUE, {})
    BY <1>1, <1>8, <2>1, <2>2, <2>3 DEF TypeOK, Bits, Marking, Marks, Old
  <2> QED BY <1>1, <2>4, ZenonT(60)
<1> QED BY <1>2, <1>3, <1>4, <1>5, <1>6, <1>7, <1>8

LEMMA WriteKeeps ==
    ASSUME IInv, NEW a \in Objects, NEW b \in Objects, Write(a, b)
    PROVE  IInv'
<1>1. /\ step = "run" /\ a \in roots /\ b \in roots
      /\ refs' = [refs EXCEPT ![a] = refs[a] \cup {b}]
      /\ rb_gc_writebarrier(a, b)
      /\ UNCHANGED <<live, roots, unprotected, collector, ops>>
  BY DEF Write, Mutates
<1>2. CASE inc
  <2>1. PICK C \in SUBSET live, p \in BOOLEAN :
             /\ Marks(C, p, {})
             /\ \/ a \notin marked \/ a \in stack' \/ a \in unprotected
                \/ b \in C /\ (a \in Old => p)
    BY <1>1, <1>2, BarrierMarks DEF rb_gc_writebarrier
  <2>2. a \in stack' \/ a \in unprotected => Pending(a)'
    BY <1>1, <1>2 DEF Pending, collector
  <2>3. refs[a] \cup {b} \subseteq roots \cup refs[a]
    BY <1>1
  <2>4. \/ a \notin marked \/ Pending(a)'
        \/ refs[a] \cup {b} \subseteq refs[a] \cup C /\ (a \in Old => p)
    BY <2>1, <2>2
  <2>5. CASE p = TRUE
    <3>1. Marks(C, TRUE, {})
      BY <2>1, <2>5, ZenonT(60)
    <3> QED BY <1>1, <1>2, <2>3, <2>4, <3>1, StoreKeeps, ZenonT(60)
  <2>6. CASE p = FALSE
    <3>1. Marks(C, FALSE, {})
      BY <2>1, <2>6, ZenonT(60)
    <3>2. \/ a \notin marked \/ Pending(a)'
          \/ refs[a] \cup {b} \subseteq refs[a] \cup C /\ a \notin Old
      BY <2>4, <2>6
    <3> QED BY <1>1, <1>2, <2>3, <3>1, <3>2, StoreKeeps, ZenonT(60)
  <2> QED BY <2>5, <2>6, ZenonT(60)
<1>3. CASE ~inc
  BY <1>1, <1>3, StoreOutsideKeeps, ZenonT(60)
  DEF rb_gc_writebarrier, gc_writebarrier_generational, sameBits
<1> QED BY <1>2, <1>3

LEMMA WriteUnprotectedKeeps ==
    ASSUME IInv, NEW a \in Objects, NEW b \in Objects, WriteUnprotected(a, b)
    PROVE  IInv'
<1>1. /\ step = "run" /\ a \in roots /\ b \in roots /\ a \in unprotected
      /\ refs' = [refs EXCEPT ![a] = refs[a] \cup {b}]
      /\ UNCHANGED <<live, roots, bits, gcvars, ops>>
  BY DEF WriteUnprotected, Mutates
<1>2. sameBits /\ UNCHANGED <<unprotected, collector>>
  BY <1>1 DEF bits, gcvars, sameBits, collector
<1>3. CASE inc
  <2>1. Marks({}, FALSE, {})
    BY <1>1, <1>2, <1>3, MarksNothing, ZenonT(60) DEF IInv, Control
  <2>2. Pending(a)'
    BY <1>1, <1>2, <1>3 DEF Pending, collector
  <2> QED BY <1>1, <1>2, <1>3, <2>1, <2>2, StoreKeeps, ZenonT(60)
<1>4. CASE ~inc
  <2>1. a \notin Old
    BY <1>1, HeapAssumption DEF IInv, Bits, Old
  <2> QED BY <1>1, <1>2, <1>4, <2>1, StoreOutsideKeeps, ZenonT(60) DEF sameBits
<1> QED BY <1>3, <1>4

LEMMA ClearKeeps ==
    ASSUME IInv, NEW a \in Objects, NEW b \in Objects, Clear(a, b)
    PROVE  IInv'
<1>1. /\ step = "run" /\ a \in roots
      /\ refs' = [refs EXCEPT ![a] = refs[a] \ {b}]
      /\ UNCHANGED <<live, roots, bits, gcvars, ops>>
  BY DEF Clear, Mutates
<1>2. sameBits /\ UNCHANGED <<unprotected, collector>>
  BY <1>1 DEF bits, gcvars, sameBits, collector
<1>3. refs[a] \ {b} \subseteq refs[a]
  OBVIOUS
<1>4. CASE inc
  <2>1. Marks({}, FALSE, {})
    BY <1>1, <1>2, <1>4, MarksNothing, ZenonT(60) DEF IInv, Control
  <2> QED BY <1>1, <1>2, <1>3, <1>4, <2>1, StoreKeeps, ZenonT(60)
<1>5. CASE ~inc
  BY <1>1, <1>2, <1>3, <1>5, StoreOutsideKeeps, ZenonT(60) DEF sameBits
<1> QED BY <1>4, <1>5

LEMMA WriteManyKeeps ==
    ASSUME IInv, NEW a \in Objects, NEW F \in Fields, WriteMany(a, F)
    PROVE  IInv'
<1>1. /\ step = "run" /\ a \in roots /\ F \subseteq roots
      /\ refs' = [refs EXCEPT ![a] = F]
      /\ rb_gc_writebarrier_remember(a)
      /\ UNCHANGED <<live, roots, unprotected, collector, ops>>
  BY DEF WriteMany, Mutates, Fields
<1>2. CASE inc
  <2>1. /\ TypeOK /\ Bits /\ Marking /\ marking = stack /\ mode = "marking"
        /\ a \in live /\ OldAge \in Nat \ {0}
    BY <1>1, <1>2, HeapAssumption, ZenonT(60) DEF IInv, Control, NoDangling, Alive
  <2>2. CASE a \in Black
    <3>1. /\ stack' = stack \cup {a} /\ marking' = stack' /\ a \in marked
          /\ UNCHANGED <<age, marked, uncollectible>>
      BY <1>1, <1>2, <2>1, <2>2, ZenonT(60) DEF rb_gc_writebarrier_remember, Black
    <3>2. Marks({a}, FALSE, {})
      BY <1>2, <2>1, <3>1 DEF TypeOK, Bits, Marking, Marks, Old
    <3>3. Pending(a)'
      BY <3>1 DEF Pending
    <3> QED BY <1>1, <1>2, <2>1, <3>2, <3>3, StoreKeeps, ZenonT(60)
  <2>3. CASE a \notin Black
    <3>1. sameBits
      BY <1>1, <1>2, <2>3 DEF rb_gc_writebarrier_remember, sameBits
    <3>2. Marks({}, FALSE, {})
      BY <2>1, <3>1, MarksNothing, ZenonT(60)
    <3>3. a \notin marked \/ Pending(a)'
      BY <2>1, <2>3, <3>1 DEF Pending, Black, sameBits
    <3> QED BY <1>1, <1>2, <2>1, <3>2, <3>3, StoreKeeps, ZenonT(60)
  <2> QED BY <2>2, <2>3
<1>3. CASE ~inc
  BY <1>1, <1>3, StoreOutsideKeeps, ZenonT(60) DEF rb_gc_writebarrier_remember
<1> QED BY <1>2, <1>3

LEMMA NewKeeps ==
    ASSUME IInv, NEW o \in Objects, NEW wb \in BOOLEAN, NEW F \in Fields, newobj_init(o, wb, F)
    PROVE  IInv'
<1>1. /\ step = "run" /\ o \notin live /\ ~before_sweep(PageOf[o]) /\ F \subseteq roots
      /\ live' = live \cup {o} /\ roots' = roots \cup {o}
      /\ refs' = [refs EXCEPT ![o] = F]
      /\ unprotected' \subseteq unprotected \cup {o} /\ unprotected \subseteq unprotected'
      /\ UNCHANGED <<age, marked, uncollectible, marking, stack, ops>>
      /\ UNCHANGED <<mode, minor, inc, step, todo, left>>
  BY DEF newobj_init, Mutates, Fields, collector
<1>2. TypeOK /\ Control /\ Bits /\ NoDangling /\ Between /\ Marking
  BY ZenonT(60) DEF IInv
<1>3. /\ age[o] = 0 /\ o \notin uncollectible /\ o \notin unprotected /\ o \notin marking
      /\ o \notin stack /\ o \notin marked
  BY <1>1, <1>2 DEF Bits, FreeSlotsAreClean
<1>4. /\ refs' \in [Objects -> SUBSET Objects] /\ refs'[o] = F
      /\ \A u \in Objects : u # o => refs'[u] = refs[u]
  BY <1>1, <1>2 DEF TypeOK
<1>5. Old' = Old /\ o \notin Old
  BY <1>1, <1>3, HeapAssumption, ZenonT(60) DEF Old
<1>6. Alive' = Alive \cup {o} /\ Alive \subseteq Objects
  BY <1>1, <1>2 DEF Alive, Garbage, before_sweep, TypeOK
<1>7. TypeOK' /\ Control'
  BY <1>1, <1>2, <1>4, ZenonT(60) DEF TypeOK, Control
<1>8. NoDangling'
  BY <1>1, <1>2, <1>4, <1>6, ZenonT(60) DEF NoDangling
<1>9. Bits'
  BY <1>1, <1>2, <1>3, <1>5 DEF Bits, FreeSlotsAreClean, before_sweep
<1>10. \A u \in Old : u \in Objects /\ u # o
  BY <1>5, ZenonT(60) DEF Old
<1>11. Between'
  BY <1>1, <1>2, <1>4, <1>5, <1>6, <1>10, ZenonT(60) DEF Between
<1>12. \A u \in marked : u \in Objects /\ u # o /\ (Pending(u) => Pending(u)')
  BY <1>1, <1>2, <1>3 DEF Pending, TypeOK
<1>13. Marking'
  BY <1>1, <1>2, <1>4, <1>5, <1>10, <1>12, ZenonT(60) DEF Marking, Control
<1> QED BY <1>7, <1>8, <1>9, <1>11, <1>13 DEF IInv

\* The stack of the mutator takes or gives up a reference.
LEMMA StackKeeps ==
    ASSUME IInv, NEW o \in Objects, Load(o) \/ Drop(o)
    PROVE  IInv'
<1>1. /\ step = "run" /\ roots' \subseteq Alive
      /\ UNCHANGED <<live, refs, age, marked, uncollectible, unprotected, marking, stack, ops>>
      /\ UNCHANGED <<mode, minor, inc, step, todo, left>>
  BY ZenonT(60) DEF Load, Drop, Mutates, bits, gcvars, IInv, NoDangling
<1>2. TypeOK /\ Control /\ Bits /\ NoDangling /\ Between /\ Marking
  BY ZenonT(60) DEF IInv
<1>3. Old' = Old /\ Alive' = Alive /\ Alive \subseteq Objects
  BY <1>1, <1>2 DEF Old, Alive, Garbage, before_sweep, TypeOK
<1>4. TypeOK' /\ Control'
  BY <1>1, <1>2, <1>3, ZenonT(60) DEF TypeOK, Control
<1>5. NoDangling' /\ Between'
  BY <1>1, <1>2, <1>3, ZenonT(60) DEF NoDangling, Between
<1>6. Bits'
  BY <1>1, <1>2, <1>3 DEF Bits, FreeSlotsAreClean, before_sweep
<1>7. \A u \in marked : Pending(u) => Pending(u)'
  BY <1>1, ZenonT(60) DEF Pending
<1>8. Marking'
  BY <1>1, <1>2, <1>3, <1>7, ZenonT(60) DEF Marking
<1> QED BY <1>4, <1>5, <1>6, <1>8 DEF IInv

\* An object loses its protection.  If it was old, it is uncollectible from
\* now on for being unprotected.
LEMMA UnprotectKeeps ==
    ASSUME IInv, step = "run", NEW o \in roots,
           unprotected' = unprotected \cup {o},
           age' = [age EXCEPT ![o] = 0],
           o \notin Old => UNCHANGED <<marked, uncollectible, marking>>,
           o \in Old => /\ marked' = marked \cup {o}
                        /\ uncollectible' = uncollectible \cup {o}
                        /\ marking' = IF inc THEN marking ELSE marking \ {o},
           UNCHANGED <<live, refs, roots, gcvars, ops>>
    PROVE  IInv'
<1>1. /\ UNCHANGED <<live, refs, roots, stack, ops>>
      /\ UNCHANGED <<mode, minor, inc, step, todo, left>>
  BY DEF gcvars
<1>2. TypeOK /\ Control /\ Bits /\ NoDangling /\ Between /\ Marking
  BY ZenonT(60) DEF IInv
<1>3. o \in Objects /\ o \in Alive /\ o \in live
  BY <1>2, ZenonT(60) DEF TypeOK, NoDangling, Alive
<1>4. /\ age' \in [Objects -> 0..OldAge] /\ age'[o] = 0
      /\ \A u \in Objects : u # o => age'[u] = age[u]
  BY <1>2, <1>3, HeapAssumption DEF TypeOK
<1>5. \A u : u \in Old' <=> u \in Old /\ u # o
  BY <1>3, <1>4, HeapAssumption DEF Old
<1>6. /\ marked \subseteq marked' /\ uncollectible \subseteq uncollectible'
      /\ marked' \subseteq marked \cup {o} /\ uncollectible' \subseteq uncollectible \cup {o}
      /\ marking' \subseteq marking /\ (inc => marking' = marking)
      /\ \A u \in marking : u = o \/ u \in marking'
  OBVIOUS
<1>7. mode # "marking" => marked' = marked
  BY <1>2, <1>3, ZenonT(60) DEF Between
<1>8. Alive' = Alive
  BY <1>1, <1>7 DEF Alive, Garbage, before_sweep
<1>9. TypeOK' /\ Control'
  BY <1>1, <1>2, <1>3, <1>4, <1>6, ZenonT(60) DEF TypeOK, Control
<1>10. NoDangling'
  BY <1>1, <1>2, <1>8 DEF NoDangling
<1>11. marking' \subseteq marked' /\ (inc' \/ marking' \subseteq Old')
  BY <1>1, <1>2, <1>5, <1>6, ZenonT(60) DEF Bits
<1>12. FreeSlotsAreClean'
  BY <1>1, <1>2, <1>3, <1>4, <1>6, ZenonT(60) DEF Bits, FreeSlotsAreClean, before_sweep
<1>13. Bits'
  BY <1>1, <1>2, <1>4, <1>6, <1>11, <1>12, ZenonT(60) DEF Bits, TypeOK
<1>15. Between'
  BY <1>1, <1>2, <1>3, <1>5, <1>6, <1>7, <1>8 DEF Between
<1>16. inc \/ mode # "marking"
  BY <1>2, ZenonT(60) DEF Control
<1>17. /\ \A u \in marked : Pending(u) => Pending(u)'
       /\ inc => Pending(o)'
  BY <1>1, <1>2, <1>6, ZenonT(60) DEF Pending, Control
<1>18. Marking'
  BY <1>1, <1>2, <1>5, <1>6, <1>16, <1>17, ZenonT(60) DEF Marking, Control
<1> QED BY <1>9, <1>10, <1>13, <1>15, <1>18, ZenonT(60) DEF IInv

LEMMA RecycleKeeps ==
    ASSUME IInv, NEW o \in Objects, rb_gc_force_recycle(o)
    PROVE  IInv'
<1>1. /\ step = "run" /\ o \in roots
      /\ \A a \in Alive \ {o} : o \notin refs[a]
      /\ live' = live \ {o} /\ roots' = roots \ {o}
      /\ refs' = [refs EXCEPT ![o] = {}] /\ age' = [age EXCEPT ![o] = 0]
      /\ uncollectible' = uncollectible \ {o} /\ unprotected' = unprotected \ {o}
      /\ marking' = marking \ {o}
      /\ stack' = IF inc THEN stack \ {o} ELSE stack
      /\ marked' = IF MarkGoes(o) THEN marked \ {o} ELSE marked
      /\ UNCHANGED <<mode, minor, inc, step, todo, left, ops>>
  BY DEF rb_gc_force_recycle, Mutates, collector
<1>2. TypeOK /\ Control /\ Bits /\ NoDangling /\ Between /\ Marking
  BY ZenonT(60) DEF IInv
<1>3. /\ age' \in [Objects -> 0..OldAge] /\ age'[o] = 0
      /\ \A u \in Objects : u # o => age'[u] = age[u]
      /\ refs' \in [Objects -> SUBSET Objects] /\ refs'[o] = {}
      /\ \A u \in Objects : u # o => refs'[u] = refs[u]
  BY <1>1, <1>2, HeapAssumption DEF TypeOK
<1>4. \A u : u \in Old' <=> u \in Old /\ u # o
  BY <1>3, HeapAssumption DEF Old
<1>5. stack' = stack \ {o}
  BY <1>1, <1>2, ZenonT(60) DEF Control
<1>6. /\ \A u : u # o => (u \in marked' <=> u \in marked)
      /\ o \in marked' => before_sweep(PageOf[o]) /\ ~inc /\ o \notin Old
  BY <1>1, ZenonT(60) DEF MarkGoes
<1>7. Alive' = Alive \ {o} /\ Alive \subseteq Objects /\ o \in Alive
  BY <1>1, <1>2, <1>6 DEF Alive, Garbage, before_sweep, TypeOK, NoDangling
<1>8. TypeOK' /\ Control'
  BY <1>1, <1>2, <1>3, <1>5, <1>6, ZenonT(60) DEF TypeOK, Control
<1>9. NoDangling'
  BY <1>1, <1>2, <1>3, <1>7 DEF NoDangling
<1>10. FreeSlotsAreClean'
  BY <1>1, <1>2, <1>3, <1>5, <1>6 DEF Bits, FreeSlotsAreClean, before_sweep
<1>11. inc \/ mode # "marking"
  BY <1>1, <1>2, ZenonT(60) DEF Control
<1>12. todo' \subseteq marked'
  BY <1>1, <1>2, <1>11, ZenonT(60) DEF Control
<1>13. Bits'
  BY <1>1, <1>2, <1>3, <1>4, <1>5, <1>6, <1>10, <1>12, ZenonT(60) DEF Bits, TypeOK
<1>14. Between'
  <2>1. \A u \in Old' : u \in Objects /\ u # o /\ u \in Old
    BY <1>4, ZenonT(60) DEF Old
  <2>2. \A u \in Old' : u \in Alive' => refs'[u] = refs[u] /\ o \notin refs[u]
    BY <1>1, <1>3, <1>7, <2>1, ZenonT(60)
  <2> QED BY <1>1, <1>2, <1>4, <1>6, <1>7, <2>1, <2>2, ZenonT(60) DEF Between, before_sweep
<1>15. Marking'
  <2> SUFFICES ASSUME mode = "marking"
               PROVE  Marking'
    BY <1>1 DEF Marking
  <2>1. inc /\ ~minor /\ Alive = live
    BY <1>2, <1>11, ZenonT(60) DEF Control, Alive, Garbage, before_sweep
  <2>2. \A u \in marked' : u \in marked /\ u # o /\ u \in Alive /\ u \in Objects
    BY <1>2, <1>6, <2>1 DEF Bits, FreeSlotsAreClean, before_sweep, TypeOK
  <2>3. \A u \in marked' : refs'[u] = refs[u] /\ o \notin refs[u] /\ (Pending(u) => Pending(u)')
    BY <1>1, <1>2, <1>3, <1>5, <2>1, <2>2, ZenonT(60) DEF Pending, Control
  <2> QED BY <1>1, <1>2, <1>4, <1>6, <2>1, <2>2, <2>3, ZenonT(60) DEF Marking
<1> QED BY <1>8, <1>9, <1>13, <1>14, <1>15, ZenonT(60) DEF IInv

-----------------------------------------------------------------------------
(* The invariant. *)

LEMMA CollectKeeps ==
    ASSUME IInv, Collect
    PROVE  IInv'
<1>1. CASE \E full, immediate \in BOOLEAN : gc_start(full, immediate)
  BY <1>1, StartKeeps
<1>2. CASE \E p \in Pages : RememberPage(p) \/ gc_page_sweep(p)
  BY <1>2, RememberKeeps, PageSweepKeeps
<1>3. CASE \E o \in Objects : ScanChildren(o) \/ gc_mark_stacked_objects(o)
  BY <1>3, ScanChildrenKeeps, StackedKeeps
<1>4. CASE ScanEnds \/ gc_mark_roots \/ gc_marks_finish \/ gc_sweep
  BY <1>4, ScanEndsKeeps, RootsKeep, FinishKeeps, SweepKeeps
<1> QED BY <1>1, <1>2, <1>3, <1>4 DEF Collect

LEMMA MutateKeeps ==
    ASSUME IInv, Mutate
    PROVE  IInv'
<1>1. CASE \E o \in Objects, wb \in BOOLEAN, f \in Fields : newobj_init(o, wb, f)
  BY <1>1, NewKeeps
<1>2. CASE \E o \in Objects : Load(o) \/ Drop(o)
  BY <1>2, StackKeeps, ZenonT(60)
<1>3. ASSUME NEW o \in Objects, rb_gc_writebarrier_unprotect(o)
      PROVE  IInv'
  BY <1>3, UnprotectKeeps DEF rb_gc_writebarrier_unprotect, Mutates, Demoted
<1>4. ASSUME NEW o \in Objects, rb_copy_wb_protected_attribute(o)
      PROVE  IInv'
  <2>1. "clone old" \notin ops
    BY ZenonT(60) DEF IInv, Control
  <2> QED BY <1>4, <2>1, UnprotectKeeps, ZenonT(60) DEF rb_copy_wb_protected_attribute, Mutates
<1>5. CASE \E o \in Objects : rb_gc_force_recycle(o)
  BY <1>5, RecycleKeeps
<1>6. CASE \E a, b \in Objects : Write(a, b) \/ WriteUnprotected(a, b) \/ Clear(a, b)
  BY <1>6, WriteKeeps, WriteUnprotectedKeeps, ClearKeeps
<1>7. CASE \E a \in Objects, f \in Fields : WriteMany(a, f)
  BY <1>7, WriteManyKeeps
<1> QED BY <1>1, <1>2, <1>3, <1>4, <1>5, <1>6, <1>7 DEF Mutate

LEMMA StutterKeeps ==
    ASSUME IInv, UNCHANGED vars
    PROVE  IInv'
<1>1. /\ UNCHANGED <<live, refs, roots, age, marked, uncollectible, unprotected, marking>>
      /\ UNCHANGED <<stack, mode, minor, inc, step, todo, left, ops>>
  BY DEF vars, bits, gcvars
<1>2. TypeOK' /\ Control'
  BY <1>1, ZenonT(60) DEF IInv, TypeOK, Control
<1>3. Old' = Old /\ Alive' = Alive
  BY <1>1, ZenonT(60) DEF Old, Alive, Garbage, before_sweep
<1>4. Bits' /\ NoDangling' /\ Between'
  BY <1>1, <1>3, ZenonT(60) DEF IInv, Bits, FreeSlotsAreClean, before_sweep, NoDangling, Between
<1>5. \A u : Pending(u)' <=> Pending(u)
  BY <1>1, ZenonT(60) DEF Pending
<1>6. Marking'
  BY <1>1, <1>3, <1>5 DEF IInv, Marking
<1> QED BY <1>2, <1>4, <1>6, ZenonT(60) DEF IInv

\* The program never clones or dups an unprotected object into one that is
\* old: init_copy is given an object that was allocated for it.
FreshClones == \A P \in Programs : "clone old" \notin P

LEMMA InitHolds ==
    ASSUME FreshClones, Init
    PROVE  IInv
<1>1. Old = {}
  BY HeapAssumption DEF Init, Old
<1>2. TypeOK
  <2>1. 0 \in 0..OldAge
    BY HeapAssumption
  <2> QED BY <2>1, ZenonT(60) DEF Init, TypeOK
<1>3. Control
  BY ZenonT(60) DEF FreshClones, Init, Control
<1>4. Bits /\ NoDangling /\ Between /\ Marking
  BY <1>1 DEF Init, Bits, FreeSlotsAreClean, NoDangling, Alive, Between, Marking
<1> QED BY <1>2, <1>3, <1>4 DEF IInv

\* The invariant is inductive: what a step of the collector or of the mutator
\* needs, every step leaves behind.
THEOREM Invariance ==
    ASSUME FreshClones
    PROVE  Spec => []IInv
<1>1. Init => IInv
  BY InitHolds
<1>2. IInv /\ [Next]_vars => IInv'
  BY CollectKeeps, MutateKeeps, StutterKeeps DEF Next
<1> QED BY <1>1, <1>2, PTL DEF Spec

\* gc_page_sweep never frees an object the program can reach: for every heap,
\* every RVALUE_OLD_AGE and every interleaving of the program's stores with
\* the steps of incremental marking and lazy sweeping.
THEOREM NothingReachableIsFreed ==
    ASSUME FreshClones
    PROVE  Spec => []NoDangling
<1>1. IInv => NoDangling
  BY ZenonT(60) DEF IInv
<1> QED BY <1>1, Invariance, PTL

\* No black object refers to a white one while the mutator runs in the middle
\* of an incremental marking (what check_color_i looks for), unless the object
\* is unprotected: gc_writebarrier_incremental is enough.
THEOREM NoBlackToWhite ==
    ASSUME FreshClones
    PROVE  Spec => []BlackToWhite
<1>1. IInv => BlackToWhite
  <2> SUFFICES ASSUME IInv, inc, step = "run", NEW o \in live \cap Black, o \notin unprotected
               PROVE  refs[o] \subseteq marked
    BY DEF BlackToWhite
  <2>1. mode = "marking" /\ todo = {} /\ marking = stack
    BY ZenonT(60) DEF IInv, Control
  <2>2. ~Pending(o)
    BY <2>1 DEF Pending, Black
  <2> QED BY <2>1, <2>2 DEF IInv, Marking, Black
<1> QED BY <1>1, Invariance, PTL

\* An old object that refers to a young one is in the remember set whenever a
\* minor collection may start (what check_generation_i looks for), so the
\* collection that starts there marks the young object.
THEOREM OldObjectsAreRemembered ==
    ASSUME FreshClones
    PROVE  Spec => []OldToYoung
<1>1. IInv => OldToYoung
  BY DEF IInv, Between, OldToYoung
<1> QED BY <1>1, Invariance, PTL

\* newobj_init finds no age and no bit of an earlier object in the slot it is
\* given, however the slot was freed (gc_page_sweep, rb_gc_force_recycle).
THEOREM SlotsAreClean ==
    ASSUME FreshClones
    PROVE  Spec => []FreeSlotsAreClean
<1>1. IInv => FreeSlotsAreClean
  BY DEF IInv, Bits
<1> QED BY <1>1, Invariance, PTL

\* The ages and the bits of an object agree as check_rvalue_consistency wants
\* them, across promotions, demotions and unprotecting.
THEOREM AgesMatchBits ==
    ASSUME FreshClones
    PROVE  Spec => []Generations
<1>1. IInv => Generations
  <2> SUFFICES ASSUME IInv
               PROVE  Generations
    OBVIOUS
  <2>1. mode # "marking" => ~inc
    BY ZenonT(60) DEF IInv, Control
  <2> QED BY <2>1 DEF IInv, Bits, Between, Generations
<1> QED BY <1>1, Invariance, PTL
=============================================================================
