-------------------------- MODULE MjitFramesProofs --------------------------
(***************************************************************************)
(* The frames of MjitFrames, for any number of iseqs, codes, fibers and    *)
(* mutations: code that a frame executes stays loaded, and frames that     *)
(* trust a broken speculation are flagged; redos of the code of an iseq    *)
(* end.                                                                    *)
(***************************************************************************)
EXTENDS MjitFrames, FiniteSetTheorems, TLAPS

USE SMTT(30), ZenonT(60)

-----------------------------------------------------------------------------
(* The inductive invariant. *)

\* jit_code and the list of active units say the same; an iseq that is queued
\* or about to be has no code.
CodesOK ==
    /\ \A i \in Iseqs : IsCode(i) => jit_code[i] \in active /\ code[jit_code[i]].iseq = i
    /\ \A c \in active : jit_code[code[c].iseq] = c
    /\ \A c \in Loaded : code[c].iseq \in Iseqs
    /\ \A i \in queued : jit_code[i] = "NOT_READY"
    /\ adding # None => jit_code[adding] = "NOT_READY" /\ adding \notin queued

\* Code that can still be redone speculates on no more than its unit iseq allows.
WholeOK ==
    \A i \in Iseqs : IsCode(i) /\ CanMutate(i) => code[jit_code[i]].whole \subseteq ui[i].whole

\* mark_thread_unit_iseqs and cancel_thread_frames visit every stack in use.
StacksVisited == \A c \in Fibers : stack[c] # <<>> => c \in Visited

FramesOK == "callcc" \notin events => captured = None /\ ContinuationsRunLoadedCode

\* As long as no instruction's speculation fails, code becomes obsolete only
\* when a basic operation is redefined, and the code made later does not trust it.
BopOK ==
    events \cap {"insn", "whole", "callcc"} = {} =>
        /\ ~bop_redefined => obsolete = {} /\ canceled = {}
        /\ bop_redefined => \A c \in active : ~code[c].bop
        /\ WrongCodeIsCanceled

FInv == TypeOK /\ CodesOK /\ WholeOK /\ StacksVisited /\ FramesOK /\ BopOK

-----------------------------------------------------------------------------
(* Frames and stacks. *)

LEMMA FramesOfStack ==
    ASSUME stack \in [Fibers -> Seq(Frame)]
    PROVE  \A f : f \in AllFrames <=>
               \E c \in Fibers : \E n \in 1 .. Len(stack[c]) : f = stack[c][n]
<1>1. \A c \in Fibers : DOMAIN stack[c] = 1 .. Len(stack[c])
  OBVIOUS
<1> QED BY <1>1 DEF AllFrames, Frames

\* The same of the next state.
LEMMA FramesOfNewStack ==
    ASSUME stack' \in [Fibers -> Seq(Frame)]
    PROVE  \A f : f \in AllFrames' <=>
               \E c \in Fibers : \E n \in 1 .. Len(stack'[c]) : f = stack'[c][n]
<1>1. \A c \in Fibers : DOMAIN stack'[c] = 1 .. Len(stack'[c])
  OBVIOUS
<1> QED BY <1>1 DEF AllFrames, Frames

LEMMA FramesAreFrames ==
    ASSUME stack \in [Fibers -> Seq(Frame)]
    PROVE  AllFrames \subseteq Frame
<1>1. \A c \in Fibers : \A n \in 1 .. Len(stack[c]) : stack[c][n] \in Frame
  OBVIOUS
<1> QED BY <1>1, FramesOfStack

LEMMA NewEnvIsFresh ==
    ASSUME Envs \ UsedEnvs # {}
    PROVE  NewEnv \in Envs
BY DEF NewEnv

\* The stack of the running fiber becomes s.
LEMMA NewStack ==
    ASSUME TypeOK, NEW s \in Seq(Frame), Len(s) <= MaxDepth,
           stack' = [stack EXCEPT ![th] = s]
    PROVE  /\ stack' \in [Fibers -> Seq(Frame)]
           /\ \A d \in Fibers : Len(stack'[d]) <= MaxDepth
           /\ \A d \in Fibers \ {th} : stack'[d] = stack[d]
           /\ \A f \in AllFrames' : f \in AllFrames \/ \E n \in 1 .. Len(s) : f = s[n]
<1>1. /\ stack \in [Fibers -> Seq(Frame)] /\ th \in Fibers
      /\ \A d \in Fibers : Len(stack[d]) <= MaxDepth
  BY DEF TypeOK
<1>2. stack' \in [Fibers -> Seq(Frame)] /\ stack'[th] = s
  BY <1>1
<1>3. \A d \in Fibers \ {th} : stack'[d] = stack[d]
  BY <1>1
<1>4. ASSUME NEW f \in AllFrames'
      PROVE  f \in AllFrames \/ \E n \in 1 .. Len(s) : f = s[n]
  <2>1. PICK d \in Fibers : \E n \in 1 .. Len(stack'[d]) : f = stack'[d][n]
    BY <1>2, FramesOfNewStack
  <2>2. CASE d # th
    BY <1>1, <1>3, <2>1, <2>2, FramesOfStack
  <2>3. CASE d = th
    BY <1>2, <2>1, <2>3
  <2> QED BY <2>2, <2>3
<1> QED BY <1>1, <1>2, <1>3, <1>4

\* A call adds one frame.
LEMMA PushFrames ==
    ASSUME TypeOK, NEW i \in Iseqs, NEW c \in Codes \cup {None}, Push(i, c),
           Len(stack[th]) < MaxDepth
    PROVE  /\ stack' \in [Fibers -> Seq(Frame)]
           /\ \A d \in Fibers : Len(stack'[d]) <= MaxDepth
           /\ \A d \in Fibers \ {th} : stack'[d] = stack[d]
           /\ \A f \in AllFrames' : f \in AllFrames \/ (f.iseq = i /\ f.code = c)
           /\ canceled' = canceled
<1> DEFINE new == [iseq |-> i, code |-> c, env |-> NewEnv]
           s == Append(stack[th], new)
<1>1. new \in Frame
  BY NewEnvIsFresh DEF Push, Frame
<1>2. stack' = [stack EXCEPT ![th] = s] /\ canceled' = canceled
  BY DEF Push
<1>3. new.iseq = i /\ new.code = c
  OBVIOUS
<1>4. stack \in [Fibers -> Seq(Frame)] /\ stack[th] \in Seq(Frame) /\ MaxDepth \in Nat
  BY FramesAssumption DEF TypeOK
<1> HIDE DEF new
<1>5. s \in Seq(Frame) /\ Len(s) = Len(stack[th]) + 1 /\ Len(s) <= MaxDepth
  BY <1>1, <1>4
<1>6. \A n \in 1 .. Len(s) : s[n] = new \/ (n \in 1 .. Len(stack[th]) /\ s[n] = stack[th][n])
  BY <1>1, <1>4
<1>7. \A n \in 1 .. Len(s) : s[n] = new \/ s[n] \in AllFrames
  BY <1>4, <1>6, FramesOfStack DEF TypeOK
<1> HIDE DEF s
<1>8. /\ stack' \in [Fibers -> Seq(Frame)]
      /\ \A d \in Fibers : Len(stack'[d]) <= MaxDepth
      /\ \A d \in Fibers \ {th} : stack'[d] = stack[d]
      /\ \A f \in AllFrames' : f \in AllFrames \/ \E n \in 1 .. Len(s) : f = s[n]
  BY <1>2, <1>5, NewStack, ZenonT(60)
<1> QED BY <1>2, <1>3, <1>7, <1>8

\* What is left of a stack after frames are popped, its top perhaps interpreted.
Shrunk(s) ==
    /\ s \in Seq(Frame) /\ Len(s) <= Len(stack[th])
    /\ \A n \in 1 .. Len(s) : s[n] = stack[th][n] \/ s[n].code = None

LEMMA ShrunkFrames ==
    ASSUME TypeOK, NEW s, Shrunk(s), stack' = [stack EXCEPT ![th] = s]
    PROVE  /\ stack' \in [Fibers -> Seq(Frame)]
           /\ \A d \in Fibers : Len(stack'[d]) <= MaxDepth
           /\ \A d \in Fibers \ {th} : stack'[d] = stack[d]
           /\ \A f \in AllFrames' : f \in AllFrames \/ f.code = None
<1>1. stack \in [Fibers -> Seq(Frame)] /\ th \in Fibers /\ MaxDepth \in Nat
      /\ Len(stack[th]) <= MaxDepth
  BY FramesAssumption DEF TypeOK
<1>2. s \in Seq(Frame) /\ Len(s) <= MaxDepth /\ Len(s) <= Len(stack[th])
  BY <1>1 DEF Shrunk
<1>3. \A n \in 1 .. Len(s) : s[n] \in AllFrames \/ s[n].code = None
  BY <1>1, <1>2, FramesOfStack DEF Shrunk
<1>4. /\ stack' \in [Fibers -> Seq(Frame)]
      /\ \A d \in Fibers : Len(stack'[d]) <= MaxDepth
      /\ \A d \in Fibers \ {th} : stack'[d] = stack[d]
      /\ \A f \in AllFrames' : f \in AllFrames \/ \E n \in 1 .. Len(s) : f = s[n]
  BY <1>2, NewStack, ZenonT(60)
<1> QED BY <1>3, <1>4

LEMMA InterpretShrinks ==
    ASSUME TypeOK, stack[th] # <<>>, Interpret
    PROVE  \E s : Shrunk(s) /\ s # <<>> /\ stack' = [stack EXCEPT ![th] = s]
<1> DEFINE t == stack[th]
           s == [t EXCEPT ![Len(t)].code = None]
<1>1. t \in Seq(Frame) /\ Len(t) \in Nat \ {0}
  BY DEF TypeOK
<1>2. t[Len(t)] \in Frame
  BY <1>1
<1>3. [t[Len(t)] EXCEPT !.code = None] \in Frame
  BY <1>2 DEF Frame
<1>4. s \in Seq(Frame) /\ Len(s) = Len(t)
  BY <1>1, <1>3
<1>5. \A n \in 1 .. Len(s) : s[n] = t[n] \/ s[n].code = None
  BY <1>1, <1>2, <1>4 DEF Frame
<1>6. stack' = [stack EXCEPT ![th] = s]
  BY DEF Interpret
<1>7. s # <<>>
  BY <1>1, <1>4
<1> HIDE DEF s
<1>8. Shrunk(s)
  BY <1>1, <1>4, <1>5 DEF Shrunk
<1> QED BY <1>6, <1>7, <1>8, ZenonT(60)

LEMMA ReturnShrinks ==
    ASSUME TypeOK, stack[th] # <<>>, stack' = [stack EXCEPT ![th] = SubSeq(@, 1, Len(@) - 1)]
    PROVE  \E s : Shrunk(s) /\ stack' = [stack EXCEPT ![th] = s]
<1> DEFINE s == SubSeq(stack[th], 1, Len(stack[th]) - 1)
<1>1. stack[th] \in Seq(Frame) /\ Len(stack[th]) \in Nat \ {0}
  BY DEF TypeOK
<1>2. s \in Seq(Frame) /\ Len(s) = Len(stack[th]) - 1
  BY <1>1
<1>3. \A n \in 1 .. Len(s) : s[n] = stack[th][n]
  BY <1>1, <1>2
<1>4. stack' = [stack EXCEPT ![th] = s]
  OBVIOUS
<1> HIDE DEF s
<1>5. Shrunk(s)
  BY <1>1, <1>2, <1>3 DEF Shrunk
<1> QED BY <1>4, <1>5, ZenonT(60)

LEMMA RaiseShrinks ==
    ASSUME TypeOK, NEW n \in 1 .. MaxDepth, Raise(n)
    PROVE  \E s : Shrunk(s) /\ stack' = [stack EXCEPT ![th] = s]
<1> DEFINE t == SubSeq(stack[th], 1, n)
           s == [t EXCEPT ![n].code = None]
<1>1. stack[th] \in Seq(Frame) /\ n \in Nat \ {0} /\ n < Len(stack[th])
  BY FramesAssumption DEF TypeOK, Raise
<1>2. t \in Seq(Frame) /\ Len(t) = n /\ \A k \in 1 .. n : t[k] = stack[th][k]
  BY <1>1
<1>3. stack' = [stack EXCEPT ![th] = s]
  BY DEF Raise
<1> HIDE DEF t
<1>4. t[n] \in Frame
  BY <1>1, <1>2
<1>5. [t[n] EXCEPT !.code = None] \in Frame
  BY <1>4 DEF Frame
<1>6. s \in Seq(Frame) /\ Len(s) = n
  BY <1>1, <1>2, <1>5
<1>7. \A k \in 1 .. Len(s) : s[k] = stack[th][k] \/ s[k].code = None
  BY <1>1, <1>2, <1>4, <1>6 DEF Frame
<1> HIDE DEF s
<1>8. Shrunk(s)
  BY <1>1, <1>6, <1>7 DEF Shrunk
<1> QED BY <1>3, <1>8, ZenonT(60)

-----------------------------------------------------------------------------
(* Initial states and steps. *)

LEMMA InitHolds == Init => FInv
<1> SUFFICES ASSUME Init PROVE FInv
  OBVIOUS
<1>1. TypeOK
  <2>1. stack \in [Fibers -> Seq(Frame)] /\ \A c \in Fibers : Len(stack[c]) = 0
    BY DEF Init
  <2>2. code \in [Codes -> Generated]
    BY FramesAssumption DEF Init, Blank, Generated
  <2>3. ui \in [Iseqs -> UnitIseq]
    BY FramesAssumption DEF Init, UnitIseq
  <2> QED BY <2>1, <2>2, <2>3, FramesAssumption DEF Init, TypeOK
<1>2. AllFrames = {}
  <2>1. \A c \in Fibers : Len(stack[c]) = 0
    BY DEF Init
  <2> QED BY <1>1, <2>1, FramesOfStack DEF TypeOK
<1>3. CodesOK /\ WholeOK
  BY FramesAssumption DEF Init, CodesOK, WholeOK, IsCode, Loaded
<1> QED BY <1>1, <1>2, <1>3
        DEF Init, FInv, StacksVisited, FramesOK, BopOK, ContinuationsRunLoadedCode, WrongCodeIsCanceled

LEMMA LoadKeeps ==
    ASSUME FInv, NEW i \in Iseqs, Load(i), UNCHANGED events
    PROVE  FInv'
<1>0. /\ TypeOK /\ CodesOK /\ WholeOK /\ StacksVisited /\ FramesOK /\ BopOK
  BY DEF FInv
<1>1. PICK c \in Codes \ Loaded :
          /\ code' = [code EXCEPT ![c] =
                 [iseq |-> i, mutation_num |-> ui[i].jit_mutations_num,
                  insns |-> Speculative(i), whole |-> ui[i].whole,
                  bop |-> ~bop_redefined]]
          /\ active' = active \cup {c}
          /\ jit_code' = [jit_code EXCEPT ![i] = c]
  BY ZenonT(60) DEF Load
<1>2. /\ i \in queued /\ queued' = queued \ {i}
      /\ UNCHANGED <<stack, th, captured, conts, sth, canceled, obsolete, ui, bop_redefined, adding>>
  BY DEF Load, threadv, contv
<1>3. /\ ui[i] \in UnitIseq /\ code \in [Codes -> Generated]
      /\ jit_code \in [Iseqs -> Codes \cup {"NOT_ADDED", "NOT_READY"}]
      /\ bop_redefined \in BOOLEAN /\ active \subseteq Codes /\ obsolete \subseteq Codes
  BY <1>0 DEF TypeOK
<1>4. /\ code'[c] \in Generated /\ code'[c].iseq = i /\ code'[c].whole = ui[i].whole
      /\ code'[c].bop = ~bop_redefined
  <2>1. Speculative(i) \subseteq Insns
    BY DEF Speculative
  <2> QED BY <1>1, <1>3, <2>1 DEF Generated, UnitIseq
<1>5. \A d \in Codes \ {c} : code'[d] = code[d]
  BY <1>1, <1>3
<1>6. /\ jit_code'[i] = c /\ \A j \in Iseqs \ {i} : jit_code'[j] = jit_code[j]
      /\ Loaded' = Loaded \cup {c}
  BY <1>1, <1>2, <1>3, ZenonT(60) DEF Loaded
<1>7. TypeOK'
  <2>1. code' \in [Codes -> Generated]
    BY <1>1, <1>3, <1>4, ZenonT(60)
  <2> QED BY <1>0, <1>1, <1>2, <2>1 DEF TypeOK
<1>8. jit_code[i] = "NOT_READY" /\ "NOT_READY" \notin Codes
  BY <1>0, <1>2, FramesAssumption DEF CodesOK
<1>9. CodesOK'
  <2>1. \A j \in Iseqs : IsCode(j)' => jit_code'[j] \in active' /\ code'[jit_code'[j]].iseq = j
    BY <1>0, <1>1, <1>3, <1>4, <1>5, <1>6 DEF CodesOK, IsCode, Loaded
  <2>2. \A d \in active' : jit_code'[code'[d].iseq] = d
    <3> SUFFICES ASSUME NEW d \in active, d # c PROVE jit_code'[code'[d].iseq] = d
      BY <1>1, <1>4, <1>6
    <3>1. d \in Codes /\ code'[d] = code[d] /\ code[d].iseq \in Iseqs /\ jit_code[code[d].iseq] = d
      BY <1>0, <1>3, <1>5 DEF CodesOK, Loaded
    <3> QED BY <1>6, <1>8, <3>1
  <2>3. \A d \in Loaded' : code'[d].iseq \in Iseqs
    BY <1>0, <1>3, <1>4, <1>5, <1>6, ZenonT(60) DEF CodesOK, Loaded
  <2>4. \A j \in queued' : jit_code'[j] = "NOT_READY"
    BY <1>0, <1>2, <1>6, ZenonT(60) DEF CodesOK, TypeOK
  <2>5. adding' # None => jit_code'[adding'] = "NOT_READY" /\ adding' \notin queued'
    BY <1>0, <1>2, <1>6 DEF CodesOK, TypeOK
  <2> QED BY <2>1, <2>2, <2>3, <2>4, <2>5 DEF CodesOK
<1>10. WholeOK'
  <2> SUFFICES ASSUME NEW j \in Iseqs, IsCode(j)', CanMutate(j)'
               PROVE  code'[jit_code'[j]].whole \subseteq ui'[j].whole
    BY DEF WholeOK
  <2>1. CASE j = i
    BY <1>2, <1>4, <1>6, <2>1, ZenonT(60)
  <2>2. CASE j # i
    <3>1. IsCode(j) /\ CanMutate(j) /\ jit_code'[j] = jit_code[j] /\ jit_code[j] \in Loaded
      BY <1>0, <1>2, <1>6, <2>2 DEF IsCode, CanMutate, CodesOK, Loaded
    <3>2. code'[jit_code[j]] = code[jit_code[j]]
      BY <1>1, <1>5, <3>1, ZenonT(60) DEF IsCode
    <3> QED BY <1>0, <1>2, <3>1, <3>2, ZenonT(60) DEF WholeOK
  <2> QED BY <2>1, <2>2
<1>11. StacksVisited'
  BY <1>0, <1>2 DEF StacksVisited, Visited
<1>12. AllFrames' = AllFrames
  BY <1>2 DEF AllFrames
<1>13. \A d \in Loaded : d \in Codes \ {c} /\ code'[d] = code[d]
  BY <1>1, <1>3, <1>5, ZenonT(60) DEF Loaded
<1>14. FramesOK'
  BY <1>0, <1>2, <1>6, <1>12, <1>13 DEF FramesOK, ContinuationsRunLoadedCode
<1>15. BopOK'
  <2> SUFFICES ASSUME events \cap {"insn", "whole", "callcc"} = {}
               PROVE  /\ ~bop_redefined' => obsolete' = {} /\ canceled' = {}
                      /\ bop_redefined' => \A d \in active' : ~code'[d].bop
                      /\ WrongCodeIsCanceled'
    BY DEF BopOK
  <2>1. ContinuationsRunLoadedCode
    BY <1>0, ZenonT(60) DEF FramesOK
  <2>2. WrongCodeIsCanceled'
    BY <1>0, <1>2, <1>12, <1>13, <2>1 DEF BopOK, WrongCodeIsCanceled, ContinuationsRunLoadedCode
  <2>3. bop_redefined' => \A d \in active' : ~code'[d].bop
    <3> SUFFICES ASSUME bop_redefined, NEW d \in active' PROVE ~code'[d].bop
      BY <1>2
    <3>1. CASE d = c
      BY <1>4, <3>1, ZenonT(60)
    <3>2. CASE d \in active
      <4>1. code'[d] = code[d]
        BY <1>13, <3>2 DEF Loaded
      <4> QED BY <1>0, <3>2, <4>1 DEF BopOK
    <3> QED BY <1>1, <3>1, <3>2
  <2> QED BY <1>0, <1>2, <2>2, <2>3 DEF BopOK
<1> QED BY <1>7, <1>9, <1>10, <1>11, <1>14, <1>15 DEF FInv

\* The part of TypeOK that says what redos and calls change besides frames.
CodeTypes ==
    /\ active \subseteq Codes /\ obsolete \subseteq Codes /\ queued \subseteq Iseqs
    /\ jit_code \in [Iseqs -> Codes \cup {"NOT_ADDED", "NOT_READY"}]
    /\ ui \in [Iseqs -> UnitIseq] /\ adding \in Iseqs \cup {None}

\* A step that changes neither code nor unit iseqs.
LEMMA SameCode ==
    ASSUME TypeOK, CodesOK, WholeOK,
           UNCHANGED <<code, active, obsolete, jit_code, queued, ui, adding>>
    PROVE  CodeTypes' /\ CodesOK' /\ WholeOK' /\ Loaded' = Loaded
<1>1. CodeTypes'
  BY DEF TypeOK, CodeTypes
<1>2. Loaded' = Loaded
  BY DEF Loaded
<1>3. CodesOK'
  BY <1>2 DEF CodesOK, IsCode
<1>4. WholeOK'
  BY DEF WholeOK, IsCode, CanMutate
<1> QED BY <1>1, <1>2, <1>3, <1>4

\* mjit_redo_iseq moves the active code of i to the obsolete units.
LEMMA RedoKeeps ==
    ASSUME TypeOK, CodesOK, WholeOK, adding = None, UNCHANGED <<code, queued>>,
           NEW i \in Iseqs, NEW r \in UnitIseq, NEW spec_fail_p \in BOOLEAN,
           r.jit_mutations_num = ui[i].jit_mutations_num, Redo(i, r, spec_fail_p)
    PROVE  CodeTypes' /\ CodesOK' /\ WholeOK' /\ Loaded' = Loaded /\ active' \subseteq active
<1>1. /\ jit_code \in [Iseqs -> Codes \cup {"NOT_ADDED", "NOT_READY"}]
      /\ ui \in [Iseqs -> UnitIseq] /\ active \subseteq Codes /\ obsolete \subseteq Codes
      /\ queued \subseteq Iseqs
  BY DEF TypeOK
<1>2. CASE ~(IsCode(i) /\ CanMutate(i))
  <2>1. ui' = [ui EXCEPT ![i] = r] /\ UNCHANGED <<active, obsolete, jit_code, adding>>
    BY <1>2 DEF Redo
  <2>2. CodesOK'
    BY <2>1 DEF CodesOK, IsCode, Loaded
  <2>3. WholeOK'
    <3> SUFFICES ASSUME NEW j \in Iseqs, IsCode(j)', CanMutate(j)'
                 PROVE  code'[jit_code'[j]].whole \subseteq ui'[j].whole
      BY DEF WholeOK
    <3>1. j # i
      BY <1>1, <1>2, <2>1 DEF IsCode, CanMutate
    <3> QED BY <1>1, <2>1, <3>1 DEF WholeOK, IsCode, CanMutate
  <2>4. CodeTypes'
    BY <1>1, <2>1 DEF CodeTypes
  <2> QED BY <2>1, <2>2, <2>3, <2>4 DEF Loaded
<1>3. CASE IsCode(i) /\ CanMutate(i)
  <2> DEFINE q == [r EXCEPT !.jit_mutations_num = Counted(@, spec_fail_p)]
  <2>1. /\ ui' = [ui EXCEPT ![i] = q]
        /\ active' = active \ {jit_code[i]}
        /\ obsolete' = obsolete \cup {jit_code[i]}
        /\ jit_code' = [jit_code EXCEPT ![i] = "NOT_READY"]
        /\ adding' = i
    BY <1>3 DEF Redo
  <2>2. q \in UnitIseq
    <3>1. Counted(r.jit_mutations_num, spec_fail_p) \in 0 .. MaxMutations
      BY <1>3, FramesAssumption DEF Counted, CanMutate, UnitIseq
    <3> QED BY <3>1 DEF UnitIseq
  <2>3. jit_code[i] \in active /\ code[jit_code[i]].iseq = i /\ jit_code[i] \in Codes
    BY <1>3 DEF CodesOK, IsCode
  <2>4. Loaded' = Loaded
    BY <2>1, <2>3 DEF Loaded
  <2>5. jit_code'[i] = "NOT_READY" /\ \A j \in Iseqs \ {i} : jit_code'[j] = jit_code[j]
    BY <1>1, <2>1
  <2>6. "NOT_READY" \notin Codes /\ i \notin queued /\ i # None
    BY <2>3, FramesAssumption DEF CodesOK
  <2>7. CodesOK'
    <3>1. \A j \in Iseqs : IsCode(j)' => jit_code'[j] \in active' /\ code'[jit_code'[j]].iseq = j
      BY <2>1, <2>3, <2>5, <2>6 DEF CodesOK, IsCode
    <3>2. \A c \in active' : jit_code'[code'[c].iseq] = c
      <4> SUFFICES ASSUME NEW c \in active, c # jit_code[i] PROVE jit_code'[code[c].iseq] = c
        BY <2>1
      <4>1. code[c].iseq \in Iseqs /\ jit_code[code[c].iseq] = c
        BY DEF CodesOK, Loaded
      <4> QED BY <2>5, <4>1
    <3>3. \A c \in Loaded' : code'[c].iseq \in Iseqs
      BY <2>4 DEF CodesOK
    <3>4. \A j \in queued' : jit_code'[j] = "NOT_READY"
      BY <1>1, <2>5 DEF CodesOK
    <3> QED BY <2>1, <2>5, <2>6, <3>1, <3>2, <3>3, <3>4 DEF CodesOK
  <2>8. WholeOK'
    <3> SUFFICES ASSUME NEW j \in Iseqs, IsCode(j)', CanMutate(j)'
                 PROVE  code'[jit_code'[j]].whole \subseteq ui'[j].whole
      BY DEF WholeOK
    <3>1. j # i
      BY <2>5, <2>6 DEF IsCode
    <3>2. ui'[j] = ui[j]
      BY <1>1, <2>1, <3>1
    <3> QED BY <2>5, <3>1, <3>2 DEF WholeOK, IsCode, CanMutate
  <2>9. CodeTypes'
    <3>1. ui' \in [Iseqs -> UnitIseq]
      BY <1>1, <2>1, <2>2
    <3> HIDE DEF q
    <3> QED BY <1>1, <2>1, <2>3, <3>1 DEF CodeTypes
  <2> QED BY <2>1, <2>4, <2>7, <2>8, <2>9
<1> QED BY <1>2, <1>3

\* A step of the running fiber that loads and unloads nothing: its frames are
\* old ones, interpreted, or execute active code of their iseq.
LEMMA StackStep ==
    ASSUME FInv, UNCHANGED <<th, captured, conts, sth, code, bop_redefined, events>>,
           Loaded' = Loaded, active' \subseteq active,
           CodeTypes', CodesOK', WholeOK',
           events \cap {"insn", "whole", "callcc"} = {} /\ ~bop_redefined => obsolete' = obsolete,
           canceled' = canceled \/ canceled' = canceled \cap UsedEnvs',
           stack' \in [Fibers -> Seq(Frame)],
           \A d \in Fibers : Len(stack'[d]) <= MaxDepth,
           \A d \in Fibers \ {th} : stack'[d] = stack[d],
           \A f \in AllFrames' : \/ f \in AllFrames \/ f.code = None
                                 \/ f.code \in active /\ code[f.code].iseq = f.iseq
    PROVE  FInv'
<1>0. /\ TypeOK /\ CodesOK /\ WholeOK /\ StacksVisited /\ FramesOK /\ BopOK
  BY ZenonT(60) DEF FInv
<1>1. TypeOK'
  BY <1>0 DEF TypeOK, CodeTypes
<1>2. StacksVisited'
  BY <1>0 DEF StacksVisited, Visited
<1>3. FramesOK'
  <2> SUFFICES ASSUME "callcc" \notin events, NEW f \in AllFrames', f.code # None
               PROVE  f.code \in Loaded' /\ code'[f.code].iseq = f.iseq
    BY <1>0 DEF FramesOK, ContinuationsRunLoadedCode
  <2>1. CASE f \in AllFrames
    BY <1>0, <2>1 DEF FramesOK, ContinuationsRunLoadedCode
  <2>2. CASE f.code \in active /\ code[f.code].iseq = f.iseq
    BY <2>2 DEF Loaded
  <2> QED BY <2>1, <2>2
<1>4. BopOK'
  <2> SUFFICES ASSUME events \cap {"insn", "whole", "callcc"} = {}
               PROVE  /\ ~bop_redefined' => obsolete' = {} /\ canceled' = {}
                      /\ bop_redefined' => \A d \in active' : ~code'[d].bop
                      /\ WrongCodeIsCanceled'
    BY DEF BopOK
  <2>1. \A f \in AllFrames' : f.env \in UsedEnvs'
    BY DEF AllFrames, UsedEnvs
  <2>2. WrongCodeIsCanceled'
    <3> SUFFICES ASSUME bop_redefined, NEW f \in AllFrames', f.code # None, code[f.code].bop
                 PROVE  f.env \in canceled'
      BY DEF WrongCodeIsCanceled
    <3>1. f \in AllFrames
      BY <1>0 DEF BopOK
    <3> QED BY <1>0, <2>1, <3>1 DEF BopOK, WrongCodeIsCanceled
  <2> QED BY <1>0, <2>2 DEF BopOK
<1> QED BY <1>1, <1>2, <1>3, <1>4 DEF FInv

LEMMA CallInterpretedKeeps ==
    ASSUME FInv, NEW i \in Iseqs, CallInterpreted(i), UNCHANGED events
    PROVE  FInv'
<1>0. TypeOK /\ CodesOK /\ WholeOK
  BY DEF FInv
<1>1. /\ adding = None /\ Len(stack[th]) < MaxDepth /\ Push(i, None)
      /\ UNCHANGED <<th, captured, conts, sth, code, active, obsolete, queued, ui, bop_redefined>>
  BY DEF CallInterpreted, Running, contv
<1>2. /\ stack' \in [Fibers -> Seq(Frame)]
      /\ \A d \in Fibers : Len(stack'[d]) <= MaxDepth
      /\ \A d \in Fibers \ {th} : stack'[d] = stack[d]
      /\ \A f \in AllFrames' : f \in AllFrames \/ (f.iseq = i /\ f.code = None)
      /\ canceled' = canceled
  BY <1>0, <1>1, PushFrames
<1>3. Loaded' = Loaded
  BY <1>1 DEF Loaded
<1>4. CodeTypes' /\ CodesOK' /\ WholeOK'
  <2>1. CASE jit_code[i] = "NOT_ADDED"
    <3>1. jit_code' = [jit_code EXCEPT ![i] = "NOT_READY"] /\ adding' = i
      BY <2>1 DEF CallInterpreted
    <3>2. CodeTypes'
      BY <1>0, <1>1, <3>1 DEF TypeOK, CodeTypes
    <3>3. jit_code'[i] = "NOT_READY" /\ \A j \in Iseqs \ {i} : jit_code'[j] = jit_code[j]
      BY <1>0, <3>1 DEF TypeOK
    <3>4. "NOT_READY" \notin Codes /\ "NOT_ADDED" \notin Codes /\ i \notin queued
      BY <1>0, <2>1, FramesAssumption, ZenonT(60) DEF CodesOK
    <3>5. CodesOK'
      <4>1. \A j \in Iseqs : IsCode(j)' => jit_code'[j] \in active' /\ code'[jit_code'[j]].iseq = j
        <5> SUFFICES ASSUME NEW j \in Iseqs, jit_code'[j] \in Codes
                     PROVE  jit_code'[j] \in active /\ code[jit_code'[j]].iseq = j
          BY <1>1, ZenonT(60) DEF IsCode
        <5>1. j # i
          BY <3>3, <3>4, ZenonT(60)
        <5>2. jit_code'[j] = jit_code[j]
          BY <3>3, <5>1, ZenonT(60)
        <5> QED BY <1>0, <5>2, ZenonT(60) DEF CodesOK, IsCode
      <4>2. \A c \in active' : jit_code'[code'[c].iseq] = c
        <5> SUFFICES ASSUME NEW c \in active PROVE jit_code'[code[c].iseq] = c
          BY <1>1, ZenonT(60)
        <5>1. c \in Codes /\ code[c].iseq \in Iseqs /\ jit_code[code[c].iseq] = c
          BY <1>0, ZenonT(60) DEF CodesOK, Loaded, TypeOK
        <5> QED BY <2>1, <3>3, <3>4, <5>1
      <4>3. \A j \in queued' : jit_code'[j] = "NOT_READY"
        BY <1>0, <1>1, <3>3, ZenonT(60) DEF CodesOK, TypeOK
      <4> QED BY <1>0, <1>1, <1>3, <3>1, <3>3, <3>4, <4>1, <4>2, <4>3, ZenonT(60) DEF CodesOK
    <3>6. WholeOK'
      BY <1>0, <1>1, <3>3, <3>4 DEF WholeOK, IsCode, CanMutate
    <3> QED BY <3>2, <3>5, <3>6
  <2>2. CASE jit_code[i] # "NOT_ADDED"
    <3>1. UNCHANGED <<jit_code, adding>>
      BY <2>2, ZenonT(60) DEF CallInterpreted
    <3> QED BY <1>0, <1>1, <3>1, SameCode
  <2> QED BY <2>1, <2>2
<1> QED BY <1>1, <1>2, <1>3, <1>4, StackStep

LEMMA CallCodeKeeps ==
    ASSUME FInv, NEW i \in Iseqs, CallCode(i), UNCHANGED events
    PROVE  FInv'
<1>0. TypeOK /\ CodesOK /\ WholeOK
  BY DEF FInv
<1>1. /\ Len(stack[th]) < MaxDepth /\ jit_code[i] \in Codes /\ Push(i, jit_code[i])
      /\ UNCHANGED <<th, captured, conts, sth, code, active, obsolete, jit_code, queued, ui,
                     bop_redefined, adding>>
  BY ZenonT(60) DEF CallCode, IsCode, contv, codev
<1>2. /\ stack' \in [Fibers -> Seq(Frame)]
      /\ \A d \in Fibers : Len(stack'[d]) <= MaxDepth
      /\ \A d \in Fibers \ {th} : stack'[d] = stack[d]
      /\ \A f \in AllFrames' : f \in AllFrames \/ (f.iseq = i /\ f.code = jit_code[i])
      /\ canceled' = canceled
  BY <1>0, <1>1, PushFrames, ZenonT(60)
<1>3. jit_code[i] \in active /\ code[jit_code[i]].iseq = i
  BY <1>0, <1>1 DEF CodesOK, IsCode
<1>4. CodeTypes' /\ CodesOK' /\ WholeOK' /\ Loaded' = Loaded
  BY <1>0, <1>1, SameCode
<1> QED BY <1>1, <1>2, <1>3, <1>4, StackStep

LEMMA CallFailsKeeps ==
    ASSUME FInv, NEW i \in Iseqs, NEW w \in Whole, CallFails(i, w), UNCHANGED events
    PROVE  FInv'
<1>0. TypeOK /\ CodesOK /\ WholeOK
  BY DEF FInv
<1> DEFINE r == [ui[i] EXCEPT !.whole = @ \ {w}]
<1>1. /\ adding = None /\ Len(stack[th]) < MaxDepth /\ "whole" \in events
      /\ Push(i, None) /\ Redo(i, r, FALSE)
      /\ UNCHANGED <<th, captured, conts, sth, code, queued, bop_redefined>>
  BY ZenonT(60) DEF CallFails, Running, contv
<1>2. /\ stack' \in [Fibers -> Seq(Frame)]
      /\ \A d \in Fibers : Len(stack'[d]) <= MaxDepth
      /\ \A d \in Fibers \ {th} : stack'[d] = stack[d]
      /\ \A f \in AllFrames' : f \in AllFrames \/ (f.iseq = i /\ f.code = None)
      /\ canceled' = canceled
  BY <1>0, <1>1, PushFrames
<1>3. r \in UnitIseq /\ r.jit_mutations_num = ui[i].jit_mutations_num
  <2>1. ui[i] \in UnitIseq
    BY <1>0 DEF TypeOK
  <2> QED BY <2>1 DEF UnitIseq
<1> HIDE DEF r
<1>4. CodeTypes' /\ CodesOK' /\ WholeOK' /\ Loaded' = Loaded /\ active' \subseteq active
  BY <1>0, <1>1, <1>3, RedoKeeps, ZenonT(60)
<1> QED BY <1>1, <1>2, <1>4, StackStep, ZenonT(60)

\* stop_spec, when something that makes code obsolete may have happened.
LEMMA StopSpecKeeps ==
    ASSUME FInv, NEW p \in Insns, StopSpec(p), adding = None, stack[th] # <<>>, Top.code # None,
           events \cap {"insn", "whole"} # {} \/ canceled # {}, UNCHANGED events
    PROVE  FInv'
<1>0. TypeOK /\ CodesOK /\ WholeOK /\ BopOK
  BY DEF FInv
<1> DEFINE i == Top.iseq
           k == code[Top.code].mutation_num
           r == FailedInsnStored(ui[i], k, p)
<1>1. /\ Redo(i, r, TRUE) /\ Interpret
      /\ UNCHANGED <<th, captured, conts, sth, canceled, code, queued, bop_redefined>>
  BY ZenonT(60) DEF StopSpec, contv
<1>2. Top \in Frame
  <2>1. stack[th] \in Seq(Frame) /\ Len(stack[th]) \in 1 .. Len(stack[th])
    BY <1>0 DEF TypeOK
  <2> QED BY <2>1 DEF Top
<1>3. i \in Iseqs /\ k \in 0 .. MaxMutations
  <2>1. Top.iseq \in Iseqs /\ Top.code \in Codes
    BY <1>2, ZenonT(60) DEF Frame
  <2>2. code[Top.code] \in Generated
    BY <1>0, <2>1 DEF TypeOK
  <2> QED BY <2>1, <2>2 DEF Generated
<1> HIDE DEF i, k
<1>4. r \in UnitIseq /\ r.jit_mutations_num = ui[i].jit_mutations_num
  <2>1. ui[i] \in UnitIseq
    BY <1>0, <1>3 DEF TypeOK
  <2> QED BY <1>3, <2>1, ZenonT(60) DEF UnitIseq, FailedInsnStored
<1> HIDE DEF r
<1>5. CodeTypes' /\ CodesOK' /\ WholeOK' /\ Loaded' = Loaded /\ active' \subseteq active
  BY <1>0, <1>1, <1>3, <1>4, RedoKeeps, ZenonT(60)
<1>6. PICK s : Shrunk(s) /\ s # <<>> /\ stack' = [stack EXCEPT ![th] = s]
  BY <1>0, <1>1, InterpretShrinks
<1>7. /\ stack' \in [Fibers -> Seq(Frame)]
      /\ \A d \in Fibers : Len(stack'[d]) <= MaxDepth
      /\ \A d \in Fibers \ {th} : stack'[d] = stack[d]
      /\ \A f \in AllFrames' : f \in AllFrames \/ f.code = None
  BY <1>0, <1>6, ShrunkFrames, ZenonT(60)
<1>8. events \cap {"insn", "whole", "callcc"} = {} /\ ~bop_redefined => obsolete' = obsolete
  BY <1>0 DEF BopOK
<1> QED BY <1>1, <1>5, <1>7, <1>8, StackStep

LEMMA SpecFailKeeps ==
    ASSUME FInv, NEW p \in Insns, SpecFail(p), UNCHANGED events
    PROVE  FInv'
BY StopSpecKeeps, ZenonT(60) DEF SpecFail, Running

\* A step of the running fiber that only pops frames or interprets the top one.
LEMMA ShrinkStep ==
    ASSUME FInv, NEW s, Shrunk(s), stack' = [stack EXCEPT ![th] = s],
           UNCHANGED <<th, captured, contv, codev, ui, bop_redefined, adding, events>>,
           canceled' = canceled \/ canceled' = canceled \cap UsedEnvs'
    PROVE  FInv'
<1>0. TypeOK /\ CodesOK /\ WholeOK
  BY DEF FInv
<1>1. UNCHANGED <<th, captured, conts, sth, code, active, obsolete, jit_code, queued, ui,
                  bop_redefined, adding, events>>
  BY DEF contv, codev
<1>2. /\ stack' \in [Fibers -> Seq(Frame)]
      /\ \A d \in Fibers : Len(stack'[d]) <= MaxDepth
      /\ \A d \in Fibers \ {th} : stack'[d] = stack[d]
      /\ \A f \in AllFrames' : f \in AllFrames \/ f.code = None
  BY <1>0, ShrunkFrames, ZenonT(60)
<1>3. CodeTypes' /\ CodesOK' /\ WholeOK' /\ Loaded' = Loaded
  BY <1>0, <1>1, SameCode
<1> QED BY <1>1, <1>2, <1>3, StackStep

LEMMA CanceledKeeps ==
    ASSUME FInv, Canceled, UNCHANGED events
    PROVE  FInv'
<1>0. TypeOK
  BY ZenonT(60) DEF FInv
<1>1. CASE \E p \in Insns : StopSpec(p)
  BY <1>1, StopSpecKeeps DEF Canceled
<1>2. CASE /\ Interpret
           /\ UNCHANGED <<th, captured, contv, canceled, codev, ui, bop_redefined, adding>>
  <2>1. PICK s : Shrunk(s) /\ s # <<>> /\ stack' = [stack EXCEPT ![th] = s]
    BY <1>0, <1>2, InterpretShrinks DEF Canceled
  <2> QED BY <1>2, <2>1, ShrinkStep, ZenonT(60)
<1> QED BY <1>1, <1>2 DEF Canceled

LEMMA ReturnKeeps ==
    ASSUME FInv, Return, UNCHANGED events
    PROVE  FInv'
<1>0. TypeOK
  BY DEF FInv
<1>1. PICK s : Shrunk(s) /\ stack' = [stack EXCEPT ![th] = s]
  BY <1>0, ReturnShrinks, ZenonT(60) DEF Return
<1> QED BY <1>1, ShrinkStep, ZenonT(60) DEF Return, Forget

LEMMA RaiseKeeps ==
    ASSUME FInv, NEW n \in 1 .. MaxDepth, Raise(n), UNCHANGED events
    PROVE  FInv'
<1>0. TypeOK
  BY DEF FInv
<1>1. PICK s : Shrunk(s) /\ stack' = [stack EXCEPT ![th] = s]
  BY <1>0, RaiseShrinks
<1> QED BY <1>1, ShrinkStep, ZenonT(60) DEF Raise, Forget

\* The stacks that are visited hold all the frames.
LEMMA VisitedFrames ==
    ASSUME TypeOK, StacksVisited
    PROVE  UNION {Frames(stack[c]) : c \in Visited} = AllFrames
<1>1. Visited \subseteq Fibers
  BY DEF Visited, TypeOK
<1>2. \A c \in Fibers : Frames(stack[c]) # {} => stack[c] # <<>>
  BY DEF Frames
<1>3. \A c \in Fibers : Frames(stack[c]) # {} => c \in Visited
  BY <1>2, ZenonT(60) DEF StacksVisited
<1> QED BY <1>1, <1>3, ZenonT(60) DEF AllFrames

LEMMA BlankIsGenerated == Blank \in Generated
BY FramesAssumption DEF Blank, Generated

\* unload_units: evicted and freed units are those of iseqs that no frame uses.
LEMMA AddKeeps ==
    ASSUME FInv, mjit_add_iseq_to_process, UNCHANGED events
    PROVE  FInv'
<1>0. /\ TypeOK /\ CodesOK /\ WholeOK /\ StacksVisited /\ FramesOK /\ BopOK
  BY DEF FInv
<1>1. /\ adding # None /\ adding' = None
      /\ UNCHANGED <<stack, th, captured, conts, sth, canceled, ui, bop_redefined, events>>
  BY ZenonT(60) DEF mjit_add_iseq_to_process, threadv, contv
<1>2. /\ adding \in Iseqs /\ active \subseteq Codes /\ obsolete \subseteq Codes
      /\ queued \subseteq Iseqs /\ code \in [Codes -> Generated]
      /\ jit_code \in [Iseqs -> Codes \cup {"NOT_ADDED", "NOT_READY"}]
      /\ jit_code[adding] = "NOT_READY" /\ "NOT_READY" \notin Codes
  BY <1>0, <1>1, FramesAssumption, ZenonT(60) DEF TypeOK, CodesOK
<1>3. AllFrames' = AllFrames /\ StacksVisited'
  BY <1>0, <1>1 DEF AllFrames, StacksVisited, Visited
<1>4. CASE Cardinality(Loaded) < MaxCache
  <2>1. queued' = queued \cup {adding} /\ UNCHANGED <<code, active, obsolete, jit_code>>
    BY <1>4, ZenonT(60) DEF mjit_add_iseq_to_process
  <2>2. TypeOK'
    BY <1>0, <1>1, <1>2, <2>1, ZenonT(60) DEF TypeOK
  <2>3. CodesOK'
    BY <1>0, <1>1, <1>2, <2>1, ZenonT(60) DEF CodesOK, IsCode, Loaded
  <2>4. WholeOK'
    BY <1>0, <1>1, <2>1, ZenonT(60) DEF WholeOK, IsCode, CanMutate
  <2>5. FramesOK'
    BY <1>0, <1>1, <1>3, <2>1, ZenonT(60) DEF FramesOK, ContinuationsRunLoadedCode, Loaded
  <2>6. BopOK'
    BY <1>0, <1>1, <1>3, <2>1 DEF BopOK, WrongCodeIsCanceled
  <2> QED BY <1>3, <2>2, <2>3, <2>4, <2>5, <2>6, ZenonT(60) DEF FInv
<1>5. CASE ~(Cardinality(Loaded) < MaxCache)
  <2>1. PICK evicted \in Evictable :
            LET hit == {code[c].iseq : c \in evicted} IN
            /\ active' = active \ evicted
            /\ obsolete' = {c \in obsolete : code[c].iseq \in Used}
            /\ code' = [c \in Codes |-> IF c \in active' \cup obsolete' THEN code[c]
                                        ELSE Blank]
            /\ jit_code' = [i \in Iseqs |-> IF i \in hit THEN "NOT_READY"
                                            ELSE jit_code[i]]
            /\ queued' = queued \cup {adding} \cup (IF "aot" \in events THEN hit ELSE {})
    BY <1>5, ZenonT(60) DEF mjit_add_iseq_to_process
  <2> DEFINE hit == {code[c].iseq : c \in evicted}
  <2>2. evicted \subseteq active /\ \A c \in evicted : code[c].iseq \notin Used
    BY ZenonT(60) DEF Evictable
  <2>3. hit \subseteq Iseqs
    BY <1>0, <2>2, ZenonT(60) DEF CodesOK, Loaded
  <2>4. /\ \A i \in hit : jit_code'[i] = "NOT_READY"
        /\ \A i \in Iseqs \ hit : jit_code'[i] = jit_code[i]
    BY <2>1, <2>3, ZenonT(60)
  <2>5. \A c \in active' : code[c].iseq \in Iseqs \ hit
    <3> SUFFICES ASSUME NEW c \in active \ evicted
                 PROVE  code[c].iseq \in Iseqs \ hit
      BY <2>1, ZenonT(60)
    <3>1. code[c].iseq \in Iseqs /\ jit_code[code[c].iseq] = c
      BY <1>0, ZenonT(60) DEF CodesOK, Loaded
    <3>2. ASSUME NEW e \in evicted, code[c].iseq = code[e].iseq
          PROVE  FALSE
      <4>1. jit_code[code[e].iseq] = e
        BY <1>0, <2>2, ZenonT(60) DEF CodesOK
      <4> QED BY <3>1, <3>2, <4>1, ZenonT(60)
    <3> QED BY <3>1, <3>2, ZenonT(60)
  <2>6. /\ active' \subseteq active /\ obsolete' \subseteq obsolete
        /\ Loaded' = active' \cup obsolete' /\ Loaded' \subseteq Loaded
    BY <2>1, ZenonT(60) DEF Loaded
  <2>7. \A c \in Loaded' : c \in Codes /\ code'[c] = code[c]
    BY <1>2, <2>1, <2>6, ZenonT(60)
  <2>8. queued' \subseteq queued \cup {adding} \cup hit
    BY <2>1, ZenonT(60)
  <2>9. TypeOK'
    <3>1. code' \in [Codes -> Generated]
      BY <1>2, <2>1, BlankIsGenerated, ZenonT(60)
    <3>2. jit_code' \in [Iseqs -> Codes \cup {"NOT_ADDED", "NOT_READY"}]
      BY <1>2, <2>1, ZenonT(60)
    <3> HIDE DEF hit
    <3> QED BY <1>0, <1>1, <1>2, <2>3, <2>6, <2>8, <3>1, <3>2, ZenonT(60) DEF TypeOK
  <2>10. \A i \in Iseqs : IsCode(i)' =>
             IsCode(i) /\ jit_code'[i] = jit_code[i] /\ jit_code[i] \in active'
    <3> SUFFICES ASSUME NEW i \in Iseqs, IsCode(i)'
                 PROVE  IsCode(i) /\ jit_code'[i] = jit_code[i] /\ jit_code[i] \in active'
      OBVIOUS
    <3>1. i \notin hit /\ jit_code'[i] = jit_code[i]
      BY <1>2, <2>4, ZenonT(60) DEF IsCode
    <3>2. jit_code[i] \in active /\ code[jit_code[i]].iseq = i
      BY <1>0, <3>1, ZenonT(60) DEF CodesOK, IsCode
    <3> QED BY <2>1, <3>1, <3>2, ZenonT(60) DEF IsCode
  <2> HIDE DEF hit
  <2>11. CodesOK'
    <3>1. \A i \in Iseqs : IsCode(i)' => jit_code'[i] \in active' /\ code'[jit_code'[i]].iseq = i
      BY <1>0, <2>6, <2>7, <2>10 DEF CodesOK
    <3>2. \A c \in active' : jit_code'[code'[c].iseq] = c
      BY <1>0, <2>4, <2>5, <2>6, <2>7, ZenonT(60) DEF CodesOK
    <3>3. \A c \in Loaded' : code'[c].iseq \in Iseqs
      BY <1>0, <2>6, <2>7, ZenonT(60) DEF CodesOK
    <3>4. \A i \in queued' : jit_code'[i] = "NOT_READY"
      BY <1>0, <1>2, <2>4, <2>8, ZenonT(60) DEF CodesOK
    <3> QED BY <1>1, <3>1, <3>2, <3>3, <3>4, ZenonT(60) DEF CodesOK
  <2>12. WholeOK'
    BY <1>0, <1>1, <2>6, <2>7, <2>10, ZenonT(60) DEF WholeOK, CanMutate
  <2>13. \A f \in AllFrames : f.iseq \in Used
    BY <1>0, VisitedFrames, ZenonT(60) DEF Used
  <2>14. FramesOK'
    <3> SUFFICES ASSUME "callcc" \notin events, NEW f \in AllFrames, f.code # None
                 PROVE  f.code \in Loaded' /\ code'[f.code].iseq = f.iseq
      BY <1>0, <1>1, <1>3, ZenonT(60) DEF FramesOK, ContinuationsRunLoadedCode
    <3>1. f.code \in Loaded /\ code[f.code].iseq = f.iseq /\ f.iseq \in Used
      BY <1>0, <2>13, ZenonT(60) DEF FramesOK, ContinuationsRunLoadedCode
    <3>2. f.code \in Loaded'
      BY <2>1, <2>2, <2>6, <3>1, ZenonT(60) DEF Loaded
    <3> QED BY <2>7, <3>1, <3>2, ZenonT(60)
  <2>15. BopOK'
    <3> SUFFICES ASSUME events \cap {"insn", "whole", "callcc"} = {}
                 PROVE  /\ ~bop_redefined' => obsolete' = {} /\ canceled' = {}
                        /\ bop_redefined' => \A d \in active' : ~code'[d].bop
                        /\ WrongCodeIsCanceled'
      BY <1>1 DEF BopOK
    <3>1. ContinuationsRunLoadedCode'
      BY <1>1, <2>14, ZenonT(60) DEF FramesOK
    <3>2. WrongCodeIsCanceled'
      BY <1>0, <1>1, <1>3, <2>7, <3>1, ZenonT(60) DEF BopOK, WrongCodeIsCanceled, ContinuationsRunLoadedCode
    <3> QED BY <1>0, <1>1, <2>6, <2>7, <3>2, ZenonT(60) DEF BopOK
  <2> QED BY <1>3, <2>9, <2>11, <2>12, <2>14, <2>15, ZenonT(60) DEF FInv
<1> QED BY <1>4, <1>5

\* The first cancellation finds all frames that execute active code.
LEMMA CancelKeeps ==
    ASSUME FInv, mjit_cancel_all, UNCHANGED events
    PROVE  FInv'
<1>0. /\ TypeOK /\ CodesOK /\ WholeOK /\ StacksVisited /\ FramesOK /\ BopOK
  BY DEF FInv
<1> DEFINE broken == {c \in active : code[c].bop}
           hit == {code[c].iseq : c \in broken}
<1>1. /\ adding = None /\ bop_redefined' = TRUE /\ CancelFrames
      /\ active' = active \ broken /\ obsolete' = obsolete \cup broken
      /\ jit_code' = [i \in Iseqs |-> IF i \in hit THEN "NOT_READY" ELSE jit_code[i]]
      /\ queued' = queued \cup hit
      /\ UNCHANGED <<stack, th, captured, conts, sth, code, ui, adding, events>>
  BY DEF mjit_cancel_all, Running, threadv, contv
<1>2. /\ active \subseteq Codes /\ obsolete \subseteq Codes /\ queued \subseteq Iseqs
      /\ jit_code \in [Iseqs -> Codes \cup {"NOT_ADDED", "NOT_READY"}]
      /\ "NOT_READY" \notin Codes
  <2>1. "NOT_READY" \notin Codes
    BY FramesAssumption
  <2> QED BY <1>0, <2>1 DEF TypeOK
<1>3. hit \subseteq Iseqs /\ Loaded' = Loaded
  <2>1. \A c \in active : code[c].iseq \in Iseqs
    BY <1>0, ZenonT(60) DEF CodesOK, Loaded
  <2>2. Loaded' = Loaded
    BY <1>1, ZenonT(60) DEF Loaded
  <2> QED BY <2>1, <2>2
<1>4. /\ \A i \in hit : jit_code'[i] = "NOT_READY"
      /\ \A i \in Iseqs \ hit : jit_code'[i] = jit_code[i]
  BY <1>1, <1>3, ZenonT(60)
<1>5. \A c \in active' : code[c].iseq \in Iseqs \ hit
  <2> SUFFICES ASSUME NEW c \in active \ broken, NEW e \in broken, code[c].iseq = code[e].iseq
               PROVE  FALSE
    BY <1>0, <1>1, ZenonT(60) DEF CodesOK, Loaded
  <2> QED BY <1>0 DEF CodesOK
<1>6. AllFrames' = AllFrames /\ StacksVisited'
  BY <1>0, <1>1, ZenonT(60) DEF AllFrames, StacksVisited, Visited
<1>7. canceled' = canceled \cup {f.env : f \in {g \in AllFrames : IsCode(g.iseq)}}
  <2>1. UNION {Frames(stack[c]) : c \in Visited} = AllFrames
    BY <1>0, VisitedFrames, ZenonT(60)
  <2>2. CancelFrames
    BY <1>1
  <2> QED BY <2>1, <2>2 DEF CancelFrames
<1>8. TypeOK'
  <2>1. canceled' \subseteq Envs
    <3>1. AllFrames \subseteq Frame
      BY <1>0, FramesAreFrames, ZenonT(60) DEF TypeOK
    <3> QED BY <1>0, <1>7, <3>1, ZenonT(60) DEF TypeOK, Frame
  <2>2. jit_code' \in [Iseqs -> Codes \cup {"NOT_ADDED", "NOT_READY"}]
    BY <1>1, <1>2, ZenonT(60)
  <2>3. active' \subseteq Codes /\ obsolete' \subseteq Codes /\ queued' \subseteq Iseqs
    BY <1>1, <1>2, <1>3, ZenonT(60)
  <2> QED BY <1>0, <1>1, <2>1, <2>2, <2>3, ZenonT(60) DEF TypeOK
<1>9. \A i \in Iseqs : IsCode(i)' =>
          IsCode(i) /\ jit_code'[i] = jit_code[i] /\ jit_code[i] \in active'
  <2> SUFFICES ASSUME NEW i \in Iseqs, IsCode(i)'
               PROVE  IsCode(i) /\ jit_code'[i] = jit_code[i] /\ jit_code[i] \in active'
    OBVIOUS
  <2>1. i \notin hit /\ jit_code'[i] = jit_code[i]
    BY <1>2, <1>4, ZenonT(60) DEF IsCode
  <2>2. jit_code[i] \in active /\ code[jit_code[i]].iseq = i
    BY <1>0, <2>1, ZenonT(60) DEF CodesOK, IsCode
  <2> QED BY <1>1, <2>1, <2>2 DEF IsCode
<1>10. \A d \in active' : d \in active /\ ~code'[d].bop
  BY <1>1, ZenonT(60)
<1>11. queued' = queued \cup hit
  BY <1>1, ZenonT(60)
<1> HIDE DEF hit
<1>12. CodesOK'
  <2>1. \A i \in Iseqs : IsCode(i)' => jit_code'[i] \in active' /\ code'[jit_code'[i]].iseq = i
    BY <1>0, <1>1, <1>9, ZenonT(60) DEF CodesOK
  <2>2. \A c \in active' : jit_code'[code'[c].iseq] = c
    BY <1>0, <1>1, <1>4, <1>5, <1>10, ZenonT(60) DEF CodesOK
  <2>3. \A c \in Loaded' : code'[c].iseq \in Iseqs
    BY <1>0, <1>1, <1>3, ZenonT(60) DEF CodesOK
  <2>4. \A i \in queued' : jit_code'[i] = "NOT_READY"
    BY <1>0, <1>2, <1>4, <1>11, ZenonT(60) DEF CodesOK
  <2> QED BY <1>1, <2>1, <2>2, <2>3, <2>4, ZenonT(60) DEF CodesOK
<1>13. WholeOK'
  BY <1>0, <1>1, <1>9, ZenonT(60) DEF WholeOK, CanMutate
<1>14. FramesOK'
  BY <1>0, <1>1, <1>3, <1>6 DEF FramesOK, ContinuationsRunLoadedCode
<1>15. BopOK'
  <2> SUFFICES ASSUME events \cap {"insn", "whole", "callcc"} = {}, NEW f \in AllFrames,
                      f.code # None, code[f.code].bop
               PROVE  f.env \in canceled'
    BY <1>1, <1>6, <1>10, ZenonT(60) DEF BopOK, WrongCodeIsCanceled
  <2>1. CASE bop_redefined
    BY <1>0, <1>7, <2>1, ZenonT(60) DEF BopOK, WrongCodeIsCanceled
  <2>2. CASE ~bop_redefined
    <3>1. f.code \in active /\ code[f.code].iseq = f.iseq
      BY <1>0, <2>2, ZenonT(60) DEF BopOK, FramesOK, ContinuationsRunLoadedCode, Loaded
    <3>2. IsCode(f.iseq)
      BY <1>0, <1>2, <3>1 DEF CodesOK, IsCode
    <3> QED BY <1>7, <3>2, ZenonT(60)
  <2> QED BY <2>1, <2>2, ZenonT(60)
<1> QED BY <1>6, <1>8, <1>12, <1>13, <1>14, <1>15 DEF FInv

\* Registering, switching and freeing fibers keeps the stacks in use visited.
LEMMA FiberStep ==
    ASSUME FInv, UNCHANGED <<stack, captured, canceled, codev, ui, bop_redefined, adding, events>>,
           th' \in Fibers, conts' \subseteq Fibers, sth' \in [Fibers -> BOOLEAN], StacksVisited'
    PROVE  FInv'
<1>0. /\ TypeOK /\ CodesOK /\ WholeOK /\ FramesOK /\ BopOK
  BY DEF FInv
<1>1. UNCHANGED <<stack, captured, canceled, code, active, obsolete, jit_code, queued, ui,
                  bop_redefined, adding, events>>
  BY DEF codev
<1>2. TypeOK'
  BY <1>0, <1>1, ZenonT(60) DEF TypeOK
<1>3. CodesOK' /\ WholeOK'
  BY <1>0, <1>1, SameCode, ZenonT(60)
<1>4. FramesOK' /\ BopOK'
  BY <1>0, <1>1
     DEF FramesOK, BopOK, ContinuationsRunLoadedCode, WrongCodeIsCanceled, AllFrames, Loaded
<1> QED BY <1>2, <1>3, <1>4 DEF FInv

LEMMA FibersKeep ==
    ASSUME FInv, NEW c \in Fibers, mjit_cont_new(c) \/ fiber_switch(c) \/ mjit_cont_free(c),
           UNCHANGED events
    PROVE  FInv'
<1>0. StacksVisited
  BY DEF FInv
<1>4. th \in Fibers /\ conts \subseteq Fibers /\ sth \in [Fibers -> BOOLEAN]
  BY DEF FInv, TypeOK
<1>1. CASE mjit_cont_new(c)
  <2>1. /\ c \notin conts /\ conts' = conts \cup {c} /\ sth' = [sth EXCEPT ![c] = TRUE]
        /\ UNCHANGED <<stack, th, captured, canceled, codev, ui, bop_redefined, adding>>
    BY <1>1, ZenonT(60) DEF mjit_cont_new, threadv
  <2>2. StacksVisited'
    BY <1>0, <1>4, <2>1 DEF StacksVisited, Visited
  <2> QED BY <1>0, <1>4, <2>1, <2>2, FiberStep, ZenonT(60)
<1>2. CASE fiber_switch(c)
  <2>1. /\ {th, c} \subseteq conts /\ c # th /\ th' = c
        /\ sth' = [sth EXCEPT ![th] = TRUE, ![c] = FALSE]
        /\ UNCHANGED <<stack, captured, conts, canceled, codev, ui, bop_redefined, adding>>
    BY <1>2 DEF fiber_switch, SavedStacks
  <2>2. sth'[th] /\ \A d \in Fibers \ {th, c} : sth'[d] = sth[d]
    BY <1>4, <2>1, ZenonT(60)
  <2>3. StacksVisited'
    BY <1>0, <1>4, <2>1, <2>2 DEF StacksVisited, Visited
  <2>4. sth' \in [Fibers -> BOOLEAN]
    BY <1>4, <2>1, ZenonT(60)
  <2> QED BY <1>0, <1>4, <2>1, <2>3, <2>4, FiberStep, ZenonT(60)
<1>3. CASE mjit_cont_free(c)
  <2>1. /\ c # th /\ stack[c] = <<>> /\ conts' = conts \ {c} /\ sth' = [sth EXCEPT ![c] = FALSE]
        /\ UNCHANGED <<stack, th, captured, canceled, codev, ui, bop_redefined, adding>>
    BY <1>3, ZenonT(60) DEF mjit_cont_free, threadv
  <2>2. \A d \in Fibers \ {c} : sth'[d] = sth[d]
    BY <1>4, <2>1, ZenonT(60)
  <2>3. StacksVisited'
    BY <1>0, <1>4, <2>1, <2>2 DEF StacksVisited, Visited
  <2> QED BY <1>0, <1>4, <2>1, <2>3, FiberStep, ZenonT(60)
<1> QED BY <1>1, <1>2, <1>3

\* Continuations: nothing is claimed of the frames once one is captured.
LEMMA CaptureKeeps ==
    ASSUME FInv, cont_capture, UNCHANGED events
    PROVE  FInv'
<1>0. TypeOK /\ CodesOK /\ WholeOK /\ StacksVisited
  BY DEF FInv
<1>1. /\ "callcc" \in events /\ stack[th] # <<>>
      /\ captured' = [fiber |-> th, frames |-> stack[th]]
      /\ UNCHANGED <<stack, th, conts, sth, canceled, code, active, obsolete, jit_code, queued,
                     ui, bop_redefined, adding, events>>
  BY ZenonT(30) DEF cont_capture, contv, codev
<1>2. TypeOK'
  <2>1. /\ stack[th] \in Seq(Frame) /\ th \in Fibers /\ Len(stack[th]) <= MaxDepth
        /\ MaxDepth \in Nat
    BY <1>0, FramesAssumption DEF TypeOK
  <2>2. stack[th] # <<>>
    BY <1>1, ZenonT(60)
  <2>3. Len(stack[th]) \in 1 .. MaxDepth
    BY <2>1, <2>2
  <2> QED BY <1>0, <1>1, <2>1, <2>3, ZenonT(60) DEF TypeOK
<1>3. CodesOK' /\ WholeOK'
  BY <1>0, <1>1, SameCode, ZenonT(30)
<1>4. StacksVisited'
  BY <1>0, <1>1, ZenonT(60) DEF StacksVisited, Visited
<1>5. FramesOK' /\ BopOK'
  BY <1>1 DEF FramesOK, BopOK
<1> QED BY <1>2, <1>3, <1>4, <1>5 DEF FInv

LEMMA RestoreKeeps ==
    ASSUME FInv, cont_restore_thread, UNCHANGED events
    PROVE  FInv'
<1>0. TypeOK /\ CodesOK /\ WholeOK /\ StacksVisited /\ FramesOK
  BY DEF FInv
<1>1. /\ captured # None /\ stack' = [stack EXCEPT ![th] = captured.frames]
      /\ canceled' \subseteq canceled
      /\ UNCHANGED <<th, captured, conts, sth, code, active, obsolete, jit_code, queued,
                     ui, bop_redefined, adding, events>>
  BY DEF cont_restore_thread, contv, codev, Forget
<1>2. "callcc" \in events
  BY <1>0, <1>1, ZenonT(60) DEF FramesOK
<1>3. captured.frames \in Seq(Frame) /\ Len(captured.frames) <= MaxDepth
  BY <1>0, <1>1, FramesAssumption DEF TypeOK
<1>4. /\ stack' \in [Fibers -> Seq(Frame)]
      /\ \A d \in Fibers : Len(stack'[d]) <= MaxDepth
      /\ \A d \in Fibers \ {th} : stack'[d] = stack[d]
  <2> DEFINE s == captured.frames
  <2>1. s \in Seq(Frame) /\ Len(s) <= MaxDepth /\ stack' = [stack EXCEPT ![th] = s]
    BY <1>1, <1>3, ZenonT(60)
  <2> HIDE DEF s
  <2> QED BY <1>0, <2>1, NewStack, ZenonT(60)
<1>5. TypeOK'
  BY <1>0, <1>1, <1>4, ZenonT(60) DEF TypeOK
<1>6. CodesOK' /\ WholeOK'
  BY <1>0, <1>1, SameCode, ZenonT(60)
<1>7. StacksVisited'
  BY <1>0, <1>1, <1>4 DEF StacksVisited, Visited
<1>8. FramesOK' /\ BopOK'
  BY <1>1, <1>2 DEF FramesOK, BopOK
<1> QED BY <1>5, <1>6, <1>7, <1>8 DEF FInv

LEMMA StutterKeeps ==
    ASSUME FInv, UNCHANGED vars
    PROVE  FInv'
<1>1. UNCHANGED <<stack, th, captured, contv, canceled, codev, ui, bop_redefined, adding, events>>
  BY ZenonT(60) DEF vars, threadv
<1>2. th' \in Fibers /\ conts' \subseteq Fibers /\ sth' \in [Fibers -> BOOLEAN] /\ StacksVisited'
  BY <1>1 DEF FInv, TypeOK, StacksVisited, Visited, contv
<1> QED BY <1>1, <1>2, FiberStep

LEMMA NextKeeps ==
    ASSUME FInv, [Next]_vars
    PROVE  FInv'
<1>1. CASE Next
  <2>1. UNCHANGED events
    BY <1>1 DEF Next
  <2>2. CASE \E i \in Iseqs : \/ Load(i) \/ CallInterpreted(i) \/ CallCode(i)
                              \/ \E s \in Whole : CallFails(i, s)
    BY <2>1, <2>2, LoadKeeps, CallInterpretedKeeps, CallCodeKeeps, CallFailsKeeps
  <2>3. CASE mjit_add_iseq_to_process \/ mjit_cancel_all
    BY <2>1, <2>3, AddKeeps, CancelKeeps
  <2>4. CASE (\E p \in Insns : SpecFail(p)) \/ Canceled
    BY <2>1, <2>4, SpecFailKeeps, CanceledKeeps
  <2>5. CASE Return \/ \E n \in 1 .. MaxDepth : Raise(n)
    BY <2>1, <2>5, ReturnKeeps, RaiseKeeps
  <2>6. CASE \E c \in Fibers : mjit_cont_new(c) \/ fiber_switch(c) \/ mjit_cont_free(c)
    BY <2>1, <2>6, FibersKeep
  <2>7. CASE cont_capture \/ cont_restore_thread
    BY <2>1, <2>7, CaptureKeeps, RestoreKeeps
  <2> QED BY <1>1, <2>2, <2>3, <2>4, <2>5, <2>6, <2>7, ZenonT(60) DEF Next
<1>2. CASE UNCHANGED vars
  BY <1>2, StutterKeeps
<1> QED BY <1>1, <1>2, ZenonT(60)

-----------------------------------------------------------------------------
(* Theorems. *)

\* The unit lists, unit iseqs, frames and fibers are consistent with one
\* another after every step of mjit.c, vm.c and cont.c that MjitFrames has.
THEOREM FramesInvariance == Spec => []FInv
BY InitHolds, NextKeeps, PTL DEF Spec

\* unload_units never unloads code that a frame executes, whatever the size of
\* the cache and however fibers switch, as long as callcc is not used.
THEOREM CodeInUseStays == Spec => []FramesRunLoadedCode
<1>1. FInv => FramesRunLoadedCode
  BY DEF FInv, FramesOK, FramesRunLoadedCode, ContinuationsRunLoadedCode
<1> QED BY <1>1, FramesInvariance, PTL

\* Only mjit_cancel_all, in programs that redefine a basic operation, says that
\* one is redefined.
RedefinedOK == events \in Programs /\ (bop_redefined => "bop" \in events)

LEMMA RedefinedInvariance == Spec => []RedefinedOK
<1>1. Init => RedefinedOK
  BY DEF Init, RedefinedOK
<1>2. RedefinedOK /\ [Next]_vars => RedefinedOK'
  <2> SUFFICES ASSUME RedefinedOK, [Next]_vars PROVE RedefinedOK'
    OBVIOUS
  <2>1. events' = events
    BY DEF Next, vars
  <2>2. bop_redefined' = bop_redefined \/ "bop" \in events
    BY ZenonT(60) DEF Next, vars, Load, CallInterpreted, CallCode, CallFails, mjit_add_iseq_to_process,
           SpecFail, StopSpec, Canceled, Return, Raise, mjit_cancel_all, mjit_cont_new,
           fiber_switch, mjit_cont_free, cont_capture, cont_restore_thread
  <2> QED BY <2>1, <2>2 DEF RedefinedOK
<1> QED BY <1>1, <1>2, PTL DEF Spec

\* mjit_cancel_all: JIT code that trusts a redefined basic operation finds the
\* flag of its frame, in programs where no other speculation fails and callcc
\* is not used (a failed speculation makes code obsolete, whose frames
\* cancel_thread_frames passes over).
THEOREM BrokenCodeIsLeft ==
    ASSUME \A P \in Programs : "bop" \in P => P \cap {"insn", "whole", "callcc"} = {}
    PROVE  Spec => []WrongCodeIsCanceled
<1>1. FInv /\ RedefinedOK => WrongCodeIsCanceled
  BY DEF FInv, BopOK, RedefinedOK, WrongCodeIsCanceled
<1> QED BY <1>1, FramesInvariance, RedefinedInvariance, PTL

----------------------------------------------------------------------------
(* The redos end: each uses up a mutation or a speculation of the whole function. *)

LEMMA WholeIsFinite == \A W \in SUBSET Whole : IsFiniteSet(W) /\ Cardinality(W) \in Nat
<1>1. IsFiniteSet({"ep"} \cup {"ivar"})
  BY FS_Singleton, FS_AddElement, ZenonT(60)
<1>2. IsFiniteSet(Whole)
  <2>1. Whole = {"ep"} \cup {"ivar"}
    BY DEF Whole
  <2> QED BY <1>1, <2>1
<1> QED BY <1>2, FS_Subset, FS_CardinalityType

\* The step of RedoConverges.
Converges(i) == adding' = i /\ IsCode(i) => 0 <= Measure(i)' /\ Measure(i)' < Measure(i)

LEMMA MeasureDecreases ==
    ASSUME NEW m \in Nat, NEW n \in 0 .. m, NEW k \in Nat, n < m
    PROVE  /\ 0 <= (m - (n + 1)) + k /\ (m - (n + 1)) + k < (m - n) + k
           /\ k - 1 \in Nat => 0 <= (m - n) + (k - 1) /\ (m - n) + (k - 1) < (m - n) + k
OBVIOUS

LEMMA RedoDecreases ==
    ASSUME FInv, adding = None, NEW i \in Iseqs, NEW j \in Iseqs, NEW r \in UnitIseq,
           NEW spec_fail_p \in BOOLEAN, Redo(j, r, spec_fail_p),
           r.jit_mutations_num = ui[j].jit_mutations_num,
           IsCode(j) /\ CanMutate(j) =>
               IF spec_fail_p THEN r.whole = ui[j].whole
               ELSE \E w \in ui[j].whole : r.whole = ui[j].whole \ {w}
    PROVE  Converges(i)
<1> SUFFICES ASSUME adding' = i, IsCode(i)
             PROVE  0 <= Measure(i)' /\ Measure(i)' < Measure(i)
  BY ZenonT(60) DEF Converges
<1>1. i # None
  BY FramesAssumption
<1>2. i = j /\ CanMutate(i)
  BY <1>1, ZenonT(60) DEF Redo
<1>3. ui \in [Iseqs -> UnitIseq] /\ ui[i] \in UnitIseq
  BY ZenonT(60) DEF FInv, TypeOK
<1> DEFINE q == [r EXCEPT !.jit_mutations_num = Counted(@, spec_fail_p)]
<1>4. ui'[i] = q
  BY <1>2, <1>3 DEF Redo
<1>5. /\ q.jit_mutations_num = Counted(ui[i].jit_mutations_num, spec_fail_p)
      /\ q.whole = r.whole
  BY <1>2 DEF UnitIseq
<1> HIDE DEF q
<1>6. /\ ui[i].jit_mutations_num \in 0 .. MaxMutations /\ MaxMutations \in Nat
      /\ ui[i].jit_mutations_num < MaxMutations
      /\ Cardinality(ui[i].whole) \in Nat /\ IsFiniteSet(ui[i].whole)
  <2>1. ui[i].whole \in SUBSET Whole /\ ui[i].jit_mutations_num \in 0 .. MaxMutations
    BY <1>3 DEF UnitIseq
  <2>2. IsFiniteSet(ui[i].whole) /\ Cardinality(ui[i].whole) \in Nat
    BY <2>1, WholeIsFinite, ZenonT(60)
  <2>3. ui[i].jit_mutations_num < MaxMutations /\ MaxMutations \in Nat
    BY <1>2, FramesAssumption, ZenonT(60) DEF CanMutate
  <2> QED BY <2>1, <2>2, <2>3, ZenonT(60)
<1>7. CASE spec_fail_p
  <2>1. q.whole = ui[i].whole /\ q.jit_mutations_num = ui[i].jit_mutations_num + 1
    BY <1>2, <1>5, <1>7 DEF Counted
  <2>2. Measure(i)' = (MaxMutations - (ui[i].jit_mutations_num + 1)) + Cardinality(ui[i].whole)
    BY <1>4, <2>1, ZenonT(60) DEF Measure
  <2> QED BY <1>6, <2>2, MeasureDecreases, ZenonT(60) DEF Measure
<1>8. CASE ~spec_fail_p
  <2>1. PICK w \in ui[i].whole : r.whole = ui[i].whole \ {w}
    BY <1>2, <1>8
  <2>2. Cardinality(ui[i].whole \ {w}) = Cardinality(ui[i].whole) - 1
    BY <1>6, <2>1, FS_RemoveElement, ZenonT(60)
  <2>3. IsFiniteSet(ui[i].whole \ {w})
    BY <1>6, FS_RemoveElement, ZenonT(60)
  <2>4. Cardinality(ui[i].whole \ {w}) \in Nat
    BY <2>3, FS_CardinalityType, ZenonT(60)
  <2>5. q.jit_mutations_num = ui[i].jit_mutations_num
    BY <1>5, <1>8 DEF Counted
  <2>6. Measure(i)' = (MaxMutations - ui[i].jit_mutations_num) + (Cardinality(ui[i].whole) - 1)
    BY <1>4, <1>5, <2>1, <2>2, <2>5, ZenonT(60) DEF Measure
  <2>7. Cardinality(ui[i].whole) - 1 \in Nat
    BY <2>2, <2>4, ZenonT(60)
  <2> QED BY <1>6, <2>6, <2>7, MeasureDecreases, ZenonT(60) DEF Measure
<1> QED BY <1>7, <1>8, ZenonT(60)

\* No redo in a step that leaves adding alone: that iseq has no code.
LEMMA AddingHasNoCode ==
    ASSUME FInv, NEW i \in Iseqs, adding' = adding
    PROVE  Converges(i)
<1>1. i # None /\ "NOT_READY" \notin Codes
  BY FramesAssumption
<1> QED BY <1>1 DEF Converges, FInv, CodesOK, IsCode

LEMMA StopSpecConverges ==
    ASSUME FInv, NEW i \in Iseqs, NEW p \in Insns, StopSpec(p), adding = None,
           stack[th] # <<>>, Top.code # None
    PROVE  Converges(i)
<1> DEFINE j == Top.iseq
           k == code[Top.code].mutation_num
           r == FailedInsnStored(ui[j], k, p)
<1>1. Redo(j, r, TRUE)
  BY ZenonT(60) DEF StopSpec
<1>2. Top \in Frame
  <2>1. stack[th] \in Seq(Frame) /\ Len(stack[th]) \in 1 .. Len(stack[th])
    BY DEF FInv, TypeOK
  <2> QED BY <2>1 DEF Top
<1>3. j \in Iseqs /\ k \in 0 .. MaxMutations
  <2>1. Top.iseq \in Iseqs /\ Top.code \in Codes
    BY <1>2, ZenonT(60) DEF Frame
  <2>2. code[Top.code] \in Generated
    BY <2>1 DEF FInv, TypeOK
  <2> QED BY <2>1, <2>2 DEF Generated
<1> HIDE DEF j, k
<1>4. /\ r \in UnitIseq /\ r.jit_mutations_num = ui[j].jit_mutations_num
      /\ r.whole = ui[j].whole
  <2>1. ui[j] \in UnitIseq
    BY <1>3 DEF FInv, TypeOK
  <2> QED BY <1>3, <2>1, ZenonT(60) DEF UnitIseq, FailedInsnStored
<1> HIDE DEF r
<1> QED BY <1>1, <1>3, <1>4, RedoDecreases, ZenonT(60)

LEMMA CallFailsConverges ==
    ASSUME FInv, NEW i \in Iseqs, NEW j \in Iseqs, NEW w \in Whole, CallFails(j, w)
    PROVE  Converges(i)
<1> DEFINE r == [ui[j] EXCEPT !.whole = @ \ {w}]
<1>1. adding = None /\ Redo(j, r, FALSE) /\ w \in code[jit_code[j]].whole
  BY ZenonT(60) DEF CallFails, Running
<1>2. /\ r \in UnitIseq /\ r.jit_mutations_num = ui[j].jit_mutations_num
      /\ r.whole = ui[j].whole \ {w}
  <2>1. ui[j] \in UnitIseq
    BY ZenonT(60) DEF FInv, TypeOK
  <2> QED BY <2>1, ZenonT(60) DEF UnitIseq
<1> HIDE DEF r
<1>3. IsCode(j) /\ CanMutate(j) => w \in ui[j].whole
  BY <1>1 DEF FInv, WholeOK
<1> QED BY <1>1, <1>2, <1>3, RedoDecreases, ZenonT(60)

\* mjit_redo_iseq: code that is replaced is replaced by code that speculates
\* less, so an iseq is redone at most max_mutations times plus once for each
\* speculation of the whole function.
THEOREM RedosEnd == Spec => RedoConverges
<1>1. FInv /\ [Next]_vars =>
      [\A i \in Iseqs : adding' = i /\ IsCode(i) => 0 <= Measure(i)' /\ Measure(i)' < Measure(i)]_vars
  <2> SUFFICES ASSUME FInv, Next, NEW i \in Iseqs PROVE Converges(i)
    BY DEF Converges
  <2>1. CASE adding' = adding
    BY <2>1, AddingHasNoCode, ZenonT(60)
  <2>2. CASE mjit_add_iseq_to_process
    BY <2>2, FramesAssumption, ZenonT(60) DEF mjit_add_iseq_to_process, Converges
  <2>3. CASE \E j \in Iseqs : CallInterpreted(j)
    BY <2>1, <2>3 DEF CallInterpreted, Converges
  <2>4. CASE \E j \in Iseqs : \E w \in Whole : CallFails(j, w)
    BY <2>4, CallFailsConverges, ZenonT(60)
  <2>5. CASE \E p \in Insns : SpecFail(p)
    BY <2>5, StopSpecConverges, ZenonT(60) DEF SpecFail, Running
  <2>6. CASE Canceled
    BY <2>1, <2>6, StopSpecConverges, ZenonT(60) DEF Canceled
  <2>7. \/ adding' = adding \/ mjit_add_iseq_to_process \/ \E j \in Iseqs : CallInterpreted(j)
        \/ \E j \in Iseqs : \E w \in Whole : CallFails(j, w)
        \/ \E p \in Insns : SpecFail(p)
        \/ Canceled
    BY DEF Next, Load, CallCode, Return, Raise, mjit_cancel_all, mjit_cont_new, fiber_switch,
           mjit_cont_free, cont_capture, cont_restore_thread
  <2> QED BY <2>1, <2>2, <2>3, <2>4, <2>5, <2>6, <2>7, ZenonT(60)
<1> QED BY <1>1, FramesInvariance, PTL DEF Spec, RedoConverges

============================================================================
