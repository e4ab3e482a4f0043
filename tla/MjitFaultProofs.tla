--------------------------- MODULE MjitFaultProofs --------------------------
(***************************************************************************)
(* The theorems about the units of the MJIT engine, and what they rest on  *)
(* besides MjitUnitProofs: the steps of the client that move several units *)
(* at once (mjit_cancel_all, unload_units), for any number of workers,     *)
(* iseqs and units.                                                        *)
(*                                                                         *)
(* Then what a step of one worker or of the client needs in order not to   *)
(* fail an assertion: where the precompiled header is (PchInv), what each  *)
(* worker's unit went through (StageInv) and what the client relies on     *)
(* between its critical sections (CalmInv). The theorem is in              *)
(* MjitEngineProofs.                                                       *)
(***************************************************************************)
EXTENDS MjitUnitProofs

USE ZenonT(60)

\* mjit_cancel_all: the units B become obsolete, new[u] takes the place of u.
Replaces(B, new) ==
    /\ cpc = "cancel" /\ cpc' = "run" /\ UNCHANGED <<curr_unit, Hands, mjit_init_p, ciseq>>
    /\ B \subseteq active_units
    /\ \A u \in B : new[u] \in free_unit_list \cup heap
    /\ \A u, v \in B : new[u] = new[v] => u = v
    /\ active_units' = active_units \ B /\ obsolete_units' = obsolete_units \cup B
    /\ unit_queue' = unit_queue \cup {new[u] : u \in B}
    /\ free_unit_list' = free_unit_list \ {new[u] : u \in B}
    /\ heap' = heap \ {new[u] : u \in B}
    /\ \A u \in B : /\ unit'[u].status = "FAILED" /\ unit'[u].handle = unit[u].handle
                    /\ unit'[u].ui = unit[u].ui
                    /\ unit'[new[u]].status = "IN_QUEUE" /\ unit'[new[u]].ui = unit[u].ui
    /\ \A v \in Units : v \notin B \cup {new[u] : u \in B} => unit'[v] = unit[v]
    /\ \A i \in Iseqs : ui'[i].iseq = ui[i].iseq
    /\ \A u \in B : ui'[unit[u].ui].unit = new[u] /\ jit_code'[unit[u].ui] = "NOT_READY_JIT"
    /\ \A i \in Iseqs : (\A u \in B : unit[u].ui # i) =>
          ui'[i].unit = ui[i].unit /\ jit_code'[i] = jit_code[i]

\* No two active units belong to the same iseq.
LEMMA ActiveOwners ==
    ASSUME UnitInv, Running
    PROVE  /\ \A u \in active_units : unit[u].ui \in Iseqs /\ ui[unit[u].ui].unit = u
           /\ \A u, v \in active_units : unit[u].ui = unit[v].ui => u = v
<1>1. OwnInv /\ active_units \subseteq Owned
    BY DEF UnitInv, Owned
<1>2. \A u \in active_units : unit[u].ui \in Iseqs /\ ui[unit[u].ui].unit = u
    BY <1>1 DEF OwnInv
<1> QED
    BY <1>2

LEMMA CancelMoves ==
    ASSUME UnitInv, mjit_cancel_all
    PROVE  (Moves \/ \E B, new : Replaces(B, new)) /\ HandsInv'
<1>1. Hands' = Hands /\ HandsInv'
    BY HandsSame DEF UnitInv, mjit_cancel_all
<1>2. cpc = "cancel" /\ cpc' = "run" /\ mjit_init_p' = mjit_init_p /\ ciseq' = ciseq /\ Running
    BY DEF mjit_cancel_all, state, Running
<1>3. CASE ~mjit_init_p
    <2>1. UNCHANGED <<lists, mem, unit, ui, jit_code>>
        BY <1>3 DEF mjit_cancel_all
    <2>2. SameUis /\ SameMarks({})
        BY <2>1 DEF SameUis, SameMarks
    <2> QED
        BY <1>1, <1>2, <1>3, <2>1, <2>2 DEF Moves, Adding
<1>4. CASE mjit_init_p
    <2> DEFINE of(new, v) == unit[CHOOSE u \in Broken : new[u] = v].ui
               hit(i) == \E u \in Broken : unit[u].ui = i
    <2>1. PICK new \in Replacements(Broken) :
              /\ active_units' = active_units \ Broken
              /\ obsolete_units' = obsolete_units \cup Broken
              /\ unit_queue' = unit_queue \cup Range(new)
              /\ free_unit_list' = free_unit_list \ Range(new)
              /\ heap' = heap \ Range(new)
              /\ unit' = [v \in Units |->
                     CASE v \in Broken -> [unit[v] EXCEPT !.status = "FAILED"]
                       [] v \in Range(new) ->
                            [NewUnit(of(new, v)) EXCEPT !.status = "IN_QUEUE"]
                       [] OTHER -> unit[v]]
              /\ ui' = [i \in Iseqs |->
                     IF hit(i) THEN [ui[i] EXCEPT !.unit =
                                        new[CHOOSE u \in Broken : unit[u].ui = i]]
                               ELSE ui[i]]
              /\ jit_code' = [i \in Iseqs |->
                                IF hit(i) THEN "NOT_READY_JIT" ELSE jit_code[i]]
        BY <1>4 DEF mjit_cancel_all
    <2>2. curr_unit' = curr_unit
        BY <1>4 DEF mjit_cancel_all
    <2>3. /\ Broken \subseteq active_units
          /\ \A u, v \in Broken : new[u] = new[v] => u = v
          /\ \A u \in Broken : new[u] \in free_unit_list \cup heap
          /\ Range(new) = {new[u] : u \in Broken}
        BY DEF Broken, Replacements, Injection, IsInjective, Range
    <2>4. /\ unit \in [Units -> UnitType] /\ ui \in [Iseqs -> UiType]
          /\ active_units \subseteq Units /\ free_unit_list \cup heap \subseteq Units
          /\ active_units \cap (free_unit_list \cup heap) = {}
        BY DEF UnitInv, PlaceInv, TypeOK, TypeUnits, TypeIseqs, TypeLists
    <2>5. ASSUME NEW u \in Broken
          PROVE  /\ unit'[u].status = "FAILED" /\ unit'[u].handle = unit[u].handle
                 /\ unit'[u].ui = unit[u].ui
        <3>1. u \in Units /\ u \notin Range(new)
            BY <2>3, <2>4, SMTT(30)
        <3>2. unit'[u] = [unit[u] EXCEPT !.status = "FAILED"]
            BY <2>1, <3>1
        <3> QED
            BY <2>4, <3>1, <3>2, SMTT(30) DEF UnitType
    <2>6. ASSUME NEW u \in Broken
          PROVE  unit'[new[u]].status = "IN_QUEUE" /\ unit'[new[u]].ui = unit[u].ui
        <3>1. new[u] \in Units /\ new[u] \in Range(new) /\ new[u] \notin Broken
            BY <2>3, <2>4
        <3>2. unit'[new[u]] = [NewUnit(of(new, new[u])) EXCEPT !.status = "IN_QUEUE"]
            BY <2>1, <3>1
        <3>3. (CHOOSE v \in Broken : new[v] = new[u]) = u
            BY <2>3
        <3>4. of(new, new[u]) = unit[u].ui
            BY <3>3
        <3> HIDE DEF of
        <3> QED
            BY <3>2, <3>4 DEF NewUnit
    <2>7. \A v \in Units : v \notin Broken \cup Range(new) => unit'[v] = unit[v]
        BY <2>1
    <2>8. ASSUME NEW u \in Broken
          PROVE  ui'[unit[u].ui].unit = new[u] /\ jit_code'[unit[u].ui] = "NOT_READY_JIT"
        <3>1. unit[u].ui \in Iseqs /\ (CHOOSE v \in Broken : unit[v].ui = unit[u].ui) = u
            BY <1>2, <2>3, ActiveOwners
        <3>2. ui'[unit[u].ui] = [ui[unit[u].ui] EXCEPT !.unit =
                                    new[CHOOSE v \in Broken : unit[v].ui = unit[u].ui]]
              /\ jit_code'[unit[u].ui] = "NOT_READY_JIT"
            BY <2>1, <3>1
        <3>3. \A r \in UiType : [r EXCEPT !.unit = new[u]].unit = new[u]
            BY DEF UiType
        <3>4. ui'[unit[u].ui] = [ui[unit[u].ui] EXCEPT !.unit = new[u]]
            BY <3>1, <3>2
        <3> QED
            BY <2>4, <3>1, <3>2, <3>3, <3>4
    <2>9. ASSUME NEW i \in Iseqs, \A u \in Broken : unit[u].ui # i
          PROVE  ui'[i] = ui[i] /\ jit_code'[i] = jit_code[i]
        BY <2>1, <2>9
    <2>10. ASSUME NEW i \in Iseqs PROVE ui'[i].iseq = ui[i].iseq
        <3>1. ui[i] \in UiType
            BY <2>4
        <3>2. CASE hit(i)
            <4>1. \E x : ui'[i] = [ui[i] EXCEPT !.unit = x]
                BY <2>1, <3>2
            <4> QED
                BY <3>1, <4>1 DEF UiType
        <3>3. CASE ~hit(i)
            BY <2>9, <3>3
        <3> QED
            BY <3>2, <3>3
    <2>11. /\ unit_queue' = unit_queue \cup {new[u] : u \in Broken}
           /\ free_unit_list' = free_unit_list \ {new[u] : u \in Broken}
           /\ heap' = heap \ {new[u] : u \in Broken}
           /\ active_units' = active_units \ Broken
           /\ obsolete_units' = obsolete_units \cup Broken
           /\ \A v \in Units : v \notin Broken \cup {new[u] : u \in Broken} => unit'[v] = unit[v]
        BY <2>1, <2>3, <2>7
    <2>12. UNCHANGED <<curr_unit, Hands, mjit_init_p, ciseq>>
        BY <1>1, <1>2, <2>2
    <2>13. Replaces(Broken, new)
        BY <1>2, <2>3, <2>5, <2>6, <2>8, <2>9, <2>10, <2>11, <2>12 DEF Replaces
    <2> QED
        BY <1>1, <2>13
<1> QED
    BY <1>3, <1>4

LEMMA ReplacesKeepsUnits ==
    ASSUME UnitInv, TypeOK', HandsInv', NEW B, NEW new, Replaces(B, new)
    PROVE  UnitInv'
<1> DEFINE R == {new[u] : u \in B}
<1>0. /\ cpc = "cancel" /\ cpc' = "run" /\ B \subseteq active_units
      /\ curr_unit' = curr_unit /\ Hands' = Hands /\ mjit_init_p' = mjit_init_p
      /\ active_units' = active_units \ B /\ obsolete_units' = obsolete_units \cup B
      /\ unit_queue' = unit_queue \cup R /\ free_unit_list' = free_unit_list \ R
      /\ heap' = heap \ R /\ R \subseteq free_unit_list \cup heap
      /\ Forming' = Forming
    BY SMTT(30) DEF Replaces, Forming
<1>1. /\ \A u \in B : new[u] \in R
      /\ \A v \in R : \E u \in B : v = new[u]
      /\ \A u \in B : /\ unit'[u].status = "FAILED" /\ unit'[u].handle = unit[u].handle
                      /\ unit'[u].ui = unit[u].ui
                      /\ unit'[new[u]].status = "IN_QUEUE" /\ unit'[new[u]].ui = unit[u].ui
      /\ \A v \in Units : v \notin B \cup R => unit'[v] = unit[v]
      /\ \A i \in Iseqs : ui'[i].iseq = ui[i].iseq
      /\ \A u \in B : ui'[unit[u].ui].unit = new[u] /\ jit_code'[unit[u].ui] = "NOT_READY_JIT"
      /\ \A i \in Iseqs : (\A u \in B : unit[u].ui # i) =>
            ui'[i].unit = ui[i].unit /\ jit_code'[i] = jit_code[i]
    BY DEF Replaces
<1> HIDE DEF R
<1>ui. \A i \in Iseqs : ui'[i].iseq = ui[i].iseq
    BY <1>1
<1>hit. \A u \in B : ui'[unit[u].ui].unit = new[u] /\ jit_code'[unit[u].ui] = "NOT_READY_JIT"
    BY <1>1
<1>miss. \A i \in Iseqs : (\A u \in B : unit[u].ui # i) =>
             ui'[i].unit = ui[i].unit /\ jit_code'[i] = jit_code[i]
    BY <1>1
<1>2. Running /\ ~Adding /\ ~(Adding') /\ cpc # "bounded"
    BY <1>0 DEF Running, Adding
<1>3. PlaceInv /\ StatusInv /\ OwnInv /\ CodeInv /\ TypeOK
    BY <1>2 DEF UnitInv
<1>4. Forming = {}
    BY <1>0, <1>3 DEF PlaceInv
<1>5. PlaceInv'
    BY <1>0, <1>3, <1>4 DEF PlaceInv
<1>6. /\ Owned' = (Owned \ B) \cup R /\ active_units \subseteq Owned /\ B \subseteq Owned
      /\ R \cap (Owned \cup obsolete_units) = {}
    BY <1>0, <1>3, <1>4 DEF PlaceInv, Owned
<1>7. /\ Owned \subseteq Units /\ obsolete_units \subseteq Units /\ unit_queue \subseteq Owned
      /\ R \subseteq Units
    BY <1>0, <1>3, KnownUnits DEF TypeOK, TypeLists, Owned
<1>8. /\ \A v \in Owned : unit[v].ui \in Iseqs /\ ui[unit[v].ui].unit = v
      /\ \A v \in Owned \cup obsolete_units : unit[v].ui \in Iseqs /\ ui[unit[v].ui].iseq
      /\ \A i \in Iseqs : ui[i].unit # None =>
            /\ unit[ui[i].unit].ui = i /\ ui[i].unit \in Units
            /\ ui[i].unit \notin free_unit_list \cup heap
    BY <1>3, KnownUnits DEF OwnInv
<1>9. \A v \in Owned \cup obsolete_units : unit'[v].ui = unit[v].ui
    BY <1>1, <1>6, <1>7
\* The iseq of a unit that stays is not touched.
<1>10. ASSUME NEW v \in Owned, v \notin B
       PROVE  \A u \in B : unit[u].ui # unit[v].ui
    BY <1>6, <1>8, <1>10, SMTT(30)
<1>11. StatusInv'
    <2>1. \A v \in unit_queue' : unit'[v].status = "IN_QUEUE"
        <3>1. ASSUME NEW v \in unit_queue PROVE unit'[v] = unit[v]
            BY <1>0, <1>1, <1>3, <1>6, <1>7 DEF PlaceInv
        <3> QED
            <4>1. \A v \in R : unit'[v].status = "IN_QUEUE"
                BY <1>1, SMTT(30)
            <4> QED
                BY <1>0, <1>3, <3>1, <4>1 DEF StatusInv
    <2>2. \A v \in active_units' : unit'[v].status = "LOADED" /\ unit'[v].handle = unit'[v].ui
        <3>1. ASSUME NEW v \in active_units \ B PROVE unit'[v] = unit[v]
            BY <1>0, <1>1, <1>6, <1>7
        <3> QED
            BY <1>0, <1>3, <3>1 DEF StatusInv
    <2>3. \A v \in obsolete_units' : unit'[v].status = "FAILED" /\ unit'[v].handle # None
        <3>1. ASSUME NEW v \in obsolete_units PROVE unit'[v] = unit[v]
            BY <1>0, <1>1, <1>3, <1>6, <1>7 DEF PlaceInv
        <3>2. ASSUME NEW v \in B PROVE unit[v].handle # None
            BY <1>0, <1>3, <1>6, <1>8, KnownUnits, SMTT(30) DEF StatusInv
        <3> QED
            BY <1>0, <1>1, <1>3, <3>1, <3>2, SMTT(30) DEF StatusInv
    <2> QED
        BY <2>1, <2>2, <2>3 DEF StatusInv
<1>12. OwnInv'
    <2>1. ASSUME NEW v \in Owned' \cup obsolete_units'
          PROVE  unit'[v].ui \in Iseqs /\ ui'[unit'[v].ui].iseq
        <3>1. CASE v \in R
            <4>1. PICK u \in B : v = new[u]
                BY <1>1, <3>1
            <4>2. unit'[v].ui = unit[u].ui /\ unit[u].ui \in Iseqs /\ ui[unit[u].ui].iseq
                BY <1>1, <1>6, <1>8, <4>1
            <4> QED
                BY <1>ui, <4>2
        <3>2. CASE v \notin R
            <4>1. v \in Owned \cup obsolete_units
                BY <1>0, <1>6, <3>2
            <4>2. unit'[v].ui = unit[v].ui /\ unit[v].ui \in Iseqs /\ ui[unit[v].ui].iseq
                BY <1>8, <1>9, <4>1
            <4> QED
                BY <1>ui, <4>2
        <3> QED
            BY <3>1, <3>2
    <2>2. ASSUME NEW v \in Owned' PROVE ui'[unit'[v].ui].unit = v
        <3>1. CASE v \in R
            <4>1. PICK u \in B : v = new[u]
                BY <1>1, <3>1
            <4>2. unit'[v].ui = unit[u].ui
                BY <1>1, <4>1
            <4> QED
                BY <1>hit, <4>1, <4>2
        <3>2. CASE v \notin R
            <4>1. v \in Owned /\ v \notin B
                BY <1>6, <3>2
            <4>2. /\ unit'[v].ui = unit[v].ui /\ unit[v].ui \in Iseqs
                  /\ ui[unit[v].ui].unit = v /\ \A u \in B : unit[u].ui # unit[v].ui
                BY <1>8, <1>9, <1>10, <4>1
            <4>3. ui'[unit[v].ui].unit = ui[unit[v].ui].unit
                BY <1>miss, <4>2
            <4> QED
                BY <4>2, <4>3
        <3> QED
            BY <3>1, <3>2
    <2>3. ASSUME NEW i \in Iseqs, ui'[i].unit # None
          PROVE  unit'[ui'[i].unit].ui = i /\ ui'[i].unit \notin free_unit_list' \cup heap'
        <3>1. CASE \E u \in B : unit[u].ui = i
            <4>1. PICK u \in B : unit[u].ui = i
                BY <3>1
            <4>2. new[u] \in R /\ unit'[new[u]].ui = unit[u].ui
                BY <1>1
            <4>3. ui'[unit[u].ui].unit = new[u]
                BY <1>hit
            <4>4. ui'[i].unit = new[u] /\ unit'[new[u]].ui = i
                BY <4>1, <4>2, <4>3
            <4>5. new[u] \notin free_unit_list' /\ new[u] \notin heap'
                BY <1>0, <4>2
            <4> QED
                BY <4>4, <4>5
        <3>2. CASE \A u \in B : unit[u].ui # i
            <4>1. ui'[i].unit = ui[i].unit
                BY <1>miss, <3>2
            <4>2. /\ unit[ui[i].unit].ui = i /\ ui[i].unit \in Units
                  /\ ui[i].unit \notin free_unit_list \cup heap
                BY <1>8, <2>3, <4>1
            <4>3. ui[i].unit \notin R /\ ui[i].unit \notin B
                BY <1>0, <3>2, <4>2
            <4>4. unit'[ui[i].unit] = unit[ui[i].unit]
                BY <1>1, <4>2, <4>3
            <4> QED
                BY <1>0, <4>1, <4>2, <4>4
        <3> QED
            BY <3>1, <3>2
    <2>4. ASSUME mjit_init_p', NEW i \in Iseqs
          PROVE  ui'[i].unit \in Owned' \cup obsolete_units' \cup {None}
        <3>1. CASE \E u \in B : unit[u].ui = i
            <4>1. PICK u \in B : unit[u].ui = i
                BY <3>1
            <4>2. ui'[unit[u].ui].unit = new[u] /\ new[u] \in R
                BY <1>1, <1>hit
            <4> QED
                BY <1>6, <4>1, <4>2
        <3>2. CASE \A u \in B : unit[u].ui # i
            <4>1. ui'[i].unit = ui[i].unit
                BY <1>miss, <3>2
            <4>2. ui[i].unit \in Owned \cup obsolete_units \cup {None}
                BY <1>0, <1>3, <2>4 DEF OwnInv
            <4> QED
                BY <1>0, <1>6, <4>1, <4>2
        <3> QED
            BY <3>1, <3>2
    <2> QED
        BY <2>1, <2>2, <2>3, <2>4 DEF OwnInv
<1>13. CodeInv'
    <2>0. "NOT_READY_JIT" \notin Units /\ "NOT_READY_JIT" # "NOT_ADDED"
        BY UnitsAssumption DEF NotCode
    <2>1. ASSUME NEW i \in Iseqs, IsCode(i)'
          PROVE  jit_code'[i] \in active_units' /\ ui'[i].unit = jit_code'[i]
        <3>1. \A u \in B : unit[u].ui # i
            BY <1>hit, <2>0, <2>1 DEF IsCode
        <3>2. jit_code'[i] = jit_code[i] /\ ui'[i].unit = ui[i].unit
            BY <1>1, <3>1
        <3>3. jit_code[i] \in active_units /\ ui[i].unit = jit_code[i]
            BY <1>3, <2>1, <3>2 DEF CodeInv, IsCode
        <3>4. unit[jit_code[i]].ui = i
            BY <1>6, <1>7, <1>8, <3>3, KnownUnits
        <3>5. jit_code[i] \notin B
            BY <3>1, <3>4
        <3> QED
            BY <1>0, <3>2, <3>3, <3>5
    <2>2. ASSUME NEW v \in active_units' PROVE jit_code'[unit'[v].ui] = v
        <3>1. v \in active_units /\ v \in Owned /\ v \notin B
            BY <1>0, <1>6
        <3>2. /\ unit'[v].ui = unit[v].ui /\ unit[v].ui \in Iseqs
              /\ \A u \in B : unit[u].ui # unit[v].ui
            BY <1>8, <1>9, <1>10, <3>1
        <3>3. jit_code[unit[v].ui] = v
            BY <1>3, <3>1 DEF CodeInv
        <3> QED
            BY <1>miss, <3>2, <3>3
    <2>3. ASSUME NEW i \in Iseqs, jit_code'[i] = "NOT_ADDED"
          PROVE  ui'[i].unit \in obsolete_units' \cup {None}
        <3>1. \A u \in B : unit[u].ui # i
            BY <1>1, <2>0, <2>3
        <3>2. jit_code[i] = "NOT_ADDED" /\ ui'[i].unit = ui[i].unit
            BY <1>1, <2>3, <3>1
        <3>3. ui[i].unit \in obsolete_units \cup {None}
            BY <1>3, <3>2 DEF CodeInv
        <3> QED
            BY <1>0, <3>2, <3>3
    <2>4. ASSUME mjit_init_p', NEW i \in Iseqs, ui'[i].unit \in obsolete_units'
          PROVE  jit_code'[i] = "NOT_ADDED"
        <3>1. \A u \in B : unit[u].ui # i
            <4> SUFFICES ASSUME NEW u \in B, unit[u].ui = i
                         PROVE  FALSE
                OBVIOUS
            <4>1. ui'[unit[u].ui].unit = new[u] /\ new[u] \in R
                BY <1>1, <1>hit
            <4>2. new[u] \in obsolete_units \cup B
                BY <1>0, <2>4, <4>1
            <4> QED
                BY <1>6, <4>1, <4>2
        <3>2. jit_code'[i] = jit_code[i] /\ ui'[i].unit = ui[i].unit
            BY <1>1, <3>1
        <3>3. ui[i].unit \in obsolete_units
            <4>1. ui[i].unit # None
                BY <1>0, <1>6, <1>7, <2>4, <3>2, KnownUnits
            <4>2. ui[i].unit \notin B
                BY <1>8, <3>1, <4>1
            <4> QED
                BY <1>0, <2>4, <3>2, <4>2
        <3>4. jit_code[i] = "NOT_ADDED"
            BY <1>0, <1>2, <1>3, <2>4, <3>3 DEF CodeInv
        <3> QED
            BY <3>2, <3>4
    <2> QED
        BY <2>1, <2>2, <2>3, <2>4 DEF CodeInv
<1>14. ClientInv'
    BY <1>0, <1>2 DEF ClientInv
<1> QED
    BY <1>5, <1>11, <1>12, <1>13, <1>14 DEF UnitInv

\* mjit_finish: the units of the lists are freed; the program has ended.
LEMMA FinishKeepsUnits ==
    ASSUME UnitInv, TypeOK', mjit_finish
    PROVE  UnitInv'
<1>1. Hands' = Hands /\ HandsInv'
    BY HandsSame DEF UnitInv, mjit_finish
<1>2. /\ cpc = "fin_loop" /\ cpc' = "done" /\ heap' = heap /\ curr_unit' = curr_unit
      /\ unit_queue' = {} /\ active_units' = {} /\ obsolete_units' = {}
      /\ free_unit_list' = free_unit_list \cup unit_queue \cup active_units
                              \cup obsolete_units
    BY DEF mjit_finish
<1>3. PlaceInv /\ Forming' = Forming
    BY <1>2 DEF UnitInv, Forming
<1>4. Forming = {}
    BY <1>2, <1>3 DEF PlaceInv
<1>5. PlaceInv'
    BY <1>1, <1>2, <1>3, <1>4 DEF PlaceInv
<1>6. ~(Running')
    BY <1>2 DEF Running
<1> QED
    BY <1>1, <1>5, <1>6 DEF UnitInv

\* child_after_fork: the units of the workers are lost, MJIT is off.
LEMMA ForkKeepsUnits ==
    ASSUME UnitInv, TypeOK', child_after_fork
    PROVE  UnitInv'
<1>1. Hands' = {} /\ HandsInv'
    <2>1. \A w \in Workers : ~(Held(w)')
        BY DEF child_after_fork, Held
    <2> QED
        BY <2>1 DEF Hands, HandsInv
<1>2. /\ unit_queue' = unit_queue /\ active_units' = active_units
      /\ obsolete_units' = obsolete_units /\ free_unit_list' = free_unit_list
      /\ heap' = heap /\ curr_unit' = curr_unit /\ ui' = ui /\ jit_code' = jit_code
      /\ unit' = unit /\ cpc = "run" /\ cpc' = "run" /\ ciseq' = ciseq
      /\ mjit_init_p' = FALSE /\ Forming' = Forming
    BY DEF child_after_fork, lists, mem, iseqs, cv, Forming
<1>3. Running /\ ~(Adding')
    BY <1>2 DEF Running, Adding
<1>4. PlaceInv /\ StatusInv /\ CodeInv
    BY <1>3 DEF UnitInv
<1>5. PlaceInv'
    BY <1>1, <1>2, <1>4 DEF PlaceInv
<1>6. StatusInv'
    BY <1>2, <1>4 DEF StatusInv
<1>7. OwnInv'
    <2>1. SameUis /\ SameIseqs
        BY <1>2 DEF SameUis, SameIseqs
    <2>2. /\ Owned' \cup obsolete_units' \subseteq Owned \cup obsolete_units
          /\ Owned' \subseteq Owned
          /\ free_unit_list' \cup heap' = free_unit_list \cup heap
        BY <1>1, <1>2 DEF Owned
    <2> QED
        BY <1>2, <1>3, <2>1, <2>2, SameOwners
<1>8. CodeInv'
    BY <1>2, <1>4 DEF CodeInv, IsCode
<1>9. ClientInv'
    BY <1>2, <1>3 DEF ClientInv
<1> QED
    BY <1>1, <1>5, <1>6, <1>7, <1>8, <1>9 DEF UnitInv

LEMMA InitUnits == Init => UnitInv
<1> SUFFICES ASSUME Init PROVE UnitInv
    OBVIOUS
<1>1. TypeOK
    BY InitType
<1>2. /\ unit_queue = {} /\ active_units = {} /\ obsolete_units = {}
      /\ free_unit_list = {} /\ curr_unit = None /\ heap = Units /\ cpc = "run"
      /\ \A i \in Iseqs : ui[i].unit = None /\ jit_code[i] = "NOT_ADDED"
      /\ \A w \in Workers : ~Held(w)
    BY DEF Init, Held
<1>3. Hands = {} /\ HandsInv /\ Forming = {} /\ Owned = {}
    BY <1>2 DEF Hands, HandsInv, Forming, Owned
<1>4. PlaceInv /\ StatusInv
    BY <1>2, <1>3 DEF PlaceInv, StatusInv
<1>5. OwnInv
    BY <1>2, <1>3 DEF OwnInv
<1>6. CodeInv
    BY <1>2, UnitsAssumption DEF CodeInv, IsCode, NotCode
<1>7. ClientInv
    BY <1>2 DEF ClientInv, Adding
<1> QED
    BY <1>1, <1>3, <1>4, <1>5, <1>6, <1>7 DEF UnitInv

LEMMA ClientUnitsKept ==
    ASSUME Orderly, UnitInv, TypeOK', client
    PROVE  UnitInv'
<1>1. CASE \/ \E i \in Iseqs : ClientSpecFail(i) \/ ClientAotCall(i)
           \/ \E b \in BOOLEAN : TraceSet(b)
           \/ AddStart \/ increase_unit_priority \/ mjit_get_iseq_fun
           \/ BopRedefined \/ TraceRecalc \/ GcEnter \/ mjit_gc_start \/ mjit_gc_finish
           \/ FinishStart \/ FinishPch \/ FinishFlag \/ FinishWake
           \/ ClientAbort \/ MemoryBound
    <2>1. Moves /\ HandsInv'
        BY <1>1, ControlMoves
    <2> QED
        BY <2>1, MovesKeepUnits
<1>2. ASSUME NEW i \in Iseqs, ClientCall(i) \/ mjit_aot_process(i) PROVE UnitInv'
    BY <1>2, CallMoves, MovesKeepUnits, AddsKeepUnits
<1>3. ASSUME NEW i \in Iseqs PROVE ~mjit_free_iseq(i)
    BY DEF mjit_free_iseq, Orderly
<1>4. CASE create_iseq_unit
    BY <1>4, CreateMoves, FormsKeepsUnits
<1>5. CASE mjit_add_iseq_to_process
    BY <1>5, EnqueueMoves, EnqueueKeepsUnits
<1>6. ASSUME NEW b \in BOOLEAN, mjit_redo_iseq(b) PROVE UnitInv'
    BY <1>6, RedoMoves, MovesKeepUnits, ObsoletesKeepsUnits
<1>7. CASE mjit_cancel_all
    BY <1>7, CancelMoves, MovesKeepUnits, ReplacesKeepsUnits
<1>8. CASE mjit_finish
    BY <1>8, FinishKeepsUnits
<1>9. CASE child_after_fork
    BY <1>9, ForkKeepsUnits
<1> QED
    BY <1>1, <1>2, <1>3, <1>4, <1>5, <1>6, <1>7, <1>8, <1>9 DEF client

LEMMA NextUnits == Orderly /\ UnitInv /\ [Next]_vars => UnitInv'
<1> SUFFICES ASSUME Orderly, UnitInv, [Next]_vars PROVE UnitInv'
    OBVIOUS
<1>1. TypeOK'
    BY NextType DEF UnitInv
<1>2. ASSUME \/ \E ok \in BOOLEAN : make_pch(ok)
             \/ \E t \in Threads : Spurious(t)
             \/ UNCHANGED vars
      PROVE  UnitInv'
    <2>1. Moves /\ HandsInv'
        BY <1>2, ControlMoves
    <2> QED
        BY <1>1, <2>1, MovesKeepUnits
<1>3. ASSUME NEW w \in Workers, worker(w) PROVE UnitInv'
    BY <1>1, <1>3, WorkerKeepsUnits
<1>4. CASE client
    BY <1>1, <1>4, ClientUnitsKept
<1> QED
    BY <1>2, <1>3, <1>4 DEF Next, Quiet

LEMMA UnitInvariance == Orderly => (Spec => []UnitInv)
<1>1. Orderly /\ UnitInv /\ [Next]_vars => UnitInv'
    BY NextUnits
<1> SUFFICES ASSUME Orderly PROVE Spec => []UnitInv
    OBVIOUS
<1>2. UnitInv /\ [Next]_vars => UnitInv'
    BY <1>1
<1> QED
    BY InitUnits, <1>2, PTL DEF Spec

\* A unit structure is in one place at a time: a list, the free list, new
\* memory, the unit being formed or the hands of one worker (add_to_list: "It
\* should be not in the list before").
THEOREM UnitsAreInOnePlace == Orderly => (Spec => []OnePlace)
<1>1. UnitInv => OnePlace
    <2> SUFFICES ASSUME UnitInv PROVE OnePlace
        OBVIOUS
    <2>1. PlaceInv /\ HandsInv /\ None \notin Units
        BY KnownUnits DEF UnitInv
    <2>2. \A m, n \in 1 .. 5 : m # n => Places[m] \cap Places[n] = {}
        BY <2>1, SMTT(30) DEF PlaceInv, Places
    <2>3. \A n \in 1 .. 5 : Places[n] \cap (Hands \cup Forming) = {} /\ Places[n] \subseteq Units
        BY <2>1, SMTT(30) DEF PlaceInv, Places, UnitInv, TypeOK, TypeLists
    <2>4. \A w \in Workers : Held(w) => wunit[w] \in Hands
        BY HeldIsUnit DEF UnitInv
    <2>5. \A n \in 1 .. 5 : curr_unit \notin Places[n]
        BY <2>1, <2>3 DEF Forming
    <2> QED
        BY <2>1, <2>2, <2>3, <2>4, <2>5 DEF OnePlace, HandsInv
<1> QED
    BY <1>1, UnitInvariance, PTL

\* The comments at the lists: units in the queue wait, units in active_units are
\* loaded, units in obsolete_units failed, and both have open handles.
THEOREM ListsHoldTheirStatus == Orderly => (Spec => []ListsMatchStatus)
<1>1. UnitInv => ListsMatchStatus
    <2> SUFFICES ASSUME UnitInv, Running PROVE ListsMatchStatus
        BY DEF ListsMatchStatus
    <2>1. StatusInv /\ \A u \in active_units : unit[u].ui # None
        BY ActiveOwners, KnownUnits DEF UnitInv
    <2> QED
        BY <2>1 DEF StatusInv, ListsMatchStatus
<1> QED
    BY <1>1, UnitInvariance, PTL

\* The unit an iseq points at points back, and is neither free nor new memory.
THEOREM UnitsAndIseqsMatch == Orderly => (Spec => []UnitsMatchIseqs)
<1>1. UnitInv => UnitsMatchIseqs
    BY DEF UnitInv, OwnInv, UnitsMatchIseqs
<1> QED
    BY <1>1, UnitInvariance, PTL

\* The code mjit_execute_iseq_0 calls is the code of the iseq it calls, in an
\* open handle, of a loaded and active unit.
THEOREM CalledCodeIsLoaded == Orderly => (Spec => []PublishedCodeIsLoaded)
<1>1. UnitInv => PublishedCodeIsLoaded
    <2> SUFFICES ASSUME UnitInv, Running, NEW i \in Iseqs, IsCode(i)
                 PROVE  LET u == jit_code[i] IN
                        /\ u \in active_units /\ unit[u].status = "LOADED"
                        /\ unit[u].handle = i /\ unit[u].ui = i /\ ui[i].unit = u
        BY DEF PublishedCodeIsLoaded
    <2>1. jit_code[i] \in active_units /\ ui[i].unit = jit_code[i] /\ jit_code[i] # None
        BY KnownUnits DEF UnitInv, CodeInv, IsCode
    <2>2. unit[jit_code[i]].ui = i
        BY <2>1 DEF UnitInv, OwnInv
    <2>3. unit[jit_code[i]].status = "LOADED" /\ unit[jit_code[i]].handle = i
        BY <2>1, <2>2 DEF UnitInv, StatusInv
    <2> QED
        BY <2>1, <2>2, <2>3
<1> QED
    BY <1>1, UnitInvariance, PTL

\* NOT_READY_JIT_ISEQ_FUN: an iseq that waits for its code, and has a unit, has
\* one in the queue or in the hands of a worker.
THEOREM WaitingIseqsAreQueued == Orderly => (Spec => []NotReadyIsQueued)
<1>1. UnitInv => NotReadyIsQueued
    <2> SUFFICES ASSUME UnitInv, Running, mjit_init_p, NEW i \in Iseqs,
                        jit_code[i] = NotReady, i # ciseq, ui[i].unit # None
                 PROVE  ui[i].unit \in unit_queue \cup Hands
        BY DEF NotReadyIsQueued, Hands
    <2>0. NotReady \notin Units /\ NotReady # "NOT_ADDED"
        BY UnitsAssumption DEF NotReady, NotCode
    <2>1. /\ ui[i].unit \in Owned \cup obsolete_units /\ unit[ui[i].unit].ui = i
          /\ ui[i].unit \in Units
        BY KnownUnits DEF UnitInv, OwnInv
    <2>2. ui[i].unit \notin obsolete_units
        BY <2>0 DEF UnitInv, CodeInv
    <2>3. ui[i].unit \notin active_units
        BY <2>0, <2>1 DEF UnitInv, CodeInv
    <2>4. ui[i].unit \notin Forming
        <3>1. ASSUME ui[i].unit \in Forming PROVE FALSE
            <4>1. ui[i].unit = curr_unit /\ cpc = "enqueue"
                BY <3>1 DEF Forming, UnitInv, PlaceInv
            <4>2. unit[curr_unit].ui = ciseq
                BY <4>1 DEF UnitInv, ClientInv
            <4> QED
                BY <2>1, <4>1, <4>2
        <3> QED
            BY <3>1
    <2> QED
        BY <2>1, <2>2, <2>3, <2>4 DEF Owned
<1> QED
    BY <1>1, UnitInvariance, PTL

-----------------------------------------------------------------------------
\* No assertion fails: the invariant, and the steps of the workers.

\* What the theorem excludes, besides what Orderly does: several workers, which
\* share the static argument vectors of start_unit; a compilation that cannot be
\* started, after which stat is read uninitialised; the statistics, which read
\* through the unit of an iseq that may have none; a collection inside
\* mjit_cancel_all, which locks the mutex again; and, ahead of time, a unit that
\* is discarded although mjit_get_iseq_fun relies on it.
Benign ==
    /\ \A v, w \in Workers : v = w
    /\ Events \cap {"free", "overlap", "spawn_fail", "profile"} = {}
    /\ "gc" \in Events => Events \cap {"bop", "trace"} = {}
    /\ Aot => Events \cap {"cc_fail", "dl_fail"} = {}

\* In a forked child there are no workers.
Gone == \A w \in Workers : wpc[w] = "gone"

\* A worker compiles only with a header; MJIT is off without one, in a forked
\* child and after the end of the program, and no worker has a unit then.
Before == {"pch", "pch_failed", "switched_off", "exit", "done", "gone"}
PchInv ==
    /\ pch_status = "NOT_READY" => \A w \in Workers : wpc[w] \in {"pch", "gone"}
    /\ pch_status = "FAILED" => \A w \in Workers : wpc[w] \in Before
    /\ pch_status = "SUCCESS" => \A w \in Workers : wpc[w] \notin {"pch_failed", "switched_off"}
    /\ ~mjit_init_p => pch_status = "FAILED" \/ cpc = "done" \/ Gone
    /\ cpc = "done" =>
          pch_status = "FAILED" \/ \A w \in Workers : wpc[w] \in {"exit", "done", "gone"}

\* What a worker has done for its unit so far.
Stage(w) ==
    LET u == wunit[w] IN
    /\ wpc[w] \in {"translate", "translated", "args", "status", "check", "load"} =>
          unit[u].ofname
    /\ wpc[w] \in {"translated", "args", "load"} => wexit[w]
    /\ wpc[w] \in {"status", "check", "load"} /\ wexit[w] => unit[u].obj = unit[u].ui
    /\ wpc[w] \in {"check", "load"} /\ wexit[w] => unit[u].status = "SUCCESS"
    /\ wpc[w] = "publish" => whandle[w] \in {None, unit[u].ui}
    /\ Aot => wexit[w] /\ (wpc[w] = "publish" => whandle[w] # None)
StageInv == \A w \in Workers : Stage(w)

\* No iseq points at an obsolete unit, unless the client is replacing it or MJIT
\* is off; an iseq compiled ahead of time has a unit.
Replacing(i) == ciseq = i /\ (Adding \/ cpc = "bounded")
NotFreed == \A u \in Units : ~unit[u].freed_p
NoStaleUnit ==
    \A i \in Iseqs : ui[i].unit \in obsolete_units =>
        Replacing(i) \/ (~mjit_init_p /\ (cpc = "add" \/ (~Adding /\ cpc # "enqueue")))
AotHasUnit ==
    \A i \in Iseqs : jit_code[i] = "NOT_READY_AOT" =>
        Aot /\ (ui[i].unit # None \/ ~mjit_init_p \/ Replacing(i))
ClientCalm ==
    /\ cpc = "get" => Aot /\ ui[ciseq].unit # None
    /\ cpc \in {"recalc", "cancel"} => "gc" \notin Events
CalmInv == NotFreed /\ NoStaleUnit /\ AotHasUnit /\ ClientCalm

-----------------------------------------------------------------------------
\* A worker with a unit: MJIT is on.
LEMMA HolderRuns ==
    ASSUME TypeOK, PchInv, NEW w \in Workers, Held(w)
    PROVE  Running /\ mjit_init_p /\ pch_status = "SUCCESS"
<1>1. wpc[w] \notin Before
    BY DEF Held, Before
<1>2. pch_status = "SUCCESS"
    BY <1>1 DEF PchInv, TypeOK, TypeSync, Before
<1>3. Running
    BY <1>1, <1>2 DEF PchInv, Running, Before
<1> QED
    BY <1>1, <1>2, <1>3 DEF PchInv, Running, Before, Gone

LEMMA WorkerKeepsPch ==
    ASSUME TypeOK, PchInv, NEW w \in Workers, worker(w)
    PROVE  PchInv'
<1>0. /\ UNCHANGED <<pch_status, cpc>> /\ wpc \in [Workers -> WorkerPcs]
      /\ pch_status \in {"NOT_READY", "FAILED", "SUCCESS"}
    <2>1. UNCHANGED <<pch_status, cpc>>
        BY DEF worker, WorkerPch, WorkerSwitchOff, WorkerLeave, WorkerTop, WorkerExit,
            WorkerIdle, WorkerEnterTranslation, WorkerTranslate, WorkerLeaveTranslation,
            WorkerSpawn, WorkerStatus, WorkerCheck, WorkerDlopen, WorkerPublish,
            WorkerLoaded, WorkerAbort, Abort, state, cv
    <2> QED
        BY <2>1 DEF TypeOK, TypeWorkers, TypeSync
<1>1. ASSUME NEW pc, wpc' = [wpc EXCEPT ![w] = pc], wpc[w] # "gone",
             pch_status # "NOT_READY",
             pch_status = "FAILED" => pc \in Before,
             pch_status = "SUCCESS" => pc \notin {"pch_failed", "switched_off"},
             mjit_init_p' = mjit_init_p \/ pch_status = "FAILED",
             wpc[w] \in {"exit", "done"} => pc = "done"
      PROVE  PchInv'
    <2>1. wpc'[w] = pc /\ \A v \in Workers : v # w => wpc'[v] = wpc[v]
        BY <1>0, <1>1
    <2>2. pch_status = "FAILED" => \A v \in Workers : wpc'[v] \in Before
        BY <1>1, <2>1 DEF PchInv
    <2>3. pch_status = "SUCCESS" => \A v \in Workers : wpc'[v] \notin {"pch_failed", "switched_off"}
        BY <1>1, <2>1 DEF PchInv
    <2>4. ~mjit_init_p' => pch_status = "FAILED" \/ cpc = "done"
        BY <1>1, SMTT(30) DEF PchInv, Gone
    <2>5. cpc = "done" => pch_status = "FAILED"
                          \/ \A v \in Workers : wpc'[v] \in {"exit", "done", "gone"}
        BY <1>1, <2>1 DEF PchInv
    <2> QED
        BY <1>0, <1>1, <2>2, <2>3, <2>4, <2>5 DEF PchInv
<1>2. CASE UNCHANGED <<wpc, mjit_init_p>>
    BY <1>0, <1>2 DEF PchInv, Gone
<1>3. CASE WorkerPch(w)
    <2>1. ASSUME ~UNCHANGED wpc PROVE PchInv'
        BY <1>1, <1>3, <2>1 DEF WorkerPch, Goto, Before, state
    <2> QED
        BY <1>2, <1>3, <2>1 DEF WorkerPch, state
<1>4. CASE WorkerSwitchOff(w)
    <2>1. pch_status = "FAILED"
        BY <1>0, <1>4 DEF WorkerSwitchOff, PchInv
    <2> QED
        BY <1>1, <1>4, <2>1 DEF WorkerSwitchOff, Goto, Before
<1>5. CASE WorkerLeave(w)
    <2>1. pch_status = "FAILED"
        BY <1>0, <1>5 DEF WorkerLeave, PchInv
    <2> QED
        BY <1>1, <1>5, <2>1 DEF WorkerLeave, Goto, Before
<1>6. CASE WorkerExit(w)
    <2>1. wpc[w] = "exit" /\ wpc' = [wpc EXCEPT ![w] = "done"] /\ mjit_init_p' = mjit_init_p
        BY <1>6 DEF WorkerExit, Goto, state
    <2>2. pch_status # "NOT_READY"
        BY <2>1 DEF PchInv
    <2> QED
        BY <1>1, <2>1, <2>2 DEF Before
<1>7. CASE WorkerTop(w) \/ WorkerIdle(w) \/ WorkerLoaded(w) \/ WorkerCheck(w) \/ WorkerPublish(w)
    <2>1. /\ wpc[w] \in WorkerPcs \ Before /\ mjit_init_p' = mjit_init_p
          /\ UNCHANGED wpc \/ \E pc \in {"exit", "gc", "idle", "top", "load", "loaded"} :
                                 wpc' = [wpc EXCEPT ![w] = pc]
        BY <1>7 DEF WorkerTop, WorkerIdle, WorkerLoaded, WorkerCheck, WorkerPublish,
                    BackToTop, Goto, WorkerPcs, Before, state
    <2>2. pch_status = "SUCCESS"
        BY <1>0, <2>1 DEF PchInv, Before
    <2> QED
        BY <1>1, <1>2, <2>1, <2>2 DEF Before
<1>8. CASE \/ WorkerEnterTranslation(w) \/ WorkerTranslate(w) \/ WorkerLeaveTranslation(w)
           \/ WorkerSpawn(w) \/ WorkerStatus(w) \/ WorkerDlopen(w)
    <2>1. /\ wpc[w] \in WorkerPcs \ Before /\ mjit_init_p' = mjit_init_p
          /\ UNCHANGED wpc
             \/ \E pc \in {"translate", "translated", "args", "status", "check", "publish"} :
                   wpc' = [wpc EXCEPT ![w] = pc]
        BY <1>8 DEF WorkerEnterTranslation, WorkerTranslate, WorkerLeaveTranslation,
                    WorkerSpawn, WorkerStatus, WorkerDlopen, Goto, WorkerPcs, Before, state
    <2>2. pch_status = "SUCCESS"
        BY <1>0, <2>1 DEF PchInv, Before
    <2> QED
        BY <1>1, <1>2, <2>1, <2>2 DEF Before
<1>9. CASE WorkerAbort(w)
    BY <1>2, <1>9 DEF WorkerAbort, Abort, state, wv
<1> QED
    BY <1>3, <1>4, <1>5, <1>6, <1>7, <1>8, <1>9 DEF worker

\* The assertions of discard_unit and load_unit hold.
LEMMA WorkerDoesNotAbort ==
    ASSUME UnitInv, PchInv, StageInv, NEW w \in Workers
    PROVE  ~WorkerAbort(w)
<1> SUFFICES ASSUME Held(w) PROVE ~WorkerAbort(w)
    BY DEF WorkerAbort, Held
<1>1. Running /\ wunit[w] \in Hands
    BY HolderRuns, HeldIsUnit DEF UnitInv
<1>2. unit[wunit[w]].ui \in Iseqs /\ ui[unit[wunit[w]].ui].unit = wunit[w]
    BY <1>1, HandOwner
<1>3. unit[wunit[w]].ui # None /\ CanDiscard(wunit[w])
    BY <1>2, IseqsAssumption DEF CanDiscard
<1>4. wpc[w] = "load" => unit[wunit[w]].status = "SUCCESS"
    BY DEF StageInv, Stage
<1> QED
    BY <1>3, <1>4 DEF WorkerAbort

-----------------------------------------------------------------------------
\* The stages of a worker.

Stages == {"translate", "translated", "args", "status", "check", "load", "publish"}

LEMMA OffStage ==
    ASSUME NEW w \in Workers, Stage(w), wpc'[w] \notin Stages,
           wexit'[w] = wexit[w] \/ wexit'[w]
    PROVE  Stage(w)'
BY DEF Stage, Stages

LEMMA StillNotFreed ==
    ASSUME TypeOK, NEW u \in Units, NEW r, r.freed_p = unit[u].freed_p,
           unit' = [unit EXCEPT ![u] = r]
    PROVE  unit'[u] = r /\ (NotFreed => NotFreed')
<1>1. unit \in [Units -> UnitType]
    BY DEF TypeOK, TypeUnits
<1>2. unit'[u] = r /\ \A v \in Units : v # u => unit'[v] = unit[v]
    BY <1>1
<1> QED
    BY <1>2 DEF NotFreed

LEMMA StageOutside ==
    ASSUME TypeOK, NEW w \in Workers, Stage(w),
           \/ WorkerPch(w) \/ WorkerSwitchOff(w) \/ WorkerLeave(w) \/ WorkerExit(w)
           \/ WorkerIdle(w) \/ WorkerLoaded(w) \/ WorkerTop(w)
    PROVE  Stage(w)' /\ (NotFreed => NotFreed')
<1>0. wpc \in [Workers -> WorkerPcs] /\ wexit \in [Workers -> BOOLEAN]
    BY DEF TypeOK, TypeWorkers
<1>1. /\ wpc[w] \notin Stages
      /\ UNCHANGED wpc
         \/ \E pc \in {"pch_failed", "switched_off", "exit", "done", "top", "idle", "gc"} :
               wpc' = [wpc EXCEPT ![w] = pc]
    BY DEF WorkerPch, WorkerSwitchOff, WorkerLeave, WorkerExit, WorkerIdle,
                 WorkerLoaded, WorkerTop, BackToTop, Goto, Stages
<1>2. wexit' = wexit \/ wexit' = [wexit EXCEPT ![w] = TRUE]
    BY DEF WorkerPch, WorkerSwitchOff, WorkerLeave, WorkerExit, WorkerIdle,
                 WorkerLoaded, WorkerTop, BackToTop
<1>3. wpc'[w] \notin Stages
    BY <1>0, <1>1 DEF Stages
<1>4. wexit'[w] = wexit[w] \/ wexit'[w]
    BY <1>0, <1>2
<1>5. NotFreed => NotFreed'
    <2>1. CASE UNCHANGED unit
        BY <2>1 DEF NotFreed
    <2>2. ASSUME NEW u \in Best,
                 unit' = [unit EXCEPT ![u] = [@ EXCEPT !.status = "IN_GENERATION",
                                                       !.high_priority_p = FALSE]]
          PROVE  NotFreed => NotFreed'
        <3> DEFINE r == [unit[u] EXCEPT !.status = "IN_GENERATION", !.high_priority_p = FALSE]
        <3>1. u \in Units
            BY DEF Best, TypeOK, TypeLists
        <3>2. r.freed_p = unit[u].freed_p /\ unit' = [unit EXCEPT ![u] = r]
            BY <2>2, <3>1 DEF TypeOK, TypeUnits, UnitType
        <3> HIDE DEF r
        <3> QED
            BY <3>1, <3>2, StillNotFreed
    <2> QED
        BY <2>1, <2>2 DEF WorkerPch, WorkerSwitchOff, WorkerLeave, WorkerExit,
                                 WorkerIdle, WorkerLoaded, WorkerTop
<1> QED
    BY <1>3, <1>4, <1>5, OffStage

\* start_unit: the unit gets a file, the translation and the compilation.
LEMMA StageCompiles ==
    ASSUME Benign, TypeOK, NEW w \in Workers, Stage(w),
           \/ WorkerEnterTranslation(w) \/ WorkerTranslate(w)
           \/ WorkerLeaveTranslation(w) \/ WorkerSpawn(w) \/ WorkerStatus(w)
    PROVE  Stage(w)' /\ (NotFreed => NotFreed')
<1> DEFINE u == wunit[w]
<1>0. wpc \in [Workers -> WorkerPcs] /\ wexit \in [Workers -> BOOLEAN]
    BY DEF TypeOK, TypeWorkers
<1>1. /\ UNCHANGED <<wunit, whandle>> /\ u \in Units /\ unit[u] \in UnitType
    <2>1. UNCHANGED <<wunit, whandle>>
        BY DEF WorkerEnterTranslation, WorkerTranslate, WorkerLeaveTranslation,
                     WorkerSpawn, WorkerStatus
    <2>2. Held(w)
        BY DEF Held, WorkerEnterTranslation, WorkerTranslate, WorkerLeaveTranslation,
                     WorkerSpawn, WorkerStatus
    <2> QED
        BY <2>1, <2>2 DEF TypeOK, TypeWorkers, TypeUnits
<1>2. ASSUME NEW r, NEW pc, NEW e, r.freed_p = unit[u].freed_p,
             unit' = [unit EXCEPT ![u] = r], wpc' = [wpc EXCEPT ![w] = pc],
             wexit' = [wexit EXCEPT ![w] = e], Aot => e,
             pc \in {"translate", "translated", "args", "status", "check"}, r.ofname,
             pc \in {"translated", "args"} => e,
             pc \in {"status", "check"} /\ e => r.obj = r.ui,
             pc = "check" /\ e => r.status = "SUCCESS"
      PROVE  Stage(w)' /\ (NotFreed => NotFreed')
    <2>1. unit'[u] = r /\ (NotFreed => NotFreed')
        <3> HIDE DEF u
        <3> QED
            BY <1>1, <1>2, StillNotFreed
    <2>2. wpc'[w] = pc /\ wexit'[w] = e /\ wunit'[w] = u
        BY <1>0, <1>1, <1>2
    <2> HIDE DEF u
    <2> QED
        BY <1>2, <2>1, <2>2 DEF Stage
<1>3. wexit = [wexit EXCEPT ![w] = wexit[w]] /\ unit = [unit EXCEPT ![u] = unit[u]]
    BY <1>0, <1>1 DEF TypeOK, TypeUnits
<1>4. CASE WorkerEnterTranslation(w)
    <2>1. CASE UNCHANGED <<wpc, unit>>
        BY <1>1, <1>4, <2>1 DEF WorkerEnterTranslation, Stage, NotFreed
    <2>2. CASE ~UNCHANGED <<wpc, unit>>
        <3> DEFINE r == [unit[u] EXCEPT !.ofname = TRUE]
        <3>1. r.freed_p = unit[u].freed_p /\ r.ofname
            BY <1>1 DEF UnitType
        <3>2. /\ unit' = [unit EXCEPT ![u] = r] /\ wpc' = [wpc EXCEPT ![w] = "translate"]
              /\ wexit' = wexit
            BY <1>4, <2>2 DEF WorkerEnterTranslation, Goto
        <3>3. Aot => wexit[w]
            BY DEF Stage
        <3> HIDE DEF r, u
        <3> QED
            BY <1>2, <1>3, <3>1, <3>2, <3>3
    <2> QED
        BY <2>1, <2>2
<1>5. CASE WorkerTranslate(w)
    <2> DEFINE r == [unit[u] EXCEPT !.spec_state = spec]
    <2>1. r.freed_p = unit[u].freed_p /\ r.ofname
        BY <1>1, <1>5 DEF UnitType, Stage, WorkerTranslate
    <2>2. /\ unit' = [unit EXCEPT ![u] = r] /\ wpc' = [wpc EXCEPT ![w] = "translated"]
          /\ wexit' = [wexit EXCEPT ![w] = TRUE]
        BY <1>5 DEF WorkerTranslate, Goto, Benign
    <2> HIDE DEF r, u
    <2> QED
        BY <1>2, <2>1, <2>2
<1>6. CASE WorkerLeaveTranslation(w)
    <2>1. unit[u].ofname /\ wexit[w]
        BY <1>6 DEF Stage, WorkerLeaveTranslation
    <2>2. unit' = unit /\ wpc' = [wpc EXCEPT ![w] = "args"] /\ wexit' = wexit
        BY <1>6 DEF WorkerLeaveTranslation, Goto
    <2> HIDE DEF u
    <2> QED
        BY <1>2, <1>3, <2>1, <2>2
<1>7. CASE WorkerSpawn(w)
    <2>1. unit[u].ofname /\ wexit[w] /\ wpc[w] = "args"
        BY <1>7 DEF Stage, WorkerSpawn
    <2>2. \A in \in ArgUnits : in = u
        BY DEF ArgUnits, Benign
    <2>3. PICK ok \in BOOLEAN :
              /\ ok \/ "cc_fail" \in Events
              /\ wexit' = [wexit EXCEPT ![w] = ok]
              /\ unit' = [unit EXCEPT ![u].obj = IF ok THEN unit[u].ui ELSE None]
        <3>1. PICK in \in ArgUnits, out \in ArgUnits, ok \in BOOLEAN :
                  /\ ok \/ "cc_fail" \in Events
                  /\ unit' = [unit EXCEPT ![out].obj = IF ok THEN unit[in].ui ELSE None]
                  /\ wexit' = [wexit EXCEPT ![w] = ok]
            BY <1>7, <2>1 DEF WorkerSpawn, Benign
        <3>2. in = u /\ out = u
            BY <2>2
        <3> QED
            BY <3>1, <3>2
    <2> DEFINE r == [unit[u] EXCEPT !.obj = IF ok THEN unit[u].ui ELSE None]
    <2>4. r.freed_p = unit[u].freed_p /\ r.ofname /\ (ok => r.obj = r.ui)
        BY <1>1, <2>1 DEF UnitType
    <2>5. /\ unit' = [unit EXCEPT ![u] = r] /\ wpc' = [wpc EXCEPT ![w] = "status"]
          /\ (Aot => ok)
        BY <1>7, <2>3 DEF WorkerSpawn, Goto, Benign
    <2> HIDE DEF r, u
    <2> QED
        BY <1>2, <2>3, <2>4, <2>5
<1>8. CASE WorkerStatus(w)
    <2> DEFINE r == [unit[u] EXCEPT !.status = IF wexit[w] THEN "SUCCESS" ELSE "FAILED"]
    <2>1. unit[u].ofname /\ (wexit[w] => unit[u].obj = unit[u].ui) /\ (Aot => wexit[w])
        BY <1>8 DEF Stage, WorkerStatus
    <2>2. /\ r.freed_p = unit[u].freed_p /\ r.ofname /\ (wexit[w] => r.obj = r.ui)
          /\ (wexit[w] => r.status = "SUCCESS")
        BY <1>1, <2>1 DEF UnitType
    <2>3. /\ unit' = [unit EXCEPT ![u] = r] /\ wpc' = [wpc EXCEPT ![w] = "check"]
          /\ wexit' = wexit
        BY <1>8 DEF WorkerStatus, Goto
    <2> HIDE DEF r, u
    <2> QED
        BY <1>2, <1>3, <2>1, <2>2, <2>3
<1> QED
    BY <1>4, <1>5, <1>6, <1>7, <1>8

\* What a worker does to the iseqs: it may take the unit from one, not ahead of
\* time, and makes no unit obsolete.
Harmless ==
    /\ UNCHANGED obsolete_units /\ (Aot => ui' = ui)
    /\ \A i \in Iseqs : ui'[i].unit \in {ui[i].unit, None}
    /\ \A i \in Iseqs : jit_code'[i] = "NOT_READY_AOT" => jit_code[i] = "NOT_READY_AOT"

LEMMA NothingHarmed ==
    ASSUME UNCHANGED <<obsolete_units, ui, jit_code>>
    PROVE  Harmless
BY DEF Harmless

LEMMA FreedStays ==
    ASSUME NEW r \in UnitType
    PROVE  /\ Freed(r).freed_p = r.freed_p /\ Unlinked(r).freed_p = r.freed_p
           /\ Unlinked(r).ui = r.ui
           /\ \A x : /\ [r EXCEPT !.status = x].freed_p = r.freed_p
                     /\ [r EXCEPT !.ofname = x].freed_p = r.freed_p
           /\ \A x, y : [r EXCEPT !.status = x, !.handle = y, !.ofname = FALSE].freed_p
                          = r.freed_p
<1>1. Freed(r).freed_p = r.freed_p
    BY DEF UnitType, Freed
<1>2. Unlinked(r).freed_p = r.freed_p /\ Unlinked(r).ui = r.ui
    BY DEF UnitType, Unlinked
<1>3. \A x : /\ [r EXCEPT !.status = x].freed_p = r.freed_p
             /\ [r EXCEPT !.ofname = x].freed_p = r.freed_p
    BY DEF UnitType
<1>4. \A x, y : [r EXCEPT !.status = x, !.handle = y, !.ofname = FALSE].freed_p = r.freed_p
    BY DEF UnitType
<1> QED
    BY <1>1, <1>2, <1>3, <1>4

LEMMA DiscardHarms ==
    ASSUME UnitInv, NEW u \in Units, discard_unit(u), ~Aot, unit[u].ui \in Iseqs,
           UNCHANGED obsolete_units,
           jit_code' \in {jit_code, [jit_code EXCEPT ![unit[u].ui] = "NOT_ADDED"]}
    PROVE  Harmless /\ (NotFreed => NotFreed')
<1> DEFINE i == unit[u].ui
<1>1. TypeOK /\ unit[u] \in UnitType
    BY DEF UnitInv, TypeOK, TypeUnits
<1>2. unit' = [unit EXCEPT ![u] = Freed(unit[u])] /\ ui' = [ui EXCEPT ![i].unit = None]
    BY DEF discard_unit
<1>3. NotFreed => NotFreed'
    BY <1>1, <1>2, FreedStays, StillNotFreed
<1>4. ui'[i].unit = None /\ \A j \in Iseqs : j # i => ui'[j] = ui[j]
    <2> HIDE DEF i
    <2>1. i \in Iseqs
        BY DEF i
    <2> QED
        BY <1>1, <1>2, <2>1, IseqLosesUnit
<1>5. \A j \in Iseqs : jit_code'[j] = "NOT_READY_AOT" => jit_code[j] = "NOT_READY_AOT"
    <2>1. CASE jit_code' = jit_code
        BY <2>1
    <2>2. CASE jit_code' = [jit_code EXCEPT ![i] = "NOT_ADDED"]
        BY <1>1, <2>2, CodeWritten
    <2> QED
        BY <2>1, <2>2
<1> QED
    BY <1>3, <1>4, <1>5 DEF Harmless

LEMMA StageChecks ==
    ASSUME UnitInv, Running, NotFreed, NEW w \in Workers, Stage(w), WorkerCheck(w)
    PROVE  Stage(w)' /\ NotFreed' /\ Harmless
<1> DEFINE u == wunit[w]
<1>0. /\ wpc \in [Workers -> WorkerPcs] /\ wexit \in [Workers -> BOOLEAN] /\ TypeOK
    BY DEF UnitInv, TypeOK, TypeWorkers
<1>1. /\ u \in Units /\ unit[u] \in UnitType /\ unit[u].ui \in Iseqs /\ ~unit[u].freed_p
      /\ wpc[w] = "check"
    <2>1. Held(w) /\ wpc[w] = "check"
        BY DEF WorkerCheck, Held
    <2>2. u \in Hands
        BY <1>0, <2>1, HeldIsUnit
    <2>3. u \in Units /\ unit[u].ui \in Iseqs
        BY <2>2, HandOwner
    <2> QED
        BY <1>0, <2>1, <2>3 DEF NotFreed, TypeOK, TypeUnits
<1>2. UNCHANGED <<obsolete_units, jit_code>>
    BY DEF WorkerCheck
<1>3. ASSUME BackToTop(w) PROVE Stage(w)'
    <2>1. wpc'[w] = "top" /\ wexit'[w]
        BY <1>0, <1>3 DEF BackToTop, Goto
    <2> QED
        BY <2>1, OffStage DEF Stages
<1>4. CASE ~wexit[w] /\ discard_unit(u) /\ BackToTop(w)
    <2>1. ~Aot
        BY <1>4 DEF Stage
    <2> HIDE DEF u
    <2> QED
        BY <1>1, <1>2, <1>3, <1>4, <2>1, DiscardHarms
<1>5. CASE /\ unit' = [unit EXCEPT ![u].status = "IN_QUEUE"] /\ BackToTop(w) /\ ui' = ui
    <2>1. NotFreed'
        <3> DEFINE r == [unit[u] EXCEPT !.status = "IN_QUEUE"]
        <3>1. r.freed_p = unit[u].freed_p /\ unit' = [unit EXCEPT ![u] = r]
            BY <1>1, <1>5, FreedStays
        <3> HIDE DEF r, u
        <3> QED
            BY <1>0, <1>1, <3>1, StillNotFreed
    <2> QED
        BY <1>2, <1>3, <1>5, <2>1, NothingHarmed
<1>6. CASE wexit[w] /\ Goto(w, "load") /\ UNCHANGED <<unit, ui, wunit, wexit, whandle>>
    <2>1. wpc'[w] = "load"
        BY <1>0, <1>6 DEF Goto
    <2>2. Stage(w)'
        BY <1>1, <1>6, <2>1 DEF Stage
    <2>3. NotFreed'
        BY <1>6 DEF NotFreed
    <2> QED
        BY <1>2, <1>6, <2>2, <2>3, NothingHarmed
<1> QED
    BY <1>1, <1>4, <1>5, <1>6 DEF WorkerCheck

LEMMA StageOpens ==
    ASSUME Benign, UnitInv, Running, NotFreed, NEW w \in Workers, Stage(w), WorkerDlopen(w)
    PROVE  Stage(w)' /\ NotFreed' /\ Harmless
<1> DEFINE u == wunit[w]
<1>0. /\ wpc \in [Workers -> WorkerPcs] /\ whandle \in [Workers -> Iseqs \cup {None, Main}]
      /\ TypeOK
    BY DEF UnitInv, TypeOK, TypeWorkers
<1>1. /\ wpc[w] = "load" /\ wpc' = [wpc EXCEPT ![w] = "publish"]
      /\ unit' = [unit EXCEPT ![u] = Unlinked(unit[u])]
      /\ UNCHANGED <<wunit, wexit, obsolete_units, ui, jit_code>>
    BY DEF WorkerDlopen, Goto, lists, iseqs
<1>2. u \in Units /\ unit[u] \in UnitType /\ unit[u].ui \in Iseqs
    <2>1. Held(w)
        BY <1>1 DEF Held
    <2>2. u \in Hands
        BY <1>0, <2>1, HeldIsUnit
    <2>3. u \in Units /\ unit[u].ui \in Iseqs
        BY <2>2, HandOwner
    <2> QED
        BY <1>0, <2>3 DEF TypeOK, TypeUnits
<1>3. unit[u].ofname /\ wexit[w] /\ unit[u].obj = unit[u].ui
    BY <1>1 DEF Stage
<1>4. PICK h \in {unit[u].ui} \cup (IF "dl_fail" \in Events THEN {None} ELSE {}) :
          whandle' = [whandle EXCEPT ![w] = h]
    BY <1>3 DEF WorkerDlopen
<1>5. h \in {None, unit[u].ui} /\ (Aot => h # None)
    BY <1>2, IseqsAssumption DEF Benign
<1>6. unit'[u].ui = unit[u].ui /\ NotFreed'
    <2>1. unit'[u] = Unlinked(unit[u]) /\ (NotFreed => NotFreed')
        <3>1. Unlinked(unit[u]).freed_p = unit[u].freed_p
            BY <1>2, FreedStays
        <3> HIDE DEF u
        <3> QED
            BY <1>0, <1>1, <1>2, <3>1, StillNotFreed
    <2> QED
        BY <1>2, <2>1, FreedStays
<1>7. wpc'[w] = "publish" /\ whandle'[w] = h /\ wexit'[w] /\ wunit'[w] = u
    BY <1>0, <1>1, <1>3, <1>4
<1>8. Stage(w)'
    <2> HIDE DEF u
    <2> QED
        BY <1>5, <1>6, <1>7 DEF Stage
<1> QED
    BY <1>1, <1>6, <1>8, NothingHarmed

LEMMA StagePublishes ==
    ASSUME UnitInv, Running, NotFreed, NEW w \in Workers, Stage(w), WorkerPublish(w)
    PROVE  Stage(w)' /\ NotFreed' /\ Harmless
<1> DEFINE u == wunit[w]
           i == unit[u].ui
           h == whandle[w]
<1>0. wpc \in [Workers -> WorkerPcs] /\ TypeOK
    BY DEF UnitInv, TypeOK, TypeWorkers
<1>1. wpc[w] = "publish" /\ wpc' = [wpc EXCEPT ![w] = "loaded"] /\ wexit' = wexit
    BY DEF WorkerPublish, Goto
<1>2. /\ u \in Units /\ unit[u] \in UnitType /\ i \in Iseqs /\ u # "NOT_READY_AOT"
    <2>1. Held(w)
        BY <1>1 DEF Held
    <2>2. u \in Hands
        BY <1>0, <2>1, HeldIsUnit
    <2>3. u \in Units /\ unit[u].ui \in Iseqs
        BY <2>2, HandOwner
    <2> QED
        BY <1>0, <2>3, UnitsAssumption DEF TypeOK, TypeUnits, NotCode
<1>3. h \in {None, i} /\ (Aot => h # None)
    BY <1>1 DEF Stage
<1>4. Stage(w)'
    <2>1. wpc'[w] = "loaded" /\ wexit'[w] = wexit[w]
        BY <1>0, <1>1
    <2> QED
        BY <2>1, OffStage DEF Stages
<1>5. CASE /\ unit' = [unit EXCEPT ![u].ofname = FALSE]
           /\ UNCHANGED <<obsolete_units, ui, jit_code>>
    <2> DEFINE r == [unit[u] EXCEPT !.ofname = FALSE]
    <2>1. r.freed_p = unit[u].freed_p /\ unit' = [unit EXCEPT ![u] = r]
        BY <1>2, <1>5, FreedStays
    <2> HIDE DEF r, u
    <2> QED
        BY <1>0, <1>2, <1>4, <1>5, <2>1, StillNotFreed, NothingHarmed
<1>6. CASE /\ h = None /\ discard_unit(u) /\ jit_code' = [jit_code EXCEPT ![i] = "NOT_ADDED"]
           /\ UNCHANGED obsolete_units
    <2> HIDE DEF u, h
    <2> QED
        BY <1>2, <1>3, <1>4, <1>6, DiscardHarms DEF i
<1>7. CASE /\ jit_code' = [jit_code EXCEPT ![i] = u] /\ UNCHANGED <<obsolete_units, ui>>
           /\ unit' = [unit EXCEPT ![u] = [@ EXCEPT !.status = "LOADED", !.handle = h,
                                                    !.ofname = FALSE]]
    <2> DEFINE r == [unit[u] EXCEPT !.status = "LOADED", !.handle = h, !.ofname = FALSE]
    <2>1. r.freed_p = unit[u].freed_p /\ unit' = [unit EXCEPT ![u] = r]
        BY <1>2, <1>7, FreedStays, SMTT(30)
    <2>2. \A j \in Iseqs : jit_code'[j] = "NOT_READY_AOT" => jit_code[j] = "NOT_READY_AOT"
        BY <1>0, <1>2, <1>7, CodeWritten
    <2> HIDE DEF r, u
    <2>3. NotFreed'
        BY <1>0, <1>2, <2>1, StillNotFreed
    <2> QED
        BY <1>4, <1>7, <2>2, <2>3 DEF Harmless
<1> QED
    BY <1>3, <1>5, <1>6, <1>7 DEF WorkerPublish

LEMMA WorkerKeepsCalm ==
    ASSUME Benign, UnitInv, PchInv, StageInv, Running => CalmInv, NEW w \in Workers, worker(w)
    PROVE  StageInv' /\ (Running => CalmInv') /\ UNCHANGED fault
<1>0. TypeOK /\ Stage(w) /\ ~WorkerAbort(w)
    BY WorkerDoesNotAbort DEF UnitInv, StageInv
<1>1. /\ UNCHANGED <<cpc, ciseq, cret>> /\ (mjit_init_p' => mjit_init_p)
      /\ (Adding' <=> Adding) /\ \A i : Replacing(i)' <=> Replacing(i)
    <2>1. UNCHANGED <<cpc, ciseq, cret>> /\ (mjit_init_p' => mjit_init_p)
        BY WorkerFrame
    <2> QED
        BY <2>1 DEF Adding, Replacing
<1>2. UNCHANGED fault
    BY <1>0
    DEF worker, WorkerPch, WorkerSwitchOff, WorkerLeave, WorkerTop, WorkerExit,
        WorkerIdle, WorkerEnterTranslation, WorkerTranslate, WorkerLeaveTranslation,
        WorkerSpawn, WorkerStatus, WorkerCheck, WorkerDlopen, WorkerPublish, WorkerLoaded
<1>3. Stage(w)' /\ (Running => NotFreed' /\ Harmless)
    <2>1. CASE WorkerCheck(w) \/ WorkerDlopen(w) \/ WorkerPublish(w)
        <3>1. Held(w)
            BY <2>1 DEF Held, WorkerCheck, WorkerDlopen, WorkerPublish
        <3>2. Running /\ NotFreed
            BY <1>0, <3>1, HolderRuns DEF CalmInv
        <3> QED
            BY <1>0, <2>1, <3>2, StageChecks, StageOpens, StagePublishes
    <2>2. CASE \/ WorkerPch(w) \/ WorkerSwitchOff(w) \/ WorkerLeave(w) \/ WorkerExit(w)
               \/ WorkerIdle(w) \/ WorkerLoaded(w) \/ WorkerTop(w)
        <3>1. UNCHANGED <<obsolete_units, ui, jit_code>>
            BY <2>2 DEF WorkerPch, WorkerSwitchOff, WorkerLeave, WorkerExit,
                               WorkerIdle, WorkerLoaded, WorkerTop, lists, iseqs
        <3>2. Stage(w)' /\ (NotFreed => NotFreed')
            BY <1>0, <2>2, StageOutside
        <3> QED
            BY <3>1, <3>2, NothingHarmed DEF CalmInv
    <2>3. CASE \/ WorkerEnterTranslation(w) \/ WorkerTranslate(w)
               \/ WorkerLeaveTranslation(w) \/ WorkerSpawn(w) \/ WorkerStatus(w)
        <3>1. UNCHANGED <<obsolete_units, ui, jit_code>>
            BY <2>3 DEF WorkerEnterTranslation, WorkerTranslate,
                     WorkerLeaveTranslation, WorkerSpawn, WorkerStatus, lists, iseqs
        <3>2. Stage(w)' /\ (NotFreed => NotFreed')
            BY <1>0, <2>3, StageCompiles
        <3> QED
            BY <3>1, <3>2, NothingHarmed DEF CalmInv
    <2> QED
        BY <1>0, <2>1, <2>2, <2>3 DEF worker
<1>4. StageInv'
    BY <1>3 DEF StageInv, Benign
<1>5. ASSUME Running PROVE CalmInv'
    <2>0. CalmInv /\ Harmless /\ NotFreed' /\ \A i \in Iseqs : ui[i].unit \in Units \cup {None}
        BY <1>3, <1>5, KnownUnits
    <2>1. NoStaleUnit'
        <3> SUFFICES ASSUME NEW i \in Iseqs, ui'[i].unit \in obsolete_units'
                     PROVE  Replacing(i)' \/ (~mjit_init_p' /\ (cpc' = "add"
                              \/ (~Adding' /\ cpc' # "enqueue")))
            BY DEF NoStaleUnit
        <3>1. ui'[i].unit # None
            BY KnownUnits, <2>0 DEF Harmless
        <3>2. ui[i].unit \in obsolete_units
            BY <2>0, <3>1 DEF Harmless
        <3> QED
            BY <1>1, <2>0, <3>2 DEF CalmInv, NoStaleUnit
    <2>2. AotHasUnit'
        <3> SUFFICES ASSUME NEW i \in Iseqs, jit_code'[i] = "NOT_READY_AOT"
                     PROVE  Aot /\ (ui'[i].unit # None \/ ~mjit_init_p' \/ Replacing(i)')
            BY DEF AotHasUnit
        <3>1. jit_code[i] = "NOT_READY_AOT"
            BY <2>0 DEF Harmless
        <3>2. Aot /\ ui' = ui
            BY <2>0, <3>1 DEF Harmless, CalmInv, AotHasUnit
        <3> QED
            BY <1>1, <2>0, <3>1, <3>2 DEF CalmInv, AotHasUnit
    <2>3. ClientCalm'
        BY <1>1, <2>0 DEF CalmInv, ClientCalm, Harmless
    <2> QED
        BY <2>0, <2>1, <2>2, <2>3 DEF CalmInv
<1> QED
    BY <1>2, <1>4, <1>5

-----------------------------------------------------------------------------
\* The client leaves the units in the hands of the workers alone.

Spared(u) ==
    /\ unit'[u].status = unit[u].status /\ unit'[u].ui = unit[u].ui
    /\ unit'[u].ofname = unit[u].ofname /\ unit'[u].obj = unit[u].obj

LEMMA SparedKeepStage ==
    ASSUME TypeOK, StageInv, UNCHANGED wv, \A u \in Hands : Spared(u)
    PROVE  StageInv'
<1> SUFFICES ASSUME NEW w \in Workers PROVE Stage(w)'
    BY DEF StageInv
<1>1. /\ wpc'[w] = wpc[w] /\ wunit'[w] = wunit[w] /\ wexit'[w] = wexit[w]
      /\ whandle'[w] = whandle[w] /\ Stage(w)
    BY DEF wv, StageInv
<1>2. CASE ~Held(w)
    <2>1. wpc'[w] \notin Stages
        BY <1>1, <1>2 DEF Held, Stages
    <2> QED
        BY <1>1, <2>1, OffStage
<1>3. CASE Held(w)
    <2>1. Spared(wunit[w])
        BY <1>3, HeldIsUnit
    <2> QED
        BY <1>1, <2>1 DEF Stage, Spared
<1> QED
    BY <1>2, <1>3

LEMMA UntouchedIsSpared ==
    ASSUME \A u \in Hands : unit'[u] = unit[u]
    PROVE  \A u \in Hands : Spared(u)
BY DEF Spared

\* A unit record that keeps its freed_p, or is new, is not a freed one.
LEMMA ClientWrites ==
    ASSUME Orderly, UnitInv, Running, NotFreed, client
    PROVE  (\A u \in Hands : Spared(u)) /\ NotFreed'
<1>0. /\ TypeOK /\ unit \in [Units -> UnitType] /\ Hands \subseteq Units
    BY HeldIsUnit DEF UnitInv, TypeOK, TypeUnits
<1>1. CASE UNCHANGED unit
    BY <1>1, UntouchedIsSpared DEF NotFreed
<1>2. CASE create_iseq_unit
    <2>1. PICK u \in Available : unit' = [unit EXCEPT ![u] = NewUnit(ciseq)]
        BY <1>2 DEF create_iseq_unit
    <2>2. u \in Units /\ u \notin Hands
        BY DEF Available, UnitInv, PlaceInv, TypeOK, TypeLists
    <2>3. unit'[u] = NewUnit(ciseq) /\ \A v \in Units : v # u => unit'[v] = unit[v]
        BY <1>0, <2>1, <2>2
    <2>4. ~NewUnit(ciseq).freed_p
        BY DEF NewUnit
    <2>5. NotFreed'
        BY <2>3, <2>4 DEF NotFreed
    <2>6. \A v \in Hands : unit'[v] = unit[v]
        BY <1>0, <2>2, <2>3
    <2> QED
        BY <2>5, <2>6, UntouchedIsSpared
<1>3. CASE mjit_add_iseq_to_process
    <2>0. curr_unit \in Units /\ curr_unit \notin Hands
        BY <1>3, KnownUnits
        DEF mjit_add_iseq_to_process, UnitInv, PlaceInv, TypeOK, TypeClient, Forming
    <2>1. CASE unit' = [unit EXCEPT ![curr_unit].status = "IN_QUEUE"]
        <3> DEFINE r == [unit[curr_unit] EXCEPT !.status = "IN_QUEUE"]
        <3>1. r.freed_p = unit[curr_unit].freed_p /\ unit' = [unit EXCEPT ![curr_unit] = r]
            BY <1>0, <2>0, <2>1, FreedStays
        <3> HIDE DEF r
        <3>2. NotFreed'
            BY <1>0, <2>0, <3>1, StillNotFreed
        <3>3. \A v \in Hands : unit'[v] = unit[v]
            BY <1>0, <2>0, <3>1
        <3> QED
            BY <3>2, <3>3, UntouchedIsSpared
    <2>2. ASSUME NEW used \in SUBSET Iseqs, NEW evicted \in Evictable(used),
                 Unload(used, evicted)
          PROVE  (\A u \in Hands : Spared(u)) /\ NotFreed'
        <3> DEFINE gone == Unused(obsolete_units, used) \cup (IF Aot THEN {} ELSE evicted)
        <3>1. (gone \cup evicted) \cap Hands = {}
            BY DEF Evictable, Unused, UnitInv, PlaceInv
        <3>2. \A u \in Units : unit'[u] =
                  CASE u = curr_unit -> [unit[u] EXCEPT !.status = "IN_QUEUE"]
                    [] u \in gone -> Freed(unit[u])
                    [] u \in evicted \ gone ->
                         [unit[u] EXCEPT !.status = "IN_QUEUE", !.handle = None]
                    [] OTHER -> unit[u]
            BY <2>2 DEF Unload
        <3>3. \A u \in Units :
                  /\ [unit[u] EXCEPT !.status = "IN_QUEUE"].freed_p = unit[u].freed_p
                  /\ Freed(unit[u]).freed_p = unit[u].freed_p
                  /\ [unit[u] EXCEPT !.status = "IN_QUEUE", !.handle = None].freed_p
                       = unit[u].freed_p
            BY <1>0 DEF UnitType, Freed
        <3>4. curr_unit \notin gone \cup evicted
            BY <2>0, KnownUnits
            DEF Evictable, Unused, UnitInv, PlaceInv, Forming
        <3> HIDE DEF gone
        <3>5. ASSUME NEW u \in Units
              PROVE  unit'[u] \in {[unit[u] EXCEPT !.status = "IN_QUEUE"], Freed(unit[u]),
                                   [unit[u] EXCEPT !.status = "IN_QUEUE", !.handle = None],
                                   unit[u]}
            BY <3>2, <3>4
        <3>6. \A u \in Hands : unit'[u] = unit[u]
            BY <1>0, <2>0, <3>1, <3>2
        <3>7. NotFreed'
            BY <3>3, <3>5 DEF NotFreed
        <3> QED
            BY <3>6, <3>7, UntouchedIsSpared
    <2> QED
        BY <1>3, <2>1, <2>2 DEF mjit_add_iseq_to_process
<1>4. ASSUME NEW b \in BOOLEAN, mjit_redo_iseq(b), ~UNCHANGED unit
      PROVE  (\A u \in Hands : Spared(u)) /\ NotFreed'
    <2> DEFINE u == ui[ciseq].unit
               r == [unit[u] EXCEPT !.status = "FAILED"]
    <2>1. cpc = "redo" /\ unit' = [unit EXCEPT ![u].status = "FAILED"]
        BY <1>4 DEF mjit_redo_iseq, Obsolete
    <2>2. ciseq \in Iseqs /\ IsCode(ciseq)
        BY <2>1 DEF UnitInv, ClientInv, TypeOK, TypeClient
    <2>3. u \in active_units
        BY <2>2 DEF UnitInv, CodeInv
    <2>4. u \in Units /\ u \notin Hands
        BY <2>3 DEF UnitInv, PlaceInv, TypeOK, TypeLists
    <2>5. r.freed_p = unit[u].freed_p /\ unit' = [unit EXCEPT ![u] = r]
        BY <1>0, <2>1, <2>4, FreedStays
    <2> HIDE DEF r, u
    <2>6. NotFreed'
        BY <1>0, <2>4, <2>5, StillNotFreed
    <2>7. \A v \in Hands : unit'[v] = unit[v]
        BY <1>0, <2>4, <2>5
    <2> QED
        BY <2>6, <2>7, UntouchedIsSpared
<1>5. CASE increase_unit_priority
    <2> DEFINE u == ui[ciseq].unit
               r == [unit[u] EXCEPT !.high_priority_p = TRUE]
    <2>1. cpc = "get" /\ u # None /\ unit' = [unit EXCEPT ![u] = r]
        BY <1>5 DEF increase_unit_priority
    <2>2. u \in Units
        BY <2>1, KnownUnits DEF UnitInv, TypeOK, TypeClient
    <2>3. /\ r.freed_p = unit[u].freed_p /\ r.status = unit[u].status /\ r.ui = unit[u].ui
          /\ r.ofname = unit[u].ofname /\ r.obj = unit[u].obj
        BY <1>0, <2>2 DEF UnitType
    <2> HIDE DEF r, u
    <2>4. unit'[u] = r /\ NotFreed'
        BY <1>0, <2>1, <2>2, <2>3, StillNotFreed
    <2>5. \A v \in Units : v # u => unit'[v] = unit[v]
        BY <1>0, <2>1
    <2>6. \A v \in Units : Spared(v)
        BY <2>3, <2>4, <2>5 DEF Spared
    <2> QED
        BY <1>0, <2>4, <2>6
<1>6. CASE mjit_cancel_all /\ ~UNCHANGED unit
    <2>1. PICK new \in Replacements(Broken) :
            LET of(v) == unit[CHOOSE u \in Broken : new[u] = v].ui IN
            unit' = [v \in Units |->
                     CASE v \in Broken -> [unit[v] EXCEPT !.status = "FAILED"]
                       [] v \in Range(new) -> [NewUnit(of(v)) EXCEPT !.status = "IN_QUEUE"]
                       [] OTHER -> unit[v]]
        BY <1>6 DEF mjit_cancel_all
    <2> DEFINE of(v) == unit[CHOOSE u \in Broken : new[u] = v].ui
    <2>2. Range(new) \subseteq free_unit_list \cup heap /\ Broken \subseteq active_units
        BY SMTT(30) DEF Replacements, Injection, IsInjective, Range, Broken
    <2>3. (Range(new) \cup Broken) \cap Hands = {} /\ Range(new) \cap Broken = {}
        BY <2>2 DEF UnitInv, PlaceInv
    <2>4. \A x : ~[NewUnit(x) EXCEPT !.status = "IN_QUEUE"].freed_p
        BY DEF NewUnit
    <2>5. ASSUME NEW v \in Units
          PROVE  unit'[v] \in {[unit[v] EXCEPT !.status = "FAILED"], unit[v],
                               [NewUnit(of(v)) EXCEPT !.status = "IN_QUEUE"]}
                 /\ (v \notin Range(new) \cup Broken => unit'[v] = unit[v])
        BY <2>1, <2>3
    <2>6. \A v \in Hands : unit'[v] = unit[v]
        BY <1>0, <2>3, <2>5
    <2>7. \A v \in Units : [unit[v] EXCEPT !.status = "FAILED"].freed_p = unit[v].freed_p
        BY <1>0, FreedStays
    <2> HIDE DEF of
    <2>8. NotFreed'
        BY <2>4, <2>5, <2>7 DEF NotFreed
    <2> QED
        BY <2>6, <2>8, UntouchedIsSpared
<1>7. CASE mjit_finish
    <2> DEFINE all == unit_queue \cup active_units \cup obsolete_units
    <2>1. unit' = [u \in Units |-> IF u \in all THEN Freed(unit[u]) ELSE unit[u]]
        BY <1>7 DEF mjit_finish
    <2>2. all \cap Hands = {} /\ \A u \in Units : Freed(unit[u]).freed_p = unit[u].freed_p
        BY <1>0, FreedStays DEF UnitInv, PlaceInv
    <2> HIDE DEF all
    <2>3. \A u \in Hands : unit'[u] = unit[u]
        BY <1>0, <2>1, <2>2
    <2>4. NotFreed'
        BY <2>1, <2>2 DEF NotFreed
    <2> QED
        BY <2>3, <2>4, UntouchedIsSpared
<1>8. ASSUME NEW i \in Iseqs PROVE ~mjit_free_iseq(i)
    BY DEF mjit_free_iseq, Orderly
<1> QED
    BY <1>1, <1>2, <1>3, <1>4, <1>5, <1>6, <1>7, <1>8
    DEF client, ClientCall, mjit_aot_process, ClientSpecFail, ClientAotCall, AddStart,
        TraceSet, mjit_get_iseq_fun, BopRedefined, TraceRecalc, GcEnter, mjit_gc_start,
        mjit_gc_finish, FinishStart, FinishPch, FinishFlag, FinishWake,
        child_after_fork, ClientAbort, Abort, MemoryBound

\* The assertions of mark_unit_iseqs and unload_units hold, the unit of
\* mjit_get_iseq_fun is there, and mjit_cancel_all starts no collection.
LEMMA ClientDoesNotAbort ==
    ASSUME Benign, UnitInv, Running => CalmInv
    PROVE  ~ClientAbort
<1>1. ASSUME cpc = "enqueue" PROVE CanUnload
    <2>0. /\ Running /\ StatusInv /\ OwnInv /\ NoStaleUnit
        BY <1>1 DEF Running, UnitInv, CalmInv
    <2>1. \A u \in active_units \cup obsolete_units : unit[u].ui \in Iseqs /\ unit[u].ui # None
        BY <2>0, IseqsAssumption, SMTT(30) DEF OwnInv, Owned
    <2>2. \A u \in active_units \cup obsolete_units : unit[u].handle # None
        BY <2>0, <2>1 DEF StatusInv
    <2>3. \A i \in Iseqs : ui[i].unit \notin obsolete_units
        BY <1>1, <2>0 DEF NoStaleUnit, Replacing, Adding
    <2>4. \A u \in active_units : ui[unit[u].ui].unit = u /\ ui[unit[u].ui].iseq
        BY <2>0 DEF OwnInv, Owned
    <2> QED
        BY <2>1, <2>2, <2>3, <2>4 DEF CanUnload
<1>2. CanPrint
    BY DEF CanPrint, Benign
<1>3. cpc \in {"get", "cancel"} => Running /\ ClientCalm
    BY DEF CalmInv, Running
<1> QED
    BY <1>1, <1>2, <1>3 DEF ClientAbort, ClientCalm

LEMMA MovesKeepCalm ==
    ASSUME Running, NoStaleUnit, AotHasUnit, Moves
    PROVE  NoStaleUnit' /\ AotHasUnit'
<1>0. /\ obsolete_units' = obsolete_units /\ ui' = ui /\ jit_code' = jit_code
      /\ mjit_init_p' = mjit_init_p
    BY DEF Moves, lists
<1>1. /\ cpc = "enqueue" <=> cpc' = "enqueue"
      /\ Adding' => Adding /\ ciseq' = ciseq
      /\ cpc = "add" /\ Adding' => mjit_init_p \/ cpc' = "add"
      /\ \A i : mjit_init_p /\ Replacing(i) => Replacing(i)'
    BY DEF Moves, Replacing
<1>2. NoStaleUnit'
    <2> SUFFICES ASSUME NEW i \in Iseqs, ui[i].unit \in obsolete_units
                 PROVE  Replacing(i)' \/ (~mjit_init_p /\ (cpc' = "add"
                          \/ (~Adding' /\ cpc' # "enqueue")))
        BY <1>0 DEF NoStaleUnit
    <2>1. Replacing(i) \/ (~mjit_init_p /\ (cpc = "add" \/ (~Adding /\ cpc # "enqueue")))
        BY DEF NoStaleUnit
    <2>2. CASE mjit_init_p
        BY <1>1, <2>1, <2>2
    <2>3. CASE ~mjit_init_p
        <3>1. cpc # "enqueue"
            BY <2>1 DEF Replacing, Adding
        <3>2. Adding' => Replacing(i)' \/ (cpc' = "add" \/ ~Adding)
            BY <1>1, <2>1, <2>3 DEF Replacing
        <3> QED
            BY <1>1, <2>3, <3>1, <3>2
    <2> QED
        BY <2>2, <2>3
<1>3. AotHasUnit'
    BY <1>0, <1>1 DEF AotHasUnit
<1> QED
    BY <1>2, <1>3

LEMMA AddsKeepCalm ==
    ASSUME UnitInv, NoStaleUnit, AotHasUnit, NEW i \in Iseqs, Adds(i)
    PROVE  NoStaleUnit' /\ AotHasUnit'
<1>0. /\ obsolete_units' = obsolete_units /\ ui' = ui /\ mjit_init_p /\ mjit_init_p'
      /\ cpc = "run" /\ cpc' = "add" /\ ciseq' = i
    BY DEF Adds, lists
<1>1. ~Adding /\ Replacing(i)' /\ \A j : ~Replacing(j)
    BY <1>0 DEF Adding, Replacing
<1>2. NoStaleUnit'
    BY <1>0, <1>1 DEF NoStaleUnit
<1>3. \A j \in Iseqs : j # i => jit_code'[j] = jit_code[j]
    BY CodeWritten DEF Adds, UnitInv
<1>4. jit_code'[i] = "NOT_READY_AOT" => Aot
    BY CodeWritten DEF Adds, UnitInv, NotReady
<1>5. ASSUME NEW j \in Iseqs, jit_code'[j] = "NOT_READY_AOT"
      PROVE  Aot /\ (ui'[j].unit # None \/ ~mjit_init_p' \/ Replacing(j)')
    <2>1. CASE j = i
        BY <1>1, <1>4, <1>5, <2>1
    <2>2. CASE j # i
        BY <1>0, <1>1, <1>3, <1>5, <2>2 DEF AotHasUnit
    <2> QED
        BY <2>1, <2>2
<1>6. AotHasUnit'
    BY <1>5 DEF AotHasUnit
<1> QED
    BY <1>2, <1>6

LEMMA FormsKeepsCalm ==
    ASSUME UnitInv, NoStaleUnit, AotHasUnit, NEW u \in Units, Forms(u)
    PROVE  NoStaleUnit' /\ AotHasUnit'
<1>0. /\ obsolete_units' = obsolete_units /\ jit_code' = jit_code
      /\ mjit_init_p' = mjit_init_p /\ cpc = "create" /\ u \in free_unit_list \cup heap
      /\ ui'[ciseq].unit = u /\ \A i \in Iseqs : i # ciseq => ui'[i] = ui[i]
    BY DEF Forms, lists
<1>1. u \notin obsolete_units /\ u # None /\ Adding /\ \A i : Replacing(i) => i = ciseq
    BY <1>0, KnownUnits DEF UnitInv, PlaceInv, Adding, Replacing
<1>2. NoStaleUnit'
    <2>1. ASSUME NEW i \in Iseqs PROVE ui'[i].unit \notin obsolete_units
        <3>1. CASE i = ciseq
            BY <1>0, <1>1, <3>1
        <3>2. CASE i # ciseq
            BY <1>0, <1>1, <3>2 DEF NoStaleUnit
        <3> QED
            BY <3>1, <3>2
    <2> QED
        BY <1>0, <2>1 DEF NoStaleUnit
<1>3. AotHasUnit'
    <2>1. ASSUME NEW i \in Iseqs, jit_code[i] = "NOT_READY_AOT"
          PROVE  Aot /\ (ui'[i].unit # None \/ ~mjit_init_p)
        <3>1. CASE i = ciseq
            BY <1>0, <1>1, <2>1, <3>1 DEF AotHasUnit
        <3>2. CASE i # ciseq
            BY <1>0, <1>1, <2>1, <3>2 DEF AotHasUnit
        <3> QED
            BY <3>1, <3>2
    <2> QED
        BY <1>0, <2>1 DEF AotHasUnit
<1> QED
    BY <1>2, <1>3

LEMMA EnqueueKeepsCalm ==
    ASSUME UnitInv, NoStaleUnit, AotHasUnit, NEW E, NEW G, Enqueues(E, G)
    PROVE  NoStaleUnit' /\ AotHasUnit'
<1> DEFINE hit(S, i) == \E v \in S : unit[v].ui = i
<1>0. /\ obsolete_units' \subseteq obsolete_units /\ mjit_init_p' = mjit_init_p
      /\ cpc = "enqueue" /\ E \subseteq active_units
      /\ G \subseteq active_units \cup obsolete_units /\ (Aot => G \subseteq obsolete_units)
    BY DEF Enqueues
<1>1. Running /\ ~Adding /\ \A i : ~Replacing(i)
    BY <1>0 DEF Running, Adding, Replacing
<1>2. /\ None \notin obsolete_units /\ (Aot => G \cap active_units = {})
    BY <1>0, KnownUnits DEF UnitInv, PlaceInv
<1>3. \A i \in Iseqs :
          /\ ui'[i].unit = ui[i].unit \/ ui'[i].unit = None
          /\ (G \cap active_units = {}) => ui'[i].unit = ui[i].unit
          /\ hit((E \cup G) \cap active_units, i) => jit_code'[i] = NotReady
          /\ ~hit((E \cup G) \cap active_units, i) => jit_code'[i] = jit_code[i]
    BY DEF Enqueues
<1>4. NoStaleUnit'
    <2>1. \A i \in Iseqs : ui[i].unit \notin obsolete_units
        BY <1>0, <1>1 DEF NoStaleUnit
    <2>2. \A i \in Iseqs : ui'[i].unit \notin obsolete_units'
        BY <1>0, <1>2, <1>3, <2>1
    <2> QED
        BY <2>2 DEF NoStaleUnit
<1>5. AotHasUnit'
    <2>1. ASSUME NEW i \in Iseqs, jit_code'[i] = "NOT_READY_AOT"
          PROVE  Aot /\ (ui'[i].unit # None \/ ~mjit_init_p)
        <3>1. CASE hit((E \cup G) \cap active_units, i)
            <4>1. Aot
                BY <1>3, <2>1, <3>1 DEF NotReady
            <4>2. PICK v \in active_units : unit[v].ui = i
                BY <3>1
            <4>3. ui[i].unit = v /\ v # None
                BY <1>1, <4>2, ActiveOwners, KnownUnits DEF Owned
            <4> QED
                BY <1>2, <1>3, <4>1, <4>3
        <3>2. CASE ~hit((E \cup G) \cap active_units, i)
            <4>1. jit_code[i] = "NOT_READY_AOT"
                BY <1>3, <2>1, <3>2
            <4>2. Aot /\ (ui[i].unit # None \/ ~mjit_init_p)
                BY <1>1, <4>1 DEF AotHasUnit
            <4> QED
                BY <1>2, <1>3, <4>2
        <3> QED
            BY <3>1, <3>2
    <2> QED
        BY <1>0, <2>1 DEF AotHasUnit
<1> QED
    BY <1>4, <1>5

LEMMA ObsoletesKeepsCalm ==
    ASSUME UnitInv, NoStaleUnit, AotHasUnit, NEW u \in Units, Obsoletes(u)
    PROVE  NoStaleUnit' /\ AotHasUnit'
<1>0. /\ obsolete_units' = obsolete_units \cup {u} /\ mjit_init_p' = mjit_init_p
      /\ cpc = "redo" /\ cpc' = "add" /\ ciseq' = ciseq /\ u = ui[ciseq].unit /\ u # None
      /\ \A i \in Iseqs : ui'[i].unit = ui[i].unit
    BY DEF Obsoletes, SameIseqs
<1>1. /\ ~Adding /\ (\A i : ~Replacing(i)) /\ Running /\ ciseq \in Iseqs
      /\ \A i : i = ciseq => Replacing(i)'
    BY <1>0 DEF Adding, Replacing, Running, UnitInv, TypeOK, TypeClient
<1>2. \A i \in Iseqs : ui[i].unit = u => i = ciseq
    BY <1>0, <1>1, SMTT(30) DEF UnitInv, OwnInv
<1>3. NoStaleUnit'
    <2>1. ASSUME NEW i \in Iseqs, ui'[i].unit \in obsolete_units'
          PROVE  Replacing(i)' \/ (~mjit_init_p' /\ cpc' = "add")
        <3>1. CASE i = ciseq
            BY <1>1, <3>1
        <3>2. CASE i # ciseq
            <4>1. ui[i].unit \in obsolete_units
                BY <1>0, <1>2, <2>1, <3>2
            <4> QED
                BY <1>0, <1>1, <4>1 DEF NoStaleUnit
        <3> QED
            BY <3>1, <3>2
    <2> QED
        BY <2>1 DEF NoStaleUnit
<1>4. /\ jit_code'[ciseq] = NotReady
      /\ \A i \in Iseqs : i # ciseq => jit_code'[i] = jit_code[i]
    BY <1>1, CodeWritten DEF Obsoletes, UnitInv
<1>5. AotHasUnit'
    <2>1. ASSUME NEW i \in Iseqs, jit_code'[i] = "NOT_READY_AOT"
          PROVE  Aot /\ (ui'[i].unit # None \/ ~mjit_init_p' \/ Replacing(i)')
        <3>1. CASE i = ciseq
            BY <1>1, <1>4, <2>1, <3>1 DEF NotReady
        <3>2. CASE i # ciseq
            BY <1>0, <1>1, <1>4, <2>1, <3>2 DEF AotHasUnit
        <3> QED
            BY <3>1, <3>2
    <2> QED
        BY <2>1 DEF AotHasUnit
<1> QED
    BY <1>3, <1>5

LEMMA ReplacesKeepsCalm ==
    ASSUME UnitInv, NoStaleUnit, AotHasUnit, mjit_init_p, NEW B, NEW new, Replaces(B, new)
    PROVE  NoStaleUnit' /\ AotHasUnit'
<1>0. /\ obsolete_units' = obsolete_units \cup B /\ mjit_init_p' = mjit_init_p
      /\ cpc = "cancel" /\ B \subseteq active_units
      /\ \A v \in B : new[v] \in free_unit_list \cup heap
      /\ \A v \in B : ui'[unit[v].ui].unit = new[v] /\ jit_code'[unit[v].ui] = "NOT_READY_JIT"
      /\ \A i \in Iseqs : (\A v \in B : unit[v].ui # i) =>
            ui'[i].unit = ui[i].unit /\ jit_code'[i] = jit_code[i]
    BY DEF Replaces
<1>1. Running /\ ~Adding /\ \A i : ~Replacing(i)
    BY <1>0 DEF Running, Adding, Replacing
<1>2. \A v \in B : new[v] \notin obsolete_units \cup B
    BY <1>0 DEF UnitInv, PlaceInv
<1>3. ASSUME NEW i \in Iseqs PROVE ui'[i].unit \notin obsolete_units'
    <2>1. CASE \E v \in B : unit[v].ui = i
        BY <1>0, <1>2, <2>1
    <2>2. CASE \A v \in B : unit[v].ui # i
        <3>1. ui'[i].unit = ui[i].unit
            BY <1>0, <2>2
        <3>2. ui[i].unit \notin obsolete_units
            BY <1>1 DEF NoStaleUnit
        <3>3. ui[i].unit \notin B
            <4>1. ui[i].unit \in B => unit[ui[i].unit].ui = i
                BY <1>0, <1>1, KnownUnits, SMTT(30) DEF UnitInv, OwnInv, Owned
            <4> QED
                BY <2>2, <4>1
        <3> QED
            BY <1>0, <3>1, <3>2, <3>3
    <2> QED
        BY <2>1, <2>2
<1>4. AotHasUnit'
    <2>1. ASSUME NEW i \in Iseqs, jit_code'[i] = "NOT_READY_AOT"
          PROVE  Aot /\ ui'[i].unit # None
        <3>1. \A v \in B : unit[v].ui # i
            BY <1>0, <2>1
        <3>2. ui'[i].unit = ui[i].unit /\ jit_code[i] = "NOT_READY_AOT"
            BY <1>0, <2>1, <3>1
        <3> QED
            BY <1>1, <3>2 DEF AotHasUnit
    <2> QED
        BY <2>1 DEF AotHasUnit
<1> QED
    BY <1>3, <1>4 DEF NoStaleUnit

\* The Ruby thread only fetches ahead-of-time code that has a unit, and cancels
\* code only where no collection can start.
LEMMA ClientStaysCalm ==
    ASSUME Benign, UnitInv, CalmInv, ~ClientAbort, client
    PROVE  ClientCalm'
<1>0. cret \in {"run", "create"}
    BY DEF UnitInv, TypeOK, TypeClient
<1>1. ASSUME NEW i \in Iseqs, ClientAotCall(i) PROVE ClientCalm'
    <2>1. /\ cpc = "run" /\ mjit_init_p /\ jit_code[i] = "NOT_READY_AOT" /\ ui' = ui
          /\ cpc' = "get" /\ ciseq' = i
        BY <1>1 DEF ClientAotCall, iseqs
    <2>2. ~Replacing(i)
        BY <2>1 DEF Replacing, Adding
    <2>3. Aot /\ ui[i].unit # None
        BY <2>1, <2>2 DEF CalmInv, AotHasUnit
    <2> QED
        BY <2>1, <2>3 DEF ClientCalm
<1>2. CASE BopRedefined \/ TraceRecalc \/ \E b \in BOOLEAN : TraceSet(b)
    BY <1>2 DEF BopRedefined, TraceRecalc, TraceSet, ClientCalm, CalmInv, Benign
<1>3. ASSUME cpc' \in {"get", "recalc", "cancel"} PROVE
             \/ BopRedefined \/ TraceRecalc \/ \E b \in BOOLEAN : TraceSet(b)
             \/ \E i \in Iseqs : ClientAotCall(i)
    <2>1. \A i \in Iseqs : ~ClientCall(i) /\ ~mjit_aot_process(i) /\ ~ClientSpecFail(i)
                           /\ ~mjit_free_iseq(i)
        BY <1>3 DEF ClientCall, mjit_aot_process, ClientSpecFail, mjit_free_iseq, Benign
    <2>2. ~AddStart /\ ~create_iseq_unit /\ ~mjit_add_iseq_to_process
          /\ (\A b \in BOOLEAN : ~mjit_redo_iseq(b))
          /\ ~increase_unit_priority /\ ~mjit_get_iseq_fun /\ ~mjit_cancel_all
        BY <1>3
        DEF AddStart, create_iseq_unit, mjit_add_iseq_to_process, mjit_redo_iseq,
            increase_unit_priority, mjit_get_iseq_fun, mjit_cancel_all
    <2>3. ~GcEnter /\ ~mjit_gc_start /\ ~mjit_gc_finish
        BY <1>0, <1>3 DEF GcEnter, mjit_gc_start, mjit_gc_finish
    <2>4. ~FinishStart /\ ~FinishPch /\ ~FinishFlag /\ ~FinishWake /\ ~mjit_finish
          /\ ~child_after_fork /\ ~MemoryBound
        BY <1>3
        DEF FinishStart, FinishPch, FinishFlag, FinishWake, mjit_finish,
            child_after_fork, MemoryBound, cv
    <2> QED
        BY <2>1, <2>2, <2>3, <2>4 DEF client
<1>4. CASE cpc' \notin {"get", "recalc", "cancel"}
    BY <1>4 DEF ClientCalm
<1> QED
    BY <1>1, <1>2, <1>3, <1>4

LEMMA OffKeepsCalm ==
    ASSUME AotHasUnit, jit_code' = jit_code, ~mjit_init_p', cpc' = "run"
    PROVE  NoStaleUnit' /\ AotHasUnit'
<1>1. ~Adding'
    BY DEF Adding
<1> QED
    BY <1>1 DEF NoStaleUnit, AotHasUnit

LEMMA ClientKeepsCalm ==
    ASSUME Benign, UnitInv, Running, CalmInv, client, Running'
    PROVE  CalmInv'
<1>0. /\ Orderly /\ ~ClientAbort /\ NoStaleUnit /\ AotHasUnit
      /\ NotFreed' /\ ClientCalm'
    BY ClientDoesNotAbort, ClientWrites, ClientStaysCalm DEF Benign, Orderly, CalmInv
<1>1. CASE \/ \E i \in Iseqs : ClientSpecFail(i) \/ ClientAotCall(i)
           \/ \E b \in BOOLEAN : TraceSet(b)
           \/ AddStart \/ increase_unit_priority \/ mjit_get_iseq_fun
           \/ BopRedefined \/ TraceRecalc \/ GcEnter \/ mjit_gc_start \/ mjit_gc_finish
           \/ FinishStart \/ FinishPch \/ FinishFlag \/ FinishWake \/ MemoryBound
    <2>1. Moves
        BY <1>1, ControlMoves
    <2> QED
        BY <1>0, <2>1, MovesKeepCalm DEF CalmInv
<1>2. ASSUME NEW i \in Iseqs, ClientCall(i) \/ mjit_aot_process(i)
      PROVE  NoStaleUnit' /\ AotHasUnit'
    BY <1>0, <1>2, CallMoves, MovesKeepCalm, AddsKeepCalm
<1>3. ASSUME NEW i \in Iseqs PROVE ~mjit_free_iseq(i)
    BY <1>0 DEF mjit_free_iseq, Orderly
<1>4. ASSUME create_iseq_unit PROVE NoStaleUnit' /\ AotHasUnit'
    BY <1>0, <1>4, CreateMoves, FormsKeepsCalm
<1>5. ASSUME mjit_add_iseq_to_process PROVE NoStaleUnit' /\ AotHasUnit'
    BY <1>0, <1>5, EnqueueMoves, EnqueueKeepsCalm
<1>6. ASSUME NEW b \in BOOLEAN, mjit_redo_iseq(b) PROVE NoStaleUnit' /\ AotHasUnit'
    BY <1>0, <1>6, RedoMoves, MovesKeepCalm, ObsoletesKeepsCalm
<1>7. ASSUME mjit_cancel_all PROVE NoStaleUnit' /\ AotHasUnit'
    <2>1. CASE mjit_init_p
        BY <1>0, <1>7, <2>1, CancelMoves, MovesKeepCalm, ReplacesKeepsCalm
    <2>2. CASE ~mjit_init_p
        BY <1>0, <1>7, <2>2, OffKeepsCalm DEF mjit_cancel_all, state
    <2> QED
        BY <2>1, <2>2
<1>8. CASE mjit_finish
    BY <1>8 DEF mjit_finish, Running
<1>9. ASSUME child_after_fork PROVE NoStaleUnit' /\ AotHasUnit'
    BY <1>0, <1>9, OffKeepsCalm DEF child_after_fork, iseqs, cv
<1>10. NoStaleUnit' /\ AotHasUnit'
    BY <1>0, <1>1, <1>2, <1>3, <1>4, <1>5, <1>6, <1>7, <1>8, <1>9
    DEF client, CalmInv
<1> QED
    BY <1>0, <1>10 DEF CalmInv

LEMMA ClientFrame ==
    ASSUME client
    PROVE  /\ Running
           /\ child_after_fork \/ UNCHANGED wv
           /\ ClientAbort \/ UNCHANGED fault
<1>1. Running
    BY DEF client, ClientCall, mjit_aot_process, ClientSpecFail, ClientAotCall,
        mjit_free_iseq, AddStart, create_iseq_unit, mjit_add_iseq_to_process,
        mjit_redo_iseq, TraceSet, increase_unit_priority, mjit_get_iseq_fun,
        BopRedefined, TraceRecalc, mjit_cancel_all, GcEnter, mjit_gc_start,
        mjit_gc_finish, FinishStart, FinishPch, FinishFlag, FinishWake,
        mjit_finish, child_after_fork, MemoryBound, ClientAbort, Running
<1>2. child_after_fork \/ UNCHANGED wv
    BY DEF client, ClientCall, mjit_aot_process, ClientSpecFail, ClientAotCall,
        mjit_free_iseq, AddStart, create_iseq_unit, mjit_add_iseq_to_process,
        mjit_redo_iseq, TraceSet, increase_unit_priority, mjit_get_iseq_fun,
        BopRedefined, TraceRecalc, mjit_cancel_all, GcEnter, mjit_gc_start,
        mjit_gc_finish, FinishStart, FinishPch, FinishFlag, FinishWake,
        mjit_finish, MemoryBound, ClientAbort, Abort
<1>3. ClientAbort \/ UNCHANGED fault
    BY DEF client, ClientCall, mjit_aot_process, ClientSpecFail, ClientAotCall,
        mjit_free_iseq, AddStart, create_iseq_unit, mjit_add_iseq_to_process,
        mjit_redo_iseq, TraceSet, increase_unit_priority, mjit_get_iseq_fun,
        BopRedefined, TraceRecalc, mjit_cancel_all, GcEnter, mjit_gc_start,
        mjit_gc_finish, FinishStart, FinishPch, FinishFlag, FinishWake,
        mjit_finish, child_after_fork, MemoryBound
<1> QED
    BY <1>1, <1>2, <1>3

\* The Ruby thread leaves alone what a worker relies on for its unit.
LEMMA ClientKeepsStage ==
    ASSUME Orderly, UnitInv, StageInv, NotFreed, client
    PROVE  StageInv'
<1>1. CASE child_after_fork
    <2>1. \A w \in Workers : wpc'[w] \notin Stages /\ wexit'[w] = wexit[w]
        BY <1>1 DEF child_after_fork, Stages
    <2> QED
        BY <2>1, OffStage DEF StageInv
<1>2. CASE ~child_after_fork
    <2>1. UNCHANGED wv
        BY <1>2, ClientFrame
    <2>2. \A u \in Hands : Spared(u)
        BY ClientFrame, ClientWrites
    <2> QED
        BY <2>1, <2>2, SparedKeepStage DEF UnitInv
<1> QED
    BY <1>1, <1>2

LEMMA OthersKeepFault ==
    ASSUME UnitInv, NoFault, PchInv, StageInv, Running => CalmInv,
           \/ \E ok \in BOOLEAN : make_pch(ok)
           \/ \E t \in Threads : Spurious(t)
           \/ UNCHANGED vars
    PROVE  NoFault' /\ PchInv' /\ StageInv' /\ (Running' => CalmInv')
<1>1. UNCHANGED <<unit, wv, cv, lists, mem, iseqs, mjit_init_p, fault>>
    BY DEF make_pch, Spurious, vars, state
<1>2. NoFault' /\ (Running' => CalmInv')
    BY <1>1
    DEF NoFault, Running, CalmInv, NotFreed, NoStaleUnit, AotHasUnit, ClientCalm,
        Replacing, Adding, cv, lists, iseqs
<1>3. \A u \in Hands : Spared(u)
    BY <1>1, UntouchedIsSpared
<1>4. StageInv'
    BY <1>1, <1>3, SparedKeepStage DEF UnitInv
<1>5. ASSUME NEW ok \in BOOLEAN, make_pch(ok) PROVE PchInv'
    <2>1. /\ pch_status = "NOT_READY" /\ pch_status' \in {"SUCCESS", "FAILED"}
          /\ UNCHANGED <<wpc, cpc, mjit_init_p>>
        BY <1>1, <1>5 DEF make_pch, wv, cv
    <2>2. \A w \in Workers : wpc[w] \in {"pch", "gone"}
        BY <2>1 DEF PchInv
    <2>3. cpc = "done" => \A w \in Workers : wpc[w] \in {"exit", "done", "gone"}
        BY <2>1 DEF PchInv
    <2>4. Gone' = Gone
        BY <2>1 DEF Gone
    <2> QED
        BY <2>1, <2>2, <2>3, <2>4 DEF PchInv, Before
<1>6. ASSUME UNCHANGED pch_status PROVE PchInv'
    <2>1. UNCHANGED <<wpc, cpc, Gone, mjit_init_p>>
        BY <1>1 DEF wv, cv, Gone
    <2> QED
        BY <1>6, <2>1 DEF PchInv
<1> QED
    BY <1>2, <1>4, <1>5, <1>6 DEF Spurious, vars, state

=============================================================================
