------------------------------ MODULE StTable -------------------------------
(***************************************************************************)
(* The hash tables of st.c and the rules under which hash.c uses them.     *)
(*                                                                         *)
(* A table is an array of entries in insertion order and, once it is large *)
(* enough, an array of bins probed by open addressing, which holds entry   *)
(* indices.  A deleted entry keeps its slot and a deleted bin stays marked *)
(* until rebuild_table compacts the entries or moves them to a new table.  *)
(* Traversals (st_general_foreach) call back into the program, which may   *)
(* change or rebuild the table under them.                                 *)
(*                                                                         *)
(* The threads that share a Hash run one at a time under the GVL, so an    *)
(* operation is one action; a traversal is one action per callback.        *)
(***************************************************************************)
EXTENDS Integers, FiniteSets, SequencesExt

CONSTANTS Keys,
          Values,
          HashOf,        \* the type's hash function, as [Keys -> Nat]
          HashWidth,     \* the bits of an st_hash_t
          MinPower2,     \* MINIMAL_POWER2
          MaxPacked,     \* MAX_POWER2_FOR_TABLES_WITHOUT_BINS
          PerturbShift,  \* the 11 of secondary_hash
          MaxPower2,     \* bound: MAX_POWER2
          Programs       \* what programs do: .use is the set of the operations they
                         \* use, .store[k] the set of the values they store under k,
                         \* .depth bounds the traversals nested in one another

\* RESERVED_HASH_VAL, ~0: the hash value that marks a deleted entry.
Reserved == 2^HashWidth - 1

ASSUME StAssumption ==
  /\ HashWidth \in Nat \ {0}
  /\ HashOf \in [Keys -> 0..Reserved]
  /\ MinPower2 \in 1..MaxPower2
  /\ MaxPacked \in 0..MaxPower2
  /\ PerturbShift \in Nat \ {0}

VARIABLES tab,      \* the table
          iters,    \* the traversals in progress, innermost last
          finished, \* has a traversal just left its loop at the end of the entries?
          program   \* the program that uses the table

vars == <<tab, iters, finished, program>>

EMPTY_BIN == 0
DELETED_BIN == 1
ENTRY_BASE == 2

\* UNDEFINED_ENTRY_IND and UNDEFINED_BIN_IND are ~0: adding one to it gives 0.
UNDEFINED == -1

\* Wrong variant: the reserved value is not mapped to another one.
do_hash_raw(k) == HashOf[k]

\* No key may have the hash value that marks a deleted entry.
do_hash(k) == IF HashOf[k] = Reserved THEN 0 ELSE HashOf[k]

-----------------------------------------------------------------------------
(* The table.  entries_bound is Len(entries): what lies behind it is never read. *)

get_power2(size) ==
  Min({n \in MinPower2..MaxPower2 : 2^n > size})

Bound(t) == Len(t.entries)

Entry(t, i) == t.entries[i + 1]

get_allocated_entries(t) == 2^t.power

get_bins_num(t) == 2^(t.power + 1)

NoBins(t) == t.power <= MaxPacked

DELETED_ENTRY_P(e) == e.hash = Reserved

Live(t) == {i \in t.start..Bound(t) - 1 : ~ DELETED_ENTRY_P(Entry(t, i))}

KeysIn(t) == {Entry(t, i).key : i \in Live(t)}

initialize_bins(power) ==
  IF power <= MaxPacked THEN <<>> ELSE [b \in 0..2^(power + 1) - 1 |-> EMPTY_BIN]

make_tab_empty(t) ==
  [t EXCEPT !.start = 0, !.num = 0, !.entries = <<>>,
            !.bins = initialize_bins(t.power)]

st_init_table_with_size(size) ==
  LET power == get_power2(size)
  IN  [power |-> power, start |-> 0, num |-> 0, entries |-> <<>>,
       bins |-> initialize_bins(power)]

-----------------------------------------------------------------------------
(* Probing. *)

\* secondary_hash, from <<ind, perterb>> to the next pair, in a table of n bins.
secondary_hash(probe, n) ==
  LET perterb == probe[2] \div 2^PerturbShift
  IN  <<(5 * probe[1] + perterb + 1) % n, perterb>>

\* Enough steps to shift perterb to zero and then go once round the n bins.
ProbeLength(n) == n + HashWidth \div PerturbShift + 1

\* The bins a search for hash value h visits, in order, each with its perterb.
Path(t, h) ==
  LET n == get_bins_num(t)
      probe[s \in 1..ProbeLength(n)] ==
        IF s = 1 THEN <<h % n, h>> ELSE secondary_hash(probe[s - 1], n)
  IN  probe

PTR_EQUAL(t, i, h, k) == Entry(t, i).hash = h /\ Entry(t, i).key = k

Holds(t, b, h, k) ==
  t.bins[b] >= ENTRY_BASE /\ PTR_EQUAL(t, t.bins[b] - ENTRY_BASE, h, k)

\* A search for the key stops at its bin and at an empty one.
StopsAt(t, b, h, k) == t.bins[b] = EMPTY_BIN \/ Holds(t, b, h, k)

\* The first place of a path whose bin P accepts.
First(path, P(_)) ==
  CHOOSE s \in DOMAIN path : P(path[s][1]) /\ \A r \in 1..s - 1 : ~ P(path[r][1])

\* A search along a path with no such bin goes round the bins for ever.
SearchEnds(t, h, k) == \E s \in DOMAIN Path(t, h) : StopsAt(t, Path(t, h)[s][1], h, k)

find_entry(t, h, k) ==
  LET found == {i \in t.start..Bound(t) - 1 : PTR_EQUAL(t, i, h, k)}
  IN  IF found = {} THEN UNDEFINED ELSE Min(found)

find_table_bin_ind(t, h, k) ==
  LET stop == First(Path(t, h), LAMBDA b : StopsAt(t, b, h, k))
      bin == Path(t, h)[stop][1]
  IN  IF t.bins[bin] = EMPTY_BIN THEN UNDEFINED ELSE bin

find_table_bin_ind_direct(t, h) ==
  Path(t, h)[First(Path(t, h), LAMBDA b : t.bins[b] <= DELETED_BIN)][1]

\* The bin of a new entry, once the search for its key has ended at an empty bin:
\* the first deleted one on the way there, else the empty one.
find_table_bin_ptr_and_reserve(t, h, k) ==
  LET stop == First(Path(t, h), LAMBDA b : StopsAt(t, b, h, k))
      free == {s \in 1..stop : t.bins[Path(t, h)[s][1]] <= DELETED_BIN}
  IN  Path(t, h)[Min(free)][1]

\* The entry index every search for a key computes (st_lookup, st_get_key and the
\* first half of the updates).
find(t, h, k) ==
  IF NoBins(t) THEN find_entry(t, h, k)
  ELSE LET b == find_table_bin_ind(t, h, k)
       IN  IF b = UNDEFINED THEN UNDEFINED ELSE t.bins[b] - ENTRY_BASE

-----------------------------------------------------------------------------
(* Operations, as functions from table to table. *)

\* The table with its bin b, if it has bins, set to value x.
set_bin(t, b, x) == IF NoBins(t) THEN t ELSE [t EXCEPT !.bins[b] = x]

\* A new entry at the end, with its bin b; num_entries grows by n.
AddEntry(t, n, h, k, v, b) ==
  set_bin([t EXCEPT !.num = @ + n,
                    !.entries = Append(@, [hash |-> h, key |-> k, val |-> v])],
          b, Bound(t) + ENTRY_BASE)

\* One turn of the loop of rebuild_table: the entry is copied to the new place.
CopyEntry(t, e) ==
  AddEntry(t, 1, e.hash, e.key, e.val,
           IF NoBins(t) THEN UNDEFINED ELSE find_table_bin_ind_direct(t, e.hash))

\* Compaction in place, or a new table when there is too much or too little room.
Compacts(t) ==
  \/ 2 * t.num <= get_allocated_entries(t) /\ 4 * t.num > get_allocated_entries(t)
  \/ t.num < 2^MinPower2

rebuild_table(t) ==
  FoldLeft(CopyEntry,
           IF Compacts(t) THEN make_tab_empty(t)
                          ELSE st_init_table_with_size(2 * t.num - 1),
           SelectSeq(SubSeq(t.entries, t.start + 1, Bound(t)),
                     LAMBDA e : ~ DELETED_ENTRY_P(e)))

Full(t) == Bound(t) = get_allocated_entries(t)

rebuild_table_if_necessary(t) == IF Full(t) THEN rebuild_table(t) ELSE t

SetRecord(t, i, v) == [t EXCEPT !.entries[i + 1].val = v]

\* st_insert and st_insert2 after rebuild_table_if_necessary; `packed' is what a new
\* entry of a table without bins adds to num_entries.
InsertInto(t, k, v, packed) ==
  LET h == do_hash(k)
      i == find(t, h, k)
  IN  IF i # UNDEFINED THEN SetRecord(t, i, v)
      ELSE IF NoBins(t) THEN AddEntry(t, packed, h, k, v, UNDEFINED)
      ELSE AddEntry(t, 1, h, k, v, find_table_bin_ptr_and_reserve(t, h, k))

st_insert(t, k, v) == InsertInto(rebuild_table_if_necessary(t), k, v, 1)

\* st_add_direct_with_hash: the caller knows that the key is not in the table.
st_add_direct(t, k, v) ==
  CopyEntry(rebuild_table_if_necessary(t), [hash |-> do_hash(k), key |-> k, val |-> v])

\* Wrong variant: the range starts behind whatever entry was deleted.
update_range_for_any(t, i) == [t EXCEPT !.start = i + 1]

update_range_for_deleted(t, i) == IF t.start = i THEN [t EXCEPT !.start = i + 1] ELSE t

\* What a deletion does to the entry at index i and to its bin b; the key and the
\* record stay in memory but are not read again.
MarkDeleted(t, i, b) ==
  update_range_for_deleted(
    set_bin([t EXCEPT !.num = @ - 1,
                      !.entries[i + 1] = [hash |-> Reserved, key |-> "none", val |-> "none"]],
            b, DELETED_BIN),
    i)

\* st_general_delete, and the ST_DELETE case of st_general_foreach.
st_general_delete(t, h, k) ==
  LET i == find(t, h, k)
  IN  IF i = UNDEFINED THEN t
      ELSE MarkDeleted(t, i, IF NoBins(t) THEN UNDEFINED ELSE find_table_bin_ind(t, h, k))

\* st_shift: the first entry goes; in an empty table the range is reset, the bins
\* are left as they are.
st_shift(t) ==
  IF Live(t) = {} THEN [t EXCEPT !.start = 0, !.entries = <<>>]
  ELSE LET e == Entry(t, Min(Live(t))) IN st_general_delete(t, e.hash, e.key)

\* st_update with a callback that leaves the table alone.
st_update(t, k, v, retval) ==
  LET h == do_hash(k)
      i == find(t, h, k)
  IN  CASE retval = "continue" /\ i # UNDEFINED -> SetRecord(t, i, v)
        [] retval = "continue" /\ i = UNDEFINED -> st_add_direct(t, k, v)
        [] retval = "delete" -> st_general_delete(t, h, k)

-----------------------------------------------------------------------------
(* Traversals. *)

\* A traversal waits in a callback: for the entry `key' with hash `hash' found at
\* index i.  `rebuilt' says that rebuilds_num has changed since the call; `check' is
\* check_p.  `due' and `seen' are history: the keys that were there when the
\* traversal began and have stayed, not yet and already passed to the callback.
NextCall(t, f, from) ==
  LET i == Min({j \in Live(t) : j >= from})
      e == Entry(t, i)
  IN  [f EXCEPT !.i = i, !.key = e.key, !.hash = e.hash, !.rebuilt = FALSE,
                !.due = (@ \cap KeysIn(t)) \ {e.key},
                !.seen = (@ \cap KeysIn(t)) \cup {e.key}]

\* The loop condition is false or every entry that is left is deleted.  An index
\* below zero is a huge one in the code.
NoneLeft(t, from) == from < 0 \/ {j \in Live(t) : j >= from} = {}

Running(op) == op \in program.use

\* The table becomes t; every traversal will notice if it was rebuilt.
Becomes(new, rebuilt) ==
  \E t \in {new} :
  /\ tab' = t
  /\ iters' = [n \in DOMAIN iters |->
                 [iters[n] EXCEPT !.rebuilt = @ \/ rebuilt,
                                  !.due = @ \cap KeysIn(t), !.seen = @ \cap KeysIn(t)]]
  /\ finished' = FALSE
  /\ UNCHANGED program

\* The caller's part of the bargain: a callback that has deleted the entry it was
\* called for does not insert its key again (hash.c refuses it, see no_new_key;
\* st_general_foreach could not tell the new entry from the old one).
MayInsert(k) == k \in KeysIn(tab) \/ \A n \in DOMAIN iters : iters[n].key # k

st_insert_step(k, v) ==
  /\ Running("st_insert") /\ MayInsert(k)
  /\ \E t \in {rebuild_table_if_necessary(tab)} : Becomes(InsertInto(t, k, v, 1), Full(tab))

\* st_insert2 does not count the new entry of a table without bins.
st_insert2_step(k, v) ==
  /\ Running("st_insert2") /\ MayInsert(k)
  /\ NoBins(rebuild_table_if_necessary(tab)) => Running("st_insert2 without bins")
  /\ \E t \in {rebuild_table_if_necessary(tab)} : Becomes(InsertInto(t, k, v, 0), Full(tab))

st_add_direct_step(k, v) ==
  /\ Running("st_add_direct") /\ MayInsert(k) /\ k \notin KeysIn(tab)
  /\ Becomes(st_add_direct(tab, k, v), Full(tab))

st_update_step(k, v, retval) ==
  /\ Running("st_update") /\ MayInsert(k)
  /\ Becomes(st_update(tab, k, v, retval),
             Full(tab) /\ retval = "continue" /\ k \notin KeysIn(tab))

\* st_delete and st_delete_safe; rb_hash_delete_entry adds nothing to them.
st_delete_step(k) ==
  /\ Running("st_delete")
  /\ Becomes(st_general_delete(tab, do_hash(k), k), FALSE)

st_shift_step ==
  /\ Running("st_shift")
  /\ Live(tab) = {} => Running("st_shift of empty")
  /\ Becomes(st_shift(tab), FALSE)

st_clear_step ==
  /\ Running("st_clear")
  /\ Becomes(make_tab_empty(tab), TRUE)

\* A new key is refused while the Hash is traversed (the raise changes nothing).
rb_hash_aset(k, v) ==
  /\ Running("rb_hash_aset")
  /\ iters # <<>> => k \in KeysIn(tab)
  /\ Becomes(st_update(tab, k, v, "continue"), Full(tab) /\ k \notin KeysIn(tab))

\* A shift of a Hash that is traversed finds the first entry by a traversal of its
\* own and deletes it as Hash#delete does.
rb_hash_shift ==
  /\ Running("rb_hash_shift")
  /\ Live(tab) = {} => iters # <<>> \/ Running("st_shift of empty")
  /\ Becomes(IF iters = <<>> \/ Live(tab) # {} THEN st_shift(tab) ELSE tab, FALSE)

\* A clear of a Hash that is traversed deletes entry by entry.
rb_hash_clear ==
  /\ Running("rb_hash_clear") /\ tab.num > 0
  /\ IF iters = <<>> THEN Becomes(make_tab_empty(tab), TRUE)
     ELSE Becomes(FoldLeft(LAMBDA t, e : IF DELETED_ENTRY_P(e) THEN t
                                         ELSE st_general_delete(t, e.hash, e.key),
                           tab, tab.entries),
                  FALSE)

rb_hash_rehash ==
  /\ Running("rb_hash_rehash") /\ iters = <<>>
  /\ Becomes(FoldLeft(LAMBDA t, e : IF DELETED_ENTRY_P(e) THEN t ELSE st_insert(t, e.key, e.val),
                      st_init_table_with_size(tab.num), tab.entries),
             FALSE)

\* st_foreach (check FALSE), st_foreach_check and rb_hash_foreach (check TRUE): up to
\* the first callback, or to the end when there is no entry.
ForeachBegin(check) ==
  /\ Running(IF check THEN "st_foreach_check" ELSE "st_foreach")
  /\ Len(iters) < program.depth
  /\ IF NoneLeft(tab, tab.start)
     THEN finished' = TRUE /\ UNCHANGED iters
     ELSE /\ iters' = Append(iters,
                        NextCall(tab, [i |-> 0, key |-> "none", hash |-> 0, rebuilt |-> FALSE,
                                       check |-> check, due |-> KeysIn(tab), seen |-> {}],
                                 tab.start))
          /\ finished' = FALSE
  /\ UNCHANGED <<tab, program>>

\* Wrong variant: a rebuilt table is not noticed.
CurrentIndex_stale(t, f) == f.i

\* The index the traversal goes on from: where the current entry is now.
CurrentIndex(t, f) ==
  LET i == find(t, f.hash, f.key)
  IN  CASE ~ f.rebuilt -> f.i
        [] f.rebuilt /\ i # UNDEFINED -> i
        [] f.rebuilt /\ i = UNDEFINED -> IF NoBins(t) THEN UNDEFINED ELSE UNDEFINED - ENTRY_BASE

Lost(t, f) == f.rebuilt /\ find(t, f.hash, f.key) = UNDEFINED

\* The outer traversals keep their place; what they must still visit follows t.
Outer(t) ==
  [n \in 1..Len(iters) - 1 |-> [iters[n] EXCEPT !.due = @ \cap KeysIn(t),
                                                !.seen = @ \cap KeysIn(t)]]

\* The callback of the innermost traversal returns and the loop runs to the next
\* callback or to its end.  ST_DELETE of an entry that was lost reads outside the
\* entries when check is FALSE: callers do not do that.
ForeachReturn(retval) ==
  /\ iters # <<>>
  /\ \E f \in {Last(iters)} :
     \E t \in {IF retval = "delete" /\ ~ Lost(tab, f)
               THEN st_general_delete(tab, f.hash, f.key) ELSE tab},
        from \in {CurrentIndex(tab, f) + 1} :
         /\ retval = "delete" => f.check \/ ~ Lost(tab, f)
         /\ tab' = t
         /\ \/ /\ Lost(tab, f) /\ f.check
               /\ finished' = FALSE /\ iters' = Outer(t)
            \/ /\ ~ (Lost(tab, f) /\ f.check)
               /\ retval = "stop" \/ (retval = "check" /\ ~ f.check)
               /\ finished' = FALSE /\ iters' = Outer(t)
            \/ /\ ~ (Lost(tab, f) /\ f.check)
               /\ retval \in {"continue", "delete"} \/ (retval = "check" /\ f.check)
               /\ IF NoneLeft(t, from)
                  THEN finished' = TRUE /\ iters' = Outer(t)
                  ELSE /\ iters' = Append(Outer(t), NextCall(t, f, from))
                       /\ finished' = FALSE
  /\ UNCHANGED program

Init ==
  /\ \E size \in {0, 2^MinPower2} : tab = st_init_table_with_size(size)
  /\ iters = <<>>
  /\ finished = FALSE
  /\ program \in Programs

Next ==
  \/ \E k \in DOMAIN program.store : \E v \in program.store[k] : st_insert_step(k, v) \/ st_insert2_step(k, v)
                                   \/ st_add_direct_step(k, v) \/ rb_hash_aset(k, v)
  \/ \E k \in DOMAIN program.store : \E v \in program.store[k], r \in {"continue", "delete"} : st_update_step(k, v, r)
  \/ \E k \in DOMAIN program.store : st_delete_step(k)
  \/ st_shift_step \/ st_clear_step \/ rb_hash_shift \/ rb_hash_clear \/ rb_hash_rehash
  \/ \E check \in BOOLEAN : ForeachBegin(check)
  \/ \E r \in {"continue", "check", "stop", "delete"} : ForeachReturn(r)

Spec == Init /\ [][Next]_vars

-----------------------------------------------------------------------------
(* Properties. *)

\* Every search for a key (st_lookup and the first half of every update) comes to an
\* end, finds the one entry of a key that is in the table and no entry of one that
\* is not, and num_entries (Hash#size) counts the entries.
FindsAll ==
  /\ \A k \in Keys :
       LET i == find(tab, do_hash(k), k)
       IN  /\ NoBins(tab) \/ SearchEnds(tab, do_hash(k), k)
           /\ {j \in Live(tab) : Entry(tab, j).key = k} = {i} \ {UNDEFINED}
  /\ tab.num = Cardinality(Live(tab))

\* What st_check asserts of the bins: each entry has its bin, and the used and the
\* deleted bins together never fill the array.
StCheck ==
  LET used == {b \in DOMAIN tab.bins : tab.bins[b] >= ENTRY_BASE}
      deleted == {b \in DOMAIN tab.bins : tab.bins[b] = DELETED_BIN}
  IN  ~ NoBins(tab) =>
        /\ {tab.bins[b] - ENTRY_BASE : b \in used} = Live(tab)
        /\ Cardinality(used) + Cardinality(deleted) < get_bins_num(tab)

\* A traversal (st_general_foreach) passes every entry that stays in the table to its
\* callback exactly once, whatever the callbacks insert, delete or rebuild meanwhile: it
\* never comes back to an entry, and when it runs to its end it owes none.
ForeachVisitsOnce ==
  [][iters # <<>> =>
       LET f == Last(iters)
       IN  /\ Len(iters') = Len(iters) /\ Last(iters').key # f.key
                => Last(iters').key \notin f.seen
           /\ Len(iters') < Len(iters) /\ finished'
                => f.due \cap KeysIn(tab') = {}]_vars

Contents ==
  LET live == SelectSeq(SubSeq(tab.entries, tab.start + 1, Bound(tab)),
                        LAMBDA e : ~ DELETED_ENTRY_P(e))
  IN  [n \in DOMAIN live |-> <<live[n].key, live[n].val>>]

Map == INSTANCE OrderedMap WITH map <- Contents

\* The table is an insertion-ordered map: compaction, growth, shrinking, packing and
\* unpacking are invisible, and every operation does to the contents what its name says.
ImplementsMap == Map!Spec

=============================================================================
