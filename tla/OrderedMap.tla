----------------------------- MODULE OrderedMap -----------------------------
(***************************************************************************)
(* What st.c and hash.c promise: a map that remembers the order in which   *)
(* its keys were inserted.  `map' is the sequence of its <<key, value>>    *)
(* pairs.  A store to a key that is there keeps the key's place; a new key *)
(* goes to the end; nothing else ever changes the order.                   *)
(***************************************************************************)
EXTENDS Naturals, Sequences

CONSTANTS Keys, Values

VARIABLE map

KeysOf(m) == {m[n][1] : n \in DOMAIN m}

Without(m, k) == SelectSeq(m, LAMBDA pair : pair[1] # k)

Init == map = <<>>

Stored(m, k, v) ==
  IF k \in KeysOf(m)
  THEN [n \in DOMAIN m |-> IF m[n][1] = k THEN <<k, v>> ELSE m[n]]
  ELSE Append(m, <<k, v>>)

\* What a store, a deletion and a clear may turn the contents m into.
Outcomes(m) ==
  {Stored(m, k, v) : k \in Keys, v \in Values} \cup {Without(m, k) : k \in Keys} \cup {<<>>}

Next == map' \in Outcomes(map)

Spec == Init /\ [][Next]_map

=============================================================================
