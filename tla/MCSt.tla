-------------------------------- MODULE MCSt --------------------------------
(* The hash table on small instances. *)
EXTENDS StTable

\* Two keys of the same hash value (one by way of the reserved value) and one that
\* shares their first bin, but not the rest of their path.
Hashes == [k \in Keys |-> CASE k = "a" -> 0 [] k = "b" -> Reserved [] k = "c" -> 16]

Stores(keys) == [k \in keys |-> {"v"}]

\* The Hash methods; st.c's other clients; its less used entry points; traversals whose
\* callbacks insert and delete, and those that do not check for lost entries, whose
\* callbacks only insert.
AllPrograms ==
  {[use |-> {"rb_hash_aset", "st_delete", "rb_hash_shift", "rb_hash_clear",
             "rb_hash_rehash", "st_foreach_check"},
    store |-> Stores(Keys), depth |-> 2],
   [use |-> {"st_insert", "st_delete"},
    store |-> Stores(Keys), depth |-> 0],
   [use |-> {"st_insert2", "st_add_direct", "st_update", "st_shift", "st_clear"},
    store |-> [Stores(Keys) EXCEPT !["b"] = {"v", "w"}], depth |-> 0],
   [use |-> {"st_insert", "st_delete", "st_clear", "st_foreach_check"},
    store |-> Stores({"a", "b"}), depth |-> 2],
   [use |-> {"st_insert", "st_foreach"},
    store |-> Stores(Keys), depth |-> 1]}

\* A Hash that is filled, emptied, and shifted when it is empty.
ShiftsEmpty ==
  {[use |-> {"rb_hash_aset", "rb_hash_shift", "st_shift of empty"}, store |-> Stores(Keys),
    depth |-> 0]}

\* One key for each of the four bins of the smallest table.
FourHashes == [k \in Keys |-> CASE k = "a" -> 0 [] k = "b" -> 1 [] k = "c" -> 2 [] k = "d" -> 3]

=============================================================================
