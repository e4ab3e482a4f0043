-------------------------------- MODULE MCGc --------------------------------
EXTENDS GcMark, TLC

CONSTANTS First, Second     \* the slots of two heap pages

TwoPages == [o \in First \cup Second |-> IF o \in First THEN 1 ELSE 2]

Symmetry == Permutations(First) \cup Permutations(Second)
=============================================================================
