------------------------------ MODULE MCEngine ------------------------------
EXTENDS MjitEngine, TLC

Symmetry == Permutations(Workers) \cup Permutations(Iseqs) \cup Permutations(Units)
=============================================================================
