------------------------------ MODULE MCFrames ------------------------------
EXTENDS MjitFrames, TLC

Symmetry == Permutations(Codes) \cup Permutations(Iseqs) \cup Permutations(Insns)
            \cup Permutations(Fibers)
=============================================================================
