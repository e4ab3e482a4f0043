SPECIFICATION Spec
CONSTANTS
    First = {o1,o2}
    Second = {o3}
    Objects = {o1,o2,o3}
    Pages = {1, 2}
    PageOf <- TwoPages
    OldAge = 2
    MaxRefs = 1
    Programs = {{"write","shady","unprotect","copy","clone","recycle"}}
SYMMETRY Symmetry
INVARIANTS
    NoDangling
    BlackToWhite
    OldToYoung
    FreeSlotsAreClean
    Generations

