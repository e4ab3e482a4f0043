CONSTANTS
    Iseqs = {i1, i2}
    Insns = {p1}
    Codes = {c1, c2}
    Fibers = {f1}
    None = None
    MaxMutations = 1
    MaxCache = 1
    UnloadShare = 10
    MaxDepth = 2
    Programs = {{"callcc", "insn"}}
SPECIFICATION Spec
SYMMETRY Symmetry
INVARIANTS
    ContinuationsRunLoadedCode
