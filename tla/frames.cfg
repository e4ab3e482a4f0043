CONSTANTS
    Iseqs = {i1, i2}
    Insns = {p1}
    Codes = {c1, c2}
    Fibers = {f1, f2}
    None = None
    MaxMutations = 1
    MaxCache = 1
    UnloadShare = 10
    MaxDepth = 2
    Programs = {{"bop", "fiber"}, {"insn", "raise", "fiber", "aot"}, {"insn", "whole"}, {"callcc", "insn"}}
SPECIFICATION Spec
SYMMETRY Symmetry
INVARIANTS
    FramesRunLoadedCode
    

    
