SPECIFICATION Spec
CONSTANTS
    Word = {0, 1}
    Xor <- MCXor
    NBlocks = 2
    Insns <- MCInsns
INVARIANTS
    DifferenceKept
