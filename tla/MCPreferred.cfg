SPECIFICATION MCSpec
CONSTANTS
    va = va
    vb = vb
    Vars <- MCVars
    Bits = 2
    AddrBits = 2
    Snapshot <- MCSnapshot
    Preferred <- MCVars
    Programs <- MCPrograms
    Configs <- MCConfigs
    Chunks = 2
    Starts = {3}
    Widths = {1, 2, 4, 8}
    MaxStores = 1
    MaxLoads = 1
    MaxResets = 1
    Generators = {g1, g2}
    NoOwner = NoOwner
    MaxTime = 3
    MaxBuilds = 1
    Procs = {p1, p2, p3}
    Args = {a1, a2}
    NoProc = NoProc
    CacheSize = 1
    MaxVersion = 2
    Targets = {"EAX"}
    InputRegs = {}
    Selections = {{"CS"}}
    Mnemonics <- MCMnemonics
    Registers <- MCRegisters
    Images <- MCImages
    Words = 44
    High = 256
INVARIANT TestsFollowPath
CHECK_DEADLOCK FALSE
