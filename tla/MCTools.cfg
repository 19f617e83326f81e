SPECIFICATION MCSpec
CONSTANTS
    va = va
    vb = vb
    Vars <- MCVars
    Bits = 2
    AddrBits = 2
    Snapshot <- MCSnapshot
    Preferred <- MCVars
    Programs <- MCPrograms
    Configs <- MCConfigs
    Chunks = 2
    Starts = {3, 8}
    Widths = {1, 2, 4, 8}
    MaxStores = 2
    MaxLoads = 2
    MaxResets = 1
    Generators = {g1, g2}
    NoOwner = NoOwner
    MaxTime = 3
    MaxBuilds = 2
    Procs = {p1, p2, p3}
    Args = {a1, a2}
    NoProc = NoProc
    CacheSize = 1
    MaxVersion = 2
    Targets = {"EAX", "EFLAGS", "ESI", "CR0", "CS", "DS", "SS", "GDT", "PDE", "MEM"}
    InputRegs = {"AL", "SI"}
    Selections = {{"CS"}, {"DS", "SS"}}
    Mnemonics <- MCMnemonics
    Registers <- MCRegisters
    Images <- MCImages
    Words = 44
    High = 256
INVARIANTS
    StaysFeasible
    CopiesInSync
    QueryCounts
    EachValueFollows
    PinnedBitsKept
    LoadsRight
    ImagesBootableIfQuiet
    IncompleteLocked
    ReturnsOwn
    StateReached
    BlocksFit
    OperandsApart
PROPERTIES
    EnumeratesPaths
    ExplorationEnds
    BehavesAsFlat
    GeneratorsEnd
    StuckForGood
    CallsEnd
CHECK_DEADLOCK FALSE
