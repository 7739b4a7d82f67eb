SPECIFICATION Spec
CONSTANTS
    RgrpMaps = 8
    MetaMaps = 12
    MaxRgLen = 14
    MinRgLen = 5
    W32 = 1024
    W64 = 4096
    Options <- MCOptions
    SbAddr = 1
    DiPtrs = 2
    InPtrs = 3
    InDinode = 2
    PerBlock = 4
    QcBlocks = 1
    RgTarget = 14
    Bsize = 512
    DefaultRg = 14
    LeastRg = 7
    MaxBitBlocks = 4
    BadPercent = 17
    Samples = 3
    SkipAhead = 2
    StepBack = 1
    MaxSegments = 4
    Far = 60
    Away = 3
    Mega = 1
    TwoGigs = 40
    TooMany = 5
    MostSteps = 40
    Modes <- MCModes
    PeruseBlocks = 60
    Pairs = {"sb"}
INVARIANTS
    SuperblockMeansWhole
    AccountsAgree
    Restored
PROPERTIES
    OnlyAsked
    FilesKept
    RepairEnds
