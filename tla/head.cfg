CONSTANTS
    JdBlocks = 6
    MaxSeq = 3
    Tolerance = 1
    InitJournals <- MCJournals
SPECIFICATION FairSpec
INVARIANTS
    HeadIsHighest
    NeverCalledCorrupt
PROPERTY TerminatesIfDistinct
