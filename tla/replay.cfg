CONSTANTS
    JdBlocks = 6
    NJournals = 2
    jd = jd
    md = md
    FsBlocks = {jd, md}
    JData = {jd}
    Situations <- Cases
SPECIFICATION FairSpec
INVARIANTS
    JournalsLegit
    ReplayRestoresCommitted
    AllCleanIsClean
PROPERTIES
    ReplayEnds
    ImplementsLogRecovery
