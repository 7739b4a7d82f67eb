CONSTANTS
    Journals = {j1, j2}
    FsBlocks = {b1, b2}
    MaxVer = 3
SPECIFICATION Spec
INVARIANTS
    OnlyHolderReplays
    Recoverable
