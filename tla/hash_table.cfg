SPECIFICATION Spec
CONSTANTS
    LastBlock = 30
    DiPtrs = 8
    InPtrs = 8
    Names <- MCNames
    Hash <- MCHash
    HashBits = 4
    Size <- MCSize
    DiRoom = 3
    LeafRoom = 3
    HashPtrs = 8
    MaxDepth = 3
    Histories <- MCHistories
    Room = {2, 9}
    LongNames = {"long"}
CHECK_DEADLOCK FALSE
INVARIANTS
    TableIsRepaired
    NoneForgotten
    CountsRepaired
