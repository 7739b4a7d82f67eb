SPECIFICATION Spec
CONSTANTS
    LastBlock = 16
    DiPtrs = 2
    InPtrs = 3
    Names <- MCNames
    Hash <- MCHash
    HashBits = 4
    Size <- MCSize
    DiRoom = 3
    LeafRoom = 3
    HashPtrs = 2
    MaxDepth = 3
    Room <- MCRoom
    MaxOps = 6
CHECK_DEADLOCK FALSE
INVARIANTS
    DirectoryIsSound
PROPERTIES
    ImplementsNameMap
    AddEnds
