CONSTANTS
    NBlocks = 9
    Images <- MCImages
    Meddled <- MCMeddled
    Answers = {"yes", "no", "abort"}
    IntChoices = {"skip", "abort"}
    MaxUser = 1
SPECIFICATION Spec
INVARIANTS
    Unshared
    KeptKeepTheirBlocks
    NoneLeaked
    SystemKept
PROPERTIES
    PassEnds
