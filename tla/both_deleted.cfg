CONSTANTS
    NBlocks = 9
    Images <- SharedIndirect
    Meddled = {}
    Answers = {"yes"}
    IntChoices = {}
    MaxUser = 0
SPECIFICATION Spec
INVARIANTS
    OneIsKept
