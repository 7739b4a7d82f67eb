CONSTANTS
    NBlocks = 8
    Rgrps <- MCRgrps
    Images <- MCImages
    Answers = {"yes", "no", "abort"}
    IntChoices = {"skip", "abort"}
    MaxUser = 2
    BAD_POINTER_TOLERANCE = 2
SPECIFICATION Spec
INVARIANTS
    KeptStayInUse
    KeptAreAllocated
    SharedIsRecorded
