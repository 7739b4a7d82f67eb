CONSTANTS
    NAddrs = 5
    Images <- MCImages
    IntChoices = {"skip", "abort"}
    MaxUser = 2
SPECIFICATION Spec
INVARIANTS
    CountsAreLinks
    LinkCountsRight
    HeldByItsParent
PROPERTIES
    WalkAdvances
