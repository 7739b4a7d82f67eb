SPECIFICATION Spec
CONSTANTS
    RgrpMaps = 8
    MetaMaps = 12
    MaxRgLen = 14
    MinRgLen = 5
    W32 = 64
    W64 = 256
    GrowTarget = 12
    TestModes = {TRUE, FALSE}
    Growers = {g1}
    Adders = {a1, a2}
    MaxRuns = 2
    MaxFaults = 2
    Request = 1
    Cost <- MCCost
    Devices <- MCDevices
    Journals = 1
    Avails <- MCAvails
INVARIANTS
    RindexNamesGroups
    JournalsComplete
PROPERTIES
    RunsEnd
CHECK_DEADLOCK FALSE
