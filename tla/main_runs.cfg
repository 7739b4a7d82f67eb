CONSTANTS
    f1 = f1
    f2a = f2a
    f2b = f2b
    f3 = f3
    NPasses = 3
    Faults = {f1, f2a, f2b, f3}
    PassOf <- MCPassOf
    Nolock = FALSE
    Calls <- MCCalls
    MaxRuns = 2
    MaxInts = 1
SPECIFICATION Spec
INVARIANTS
    GoodCodeMeansSound
    DeclinedIsReported
    VerdictUnblocks
