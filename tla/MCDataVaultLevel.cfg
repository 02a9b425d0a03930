SPECIFICATION Spec
CONSTANTS
    good = good
    wide = wide
    broken = broken
    NoPoint = NoPoint
    Fails = Fails
    Points = {good, wide, broken}
    Outcome <- FineOutcome
    PopSize = 1
    Kept = {1}
    Tol0 = 3
    TolEnd = 0
    Tols = {3, 0}
    Modes = {"level"}
    Theta = 1
    Tau = 50
    Alpha = 95
    SetupFails = TRUE
    MaxSlots = 3
    MaxArchive = 1
    MaxSteps = 2
    MaxMoves = 1
    MaxWork = 7
INVARIANT FailuresEqual
