SPECIFICATION Spec
CONSTANTS
    good = good
    wide = wide
    broken = broken
    NoPoint = NoPoint
    Fails = Fails
    Points = {good, wide, broken}
    Outcome <- SomeOutcome
    PopSize = 1
    Kept = {1}
    Tol0 = 3
    TolEnd = 0
    Tols = {3, 0}
    Modes = {"level", "linear"}
    Theta = 1
    Tau = 50
    Alpha = 95
    SetupFails = FALSE
    MaxSlots = 3
    MaxArchive = 1
    MaxSteps = 2
    MaxMoves = 1
    MaxWork = 7
INVARIANTS OnePlace Truthful FailedIsWorst FailuresEqual CopiesCurrent
