SPECIFICATION Spec
CONSTANTS
    p1 = p1
    p2 = p2
    k1 = k1
    k2 = k2
    CutKey = cut
    Keys = {k1, k2}
    Threads = {t1}
    Runners = {p1, p2}
    Settings <- AloneAndParts
    MaxLaunches = 2
INVARIANTS RecordsKept IndexTruthful LatestWins DoneNotRedone
PROPERTIES ListingGrows ImplementsRunStore JobsSettled
