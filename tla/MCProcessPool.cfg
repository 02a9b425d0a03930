SPECIFICATION Spec
CONSTANTS
    NJobs = 2
    MaxProcs = 4
    Workers = 2
    Ceiling = 2
    MaxFe = 1
    MaxEvents = 1
INVARIANTS Accounted KnowsWhoHolds CountedIsStored EndIsTrue
PROPERTIES PoolEnds
