SPECIFICATION Spec
CONSTANTS
    t1 = t1
    t2 = t2
    N = 3
    Threads = {t1, t2}
    Ceiling = 2
    Workers = 2
    MaxAsked = 3
    MaxRequests = 2
INVARIANTS Accounted NeverShort EndIsTrue
PROPERTY RunnerEnds
