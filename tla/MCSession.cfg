SPECIFICATION DSpec
CONSTANTS
    MaxBatches = 3
    MaxGenerations = 1
    NCons = 1
    Rows = {1, 2}
    Size <- MCSize
INVARIANTS AnswersMatch FailureNotHidden SnapshotCurrent
PROPERTIES CallReturns ImplementsAskTell
