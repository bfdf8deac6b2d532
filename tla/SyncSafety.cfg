\* Two shippers of one database, requests of one row.
CONSTANTS
    Table = {runs, sessions}
    MaxId = 2
    MaxRev = 3
    Shipper = {s1, s2}
    MaxRows = 1
    BigTable = {}
    MaxBig = 0
    MaxLate = 1
    MaxFaults = 1
    PowerLoss = {}
    NULL = NULL
SPECIFICATION Spec
SYMMETRY ModelSymmetry
INVARIANTS TypeOK NoGap MirrorBelowCursor AnswerCoversRequest
PROPERTIES ServerOnlyLearns ImplementsReplica
