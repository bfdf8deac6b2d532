\* Both machines may lose power and fall back to their last WAL checkpoint; requests of two rows, of
\* which a body limit rejects some.
CONSTANTS
    Table = {runs}
    MaxId = 2
    MaxRev = 2
    Shipper = {s1}
    MaxRows = 2
    BigTable = {runs}
    MaxBig = 1
    MaxLate = 1
    MaxFaults = 2
    PowerLoss = {"endpoint", "server"}
    NULL = NULL
SPECIFICATION Spec
INVARIANTS MirrorBelowCursor AnswerCoversRequest
