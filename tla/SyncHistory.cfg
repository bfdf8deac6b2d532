\* Pruning and rowid reuse against the server history.
CONSTANTS
    Table = {runs, sessions}
    MaxId = 2
    MaxRev = 3
    Shipper = {s1}
    MaxRows = 1
    BigTable = {}
    MaxBig = 0
    MaxLate = 1
    MaxFaults = 1
    PowerLoss = {}
    NULL = NULL
SPECIFICATION Spec
SYMMETRY ModelSymmetry
PROPERTY HistoryKept
