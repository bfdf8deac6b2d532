\* Only the server may lose power.
CONSTANTS
    Table = {runs, sessions}
    MaxId = 2
    MaxRev = 3
    Shipper = {s1}
    MaxRows = 1
    BigTable = {}
    MaxBig = 0
    MaxLate = 1
    MaxFaults = 1
    PowerLoss = {"server"}
    NULL = NULL
SPECIFICATION Spec
SYMMETRY ModelSymmetry
INVARIANT NoGap
