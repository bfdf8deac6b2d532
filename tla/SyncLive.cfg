\* One shipper, full and short requests: everything is mirrored in the end.
CONSTANTS
    Table = {runs, sessions}
    MaxId = 2
    MaxRev = 3
    Shipper = {s1}
    MaxRows = 2
    BigTable = {}
    MaxBig = 0
    MaxLate = 1
    MaxFaults = 1
    PowerLoss = {}
    NULL = NULL
SPECIFICATION FairSpec
INVARIANT NoGap
PROPERTY EventuallyMirrored
