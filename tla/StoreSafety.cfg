\* Two watches that may overlap and a migration, on a database of any version.
SPECIFICATION Spec
SYMMETRY ModelSymmetry
CONSTANTS
    Process = {p1, p2}
    Session = {s}
    Profile = {1}
    MaxEnv = 1
    MaxId = 2
    Single = {"denials", "orphans", "run_env", "sessions"}
    MaxRev = 6
    MaxShared = 3
    NULL = NULL
INVARIANTS TypeOK RightParents PruneCompletes NeverRefused OpenIsReady
PROPERTIES UpgradedOnce RecentKept ImplementsReplica
CHECK_DEADLOCK FALSE
