CONSTANTS
    t = t
    c = c
    Tag = {t}
    Conversation = {c}
    MaxProfileSize = 3
    Scenarios <- MCScenarios
    NULL = NULL
SPECIFICATION Spec
INVARIANTS ParsesAsWritten ProfileWhole ShownUnderOwner IndexCountsOnce NoDeadLink PageMatchesReport
CHECK_DEADLOCK FALSE
