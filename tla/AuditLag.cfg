\* Streams that are later than the buffer window, up to the lag cap; trees of runs, readable tags or not, pid reuse.
SPECIFICATION Spec
CONSTANTS
    Pid = {1, 2}
    What = {read}
    Tag = {tag}
    NoTag = NoTag
    SandboxExec = sandbox_exec
    Platform = {sandbox_exec, shell}
    Entitled = {}
    Prog = {sandbox_exec, tool}
    Shell = shell
    PreTags = {}
    RunTags = {tag}
    Slack = 0
    Buffer = 1
    LagCapFactor = 3
    MinRetention = 5
    MaxClock = 5
    MaxVersions = 6
    MaxReports = 1
    ESLag = 2
    LogLag = 2
    Spread = TRUE
    Drops = FALSE
    Unreadable = TRUE
    SelfSandboxes = FALSE
    CleanStop = TRUE
INVARIANTS TypeOK LedgerExact AttributedRight RightRun NoLoss RunEndsRight DecidedInTime ClosedAtStop
CHECK_DEADLOCK FALSE
