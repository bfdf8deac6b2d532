\* A lag cap above the retention, as with the default buffer.
SPECIFICATION Spec
CONSTANTS
    Pid = {1, 2}
    What = {read}
    Tag = {tag}
    NoTag = NoTag
    SandboxExec = sandbox_exec
    Platform = {sandbox_exec, shell}
    Entitled = {}
    Prog = {sandbox_exec, tool}
    Shell = shell
    PreTags = {}
    RunTags = {tag}
    Slack = 1
    Buffer = 1
    LagCapFactor = 6
    MinRetention = 3
    MaxClock = 7
    MaxVersions = 5
    MaxReports = 1
    ESLag = 1
    LogLag = 1
    Spread = TRUE
    Drops = FALSE
    Unreadable = FALSE
    SelfSandboxes = FALSE
    CleanStop = TRUE
INVARIANTS ChildNotPreExisting
CHECK_DEADLOCK FALSE
