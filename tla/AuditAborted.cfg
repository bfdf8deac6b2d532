\* The watch may stop with lines unread.
SPECIFICATION Spec
CONSTANTS
    Pid = {1, 2}
    What = {read}
    Tag = {tag}
    NoTag = NoTag
    SandboxExec = sandbox_exec
    Platform = {sandbox_exec, shell}
    Entitled = {}
    Prog = {sandbox_exec, tool}
    Shell = shell
    PreTags = {}
    RunTags = {tag}
    Slack = 0
    Buffer = 1
    LagCapFactor = 2
    MinRetention = 4
    MaxClock = 5
    MaxVersions = 4
    MaxReports = 1
    ESLag = 1
    LogLag = 1
    Spread = TRUE
    Drops = FALSE
    Unreadable = FALSE
    SelfSandboxes = FALSE
    CleanStop = FALSE
INVARIANTS ChildNotPreExisting
CHECK_DEADLOCK FALSE
