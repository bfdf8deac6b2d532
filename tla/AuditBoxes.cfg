\* Sandboxes from before the watch, programs that call sandbox_init, App Sandbox binaries; two
\* tags; repeated lines, also after their pid went to another process.
SPECIFICATION Spec
CONSTANTS
    Pid = {1, 2}
    What = {read}
    Tag = {tag, other}
    NoTag = NoTag
    SandboxExec = sandbox_exec
    Platform = {sandbox_exec, shell}
    Entitled = {boxed}
    Prog = {sandbox_exec, tool, boxed}
    Shell = shell
    PreTags = {tag}
    RunTags = {other}
    Slack = 0
    Buffer = 1
    LagCapFactor = 2
    MinRetention = 4
    MaxClock = 5
    MaxVersions = 4
    MaxReports = 3
    ESLag = 0
    LogLag = 0
    Spread = TRUE
    Drops = TRUE
    Unreadable = FALSE
    SelfSandboxes = TRUE
    CleanStop = TRUE
INVARIANTS LedgerExact DuplicatesTogether RightRun
CHECK_DEADLOCK FALSE
