CONSTANTS
    Pid = {1, 2, 3}
    InitPid = 1
    Parent <- MCParent
    FirstExe <- MCFirstExe
    Unborn = Unborn
    systemd = systemd
    shell = shell
    app = app
    rustc = rustc
    Exe = {app, rustc}
    CriticalExe = {systemd, shell}
    ExcludeRealtime = {shell}
    LowExe = {rustc}
    SelfPid = 9
    NoPid = 0
    NoExe = NoExe
    Absent = Absent
    Failed = Failed
    NoThread = NoThread
    MaxQueue = 3
    Messages <- MCOneMessageOrNone
    Budgets <- MCShutdown
SPECIFICATION Spec
INVARIANTS TypeOK MutexOK SweepSeesItsCache BarrierHolds CleanupRestores
PROPERTIES OneLateSectionEach
