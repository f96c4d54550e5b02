CONSTANTS
    Pid = {1, 2}
    InitPid = 1
    Parent <- MCParentTwo
    FirstExe <- MCFirstExeTwo
    Unborn = Unborn
    systemd = systemd
    shell = shell
    app = app
    rustc = rustc
    Exe = {app}
    CriticalExe = {systemd, shell}
    ExcludeRealtime = {shell}
    LowExe = {rustc}
    SelfPid = 9
    NoPid = 0
    NoExe = NoExe
    Absent = Absent
    Failed = Failed
    NoThread = NoThread
    MaxQueue = 2
    Messages <- MCOneMessage
    Budgets <- MCStop
SPECIFICATION Spec
INVARIANTS ExitRestoresOthers
