CONSTANTS
    Pid = {1, 2, 3}
    InitPid = 1
    SelfPid = 3
    app = app
    wm = wm
    Exe = {app, wm}
    CriticalExe = {wm}
    MaxInc = 2
    Absent = Absent
SPECIFICATION FairSpec
INVARIANTS TypeOK OneVictimAtATime
PROPERTIES CriticalSpared PressureIsAnswered
