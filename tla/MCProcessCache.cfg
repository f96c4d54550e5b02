CONSTANTS
    Pid = {1, 2, 3}
    InitPid = 1
    app = app
    wm = wm
    Exe = {app, wm}
    MaxInc = 3
    Absent = Absent
    Failed = Failed
    NoThread = NoThread
    MaxQueue = 2
    Budgets <- MCBudgets
SPECIFICATION FairSpec
INVARIANTS TypeOK StaleIsAnnounced NoCycleWithoutRecycling
PROPERTIES LiveEntryKept Settles
