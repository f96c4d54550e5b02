CONSTANTS
    Pid = {1, 2}
    InitPid = 1
    Exe = {app, wm}
    Caller = {c1, c2}
    MaxInc = 3
SPECIFICATION HandleSpec
SYMMETRY CallerSymmetry
INVARIANTS HandleTypeOK HandleOneProcess KillHitsProcessRead
