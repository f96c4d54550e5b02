CONSTANTS
    Path <- MCPath
    Menu <- MCMenu
    MaxFaults = 2
    MaxStarts = 3
SPECIFICATION Spec
INVARIANTS TypeOK OwnOrTweak ExitRestoresTweaks
