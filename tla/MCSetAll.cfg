CONSTANTS
    app = app
    other = other
    Proc = {app, other}
    Tid = {1, 2, 3, 4}
    Leader <- MCLeader
    FirstTids <- MCFirstTids
    FirstWant <- MCFirstWant
    NoProc = NoProc
    NoTid = NoTid
    Budget <- MCBudget
SPECIFICATION FairSpec
INVARIANTS TypeOK PassIsComplete 
PROPERTIES StrangersOnlyByRecycling Settles
