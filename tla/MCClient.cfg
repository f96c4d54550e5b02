CONSTANTS
    App = {a, b}
    NoPid = NoPid
    QueueLen = 3
    Budget <- MCBudget
SPECIFICATION FairSpec
INVARIANTS TypeOK ClientKnownFirst
PROPERTIES NeverBackwards Learned
