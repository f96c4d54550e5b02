CONSTANTS
    WalkPid = {1, 2, 3}
    MaxCollected = 5
    CriticalExe = {}
    ExcludeRealtime = {}
    SelfPid = 0
    NoPid = 0
    NoExe = none
SPECIFICATION WalkSpec
INVARIANTS WalkTypeOK AnswerIsAncestry ClosedFormIsLoop
PROPERTY AnswersUnlessCyclic
