CONSTANTS
    Thread = {t1, t2, t3, t4}
    Page = 4
    Needs = {0, 8, 12, 28}
    Spare = 4
    Releases <- MCReleases
SPECIFICATION FairSpec
INVARIANTS TypeOK AllBeforeAny
PROPERTIES Ends
