CONSTANTS
    b1 = b1
    b2 = b2
    Bootstraps = {b1, b2}
    NULL_RACE_HANDLE = NULL_RACE_HANDLE
SPECIFICATION FairSpec
PROPERTY OnlyExpectedChanges
