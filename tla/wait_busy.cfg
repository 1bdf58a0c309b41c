SPECIFICATION FairSpec
CONSTANTS
    Clients = {c1, c2}
    QueueLen = 3
    Retries = 1
    Blank = {2}
    MaxMessages = 4
    MaxJobs = 2
    MaxErrors = 1
INVARIANTS PrintedInOrder NothingVanishes
PROPERTIES FinishLeavesNothingOld WaitEnds
