SPECIFICATION FairSpec
CONSTANTS
    Worker = Worker
    Soap = Soap
    MaxJobs = 2
    Parent = Parent
    Command = Command
    Daemon = Daemon
    Outputs <- MCOutputs
    CacheOutputs <- MCCacheOutputs
    AtMost = 2
    PipeSize = 2
    MaxRuns = 2
    MaxCaches = 1
INVARIANT OutputLogged
PROPERTY RunReturns
CHECK_DEADLOCK FALSE
