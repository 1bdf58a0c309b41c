SPECIFICATION FairSpec
CONSTANTS
    f1 = f1
    f2 = f2
    Files <- MCFiles
    Packages <- MCGoodPackages
    Base = 1
    Orig = "ro"
    DowngradeAllowed = FALSE
    Events = {"disk", "half", "stop"}
    MaxEvents = 1
    None = none
PROPERTIES UpdatesSettle StopTerminates
CHECK_DEADLOCK FALSE
