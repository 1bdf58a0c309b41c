SPECIFICATION Spec
CONSTANTS
    f1 = f1
    f2 = f2
    Files <- MCFiles
    Packages <- MCPackages
    Base = 1
    Orig = "ro"
    DowngradeAllowed = FALSE
    Events = {"crash", "snapshot", "disk", "half", "missing", "stop"}
    MaxEvents = 1
    None = none
INVARIANTS TypeOK RootRestored OkIsInstalled ProgressEnds SnapshotKept
PROPERTIES NoDowngrade
CHECK_DEADLOCK FALSE
