SPECIFICATION FairSpec
CONSTANTS
    Projects = {p1, p2}
    NoProject = NoProject
    Kinds = {"build", "create_pbuilder", "update_pbuilder"}
    Faults = {}
    MaxQueue = 2
CHECK_DEADLOCK FALSE
INVARIANTS BusyIsOwned WorkerSurvives
PROPERTIES PendingUntouched JobsFinish StopTerminates RefinesFairLock
