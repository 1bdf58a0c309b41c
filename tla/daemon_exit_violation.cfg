SPECIFICATION FairSpec
CONSTANTS
    Projects = {p1, p2}
    NoProject = NoProject
    Kinds = {"build", "pdebuild"}
    Faults = {"exit"}
    MaxQueue = 2
CHECK_DEADLOCK FALSE
PROPERTIES JobsFinish
