SPECIFICATION Spec
CONSTANTS
    Projects = {p1, p2}
    NoProject = NoProject
    Kinds = {"build", "pdebuild"}
    Faults = {"reset_live", "empty_upload", "exit", "abandon"}
    MaxQueue = 1
SYMMETRY ProjectSymmetry
CHECK_DEADLOCK FALSE
INVARIANTS TypeOK RowsMatchDirs
