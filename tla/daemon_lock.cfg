SPECIFICATION Spec
CONSTANTS
    Projects = {p1, p2}
    NoProject = NoProject
    Kinds = {"pdebuild", "update_pbuilder"}
    Faults = {"crash", "interrupt", "abandon", "exit", "dbfail"}
    MaxQueue = 2
SYMMETRY ProjectSymmetry
INVARIANTS OneOwner OwnedIsBusy VerdictOwn
PROPERTIES RefinesLock
