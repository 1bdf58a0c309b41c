SPECIFICATION Spec
CONSTANTS
    Projects = {p1, p2}
SYMMETRY ProjectSymmetry
INVARIANTS OneEnvironment BuiltInCreated
PROPERTIES ReadyIsKept
