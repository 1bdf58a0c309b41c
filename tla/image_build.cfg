SPECIFICATION Spec
CONSTANTS
    Recipes <- MCRecipes
    Dot <- MCDot
    Gap = 1
    GptTail = 2
    Remain = Remain
    Packers = {"xz", "gz", "none"}
    Default = "xz"
    NoPacker = "none"
    Names <- MCNames
    MaxActions = 3
INVARIANTS OwnFileSystem WrittenKept ListedExist
CHECK_DEADLOCK FALSE
