CONSTANTS
    Users <- MCUsers
    Modes <- MCModes
    Commands <- MCCommands
    MaxCommands = 3
    Inputs <- MCInputs
    Options <- MCOptions
    Files <- MCFiles
    Products <- MCProducts
    BaseName <- MCBaseName
    MaxInterrupts = 1
    SshPort = 5022
    SoapPort = 7587
SPECIFICATION FairSpec
INVARIANTS
    AsWanted
    NothingLost
PROPERTIES
    CommandsEnd
CHECK_DEADLOCK FALSE
