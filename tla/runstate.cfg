SPECIFICATION FairSpec
CONSTANTS
    MaxEdits = 4
    MaxFaults = 2
INVARIANTS
    TypeOK
    OnlyValid
    RemoteStands
PROPERTIES
    CatchesUp
    Terminates
