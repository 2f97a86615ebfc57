SPECIFICATION FairSpec

CONSTANTS
    Processes = {service, once}
    MaxFileSize = 2
    MaxFiles = 2
    LastDay = 3
    Strays = {9}
    MaxLength = 3
    MaxFaults = 2

INVARIANTS
    TypeOK
    FileFound
    FewFiles
    SizeCounted
PROPERTIES
    KeepsLatest
    Resumes
