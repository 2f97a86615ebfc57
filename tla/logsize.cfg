SPECIFICATION Spec

CONSTANTS
    Processes = {service}
    MaxFileSize = 2
    MaxFiles = 2
    LastDay = 2
    Strays = {}
    MaxLength = 4
    MaxFaults = 0

INVARIANT SizeKept
