SPECIFICATION Spec

CONSTANTS
    n1 = n1
    n2 = n2
    t1 = t1
    t2 = t2
    NoTemplate = NoTemplate
    Foreign = Foreign
    Keys <- MCKeys
    Values <- MCValues
    EmptyValue = ""
    Occurs <- MCOccurs
    CommentOf <- MCCommentOf
    TagsOf <- MCTagsOf
    ForeignComments <- MCForeignComments
    TagsPlan = TRUE
    Kind = "powerdns"
    Nodes = {n1, n2}
    Templates = {t1}
    Slots = {"service/A"}
    Contents = {"10.0.0.1", "10.0.0.2", "10.0.0.3", "192.0.2.9"}
    SlotOf <- SharedSlot
    Published <- DistinctAddresses
    ForeignContents = {"192.0.2.9"}
    CleanupOnShutdown = {n1}
    DryRunnable = {}
    MaxFaults = 0
    MaxChanges = 0

PROPERTIES
    NoClobber
