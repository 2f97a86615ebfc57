SPECIFICATION FairSpec

CONSTANTS
    n1 = n1
    n2 = n2
    t1 = t1
    t2 = t2
    NoTemplate = NoTemplate
    Foreign = Foreign
    Keys <- MCKeys
    Values <- MCValues
    EmptyValue = ""
    Occurs <- MCOccurs
    CommentOf <- MCCommentOf
    TagsOf <- MCTagsOf
    ForeignComments <- MCForeignComments
    TagsPlan = TRUE
    Kind = "technitium"
    Nodes = {n1}
    Templates = {t1}
    Slots = {"first/A", "second/A"}
    Contents = {"10.0.0.1", "10.0.0.2"}
    SlotOf <- OwnSlot
    Published <- AnyAddress
    ForeignContents = {"10.0.0.1"}
    CleanupOnShutdown = {}
    DryRunnable = {}
    MaxFaults = 0
    MaxChanges = 1

PROPERTIES
    Serves
