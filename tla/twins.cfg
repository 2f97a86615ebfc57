SPECIFICATION FairSpec

CONSTANTS
    n1 = n1
    n2 = n2
    t1 = t1
    t2 = t2
    NoTemplate = NoTemplate
    Foreign = Foreign
    Keys <- MCKeys
    Values <- MCValues
    EmptyValue = ""
    Occurs <- MCOccurs
    CommentOf <- MCCommentOf
    TagsOf <- MCTagsOf
    ForeignComments <- MCForeignComments
    TagsPlan = TRUE
    Kind = "cloudflare"
    Nodes = {n1}
    Templates = {t1, t2}
    Slots = {"service/A"}
    Contents = {"10.0.0.1", "10.0.0.2"}
    SlotOf <- SharedSlot
    Published <- TwinAddresses
    ForeignContents = {"10.0.0.1", "10.0.0.2"}
    CleanupOnShutdown = {}
    DryRunnable = {}
    MaxFaults = 0
    MaxChanges = 0

PROPERTIES
    Quiesces
