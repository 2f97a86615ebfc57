SPECIFICATION TemplatesSpec
CONSTANTS
    k1 = k1
    k2 = k2
    v0 = v0
    v1 = v1
    v2 = v2
    pu = pu
    px = px
    x = x
    u = u
    here = here
    Keys = {k1, k2}
    Values = {v0, v1, v2, pu, px}
    EmptyValue = v0
    Occurs <- MCOccurs
    Literals = {v1}
    Variables = {x, u}
    HostVariables = {x}
    Placeholder <- MCPlaceholder
    Known <- MCKnown
    Inherited <- MCInherited
INVARIANTS
    FindsItsOwn
    LeavesTheirs
    SurvivesEdit
    LossTolerated
