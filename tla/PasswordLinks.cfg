SPECIFICATION Spec
CONSTANTS
    v1 = v1
    v2 = v2
    Viewers <- SomeViewers
    Members <- FirstMembers
    Links = {l1, l2, l3}
    Requests = {r1, r2, r3}
    MaxDeactivations = 1
    None = None
SYMMETRY Alike
INVARIANTS TypeOK OneLinkThatWorks OneLinkPerWindow EveryNewViewerWasMailed
PROPERTIES OnlyAnUnspentLinkSetsAPassword ALinkEndsForAReason
CHECK_DEADLOCK FALSE
