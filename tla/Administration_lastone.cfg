SPECIFICATION Spec
CONSTANTS
    None = None
    id1 = id1   id2 = id2
    Viewers = {1, 2, 3}
    RoleRequestIds = {}
    Requests = {r1, r2, r3}
    MaxEvents = 5
    FirstViewers <- OneAdministrator
    Asks <- TakingTurns
SYMMETRY Alike
INVARIANTS AnAdministratorRemains
CHECK_DEADLOCK FALSE
