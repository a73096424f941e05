SPECIFICATION Spec
CONSTANTS
    None = None
    id1 = id1   id2 = id2
    Viewers = {1, 2, 3}
    RoleRequestIds = {id1, id2}
    Requests = {r1, r2}
    MaxEvents = 3
    FirstViewers <- TwoAdministrators
    Asks <- AllAsks
SYMMETRY Alike
INVARIANTS TypeOK AnAdministratorRemains NoDeadlock EachChangeIsRecordedOnce EventsReplayToViewers RoleRequestsAreDecidedOnce
CHECK_DEADLOCK FALSE
