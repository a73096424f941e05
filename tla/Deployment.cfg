SPECIFICATION MCSpec
CONSTANTS
    Connections = {c1, c2, c3}
    limit = 2
    countSuccesses = FALSE
    MaxServed = 5

    Runs = {r1, r2}
    upserts <- SomeUpserts
    needs <- SomeNeeds
    parts <- SomeParts
    bulkRows <- BulkBank
    batchSize = 1
    createdByUsers <- PeoplesOwn
    MaxStarts = 2
INVARIANTS
    AttemptsAreLimited
    SeedsUndoNothing
    AFinishedSeedIsWhole
PROPERTIES
    ASignalEndsTheProcess
\* The process ends, and the commands come to an end.
CHECK_DEADLOCK FALSE
