SPECIFICATION MCSpec
CONSTANTS
    None = None
    alice = alice   rita = rita   q1 = q1   q2 = q2   q3 = q3   t1 = t1   t2 = t2
    n1 = n1   n2 = n2   acme = acme   why = why
    Viewers = {alice, rita}
    QuestionIds = {q1, q2, q3}
    Texts = {t1, t2}
    Notes = {n1, n2}
    Clients = {acme}
    Reasons = {why}
    Requests = {r1, r2}
    mostNearDuplicatesNamed = 1
    MaxEntries = 5
    Similar <- AllSimilar
    Asks <- SettingAsks
    InitialRole <- AuthorAndReviewer
    RoleChanges <- NoChanges
INVARIANTS TypeOK HistoryReplaysToRow NearDuplicatesWereConfirmed
PROPERTIES ActsAreAtomic PublicationOverridesWhatItJoins
SYMMETRY Alike
