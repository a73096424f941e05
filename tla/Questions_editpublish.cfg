SPECIFICATION FairSpec
CONSTANTS
    None = None
    alice = alice   rita = rita   q1 = q1   q2 = q2   q3 = q3   t1 = t1   t2 = t2
    n1 = n1   n2 = n2   acme = acme   why = why
    Viewers = {alice, rita}
    QuestionIds = {q1}
    Texts = {t1, t2}
    Notes = {n1}
    Clients = {}
    Reasons = {why}
    Requests = {r1, r2}
    mostNearDuplicatesNamed = 3
    MaxEntries = 4
    Similar <- AllSimilar
    Asks <- EditAsks
    InitialRole <- AuthorAndReviewer
    RoleChanges <- NoChanges
PROPERTIES TextsInTheBankWereChecked
