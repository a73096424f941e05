SPECIFICATION MCSpec
CONSTANTS
    None = None
    ann = ann   rita = rita   q1 = q1   t1 = t1   t2 = t2   n1 = n1   n2 = n2   why = why
    Viewers = {ann, rita}
    QuestionIds = {q1}
    Texts = {t1, t2}
    Notes = {n1, n2}
    Clients = {}
    Reasons = {why}
    Similar <- NoneSimilar
    mostNearDuplicatesNamed = 1
    viewer <- AReviewer
    FirstRow <- APending
    Blank = Blank
    MaxVersions = 3
    MaxInFlight = 1
    Typed <- SomeTyped

    javascript = javascript   java = java   javaEE = javaEE   agile = agile
    skill = skill   method = method   textJava = textJava   textJavaEE = textJavaEE
    EmptyText = EmptyText   NoTag = NoTag
    Tags = {javascript, java, javaEE, agile}
    Categories = {skill, method}
    TypedTexts = {EmptyText, textJava, textJavaEE}
    listedTags <- SomeTags
    categoryOf <- SomeCategories
    includes <- WhatIncludes
    namedBy <- WhatNames
    quickAddShown = 2

    oldest = oldest   middle = middle   newest = newest
    exact = exact   passing = passing   unrelated = unrelated
    Contents = {exact, passing, unrelated}   NoRead = NoRead   badFilter = bad
    addedAt <- SomeAdded
    idOf <- SomeIds
    firstContents <- SomeContents
    rankIn <- SomeRanks
    firstVersions <- SomeVersions
    matching <- SomeMatching
    reviews = FALSE
    authored = {oldest}
    Offsets = {0}
    PageSize = 1
    MaxWrites = 7

    ada = ada   bob = bob   mine = mine   theirs = theirs   Nobody = Nobody
    RoleRequests = {mine, theirs}
    Accounts = {ada, bob}
    HeldRoles = {"reader", "author", "reviewer"}
    me = ada
    raisedBy <- SomeRaised
    roleAsked <- SomeAsked
    firstRoles <- SomeRoles
    MaxMoves = 3
INVARIANTS
    ConfirmationsAreOfWhatWasRefused
    AnsweredMovesAreLookedUp
    PagingReachesEveryQuestion
    HistoryCoversAVisibleMoment
PROPERTIES
    SavesTouchOnlyWhatWasTyped
    TagTypedIsActive
    RefusedDecisionsAreTold
