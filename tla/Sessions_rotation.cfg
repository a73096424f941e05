SPECIFICATION Spec
CONSTANTS
    Viewers = {v1}
    TokenIds = {t1, t2, t3}
    Requests = {r1, r2}
    Acts = {"login", "refresh", "logout", "setPassword", "deactivate"}
    FirstTokens <- SignedIn
    MaxEndings = 1
    None = None
    v1 = v1
    t1 = t1
SYMMETRY Alike
INVARIANTS
    TypeOK
    OneTokenToExchange
PROPERTIES
    EndedSessionsStayOver
    ReuseEndsTheFamily
CHECK_DEADLOCK FALSE
