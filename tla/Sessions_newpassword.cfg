SPECIFICATION Spec
CONSTANTS
    Viewers = {v1}
    TokenIds = {t1, t2, t3}
    Requests = {r1, r2}
    Acts = {"login", "refresh", "setPassword"}
    FirstTokens <- SignedIn
    MaxEndings = 1
    None = None
    v1 = v1
    t1 = t1
SYMMETRY Alike
PROPERTY NoSessionOutlivesItsEnding
CHECK_DEADLOCK FALSE
