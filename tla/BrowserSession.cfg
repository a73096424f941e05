SPECIFICATION Spec
CONSTANTS
    Tabs = {tab1, tab2}
    Viewers = {v1, v2}
    TokenIds = {t1, t2, t3}
    Calls = {c1, c2}
    None = None
SYMMETRY Alike
INVARIANTS TypeOK TokenAndViewerAgree EveryTabWillLearn ASpentCookieIsUnseen SigningOutLeavesNothing
PROPERTIES SignedOutUntilAsked
CHECK_DEADLOCK FALSE
