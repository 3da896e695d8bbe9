SPECIFICATION Spec
CONSTANTS
    t1 = t1 t2 = t2 p = p q = q k1 = k1 k2 = k2 u = u NoOne = NoOne
    Tasks = {t1, t2}
    Projects = {p}
    ProjectOf <- OneProject
    Users = {u}
    Keys = {k1, k2}
    UserOf <- SameUser
    Claims = {"c1", "c2"}
    Titles = {"a"}
    Texts = {"x"}
    MAX_ENTRIES = 4
    CLOSING_ENTRIES = 3
    MAX_CLAIMS = 1
    MAX_UNFINISHED = 1
    MAX_KEY_UNFINISHED = 1
    MaxMoves = 3
    MaxLost = 1
INVARIANTS TypeOK ClaimMirror EndsOnce RetryAsFirst
PROPERTIES LivesAsPromised
SYMMETRY Symmetric
CHECK_DEADLOCK FALSE
