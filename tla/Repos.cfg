CONSTANTS
    r1 = r1  r2 = r2  k = k  m1 = m1  m2 = m2  rule = rule
    c1 = c1  c2 = c2
    NoKey = NoKey
    None = None
    Rows = {r1, r2}
    Keys = {k}
    Rules = {rule}
    Commits = {m1, m2}
    Pins = {m1}
    CapValues = {1, 2}
    CacheTrees = 1
    FETCHES = 1
    Calls = {c1, c2}
    MaxMoves = 2
    Size <- MCSize
    Begun <- MCBegun
SPECIFICATION Spec
INVARIANTS TypeOK MountsStand RowOwed OwnWord
SYMMETRY Symmetric
