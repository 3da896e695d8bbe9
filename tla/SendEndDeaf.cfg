SPECIFICATION LoopSpec
CONSTANTS
    m1 = m1 m2 = m2 v1 = v1 v2 = v2 e1 = e1
    Calls = {m1, v1, e1}
    PhaseOf <- FewPhases
    Kinds <- FewKinds
    MaxFaults = 1
    MaxRounds = 5
PROPERTIES NoToolHolds
CHECK_DEADLOCK FALSE
