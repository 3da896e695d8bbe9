SPECIFICATION FairSpec
CONSTANTS
    m1 = m1 m2 = m2 v1 = v1 v2 = v2 e1 = e1
    Calls = {m1, m2, v1, v2, e1}
    PhaseOf <- AllPhases
    Kinds <- AllKinds
    MaxFaults = 3
    MaxRounds = 7
INVARIANTS TypeOK NothingStreams CompletionKept CutNamed StopClosesNoAlert
PROPERTIES CutSendLetsGo FirstCauseStands
CHECK_DEADLOCK FALSE
