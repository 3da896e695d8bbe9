SPECIFICATION FairSpec
CONSTANTS
    a1 = a1 a2 = a2
    Automations = {a1, a2}
    Runs = {1, 2, 3}
    Checked = {a1}
    AutomationOf <- LastOfB
    ASKS_AT_ONCE = 1
    MAX_QUEUED = 1
    MaxTime = 2
INVARIANTS TypeOK OpenHasCause
PROPERTIES CallsStand AsksSettle
