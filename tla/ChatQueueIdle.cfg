SPECIFICATION Spec
CONSTANTS
    m1 = m1 m2 = m2 m3 = m3 m4 = m4 u1 = u1 u2 = u2 x = x y = y r = r p = p
    Messages = {m1, m2, m3}
    Users = {u1, u2}
    Schedule = Schedule
    Chats = {x}
    Runs = {}
    Projects = {p}
    ProjectOf <- InProject
    ChatOf <- OneChat
    Author <- QueueAuthors
    Summons = {m2}
    TurnedDown <- BadSummon
    RolledBack = {}
    Flaky = {}
    CapSets <- QueueCaps
    MinuteSets = {1}
    QueuedPerUser = 2
    QueuedPerChat = 3
    MaxExtras = 0
    Changes = {}
INVARIANTS NothingWaitsIdle
