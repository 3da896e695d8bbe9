SPECIFICATION FairSpec
CONSTANTS
    m1 = m1 m2 = m2 m3 = m3 m4 = m4 u1 = u1 u2 = u2 x = x y = y r = r p = p
    Messages = {m1, m2}
    Users = {u1, u2}
    Schedule = Schedule
    Chats = {x}
    Runs = {r}
    Projects = {p}
    ProjectOf <- InProject
    ChatOf <- QueueChats
    Author <- QueueAuthors
    Summons = {m2}
    TurnedDown <- BadSummon
    RolledBack = {}
    Flaky <- BadLate
    CapSets <- OneCap
    MinuteSets = {1, 2}
    QueuedPerUser = 2
    QueuedPerChat = 3
    MaxExtras = 0
    Changes = {"limits", "archive", "retire", "access", "login"}
INVARIANTS ExpiryArmed
PROPERTIES QueuedSettles
