SPECIFICATION FairSpec
CONSTANTS
    s1 = s1 s2 = s2 u1 = u1 a1 = a1 r1 = r1 r2 = r2 p1 = p1
    c1 = c1 c2 = c2 c3 = c3 c4 = c4 c5 = c5
    Schedule = Schedule
    Sends = {s1, s2}
    Users = {u1}
    Sessions = {r1, r2}
    Channels = {}
    Agents = {a1}
    ChatAgent = a1
    Projects = {p1}
    ProjectOf <- ChildProjects
    StartersOf <- ChildStarters
    Calls = {c1, c2, c3, c4, c5}
    ParentOf <- ChildParents
    CapSets <- ChildCaps
INVARIANTS TypeOK ExtrasTrue NoneStranded OneSendPerLock
PROPERTIES InOrder WaitEnds TakesWithinCaps
