SPECIFICATION Spec
CONSTANTS
    p1 = p1 p2 = p2 a = a b = b u = u w = w NoUrl = NoUrl
    Rows = {1, 2}
    Projects = {p1, p2}
    ProjectOf <- OneEach
    Users = {a, b}
    FirstOwner = a
    Urls = {u}
    FirstUrl <- FirstChecked
    Once = {1}
    Rerun = {1, 2}
    First <- FirstAt
    Every <- EveryTwo
    ProjectCap = 1
    ProcessCap = 1
    MaxTime = 3
    Budget = 2
    Changes = {"url", "field", "schedule", "suspend", "owner", "page", "place", "run now", "fault", "halt"}
PROPERTIES RerunKept
