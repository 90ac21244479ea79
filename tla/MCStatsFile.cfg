SPECIFICATION StatsSpec
CONSTANTS
    p1 = p1
    p2 = p2
    a = a
    b = b
    c = c
    Processes = {p1, p2}
    Placeholders = {a, b, c}
    Reports <- MCReports
    MaxReports = 3
    NoFile = NoFile
    Unreadable = Unreadable
INVARIANTS
    CountsAreReports
CHECK_DEADLOCK FALSE
