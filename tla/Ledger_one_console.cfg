SPECIFICATION LedgerSpec
CONSTANTS
    p1 = p1
    p2 = p2
    e1 = e1
    e2 = e2
    l1 = l1
    l2 = l2
    c1 = c1
    c2 = c2
    t1 = t1
    Procs = {p1, p2}
    Endpoints = {e1, e2}
    Paths = {l1, l2}
    Consoles = {c1, c2}
    EndpointOf <- MCOneEndpoint
    ConsoleOf <- MCConsoleOf
    Slug <- MCSlug
    Inodes = {1, 2}
    Nobody = Nobody
    NoFile = NoFile
    MaxFaults = 1
    Targets = {t1}
    TargetOf <- MCTargetOf
    DaySeconds = 2
    Retention = 3
    Steps <- MCSteps
    MaxTime = 4
    MaxPresses = 2
INVARIANTS
    NothingForgotten
    NoPressGoesUncounted
