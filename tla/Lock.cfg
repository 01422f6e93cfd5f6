SPECIFICATION FairSpec
CONSTANTS
    p1 = p1
    p2 = p2
    p3 = p3
    e1 = e1
    e2 = e2
    l1 = l1
    l2 = l2
    c1 = c1
    c2 = c2
    Procs = {p1, p2, p3}
    Endpoints = {e1, e2}
    Paths = {l1, l2}
    Consoles = {c1, c2}
    EndpointOf <- MCEndpointOf
    ConsoleOf <- MCConsoleOf
    Slug <- MCSlug
    Inodes = {1, 2, 3}
    Nobody = Nobody
    NoFile = NoFile
    MaxFaults = 2
INVARIANTS
    TypeOK
    OneDaemonPerConsole
    RefusalNamesARival
PROPERTY
    ConsoleIsWatched
