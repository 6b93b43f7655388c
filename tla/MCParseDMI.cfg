CONSTANTS
    Callers = {c1, c2}
    c1 = c1
    c2 = c2
    Roots <- MCRoots
    Worlds <- MCWorlds
    MaxWorlds = 2
    MaxCalls = 1
    StatRaises = TRUE
SPECIFICATION Spec
INVARIANTS
    TypeOK
    QuietCallIsAtomic
    ParsedWasOnDisk
    ErrorsHaveAReason
PROPERTY
    CallsEnd
