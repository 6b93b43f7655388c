CONSTANTS
    Callers = {c1}
    c1 = c1
    Roots <- MCRoots
    Worlds <- MCWorlds
    MaxWorlds = 3
    MaxCalls = 1
    StatRaises = FALSE
SPECIFICATION Spec
INVARIANTS
    QuietCallIsAtomic
    ParsedWasOnDisk
    ErrorsHaveAReason
PROPERTY
    CallsEnd
    ImplementsAcquisition
