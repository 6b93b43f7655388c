CONSTANT
    Files <- MCFiles
SPECIFICATION Spec
INVARIANT
    EveryFileIsDecided
PROPERTY
    AcceptanceIsStable
