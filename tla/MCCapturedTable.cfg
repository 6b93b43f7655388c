CONSTANTS
    None = None
    PLATFORM_PREFIXES <- MCPrefixes
    X10Product <- MCX10Product
    X10Model <- MCX10Model
    TRUENAS_UNKNOWN <- MCUnknown
    Tables <- MCTables
SPECIFICATION Spec
INVARIANTS
    CutLosesWholeStructures
    CutIsBetweenStructures
    HeldIsBehind
PROPERTY
    NothingIsTakenBack
