CONSTANTS
    None = None
    Cases <- MCCases
SPECIFICATION Spec
INVARIANT
    LocationIsNamed
