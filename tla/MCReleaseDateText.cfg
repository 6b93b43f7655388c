CONSTANTS
    None = None
    Pieces <- MCPieces
    MaxPieces = 5
    Dates <- MCDates
SPECIFICATION DateSpec
INVARIANT
    DatesAreReadAsWritten
