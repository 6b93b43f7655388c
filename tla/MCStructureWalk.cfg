CONSTANTS
    Tables <- MCTables
    Limits <- MCLimits
SPECIFICATION Spec
INVARIANTS
    TypeOK
    StringScan
    StructuresTileTable
    OnlyLastOvershoots
    EndOfTableIsLast
    ErrorNamesDamage
    WalkIsFunction
PROPERTIES
    ImplementsStream
    Terminates
