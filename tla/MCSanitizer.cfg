CONSTANTS
    Tables <- MCTables
    Limits <- MCLimits
SPECIFICATION Spec
INVARIANTS
    OnlySecretsChange
    NoSecretIsLeft
PROPERTY
    SecondRunChangesNothing
