CONSTANTS
    None = None
    Wholes <- MCWholes
SPECIFICATION Spec
INVARIANT
    TypeOK
PROPERTY
    FieldsOnlyFillIn
    NamesStand
