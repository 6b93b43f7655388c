CONSTANTS
    None = None
    Cases <- MCCases
SPECIFICATION Spec
PROPERTY
    OneBitOneField
    EscapesAreFollowed
    ElementsAreSkipped
    OneBitOneAnswer
    NamesFollowBits
    FlagsNeverLowerVoltage
