\* A snapshot taken before any typec port registers indexes an empty vector.
CONSTANTS
    p1 = p1
    p2 = p2
    Ports <- MCPorts
    NoName = NoName
    ReasonChoices <- MCReasonChoices
    SessionChoices <- MCSessionChoices
    SplitPowerWarning = FALSE
    DebugAccessoryWord <- MCDebugAccessoryWord
    BC12Word <- MCBC12Word
    MissingRpWord <- MCMissingRpWord
    OtherWord <- MCOtherWord
    InputPowerLimitedWord <- MCInputPowerLimitedWord
    ReasonWords <- MCReasonWords
    MaxReasons = 2
    MaxKernel = 2
    MaxQueries = 2

SPECIFICATION Spec

INVARIANT NoIndexIntoEmptySnapshot
