\* Snapshots computed while the kernel attaches, detaches and swaps.
CONSTANTS
    p1 = p1
    p2 = p2
    Ports <- MCPorts
    NoName = NoName
    ReasonChoices <- MCReasonChoices
    SessionChoices <- MCSessionChoices
    SplitPowerWarning = FALSE
    DebugAccessoryWord <- MCDebugAccessoryWord
    BC12Word <- MCBC12Word
    MissingRpWord <- MCMissingRpWord
    OtherWord <- MCOtherWord
    InputPowerLimitedWord <- MCInputPowerLimitedWord
    ReasonWords <- MCReasonWords
    MaxReasons = 2
    MaxKernel = 2
    MaxQueries = 2

SPECIFICATION Spec

INVARIANT TypeOK
INVARIANT DisconnectedHasNoRoles
INVARIANT EveryPortReported
INVARIANT ComplianceWarningsMatchReasons
INVARIANT RoleWordsDecode
