\* A hub-vendor-cmd racing the dock's hub enumeration.
CONSTANTS
    s1 = s1
    Shells <- MCShells
    Values <- MCValues
    Indices <- MCIndices
    DefaultValue = 8
    DefaultIndex = 1028
    MaxCmds = 1
    MaxDevices = 1

SPECIFICATION Spec

INVARIANT SentPairWasSet
