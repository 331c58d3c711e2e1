\* Concurrent control calls with failing writes and i2c lookups.
CONSTANTS
    c1 = c1
    c2 = c2
    Clients <- MCTwoClients
    NoThread = NoThread
    WritesCanFail = TRUE
    I2cCanFail = TRUE
    PogoPresent = TRUE
    MaxCalls = 3

SPECIFICATION Spec

INVARIANT TypeOK
INVARIANT LimitNodesAgree
PROPERTY CallsReturn
