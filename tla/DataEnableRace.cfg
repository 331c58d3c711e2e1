\* Two enableUsbData calls race on mUsbDataEnabled; no write fails.
CONSTANTS
    c1 = c1
    c2 = c2
    Clients <- MCTwoClients
    NoThread = NoThread
    WritesCanFail = FALSE
    I2cCanFail = FALSE
    PogoPresent = TRUE
    MaxCalls = 2

SPECIFICATION Spec

INVARIANT DataFlagMatchesHardware
