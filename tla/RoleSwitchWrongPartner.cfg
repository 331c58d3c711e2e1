\* A partner-add of another port, or a stale one, confirms a mode switch.
CONSTANTS
    p1 = p1
    p2 = p2
    c1 = c1
    c2 = c2
    Ports <- MCTwoPorts
    Callers <- MCCallers
    Requests <- MCRequests
    Worker = Worker
    NoThread = NoThread
    Timeout = 2
    MaxSpurious = 1
    MaxEvents = 2
    MaxRequests = 2

SPECIFICATION Spec

INVARIANT SuccessMeansPartnerOnPort
