\* Safety and liveness of switchRole / switchMode against the uevent worker, one port.
CONSTANTS
    p1 = p1
    p2 = p2
    c1 = c1
    c2 = c2
    Ports <- MCOnePort
    Callers <- MCCallers
    Requests <- MCRequests
    Worker = Worker
    NoThread = NoThread
    Timeout = 2
    MaxSpurious = 1
    MaxEvents = 2
    MaxRequests = 2

SPECIFICATION Spec

INVARIANT TypeOK
INVARIANT SwitchOwnsPortType
INVARIANT SuccessRequiresConfirmation
PROPERTY SwitchTerminates
PROPERTY RefinesAbstract
