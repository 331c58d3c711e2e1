\* With no uevent at all, SIGUSR1 handled just before epoll_wait is lost.
CONSTANTS
    a1 = a1
    a2 = a2
    w1 = w1
    w2 = w2
    cb1 = cb1
    Clients <- MCClients
    Workers <- MCWorkers
    Handles <- MCHandles
    NULL = NULL
    NoThread = NoThread
    MaxCalls = 3
    MaxUevents = 0

SPECIFICATION Spec

\* setCallback(NULL) can block for ever in pthread_join with mLock held
\* (see CallbackDeadlock.cfg): the service really may stop there.
CHECK_DEADLOCK FALSE

PROPERTY SetCallbackReturns
