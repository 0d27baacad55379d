\* Two threads and two messages: the loggers stop and come back once, their sockets
\* hold one datagram, and the program makes two of the other calls.
SPECIFICATION Spec
CONSTANTS
    t1 = t1
    t2 = t2
    Threads <- MCThreads
    NoThread = NoThread
    Capacity = 1
    MaxMessages = 2
    MaxSettings = 2
    MaxRestarts = 1
    MaxFills = 1
    Careful = TRUE
INVARIANTS AtMostOnce StatusMatches
PROPERTIES RestartLosesNothing HostGetsAll CallsReturn
CHECK_DEADLOCK FALSE
