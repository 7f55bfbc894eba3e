\* Two connections, two client threads, queries that may wait for ever.
SPECIFICATION FairSpec
CONSTANTS
    Conns = {c1, c2}
    NoFd = NoFd
    NumThreads = 2
    WaitQueries = TRUE
INVARIANTS
    OneOwner
    NoLostWakeup
    NoUseAfterDelete
    NothingLeftOpen
CHECK_DEADLOCK TRUE
PROPERTIES
    ImplementsService
    QueuedIsServed
    DeinitReturns
    ConnectionIsClosed
