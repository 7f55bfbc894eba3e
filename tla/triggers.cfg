\* Two waiting queries under fair scheduling, against all callbacks.
SPECIFICATION FairSpec
CONSTANTS
    Waiters = {w1, w2}
    NoWaiter = NoWaiter
    WaitTrigger = {"all", "log"}
INVARIANTS
    SleepsOnOnlyIfMissed
PROPERTIES
    TimedWaitReturns
    RecurringEventsWake
