\* One client that waits for downtimes and walks over the registries.
SPECIFICATION Spec
CONSTANTS
    Waiters = {w1}
    NoWaiter = NoWaiter
    WaitTrigger = {"downtime"}
    Ids <- SomeIds
    End = 2
    Periods = {p}
CHECK_DEADLOCK FALSE
INVARIANTS
    DowntimeWakes
    WalksSeeWhatLasts
    PeriodsTold
