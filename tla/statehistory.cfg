\* All logs of five entries about one host, one service and one timeperiod; the
\* time frame is one or two seconds long and there is no grace period.
SPECIFICATION Spec
CONSTANTS
    h = h
    s = s
    p = p
    NoObject = NoObject
    Hosts <- MCHosts
    Services <- MCServices
    HostOf <- MCHostOf
    Periods <- MCPeriods
    PeriodsOf <- MCPeriodsOf
    MaxState = 1
    Grace = 0
    MaxTime = 2
    MaxEntries = 5
INVARIANTS
    DurationsSumUp
    SpentAsMeant
    HostReachesServices
    PeriodsFollowed
