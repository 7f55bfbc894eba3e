\* The same with four entries.
SPECIFICATION Spec
CONSTANTS
    h = h
    s = s
    p = p
    NoObject = NoObject
    Hosts <- MCHosts
    Services <- MCServices
    HostOf <- MCHostOf
    Periods <- MCPeriods
    PeriodsOf <- MCPeriodsOf
    MaxState = 1
    Grace = 0
    MaxTime = 2
    MaxEntries = 4
INVARIANT HostDownShown
