\* Two files, longer than the line limit; Nagios does not write between the two
\* passes of load.
SPECIFICATION Spec
CONSTANTS
    Classes = {alert, info}
    NumFiles = 2
    MaxCached = 1
    CheckMemCycle = 1
    MaxLines = 2
    MaxLen = 3
    AppendWhen = {"idle", "ready", "growth", "loaded"}
SYMMETRY ClassSymmetry
INVARIANTS
    NumCachedExact
    MemoryBounded
    CacheCoherent
    LoadComplete
PROPERTY
    EvictionSparesQuery
