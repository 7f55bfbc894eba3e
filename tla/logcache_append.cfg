\* Nagios may write at any moment.
SPECIFICATION Spec
CONSTANTS
    Classes = {alert, info}
    NumFiles = 2
    MaxCached = 1
    CheckMemCycle = 1
    MaxLines = 3
    MaxLen = 3
    AppendWhen = {"idle", "ready", "growth", "missing", "loaded"}
SYMMETRY ClassSymmetry
INVARIANT
    LoadComplete
