\* Rotations in the second of an update, or during one.
SPECIFICATION IndexSpec
CONSTANTS
    TicksPerSecond = 2
    MaxTicks = 9
    MaxLogs = 4
INVARIANT
    IndexComplete
