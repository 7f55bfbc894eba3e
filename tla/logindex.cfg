\* Two ticks a second, three rotations.
SPECIFICATION IndexSpec
CONSTANTS
    TicksPerSecond = 2
    MaxTicks = 9
    MaxLogs = 4
INVARIANTS
    IndexRepaired
