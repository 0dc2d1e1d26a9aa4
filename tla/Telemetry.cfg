\* Two topics, two spans at a time, three in all; telemetry switched at will.
CONSTANTS
    Topics = {t1, t2}
    Handles = {h1, h2}
    MaxStarts = 3
SPECIFICATION TelemetrySpec
SYMMETRY Perms
INVARIANTS
    MeasuredFromOwnStart
    TimedFromOwnStart
    NoLeakedTimer
