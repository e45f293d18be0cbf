CONSTANTS
    Period = 2
    CpuTime = 3
    Fuel = 2
    MaxTicks = 5
    MaxLate = 1
SPECIFICATION EngineSpec
INVARIANTS
    CpuTimeInFull
