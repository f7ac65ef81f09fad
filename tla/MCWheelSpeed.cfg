SPECIFICATION FairSpec
CONSTANTS
    Wheels = {w1, w2}
    Period <- MCPeriod
    SoundTicks = 4
    Word = 64
    MaxRun = 1
    MaxHeld = 2
    MaxBacklog = 3
    MaxPulses = 1
INVARIANTS TypeOK EachPulseOnce VcuSpeedIsTrue
PROPERTIES MainReports
