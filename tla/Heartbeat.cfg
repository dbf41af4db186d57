SPECIFICATION Spec
CONSTANTS
    NumNodes = 3
    Late = {3}
    report_interval = 1
    crash_timeout = 5
    Latency = 1
    MaxDelay = 1
    MaxLost = 1
INVARIANTS
    TypeOK
    CrashesAreNoticed
PROPERTIES
    NoFalseAlarm
