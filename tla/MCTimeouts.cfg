\* All combinations; default client timeouts are 20 ticks and the clock passes them.
CONSTANTS
    Configs <- MCConfigs
    Absent = Absent
    Invalid = Invalid
    Second = 2
    MaxTime = 30
SPECIFICATION Spec
INVARIANTS
    EndsInTime
    TimeoutIffExpired
    ToldIsKept
