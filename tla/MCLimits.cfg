\* Two calls a minute of three ticks, five in all; the clock covers three minutes.
CONSTANTS
    MaxTotal = 5
    RatePerMinute = 2
    Minute = 3
    Fields = {"name", "size"}
    Policy <- MCPolicy
    Arguments <- MCArguments
    MaxTime = 9
    MaxCount = 6
    None = None
SPECIFICATION Spec
INVARIANTS
    TotalExact
    RateBound
    RateDenialIsRecent
