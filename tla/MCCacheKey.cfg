\* Every pair of calls out of 19 arguments and two tools, under every strategy.
CONSTANTS
    Strategies = {"auto", "", "correlation_id", "arguments_hash"}
    Tools = {"get", "set"}
    ArgSets <- MCArgSets
    Values <- MCValues
    Depth <- MCDepth
    Texts <- MCTexts
    FieldOrder <- MCFieldOrder
    Orders <- MCOrders
    MaxCalls = 2
    None = None
SPECIFICATION Spec
INVARIANTS
    TypeOK
    HitIsSameCall
    ResponseFits
PROPERTY RepetitionHits
