CONSTANTS
    c1 = c1
    c2 = c2
    t1 = t1
    t2 = t2
    id1 = id1
    args = args
    None = None
    Calls = {c1, c2}
    Tools = {t1, t2}
    CorrIds = {id1}
    ToolOf <- MCTwoTools
    IdOf <- MCSameId
    Provided = {c1, c2}
    ArgsOf <- MCSameArgs
    Strategy = "auto"
    Chain <- MCAsyncChain
    Executor <- MCExecutors
    Timed = {t1}
    Guarded = {t1}
    MaxTotal = 1
    MaxDeliver = 2
SPECIFICATION Spec
INVARIANTS
    ReplyIsTrue
    OwnSlotsReleased
    DecisionIsTraceable
