CONSTANTS
    c1 = c1
    c2 = c2
    t1 = t1
    t2 = t2
    id1 = id1
    args = args
    None = None
    Calls = {c1}
    Tools = {t1}
    CorrIds = {id1}
    ToolOf <- MCOneTool
    IdOf <- MCSameId
    Provided = {c1}
    ArgsOf <- MCSameArgs
    Strategy = "auto"
    Chain <- MCTwoAsync
    Executor <- MCSyncExec
    Timed = {t1}
    Guarded = {}
    MaxTotal = 1
    MaxDeliver = 2
SPECIFICATION Spec
INVARIANT EveryApproverDecided
