\* Every kind of configuration, two hooks, one request at a time, and in one
\* configuration an exchange with an approver or an executor, with every answer
\* and two callbacks, so that one may be refused before one is taken, or come again.
CONSTANTS
    Configs <- MCConfigs
    Hooks = 2
    MaxRequests = 1
    NoURL = NoURL
    Asking <- MCAsking
    NoExchange <- MCNoExchange
    MaxCallbacks = 2
    None = None
SPECIFICATION ServedSpec
INVARIANTS
    ServingIsWired
    YesIsMeant
    SameByCallback
    AnswerIsTaken
PROPERTY SignalEnds
