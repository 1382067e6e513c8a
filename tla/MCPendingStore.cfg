\* Two attempts at one id, three callbacks for it (so every decision can be
\* delivered twice), two decisions.
CONSTANTS
    a1 = a1
    a2 = a2
    i1 = i1
    None = None
    Attempts = {a1, a2}
    Handlers = {h1, h2, h3}
    Ids = {i1}
    Verdicts = {allow, deny}
    IdOf <- MCIdOf
    Timed <- MCTimed
SPECIFICATION FairSpec
INVARIANTS
    NoPanic
    SlotEndsOnce
    AcknowledgedIsDelivered
    NoLeak
    NoLostWakeup
    ForeignCancelIsStale
PROPERTIES
    ImplementsRendezvous
    TakenReturns
    TimedReturns
