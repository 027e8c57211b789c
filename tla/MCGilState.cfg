CONSTANTS
    Thread = {t1, t2}
    Watcher = watcher
    Nobody = Nobody
    MaxDepth = 3
SPECIFICATION FairSpec
INVARIANTS
    PythonHoldsGil
    OfferIsLive
    NoTrap
    ScopesAgree
PROPERTIES
    ImplementsPyGil
    KeptIsTaken
    EveryoneReturns
