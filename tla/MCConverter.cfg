CONSTANTS
    main = main
    helper = helper
    leaf = leaf
    int = int
    str = str
    Fn = {main, helper, leaf}
    Type = {int, str}
    Scenarios <- AllScenarios
    MaxFaults = 2
    NoFn = NoFn
    NoType = NoType
SPECIFICATION FairSpec
INVARIANTS
    Settled
    Tightest
    NothingLost
    LinkCloses
PROPERTY CompileEnds
