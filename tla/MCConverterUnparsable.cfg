CONSTANTS
    main = main
    helper = helper
    leaf = leaf
    int = int
    str = str
    Fn = {main, helper, leaf}
    Type = {int, str}
    Scenarios <- Unparsable
    MaxFaults = 1
    NoFn = NoFn
    NoType = NoType
SPECIFICATION Spec
INVARIANT EveryNameIsDefined
