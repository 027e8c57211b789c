CONSTANTS
    Key = {1, 2, 3}
    Value = {a}
    NoKey = NoKey
    NoValue = NoValue
    Hash <- Colliding
    MIN_SIZE = 4
    Iter = {i}
    MaxTop = 8
    FewKeys = {1, 2}
    IterTop = 4
    SortedKey = {2, 7, 9, 15, 20, 25, 31, 33}
    SortedValues <- OneChanges
    Starts <- SomeTrees
    HeldThread = {"t1", "t2"}
    Parties <- OneOrBoth
    Frame = {"f1", "f2"}
    Obj = {"o1", "o2"}
    HeldDepth = 2
    Graphs <- SomeGraphs
    Temporary = {10, 11, 12, 13, 14, 15}
    MaxFrames = 9
SPECIFICATION Containers
INVARIANTS
    Consistent
    ItemsAreOwned
    ActsAsDict
    ItemTableBounded
    SortedActsAsMap
    ReferencesEnd
    MembersAreOwned
    ReadsBack
    CopiesDeeply
PROPERTY IterationIsComplete
