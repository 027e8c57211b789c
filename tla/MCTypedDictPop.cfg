CONSTANTS
    Key = {1, 2}
    Value = {a}
    NoKey = NoKey
    NoValue = NoValue
    Hash <- Colliding
    MIN_SIZE = 4
    Iter = {i}
    MaxTop = 6
    FewKeys = {1, 2}
    IterTop = 6
    SortedKey = {2}
    SortedValues <- OneChanges
    Starts <- SomeTrees
    HeldThread = {"t1", "t2"}
    Parties <- OneOrBoth
    Frame = {"f1", "f2"}
    Obj = {"o1", "o2"}
    HeldDepth = 2
    Graphs <- OneGraph
    Temporary = {10}
    MaxFrames = 9
SPECIFICATION Containers
INVARIANT PopGivesItem
