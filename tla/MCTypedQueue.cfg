CONSTANTS
    Value = {a, b}
    Writer = {w1}
    Reader = {r1, r2}
    Queue = Queue
    Nobody = Nobody
    MaxLen = 2
    MaxBatch = 2
SPECIFICATION FairSpec
INVARIANTS
    EmptyLockAgrees
    CloserNotStuck
    NoError
PROPERTIES ImplementsFifo Woken
