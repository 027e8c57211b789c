CONSTANTS
    alice = alice
    bob = bob
    Caller = {alice, bob}
    Executor = {e1, e2}
    Pmap = {1, 2, 3, 4}
    Programs <- Runs
SPECIFICATION FairSpec
INVARIANTS
    BlockedJobsAreTaken
    EndedIsQuiet
    LikeALoop
PROPERTY EveryCallEnds
