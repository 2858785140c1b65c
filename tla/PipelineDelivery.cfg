SPECIFICATION FairSpec
CONSTANTS
    Job = {j1}
    Worker = {w1, w2}
    Housekeeper = hk
    NoJob = NoJob
    AsyncReq = {a1}
    Keyed = {}
    SyncReq = {s1}
    RetryReq = {r1}
    MaxAttempts = 3
    Faults <- Crashes
INVARIANT QueuedIsDeliverable
PROPERTIES QueuedIsPickedUp AcceptedEnds
