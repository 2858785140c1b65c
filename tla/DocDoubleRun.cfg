SPECIFICATION Spec
CONSTANTS
    Job = {j1}
    Worker = {w1, w2}
    Housekeeper = hk
    NoJob = NoJob
    AsyncReq = {}
    Keyed = {}
    SyncReq = {s1}
    RetryReq = {r1, r2}
    MaxAttempts = 3
    Faults <- MlFault
INVARIANT SingleExecutor
