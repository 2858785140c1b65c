SPECIFICATION FairSpec
CONSTANTS
    Job = {j1}
    Worker = {w1, w2}
    Housekeeper = hk
    NoJob = NoJob
    AsyncReq = {a1}
    Keyed = {}
    SyncReq = {}
    RetryReq = {}
    MaxAttempts = 3
    Faults <- MlFault
PROPERTY StartedJobsEnd
