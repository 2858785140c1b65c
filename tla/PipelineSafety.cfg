SPECIFICATION Spec
CONSTANTS
    Job = {j1, j2}
    Worker = {w1}
    Housekeeper = hk
    NoJob = NoJob
    AsyncReq = {a1, a2}
    Keyed = {a1, a2}
    SyncReq = {}
    RetryReq = {r1}
    MaxAttempts = 3
    Faults <- EveryFault
SYMMETRY JobSymmetry
INVARIANTS
    TypeOK
    SuccessHasResult
    RunsWithinAttempts
    OneJobPerKey
