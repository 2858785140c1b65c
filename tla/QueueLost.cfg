SPECIFICATION Spec
CONSTANTS
    Job = {j1}
    Worker = {w1, w2}
    Housekeeper = hk
    NoJob = NoJob
    Faults <- MCPopCrash
INVARIANT NoJobLost
