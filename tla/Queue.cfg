SPECIFICATION FairSpec
CONSTANTS
    Job = {j1, j2}
    Worker = {w1, w2}
    Housekeeper = hk
    NoJob = NoJob
    Faults <- MCCrashes
INVARIANTS
    TypeOK
    AtMostOneCopy
    ExclusiveLease
PROPERTIES
    DeliversAtLeastOnce
    EventuallySettled
