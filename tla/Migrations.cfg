SPECIFICATION Spec
CONSTANTS
    m1 = m1
    m2 = m2
    m3 = m3
    Migrator = {m1, m2, m3}
    Version = {1, 2, 3}
    Reversible = {1, 3}
    MaxStarts = 5
SYMMETRY MigratorSymmetry
INVARIANTS TypeOK RecordedIsThere ThereIsRecorded NoGaps UpAppliesAll
CHECK_DEADLOCK FALSE
