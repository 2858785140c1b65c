SPECIFICATION Spec
CONSTANTS
    User = {u1, u2}
    Traffic <- Mixes
    Status = {"ACTIVE", "DEPRECATED"}
    PageLimit = 1
    Project = {p1, p2}
    Asset = {1, 2}
    Job = {j1}
    Version = {v1}
    Request = {q1, q2}
    NoUser = NoUser
    NoProject = NoProject
    NoAsset = NoAsset
    Gone = Gone
    NoVersion = NoVersion
SYMMETRY CatSymmetry
INVARIANTS
    TypeOK
    ListingIsExact
    StoredKeepsObject
    JobStaysInProject
PROPERTY PatchKeepsEdits
