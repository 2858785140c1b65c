SPECIFICATION Spec
CONSTANTS
    w1 = w1
    w2 = w2
    v1 = v1
    v2 = v2
    v3 = v3
    v4 = v4
    Process = {w1, w2}
    Version = {v1, v2, v3, v4}
    Remote = {v1, v2, v3}
    File = {"model", "other", "demo"}
    NoFile = NoFile
    NoModel = NoModel
    Heuristic = Heuristic
    FileOf <- MCFileOf
    InputSide = 8
    MinSide = 4
    Threshold = 1
    MaxCandidates = 3
    Traffic <- Loads
SYMMETRY MlSymmetry
INVARIANTS TypeOK HeuristicOnlyAfterFailure ServesOwnArtifact OneDetectionPerObject BoxesInsideImage
