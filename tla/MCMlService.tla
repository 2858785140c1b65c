---------------------------- MODULE MCMlService -----------------------------
(***************************************************************************)
(* Two processes.  Where their downloads are explored they find nothing in *)
(* an image; where outputs are explored one process serves one version.    *)
(***************************************************************************)
EXTENDS MlService, TLC

CONSTANTS v1, v2, v3, v4

\* v1 and v2 are models/yolo/1.0.0/model.onnx and .../2.0.0/model.onnx.
Files == [v \in Version |-> IF v \in {v1, v2} THEN "model" ELSE IF v = v3 THEN "other" ELSE "demo"]
MCFileOf(v) == Files[v]

Box(l, c, x, y, w, h) ==
    [label |-> l, confidence |-> c, x |-> x, y |-> y, w |-> w, h |-> h]

\* The first three share two thirds, a quarter and just a half of their unions; then another
\* kind, boxes that leave the input, noise and a weak one.
Boxes == {
    Box("cat", 3, 0, 0, 4, 4), Box("cat", 2, 0, 0, 4, 6), Box("cat", 1, 0, 2, 4, 6),
    Box("dog", 2, 0, 0, 4, 6), Box("cat", 2, -2, 3, 8, 8), Box("dog", 1, 6, 7, 5, 4),
    Box("dog", 3, 0, 0, 3, 8), Box("dog", 0, 0, 0, 8, 8)}

Outputs == UNION {{o \in [1..n -> Boxes] : \A i, j \in 1..n : i # j => o[i] # o[j]} : n \in 0..3}
Images  == {[w |-> 8, h |-> 8], [w |-> 12, h |-> 5], [w |-> 3, h |-> 4]}

OneVersion   == {[workers |-> {w}, versions |-> {v4}, images |-> Images, outputs |-> Outputs] :
                    w \in Process}
ManyVersions == [workers |-> Process, versions |-> {v1, v2, v3},
                 images |-> {NoImage}, outputs |-> {<<>>}]

Loads == OneVersion \cup {ManyVersions}

MlSymmetry == Permutations(Process)
=============================================================================
