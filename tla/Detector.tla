------------------------------ MODULE Detector ------------------------------
(***************************************************************************)
(* What ONNXObjectDetector makes of the raw output of its network          *)
(* (onnx_detector.py): _postprocess decodes the anchors into boxes of the  *)
(* image and _nms drops the duplicates, one pass of its loop per step.     *)
(* The confidences of an output are ranks, so that only their order counts.*)
(***************************************************************************)
EXTENDS MlProcesses, Integers, Sequences

CONSTANTS
    InputSide,      \* the side of the network's square input, in pixels
    MinSide,        \* anchors smaller than this are noise
    Threshold,      \* conf_threshold
    MaxCandidates   \* how many anchors are decoded at most

ASSUME DetectorAssumption ==
    InputSide \in Nat \ {0} /\ MinSide \in Nat /\ Threshold \in Nat /\ MaxCandidates \in Nat

\* A process predicts one image at a time.
VARIABLES
    image,  \* the size of the image a process predicts
    list,   \* its candidates: boxes by descending confidence
    left,   \* positions in list _nms has still to look at
    kept    \* positions it has kept

detectorVars == <<image, list, left, kept>>

NoImage == [w |-> 1, h |-> 1]

DetectorInit ==
    /\ image = [p \in Process |-> NoImage]
    /\ list = [p \in Process |-> <<>>]
    /\ left = [p \in Process |-> {}] /\ kept = [p \in Process |-> {}]

Lesser(a, b)  == IF a < b THEN a ELSE b
Greater(a, b) == IF a > b THEN a ELSE b

-----------------------------------------------------------------------------
(* Decoding. *)

\* An anchor: [label, confidence, x, y, w, h], x and y its upper left corner (cx - bw/2,
\* cy - bh/2).
Strong(a) == a.confidence >= Threshold /\ a.w >= MinSide /\ a.h >= MinSide

\* Positions of the candidates in the output, by descending confidence.  Up to the limit
\* all strong anchors, equals in the order of the output (list.sort is stable); beyond it
\* the strongest, equals as argsort happens to put them.
Ranked(o, s) ==
    LET strong == {i \in DOMAIN o : Strong(o[i])}
        Chosen == {s[k] : k \in DOMAIN s}
        Small  == \A i \in strong : i \in Chosen
    IN
    /\ Chosen \subseteq strong
    /\ Len(s) <= MaxCandidates /\ (Small \/ Len(s) = MaxCandidates)
    /\ \A i \in strong \ Chosen, k \in DOMAIN s : o[s[k]].confidence >= o[i].confidence
    /\ \A k, l \in DOMAIN s : k < l =>
        /\ o[s[k]].confidence >= o[s[l]].confidence
        /\ s[k] # s[l]
        /\ Small /\ o[s[k]].confidence = o[s[l]].confidence => s[k] < s[l]

\* ratio = max(h / InputSide, w / InputSide): here its numerator.
Longest(img) == Greater(img.w, img.h)

\* int(n / ratio).  Below zero int() rounds up and \div down; the clip makes both 0.
Scaled(n, img) == (n * InputSide) \div Longest(img)

\* Mutation: the corner is clipped, the sides are not.
DecodedCornerOnly(a, img) ==
    LET x == Greater(0, Lesser(Scaled(a.x, img), img.w - 1))
        y == Greater(0, Lesser(Scaled(a.y, img), img.h - 1))
    IN [label |-> a.label, confidence |-> a.confidence, x |-> x, y |-> y,
        w |-> Greater(1, Scaled(a.w, img)), h |-> Greater(1, Scaled(a.h, img))]

Decoded(a, img) ==
    LET x == Greater(0, Lesser(Scaled(a.x, img), img.w - 1))
        y == Greater(0, Lesser(Scaled(a.y, img), img.h - 1))
    IN [label |-> a.label, confidence |-> a.confidence, x |-> x, y |-> y,
        w |-> Greater(1, Lesser(Scaled(a.w, img), img.w - x)),
        h |-> Greater(1, Lesser(Scaled(a.h, img), img.h - y))]

-----------------------------------------------------------------------------
(* Suppression. *)

\* _iou(a, b) >= 0.5, without the division.
Overlaps(a, b) ==
    LET iw == Greater(0, Lesser(a.x + a.w, b.x + b.w) - Greater(a.x, b.x))
        ih == Greater(0, Lesser(a.y + a.h, b.y + b.h) - Greater(a.y, b.y))
    IN 2 * iw * ih >= a.w * a.h + b.w * b.h - iw * ih

Duplicate(a, b) == a.label = b.label /\ Overlaps(a, b)

\* predict up to the loop of _nms: the image and what the network says of it.
Decode(p, img, o) ==
    \E n \in 0..MaxCandidates : \E s \in [1..n -> DOMAIN o] :
        /\ Ranked(o, s)
        /\ image' = [image EXCEPT ![p] = img]
        /\ list' = [list EXCEPT ![p] = [k \in 1..n |-> Decoded(o[s[k]], img)]]
        /\ left' = [left EXCEPT ![p] = 1..n]
        /\ kept' = [kept EXCEPT ![p] = {}]

\* Mutation: whatever overlaps goes, an object of another kind too.
SuppressAnyLabel(p) ==
    \E i \in left[p] :
        /\ \A j \in left[p] : i <= j
        /\ kept' = [kept EXCEPT ![p] = @ \cup {i}]
        /\ left' = [left EXCEPT ![p] = {j \in @ : j # i /\ ~Overlaps(list[p][i], list[p][j])}]
        /\ UNCHANGED <<image, list>>

\* One pass of the loop: the best detection stays, its duplicates go.
Suppress(p) ==
    \E i \in left[p] :
        /\ \A j \in left[p] : i <= j
        /\ kept' = [kept EXCEPT ![p] = @ \cup {i}]
        /\ left' = [left EXCEPT ![p] = {j \in @ : j # i /\ ~Duplicate(list[p][i], list[p][j])}]
        /\ UNCHANGED <<image, list>>

\* The process forgets the image: it has answered, or it died.
Clear(p) ==
    /\ image' = [image EXCEPT ![p] = NoImage]
    /\ list' = [list EXCEPT ![p] = <<>>]
    /\ left' = [left EXCEPT ![p] = {}] /\ kept' = [kept EXCEPT ![p] = {}]

-----------------------------------------------------------------------------
\* What _nms is for, at every pass: a candidate is dropped only for a detection of the same
\* object that is kept and no weaker, and no two detections of one object are kept
\* (onnx_detector.py:192-199).
OneDetectionPerObject ==
    \A p \in Process :
        /\ \A i, j \in kept[p] : i < j => ~Duplicate(list[p][i], list[p][j])
        /\ \A i \in DOMAIN list[p] \ (kept[p] \cup left[p]) :
            \E k \in kept[p] :
                /\ Duplicate(list[p][k], list[p][i])
                /\ list[p][k].confidence >= list[p][i].confidence

\* Every box lies inside the image and is not empty, although the network's boxes leave its
\* input and the division and the clips round (onnx_detector.py:161-168).
BoxesInsideImage ==
    \A p \in Process : \A i \in DOMAIN list[p] :
        LET d == list[p][i] IN
        /\ d.x >= 0 /\ d.w >= 1 /\ d.x + d.w <= image[p].w
        /\ d.y >= 0 /\ d.h >= 1 /\ d.y + d.h <= image[p].h
=============================================================================
