-------------------------- MODULE MlServiceProofs --------------------------
(***************************************************************************)
(* The ML service, for every number of processes, versions, file names,    *)
(* images and outputs of the network, and every mix of them.               *)
(*                                                                         *)
(* The registry and the detector share the step a process is at (at) and   *)
(* nothing else, so each has an invariant of its own.                      *)
(***************************************************************************)
EXTENDS MlService, TLAPS

-----------------------------------------------------------------------------
(* The registry.                                                           *)

\* A name on disk, or being downloaded, holds an artifact of that name, and so does what
\* was loaded under it.
RightFile ==
    /\ \A f \in File : disk[f] \in Version => FileOf(disk[f]) = f
    /\ \A f \in File : part[f] \in Version => FileOf(part[f]) = f
    /\ \A p \in Process, v \in Version :
        models[p][v] \in Version => FileOf(models[p][v]) = FileOf(v)

\* What a request knows at each step: it downloads a remote version only; after the download
\* the `.part` is there or another process has renamed it; it loads a remote version that is
\* not on disk only after a failure.
KnowsWhy ==
    \A p \in Process :
        LET v == serving[p] IN
        /\ at[p] = "fetch"   => v \in Remote
        /\ at[p] = "replace" => part[FileOf(v)] # NoFile \/ disk[FileOf(v)] # NoFile
        /\ at[p] = "load" /\ v \in Remote => disk[FileOf(v)] # NoFile \/ v \in failed[p]

RegistryInv ==
    RegistryTypeOK /\ RightFile /\ KnowsWhy /\ HeuristicOnlyAfterFailure

LEMMA RegistryStart == RegistryInit => RegistryInv
BY RegistryAssumption
DEF RegistryInit, RegistryInv, RegistryTypeOK, RightFile, KnowsWhy, HeuristicOnlyAfterFailure

LEMMA ProvideRegistry ==
    ASSUME RegistryInv, NEW v \in Version, Provide(v)
    PROVE  RegistryInv'
BY RegistryAssumption
DEF RegistryInv, RegistryTypeOK, RightFile, KnowsWhy, HeuristicOnlyAfterFailure, Provide

LEMMA ResolveRegistry ==
    ASSUME RegistryInv, NEW p \in Process, NEW v \in Version, Resolve(p, v)
    PROVE  RegistryInv'
BY RegistryAssumption
DEF RegistryInv, RegistryTypeOK, RightFile, KnowsWhy, HeuristicOnlyAfterFailure,
    Resolve, Starting, Go, filesVars

LEMMA FetchRegistry ==
    ASSUME RegistryInv, NEW p \in Process, Fetch(p)
    PROVE  RegistryInv'
<1> DEFINE v == serving[p]
           f == FileOf(v)
<1>1. v \in Version /\ f \in File /\ v \in Remote /\ NoFile \notin Version
  BY RegistryAssumption DEF RegistryInv, RegistryTypeOK, KnowsWhy, Fetch
<1>2. UNCHANGED <<models, disk, bucket, serving>>
  BY DEF Fetch
<1>3. CASE part' = [part EXCEPT ![f] = v] /\ Go(p, "replace") /\ UNCHANGED failed
  <2>1. RegistryTypeOK'
    BY <1>1, <1>2, <1>3 DEF RegistryInv, RegistryTypeOK, Go
  <2>2. RightFile'
    BY <1>1, <1>2, <1>3 DEF RegistryInv, RegistryTypeOK, RightFile
  <2>3. KnowsWhy'
    <3>1. \A g \in File : part[g] # NoFile => part'[g] # NoFile
      BY <1>1, <1>3 DEF RegistryInv, RegistryTypeOK
    <3>2. part'[f] # NoFile
      BY <1>1, <1>3 DEF RegistryInv, RegistryTypeOK
    <3>3. \A q \in Process : FileOf(serving[q]) \in File
      BY RegistryAssumption DEF RegistryInv, RegistryTypeOK
    <3>4. QED
      BY <1>1, <1>2, <1>3, <3>1, <3>2, <3>3 DEF RegistryInv, RegistryTypeOK, KnowsWhy, Go
  <2>4. HeuristicOnlyAfterFailure'
    BY <1>2, <1>3 DEF RegistryInv, HeuristicOnlyAfterFailure
  <2>5. QED
    BY <2>1, <2>2, <2>3, <2>4 DEF RegistryInv
<1>4. CASE failed' = [failed EXCEPT ![p] = @ \cup {v}] /\ Go(p, "load") /\ UNCHANGED part
  <2>1. RegistryTypeOK'
    BY <1>1, <1>2, <1>4 DEF RegistryInv, RegistryTypeOK, Go
  <2>2. RightFile'
    BY <1>2, <1>4 DEF RegistryInv, RightFile
  <2>3. v \in failed'[p] /\ \A q \in Process : failed[q] \subseteq failed'[q]
    BY <1>4 DEF RegistryInv, RegistryTypeOK
  <2>4. KnowsWhy'
    BY <1>2, <1>4, <2>3 DEF RegistryInv, RegistryTypeOK, KnowsWhy, Go
  <2>5. HeuristicOnlyAfterFailure'
    BY <1>2, <2>3 DEF RegistryInv, HeuristicOnlyAfterFailure
  <2>6. QED
    BY <2>1, <2>2, <2>4, <2>5 DEF RegistryInv
<1>5. QED
  BY <1>3, <1>4 DEF Fetch

LEMMA ReplaceRegistry ==
    ASSUME RegistryInv, NEW p \in Process, Replace(p)
    PROVE  RegistryInv'
<1> DEFINE v == serving[p]
           f == FileOf(v)
<1>1. v \in Version /\ f \in File /\ NoFile \notin Version
      /\ \A q \in Process : FileOf(serving[q]) \in File
  BY RegistryAssumption DEF RegistryInv, RegistryTypeOK
<1>2. UNCHANGED <<models, bucket, serving>> /\ Go(p, "load") /\ at[p] = "replace"
  BY DEF Replace
<1>3. \/ /\ part[f] # NoFile
         /\ disk' = [disk EXCEPT ![f] = part[f]] /\ part' = [part EXCEPT ![f] = NoFile]
      \/ part[f] = NoFile /\ UNCHANGED <<disk, part, failed>>
      \/ UNCHANGED <<disk, part>> /\ failed' = [failed EXCEPT ![p] = @ \cup {v}]
  BY DEF Replace
<1>4. failed' = failed \/ failed' = [failed EXCEPT ![p] = @ \cup {v}]
  BY DEF Replace
<1>5. /\ failed' \in [Process -> SUBSET Version]
      /\ \A q \in Process : failed[q] \subseteq failed'[q]
  BY <1>1, <1>4 DEF RegistryInv, RegistryTypeOK
<1>6. /\ \A g \in File : disk[g] # NoFile => disk'[g] # NoFile
      /\ \A g \in File : part[g] # NoFile => part'[g] # NoFile \/ disk'[g] # NoFile
      /\ disk'[f] # NoFile \/ v \in failed'[p]
  BY <1>1, <1>2, <1>3, <1>5 DEF RegistryInv, RegistryTypeOK, KnowsWhy
<1>7. RegistryTypeOK'
  BY <1>1, <1>2, <1>3, <1>5 DEF RegistryInv, RegistryTypeOK, Go
<1>8. RightFile'
  <2>1. \A g \in File : /\ disk'[g] \in {disk[g], part[g]}
                        /\ part'[g] \in {part[g], NoFile}
    BY <1>1, <1>3 DEF RegistryInv, RegistryTypeOK
  <2>2. QED
    BY <1>1, <1>2, <2>1 DEF RegistryInv, RightFile
<1>9. KnowsWhy'
  BY <1>1, <1>2, <1>5, <1>6 DEF RegistryInv, RegistryTypeOK, KnowsWhy, Go
<1>10. HeuristicOnlyAfterFailure'
  BY <1>2, <1>5 DEF RegistryInv, HeuristicOnlyAfterFailure
<1>11. QED
  BY <1>7, <1>8, <1>9, <1>10 DEF RegistryInv

\* What Load enters: the content of the file, or a heuristic that was accounted for.
LEMMA LoadEnters ==
    ASSUME RegistryInv, NEW p \in Process, Load(p)
    PROVE  /\ serving[p] \in Version /\ at[p] = "load"
           /\ UNCHANGED <<disk, part, bucket, serving>>
           /\ \E m : /\ models' = [models EXCEPT ![p][serving[p]] = m]
                     /\ \/ m \in Version /\ FileOf(m) = FileOf(serving[p])
                        \/ m = Heuristic /\ serving[p] \in failed'[p]
           /\ failed' \in [Process -> SUBSET Version]
           /\ \A q \in Process : failed[q] \subseteq failed'[q]
           /\ at' = [at EXCEPT ![p] = "predict"]
<1> DEFINE v == serving[p]
           f == FileOf(v)
           Enter(m) == models' = [models EXCEPT ![p][v] = m]
<1>1. v \in Version /\ f \in File /\ at[p] = "load" /\ at' = [at EXCEPT ![p] = "predict"]
  BY RegistryAssumption DEF RegistryInv, RegistryTypeOK, Load, Go
<1>2. UNCHANGED <<disk, part, bucket, serving>>
  BY DEF Load, filesVars
<1>3. failed \in [Process -> SUBSET Version]
  BY DEF RegistryInv, RegistryTypeOK
<1>4. CASE disk[f] # NoFile /\ Enter(disk[f]) /\ UNCHANGED failed
  <2>1. disk[f] \in Version /\ FileOf(disk[f]) = f
    BY <1>1, <1>4 DEF RegistryInv, RegistryTypeOK, RightFile
  <2>2. QED
    BY <1>1, <1>2, <1>3, <1>4, <2>1
<1>5. CASE Enter(Heuristic) /\ failed' = [failed EXCEPT ![p] = @ \cup {v}]
  <2>1. failed' \in [Process -> SUBSET Version] /\ v \in failed'[p]
    BY <1>1, <1>3, <1>5
  <2>2. \A q \in Process : failed[q] \subseteq failed'[q]
    BY <1>3, <1>5
  <2>3. QED
    BY <1>1, <1>2, <1>5, <2>1, <2>2
<1>6. CASE disk[f] = NoFile /\ v \in Remote /\ Enter(Heuristic) /\ UNCHANGED failed
  <2>1. v \in failed[p]
    BY <1>1, <1>6 DEF RegistryInv, KnowsWhy
  <2>2. QED
    BY <1>1, <1>2, <1>3, <1>6, <2>1
<1>7. QED
  BY <1>4, <1>5, <1>6 DEF Load

LEMMA LoadRegistry ==
    ASSUME RegistryInv, NEW p \in Process, Load(p)
    PROVE  RegistryInv'
<1>1. PICK m : /\ models' = [models EXCEPT ![p][serving[p]] = m]
               /\ \/ m \in Version /\ FileOf(m) = FileOf(serving[p])
                  \/ m = Heuristic /\ serving[p] \in failed'[p]
  BY LoadEnters
<1> USE LoadEnters DEF RegistryInv
<1>2. RegistryTypeOK'
  BY <1>1 DEF RegistryTypeOK
<1>3. RightFile'
  BY <1>1, RegistryAssumption DEF RegistryTypeOK, RightFile
<1>4. KnowsWhy'
  BY DEF RegistryTypeOK, KnowsWhy
<1>5. HeuristicOnlyAfterFailure'
  BY <1>1, RegistryAssumption DEF RegistryTypeOK, HeuristicOnlyAfterFailure
<1>6. QED
  BY <1>2, <1>3, <1>4, <1>5

LEMMA AnsweredRegistry ==
    ASSUME RegistryInv, NEW p \in Process, Answered(p)
    PROVE  RegistryInv'
BY RegistryAssumption
DEF RegistryInv, RegistryTypeOK, RightFile, KnowsWhy, HeuristicOnlyAfterFailure, Answered, Go,
    filesVars

LEMMA RestartRegistry ==
    ASSUME RegistryInv, NEW p \in Process, Restart(p)
    PROVE  RegistryInv'
BY RegistryAssumption
DEF RegistryInv, RegistryTypeOK, RightFile, KnowsWhy, HeuristicOnlyAfterFailure, Restart, Go,
    filesVars

LEMMA StutterRegistry == RegistryInv /\ UNCHANGED registryVars => RegistryInv'
BY DEF RegistryInv, RegistryTypeOK, RightFile, KnowsWhy, HeuristicOnlyAfterFailure,
    registryVars, filesVars
-----------------------------------------------------------------------------
(* The detector.                                                           *)

DetectorShape ==
    DOMAIN image = Process /\ DOMAIN list = Process /\ DOMAIN left = Process /\ DOMAIN kept = Process

\* The loop of _nms has looked at the strongest first: what it kept comes before what is
\* left and is a duplicate of none of it.
InOrder(p) ==
    /\ DOMAIN list[p] \subseteq Nat
    /\ left[p] \cup kept[p] \subseteq DOMAIN list[p] /\ left[p] \cap kept[p] = {}
    /\ \A i, j \in DOMAIN list[p] : i < j => list[p][i].confidence >= list[p][j].confidence
    /\ \A k \in kept[p], j \in left[p] : k < j /\ ~Duplicate(list[p][k], list[p][j])

\* OneDetectionPerObject and BoxesInsideImage of one process.
Once(p) ==
    /\ \A i, j \in kept[p] : i < j => ~Duplicate(list[p][i], list[p][j])
    /\ \A i \in DOMAIN list[p] \ (kept[p] \cup left[p]) :
        \E k \in kept[p] : /\ Duplicate(list[p][k], list[p][i])
                           /\ list[p][k].confidence >= list[p][i].confidence

Inside(d, img) ==
    /\ d.x >= 0 /\ d.w >= 1 /\ d.x + d.w <= img.w
    /\ d.y >= 0 /\ d.h >= 1 /\ d.y + d.h <= img.h

Boxed(p) == \A i \in DOMAIN list[p] : Inside(list[p][i], image[p])

DetectorInv == DetectorShape /\ \A p \in Process : InOrder(p) /\ Once(p) /\ Boxed(p)

\* A step of process p leaves what the others predict alone.
Others(p) ==
    \A q \in Process \ {p} : /\ list'[q] = list[q] /\ image'[q] = image[q]
                             /\ left'[q] = left[q] /\ kept'[q] = kept[q]

LEMMA OthersKeep ==
    ASSUME DetectorInv, NEW p \in Process, Others(p), DetectorShape',
           InOrder(p)' /\ Once(p)' /\ Boxed(p)'
    PROVE  DetectorInv'
<1>1. ASSUME NEW q \in Process \ {p} PROVE InOrder(q)' /\ Once(q)' /\ Boxed(q)'
  BY <1>1 DEF Others, DetectorInv, InOrder, Once, Boxed
<1>2. QED
  BY <1>1 DEF DetectorInv

LEMMA EmptyIsFine ==
    ASSUME NEW p \in Process, list'[p] = <<>>, left'[p] = {}, kept'[p] = {}
    PROVE  InOrder(p)' /\ Once(p)' /\ Boxed(p)'
<1>1. DOMAIN list'[p] = {}
  OBVIOUS
<1>2. QED
  BY <1>1 DEF InOrder, Once, Boxed

LEMMA DetectorStart == DetectorInit => DetectorInv
<1> SUFFICES ASSUME DetectorInit PROVE DetectorInv
  OBVIOUS
<1>1. DetectorShape
  BY DEF DetectorInit, DetectorShape
<1>2. ASSUME NEW p \in Process PROVE InOrder(p) /\ Once(p) /\ Boxed(p)
  <2>1. DOMAIN list[p] = {} /\ left[p] = {} /\ kept[p] = {}
    BY <1>2 DEF DetectorInit
  <2>2. QED
    BY <2>1 DEF InOrder, Once, Boxed
<1>3. QED
  BY <1>1, <1>2 DEF DetectorInv

\* The clips put any anchor into any image.  Of the division only its type matters.
LEMMA DecodedInside ==
    ASSUME NEW a, a.x \in Int, a.y \in Int, a.w \in Int, a.h \in Int,
           NEW img, img.w \in Nat \ {0}, img.h \in Nat \ {0}
    PROVE  Inside(Decoded(a, img), img)
<1>1. Longest(img) \in Nat \ {0}
  BY DEF Longest, Greater
<1>2. ASSUME NEW n \in Int PROVE Scaled(n, img) \in Int
  BY <1>1, DetectorAssumption DEF Scaled
<1> DEFINE x == Greater(0, Lesser(Scaled(a.x, img), img.w - 1))
           y == Greater(0, Lesser(Scaled(a.y, img), img.h - 1))
           w == Greater(1, Lesser(Scaled(a.w, img), img.w - x))
           h == Greater(1, Lesser(Scaled(a.h, img), img.h - y))
<1>3. x \in 0..img.w - 1 /\ y \in 0..img.h - 1
  BY <1>2 DEF Greater, Lesser
<1>4. w \in 1..img.w - x /\ h \in 1..img.h - y
  <2> HIDE DEF x, y
  <2>1. QED
    BY <1>2, <1>3 DEF Greater, Lesser
<1>5. Decoded(a, img) = [label |-> a.label, confidence |-> a.confidence,
                         x |-> x, y |-> y, w |-> w, h |-> h]
  BY DEF Decoded
<1> HIDE DEF x, y, w, h
<1>6. QED
  BY <1>3, <1>4, <1>5 DEF Inside

LEMMA DecodedConfidence == \A a, img : Decoded(a, img).confidence = a.confidence
BY DEF Decoded

LEMMA DecodeDetector ==
    ASSUME DetectorInv, NEW p \in Process, NEW t \in Traffic,
           NEW img \in t.images, NEW o \in t.outputs, Decode(p, img, o)
    PROVE  DetectorInv'
<1>0. PICK n \in 0..MaxCandidates : \E s \in [1..n -> DOMAIN o] :
        /\ Ranked(o, s)
        /\ image' = [image EXCEPT ![p] = img]
        /\ list' = [list EXCEPT ![p] = [k \in 1..n |-> Decoded(o[s[k]], img)]]
        /\ left' = [left EXCEPT ![p] = 1..n]
        /\ kept' = [kept EXCEPT ![p] = {}]
  BY DEF Decode
<1>1. PICK s \in [1..n -> DOMAIN o] :
        /\ Ranked(o, s)
        /\ image' = [image EXCEPT ![p] = img]
        /\ list' = [list EXCEPT ![p] = [k \in 1..n |-> Decoded(o[s[k]], img)]]
        /\ left' = [left EXCEPT ![p] = 1..n]
        /\ kept' = [kept EXCEPT ![p] = {}]
  BY <1>0
<1>2. n \in Nat /\ DOMAIN s = 1..n
  BY DetectorAssumption
<1>3. DetectorShape' /\ Others(p)
  BY <1>1 DEF DetectorInv, DetectorShape, Others
<1>4. /\ list'[p] = [k \in 1..n |-> Decoded(o[s[k]], img)]
      /\ left'[p] = 1..n /\ kept'[p] = {} /\ image'[p] = img
  BY <1>1 DEF DetectorInv, DetectorShape
<1>5. \A k \in 1..n : list'[p][k] = Decoded(o[s[k]], img)
  BY <1>4
<1>6. \A k \in 1..n : list'[p][k].confidence = o[s[k]].confidence
  BY <1>5, DecodedConfidence
<1>7. DOMAIN list'[p] = 1..n
  BY <1>4
<1>8. \A i, j \in 1..n : i < j => o[s[i]].confidence >= o[s[j]].confidence
  BY <1>1, <1>2 DEF Ranked
<1>9. InOrder(p)'
  BY <1>2, <1>4, <1>6, <1>7, <1>8 DEF InOrder
<1>10. Once(p)'
  BY <1>4, <1>7 DEF Once
<1>11. Boxed(p)'
  <2>1. ASSUME NEW k \in 1..n PROVE Inside(Decoded(o[s[k]], img), img)
    <3>1. s[k] \in DOMAIN o
      OBVIOUS
    <3>2. /\ img.w \in Nat \ {0} /\ img.h \in Nat \ {0}
          /\ o[s[k]].x \in Int /\ o[s[k]].y \in Int /\ o[s[k]].w \in Int /\ o[s[k]].h \in Int
      BY <3>1, TrafficAssumption
    <3>3. QED
      BY <3>2, DecodedInside
  <2>2. QED
    BY <1>4, <1>5, <1>7, <2>1 DEF Boxed
<1>12. QED
  BY <1>3, <1>9, <1>10, <1>11, OthersKeep

LEMMA SuppressDetector ==
    ASSUME DetectorInv, NEW p \in Process, Suppress(p)
    PROVE  DetectorInv'
<1>1. PICK i \in left[p] :
        /\ \A j \in left[p] : i <= j
        /\ kept' = [kept EXCEPT ![p] = @ \cup {i}]
        /\ left' = [left EXCEPT ![p] = {j \in @ : j # i /\ ~Duplicate(list[p][i], list[p][j])}]
        /\ UNCHANGED <<image, list>>
  BY DEF Suppress
<1>2. DetectorShape' /\ Others(p)
  BY <1>1 DEF DetectorInv, DetectorShape, Others
<1>3. /\ kept'[p] = kept[p] \cup {i}
      /\ left'[p] = {j \in left[p] : j # i /\ ~Duplicate(list[p][i], list[p][j])}
      /\ list'[p] = list[p] /\ image'[p] = image[p]
  BY <1>1 DEF DetectorInv, DetectorShape
<1>4. InOrder(p) /\ Once(p) /\ Boxed(p)
  BY DEF DetectorInv
<1>5. left[p] \cup kept[p] \subseteq Nat /\ i \in DOMAIN list[p]
  BY <1>4 DEF InOrder
<1>6. \A j \in left[p] : j # i => i < j /\ list[p][i].confidence >= list[p][j].confidence
  <2>1. ASSUME NEW j \in left[p], j # i PROVE i < j
    BY <1>1, <1>5, <2>1
  <2>2. QED
    BY <1>4, <1>5, <2>1 DEF InOrder
<1>7. InOrder(p)'
  BY <1>3, <1>4, <1>5, <1>6 DEF InOrder
<1>8. Once(p)'
  <2>1. \A k, l \in kept'[p] : k < l => ~Duplicate(list[p][k], list[p][l])
    BY <1>3, <1>4, <1>5 DEF InOrder, Once
  <2>2. \A l \in DOMAIN list[p] \ (kept'[p] \cup left'[p]) :
          \E k \in kept'[p] : /\ Duplicate(list[p][k], list[p][l])
                              /\ list[p][k].confidence >= list[p][l].confidence
    BY <1>3, <1>4, <1>5, <1>6 DEF Once
  <2>3. QED
    BY <1>3, <2>1, <2>2 DEF Once
<1>9. Boxed(p)'
  BY <1>3, <1>4 DEF Boxed
<1>10. QED
  BY <1>2, <1>7, <1>8, <1>9, OthersKeep

LEMMA ClearDetector ==
    ASSUME DetectorInv, NEW p \in Process, Clear(p)
    PROVE  DetectorInv' /\ list'[p] = <<>>
<1>1. DetectorShape' /\ Others(p) /\ list'[p] = <<>> /\ left'[p] = {} /\ kept'[p] = {}
  BY DEF DetectorInv, DetectorShape, Others, Clear
<1>2. QED
  BY <1>1, EmptyIsFine, OthersKeep

LEMMA StutterDetector == DetectorInv /\ UNCHANGED detectorVars => DetectorInv'
BY DEF DetectorInv, DetectorShape, InOrder, Once, Boxed, detectorVars
-----------------------------------------------------------------------------
(* Both together.                                                          *)

\* Only a request that has its model has candidates.
Timely == \A p \in Process : list[p] # <<>> => at[p] = "predict"

MlInv == RegistryInv /\ DetectorInv /\ Timely /\ traffic \in Traffic

LEMMA MlStart == Init => MlInv
BY RegistryStart, DetectorStart DEF Init, MlInv, Timely, DetectorInit

LEMMA PredictStep ==
    ASSUME MlInv, NEW p \in Process, traffic' = traffic, Predict(p) \/ Nms(p)
    PROVE  MlInv'
<1>1. RegistryInv' /\ at' = at
  BY StutterRegistry DEF MlInv, Predict, Nms, registryVars
<1>2. CASE Predict(p)
  <2>1. PICK img \in traffic.images, o \in traffic.outputs : Decode(p, img, o)
    BY <1>2 DEF Predict
  <2>2. DetectorInv'
    BY <2>1, DecodeDetector DEF MlInv
  <2>3. at[p] = "predict" /\ \A q \in Process \ {p} : list'[q] = list[q]
    BY <1>2, <2>1 DEF Predict, Decode, MlInv, DetectorInv, DetectorShape
  <2>4. QED
    BY <1>1, <2>2, <2>3 DEF MlInv, Timely
<1>3. CASE Nms(p)
  BY <1>1, <1>3, SuppressDetector DEF Nms, MlInv, Timely, Suppress
<1>4. QED
  BY <1>2, <1>3

LEMMA ClearStep ==
    ASSUME MlInv, NEW p \in Process, traffic' = traffic, Answer(p) \/ Die(p)
    PROVE  MlInv'
<1>1. RegistryInv'
  BY AnsweredRegistry, RestartRegistry DEF MlInv, Answer, Die
<1>2. Clear(p) /\ \A q \in Process \ {p} : at'[q] = at[q] /\ list'[q] = list[q]
  BY DEF Answer, Die, Answered, Restart, Go, Clear, MlInv, RegistryInv, RegistryTypeOK,
         DetectorInv, DetectorShape
<1>3. DetectorInv' /\ list'[p] = <<>>
  BY <1>2, ClearDetector DEF MlInv
<1>4. QED
  BY <1>1, <1>2, <1>3 DEF MlInv, Timely

LEMMA ResolveStep ==
    ASSUME MlInv, NEW p \in Process, traffic' = traffic, UNCHANGED detectorVars,
           (\E v \in traffic.versions : Resolve(p, v)) \/ Fetch(p) \/ Replace(p) \/ Load(p)
    PROVE  MlInv'
<1>1. RegistryInv'
  BY ResolveRegistry, FetchRegistry, ReplaceRegistry, LoadRegistry, TrafficAssumption DEF MlInv
<1>2. DetectorInv'
  BY StutterDetector DEF MlInv
<1>3. at[p] # "predict" /\ \A q \in Process \ {p} : at'[q] = at[q]
  BY DEF Resolve, Fetch, Replace, Load, Go, MlInv, RegistryInv, RegistryTypeOK
<1>4. QED
  BY <1>1, <1>2, <1>3 DEF MlInv, Timely, detectorVars

LEMMA ProvideStep ==
    ASSUME MlInv, NEW v \in traffic.versions, traffic' = traffic, UNCHANGED detectorVars,
           Provide(v)
    PROVE  MlInv'
<1>1. v \in Version
  BY TrafficAssumption DEF MlInv
<1>2. QED
  BY <1>1, ProvideRegistry, StutterDetector DEF MlInv, Timely, Provide, detectorVars

LEMMA MlStep == MlInv /\ [Next]_mlVars => MlInv'
<1>1. ASSUME MlInv, UNCHANGED mlVars PROVE MlInv'
  BY <1>1, StutterRegistry, StutterDetector DEF mlVars, registryVars, detectorVars, MlInv, Timely
<1>2. ASSUME MlInv, Next PROVE MlInv'
  <2>1. CASE \E p \in traffic.workers : Step(p)
    <3>1. PICK p \in traffic.workers : Step(p)
      BY <2>1
    <3>2. p \in Process /\ traffic' = traffic
      BY <1>2, TrafficAssumption DEF MlInv, Next
    <3>3. QED
      BY <1>2, <3>1, <3>2, ResolveStep, PredictStep, ClearStep DEF Step
  <2>2. CASE \E v \in traffic.versions : Provide(v) /\ UNCHANGED detectorVars
    BY <1>2, <2>2, ProvideStep DEF Next
  <2>3. QED
    BY <1>2, <2>1, <2>2 DEF Next
<1>3. QED
  BY <1>1, <1>2

LEMMA Invariance == Spec => []MlInv
BY MlStart, MlStep, PTL DEF Spec

\* Every variable of the service has its type, a candidate is either left or kept at most
\* once, and only a request that has its model has candidates (registry.py, onnx_detector.py).
THEOREM MlTypes == Spec => []TypeOK
<1>1. MlInv => TypeOK
  BY DEF MlInv, RegistryInv, DetectorInv, InOrder, Timely, TypeOK
<1>2. QED
  BY <1>1, Invariance, PTL

\* The heuristic answers for a version only in a process that failed to fetch, to find or to
\* load its artifact: no interleaving of the downloads and no crash is enough
\* (registry.py:125-130).
THEOREM HeuristicIsAccountedFor == Spec => []HeuristicOnlyAfterFailure
<1>1. MlInv => HeuristicOnlyAfterFailure
  BY DEF MlInv, RegistryInv
<1>2. QED
  BY <1>1, Invariance, PTL

\* A version whose file name is its own is answered by its own artifact (registry.py:108).
THEOREM OwnArtifact == Spec => []ServesOwnArtifact
<1>1. MlInv => ServesOwnArtifact
  BY DEF MlInv, RegistryInv, RightFile, ServesOwnArtifact
<1>2. QED
  BY <1>1, Invariance, PTL

\* At every pass of _nms, whatever the network says: no two detections of one object are
\* kept, and what was dropped has a kept one that is no weaker (onnx_detector.py:192-199).
THEOREM NmsKeepsTheBest == Spec => []OneDetectionPerObject
<1>1. MlInv => OneDetectionPerObject
  BY DEF MlInv, DetectorInv, Once, OneDetectionPerObject
<1>2. QED
  BY <1>1, Invariance, PTL

\* Every box lies inside its image, for all image sizes and all anchors
\* (onnx_detector.py:161-168).
THEOREM BoxesFit == Spec => []BoxesInsideImage
<1>1. MlInv => BoxesInsideImage
  BY DEF MlInv, DetectorInv, Boxed, Inside, BoxesInsideImage
<1>2. QED
  BY <1>1, Invariance, PTL
=============================================================================
