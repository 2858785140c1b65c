----------------------------- MODULE MlService ------------------------------
(***************************************************************************)
(* The ML service (apps/ml): processes that resolve a model version and    *)
(* run it on an image, POST /predict and /predict_url of main.py.          *)
(***************************************************************************)
EXTENDS ModelRegistry, Detector

CONSTANT Traffic    \* bound: [workers, versions, images, outputs] that occur together

\* An image has pixels; the network's numbers are integers here.
ASSUME TrafficAssumption ==
    \A t \in Traffic :
        /\ t.workers \subseteq Process /\ t.versions \subseteq Version
        /\ \A img \in t.images : img.w \in Nat \ {0} /\ img.h \in Nat \ {0}
        /\ \A o \in t.outputs : \A i \in DOMAIN o :
            {o[i].x, o[i].y, o[i].w, o[i].h, o[i].confidence} \subseteq Int

VARIABLE traffic

mlVars == <<registryVars, detectorVars, traffic>>

Init == RegistryInit /\ DetectorInit /\ traffic \in Traffic

\* The model runs and its output is decoded.
Predict(p) ==
    /\ at[p] = "predict" /\ list[p] = <<>>
    /\ \E img \in traffic.images, o \in traffic.outputs : Decode(p, img, o)
    /\ UNCHANGED registryVars

Nms(p) == Suppress(p) /\ UNCHANGED registryVars

\* Mutation: the candidates outlive their request.
AnswerKeepsImage(p) == Answered(p) /\ UNCHANGED detectorVars

\* The answer; also 400, 413 or 500 wherever the request fails after resolve.
Answer(p) == Answered(p) /\ Clear(p)

Die(p) == Restart(p) /\ Clear(p)

Step(p) ==
    \/ \E v \in traffic.versions : Resolve(p, v) /\ UNCHANGED detectorVars
    \/ (Fetch(p) \/ Replace(p) \/ Load(p)) /\ UNCHANGED detectorVars
    \/ Predict(p) \/ Nms(p) \/ Answer(p) \/ Die(p)

Next ==
    /\ \/ \E p \in traffic.workers : Step(p)
       \/ \E v \in traffic.versions : Provide(v) /\ UNCHANGED detectorVars
    /\ UNCHANGED traffic

Spec == Init /\ [][Next]_mlVars

-----------------------------------------------------------------------------
\* The types of the registry and of the detector, and only a request that has its model
\* has candidates.
TypeOK ==
    /\ RegistryTypeOK
    /\ \A p \in Process :
        /\ left[p] \cup kept[p] \subseteq DOMAIN list[p] /\ left[p] \cap kept[p] = {}
        /\ list[p] # <<>> => at[p] = "predict"
=============================================================================
