---------------------------- MODULE ModelRegistry ---------------------------
(***************************************************************************)
(* ModelRegistry (registry.py) in the processes uvicorn runs it in, over   *)
(* the artifacts directory they share.  resolve has no await in it: within *)
(* a process it is atomic, between processes its file operations           *)
(* interleave.  boto3 downloads into a name of its own and renames it to   *)
(* `.part`, which is therefore whole or not there.                         *)
(***************************************************************************)
EXTENDS MlProcesses, Naturals

CONSTANTS
    Version,        \* model versions; also the contents of their artifacts
    Remote,         \* those with an s3:// or minio:// artifact_uri
    File,           \* file names under ML_ARTIFACTS_DIR
    NoFile,         \* a file that is not there
    NoModel,        \* no entry in _models, or a demo's that is not loaded
    Heuristic       \* a loaded model that has no session

CONSTANT FileOf(_)  \* os.path.basename of a version's artifact_uri

ASSUME RegistryAssumption ==
    /\ Remote \subseteq Version /\ \A v \in Version : FileOf(v) \in File
    /\ NoFile \notin Version /\ NoModel \notin Version /\ Heuristic \notin Version
    /\ NoModel # Heuristic

VARIABLES
    models,     \* _models of each process: what answers for a version
    disk,       \* the content of each file
    part,       \* the content of each file's `.part`
    bucket,     \* remote versions whose artifact is in the bucket
    at,         \* the step of a request in each process
    serving,    \* the version it is for
    failed      \* history: versions a process failed to fetch, to find or to load

filesVars    == <<disk, part, bucket>>
registryVars == <<models, filesVars, at, serving, failed>>

RegistryInit ==
    /\ models = [p \in Process |-> [v \in Version |-> NoModel]]
    /\ disk = [f \in File |-> NoFile] /\ part = [f \in File |-> NoFile] /\ bucket = {}
    /\ at = [p \in Process |-> "idle"]
    /\ serving \in [Process -> Version]
    /\ failed = [p \in Process |-> {}]

RegistryTypeOK ==
    /\ models \in [Process -> [Version -> Version \cup {NoModel, Heuristic}]]
    /\ disk \in [File -> Version \cup {NoFile}] /\ part \in [File -> Version \cup {NoFile}]
    /\ bucket \subseteq Remote
    /\ at \in [Process -> {"idle", "fetch", "replace", "load", "predict"}]
    /\ serving \in [Process -> Version]
    /\ failed \in [Process -> SUBSET Version]

Go(p, s) == at' = [at EXCEPT ![p] = s]

-----------------------------------------------------------------------------
\* An artifact is uploaded, or copied into the directory.
Provide(v) ==
    /\ IF v \in Remote THEN bucket' = bucket \cup {v} /\ UNCHANGED disk
                       ELSE disk' = [disk EXCEPT ![FileOf(v)] = v] /\ UNCHANGED bucket
    /\ UNCHANGED <<models, part, at, serving, failed>>

\* Mutation: a `.part` means that somebody else is downloading the file.
StartingUnlessInProgress(p, v) ==
    IF models[p][v] # NoModel THEN "predict"
    ELSE IF v \in Remote /\ disk[FileOf(v)] = NoFile /\ part[FileOf(v)] = NoFile THEN "fetch"
    ELSE "load"

\* Loaded already; a remote artifact that is not in the directory; any other.
Starting(p, v) ==
    IF models[p][v] # NoModel THEN "predict"
    ELSE IF v \in Remote /\ disk[FileOf(v)] = NoFile THEN "fetch"
    ELSE "load"

\* A request for a version: resolve, up to its first file operation.
Resolve(p, v) ==
    /\ at[p] = "idle"
    /\ serving' = [serving EXCEPT ![p] = v]
    /\ Go(p, Starting(p, v))
    /\ UNCHANGED <<models, filesVars, failed>>

\* s3.download_file; when it raises, what is in the directory is loaded all the same.
Fetch(p) ==
    LET v == serving[p] IN
    /\ at[p] = "fetch"
    /\ \/ /\ v \in bucket
          /\ part' = [part EXCEPT ![FileOf(v)] = v]
          /\ Go(p, "replace")
          /\ UNCHANGED failed
       \/ /\ failed' = [failed EXCEPT ![p] = @ \cup {v}]
          /\ Go(p, "load")
          /\ UNCHANGED part
    /\ UNCHANGED <<models, disk, bucket, serving>>

\* Mutation: one name for the `.part` of every artifact.
ReplaceAnyPart(p) ==
    LET f == FileOf(serving[p]) IN
    /\ at[p] = "replace"
    /\ \E g \in File :
        /\ part[g] # NoFile
        /\ disk' = [disk EXCEPT ![f] = part[g]] /\ part' = [part EXCEPT ![g] = NoFile]
    /\ Go(p, "load")
    /\ UNCHANGED <<models, bucket, serving, failed>>

\* os.replace raises when another process has renamed the `.part` already; it may also
\* fail with the `.part` in its place, which stays there.
Replace(p) ==
    LET v == serving[p]
        f == FileOf(v)
    IN
    /\ at[p] = "replace"
    /\ \/ part[f] # NoFile /\ disk' = [disk EXCEPT ![f] = part[f]]
          /\ part' = [part EXCEPT ![f] = NoFile] /\ UNCHANGED failed
       \/ part[f] = NoFile /\ UNCHANGED <<disk, part, failed>>
       \/ part[f] # NoFile /\ failed' = [failed EXCEPT ![p] = @ \cup {v}]
          /\ UNCHANGED <<disk, part>>
    /\ Go(p, "load")
    /\ UNCHANGED <<models, bucket, serving>>

\* load and the registration.  A file that is missing or that onnxruntime rejects leaves a
\* model without a session, loaded for as long as the process lives.
Load(p) ==
    LET v == serving[p]
        f == FileOf(v)
        Enter(m) == models' = [models EXCEPT ![p][v] = m]
    IN
    /\ at[p] = "load"
    /\ \/ disk[f] # NoFile /\ Enter(disk[f]) /\ UNCHANGED failed
       \/ disk[f] # NoFile /\ Enter(Heuristic) /\ failed' = [failed EXCEPT ![p] = @ \cup {v}]
       \/ disk[f] = NoFile /\ Enter(Heuristic)
          /\ failed' = IF v \in Remote THEN failed ELSE [failed EXCEPT ![p] = @ \cup {v}]
    /\ Go(p, "predict")
    /\ UNCHANGED <<filesVars, serving>>

\* The request has its answer, or was refused.
Answered(p) == at[p] = "predict" /\ Go(p, "idle") /\ UNCHANGED <<models, filesVars, serving, failed>>

\* The process dies wherever it is and starts again; the directory stays as it is.
Restart(p) ==
    /\ models' = [models EXCEPT ![p] = [v \in Version |-> NoModel]]
    /\ failed' = [failed EXCEPT ![p] = {}]
    /\ Go(p, "idle")
    /\ UNCHANGED <<filesVars, serving>>

-----------------------------------------------------------------------------
\* Two processes that download one artifact at once, one renaming the other's `.part`, or
\* a process that dies in between, never cost a version its model: the heuristic answers
\* for it only where a download failed, a local file was missing or a load was rejected
\* (registry.py:125-130).
HeuristicOnlyAfterFailure ==
    \A p \in Process, v \in Version : models[p][v] = Heuristic => v \in failed[p]

\* However the downloads of the processes interleave, a version whose file name no other
\* version has is answered by its own artifact.  (Where two share one, the first that is
\* fetched answers for both: registry.py:108.)
ServesOwnArtifact ==
    \A p \in Process, v \in Version :
        LET m == models[p][v] IN
        m \in Version => m = v \/ \E w \in Version : w # v /\ FileOf(w) = FileOf(v)
=============================================================================
