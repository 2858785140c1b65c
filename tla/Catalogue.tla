----------------------------- MODULE Catalogue ------------------------------
(***************************************************************************)
(* ProjectService, AssetService, ModelService and the authorize step of    *)
(* InferenceService (service/services.go) over the tables of Postgres and  *)
(* the bucket.  A request runs the statements of its operation in order,   *)
(* one step each; a check that fails, an error or a dead process ends it   *)
(* where it is (Abandon).                                                  *)
(***************************************************************************)
EXTENDS Naturals, Sequences

CONSTANTS
    User, Project, Asset, Job, Version,  \* ids that can be drawn
    Request,                             \* requests served at one time
    Status,                              \* bound: the statuses versions are given
    Traffic,                             \* bound: sets of operations that occur together
    NoUser, Gone, NoProject, NoAsset, NoVersion

\* An asset's id stands for its storage key and its created_at as well: PresignUpload
\* and UploadDirect draw all three.  Ids are ordered, and drawn in any order.
\* ASSUMED: a storage key is not drawn twice.  The code does not see to it: a key is the
\* user, the project, the second and 16 bits of the clock (services.go:454-456), and
\* UploadDirect stores the object before the UNIQUE column refuses the second row.
ASSUME IdAssumption ==
    /\ Asset \subseteq Nat /\ NoAsset \notin Asset /\ NoProject \notin Project
    /\ NoUser \notin User /\ Gone \notin User /\ Gone # NoUser /\ NoVersion \notin Version

ASSUME StatusAssumption == Status \subseteq {"ACTIVE", "STAGING", "INACTIVE", "DEPRECATED"}

VARIABLES
    owner,      \* projects.owner_id, NoUser: no such row yet, Gone: not any more
    fields,     \* the fields of a project that were edited since it was created
    home,       \* assets.project_id, NoProject: no such row
    uploader,   \* assets.owner_id
    drawn,      \* asset ids and keys that were used
    objects,    \* keys the bucket has an object for
    signed,     \* keys with a presigned PUT that is still valid
    input,      \* inference_jobs.asset_id, NoAsset: no such row
    jobProject, \* inference_jobs.project_id
    status,     \* model_versions.status, "absent": no such row
    traffic,    \* the operations clients send
    todo,       \* the statements a request still has to run
    args,       \* what it was sent, what it has read, and its history
    stored      \* history: assets the API called stored

projectVars == <<owner, fields>>
assetVars   == <<home, uploader>>
jobVars     == <<input, jobProject>>
bucketVars  == <<drawn, objects, signed>>
tableVars   == <<projectVars, assetVars, jobVars, bucketVars, status>>
requestVars == <<todo, args>>
catVars     == <<tableVars, requestVars, stored, traffic>>

Field  == {"name", "description"}
Usable == {"ACTIVE", "STAGING"}

\* Mutation: the object is deleted before the row.
DeletingObjectFirst == <<"find_asset", "delete_object", "delete_asset">>

\* AssetService.Delete.
Deleting == <<"find_asset", "delete_asset", "delete_object">>

\* The statements and storage calls of each operation, in order.
Script(o) ==
    CASE o = "update"         -> <<"find_project", "update">>
      [] o = "delete_project" -> <<"find_project", "delete_project">>
      [] o = "presign"        -> <<"find_project", "insert_asset">>
      [] o = "upload"         -> <<"find_project", "put", "insert_asset">>
      [] o = "confirm"        -> <<"find_asset", "exists">>
      [] o = "delete_asset"   -> Deleting
      [] o = "infer"          -> <<"find_project", "find_asset", "find_version", "insert_job">>

\* overtaken: the project was patched since the request read it.
NoArgs == [op |-> "infer", u |-> NoUser, p |-> NoProject, a |-> NoAsset, v |-> NoVersion,
           mentions |-> {}, read |-> {}, overtaken |-> FALSE]

CatInit ==
    /\ traffic \in Traffic
    /\ owner = [p \in Project |-> NoUser] /\ fields = [p \in Project |-> {}]
    /\ home = [a \in Asset |-> NoProject] /\ uploader = [a \in Asset |-> NoUser]
    /\ input = [j \in Job |-> NoAsset] /\ jobProject = [j \in Job |-> NoProject]
    /\ status = [v \in Version |-> "absent"]
    /\ drawn = {} /\ objects = {} /\ signed = {} /\ stored = {}
    /\ todo = [r \in Request |-> <<>>] /\ args = [r \in Request |-> NoArgs]

Live(p)   == owner[p] \in User
HasRow(a) == home[a] # NoProject

\* The foreign keys, and what a request still has to run is an end of its script.
CatTypeOK ==
    /\ owner \in [Project -> User \cup {NoUser, Gone}]
    /\ fields \in [Project -> SUBSET Field]
    /\ home \in [Asset -> {p \in Project : Live(p)} \cup {NoProject}]
    /\ \A a \in Asset : IF HasRow(a) THEN uploader[a] \in User ELSE uploader[a] = NoUser
    /\ input \in [Job -> {a \in Asset : HasRow(a)} \cup {NoAsset}]
    /\ jobProject \in [Job -> {p \in Project : Live(p)} \cup {NoProject}]
    /\ status \in [Version -> Status \cup {"absent"}]
    /\ {a \in Asset : HasRow(a)} \cup objects \cup signed \cup stored \subseteq drawn
    /\ drawn \subseteq Asset
    /\ \A r \in Request :
        LET s == Script(args[r].op) IN \E n \in 1..(Len(s) + 1) : todo[r] = SubSeq(s, n, Len(s))

-----------------------------------------------------------------------------
(* Requests. *)

Idle(r)  == todo[r] = <<>>
At(r, s) == ~Idle(r) /\ Head(todo[r]) = s

Send(r, x) ==
    /\ Idle(r) /\ x.op \in traffic
    /\ todo' = [todo EXCEPT ![r] = Script(x.op)]
    /\ args' = [args EXCEPT ![r] = x]
    /\ UNCHANGED <<tableVars, stored>>

\* What a client can name: projects, assets that were drawn, versions.
Arrive(r) ==
    \E u \in User :
        \/ \E p \in Project, o \in {"delete_project", "presign", "upload"} :
            Send(r, [NoArgs EXCEPT !.op = o, !.u = u, !.p = p])
        \/ \E p \in Project, m \in SUBSET Field :
            Send(r, [NoArgs EXCEPT !.op = "update", !.u = u, !.p = p, !.mentions = m])
        \/ \E a \in drawn, o \in {"confirm", "delete_asset"} :
            Send(r, [NoArgs EXCEPT !.op = o, !.u = u, !.a = a])
        \/ \E p \in Project, a \in drawn, v \in Version :
            Send(r, [NoArgs EXCEPT !.op = "infer", !.u = u, !.p = p, !.a = a, !.v = v])

\* The slot is free for another request.
End(r) ==
    /\ todo' = [todo EXCEPT ![r] = <<>>]
    /\ args' = [args EXCEPT ![r] = NoArgs]

\* A statement has run, not the last one; the request goes on with arguments x.
Goes(r, x) ==
    /\ todo' = [todo EXCEPT ![r] = Tail(@)]
    /\ args' = [args EXCEPT ![r] = x]

\* Any check fails, any call reports an error (executed or not), the process dies.
Abandon(r) == ~Idle(r) /\ End(r) /\ UNCHANGED <<tableVars, stored>>

-----------------------------------------------------------------------------
(* Reads and the checks behind them. *)

\* FindByID and the owner check; Update keeps the columns it read.
FindProject(r) ==
    LET x == args[r] IN
    /\ At(r, "find_project") /\ owner[x.p] = x.u
    /\ Goes(r, IF x.op = "update" THEN [x EXCEPT !.read = fields[x.p]] ELSE x)
    /\ UNCHANGED <<tableVars, stored>>

\* Mutation: the asset of a job must be the caller's, in whatever project.
InPlaceOwned(x) == uploader[x.a] = x.u

\* A job's asset lies in its project; whoever confirms or deletes an asset owns it.
InPlace(x) == IF x.op = "infer" THEN home[x.a] = x.p ELSE uploader[x.a] = x.u

FindAsset(r) ==
    LET x == args[r] IN
    /\ At(r, "find_asset") /\ HasRow(x.a) /\ InPlace(x)
    /\ Goes(r, x)
    /\ UNCHANGED <<tableVars, stored>>

\* The version is looked at once, before the insert: neither the insert nor a Retry of
\* the job (services.go:660, in InferenceApi) looks again.
FindVersion(r) ==
    /\ At(r, "find_version") /\ status[args[r].v] \in Usable
    /\ Goes(r, args[r])
    /\ UNCHANGED <<tableVars, stored>>

\* ConfirmUpload writes nothing: its answer is all there is.
Exists(r) ==
    /\ At(r, "exists") /\ args[r].a \in objects
    /\ End(r)
    /\ stored' = stored \cup {args[r].a}
    /\ UNCHANGED tableVars

-----------------------------------------------------------------------------
(* Projects and versions. *)

CreateProject(u) ==
    \E p \in Project :
        /\ owner[p] = NoUser
        /\ owner' = [owner EXCEPT ![p] = u]
        /\ UNCHANGED <<fields, assetVars, jobVars, bucketVars, status, requestVars, stored>>

\* Mutation: a field the PATCH does not mention is written empty.
MergedMentionedOnly(x) == x.mentions

\* Both columns are written: those the PATCH does not mention, as they were read.
Merged(x) == x.read \cup x.mentions

Update(r) ==
    LET x == args[r]
        Overtakes(q) == q # r /\ args[q].p = x.p /\ At(q, "update")
    IN
    /\ At(r, "update") /\ Live(x.p)
    /\ fields' = [fields EXCEPT ![x.p] = Merged(x)]
    /\ todo' = [todo EXCEPT ![r] = <<>>]
    /\ args' = [q \in Request |-> IF q = r THEN NoArgs
                                  ELSE [args[q] EXCEPT !.overtaken = @ \/ Overtakes(q)]]
    /\ UNCHANGED <<owner, assetVars, jobVars, bucketVars, status, stored>>

\* ON DELETE CASCADE to assets and jobs; their objects stay.  (With jobs, RESTRICT
\* of inference_jobs.asset_id may refuse the statement: then it ends as Abandon.)
DeleteProject(r) ==
    LET p == args[r].p
        Within(a) == home[a] = p
    IN
    /\ At(r, "delete_project") /\ Live(p)
    /\ \A j \in Job : input[j] # NoAsset /\ home[input[j]] = p => jobProject[j] = p
    /\ owner'  = [owner EXCEPT ![p] = Gone]
    /\ fields' = [fields EXCEPT ![p] = {}]
    /\ home'     = [a \in Asset |-> IF Within(a) THEN NoProject ELSE home[a]]
    /\ uploader' = [a \in Asset |-> IF Within(a) THEN NoUser ELSE uploader[a]]
    /\ input'      = [j \in Job |-> IF jobProject[j] = p THEN NoAsset ELSE input[j]]
    /\ jobProject' = [j \in Job |-> IF jobProject[j] = p THEN NoProject ELSE jobProject[j]]
    /\ End(r)
    /\ UNCHANGED <<bucketVars, status, stored>>

\* An administrator's CreateVersion and SetVersionStatus: one statement each.
SetStatus(v) ==
    \E st \in Status :
        /\ "infer" \in traffic
        /\ status' = [status EXCEPT ![v] = st]
        /\ UNCHANGED <<projectVars, assetVars, jobVars, bucketVars, requestVars, stored>>

-----------------------------------------------------------------------------
(* Assets and their objects. *)

\* UploadDirect stores the object before there is a row for it.  (Under a key drawn
\* twice it would replace the bytes of another asset: left out, see IdAssumption.)
Put(r) ==
    /\ At(r, "put")
    /\ \E a \in Asset \ drawn :
        /\ drawn'   = drawn \cup {a}
        /\ objects' = objects \cup {a}
        /\ Goes(r, [args[r] EXCEPT !.a = a])
        /\ UNCHANGED <<projectVars, assetVars, jobVars, status, signed, stored>>

\* The foreign key needs the project to be there still.
InsertAsset(r) ==
    LET x == args[r]
        Row(a) == /\ home'     = [home EXCEPT ![a] = x.p]
                  /\ uploader' = [uploader EXCEPT ![a] = x.u]
    IN
    /\ At(r, "insert_asset") /\ Live(x.p)
    /\ \/ /\ x.op = "upload"
          /\ Row(x.a)
          /\ stored' = stored \cup {x.a}
          /\ UNCHANGED <<drawn, signed>>
       \/ /\ x.op = "presign"
          /\ \E a \in Asset \ drawn :
                Row(a) /\ drawn' = drawn \cup {a} /\ signed' = signed \cup {a}
          /\ UNCHANGED stored
    /\ End(r)
    /\ UNCHANGED <<projectVars, jobVars, objects, status>>

\* Mutation: inference_jobs.asset_id does not restrict deletes.
ReferencedNever(a) == FALSE

\* ON DELETE RESTRICT: not while a job refers to the asset.
Referenced(a) == \E j \in Job : input[j] = a

DeleteAsset(r) ==
    LET a == args[r].a IN
    /\ At(r, "delete_asset") /\ HasRow(a) /\ ~Referenced(a)
    /\ home'     = [home EXCEPT ![a] = NoProject]
    /\ uploader' = [uploader EXCEPT ![a] = NoUser]
    /\ Goes(r, args[r])
    /\ UNCHANGED <<projectVars, jobVars, bucketVars, status, stored>>

\* The error of the storage is ignored: then the object stays.
DeleteObject(r) ==
    /\ At(r, "delete_object")
    /\ objects' = objects \ {args[r].a} \/ objects' = objects
    /\ End(r)
    /\ UNCHANGED <<projectVars, assetVars, jobVars, drawn, signed, status, stored>>

\* The client's own PUT, any number of times within 15 minutes.
ClientPut(a) ==
    /\ a \in signed
    /\ objects' = objects \cup {a}
    /\ UNCHANGED <<projectVars, assetVars, jobVars, drawn, signed, status, requestVars, stored>>

UrlLapses(a) ==
    /\ a \in signed
    /\ signed' = signed \ {a}
    /\ UNCHANGED <<projectVars, assetVars, jobVars, drawn, objects, status, requestVars, stored>>

\* CreateSync and CreateAsync after authorize: the row, and its foreign keys.
InsertJob(r) ==
    LET x == args[r] IN
    /\ At(r, "insert_job") /\ Live(x.p) /\ HasRow(x.a)
    /\ \E j \in Job :
        /\ input[j] = NoAsset
        /\ input'      = [input EXCEPT ![j] = x.a]
        /\ jobProject' = [jobProject EXCEPT ![j] = x.p]
    /\ End(r)
    /\ UNCHANGED <<projectVars, assetVars, bucketVars, status, stored>>

Handle(r) ==
    \/ Arrive(r) \/ Abandon(r)
    \/ FindProject(r) \/ FindAsset(r) \/ FindVersion(r) \/ Exists(r)
    \/ Update(r) \/ DeleteProject(r)
    \/ Put(r) \/ InsertAsset(r) \/ DeleteAsset(r) \/ DeleteObject(r) \/ InsertJob(r)

CatNext ==
    /\ \/ \E r \in Request : Handle(r)
       \/ \E u \in User : CreateProject(u)
       \/ \E v \in Version : SetStatus(v)
       \/ \E a \in Asset : ClientPut(a) \/ UrlLapses(a)
    /\ UNCHANGED traffic

-----------------------------------------------------------------------------
\* An asset the API called stored has its object for as long as it has its row,
\* although deletes are refused (RESTRICT), fail halfway and race uploads, jobs and
\* project deletes: the row goes first (services.go:417), the object after it.
StoredKeepsObject == \A a \in stored : HasRow(a) => a \in objects

\* A job computes on an asset of its own project that the project's owner uploaded,
\* however the project, the asset and the request change after each was looked at.
JobStaysInProject ==
    \A j \in Job : input[j] # NoAsset =>
        /\ home[input[j]] = jobProject[j]
        /\ uploader[input[j]] = owner[jobProject[j]]

\* A PATCH leaves alone what it does not mention, unless another one was committed
\* between its read and its write (services.go:224 and :241): that one's edit is lost.
PatchKeepsEdits ==
    [][\A p \in Project :
        Live(p) /\ Live(p)' /\ (\A r \in Request : At(r, "update") => ~args[r].overtaken)
            => fields[p] \subseteq fields'[p]]_catVars
=============================================================================
