-------------------------- MODULE CatalogueProofs --------------------------
(***************************************************************************)
(* Projects, assets, versions and their jobs, for every number of users,   *)
(* requests and ids and every mix of operations.                           *)
(***************************************************************************)
EXTENDS Listing, SequenceTheorems, FiniteSetTheorems, WellFoundedInduction, TLAPS

-----------------------------------------------------------------------------
(* What a request does next.  todo is the end of its script; from here on  *)
(* only the first statement of it counts.                                  *)

Op == {"update", "delete_project", "presign", "upload", "confirm", "delete_asset", "infer"}

Statement == {"find_project", "find_asset", "find_version", "update", "delete_project", "put",
              "insert_asset", "exists", "delete_asset", "delete_object", "insert_job"}

Pc(r) == IF todo[r] = <<>> THEN "idle" ELSE Head(todo[r])

\* The statement after the one request r is at.
After(r) == IF Tail(todo[r]) = <<>> THEN "idle" ELSE Head(Tail(todo[r]))

\* The statements of each operation, each with the next one.
Order == {
    <<"update", "find_project", "update">>, <<"update", "update", "idle">>,
    <<"delete_project", "find_project", "delete_project">>,
    <<"delete_project", "delete_project", "idle">>,
    <<"presign", "find_project", "insert_asset">>, <<"presign", "insert_asset", "idle">>,
    <<"upload", "find_project", "put">>, <<"upload", "put", "insert_asset">>,
    <<"upload", "insert_asset", "idle">>,
    <<"confirm", "find_asset", "exists">>, <<"confirm", "exists", "idle">>,
    <<"delete_asset", "find_asset", "delete_asset">>,
    <<"delete_asset", "delete_asset", "delete_object">>,
    <<"delete_asset", "delete_object", "idle">>,
    <<"infer", "find_project", "find_asset">>, <<"infer", "find_asset", "find_version">>,
    <<"infer", "find_version", "insert_job">>, <<"infer", "insert_job", "idle">>}

OnScript ==
    /\ DOMAIN todo = Request /\ DOMAIN args = Request
    /\ \A r \in Request :
        LET s == Script(args[r].op) IN
        /\ args[r].op \in Op
        /\ \E n \in 1..(Len(s) + 1) : todo[r] = SubSeq(s, n, Len(s))

LEMMA ScriptIsSeq == \A o \in Op : Script(o) \in Seq(Statement) /\ Len(Script(o)) >= 2
<1>1. ASSUME NEW o \in Op PROVE Script(o) \in Seq(Statement) /\ Len(Script(o)) >= 2
  <2>1. CASE o = "update"
    BY <2>1 DEF Script, Statement
  <2>2. CASE o = "delete_project"
    BY <2>2 DEF Script, Statement
  <2>3. CASE o = "presign"
    BY <2>3 DEF Script, Statement
  <2>4. CASE o = "upload"
    BY <2>4 DEF Script, Statement
  <2>5. CASE o = "confirm"
    BY <2>5 DEF Script, Statement
  <2>6. CASE o = "delete_asset"
    BY <2>6 DEF Script, Deleting, Statement
  <2>7. CASE o = "infer"
    BY <2>7 DEF Script, Statement
  <2>8. QED
    BY <2>1, <2>2, <2>3, <2>4, <2>5, <2>6, <2>7 DEF Op
<1>2. QED
  BY <1>1

LEMMA ScriptInOrder ==
    ASSUME NEW o \in Op, NEW n \in 1..Len(Script(o))
    PROVE  <<o, Script(o)[n], IF n = Len(Script(o)) THEN "idle" ELSE Script(o)[n + 1]>> \in Order
<1>1. CASE o = "update"
  BY <1>1 DEF Script, Order
<1>2. CASE o = "delete_project"
  BY <1>2 DEF Script, Order
<1>3. CASE o = "presign"
  BY <1>3 DEF Script, Order
<1>4. CASE o = "upload"
  BY <1>4 DEF Script, Order
<1>5. CASE o = "confirm"
  BY <1>5 DEF Script, Order
<1>6. CASE o = "delete_asset"
  BY <1>6 DEF Script, Deleting, Order
<1>7. CASE o = "infer"
  BY <1>7 DEF Script, Order
<1>8. QED
  BY <1>1, <1>2, <1>3, <1>4, <1>5, <1>6, <1>7 DEF Op

\* A request is somewhere in its script, and the rest of its rest is one, too.
LEMMA InOrder ==
    ASSUME OnScript, NEW r \in Request, ~Idle(r)
    PROVE  /\ <<args[r].op, Pc(r), After(r)>> \in Order
           /\ LET s == Script(args[r].op) IN
              \E n \in 1..(Len(s) + 1) : Tail(todo[r]) = SubSeq(s, n, Len(s))
<1> DEFINE s == Script(args[r].op)
<1>1. s \in Seq(Statement) /\ Len(s) \in Nat /\ args[r].op \in Op
  BY ScriptIsSeq DEF OnScript
<1>2. PICK n \in 1..(Len(s) + 1) : todo[r] = SubSeq(s, n, Len(s))
  BY DEF OnScript
<1>3. n \in 1..Len(s)
  <2>1. n # Len(s) + 1
    BY <1>1, <1>2, SubSeqEmpty DEF Idle
  <2>2. QED
    BY <1>1, <2>1
<1> HIDE DEF s
<1>4. Head(todo[r]) = s[n] /\ Tail(todo[r]) = SubSeq(s, n + 1, Len(s)) /\ n + 1 \in 1..(Len(s) + 1)
  BY <1>1, <1>2, <1>3, HeadTailOfSubSeq
<1>5. After(r) = IF n = Len(s) THEN "idle" ELSE s[n + 1]
  <2>1. CASE n = Len(s)
    BY <1>1, <1>4, <2>1, SubSeqEmpty DEF After
  <2>2. CASE n # Len(s)
    <3>1. n + 1 \in 1..Len(s)
      BY <1>1, <1>3, <2>2
    <3>2. Head(SubSeq(s, n + 1, Len(s))) = s[n + 1]
      BY <1>1, <3>1, HeadTailOfSubSeq
    <3>3. SubSeq(s, n + 1, Len(s)) # <<>>
      <4>1. Len(SubSeq(s, n + 1, Len(s))) # 0
        BY <1>1, <3>1, SubSeqProperties, ElementOfSeq
      <4>2. Len(<<>>) = 0
        OBVIOUS
      <4>3. QED
        BY <4>1, <4>2
    <3>4. QED
      BY <1>4, <2>2, <3>2, <3>3 DEF After
  <2>3. QED
    BY <2>1, <2>2
<1>6. Pc(r) = s[n]
  BY <1>4 DEF Pc, Idle
<1>7. QED
  BY <1>1, <1>3, <1>4, <1>5, <1>6, ScriptInOrder DEF s

LEMMA AtPc ==
    ASSUME NEW r, NEW st, st # "idle"
    PROVE  At(r, st) => Pc(r) = st /\ ~Idle(r)
BY DEF At, Idle, Pc
\* Everybody but r is where it was.
OnlyMoves(r) ==
    /\ args' = [args EXCEPT ![r] = args'[r]]
    /\ \A q \in Request \ {r} : Pc(q)' = Pc(q) /\ args'[q] = args[q]

LEMMA GoesOn ==
    ASSUME OnScript, NEW r \in Request, NEW st, st # "idle", At(r, st),
           NEW x, x.op = args[r].op, Goes(r, x)
    PROVE  /\ OnScript' /\ OnlyMoves(r) /\ args'[r] = x
           /\ Pc(r) = st /\ <<x.op, st, Pc(r)'>> \in Order
<1>1. Pc(r) = st /\ ~Idle(r)
  BY AtPc
<1>2. Pc(r)' = After(r) /\ args'[r] = x /\ OnlyMoves(r)
  BY DEF Goes, OnScript, Pc, After, OnlyMoves
<1>3. OnScript'
  <2>1. /\ DOMAIN todo' = Request /\ DOMAIN args' = Request
        /\ todo'[r] = Tail(todo[r]) /\ args'[r].op = args[r].op
        /\ \A q \in Request \ {r} : todo'[q] = todo[q] /\ args'[q] = args[q]
    BY DEF Goes, OnScript
  <2>2. QED
    BY <1>1, <2>1, InOrder DEF OnScript
<1>4. QED
  BY <1>1, <1>2, <1>3, InOrder

LEMMA EmptyIsAnEnd ==
    ASSUME NEW S, NEW s \in Seq(S)
    PROVE  \E n \in 1..(Len(s) + 1) : <<>> = SubSeq(s, n, Len(s))
<1>1. Len(s) \in Nat
  OBVIOUS
<1>2. Len(s) + 1 \in 1..(Len(s) + 1) /\ Len(s) < Len(s) + 1
  BY <1>1
<1>3. <<>> = SubSeq(s, Len(s) + 1, Len(s))
  BY <1>1, <1>2, SubSeqEmpty
<1>4. QED
  BY <1>2, <1>3

LEMMA EmptyIsOnScript == \E n \in 1..(Len(Script("infer")) + 1) :
                            <<>> = SubSeq(Script("infer"), n, Len(Script("infer")))
<1>1. Script("infer") \in Seq(Statement)
  BY ScriptIsSeq DEF Op
<1>2. QED
  BY <1>1, EmptyIsAnEnd

LEMMA Ends ==
    ASSUME OnScript, NEW r \in Request, End(r)
    PROVE  OnScript' /\ OnlyMoves(r) /\ args'[r] = NoArgs /\ Pc(r)' = "idle"
<1>1. args'[r] = NoArgs /\ Pc(r)' = "idle" /\ OnlyMoves(r) /\ todo'[r] = <<>>
  BY DEF End, OnScript, Pc, OnlyMoves
<1>2. NoArgs.op = "infer"
  BY DEF NoArgs
<1>3. /\ DOMAIN todo' = Request /\ DOMAIN args' = Request
      /\ \A q \in Request \ {r} : todo'[q] = todo[q] /\ args'[q] = args[q]
  BY DEF End, OnScript
<1>4. OnScript'
  BY <1>1, <1>2, <1>3, EmptyIsOnScript DEF OnScript, Op
<1>5. QED
  BY <1>1, <1>4

LEMMA Sent ==
    ASSUME OnScript, NEW r \in Request, NEW x, x.op \in Op, Send(r, x)
    PROVE  /\ OnScript' /\ OnlyMoves(r) /\ args'[r] = x
           /\ Pc(r)' \in {"find_project", "find_asset"}
           /\ Pc(r)' = "find_asset" => x.op # "infer"
<1>1. /\ DOMAIN todo' = Request /\ DOMAIN args' = Request
      /\ todo'[r] = Script(x.op) /\ args'[r] = x /\ OnlyMoves(r)
      /\ \A q \in Request \ {r} : todo'[q] = todo[q] /\ args'[q] = args[q]
  BY DEF Send, OnScript, Pc, OnlyMoves
<1>2. Script(x.op) \in Seq(Statement) /\ Len(Script(x.op)) \in Nat
  BY ScriptIsSeq
<1>3. Script(x.op) = SubSeq(Script(x.op), 1, Len(Script(x.op)))
  BY <1>2, SubSeqFull
<1>4. OnScript'
  <2>1. 1 \in 1..(Len(Script(x.op)) + 1)
    BY <1>2
  <2>2. \E n \in 1..(Len(Script(x.op)) + 1) : todo'[r] = SubSeq(Script(x.op), n, Len(Script(x.op)))
    BY <1>1, <1>3, <2>1
  <2>3. QED
    BY <1>1, <2>2 DEF OnScript
<1>5. /\ Script(x.op) # <<>>
      /\ Head(Script(x.op)) \in {"find_project", "find_asset"}
      /\ Head(Script(x.op)) = "find_asset" => x.op # "infer"
  BY DEF Op, Script, Deleting
<1>6. QED
  BY <1>1, <1>4, <1>5 DEF Pc

LEMMA Stays ==
    ASSUME OnScript, todo' = todo, DOMAIN args' = Request,
           \A q \in Request : args'[q].op = args[q].op
    PROVE  OnScript' /\ \A q \in Request : Pc(q)' = Pc(q)
BY DEF OnScript, Pc
-----------------------------------------------------------------------------
(* The invariant.                                                          *)

ArgSet == [op : Op, u : User \cup {NoUser}, p : Project \cup {NoProject},
           a : Asset \cup {NoAsset}, v : Version \cup {NoVersion},
           mentions : SUBSET Field, read : SUBSET Field,
           overtaken : BOOLEAN]

Shape ==
    /\ owner \in [Project -> User \cup {NoUser, Gone}] /\ fields \in [Project -> SUBSET Field]
    /\ home \in [Asset -> Project \cup {NoProject}] /\ uploader \in [Asset -> User \cup {NoUser}]
    /\ input \in [Job -> Asset \cup {NoAsset}] /\ jobProject \in [Job -> Project \cup {NoProject}]
    /\ status \in [Version -> Status \cup {"absent"}]
    /\ drawn \subseteq Asset /\ objects \cup signed \cup stored \subseteq drawn
    /\ args \in [Request -> ArgSet]

\* Rows refer to rows, and an asset's uploader is the owner of its project.
RowsRefer ==
    /\ \A a \in Asset :
        IF HasRow(a) THEN a \in drawn /\ Live(home[a]) /\ uploader[a] = owner[home[a]]
        ELSE uploader[a] = NoUser
    /\ \A j \in Job :
        IF input[j] # NoAsset THEN HasRow(input[j]) /\ jobProject[j] = home[input[j]]
        ELSE jobProject[j] = NoProject

\* A request that has stored an object and not yet its row; an asset no such request
\* will give a row any more.
Uploading(r) == args[r].op = "upload" /\ Pc(r) = "insert_asset"
Landed(a)    == a \in drawn /\ \A r \in Request : Uploading(r) => args[r].a # a

OwnerChecked(r) ==
    \/ Pc(r) \in {"update", "delete_project", "put", "insert_asset", "find_version", "insert_job"}
    \/ Pc(r) = "find_asset" /\ args[r].op = "infer"

\* What a request has been sent, and what it has read that is still so.
Named(r) ==
    LET x == args[r] IN
    Pc(r) # "idle" =>
        /\ x.u \in User
        /\ x.op \notin {"confirm", "delete_asset"} => x.p \in Project
        /\ x.op \in {"confirm", "delete_asset", "infer"} => x.a \in drawn
        /\ x.op = "infer" => x.v \in Version

Checked(r) ==
    LET x == args[r] IN
    /\ OwnerChecked(r) => owner[x.p] \in {x.u, Gone}
    /\ Uploading(r) => /\ x.a \in objects /\ ~HasRow(x.a)
                       /\ \A q \in Request : Uploading(q) /\ args[q].a = x.a => q = r
    /\ Pc(r) \in {"delete_asset", "delete_object", "find_version", "insert_job"} => Landed(x.a)
    /\ Pc(r) = "delete_object" => ~HasRow(x.a)
    /\ Pc(r) \in {"find_version", "insert_job"} /\ HasRow(x.a) => home[x.a] = x.p

\* A PATCH nobody overtook has read every field that is edited.
Current(r) ==
    LET x == args[r] IN
    Pc(r) = "update" /\ ~x.overtaken => fields[x.p] \subseteq x.read

Requests == \A r \in Request : Named(r) /\ Checked(r) /\ Current(r)

\* A request that has passed an owner check, or stores an object, is of an operation that can.
LEMMA OpAt ==
    ASSUME OnScript, NEW r \in Request
    PROVE  /\ OwnerChecked(r) => args[r].op \notin {"confirm", "delete_asset"}
           /\ Pc(r) \in {"find_version", "insert_job"} => args[r].op = "infer"
           /\ Pc(r) = "insert_asset" => args[r].op \in {"presign", "upload"}
           /\ Pc(r) \in {"delete_asset", "delete_object"} => args[r].op = "delete_asset"
           /\ Pc(r) = "update" => args[r].op = "update"
<1>1. CASE Idle(r)
  BY <1>1 DEF Idle, Pc, OwnerChecked
<1>2. CASE ~Idle(r)
  BY <1>2, InOrder DEF Order, OwnerChecked
<1>3. QED
  BY <1>1, <1>2

CatInv == OnScript /\ Shape /\ RowsRefer /\ Requests /\ StoredKeepsObject
-----------------------------------------------------------------------------
(* Steps that change no table.                                             *)

LEMMA ReadStep ==
    ASSUME CatInv, NEW r \in Request, UNCHANGED <<tableVars, stored>>, OnScript', OnlyMoves(r),
           args'[r] \in ArgSet, ~Uploading(r)', Named(r)', Current(r)',
           OwnerChecked(r)' => owner[args'[r].p] \in {args'[r].u, Gone},
           Pc(r)' \in {"delete_asset", "find_version", "insert_job"} => Landed(args'[r].a),
           Pc(r)' # "delete_object",
           Pc(r)' \in {"find_version", "insert_job"} /\ HasRow(args'[r].a)
               => home[args'[r].a] = args'[r].p
    PROVE  CatInv'
<1> USE DEF CatInv, tableVars, projectVars, assetVars, jobVars, bucketVars
<1>1. Shape'
  BY DEF Shape, OnlyMoves
<1>2. RowsRefer' /\ StoredKeepsObject'
  BY DEF RowsRefer, HasRow, Live, StoredKeepsObject
<1>3. /\ \A q \in Request \ {r} : Uploading(q)' = Uploading(q)
      /\ \A a : Landed(a) => Landed(a)'
  BY DEF Uploading, Landed, OnlyMoves
<1>4. Checked(r)'
  BY <1>3 DEF Checked, HasRow
<1>5. ASSUME NEW q \in Request \ {r} PROVE Named(q)' /\ Checked(q)' /\ Current(q)'
  <2>1. Named(q) /\ Checked(q) /\ Current(q)
    BY DEF Requests
  <2>2. Named(q)' /\ Current(q)'
    BY <2>1 DEF Named, Current, OnlyMoves
  <2>3. Checked(q)'
    BY <1>3, <2>1 DEF Checked, OwnerChecked, HasRow, OnlyMoves
  <2>4. QED
    BY <2>2, <2>3
<1>6. QED
  BY <1>1, <1>2, <1>4, <1>5 DEF Requests

LEMMA NoArgsFacts ==
    /\ NoArgs \in ArgSet /\ NoArgs.op = "infer"
BY DEF NoArgs, ArgSet, Op

\* A history mark changes nothing else of what a request carries.
LEMMA Overtaken ==
    ASSUME NEW x \in ArgSet, NEW b \in BOOLEAN, NEW y, y = [x EXCEPT !.overtaken = b]
    PROVE  /\ y \in ArgSet /\ y.overtaken = b
           /\ y.op = x.op /\ y.u = x.u /\ y.p = x.p /\ y.a = x.a /\ y.v = x.v /\ y.read = x.read
<1>1. y \in ArgSet
  BY DEF ArgSet
<1>2. QED
  BY <1>1 DEF ArgSet

\* Request q is where it was, with what it was sent.
SameRequest(q) ==
    /\ Pc(q)' = Pc(q)
    /\ args'[q].op = args[q].op /\ args'[q].u = args[q].u /\ args'[q].p = args[q].p
    /\ args'[q].a = args[q].a /\ args'[q].v = args[q].v

LEMMA SameNamed ==
    ASSUME NEW q, Named(q), SameRequest(q), drawn' = drawn
    PROVE  Named(q)'
BY DEF Named, SameRequest

LEMMA SameChecked ==
    ASSUME NEW q \in Request, Checked(q), SameRequest(q), Uploading(q)' = Uploading(q),
           OwnerChecked(q)' = OwnerChecked(q),
           owner' = owner, home' = home, objects' = objects,
           \A y \in Request : Uploading(y)' => Uploading(y) /\ args'[y].a = args[y].a,
           \A a : Landed(a) => Landed(a)'
    PROVE  Checked(q)'
<1> DEFINE x == args[q]
<1>1. (OwnerChecked(q) => owner[x.p] \in {x.u, Gone})'
  BY DEF Checked, SameRequest
<1>2. Uploading(q)' => /\ args'[q].a \in objects /\ ~HasRow(x.a)
                       /\ \A y \in Request : Uploading(y)' /\ args'[y].a = args'[q].a => y = q
  BY DEF Checked, SameRequest
<1>3. (Pc(q) \in {"delete_asset", "delete_object", "find_version", "insert_job"} => Landed(x.a))'
  BY DEF Checked, SameRequest
<1>4. \A a : HasRow(a)' = HasRow(a)
  BY DEF HasRow
<1>5. (Pc(q) = "delete_object" => ~HasRow(x.a))'
  BY <1>4 DEF Checked, SameRequest
<1>6. (Pc(q) \in {"find_version", "insert_job"} /\ HasRow(x.a) => home[x.a] = x.p)'
  BY <1>4 DEF Checked, SameRequest
<1>7. QED
  BY <1>1, <1>2, <1>3, <1>4, <1>5, <1>6 DEF Checked, SameRequest

LEMMA ReadEnds ==
    ASSUME CatInv, NEW r \in Request, UNCHANGED <<tableVars, stored>>, End(r)
    PROVE  CatInv'
<1>1. OnScript' /\ OnlyMoves(r) /\ args'[r] = NoArgs /\ Pc(r)' = "idle"
  BY Ends DEF CatInv
<1>2. Named(r)' /\ Current(r)' /\ ~Uploading(r)' /\ ~OwnerChecked(r)'
  BY <1>1, NoArgsFacts DEF Named, Current, Uploading, OwnerChecked
<1>3. QED
  BY <1>1, <1>2, NoArgsFacts, ReadStep

LEMMA ArriveKeeps ==
    ASSUME CatInv, NEW r \in Request, Arrive(r)
    PROVE  CatInv'
<1> DEFINE Fits(x) ==
        /\ x \in ArgSet /\ x.u \in User /\ ~x.overtaken
        /\ x.op \notin {"confirm", "delete_asset"} => x.p \in Project
        /\ x.op \in {"confirm", "delete_asset", "infer"} => x.a \in drawn
        /\ x.op = "infer" => x.v \in Version
<1>1. PICK x : Send(r, x) /\ Fits(x)
  <2>1. ASSUME NEW u \in User, NEW p \in Project,
               NEW o \in {"delete_project", "presign", "upload"}
        PROVE  Fits([NoArgs EXCEPT !.op = o, !.u = u, !.p = p])
    BY DEF NoArgs, ArgSet, Op
  <2>2. ASSUME NEW u \in User, NEW p \in Project, NEW m \in SUBSET Field
        PROVE  Fits([NoArgs EXCEPT !.op = "update", !.u = u, !.p = p, !.mentions = m])
    BY DEF NoArgs, ArgSet, Op
  <2>3. ASSUME NEW u \in User, NEW a \in drawn, NEW o \in {"confirm", "delete_asset"}
        PROVE  Fits([NoArgs EXCEPT !.op = o, !.u = u, !.a = a])
    BY DEF NoArgs, ArgSet, Op, CatInv, Shape
  <2>4. ASSUME NEW u \in User, NEW p \in Project, NEW a \in drawn, NEW v \in Version
        PROVE  Fits([NoArgs EXCEPT !.op = "infer", !.u = u, !.p = p, !.a = a, !.v = v])
    BY DEF NoArgs, ArgSet, Op, CatInv, Shape
  <2> HIDE DEF Fits
  <2>5. QED
    BY <2>1, <2>2, <2>3, <2>4 DEF Arrive
<1>2. UNCHANGED <<tableVars, stored>> /\ x.op \in Op
  BY <1>1 DEF Send, ArgSet
<1>3. /\ OnScript' /\ OnlyMoves(r) /\ args'[r] = x
      /\ Pc(r)' \in {"find_project", "find_asset"} /\ (Pc(r)' = "find_asset" => x.op # "infer")
  BY <1>1, <1>2, Sent DEF CatInv
<1>4. ~Uploading(r)' /\ ~OwnerChecked(r)'
  BY <1>3 DEF Uploading, OwnerChecked
<1>5. Named(r)' /\ Current(r)'
  BY <1>1, <1>2, <1>3 DEF Named, Current, tableVars, projectVars, bucketVars
<1>6. QED
  BY <1>1, <1>2, <1>3, <1>4, <1>5, ReadStep

LEMMA FindProjectKeeps ==
    ASSUME CatInv, NEW r \in Request, FindProject(r)
    PROVE  CatInv'
<1> DEFINE y == args[r]
           x == IF y.op = "update" THEN [y EXCEPT !.read = fields[y.p]] ELSE y
<1>1. UNCHANGED <<tableVars, stored>> /\ owner[y.p] = y.u /\ At(r, "find_project") /\ Goes(r, x)
  BY DEF FindProject
<1>2. y \in ArgSet /\ Pc(r) = "find_project" /\ Named(r) /\ Current(r)
  BY <1>1, AtPc DEF CatInv, Shape, Requests
<1>3. /\ x \in ArgSet /\ x.op = y.op /\ x.u = y.u /\ x.p = y.p /\ x.a = y.a /\ x.v = y.v
      /\ y.op = "update" => x.read = fields[x.p]
  <2>1. CASE y.op = "update"
    <3>1. y.p \in Project /\ fields[y.p] \in SUBSET Field
      BY <1>2, <2>1 DEF Named, CatInv, Shape
    <3>2. QED
      BY <1>2, <2>1, <3>1 DEF ArgSet
  <2>2. CASE y.op # "update"
    BY <1>2, <2>2
  <2>3. QED
    BY <2>1, <2>2
<1> HIDE DEF x
<1>4. OnScript' /\ OnlyMoves(r) /\ args'[r] = x /\ <<x.op, "find_project", Pc(r)'>> \in Order
  BY <1>1, <1>3, GoesOn DEF CatInv
<1>5. /\ Pc(r)' \in {"update", "delete_project", "insert_asset", "put", "find_asset"}
      /\ Pc(r)' = "insert_asset" => x.op = "presign"
      /\ Pc(r)' = "update" => x.op = "update"
  BY <1>4 DEF Order
<1>6. ~Uploading(r)'
  BY <1>4, <1>5 DEF Uploading
<1>7. Named(r)'
  BY <1>1, <1>2, <1>3, <1>4 DEF Named, tableVars, bucketVars
<1>8. Current(r)'
  BY <1>1, <1>2, <1>3, <1>4, <1>5 DEF Current, tableVars, projectVars
<1>9. QED
  BY <1>1, <1>3, <1>4, <1>5, <1>6, <1>7, <1>8, ReadStep

LEMMA FindAssetKeeps ==
    ASSUME CatInv, NEW r \in Request, FindAsset(r)
    PROVE  CatInv'
<1> DEFINE x == args[r]
<1>1. /\ UNCHANGED <<tableVars, stored>> /\ At(r, "find_asset") /\ Goes(r, x)
      /\ HasRow(x.a) /\ (x.op = "infer" => home[x.a] = x.p)
  BY DEF FindAsset, InPlace
<1>2. x \in ArgSet /\ Pc(r) = "find_asset" /\ Named(r) /\ Current(r) /\ Checked(r)
  BY <1>1, AtPc DEF CatInv, Shape, Requests
<1>3. OnScript' /\ OnlyMoves(r) /\ args'[r] = x /\ <<x.op, "find_asset", Pc(r)'>> \in Order
  BY <1>1, GoesOn DEF CatInv
<1>4. /\ x.op \in {"confirm", "delete_asset", "infer"}
      /\ Pc(r)' \in {"exists", "delete_asset", "find_version"}
      /\ Pc(r)' = "find_version" => x.op = "infer"
  BY <1>3 DEF Order
<1>5. Landed(x.a)
  <2>1. x.a \in drawn
    BY <1>2, <1>4 DEF Named
  <2>2. \A q \in Request : Uploading(q) => args[q].a # x.a
    BY <1>1 DEF CatInv, Requests, Checked
  <2>3. QED
    BY <2>1, <2>2 DEF Landed
<1>6. ~Uploading(r)' /\ Named(r)'
  BY <1>1, <1>2, <1>3, <1>4 DEF Uploading, Named, tableVars, bucketVars
<1>7. Current(r)'
  BY <1>1, <1>2, <1>3, <1>4 DEF Current, tableVars
<1>8. OwnerChecked(r)' => owner[x.p] \in {x.u, Gone}
  BY <1>2, <1>3, <1>4 DEF OwnerChecked, Checked
<1>9. QED
  BY <1>1, <1>2, <1>3, <1>4, <1>5, <1>6, <1>7, <1>8, ReadStep

LEMMA FindVersionKeeps ==
    ASSUME CatInv, NEW r \in Request, FindVersion(r)
    PROVE  CatInv'
<1> DEFINE x == args[r]
<1>1. UNCHANGED <<tableVars, stored>> /\ At(r, "find_version") /\ Goes(r, x)
  BY DEF FindVersion
<1>2. x \in ArgSet /\ Pc(r) = "find_version" /\ Named(r) /\ Current(r) /\ Checked(r)
  BY <1>1, AtPc DEF CatInv, Shape, Requests
<1>3. OnScript' /\ OnlyMoves(r) /\ args'[r] = x /\ <<x.op, "find_version", Pc(r)'>> \in Order
  BY <1>1, GoesOn DEF CatInv
<1>4. Pc(r)' = "insert_job"
  BY <1>3 DEF Order
<1>5. ~Uploading(r)' /\ Named(r)' /\ Current(r)'
  BY <1>1, <1>2, <1>3, <1>4 DEF Uploading, Named, Current, tableVars, bucketVars
<1>6. owner[x.p] \in {x.u, Gone} /\ Landed(x.a) /\ (HasRow(x.a) => home[x.a] = x.p)
  BY <1>2 DEF Checked, OwnerChecked
<1>7. QED
  BY <1>1, <1>2, <1>3, <1>4, <1>5, <1>6, ReadStep
-----------------------------------------------------------------------------
(* Steps outside the requests.                                             *)

LEMMA CreateProjectKeeps ==
    ASSUME CatInv, NEW u \in User, CreateProject(u)
    PROVE  CatInv'
<1> USE IdAssumption DEF CatInv
<1>1. PICK p \in Project : owner[p] = NoUser /\ owner' = [owner EXCEPT ![p] = u]
  BY DEF CreateProject
<1>2. UNCHANGED <<fields, assetVars, jobVars, bucketVars, status, requestVars, stored>>
  BY DEF CreateProject
<1> USE <1>2 DEF assetVars, jobVars, bucketVars, requestVars
<1>3. OnScript' /\ \A q \in Request : Pc(q)' = Pc(q)
  BY Stays DEF OnScript
<1>4. Shape'
  BY <1>1 DEF Shape
<1>5. RowsRefer' /\ StoredKeepsObject'
  BY <1>1 DEF RowsRefer, StoredKeepsObject, HasRow, Live, Shape
<1>6. ASSUME NEW q \in Request PROVE Named(q)' /\ Checked(q)' /\ Current(q)'
  <2>1. Named(q) /\ Checked(q) /\ Current(q)
    BY DEF Requests
  <2>2. \A x \in Request : Uploading(x)' = Uploading(x)
    BY <1>3 DEF Uploading
  <2>3. \A z : Landed(z)' = Landed(z)
    BY <2>2 DEF Landed
  <2>4. OwnerChecked(q)' = OwnerChecked(q)
    BY <1>3 DEF OwnerChecked
  <2>5. OwnerChecked(q) => owner'[args[q].p] \in {args[q].u, Gone}
    <3>1. ASSUME OwnerChecked(q) PROVE args[q].p \in Project /\ args[q].u \in User
      <4>1. Pc(q) # "idle"
        BY <3>1 DEF OwnerChecked
      <4>2. args[q].op \notin {"confirm", "delete_asset"}
        BY <3>1, OpAt
      <4>3. QED
        BY <2>1, <4>1, <4>2 DEF Named
    <3>2. QED
      BY <1>1, <2>1, <3>1 DEF Checked, Shape
  <2>6. QED
    BY <1>3, <2>1, <2>2, <2>3, <2>4, <2>5 DEF Named, Checked, Current, HasRow
<1>7. QED
  BY <1>3, <1>4, <1>5, <1>6 DEF Requests

LEMMA SetStatusKeeps ==
    ASSUME CatInv, NEW v \in Version, SetStatus(v)
    PROVE  CatInv'
<1> USE DEF CatInv
<1>1. PICK st \in Status : status' = [status EXCEPT ![v] = st]
  BY DEF SetStatus
<1>2. UNCHANGED <<projectVars, assetVars, jobVars, bucketVars, requestVars, stored>>
  BY DEF SetStatus
<1> USE <1>2 DEF projectVars, assetVars, jobVars, bucketVars, requestVars
<1>3. OnScript' /\ \A q \in Request : Pc(q)' = Pc(q)
  BY Stays DEF OnScript
<1>4. Shape'
  BY <1>1 DEF Shape
<1>5. RowsRefer' /\ StoredKeepsObject'
  BY DEF RowsRefer, StoredKeepsObject, HasRow, Live
<1>6. Requests'
  BY <1>3 DEF Requests, Named, Checked, Current, OwnerChecked, Uploading, Landed, HasRow
<1>7. QED
  BY <1>3, <1>4, <1>5, <1>6

\* The client's own PUT, and the end of a presigned URL.
LEMMA ClientPutKeeps ==
    ASSUME CatInv, NEW b \in Asset, ClientPut(b) \/ UrlLapses(b)
    PROVE  CatInv'
<1> USE DEF CatInv
<1>1. /\ UNCHANGED <<projectVars, assetVars, jobVars, drawn, status, requestVars, stored>>
      /\ objects \subseteq objects' /\ objects' \subseteq objects \cup signed
      /\ signed' \subseteq signed
  BY DEF ClientPut, UrlLapses
<1> USE <1>1 DEF projectVars, assetVars, jobVars, requestVars
<1>2. OnScript' /\ \A q \in Request : Pc(q)' = Pc(q)
  BY Stays DEF OnScript
<1>3. Shape'
  BY DEF Shape
<1>4. RowsRefer' /\ StoredKeepsObject'
  BY DEF RowsRefer, StoredKeepsObject, HasRow, Live
<1>5. ASSUME NEW q \in Request PROVE Named(q)' /\ Checked(q)' /\ Current(q)'
  <2>1. Named(q) /\ Checked(q) /\ Current(q)
    BY DEF Requests
  <2>2. \A x \in Request : Uploading(x)' = Uploading(x) /\ OwnerChecked(x)' = OwnerChecked(x)
    BY <1>2 DEF Uploading, OwnerChecked
  <2>3. \A z : Landed(z)' = Landed(z)
    BY <2>2 DEF Landed
  <2>4. QED
    BY <1>2, <2>1, <2>2, <2>3 DEF Named, Checked, Current, HasRow
<1>6. QED
  BY <1>2, <1>3, <1>4, <1>5 DEF Requests
-----------------------------------------------------------------------------
(* Steps of the requests that change tables or objects.                    *)

\* What such a step has to keep for everybody else; for the one that takes it, its own lemma.
LEMMA OthersKeep ==
    ASSUME CatInv, NEW r \in Request, OnlyMoves(r),
           \A p \in Project : owner'[p] = owner[p] \/ owner'[p] = Gone,
           \A q \in Request \ {r} : Uploading(q) =>
                args[q].a \in objects' /\ home'[args[q].a] = home[args[q].a],
           ~Uploading(r)',
           drawn \subseteq drawn',
           \A a \in Asset : Landed(a) => Landed(a)' /\ home'[a] \in {home[a], NoProject},
           status' = status, fields' = fields
    PROVE  \A q \in Request \ {r} : Named(q)' /\ Checked(q)' /\ Current(q)'
<1> TAKE q \in Request \ {r}
<1>1. Named(q) /\ Checked(q) /\ Current(q)
  BY DEF CatInv, Requests
<1>2. args'[q] = args[q] /\ Pc(q)' = Pc(q)
  BY DEF OnlyMoves
<1>3. Named(q)' /\ Current(q)'
  BY <1>1, <1>2 DEF Named, Current
<1>4. Uploading(q)' = Uploading(q) /\ OwnerChecked(q)' = OwnerChecked(q)
  BY <1>2 DEF Uploading, OwnerChecked
<1>5. OwnerChecked(q) => owner'[args[q].p] \in {args[q].u, Gone}
  <2>1. ASSUME OwnerChecked(q) PROVE args[q].p \in Project
    <3>1. Pc(q) # "idle"
      BY <2>1 DEF OwnerChecked
    <3>2. QED
      BY <1>1, <2>1, <3>1, OpAt DEF Named, CatInv
  <2>2. QED
    BY <1>1, <2>1 DEF Checked
<1>6. Uploading(q) => \A x \in Request : Uploading(x)' /\ args'[x].a = args[q].a => x = q
  <2>1. \A x \in Request \ {r} : Uploading(x)' = Uploading(x) /\ args'[x] = args[x]
    BY DEF Uploading, OnlyMoves
  <2>2. QED
    BY <1>1, <2>1 DEF Checked
<1>7. Pc(q) \in {"delete_asset", "delete_object", "find_version", "insert_job"} => args[q].a \in Asset
  BY <1>1 DEF Checked, Landed, CatInv, Shape
<1>8. Checked(q)'
  <2>1. PICK x : x = args[q] /\ x = args'[q]
    BY <1>2
  <2>2. Uploading(q) => x.a \in objects' /\ ~HasRow(x.a)'
    BY <1>1, <2>1 DEF Checked, HasRow
  <2>3. Pc(q) \in {"delete_asset", "delete_object", "find_version", "insert_job"} =>
          x.a \in Asset /\ Landed(x.a)' /\ home'[x.a] \in {home[x.a], NoProject}
    BY <1>1, <1>7, <2>1 DEF Checked
  <2>4. Pc(q) = "delete_object" => ~HasRow(x.a)'
    BY <1>1, <2>1, <2>3 DEF Checked, HasRow
  <2>5. Pc(q) \in {"find_version", "insert_job"} /\ HasRow(x.a)' => home'[x.a] = x.p
    BY <1>1, <2>1, <2>3 DEF Checked, HasRow
  <2>6. QED
    BY <1>2, <1>4, <1>5, <1>6, <2>1, <2>2, <2>3, <2>4, <2>5 DEF Checked, HasRow
<1>9. QED
  BY <1>3, <1>8

LEMMA EndedIsFine ==
    ASSUME NEW r \in Request, Pc(r)' = "idle", args'[r] = NoArgs
    PROVE  Named(r)' /\ Checked(r)' /\ Current(r)' /\ ~Uploading(r)'
BY NoArgsFacts DEF Named, Checked, Current, Uploading, OwnerChecked

LEMMA ExistsKeeps ==
    ASSUME CatInv, NEW r \in Request, Exists(r)
    PROVE  CatInv'
<1> USE DEF CatInv
<1>1. /\ End(r) /\ args[r].a \in objects /\ stored' = stored \cup {args[r].a}
      /\ UNCHANGED tableVars
  BY DEF Exists
<1> USE <1>1 DEF tableVars, projectVars, assetVars, jobVars, bucketVars
<1>2. OnScript' /\ OnlyMoves(r) /\ args'[r] = NoArgs /\ Pc(r)' = "idle"
  BY Ends
<1>3. Named(r)' /\ Checked(r)' /\ Current(r)' /\ ~Uploading(r)'
  BY <1>2, EndedIsFine
<1>4. \A a : Landed(a) => Landed(a)'
  BY <1>2, <1>3 DEF Landed, Uploading, OnlyMoves
<1>5. \A q \in Request \ {r} : Named(q)' /\ Checked(q)' /\ Current(q)'
  <2>1. \A q \in Request \ {r} : Uploading(q) => args[q].a \in objects
    BY DEF Requests, Checked
  <2>2. QED
    BY <1>2, <1>3, <1>4, <2>1, OthersKeep DEF HasRow
<1>6. Shape'
  BY <1>2, NoArgsFacts DEF Shape, OnlyMoves
<1>7. RowsRefer' /\ StoredKeepsObject'
  BY DEF RowsRefer, StoredKeepsObject, HasRow, Live
<1>8. QED
  BY <1>2, <1>3, <1>5, <1>6, <1>7 DEF Requests

LEMMA PutKeeps ==
    ASSUME CatInv, NEW r \in Request, Put(r)
    PROVE  CatInv'
<1> USE DEF CatInv
<1>1. PICK b \in Asset \ drawn :
        /\ drawn' = drawn \cup {b} /\ objects' = objects \cup {b}
        /\ Goes(r, [args[r] EXCEPT !.a = b])
        /\ UNCHANGED <<projectVars, assetVars, jobVars, status, signed, stored>>
  BY DEF Put
<1> DEFINE x == [args[r] EXCEPT !.a = b]
<1>2. Named(r) /\ Checked(r) /\ Current(r) /\ args[r] \in ArgSet /\ At(r, "put")
  BY DEF Put, Requests, Shape
<1>3. /\ x \in ArgSet /\ x.op = args[r].op /\ x.a = b /\ x.p = args[r].p /\ x.u = args[r].u
      /\ x.v = args[r].v
  BY <1>2 DEF ArgSet
<1> HIDE DEF x
<1>4. /\ OnScript' /\ OnlyMoves(r) /\ args'[r] = x /\ Pc(r) = "put"
      /\ <<x.op, "put", Pc(r)'>> \in Order
  BY <1>1, <1>2, <1>3, GoesOn DEF x
<1>5. x.op = "upload" /\ Pc(r)' = "insert_asset"
  BY <1>4 DEF Order
<1> USE <1>1 DEF projectVars, assetVars, jobVars
<1>6. ~HasRow(b) /\ \A q \in Request : Uploading(q) => args[q].a # b
  <2>1. ~HasRow(b)
    BY DEF RowsRefer
  <2>2. \A q \in Request : Uploading(q) => args[q].a \in drawn
    BY DEF Requests, Checked, Shape
  <2>3. QED
    BY <2>1, <2>2
<1>7. Checked(r)'
  <2>1. owner[x.p] \in {x.u, Gone}
    BY <1>2, <1>3, <1>4 DEF Checked, OwnerChecked
  <2>2. \A q \in Request : Uploading(q)' /\ args'[q].a = b => q = r
    BY <1>4, <1>6 DEF Uploading, OnlyMoves
  <2>3. QED
    BY <1>3, <1>4, <1>5, <1>6, <2>1, <2>2 DEF Checked, HasRow
<1>8. Named(r)' /\ Current(r)'
  BY <1>2, <1>3, <1>4, <1>5 DEF Named, Current
<1>9. \A a : Landed(a) => Landed(a)'
  BY <1>3, <1>4 DEF Landed, Uploading, OnlyMoves
<1>10. \A q \in Request \ {r} : Uploading(q) => args[q].a \in objects
  BY DEF Requests, Checked
<1>11. \A q \in Request \ {r} : Named(q)' /\ Checked(q)' /\ Current(q)'
  <2>1. ASSUME NEW q \in Request \ {r} PROVE Named(q)' /\ Checked(q)' /\ Current(q)'
    <3>1. Named(q) /\ Checked(q) /\ Current(q) /\ args'[q] = args[q] /\ Pc(q)' = Pc(q)
      BY <1>4 DEF Requests, OnlyMoves
    <3>2. Uploading(q) => \A y \in Request : Uploading(y)' /\ args'[y].a = args[q].a => y = q
      BY <1>3, <1>4, <1>6, <3>1 DEF Checked, Uploading, OnlyMoves
    <3>3. Uploading(q)' = Uploading(q) /\ OwnerChecked(q)' = OwnerChecked(q)
      BY <3>1 DEF Uploading, OwnerChecked
    <3>4. Checked(q)'
      BY <1>9, <1>10, <3>1, <3>2, <3>3 DEF Checked, HasRow
    <3>5. QED
      BY <3>1, <3>4 DEF Named, Current
  <2>2. QED
    BY <2>1
<1>12. Shape'
  BY <1>3, <1>4 DEF Shape, OnlyMoves
<1>13. RowsRefer' /\ StoredKeepsObject'
  BY DEF RowsRefer, StoredKeepsObject, HasRow, Live
<1>14. QED
  BY <1>4, <1>7, <1>8, <1>11, <1>12, <1>13 DEF Requests
LEMMA UpdateKeeps ==
    ASSUME CatInv, NEW r \in Request, Update(r)
    PROVE  CatInv'
<1> USE DEF CatInv
<1> DEFINE x == args[r]
<1>1. /\ Pc(r) = "update" /\ x.op = "update" /\ x.p \in Project
      /\ x.mentions \subseteq Field /\ x.read \subseteq Field
  <2>1. Pc(r) = "update" /\ Named(r)
    BY AtPc DEF Update, Requests
  <2>2. x.op = "update"
    BY <2>1, OpAt
  <2>3. QED
    BY <2>1, <2>2 DEF Named, Shape, ArgSet
<1>2. /\ fields' = [fields EXCEPT ![x.p] = x.read \cup x.mentions]
      /\ todo' = [todo EXCEPT ![r] = <<>>]
      /\ args' = [q \in Request |->
            IF q = r THEN NoArgs
            ELSE [args[q] EXCEPT !.overtaken =
                    @ \/ (q # r /\ args[q].p = x.p /\ At(q, "update"))]]
      /\ UNCHANGED <<owner, assetVars, jobVars, bucketVars, status, stored>>
  BY DEF Update, Merged
<1> USE DEF assetVars, jobVars, bucketVars
<1>3. \A q \in Request \ {r} :
        /\ args'[q] \in ArgSet
        /\ args'[q].op = args[q].op /\ args'[q].u = args[q].u /\ args'[q].p = args[q].p
        /\ args'[q].a = args[q].a /\ args'[q].v = args[q].v
        /\ args'[q].read = args[q].read
        /\ args'[q].overtaken = (args[q].overtaken \/ (args[q].p = x.p /\ At(q, "update")))
  <2> SUFFICES ASSUME NEW q \in Request \ {r}
               PROVE  /\ args'[q] \in ArgSet
                      /\ args'[q].op = args[q].op /\ args'[q].u = args[q].u
                      /\ args'[q].p = args[q].p /\ args'[q].a = args[q].a
                      /\ args'[q].v = args[q].v /\ args'[q].read = args[q].read
                      /\ args'[q].overtaken
                           = (args[q].overtaken \/ (args[q].p = x.p /\ At(q, "update")))
    OBVIOUS
  <2> DEFINE b == args[q].overtaken \/ (args[q].p = x.p /\ At(q, "update"))
  <2>1. args'[q] = [args[q] EXCEPT !.overtaken = b]
    BY <1>2
  <2>2. args[q] \in ArgSet /\ b \in BOOLEAN
    BY DEF Shape, ArgSet
  <2> HIDE DEF b
  <2>3. /\ args'[q] \in ArgSet
        /\ args'[q].op = args[q].op /\ args'[q].u = args[q].u /\ args'[q].p = args[q].p
        /\ args'[q].a = args[q].a /\ args'[q].v = args[q].v /\ args'[q].read = args[q].read
        /\ args'[q].overtaken = b
    BY ONLY <2>1, <2>2, Overtaken
  <2>4. QED
    BY <2>3, Zenon DEF b
<1>4. args'[r] = NoArgs /\ Pc(r)' = "idle" /\ \A q \in Request \ {r} : Pc(q)' = Pc(q)
  BY <1>2 DEF OnScript, Pc
<1>5. OnScript'
  <2>1. /\ DOMAIN todo' = Request /\ DOMAIN args' = Request /\ todo'[r] = <<>>
        /\ \A q \in Request \ {r} : todo'[q] = todo[q]
    BY <1>2 DEF OnScript
  <2>2. ASSUME NEW q \in Request \ {r}
        PROVE  LET s == Script(args'[q].op) IN
               args'[q].op \in Op /\ \E n \in 1..(Len(s) + 1) : todo'[q] = SubSeq(s, n, Len(s))
    <3>1. args'[q].op = args[q].op /\ todo'[q] = todo[q]
      BY <1>3, <2>1
    <3>2. QED
      BY <3>1 DEF OnScript
  <2>3. NoArgs.op \in Op /\ args'[r].op = "infer"
    BY <1>4, NoArgsFacts DEF Op
  <2>4. QED
    BY <1>4, <2>1, <2>2, <2>3, EmptyIsOnScript DEF OnScript
<1>6. Shape'
  <2>1. fields' \in [Project -> SUBSET Field]
    BY <1>1, <1>2 DEF Shape
  <2>2. args' \in [Request -> ArgSet]
    BY <1>2, <1>3, <1>4, NoArgsFacts
  <2>3. QED
    BY <1>2, <2>1, <2>2 DEF Shape
<1>7. RowsRefer' /\ StoredKeepsObject'
  BY <1>2 DEF RowsRefer, StoredKeepsObject, HasRow, Live
<1>8. Named(r)' /\ Checked(r)' /\ Current(r)' /\ ~Uploading(r)'
  BY <1>4, EndedIsFine
<1>9. ASSUME NEW q \in Request \ {r} PROVE Named(q)' /\ Checked(q)' /\ Current(q)'
  <2>1. Named(q) /\ Checked(q) /\ Current(q)
    BY DEF Requests
  <2>2. \A y \in Request \ {r} : Uploading(y)' = Uploading(y) /\ OwnerChecked(y)' = OwnerChecked(y)
    BY <1>3, <1>4 DEF Uploading, OwnerChecked
  <2>3. \A a : Landed(a) => Landed(a)'
    BY <1>2, <1>3, <1>8, <2>2 DEF Landed
  <2>4. SameRequest(q) /\ drawn' = drawn
    BY <1>2, <1>3, <1>4 DEF SameRequest
  <2>5. Named(q)' /\ Checked(q)'
    <3>1. owner' = owner /\ home' = home /\ objects' = objects
      BY <1>2
    <3>2. \A y \in Request : Uploading(y)' => Uploading(y) /\ args'[y].a = args[y].a
      BY <1>3, <1>8, <2>2
    <3>3. QED
      BY <2>1, <2>2, <2>3, <2>4, <3>1, <3>2, SameNamed, SameChecked
  <2>6. Current(q)'
    <3>1. Pc(q) = "update" /\ args[q].p = x.p => At(q, "update")
      BY DEF Pc, At, Idle
    <3>2. Pc(q) = "update" /\ args[q].p # x.p => fields'[args[q].p] = fields[args[q].p]
      <4>1. Pc(q) = "update" => args[q].p \in Project
        BY <2>1, OpAt DEF Named
      <4>2. QED
        BY <1>2, <4>1 DEF Shape
    <3>3. /\ args'[q].p = args[q].p /\ args'[q].read = args[q].read /\ Pc(q)' = Pc(q)
          /\ args'[q].overtaken = (args[q].overtaken \/ (args[q].p = x.p /\ At(q, "update")))
      BY <1>2, <1>3, <1>4
    <3>4. QED
      BY <2>1, <3>1, <3>2, <3>3 DEF Current
  <2>7. QED
    BY <2>5, <2>6
<1>10. QED
  BY <1>5, <1>6, <1>7, <1>8, <1>9 DEF Requests

LEMMA DeleteProjectKeeps ==
    ASSUME CatInv, NEW r \in Request, DeleteProject(r)
    PROVE  CatInv'
<1> USE IdAssumption DEF CatInv
<1> DEFINE p == args[r].p
<1>1. /\ owner'  = [owner EXCEPT ![p] = Gone] /\ fields' = [fields EXCEPT ![p] = {}]
      /\ home'     = [a \in Asset |-> IF home[a] = p THEN NoProject ELSE home[a]]
      /\ uploader' = [a \in Asset |-> IF home[a] = p THEN NoUser ELSE uploader[a]]
      /\ input'      = [j \in Job |-> IF jobProject[j] = p THEN NoAsset ELSE input[j]]
      /\ jobProject' = [j \in Job |-> IF jobProject[j] = p THEN NoProject ELSE jobProject[j]]
      /\ End(r) /\ UNCHANGED <<bucketVars, status, stored>>
      /\ At(r, "delete_project") /\ Live(p)
  BY DEF DeleteProject
<1>2. OnScript' /\ OnlyMoves(r) /\ args'[r] = NoArgs /\ Pc(r)' = "idle"
  BY <1>1, Ends
<1>3. Named(r)' /\ Checked(r)' /\ Current(r)' /\ ~Uploading(r)'
  BY <1>2, EndedIsFine
<1>4. p \in Project
  <2>1. Pc(r) = "delete_project" /\ Named(r)
    BY <1>1, AtPc DEF Requests
  <2>2. args[r].op \notin {"confirm", "delete_asset"}
    BY <2>1, OpAt DEF OwnerChecked
  <2>3. QED
    BY <2>1, <2>2 DEF Named
<1> HIDE DEF p
<1> USE <1>1 DEF bucketVars
<1>5. Shape'
  BY <1>2, <1>4, NoArgsFacts DEF Shape, OnlyMoves
<1>6. RowsRefer'
  <2>1. ASSUME NEW a \in Asset
        PROVE  IF HasRow(a)' THEN a \in drawn /\ Live(home[a])' /\ uploader'[a] = owner'[home'[a]]
               ELSE uploader'[a] = NoUser
    BY <1>4 DEF RowsRefer, HasRow, Live, Shape
  <2>2. ASSUME NEW j \in Job
        PROVE  IF input'[j] # NoAsset THEN HasRow(input[j])' /\ jobProject'[j] = home'[input'[j]]
               ELSE jobProject'[j] = NoProject
    BY <1>4 DEF RowsRefer, HasRow, Shape
  <2>3. QED
    BY <2>1, <2>2 DEF RowsRefer
<1>7. StoredKeepsObject'
  BY DEF StoredKeepsObject, HasRow, Shape
<1>8. \A a : Landed(a) => Landed(a)'
  BY <1>2, <1>3 DEF Landed, Uploading, OnlyMoves
<1>9. ASSUME NEW q \in Request \ {r} PROVE Named(q)' /\ Checked(q)' /\ Current(q)'
  <2>1. Named(q) /\ Checked(q) /\ Current(q)
    BY DEF Requests
  <2>2. PICK x : x = args[q] /\ x = args'[q]
    BY <1>2 DEF OnlyMoves
  <2>3. Pc(q)' = Pc(q) /\ Uploading(q)' = Uploading(q) /\ OwnerChecked(q)' = OwnerChecked(q)
    BY <1>2 DEF OnlyMoves, Uploading, OwnerChecked
  <2>4. OwnerChecked(q) => owner'[x.p] \in {x.u, Gone} /\ x.p \in Project
    <3>1. OwnerChecked(q) => x.p \in Project
      BY <2>1, <2>2, OpAt DEF Named, OwnerChecked
    <3>2. QED
      BY <1>4, <2>1, <2>2, <3>1 DEF Checked, Shape
  <2>5. \A a \in Asset : HasRow(a)' => HasRow(a) /\ home'[a] = home[a]
    BY DEF HasRow, Shape
  <2>6. x.a \in Asset \/ Pc(q) \notin {"insert_asset", "delete_asset", "delete_object", "find_version",
                                      "insert_job"} \/ (Pc(q) = "insert_asset" /\ ~Uploading(q))
    BY <2>1, <2>2 DEF Checked, Landed, Shape
  <2>7. Uploading(q) => \A y \in Request : Uploading(y)' /\ args'[y].a = x.a => y = q
    BY <1>2, <1>3, <2>1, <2>2 DEF Checked, Uploading, OnlyMoves
  <2>8. Checked(q)'
    BY <1>8, <2>1, <2>2, <2>3, <2>4, <2>5, <2>6, <2>7 DEF Checked, Uploading
  <2>9. Named(q)'
    BY <2>1, <2>2, <2>3 DEF Named
  <2>10. Current(q)'
    <3>1. Pc(q) = "update" => fields'[x.p] \subseteq fields[x.p]
      BY <1>4, <2>3, <2>4 DEF Shape, OwnerChecked
    <3>2. QED
      BY <2>1, <2>2, <2>3, <3>1 DEF Current
  <2>11. QED
    BY <2>8, <2>9, <2>10
<1>10. QED
  BY <1>2, <1>3, <1>5, <1>6, <1>7, <1>9 DEF Requests
\* Both uploads insert a row for an asset that never had one and that nobody else works on.
LEMMA InsertAssetEffect ==
    ASSUME CatInv, NEW r \in Request, InsertAsset(r)
    PROVE  /\ End(r) /\ UNCHANGED <<projectVars, jobVars, objects, status>>
           /\ \E b \in Asset, p \in Project, u \in User :
                /\ owner[p] = u
                /\ home' = [home EXCEPT ![b] = p] /\ uploader' = [uploader EXCEPT ![b] = u]
                /\ drawn' = drawn \cup {b} /\ signed \cup signed' \subseteq signed \cup {b}
                /\ stored' \in {stored, stored \cup {b}} /\ (b \in stored' => b \in objects)
                /\ ~HasRow(b) /\ ~Landed(b)
                /\ \A q \in Request \ {r} : Uploading(q) => args[q].a # b
<1> DEFINE x == args[r]
<1>1. /\ End(r) /\ UNCHANGED <<projectVars, jobVars, objects, status>>
      /\ At(r, "insert_asset") /\ Live(x.p)
  BY DEF InsertAsset
<1>2. Pc(r) = "insert_asset" /\ Named(r) /\ Checked(r) /\ x.op \in {"presign", "upload"}
  BY <1>1, AtPc, OpAt DEF CatInv, Requests
<1>3. x.p \in Project /\ x.u \in User /\ owner[x.p] = x.u
  BY <1>1, <1>2, IdAssumption DEF Named, Checked, OwnerChecked, Live
<1>4. CASE x.op = "upload"
  <2>1. x.a \in objects /\ ~HasRow(x.a) /\ Uploading(r)
        /\ \A q \in Request : Uploading(q) /\ args[q].a = x.a => q = r
    BY <1>2, <1>4 DEF Checked, Uploading
  <2>2. ~Landed(x.a)
    BY <2>1 DEF Landed
  <2>3. x.a \in Asset /\ x.a \in drawn
    BY <2>1 DEF CatInv, Shape
  <2>4. /\ home' = [home EXCEPT ![x.a] = x.p] /\ uploader' = [uploader EXCEPT ![x.a] = x.u]
        /\ stored' = stored \cup {x.a} /\ UNCHANGED <<drawn, signed>>
    BY <1>4 DEF InsertAsset
  <2>5. drawn' = drawn \cup {x.a}
    BY <2>3, <2>4
  <2>6. QED
    BY <1>1, <1>3, <2>1, <2>2, <2>3, <2>4, <2>5
<1>5. CASE x.op = "presign"
  <2>1. PICK b \in Asset \ drawn :
          /\ home' = [home EXCEPT ![b] = x.p] /\ uploader' = [uploader EXCEPT ![b] = x.u]
          /\ drawn' = drawn \cup {b} /\ signed' = signed \cup {b} /\ stored' = stored
    BY <1>5 DEF InsertAsset
  <2>2. ~HasRow(b) /\ ~Landed(b) /\ b \notin stored
    BY DEF CatInv, Shape, RowsRefer, Landed
  <2>3. \A q \in Request : Uploading(q) => args[q].a \in drawn
    BY DEF CatInv, Requests, Checked, Shape
  <2>4. QED
    BY <1>1, <1>3, <2>1, <2>2, <2>3
<1>6. QED
  BY <1>2, <1>4, <1>5

LEMMA InsertAssetKeeps ==
    ASSUME CatInv, NEW r \in Request, InsertAsset(r)
    PROVE  CatInv'
<1> USE IdAssumption DEF CatInv
<1>1. End(r) /\ UNCHANGED <<projectVars, jobVars, objects, status>>
  BY InsertAssetEffect
<1>2. PICK b \in Asset, p \in Project, u \in User :
        /\ owner[p] = u
        /\ home' = [home EXCEPT ![b] = p] /\ uploader' = [uploader EXCEPT ![b] = u]
        /\ drawn' = drawn \cup {b} /\ signed \cup signed' \subseteq signed \cup {b}
        /\ stored' \in {stored, stored \cup {b}} /\ (b \in stored' => b \in objects)
        /\ ~HasRow(b) /\ ~Landed(b)
        /\ \A q \in Request \ {r} : Uploading(q) => args[q].a # b
  BY InsertAssetEffect
<1> USE <1>1 DEF projectVars, jobVars
<1>3. OnScript' /\ OnlyMoves(r) /\ args'[r] = NoArgs /\ Pc(r)' = "idle"
  BY Ends
<1>4. Named(r)' /\ Checked(r)' /\ Current(r)' /\ ~Uploading(r)'
  BY <1>3, EndedIsFine
<1>5. Shape'
  BY <1>2, <1>3, NoArgsFacts DEF Shape, OnlyMoves
<1>6. RowsRefer'
  BY <1>2 DEF RowsRefer, HasRow, Live, Shape
<1>7. StoredKeepsObject'
  BY <1>2 DEF StoredKeepsObject, HasRow, Shape
<1>8. \A q \in Request \ {r} : Named(q)' /\ Checked(q)' /\ Current(q)'
  <2>1. \A a \in Asset : Landed(a) => Landed(a)' /\ home'[a] \in {home[a], NoProject}
    BY <1>2, <1>3, <1>4 DEF Landed, Uploading, OnlyMoves, Shape
  <2>2. \A q \in Request \ {r} : Uploading(q) =>
          args[q].a \in objects' /\ home'[args[q].a] = home[args[q].a]
    BY <1>2 DEF Requests, Checked, Shape
  <2>3. QED
    BY <1>2, <1>3, <1>4, <2>1, <2>2, OthersKeep
<1>9. QED
  BY <1>3, <1>4, <1>5, <1>6, <1>7, <1>8 DEF Requests

LEMMA DeleteAssetKeeps ==
    ASSUME CatInv, NEW r \in Request, DeleteAsset(r)
    PROVE  CatInv'
<1> USE IdAssumption DEF CatInv
<1> DEFINE x == args[r]
<1>1. /\ At(r, "delete_asset") /\ HasRow(x.a) /\ ~Referenced(x.a) /\ Goes(r, x)
      /\ home' = [home EXCEPT ![x.a] = NoProject] /\ uploader' = [uploader EXCEPT ![x.a] = NoUser]
      /\ UNCHANGED <<projectVars, jobVars, bucketVars, status, stored>>
  BY DEF DeleteAsset
<1>2. /\ OnScript' /\ OnlyMoves(r) /\ args'[r] = x /\ Pc(r) = "delete_asset"
      /\ <<x.op, "delete_asset", Pc(r)'>> \in Order
  BY <1>1, GoesOn
<1>3. Pc(r)' = "delete_object" /\ x.op = "delete_asset"
  BY <1>2 DEF Order
<1>4. Named(r) /\ Checked(r) /\ Current(r) /\ x \in ArgSet /\ Landed(x.a) /\ x.a \in Asset
  BY <1>2 DEF Requests, Checked, Shape, Landed
<1> USE <1>1 DEF projectVars, jobVars, bucketVars
<1>5. ~Uploading(r)' /\ \A a : Landed(a) => Landed(a)'
  BY <1>2, <1>3 DEF Landed, Uploading, OnlyMoves
<1>6. Named(r)' /\ Current(r)'
  BY <1>2, <1>3, <1>4 DEF Named, Current
<1>7. Checked(r)'
  <2>1. PICK y : y = args[r] /\ y = args'[r]
    BY <1>2
  <2>2. ~HasRow(y.a)' /\ Landed(y.a)'
    BY <1>4, <1>5, <2>1 DEF HasRow, Shape
  <2>3. QED
    BY <1>3, <1>5, <2>1, <2>2 DEF Checked, OwnerChecked
<1>8. Shape'
  BY <1>2, <1>4 DEF Shape, OnlyMoves
<1>9. RowsRefer'
  BY <1>4 DEF RowsRefer, HasRow, Live, Shape, Referenced
<1>10. StoredKeepsObject'
  BY <1>4 DEF StoredKeepsObject, HasRow, Shape
<1>11. \A q \in Request \ {r} : Named(q)' /\ Checked(q)' /\ Current(q)'
  <2>1. \A a \in Asset : Landed(a) => Landed(a)' /\ home'[a] \in {home[a], NoProject}
    BY <1>5 DEF Shape
  <2>2. \A q \in Request \ {r} : Uploading(q) =>
          args[q].a \in objects' /\ home'[args[q].a] = home[args[q].a]
    BY <1>4 DEF Requests, Checked, Landed, Shape
  <2>3. QED
    BY <1>2, <1>5, <2>1, <2>2, OthersKeep
<1>12. QED
  BY <1>2, <1>6, <1>7, <1>8, <1>9, <1>10, <1>11 DEF Requests

LEMMA DeleteObjectKeeps ==
    ASSUME CatInv, NEW r \in Request, DeleteObject(r)
    PROVE  CatInv'
<1> USE DEF CatInv
<1> DEFINE b == args[r].a
<1>1. /\ At(r, "delete_object") /\ End(r) /\ objects \ {b} \subseteq objects'
      /\ objects' \subseteq objects
      /\ UNCHANGED <<projectVars, assetVars, jobVars, drawn, signed, status, stored>>
  BY DEF DeleteObject
<1> USE <1>1 DEF projectVars, assetVars, jobVars
<1>2. OnScript' /\ OnlyMoves(r) /\ args'[r] = NoArgs /\ Pc(r)' = "idle"
  BY Ends
<1>3. Named(r)' /\ Checked(r)' /\ Current(r)' /\ ~Uploading(r)'
  BY <1>2, EndedIsFine
<1>4. Landed(b) /\ ~HasRow(b)
  BY <1>1, AtPc DEF Requests, Checked
<1> HIDE DEF b
<1>5. Shape'
  BY <1>2, NoArgsFacts DEF Shape, OnlyMoves
<1>6. RowsRefer' /\ StoredKeepsObject'
  BY <1>4 DEF RowsRefer, HasRow, Live, StoredKeepsObject
<1>7. \A q \in Request \ {r} : Named(q)' /\ Checked(q)' /\ Current(q)'
  <2>1. \A a \in Asset : Landed(a) => Landed(a)' /\ home'[a] \in {home[a], NoProject}
    BY <1>2, <1>3 DEF Landed, Uploading, OnlyMoves
  <2>2. \A q \in Request \ {r} : Uploading(q) =>
          args[q].a \in objects' /\ home'[args[q].a] = home[args[q].a]
    BY <1>4 DEF Requests, Checked, Landed
  <2>3. QED
    BY <1>2, <1>3, <2>1, <2>2, OthersKeep
<1>8. QED
  BY <1>2, <1>3, <1>5, <1>6, <1>7 DEF Requests

LEMMA InsertJobKeeps ==
    ASSUME CatInv, NEW r \in Request, InsertJob(r)
    PROVE  CatInv'
<1> USE IdAssumption DEF CatInv
<1> DEFINE x == args[r]
<1>1. PICK j \in Job : /\ input[j] = NoAsset
                       /\ input' = [input EXCEPT ![j] = x.a]
                       /\ jobProject' = [jobProject EXCEPT ![j] = x.p]
  BY DEF InsertJob
<1>2. /\ At(r, "insert_job") /\ Live(x.p) /\ HasRow(x.a) /\ End(r)
      /\ UNCHANGED <<projectVars, assetVars, bucketVars, status, stored>>
  BY DEF InsertJob
<1> USE <1>2 DEF projectVars, assetVars, bucketVars
<1>3. OnScript' /\ OnlyMoves(r) /\ args'[r] = NoArgs /\ Pc(r)' = "idle"
  BY Ends
<1>4. Named(r)' /\ Checked(r)' /\ Current(r)' /\ ~Uploading(r)'
  BY <1>3, EndedIsFine
<1>5. x.a \in Asset /\ x.p \in Project /\ home[x.a] = x.p
  <2>1. Pc(r) = "insert_job" /\ Named(r) /\ Checked(r) /\ x.op = "infer"
    BY AtPc, OpAt DEF Requests
  <2>2. QED
    BY <2>1 DEF Named, Checked, Shape
<1>6. Shape'
  BY <1>1, <1>3, <1>5, NoArgsFacts DEF Shape, OnlyMoves
<1>7. RowsRefer' /\ StoredKeepsObject'
  BY <1>1, <1>5 DEF RowsRefer, HasRow, Live, StoredKeepsObject, Shape
<1>8. \A q \in Request \ {r} : Named(q)' /\ Checked(q)' /\ Current(q)'
  <2>1. \A a \in Asset : Landed(a) => Landed(a)' /\ home'[a] \in {home[a], NoProject}
    BY <1>3, <1>4 DEF Landed, Uploading, OnlyMoves
  <2>2. \A q \in Request \ {r} : Uploading(q) =>
          args[q].a \in objects' /\ home'[args[q].a] = home[args[q].a]
    BY DEF Requests, Checked
  <2>3. QED
    BY <1>3, <1>4, <2>1, <2>2, OthersKeep
<1>9. QED
  BY <1>3, <1>4, <1>6, <1>7, <1>8 DEF Requests
-----------------------------------------------------------------------------
(* The system.                                                             *)

LEMMA CatInitHolds == CatInit => CatInv
<1> SUFFICES ASSUME CatInit PROVE CatInv
  OBVIOUS
<1> USE IdAssumption DEF CatInit
<1>1. OnScript
  BY EmptyIsOnScript, NoArgsFacts DEF OnScript, Op
<1>2. \A r \in Request : Pc(r) = "idle" /\ args[r] = NoArgs
  BY DEF Pc
<1>3. Shape
  BY NoArgsFacts DEF Shape
<1>4. RowsRefer /\ StoredKeepsObject
  BY DEF RowsRefer, StoredKeepsObject, HasRow
<1>5. Requests
  BY <1>2, NoArgsFacts DEF Requests, Named, Checked, Current, OwnerChecked, Uploading
<1>6. QED
  BY <1>1, <1>3, <1>4, <1>5 DEF CatInv

LEMMA HandleKeeps ==
    ASSUME CatInv, NEW r \in Request, Handle(r)
    PROVE  CatInv'
<1>1. CASE Arrive(r) \/ FindProject(r) \/ FindAsset(r) \/ FindVersion(r)
  BY <1>1, ArriveKeeps, FindProjectKeeps, FindAssetKeeps, FindVersionKeeps
<1>2. CASE Abandon(r)
  BY <1>2, ReadEnds DEF Abandon
<1>3. CASE Exists(r) \/ Put(r) \/ InsertAsset(r)
  BY <1>3, ExistsKeeps, PutKeeps, InsertAssetKeeps
<1>4. CASE Update(r) \/ DeleteProject(r)
  BY <1>4, UpdateKeeps, DeleteProjectKeeps
<1>5. CASE DeleteAsset(r) \/ DeleteObject(r) \/ InsertJob(r)
  BY <1>5, DeleteAssetKeeps, DeleteObjectKeeps, InsertJobKeeps
<1>6. QED
  BY <1>1, <1>2, <1>3, <1>4, <1>5 DEF Handle

LEMMA CatNextKeeps == CatInv /\ CatNext => CatInv'
BY HandleKeeps, CreateProjectKeeps, SetStatusKeeps, ClientPutKeeps DEF CatNext

\* Pages are read only.
LEMMA CatStutters ==
    ASSUME CatInv, UNCHANGED catVars
    PROVE  CatInv'
<1> USE DEF catVars, tableVars, projectVars, assetVars, jobVars, bucketVars, requestVars
<1>1. OnScript' /\ \A q \in Request : Pc(q)' = Pc(q)
  BY Stays DEF CatInv, OnScript
<1>2. Shape' /\ RowsRefer' /\ StoredKeepsObject'
  BY DEF CatInv, Shape, RowsRefer, StoredKeepsObject, HasRow, Live
<1>3. Requests'
  BY <1>1 DEF CatInv, Requests, Named, Checked, Current, OwnerChecked, Uploading, Landed, HasRow
<1>4. QED
  BY <1>1, <1>2, <1>3 DEF CatInv

LEMMA CatInvariant == Spec => []CatInv
<1>1. Init => CatInv
  BY CatInitHolds DEF Init
<1>2. CatInv /\ [Next]_vars => CatInv'
  BY CatNextKeeps, CatStutters DEF Next, ListFirst, ListNext, ListOver, vars
<1>3. QED
  BY <1>1, <1>2, PTL DEF Spec

\* An asset that the API called stored has its object while it has its row: nobody
\* removes an object before the row (services.go:417-420), and no upload gives a row
\* to an asset whose object a delete is after.
THEOREM StoredHasItsObject == Spec => []StoredKeepsObject
<1>1. CatInv => StoredKeepsObject
  BY DEF CatInv
<1>2. QED
  BY CatInvariant, <1>1, PTL

\* The asset of a job lies in the job's project and was uploaded by its owner, for as
\* long as the job has a row (authorize, services.go:716-735, and the foreign keys).
THEOREM JobInItsProject == Spec => []JobStaysInProject
<1>1. CatInv => JobStaysInProject
  BY DEF CatInv, RowsRefer, Shape, JobStaysInProject
<1>2. QED
  BY CatInvariant, <1>1, PTL

\* The edits of a project survive every step, a PATCH of a request that nobody
\* overtook included: what that one has read are all of them.
LEMMA EditsSurvive ==
    ASSUME CatInv, [Next]_vars, NEW p \in Project, Live(p), Live(p)',
           \A r \in Request : At(r, "update") => ~args[r].overtaken
    PROVE  fields[p] \subseteq fields'[p]
<1> USE IdAssumption DEF CatInv
<1>1. ASSUME NEW r \in Request, Update(r)
      PROVE  fields[p] \subseteq fields'[p]
  <2>1. /\ At(r, "update") /\ fields' = [fields EXCEPT ![args[r].p] = args[r].read \cup args[r].mentions]
    BY <1>1 DEF Update, Merged
  <2>2. Pc(r) = "update" /\ Current(r)
    BY <2>1, AtPc DEF Requests
  <2>3. fields[args[r].p] \subseteq args[r].read
    BY <2>1, <2>2 DEF Current
  <2>4. QED
    BY <2>1, <2>3 DEF Shape
<1>2. ASSUME NEW r \in Request, DeleteProject(r)
      PROVE  fields[p] \subseteq fields'[p]
  <2>1. fields' = [fields EXCEPT ![args[r].p] = {}] /\ owner' = [owner EXCEPT ![args[r].p] = Gone]
    BY <1>2 DEF DeleteProject
  <2>2. args[r].p # p
    BY <2>1 DEF Shape, Live
  <2>3. QED
    BY <2>1, <2>2 DEF Shape
<1>3. ASSUME NEW r \in Request, Handle(r), ~Update(r), ~DeleteProject(r)
      PROVE  fields' = fields
  <2> USE DEF tableVars, projectVars
  <2>1. CASE Arrive(r) \/ Abandon(r)
    BY <2>1 DEF Arrive, Send, Abandon
  <2>2. CASE FindProject(r) \/ FindAsset(r) \/ FindVersion(r) \/ Exists(r)
    BY <2>2 DEF FindProject, FindAsset, FindVersion, Exists
  <2>3. CASE Put(r) \/ InsertAsset(r) \/ DeleteAsset(r) \/ DeleteObject(r) \/ InsertJob(r)
    BY <2>3 DEF Put, InsertAsset, DeleteAsset, DeleteObject, InsertJob
  <2>4. QED
    BY <1>3, <2>1, <2>2, <2>3 DEF Handle
<1>4. ASSUME NEW u \in User, CreateProject(u)
      PROVE  fields' = fields
  BY <1>4 DEF CreateProject
<1>5. ASSUME NEW v \in Version, SetStatus(v)
      PROVE  fields' = fields
  BY <1>5 DEF SetStatus, projectVars
<1>6. ASSUME NEW a \in Asset, ClientPut(a) \/ UrlLapses(a)
      PROVE  fields' = fields
  BY <1>6 DEF ClientPut, UrlLapses, projectVars
<1>7. CASE UNCHANGED catVars
  BY <1>7 DEF catVars, tableVars, projectVars
<1>8. QED
  BY <1>1, <1>2, <1>3, <1>4, <1>5, <1>6, <1>7
  DEF Next, CatNext, ListFirst, ListNext, ListOver, vars

\* A PATCH takes nothing back that another one wrote, unless that one was committed
\* between its own read and its own write (services.go:224 and :241).
THEOREM PatchTakesNothingBack == Spec => PatchKeepsEdits
<1>1. CatInv /\ [Next]_vars =>
        [\A p \in Project :
            Live(p) /\ Live(p)' /\ (\A r \in Request : At(r, "update") => ~args[r].overtaken)
                => fields[p] \subseteq fields'[p]]_catVars
  BY EditsSurvive
<1>2. QED
  BY CatInvariant, <1>1, PTL DEF Spec, PatchKeepsEdits
-----------------------------------------------------------------------------
(* Pages.                                                                  *)

\* Of a family of subsets of a finite set, one contains no other.
LEMMA SmallestOfFamily ==
    ASSUME NEW S, IsFiniteSet(S), NEW F, F # {}, \A X \in F : X \subseteq S
    PROVE  \E X \in F : \A Y \in F : Y \subseteq X => Y = X
<1>1. IsWellFoundedOn(StrictSubsetOrdering(S), FiniteSubsetsOf(S))
  BY FS_StrictSubsetOrderingWellFounded
<1>2. F \subseteq FiniteSubsetsOf(S)
  BY FS_FiniteSubsetsOfFinite
<1>3. PICK X \in F : \A Y \in F : <<Y, X>> \notin StrictSubsetOrdering(S)
  BY <1>1, <1>2, WFMin
<1>4. ASSUME NEW Y \in F, Y \subseteq X, Y # X PROVE FALSE
  <2>1. <<Y, X>> \in (SUBSET S) \X (SUBSET S)
    OBVIOUS
  <2>2. <<Y, X>> \in StrictSubsetOrdering(S)
    BY <1>4, <2>1 DEF StrictSubsetOrdering
  <2>3. QED
    BY <1>3, <2>2
<1>5. QED
  BY <1>4

Above(S, a) == {b \in S : b > a}
Under(S, a) == {b \in S : b < a}

LEMMA AboveAndUnder ==
    ASSUME NEW S, \A a \in S : a \in Nat, NEW a \in S, NEW b \in S, b > a
    PROVE  /\ Above(S, b) \subseteq Above(S, a) /\ Above(S, b) # Above(S, a)
           /\ Under(S, a) \subseteq Under(S, b) /\ Under(S, b) # Under(S, a)
<1>1. \A c \in S : (c > b => c > a) /\ (c < a => c < b)
  OBVIOUS
<1>2. b \in Above(S, a) /\ b \notin Above(S, b) /\ a \in Under(S, b) /\ a \notin Under(S, a)
  BY DEF Above, Under
<1>3. QED
  BY <1>1, <1>2 DEF Above, Under

LEMMA OldestIsLeast ==
    ASSUME NEW S, \A a \in S : a \in Nat, IsFiniteSet(S), S # {}
    PROVE  Oldest(S) \in S /\ \A b \in S : Oldest(S) <= b
<1> DEFINE F == {Under(S, a) : a \in S}
<1>1. F # {} /\ \A X \in F : X \subseteq S
  BY DEF Under
<1>2. PICK X \in F : \A Y \in F : Y \subseteq X => Y = X
  <2> HIDE DEF F
  <2>1. QED
    BY <1>1, SmallestOfFamily
<1>3. PICK a \in S : X = Under(S, a)
  OBVIOUS
<1>4. \A b \in S : ~(b < a)
  <2>1. ASSUME NEW b \in S, b < a PROVE FALSE
    <3>1. Under(S, b) \in F /\ a > b
      BY <2>1
    <3>2. Under(S, b) \subseteq Under(S, a) /\ Under(S, a) # Under(S, b)
      BY <3>1, AboveAndUnder
    <3>3. QED
      BY <1>2, <1>3, <3>1, <3>2
  <2>2. QED
    BY <2>1
<1>5. \A b \in S : a <= b
  BY <1>4
<1>6. QED
  BY <1>5 DEF Oldest

LEMMA AboveIsFinite ==
    ASSUME NEW S, IsFiniteSet(S), NEW a
    PROVE  IsFiniteSet(Above(S, a)) /\ Cardinality(Above(S, a)) \in Nat
<1>1. Above(S, a) \in SUBSET S
  BY DEF Above
<1>2. QED
  BY <1>1, FS_Subset, FS_CardinalityType

\* A row has fewer rows above it than one that is lower.
LEMMA HigherHasFewerAbove ==
    ASSUME NEW S, \A a \in S : a \in Nat, IsFiniteSet(S), NEW a \in S, NEW b \in S, b > a
    PROVE  Cardinality(Above(S, b)) < Cardinality(Above(S, a))
<1>1. Above(S, b) \in SUBSET Above(S, a) /\ Above(S, b) # Above(S, a)
  BY AboveAndUnder
<1>2. /\ IsFiniteSet(Above(S, a)) /\ Cardinality(Above(S, a)) \in Nat
      /\ Cardinality(Above(S, b)) \in Nat
  BY AboveIsFinite
<1>3. /\ Cardinality(Above(S, b)) <= Cardinality(Above(S, a))
      /\ Cardinality(Above(S, a)) = Cardinality(Above(S, b)) => Above(S, a) = Above(S, b)
  BY <1>1, <1>2, FS_Subset
<1>4. QED
  BY <1>1, <1>2, <1>3

LEMMA NewestIsTop ==
    ASSUME NEW S, \A a \in S : a \in Nat, IsFiniteSet(S), NEW n \in Nat
    PROVE  /\ Newest(S, n) \subseteq S
           /\ \A a \in Newest(S, n), b \in S : b > a => b \in Newest(S, n)
<1>1. Newest(S, n) = {a \in S : Cardinality(Above(S, a)) < n}
  BY DEF Newest, Above
<1>2. ASSUME NEW a \in Newest(S, n), NEW b \in S, b > a PROVE b \in Newest(S, n)
  <2>1. a \in S /\ Cardinality(Above(S, a)) < n
    BY <1>1
  <2>2. Cardinality(Above(S, b)) < Cardinality(Above(S, a))
    BY <1>2, <2>1, HigherHasFewerAbove
  <2>3. Cardinality(Above(S, a)) \in Nat /\ Cardinality(Above(S, b)) \in Nat
    BY AboveIsFinite
  <2>4. QED
    BY <1>1, <2>1, <2>2, <2>3
<1>3. QED
  BY <1>1, <1>2

\* When no more than n rows are among the newest n + 1, they are all.
LEMMA NewestIsAll ==
    ASSUME NEW S, \A a \in S : a \in Nat, IsFiniteSet(S), NEW n \in Nat,
           ~(Cardinality(Newest(S, n + 1)) > n)
    PROVE  Newest(S, n + 1) = S
<1> DEFINE Rest == S \ Newest(S, n + 1)
           F == {Above(S, a) : a \in Rest}
<1>1. Newest(S, n + 1) = {a \in S : Cardinality(Above(S, a)) < n + 1}
  BY DEF Newest, Above
<1>2. SUFFICES ASSUME Rest # {} PROVE FALSE
  BY <1>1
<1>3. PICK a \in Rest : \A b \in Rest : Above(S, b) \subseteq Above(S, a) => Above(S, b) = Above(S, a)
  <2>1. F # {} /\ \A X \in F : X \subseteq S
    BY <1>2 DEF Above
  <2>2. PICK X \in F : \A Y \in F : Y \subseteq X => Y = X
    <3> HIDE DEF F
    <3>1. QED
      BY <2>1, SmallestOfFamily
  <2>3. QED
    BY <2>2
<1>4. Above(S, a) \in SUBSET Newest(S, n + 1)
  <2>1. ASSUME NEW b \in Above(S, a) PROVE b \in Newest(S, n + 1)
    <3>1. b \in S /\ a \in S /\ b > a
      BY DEF Above
    <3>2. Above(S, b) \subseteq Above(S, a) /\ Above(S, b) # Above(S, a)
      BY <3>1, AboveAndUnder
    <3>3. QED
      BY <1>3, <3>1, <3>2
  <2>2. QED
    BY <2>1
<1>5. IsFiniteSet(Newest(S, n + 1)) /\ Cardinality(Newest(S, n + 1)) \in Nat
  BY <1>1, FS_Subset, FS_CardinalityType
<1>6. Cardinality(Above(S, a)) <= Cardinality(Newest(S, n + 1))
  BY <1>4, <1>5, FS_Subset
<1>7. ~(Cardinality(Above(S, a)) < n + 1) /\ Cardinality(Above(S, a)) \in Nat
  BY <1>1, AboveIsFinite
<1>8. QED
  BY <1>5, <1>6, <1>7
-----------------------------------------------------------------------------
(* Listings: what their tables do meanwhile.                               *)

\* A row that was there once comes back under no request, and rows are finitely many.
RowsFade ==
    /\ \A a \in Asset : Landed(a) => Landed(a)' /\ home'[a] \in {home[a], NoProject}
    /\ IsFiniteSet(drawn) => IsFiniteSet(drawn')

LEMMA OneMoves ==
    ASSUME NEW r \in Request, OnlyMoves(r), drawn \subseteq drawn',
           Uploading(r)' => args'[r].a \notin drawn
    PROVE  \A a \in Asset : Landed(a) => Landed(a)'
<1>1. \A q \in Request \ {r} : Uploading(q)' => Uploading(q) /\ args'[q].a = args[q].a
  BY DEF OnlyMoves, Uploading
<1>2. QED
  BY <1>1 DEF Landed

LEMMA NobodyMoves ==
    ASSUME drawn' = drawn,
           \A q \in Request : Uploading(q)' => Uploading(q) /\ args'[q].a = args[q].a
    PROVE  \A a \in Asset : Landed(a) => Landed(a)'
BY DEF Landed

LEMMA ReadsFade ==
    ASSUME CatInv, NEW r \in Request,
           Arrive(r) \/ Abandon(r) \/ FindProject(r) \/ FindAsset(r) \/ FindVersion(r) \/ Exists(r)
    PROVE  RowsFade
<1>1. home' = home /\ drawn' = drawn
  <2>1. UNCHANGED tableVars
    <3>1. CASE Arrive(r)
      <4>1. \E x : Send(r, x)
        BY <3>1 DEF Arrive
      <4>2. QED
        BY <4>1 DEF Send
    <3>2. CASE ~Arrive(r)
      BY <3>2 DEF Abandon, FindProject, FindAsset, FindVersion, Exists
    <3>3. QED
      BY <3>1, <3>2
  <2>2. QED
    BY <2>1 DEF tableVars, assetVars, bucketVars
<1>2. OnlyMoves(r) /\ ~Uploading(r)'
  <2>1. CASE Arrive(r)
    <3>1. PICK x : Send(r, x) /\ x.op \in Op
      <4>1. ASSUME NEW u \in User, NEW p \in Project,
                   NEW o \in {"delete_project", "presign", "upload"}
            PROVE  [NoArgs EXCEPT !.op = o, !.u = u, !.p = p].op \in Op
        BY DEF NoArgs, Op
      <4>2. ASSUME NEW u \in User, NEW p \in Project, NEW m \in SUBSET Field
            PROVE  [NoArgs EXCEPT !.op = "update", !.u = u, !.p = p, !.mentions = m].op \in Op
        BY DEF NoArgs, Op
      <4>3. ASSUME NEW u \in User, NEW a \in drawn, NEW o \in {"confirm", "delete_asset"}
            PROVE  [NoArgs EXCEPT !.op = o, !.u = u, !.a = a].op \in Op
        BY DEF NoArgs, Op
      <4>4. ASSUME NEW u \in User, NEW p \in Project, NEW a \in drawn, NEW v \in Version
            PROVE  [NoArgs EXCEPT !.op = "infer", !.u = u, !.p = p, !.a = a, !.v = v].op \in Op
        BY DEF NoArgs, Op
      <4>5. QED
        BY <2>1, <4>1, <4>2, <4>3, <4>4 DEF Arrive
    <3>2. QED
      BY <3>1, Sent DEF CatInv, Uploading
  <2>2. CASE Abandon(r) \/ Exists(r)
    BY <2>2, Ends DEF Abandon, Exists, CatInv, Uploading
  <2>3. ASSUME NEW st \in {"find_project", "find_asset", "find_version"}, At(r, st),
               NEW x, x.op = args[r].op, Goes(r, x)
        PROVE  OnlyMoves(r) /\ ~Uploading(r)'
    <3>1. OnlyMoves(r) /\ args'[r] = x /\ <<x.op, st, Pc(r)'>> \in Order
      BY <2>3, GoesOn DEF CatInv
    <3>2. QED
      BY <3>1 DEF Order, Uploading
  <2>4. CASE FindProject(r)
    <3> DEFINE y == args[r]
               x == IF y.op = "update" THEN [y EXCEPT !.read = fields[y.p]] ELSE y
    <3>1. x.op = y.op
      <4>1. y \in ArgSet
        BY DEF CatInv, Shape
      <4>2. QED
        BY <4>1 DEF ArgSet
    <3>2. At(r, "find_project") /\ Goes(r, x)
      BY <2>4 DEF FindProject
    <3> HIDE DEF x
    <3>3. QED
      BY <2>3, <3>1, <3>2
  <2>5. CASE FindAsset(r) \/ FindVersion(r)
    BY <2>3, <2>5 DEF FindAsset, FindVersion
  <2>6. QED
    BY <2>1, <2>2, <2>4, <2>5
<1>3. QED
  BY <1>1, <1>2, OneMoves DEF RowsFade

LEMMA WritesFade ==
    ASSUME CatInv, NEW r \in Request,
           \/ Update(r) \/ DeleteProject(r) \/ Put(r) \/ InsertAsset(r)
           \/ DeleteAsset(r) \/ DeleteObject(r) \/ InsertJob(r)
    PROVE  RowsFade
<1> USE DEF assetVars, bucketVars
<1>1. CASE Update(r)
  <2>1. home' = home /\ drawn' = drawn
    BY <1>1 DEF Update
  <2>2. /\ todo' = [todo EXCEPT ![r] = <<>>]
        /\ args' = [q \in Request |->
              IF q = r THEN NoArgs
              ELSE [args[q] EXCEPT !.overtaken =
                      @ \/ (q # r /\ args[q].p = args[r].p /\ At(q, "update"))]]
    BY <1>1 DEF Update
  <2>3. ASSUME NEW q \in Request, Uploading(q)' PROVE Uploading(q) /\ args'[q].a = args[q].a
    <3>1. q # r
      BY <2>2, <2>3 DEF Uploading, Pc, CatInv, OnScript
    <3>2. Pc(q)' = Pc(q)
      BY <2>2, <3>1 DEF Pc, CatInv, OnScript
    <3>3. args'[q].op = args[q].op /\ args'[q].a = args[q].a
      <4> DEFINE b == args[q].overtaken \/ (q # r /\ args[q].p = args[r].p /\ At(q, "update"))
      <4>1. args'[q] = [args[q] EXCEPT !.overtaken = b]
        BY <2>2, <3>1
      <4>2. args[q] \in ArgSet /\ b \in BOOLEAN
        BY DEF CatInv, Shape, ArgSet
      <4> HIDE DEF b
      <4>3. QED
        BY <4>1, <4>2, Overtaken
    <3>4. QED
      BY <2>3, <3>2, <3>3 DEF Uploading
  <2>4. QED
    BY <2>1, <2>3, NobodyMoves DEF RowsFade
<1>2. CASE DeleteProject(r) \/ DeleteObject(r) \/ InsertJob(r)
  <2>1. End(r) /\ drawn' = drawn
    BY <1>2 DEF DeleteProject, DeleteObject, InsertJob
  <2>2. \A a \in Asset : home'[a] \in {home[a], NoProject}
    BY <1>2 DEF DeleteProject, DeleteObject, InsertJob
  <2>3. QED
    BY <2>1, <2>2, Ends, OneMoves DEF RowsFade, CatInv, Uploading
<1>3. CASE DeleteAsset(r)
  <2>1. /\ At(r, "delete_asset") /\ Goes(r, args[r]) /\ drawn' = drawn
        /\ home' = [home EXCEPT ![args[r].a] = NoProject]
    BY <1>3 DEF DeleteAsset
  <2>2. OnlyMoves(r) /\ args'[r] = args[r] /\ <<args[r].op, "delete_asset", Pc(r)'>> \in Order
    BY <2>1, GoesOn DEF CatInv
  <2>3. ~Uploading(r)'
    BY <2>2 DEF Order, Uploading
  <2>4. \A a \in Asset : home'[a] \in {home[a], NoProject}
    BY <2>1 DEF CatInv, Shape
  <2>5. QED
    BY <2>1, <2>2, <2>3, <2>4, OneMoves DEF RowsFade
<1>4. CASE Put(r)
  <2>1. PICK b \in Asset \ drawn :
            /\ drawn' = drawn \cup {b} /\ home' = home
            /\ Goes(r, [args[r] EXCEPT !.a = b])
    BY <1>4 DEF Put
  <2>2. OnlyMoves(r) /\ args'[r].a = b
    <3>1. At(r, "put") /\ args[r] \in ArgSet
      BY <1>4 DEF Put, CatInv, Shape
    <3>2. [args[r] EXCEPT !.a = b].op = args[r].op /\ [args[r] EXCEPT !.a = b].a = b
      BY <3>1 DEF ArgSet
    <3>3. QED
      BY <2>1, <3>1, <3>2, GoesOn DEF CatInv
  <2>3. IsFiniteSet(drawn) => IsFiniteSet(drawn')
    BY <2>1, FS_AddElement
  <2>4. QED
    BY <2>1, <2>2, <2>3, OneMoves DEF RowsFade
<1>5. CASE InsertAsset(r)
  <2>1. PICK b \in Asset, p \in Project :
            home' = [home EXCEPT ![b] = p] /\ drawn' = drawn \cup {b} /\ ~Landed(b)
    BY <1>5, InsertAssetEffect
  <2>2. OnlyMoves(r) /\ ~Uploading(r)'
    BY <1>5, InsertAssetEffect, Ends DEF CatInv, Uploading
  <2>3. IsFiniteSet(drawn) => IsFiniteSet(drawn')
    BY <2>1, FS_AddElement
  <2>4. \A a \in Asset : Landed(a) => home'[a] = home[a]
    BY <2>1 DEF CatInv, Shape
  <2>5. QED
    BY <2>1, <2>2, <2>3, <2>4, OneMoves DEF RowsFade
<1>6. QED
  BY <1>1, <1>2, <1>3, <1>4, <1>5

LEMMA TablesFade ==
    ASSUME CatInv, CatNext
    PROVE  RowsFade
<1>1. ASSUME NEW r \in Request, Handle(r) PROVE RowsFade
  BY <1>1, ReadsFade, WritesFade DEF Handle
<1>2. ASSUME NEW u \in User, CreateProject(u) PROVE RowsFade
  <2>1. UNCHANGED <<home, drawn, todo, args>>
    BY <1>2 DEF CreateProject, assetVars, bucketVars, requestVars
  <2>2. QED
    BY <2>1 DEF RowsFade, Landed, Uploading, Pc
<1>3. ASSUME NEW v \in Version, SetStatus(v) PROVE RowsFade
  <2>1. UNCHANGED <<home, drawn, todo, args>>
    BY <1>3 DEF SetStatus, assetVars, bucketVars, requestVars
  <2>2. QED
    BY <2>1 DEF RowsFade, Landed, Uploading, Pc
<1>4. ASSUME NEW b \in Asset, ClientPut(b) \/ UrlLapses(b) PROVE RowsFade
  <2>1. UNCHANGED <<home, drawn, todo, args>>
    BY <1>4 DEF ClientPut, UrlLapses, assetVars, requestVars
  <2>2. QED
    BY <2>1 DEF RowsFade, Landed, Uploading, Pc
<1>5. QED
  BY <1>1, <1>2, <1>3, <1>4 DEF CatNext
-----------------------------------------------------------------------------
(* Listings.                                                               *)

Rows(p, c) == {a \in RowsOf(p) : Below(a, c)}

\* A page takes the newest rows below the cursor; the next cursor is its last row, or
\* there is no other row.
LEMMA PageIsTop ==
    ASSUME NEW p, NEW c, IsFiniteSet(RowsOf(p))
    PROVE  /\ Page(p, c) \subseteq Rows(p, c)
           /\ HasMore(p, c) =>
                /\ NextCursor(p, c) \in Page(p, c)
                /\ \A a \in Page(p, c) : NextCursor(p, c) <= a
                /\ \A a \in Rows(p, c) : a >= NextCursor(p, c) => a \in Page(p, c)
           /\ ~HasMore(p, c) => Page(p, c) = Rows(p, c) /\ NextCursor(p, c) = NoAsset
<1> DEFINE S == Rows(p, c)
           F == Fetched(p, c)
           P == Newest(F, PageLimit)
<1>1. PageLimit \in Nat \ {0} /\ PageLimit + 1 \in Nat /\ PageLimit - 1 \in Nat
      /\ PageLimit - 1 + 1 = PageLimit
  BY PageAssumption
<1>2. IsFiniteSet(S) /\ \A a \in S : a \in Nat
  BY IdAssumption, FS_Subset DEF Rows, RowsOf
<1>3. F = Newest(S, PageLimit + 1)
  BY DEF Fetched, Rows
<1> HIDE DEF S, F, P
<1>4. F \subseteq S /\ \A a \in F, b \in S : b > a => b \in F
  BY <1>1, <1>2, <1>3, NewestIsTop
<1>5. IsFiniteSet(F) /\ \A a \in F : a \in Nat
  BY <1>2, <1>4, FS_Subset
<1>6. P \subseteq F /\ \A a \in P, b \in F : b > a => b \in P
  BY <1>1, <1>5, NewestIsTop DEF P
<1>7. CASE HasMore(p, c)
  <2>1. Page(p, c) = P /\ NextCursor(p, c) = Oldest(P) /\ Cardinality(F) > PageLimit
    BY <1>7 DEF Page, NextCursor, HasMore, F, P
  <2>2. P # {}
    <3>1. ASSUME P = {} PROVE FALSE
      <4>1. Cardinality(P) = 0
        BY <3>1, FS_EmptySet
      <4>2. Newest(F, PageLimit - 1 + 1) = P
        BY <1>1 DEF P
      <4>3. P = F
        BY <1>1, <1>5, <4>1, <4>2, NewestIsAll
      <4>4. QED
        BY <1>1, <2>1, <4>1, <4>3
    <3>2. QED
      BY <3>1
  <2>3. IsFiniteSet(P) /\ \A a \in P : a \in Nat
    BY <1>5, <1>6, FS_Subset
  <2>4. Oldest(P) \in P /\ \A b \in P : Oldest(P) <= b
    BY <2>2, <2>3, OldestIsLeast
  <2>5. ASSUME NEW a \in S, a >= Oldest(P) PROVE a \in P
    <3>1. a \in Nat /\ Oldest(P) \in Nat /\ Oldest(P) \in F
      BY <1>2, <1>6, <2>3, <2>4
    <3>2. a = Oldest(P) \/ a > Oldest(P)
      BY <2>5, <3>1
    <3>3. QED
      BY <1>4, <1>6, <2>4, <3>1, <3>2
  <2>6. QED
    BY <1>4, <1>6, <1>7, <2>1, <2>4, <2>5 DEF S
<1>8. CASE ~HasMore(p, c)
  <2>1. Page(p, c) = F /\ NextCursor(p, c) = NoAsset /\ ~(Cardinality(F) > PageLimit)
    BY <1>8 DEF Page, NextCursor, HasMore, F
  <2>2. F = S
    BY <1>1, <1>2, <1>3, <2>1, NewestIsAll
  <2>3. QED
    BY <1>8, <2>1, <2>2 DEF S
<1>9. QED
  BY <1>7, <1>8

\* Everything listed is at or above the cursor, and what was there all the time and is
\* at or above it was listed, until the cursor's row is gone.
PagerInv ==
    /\ paging \in Project \cup {NoProject} /\ cursor \in Asset \cup {NoAsset}
    /\ page \cup seen \cup start \subseteq Asset
    /\ ended \in BOOLEAN /\ cut \in BOOLEAN
    /\ IsFiniteSet(drawn)
    /\ \A a \in start : Landed(a)
    /\ paging = NoProject => page = {} /\ seen = {} /\ cursor = NoAsset /\ ~ended /\ ~cut
    /\ \A a \in page, b \in seen : a < b
    /\ IF cursor = NoAsset THEN ~ended => page = {} /\ seen = {} /\ ~cut
       ELSE /\ ~ended /\ \A a \in page \cup seen : cursor <= a
            /\ ~cut => \A a \in start \cap RowsOf(paging) : cursor <= a => a \in seen \cup page
    /\ ended /\ ~cut => start \cap RowsOf(paging) \subseteq seen \cup page

ListInv == CatInv /\ PagerInv

\* No step of the tables adds a row that was there when the listing began.
LEMMA PagerFades ==
    ASSUME ListInv, RowsFade, UNCHANGED pagerVars
    PROVE  PagerInv'
<1>1. \A a \in start : a \in Asset /\ Landed(a)' /\ home'[a] \in {home[a], NoProject}
  BY DEF ListInv, PagerInv, RowsFade
<1>2. paging # NoProject => start \cap RowsOf(paging)' \subseteq start \cap RowsOf(paging)
  BY <1>1 DEF RowsOf, pagerVars
<1>3. /\ paging' = paging /\ cursor' = cursor /\ ended' = ended /\ page' = page
      /\ seen' = seen /\ start' = start /\ cut' = cut
  BY DEF pagerVars
<1>4. IsFiniteSet(drawn')
  BY DEF ListInv, PagerInv, RowsFade
<1>5. QED
  BY <1>1, <1>2, <1>3, <1>4 DEF ListInv, PagerInv, RowsOf

LEMMA ListFirstKeeps ==
    ASSUME ListInv, ListFirst, CatInv'
    PROVE  PagerInv'
<1>1. PICK p \in Project : paging' = p /\ start' = RowsOf(p)
  BY DEF ListFirst
<1>2. UNCHANGED <<cursor, ended, page, seen, cut, catVars>> /\ paging = NoProject
  BY DEF ListFirst
<1>3. \A a \in RowsOf(p) : a \in Asset /\ Landed(a)
  <2>1. ASSUME NEW a \in RowsOf(p) PROVE a \in Asset /\ Landed(a)
    <3>1. a \in Asset /\ HasRow(a) /\ a \in drawn
      BY IdAssumption DEF RowsOf, HasRow, ListInv, CatInv, RowsRefer
    <3>2. \A r \in Request : Uploading(r) => args[r].a # a
      BY <3>1 DEF ListInv, CatInv, Requests, Checked
    <3>3. QED
      BY <3>1, <3>2 DEF Landed
  <2>2. QED
    BY <2>1
<1>4. \A a : Landed(a)' = Landed(a)
  BY <1>2 DEF Landed, Uploading, Pc, catVars, tableVars, bucketVars, requestVars
<1>5. drawn' = drawn
  BY <1>2 DEF catVars, tableVars, bucketVars
<1>6. QED
  BY <1>1, <1>2, <1>3, <1>4, <1>5, IdAssumption DEF ListInv, PagerInv

LEMMA ListNextKeeps ==
    ASSUME ListInv, ListNext
    PROVE  PagerInv'
<1> DEFINE S == Rows(paging, cursor)
           P == Page(paging, cursor)
           n == NextCursor(paging, cursor)
           more == HasMore(paging, cursor)
<1>1. /\ paging # NoProject /\ ~ended
      /\ seen' = seen \cup page /\ page' = P /\ ended' = ~more /\ cursor' = n
      /\ cut' = (cut \/ (cursor # NoAsset /\ ~HasRow(cursor)))
      /\ UNCHANGED <<paging, start, catVars>>
  BY DEF ListNext
<1>2. RowsOf(paging) \subseteq drawn
  BY IdAssumption, <1>1 DEF RowsOf, HasRow, ListInv, CatInv, RowsRefer
<1>3. IsFiniteSet(RowsOf(paging)) /\ drawn \subseteq Asset /\ S \subseteq RowsOf(paging)
  BY <1>2, FS_Subset DEF ListInv, PagerInv, CatInv, Shape, Rows
<1>4. /\ P \subseteq S
      /\ more => /\ n \in P /\ \A a \in P : n <= a
                 /\ \A a \in S : a >= n => a \in P
      /\ ~more => P = S /\ n = NoAsset
  BY <1>3, PageIsTop
<1>5. /\ home' = home /\ drawn' = drawn /\ RowsOf(paging)' = RowsOf(paging)
      /\ \A a : Landed(a)' = Landed(a)
  BY <1>1 DEF Landed, Uploading, Pc, catVars, tableVars, assetVars, bucketVars, requestVars, RowsOf
<1>6. cut' \in BOOLEAN /\ ended' \in BOOLEAN
  BY <1>1 DEF ListInv, PagerInv
<1>7. S = IF cursor = NoAsset THEN RowsOf(paging)
          ELSE IF HasRow(cursor) THEN {a \in RowsOf(paging) : a < cursor} ELSE {}
  BY DEF Rows, Below
<1> HIDE DEF S, P, n, more
<1>8. Asset \subseteq Nat /\ NoAsset \notin Asset
  BY IdAssumption
<1>9. P \subseteq Asset /\ P \subseteq RowsOf(paging) /\ (more => n \in Asset)
  BY <1>2, <1>3, <1>4
<1>10. \A a \in P, b \in seen \cup page : a < b
  <2>1. CASE cursor = NoAsset
    BY <1>1, <2>1 DEF ListInv, PagerInv
  <2>2. CASE cursor # NoAsset
    <3>1. cursor \in Asset /\ \A b \in page \cup seen : cursor <= b /\ b \in Asset
      BY <2>2 DEF ListInv, PagerInv
    <3>2. \A a \in P : a < cursor /\ a \in Asset
      BY <1>4, <1>7, <1>9, <2>2
    <3>3. cursor \in Nat /\ (\A b \in page \cup seen : b \in Nat) /\ \A a \in P : a \in Nat
      BY <1>8, <3>1, <3>2
    <3>4. QED
      BY <3>1, <3>2, <3>3
  <2>3. QED
    BY <2>1, <2>2
<1>11. ~cut' => \A a \in start \cap RowsOf(paging) : a \in S \/ a \in seen \cup page
  <2>1. SUFFICES ASSUME ~cut', NEW a \in start \cap RowsOf(paging), a \notin S
                 PROVE  a \in seen \cup page
    OBVIOUS
  <2>2. cursor # NoAsset /\ HasRow(cursor) /\ ~(a < cursor) /\ ~cut
    BY <1>1, <1>7, <2>1
  <2>3. a \in Nat /\ cursor \in Nat
    BY <1>2, <1>3, <1>8, <2>2 DEF ListInv, PagerInv
  <2>4. cursor <= a
    BY <2>2, <2>3
  <2>5. QED
    BY <2>2, <2>4 DEF ListInv, PagerInv
<1>12. CASE more
  <2>1. \A a \in P \cup (seen \cup page) : n <= a
    <3>1. \A b \in seen \cup page : b \in Asset
      BY DEF ListInv, PagerInv
    <3>2. \A b \in seen \cup page : n < b /\ b \in Nat /\ n \in Nat
      BY <1>4, <1>8, <1>9, <1>10, <1>12, <3>1
    <3>3. \A b \in seen \cup page : n <= b
      BY <3>2
    <3>4. QED
      BY <1>4, <1>12, <3>3
  <2>2. ~cut' => \A a \in start \cap RowsOf(paging) : n <= a => a \in (seen \cup page) \cup P
    <3>1. SUFFICES ASSUME ~cut', NEW a \in start \cap RowsOf(paging), n <= a
                   PROVE  a \in (seen \cup page) \cup P
      OBVIOUS
    <3>2. a \in S => a >= n
      BY <1>2, <1>3, <1>8, <1>9, <1>12, <3>1
    <3>3. QED
      BY <1>4, <1>11, <1>12, <3>1, <3>2
  <2>3. cursor' = n /\ n \in Asset /\ n # NoAsset /\ ~ended'
    BY <1>1, <1>8, <1>9, <1>12
  <2>4. QED
    BY <1>1, <1>5, <1>6, <1>8, <1>9, <1>10, <2>1, <2>2, <2>3 DEF ListInv, PagerInv
<1>13. CASE ~more
  <2>1. cursor' = NoAsset /\ ended' /\ page' = S
    BY <1>1, <1>4, <1>13
  <2>2. ~cut' => start \cap RowsOf(paging) \subseteq (seen \cup page) \cup S
    BY <1>11
  <2>3. P = S
    BY <1>4, <1>13
  <2>4. QED
    BY <1>1, <1>5, <1>6, <1>8, <1>9, <1>10, <2>1, <2>2, <2>3 DEF ListInv, PagerInv
<1>14. QED
  BY <1>12, <1>13

LEMMA ListOverKeeps ==
    ASSUME ListInv, ListOver
    PROVE  PagerInv'
<1>1. drawn' = drawn
  BY DEF ListOver, catVars, tableVars, bucketVars
<1>2. QED
  BY <1>1, IdAssumption DEF ListOver, ListInv, PagerInv

LEMMA ListInvariant == Spec => []ListInv
<1>1. Init => ListInv
  <2>1. Init => PagerInv
    BY FS_EmptySet, IdAssumption DEF Init, CatInit, PagerInv
  <2>2. QED
    BY <2>1, CatInitHolds DEF Init, ListInv
<1>2. ListInv /\ [Next]_vars => ListInv'
  <2>1. SUFFICES ASSUME ListInv, [Next]_vars PROVE ListInv'
    OBVIOUS
  <2>2. CatInv'
    BY <2>1, CatNextKeeps, CatStutters DEF ListInv, Next, ListFirst, ListNext, ListOver, vars
  <2>3. CASE CatNext /\ UNCHANGED pagerVars
    BY <2>1, <2>2, <2>3, TablesFade, PagerFades DEF ListInv
  <2>4. CASE ListFirst
    BY <2>1, <2>2, <2>4, ListFirstKeeps DEF ListInv
  <2>5. CASE ListNext
    BY <2>1, <2>2, <2>5, ListNextKeeps DEF ListInv
  <2>6. CASE ListOver
    BY <2>1, <2>2, <2>6, ListOverKeeps DEF ListInv
  <2>7. CASE UNCHANGED vars
    <3>1. RowsFade
      BY <2>7 DEF vars, catVars, tableVars, assetVars, bucketVars, requestVars, RowsFade, Landed,
                  Uploading, Pc
    <3>2. QED
      BY <2>1, <2>2, <2>7, <3>1, PagerFades DEF ListInv, vars
  <2>8. QED
    BY <2>1, <2>3, <2>4, <2>5, <2>6, <2>7 DEF Next
<1>3. QED
  BY <1>1, <1>2, PTL DEF Spec

\* However many rows come and go between the pages: a page lies below the ones before
\* it, and the listing that ends with every cursor's row still there has named every
\* row that was there throughout (repository.go:520-558), for every page limit.
THEOREM ListingMissesNothing == Spec => []ListingIsExact
<1>1. ListInv => ListingIsExact
  BY DEF ListInv, PagerInv, ListingIsExact
<1>2. QED
  BY ListInvariant, <1>1, PTL

\* The foreign keys hold between any two statements, and what a request still has to
\* run is an end of its script.
THEOREM CatalogueTypes == Spec => []TypeOK
<1>1. ListInv => TypeOK
  <2> SUFFICES ASSUME ListInv PROVE TypeOK
    OBVIOUS
  <2>2. home \in [Asset -> {p \in Project : Live(p)} \cup {NoProject}]
    BY DEF ListInv, CatInv, Shape, RowsRefer, HasRow
  <2>3. \A a \in Asset : IF HasRow(a) THEN uploader[a] \in User ELSE uploader[a] = NoUser
    BY DEF ListInv, CatInv, Shape, RowsRefer, Live
  <2>4. input \in [Job -> {a \in Asset : HasRow(a)} \cup {NoAsset}]
    BY DEF ListInv, CatInv, Shape, RowsRefer
  <2>5. jobProject \in [Job -> {p \in Project : Live(p)} \cup {NoProject}]
    BY <2>4 DEF ListInv, CatInv, Shape, RowsRefer, HasRow
  <2>6. {a \in Asset : HasRow(a)} \cup objects \cup signed \cup stored \subseteq drawn
    BY DEF ListInv, CatInv, Shape, RowsRefer
  <2>7. \A r \in Request :
          LET s == Script(args[r].op) IN \E n \in 1..(Len(s) + 1) : todo[r] = SubSeq(s, n, Len(s))
    BY DEF ListInv, CatInv, OnScript
  <2>8. CatTypeOK
    BY <2>2, <2>3, <2>4, <2>5, <2>6, <2>7 DEF CatTypeOK, ListInv, CatInv, Shape
  <2>9. QED
    BY <2>8 DEF TypeOK, ListInv, PagerInv
<1>2. QED
  BY ListInvariant, <1>1, PTL
=============================================================================
