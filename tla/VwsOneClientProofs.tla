------------------------- MODULE VwsOneClientProofs -------------------------
(***************************************************************************)
(* Theorems about VwsService with one client, which waits for each answer, *)
(* and no call that was given up: it implements CloudTargetContract, and   *)
(* keeps quotas and names.                                                 *)
(***************************************************************************)
EXTENDS VwsServiceProofs

\* Nobody but the client sends requests.
Alone == Workers = {client} /\ Lines = {}

ClientStep == ServiceNext /\ (request[client] # None => UNCHANGED databases)

req == request[client]

\* The database admits what the client asks for.
Admits(db) == db \in Matching(req.db) /\ Refusal(req, db) = ""

\* The target which the client asks for, and that its status allows it.
Asked(db, t) == t \in Stored(db) /\ t.target_id = req.target_id

Allowed(t) ==
    IF req.op = "delete" THEN Status(t, clock) # "processing"
    ELSE Status(t, clock) = "success"

\* What the client's worker found out at an earlier place still holds: with one
\* client nothing but time passes between its two copies and its call.
UpToDate ==
    /\ pc[client] = "fetch" => \E db \in Matching(req.db) : Refusal(req, db) = ""
    /\ pc[client] = "decide" =>
          \E db \in Matching(req.db) :
             /\ Refusal(req, db) = "" /\ Asked(db, seen[client].target)
             /\ seen[client].database = DatabaseName[db]
    /\ pc[client] = "call" =>
          \E db \in Matching(req.db) :
             /\ Refusal(req, db) = "" /\ call[client].database = DatabaseName[db]
             /\ req.op = "add" => /\ call[client].name = req.name
                                  /\ call[client].image = req.image
             /\ req.op # "add" => \E t : Asked(db, t) /\ Allowed(t)
             /\ req.op = "update" => /\ req.change # NullFlag
                                     /\ call[client].change = req.change

Orderly ==
    /\ ServiceTyped /\ IdsKept /\ FiniteTargets
    /\ NamesUnique /\ QuotaRespected /\ UpToDate

LEMMA OrderlyParts ==
    ASSUME Alone, Orderly
    PROVE  /\ Shapes /\ WorkerTyped(client) /\ client \in Workers
           /\ Managed /\ TypeOK /\ CredentialsUnique /\ TargetIdsUnique /\ CallIds
           /\ IdsKept /\ FiniteTargets /\ NamesUnique /\ QuotaRespected /\ UpToDate
           /\ clock \in Nat /\ clock # NoDate
  BY DatabasesAssumption, TargetsAssumption
     DEF Alone, Orderly, ServiceTyped, Managed, TypeOK, IdsKept

-----------------------------------------------------------------------------
\* The words of the contract and those of the service.
LEMMA SameWords ==
    /\ \A db : Contract!Live(db) = Stored(db)
    /\ \A S, id : Contract!WithId(S, id) = WithId(S, id)
    /\ \A S, t, u : Contract!Replace(S, t, u) = Replace(S, t, u)
    /\ \A t, now : Contract!Status(t, now) = Status(t, now)
    /\ \A id, name, image, modified, uploaded :
          Contract!NewTarget(id, name, image, modified, uploaded)
             = NewTarget(id, name, image, modified, uploaded)
    /\ \A given, current : Contract!New(given, current) = Given(given, current)
    /\ Contract!Accessed = Matching(req.db)
  BY DEF Contract!Live, Contract!NotDeleted, Stored, NotDeleted, Contract!WithId, WithId,
         Contract!Replace, Replace, Contract!Status, Status, Contract!NewTarget, NewTarget,
         Contract!New, Given, Contract!Accessed, Contract!SameKeys, Matching, HasKeysOf, req

\* Its databases are told apart by their keys, and by their names.
LEMMA OneDatabase ==
    ASSUME Managed, NEW db, NEW a \in Matching(db), NEW b \in cloud_databases
    PROVE  /\ a \in cloud_databases /\ a \in CloudDatabases
           /\ Named(cloud_databases, DatabaseName[a]) = {a}
           /\ b \in Matching(db) \/ DatabaseName[b] = DatabaseName[a] => b = a
<1>1. TypeOK /\ CredentialsUnique /\ a \in cloud_databases
  BY DEF Managed, Matching
<1>2. \A c \in cloud_databases : DatabaseName[c] = DatabaseName[a] => c = a
  BY <1>1 DEF CredentialsUnique, SharesServerIdentity
<1>3. b \in Matching(db) => b = a
  BY <1>1 DEF CredentialsUnique, SharesServerIdentity, Matching, HasKeysOf
<1>4. QED
  BY <1>1, <1>2, <1>3 DEF Named, TypeOK

\* The names the validators refuse are those that others have.
LEMMA NamesRefused ==
    ASSUME TypeOK, TargetIdsUnique, FiniteTargets, NamesUnique,
           NEW db \in cloud_databases, NEW id, NEW name \in Names \cup {Absent}
    PROVE  /\ NameRefusal(targets[db], id, name) \in {"", "TargetNameExist"}
           /\ NameRefusal(targets[db], id, name) = "" <=> ~Contract!TakenByOther(db, id, name)
<1>0. /\ SameName(targets[db], name) = {t \in Stored(db) : t.name = name}
      /\ Contract!TakenByOther(db, id, name) <=>
            \E t \in Stored(db) : t.name = name /\ t.target_id # id
      /\ db \in CloudDatabases
  BY SameWords DEF SameName, Stored, Contract!TakenByOther, TypeOK
<1>1. CASE SameName(targets[db], name) = {}
  BY <1>0, <1>1 DEF NameRefusal
<1>2. CASE name = Absent
  <2>1. \A t \in Stored(db) : t.name # name
    BY <1>0, <1>2, TargetsAssumption DEF TypeOK, Stored, NotDeleted, ImageTarget
  <2>2. QED
    BY <1>0, <1>1, <2>1
<1>3. ASSUME NEW t \in SameName(targets[db], name), name # Absent
      PROVE  /\ NameRefusal(targets[db], id, name) \in {"", "TargetNameExist"}
             /\ NameRefusal(targets[db], id, name) = ""
                  <=> ~Contract!TakenByOther(db, id, name)
  <2>1. SameName(targets[db], name) = {t}
    BY <1>0, <1>3 DEF NamesUnique
  <2>2. ~(Cardinality({t}) > 1) /\ {t} # {}
    BY FS_Singleton
  <2>3. WithId({t}, id) = {} <=> t.target_id # id
    BY DEF WithId
  <2>4. Contract!TakenByOther(db, id, name) <=> t.target_id # id
    BY <1>0, <2>1
  <2>5. NameRefusal(targets[db], id, name) =
          IF WithId({t}, id) = {} THEN "TargetNameExist" ELSE ""
    BY <1>3, <2>1, <2>2 DEF NameRefusal
  <2>6. QED
    BY <2>3, <2>4, <2>5
<1>4. QED
  BY <1>1, <1>2, <1>3

-----------------------------------------------------------------------------
\* A step of the worker from one place to another, as the client sees it.
LEMMA AsksUntilAnswered ==
    ASSUME Alone, Orderly, pc[client] \notin {"idle", "answer"}
    PROVE  req \in Request /\ request[client] = req /\ req # None /\ answer[client] = None
  BY OrderlyParts, NoneAssumption DEF WorkerTyped, req

LEMMA SeenByClient ==
    ASSUME Alone, Shapes, NEW p, NEW r, NEW s, NEW c, NEW a,
           Becomes(client, p, r, s, c, a)
    PROVE  /\ pc'[client] = p /\ request'[client] = r /\ seen'[client] = s
           /\ call'[client] = c /\ answer'[client] = a
  BY BecomesFacts DEF Alone

\* Steps which the client does not notice.
LEMMA Stutters ==
    ASSUME UNCHANGED manager, request'[client] = request[client],
           answer'[client] = answer[client]
    PROVE  UNCHANGED Contract!vars
  BY DEF manager, databases, Contract!vars

LEMMA Replies ==
    ASSUME NEW code, NEW body, UNCHANGED <<clock, cloud_databases>>,
           request'[client] = request[client],
           answer'[client] = Response(code, body)
    PROVE  Contract!Reply(code, body)
  BY DEF Contract!Reply, Response

LEMMA Refuses ==
    ASSUME NEW code, UNCHANGED manager, request'[client] = request[client],
           answer'[client] = Response(code, None)
    PROVE  Contract!Refuse(code)
  BY Replies DEF Contract!Refuse, manager, databases

LEMMA ReceiveImplements ==
    ASSUME Alone, Orderly, Receive(client)
    PROVE  Contract!Next
<1>1. PICK r \in Request :
        /\ pc[client] = "idle"
        /\ Becomes(client, "validate", r, seen[client], call[client], answer[client])
        /\ UNCHANGED manager
  BY OrderlyParts, ReceiveEffect
<1>2. /\ request[client] = None
      /\ request'[client] = r /\ answer'[client] = answer[client]
  BY <1>1, OrderlyParts, SeenByClient DEF WorkerTyped
<1>3. r \in Contract!Request
  BY DEF Request, Contract!Request
<1>4. Contract!Ask(r)
  BY <1>1, <1>2 DEF Contract!Ask, Contract!state, manager, databases
<1>5. QED
  BY <1>3, <1>4 DEF Contract!Next

\* What the validators refuse is what the contract refuses, for one reason.
LEMMA RefusedByContract ==
    ASSUME Alone, Orderly, pc[client] = "validate", NEW db \in Matching(req.db),
           Refusal(req, db) # "", Contract!Refuse(Refusal(req, db))
    PROVE  Contract!Next
<1>0. /\ req \in Request /\ request[client] = req /\ req # None /\ answer[client] = None
      /\ db \in Contract!Accessed /\ db \in cloud_databases /\ db \in CloudDatabases
      /\ Contract!Live(db) = Stored(db) /\ Stored(db) = NotDeleted(targets[db])
  BY AsksUntilAnswered, SameWords, OneDatabase, OrderlyParts DEF Matching, Stored
<1>1. CASE req.op = "add"
  <2>1. Refusal(req, db) = AddRefusal(targets[db], TargetQuota[db], req.name)
    BY <1>1 DEF Refusal
  <2>2. /\ Contract!Full(db) <=> Cardinality(Stored(db)) >= TargetQuota[db]
        /\ Contract!Taken(db, req.name) <=> SameName(targets[db], req.name) # {}
    <3>1. Contract!Full(db) <=> Cardinality(Stored(db)) >= TargetQuota[db]
      BY <1>0 DEF Contract!Full, Contract!Cardinality, Cardinality
    <3>2. Contract!Taken(db, req.name) <=> \E t \in Stored(db) : t.name = req.name
      BY <1>0 DEF Contract!Taken
    <3>3. SameName(targets[db], req.name) = {t \in Stored(db) : t.name = req.name}
      BY <1>0 DEF SameName
    <3>4. QED
      BY <3>1, <3>2, <3>3
  <2>3. \/ Contract!Full(db) /\ Refusal(req, db) = "TargetQuotaReached"
        \/ /\ ~Contract!Full(db) /\ Contract!Taken(db, req.name)
           /\ Refusal(req, db) = "TargetNameExist"
    BY <1>0, <2>1, <2>2 DEF AddRefusal
  <2>4. Contract!RefuseAdd
    BY <1>0, <1>1, <2>3 DEF Contract!RefuseAdd, Contract!Waiting
  <2>5. QED
    BY <2>4 DEF Contract!Next
<1>2. CASE req.op # "add" /\ WithId(Stored(db), req.target_id) = {}
  <2>1. Refusal(req, db) = "UnknownTarget"
    BY <1>2 DEF Refusal
  <2>2. Contract!WithId(Contract!Live(db), req.target_id) = {}
    BY <1>0, <1>2, SameWords
  <2>3. Contract!RefuseUnknown
    BY <1>0, <1>2, <2>1, <2>2 DEF Contract!RefuseUnknown
  <2>4. QED
    BY <2>3 DEF Contract!Next
<1>3. CASE req.op # "add" /\ WithId(Stored(db), req.target_id) # {}
  <2>1. /\ req.op = "update" /\ req.change # NullFlag
        /\ Refusal(req, db) = NameRefusal(targets[db], req.target_id, req.change.name)
    BY <1>3 DEF Refusal
  <2>2. req.change.name \in Names \cup {Absent}
    <3>1. req.change \in Change
      BY <1>0, <2>1, OfRequest, WorkersAssumption
    <3>2. QED
      BY <3>1 DEF Change
  <2>3. /\ Refusal(req, db) = "TargetNameExist"
        /\ Contract!TakenByOther(db, req.target_id, req.change.name)
    BY <1>0, <2>1, <2>2, NamesRefused, OrderlyParts
  <2>4. PICK t : t \in Contract!WithId(Contract!Live(db), req.target_id)
    BY <1>0, <1>3, SameWords
  <2>5. Contract!RefuseUpdate
    BY <1>0, <2>1, <2>3, <2>4 DEF Contract!RefuseUpdate, Contract!Waiting
  <2>6. QED
    BY <2>5 DEF Contract!Next
<1>4. QED
  BY <1>1, <1>2, <1>3

LEMMA ValidateImplements ==
    ASSUME Alone, Orderly, Validate(client)
    PROVE  Contract!Next \/ UNCHANGED Contract!vars
<1>0. /\ pc[client] = "validate" /\ req \in Request /\ request[client] = req
      /\ req # None /\ answer[client] = None /\ UNCHANGED manager /\ Shapes
  BY OrderlyParts, ValidateEffect, AsksUntilAnswered
<1>1. CASE \/ /\ \A other \in cloud_databases :
                    ServerAccessKey[other] # ServerAccessKey[req.db]
              /\ Respond(client, "Fail", None)
           \/ /\ \E other \in cloud_databases :
                    ServerAccessKey[other] = ServerAccessKey[req.db]
              /\ Matching(req.db) = {}
              /\ Respond(client, "AuthenticationFailure", None)
  <2>1. PICK code \in {"Fail", "AuthenticationFailure"} :
          /\ Respond(client, code, None)
          /\ code = IF \E other \in cloud_databases :
                          ServerAccessKey[other] = ServerAccessKey[req.db]
                    THEN "AuthenticationFailure" ELSE "Fail"
    BY <1>1
  <2>2. answer'[client] = Response(code, None) /\ request'[client] = request[client]
    BY <1>0, <2>1, OrderlyParts DEF Respond, Response, Shapes, Validate
  <2>3. Contract!Refuse(code)
    BY <1>0, <2>2, Refuses
  <2>4. Contract!Accessed = {}
    BY <1>1, SameWords DEF Matching, HasKeysOf
  <2>5. Contract!RefuseAccess
    BY <1>0, <2>1, <2>3, <2>4 DEF Contract!RefuseAccess
  <2>6. QED
    BY <2>5 DEF Contract!Next
<1>2. ASSUME NEW db \in Matching(req.db),
             IF Refusal(req, db) = ""
             THEN GoTo(client, "fetch") /\ UNCHANGED answer
             ELSE Respond(client, Refusal(req, db), None)
      PROVE  Contract!Next \/ UNCHANGED Contract!vars
  <2>1. request'[client] = request[client]
    BY DEF Validate
  <2>2. CASE Refusal(req, db) = ""
    BY <1>0, <1>2, <2>1, <2>2, Stutters
  <2>3. CASE Refusal(req, db) # ""
    <3>1. answer'[client] = Response(Refusal(req, db), None)
      BY <1>0, <1>2, <2>3, OrderlyParts DEF Respond, Response, Shapes
    <3>2. Contract!Refuse(Refusal(req, db))
      BY <1>0, <2>1, <3>1, Refuses
    <3>3. QED
      BY <1>0, <2>3, <3>2, RefusedByContract
  <2>4. QED
    BY <2>2, <2>3
<1>3. QED
  BY <1>1, <1>2 DEF Validate, req

\* The database that admits the request is the one its worker finds.
LEMMA StillFound ==
    ASSUME Alone, Orderly, NEW db \in Matching(req.db), Refusal(req, db) = "",
           req.op # "add"
    PROVE  \E t \in Stored(db) : /\ t.target_id = req.target_id /\ t \in targets[db]
                                 /\ WithId(targets[db], req.target_id) = {t}
<1>1. WithId(Stored(db), req.target_id) # {}
  BY DEF Refusal
<1>2. PICK t \in Stored(db) : t.target_id = req.target_id
  BY <1>1 DEF WithId
<1>3. t \in targets[db] /\ db \in CloudDatabases
  BY OrderlyParts, MatchingDatabases DEF Stored, NotDeleted
<1>4. WithId(targets[db], t.target_id) = {t}
  BY <1>3, FoundByName, OrderlyParts
<1>5. QED
  BY <1>2, <1>3, <1>4

LEMMA FetchAlwaysFinds ==
    ASSUME Alone, Orderly
    PROVE  ~FetchFails(client)
<1>1. ASSUME FetchFails(client) PROVE FALSE
  <2>1. PICK db \in Matching(req.db) : Refusal(req, db) = ""
    BY <1>1, OrderlyParts DEF FetchFails, UpToDate
  <2>2. CASE req.op = "add"
    BY <1>1, <2>1, <2>2 DEF FetchFails, req
  <2>3. CASE req.op # "add"
    <3>1. PICK other \in Matching(req.db) : \A t \in targets[other] :
            WithId(targets[other], req.target_id) # {t}
      BY <1>1, <2>1 DEF FetchFails, req
    <3>2. other = db
      BY <2>1, <3>1, OneDatabase, OrderlyParts, MatchingDatabases
    <3>3. QED
      BY <2>1, <2>3, <3>1, <3>2, StillFound
  <2>4. QED
    BY <2>2, <2>3
<1>2. QED
  BY <1>1

LEMMA FetchTargetFinds ==
    ASSUME Alone, Orderly, FetchTarget(client)
    PROVE  /\ pc[client] = "fetch" /\ req.op # "add" /\ UNCHANGED <<manager, issued, late>>
           /\ \E db \in Matching(req.db) : \E t \in Stored(db) :
                /\ Refusal(req, db) = "" /\ Asked(db, t)
                /\ IF req.op = "get"
                   THEN Becomes(client, "answer", req, seen[client], call[client],
                                Response("Success", t))
                   ELSE Becomes(client, "decide", req,
                                [database |-> DatabaseName[db], target |-> t],
                                call[client], answer[client])
<1>1. /\ pc[client] = "fetch" /\ req.op # "add" /\ UNCHANGED <<manager, issued, late>>
  BY FetchTargetEffect, OrderlyParts DEF req
<1>2. PICK db \in Matching(req.db) : \E t \in targets[db] :
        /\ WithId(targets[db], req.target_id) = {t}
        /\ IF req.op = "get"
           THEN Becomes(client, "answer", req, seen[client], call[client],
                        Response("Success", t))
           ELSE Becomes(client, "decide", req,
                        [database |-> DatabaseName[db], target |-> t],
                        call[client], answer[client])
  BY FetchTargetEffect, OrderlyParts DEF req
<1>3. PICK t \in targets[db] :
        /\ WithId(targets[db], req.target_id) = {t}
        /\ IF req.op = "get"
           THEN Becomes(client, "answer", req, seen[client], call[client],
                        Response("Success", t))
           ELSE Becomes(client, "decide", req,
                        [database |-> DatabaseName[db], target |-> t],
                        call[client], answer[client])
  BY <1>2
<1>4. PICK other \in Matching(req.db) : Refusal(req, other) = ""
  BY <1>1, OrderlyParts DEF UpToDate
<1>5. other = db
  BY <1>4, OneDatabase, OrderlyParts, MatchingDatabases
<1>6. t \in Stored(db) /\ Asked(db, t)
  BY <1>1, <1>3, <1>4, <1>5, StillFound DEF Asked
<1>7. QED
  BY <1>1, <1>3, <1>4, <1>5, <1>6

LEMMA FetchImplements ==
    ASSUME Alone, Orderly, FetchTarget(client) \/ FetchForAdd(client)
    PROVE  Contract!Next \/ UNCHANGED Contract!vars
<1>0. Shapes
  BY OrderlyParts
<1>1. CASE FetchTarget(client)
  <2>1. /\ pc[client] = "fetch" /\ UNCHANGED manager
        /\ req \in Request /\ request[client] = req /\ req # None /\ answer[client] = None
    BY <1>1, FetchTargetFinds, AsksUntilAnswered
  <2>2. PICK db \in Matching(req.db) : \E t \in Stored(db) :
          /\ Asked(db, t)
          /\ IF req.op = "get"
             THEN Becomes(client, "answer", req, seen[client], call[client],
                          Response("Success", t))
             ELSE Becomes(client, "decide", req,
                          [database |-> DatabaseName[db], target |-> t],
                          call[client], answer[client])
    BY <1>1, FetchTargetFinds
  <2>3. PICK t \in Stored(db) :
          /\ Asked(db, t)
          /\ IF req.op = "get"
             THEN Becomes(client, "answer", req, seen[client], call[client],
                          Response("Success", t))
             ELSE Becomes(client, "decide", req,
                          [database |-> DatabaseName[db], target |-> t],
                          call[client], answer[client])
    BY <2>2
  <2>4. CASE req.op = "get"
    <3>1. request'[client] = req /\ answer'[client] = Response("Success", t)
      BY <1>0, <2>3, <2>4, SeenByClient
    <3>2. Contract!Reply("Success", t)
      BY <2>1, <3>1, Replies DEF manager, databases
    <3>3. t \in Contract!WithId(Contract!Live(db), req.target_id)
      BY <2>3, SameWords DEF Asked, WithId
    <3>4. db \in Contract!Accessed
      BY SameWords
    <3>5. Contract!Get
      BY <2>1, <2>4, <3>2, <3>3, <3>4 DEF Contract!Get, Contract!Waiting, manager
    <3>6. QED
      BY <3>5 DEF Contract!Next
  <2>5. CASE req.op # "get"
    <3>1. request'[client] = req /\ answer'[client] = answer[client]
      BY <1>0, <2>3, <2>5, SeenByClient
    <3>2. QED
      BY <2>1, <3>1, Stutters
  <2>6. QED
    BY <2>4, <2>5
<1>2. CASE FetchForAdd(client)
  <2>1. /\ UNCHANGED manager
        /\ \E c : Becomes(client, "call", request[client], seen[client], c, answer[client])
    BY <1>0, <1>2, FetchForAddEffect, OrderlyParts
  <2>2. request'[client] = request[client] /\ answer'[client] = answer[client]
    BY <1>0, <2>1, SeenByClient
  <2>3. QED
    BY <2>1, <2>2, Stutters
<1>3. QED
  BY <1>1, <1>2

\* The worker's decision, and what it rests on.
Permits(code, t) ==
    \/ code = "TargetStatusProcessing" /\ req.op = "delete"
       /\ Status(t, clock) = "processing"
    \/ code = "TargetStatusNotSuccess" /\ req.op = "update"
       /\ Status(t, clock) # "success"
    \/ code = "Fail" /\ req.op = "update"
       /\ Status(t, clock) = "success" /\ req.change = NullFlag

LEMMA DecisionOf ==
    ASSUME Alone, Orderly, Decide(client)
    PROVE  /\ pc[client] = "decide" /\ req.op \in {"delete", "update"}
           /\ UNCHANGED <<manager, issued, late>>
           /\ LET t == seen[client].target
              IN  \/ \E code : /\ Permits(code, t)
                               /\ Becomes(client, "answer", req, None, call[client],
                                          Response(code, None))
                  \/ /\ Allowed(t) /\ (req.op = "update" => req.change # NullFlag)
                     /\ Becomes(client, "call", req, None, ChangeCall(client),
                                answer[client])
<1>0. Shapes
  BY OrderlyParts
<1>1. CASE DecideDelete(client)
  <2>1. /\ pc[client] = "decide" /\ req.op = "delete"
        /\ seen' = [seen EXCEPT ![client] = None]
        /\ UNCHANGED <<manager, issued, request, late>>
    BY <1>1 DEF DecideDelete, req
  <2>2. CASE Status(seen[client].target, clock) = "processing"
    <3>1. Respond(client, "TargetStatusProcessing", None) /\ UNCHANGED call
      BY <1>1, <2>2 DEF DecideDelete
    <3>2. Becomes(client, "answer", req, None, call[client],
                  Response("TargetStatusProcessing", None))
      BY <1>0, <2>1, <3>1, Unchanged, OrderlyParts DEF Respond, GoTo, Becomes, Response, req
    <3>3. QED
      BY <2>1, <2>2, <3>2 DEF Permits
  <2>3. CASE Status(seen[client].target, clock) # "processing"
    <3>1. Send(client, ChangeCall(client)) /\ UNCHANGED answer
      BY <1>1, <2>1, <2>3 DEF DecideDelete, ChangeCall, req
    <3>2. Becomes(client, "call", req, None, ChangeCall(client), answer[client])
      BY <1>0, <2>1, <3>1, Unchanged, OrderlyParts DEF Send, GoTo, Becomes, req
    <3>3. QED
      BY <2>1, <2>3, <3>2 DEF Allowed
  <2>4. QED
    BY <2>2, <2>3
<1>2. CASE DecideUpdate(client)
  <2>1. /\ pc[client] = "decide" /\ req.op = "update"
        /\ seen' = [seen EXCEPT ![client] = None]
        /\ UNCHANGED <<manager, issued, request, late>>
    BY <1>2 DEF DecideUpdate, req
  <2>2. ASSUME NEW code, Respond(client, code, None), UNCHANGED call
        PROVE  Becomes(client, "answer", req, None, call[client], Response(code, None))
    BY <1>0, <2>1, <2>2, Unchanged, OrderlyParts DEF Respond, GoTo, Becomes, Response, req
  <2>3. CASE Status(seen[client].target, clock) # "success"
    <3>1. Respond(client, "TargetStatusNotSuccess", None) /\ UNCHANGED call
      BY <1>2, <2>3 DEF DecideUpdate
    <3>2. QED
      BY <2>1, <2>2, <2>3, <3>1 DEF Permits
  <2>4. CASE Status(seen[client].target, clock) = "success" /\ req.change = NullFlag
    <3>1. Respond(client, "Fail", None) /\ UNCHANGED call
      BY <1>2, <2>4 DEF DecideUpdate, req
    <3>2. QED
      BY <2>1, <2>2, <2>4, <3>1 DEF Permits
  <2>5. CASE Status(seen[client].target, clock) = "success" /\ req.change # NullFlag
    <3>1. Send(client, ChangeCall(client)) /\ UNCHANGED answer
      BY <1>2, <2>1, <2>5 DEF DecideUpdate, ChangeCall, req
    <3>2. Becomes(client, "call", req, None, ChangeCall(client), answer[client])
      BY <1>0, <2>1, <3>1, Unchanged, OrderlyParts DEF Send, GoTo, Becomes, req
    <3>3. QED
      BY <2>1, <2>5, <3>2 DEF Allowed
  <2>6. QED
    BY <2>3, <2>4, <2>5
<1>3. QED
  BY <1>1, <1>2 DEF Decide

\* A target which the contract finds, and that no other has the name it gets.
LEMMA FoundByContract ==
    ASSUME Alone, Orderly, req \in Request, NEW db \in Matching(req.db),
           Refusal(req, db) = "", NEW t, Asked(db, t)
    PROVE  /\ db \in Contract!Accessed
           /\ t \in Contract!WithId(Contract!Live(db), req.target_id)
           /\ req.op = "update" /\ req.change # NullFlag
                => ~Contract!TakenByOther(db, req.target_id, req.change.name)
<1>1. db \in Contract!Accessed /\ t \in WithId(Stored(db), req.target_id)
  BY SameWords DEF Asked, WithId
<1>2. t \in Contract!WithId(Contract!Live(db), req.target_id)
  BY <1>1, SameWords
<1>3. ASSUME req.op = "update", req.change # NullFlag
      PROVE  ~Contract!TakenByOther(db, req.target_id, req.change.name)
  <2>1. req.change \in Change
    BY <1>3, OfRequest, WorkersAssumption
  <2>2. req.change.name \in Names \cup {Absent}
    BY <2>1 DEF Change
  <2>3. NameRefusal(targets[db], req.target_id, req.change.name) = ""
    BY <1>1, <1>3 DEF Refusal
  <2>4. QED
    BY <2>2, <2>3, NamesRefused, OrderlyParts DEF Matching
<1>4. QED
  BY <1>1, <1>2, <1>3

LEMMA DecideImplements ==
    ASSUME Alone, Orderly, Decide(client)
    PROVE  Contract!Next \/ UNCHANGED Contract!vars
<1> DEFINE t == seen[client].target
<1>0. /\ Shapes /\ pc[client] = "decide" /\ UNCHANGED manager
      /\ req \in Request /\ request[client] = req /\ req # None /\ answer[client] = None
  BY OrderlyParts, DecisionOf, AsksUntilAnswered
<1>1. PICK db \in Matching(req.db) : Refusal(req, db) = "" /\ Asked(db, t)
  BY <1>0, OrderlyParts DEF UpToDate
<1>2. /\ db \in Contract!Accessed
      /\ t \in Contract!WithId(Contract!Live(db), req.target_id)
      /\ req.op = "update" /\ req.change # NullFlag
           => ~Contract!TakenByOther(db, req.target_id, req.change.name)
  BY <1>0, <1>1, FoundByContract
<1>3. ASSUME NEW code, Permits(code, t),
             Becomes(client, "answer", req, None, call[client], Response(code, None))
      PROVE  Contract!Next
  <2>1. request'[client] = req /\ answer'[client] = Response(code, None)
    BY <1>0, <1>3, SeenByClient
  <2>2. Contract!Refuse(code)
    BY <1>0, <2>1, Refuses
  <2>3. Contract!Status(t, clock) = Status(t, clock)
    BY SameWords
  <2>4. CASE code = "TargetStatusProcessing"
    <3>1. Contract!RefuseDelete
      BY <1>0, <1>2, <1>3, <2>2, <2>3, <2>4
         DEF Permits, Contract!RefuseDelete, Contract!Waiting
    <3>2. QED
      BY <3>1 DEF Contract!Next
  <2>5. CASE code \in {"TargetStatusNotSuccess", "Fail"}
    <3>1. Contract!RefuseUpdate
      BY <1>0, <1>2, <1>3, <2>2, <2>3, <2>5
         DEF Permits, Contract!RefuseUpdate, Contract!Waiting
    <3>2. QED
      BY <3>1 DEF Contract!Next
  <2>6. QED
    BY <1>3, <2>4, <2>5 DEF Permits
<1>4. ASSUME Becomes(client, "call", req, None, ChangeCall(client), answer[client])
      PROVE  UNCHANGED Contract!vars
  <2>1. request'[client] = req /\ answer'[client] = answer[client]
    BY <1>0, <1>4, SeenByClient
  <2>2. QED
    BY <1>0, <2>1, Stutters
<1>5. QED
  BY <1>3, <1>4, DecisionOf

\* The call of the client's worker reaches the database and the target it is for.
LEMMA ServedAsDecided ==
    ASSUME Alone, Orderly, pc[client] = "call"
    PROVE  /\ req \in Request /\ request[client] = req /\ req # None /\ answer[client] = None
           /\ call[client] \in Call /\ call[client].op = req.op
           /\ req.op # "add" => call[client].target_id = req.target_id
           /\ \E db \in Matching(req.db) :
                /\ Refusal(req, db) = "" /\ db \in CloudDatabases /\ db \in cloud_databases
                /\ Named(cloud_databases, call[client].database) = {db}
                /\ Served(call[client])
                /\ req.op = "add" => /\ call[client].name = req.name
                                     /\ call[client].image = req.image
                /\ req.op # "add" =>
                     \E t : /\ Asked(db, t) /\ Allowed(t)
                            /\ WithId(targets[db], req.target_id) = {t}
                /\ req.op = "update" => /\ req.change # NullFlag
                                        /\ call[client].change = req.change
<1>0. /\ Shapes /\ Managed /\ IdsKept /\ WorkerTyped(client)
      /\ req \in Request /\ request[client] = req /\ req # None /\ answer[client] = None
  BY OrderlyParts, AsksUntilAnswered
<1>1. /\ call[client] \in Call /\ call[client].op = req.op
      /\ req.op # "add" => call[client].target_id = req.target_id
  BY <1>0 DEF WorkerTyped
<1>2. PICK db \in Matching(req.db) :
        /\ Refusal(req, db) = "" /\ call[client].database = DatabaseName[db]
        /\ req.op = "add" => /\ call[client].name = req.name
                             /\ call[client].image = req.image
        /\ req.op # "add" => \E t : Asked(db, t) /\ Allowed(t)
        /\ req.op = "update" => /\ req.change # NullFlag
                                /\ call[client].change = req.change
  BY OrderlyParts DEF UpToDate
<1>3. /\ db \in cloud_databases /\ db \in CloudDatabases
      /\ Named(cloud_databases, call[client].database) = {db}
  <2>1. db \in cloud_databases
    BY DEF Matching
  <2>2. QED
    BY <1>0, <1>2, <2>1, OneDatabase
<1>4. ASSUME req.op # "add"
      PROVE  \E t : /\ Asked(db, t) /\ Allowed(t) /\ t \in targets[db]
                    /\ WithId(targets[db], req.target_id) = {t}
  <2>1. PICK t : Asked(db, t) /\ Allowed(t)
    BY <1>2, <1>4
  <2>2. t \in targets[db] /\ t.target_id = req.target_id
    BY <2>1 DEF Asked, Stored, NotDeleted
  <2>3. WithId(targets[db], t.target_id) = {t}
    BY <1>0, <1>3, <2>2, FoundByName
  <2>4. QED
    BY <2>1, <2>2, <2>3
<1>5. Served(call[client])
  BY <1>1, <1>3, <1>4 DEF Served
<1>6. QED
  BY <1>0, <1>1, <1>2, <1>3, <1>4, <1>5

LEMMA ApplyImplements ==
    ASSUME Alone, Orderly, Apply(client)
    PROVE  Contract!Next
<1> DEFINE c == call[client]
<1>0. /\ pc[client] = "call" /\ Perform(c) /\ Shapes
      /\ Becomes(client, "answer", request[client], seen[client], None,
                 Acknowledged(client))
  BY OrderlyParts, ApplyEffect
<1>1. /\ req \in Request /\ request[client] = req /\ req # None /\ answer[client] = None
      /\ c \in Call /\ c.op = req.op
      /\ req.op # "add" => c.target_id = req.target_id
  BY <1>0, ServedAsDecided
<1>2. PICK db \in Matching(req.db) :
        /\ Refusal(req, db) = "" /\ db \in CloudDatabases
        /\ Named(cloud_databases, c.database) = {db} /\ Served(c)
        /\ req.op = "add" => c.name = req.name /\ c.image = req.image
        /\ req.op # "add" =>
             \E t : /\ Asked(db, t) /\ Allowed(t)
                    /\ WithId(targets[db], req.target_id) = {t}
        /\ req.op = "update" => req.change # NullFlag /\ c.change = req.change
  BY <1>0, ServedAsDecided
<1>3. /\ request'[client] = request[client]
      /\ answer'[client] = IF req.op = "add" THEN Response("TargetCreated", c.target_id)
                           ELSE Response("Success", None)
  BY <1>0, <1>1, SeenByClient DEF Acknowledged
<1>4. \A other : {db} = {other} => other = db
  OBVIOUS
<1>5. CASE req.op = "add"
  <2>1. PICK uploaded \in c.sent .. clock : \E modified \in c.sent .. uploaded :
          CreateTarget(c.database, c.target_id, c.name, c.image, modified, uploaded)
    BY <1>0, <1>1, <1>2, <1>5 DEF Perform
  <2>2. PICK modified \in c.sent .. uploaded :
          CreateTarget(c.database, c.target_id, c.name, c.image, modified, uploaded)
    BY <2>1
  <2>3. /\ targets' = [targets EXCEPT ![db] =
             @ \cup {NewTarget(c.target_id, req.name, req.image, modified, uploaded)}]
        /\ UNCHANGED <<clock, cloud_databases>>
    BY <1>2, <1>4, <1>5, <2>2 DEF CreateTarget, databases
  <2>4. /\ uploaded \in 0 .. clock /\ modified \in 0 .. uploaded
        /\ c.target_id \in TargetIds
    <3>1. c.sent \in 0 .. clock /\ c.target_id \in TargetIds
      BY <1>1, <1>5, OfCall
    <3>2. QED
      BY <2>1, <2>2, <3>1, OrderlyParts
  <2>5. \A other \in CloudDatabases : Contract!WithId(targets[other], c.target_id) = {}
    <3>1. client \in Adding(c.target_id)
      BY <1>0, <1>1, <1>5, OrderlyParts DEF Adding, Holds, CallOf
    <3>2. \A other \in CloudDatabases : WithId(targets[other], c.target_id) = {}
      BY <3>1, OrderlyParts DEF CallIds, WithId
    <3>3. QED
      BY <3>2, SameWords
  <2>6. ~Contract!Full(db) /\ ~Contract!Taken(db, req.name)
    <3>1. AddRefusal(targets[db], TargetQuota[db], req.name) = ""
      BY <1>2, <1>5 DEF Refusal
    <3>2. /\ ~(Cardinality(Stored(db)) >= TargetQuota[db])
          /\ ~\E t \in Stored(db) : t.name = req.name
      BY <3>1 DEF AddRefusal, Stored, SameName
    <3>3. Contract!Live(db) = Stored(db)
      BY SameWords
    <3>4. QED
      BY <3>2, <3>3 DEF Contract!Full, Contract!Taken, Contract!Cardinality, Cardinality
  <2>7. db \in Contract!Accessed /\ \A id, name, image, m, n :
          Contract!NewTarget(id, name, image, m, n) = NewTarget(id, name, image, m, n)
    BY SameWords
  <2>8. Contract!Reply("TargetCreated", c.target_id)
    BY <1>3, <1>5, <2>3, Replies
  <2>9. Contract!Add
    BY <1>1, <1>5, <2>3, <2>4, <2>5, <2>6, <2>7, <2>8 DEF Contract!Add, Contract!Waiting
  <2>10. QED
    BY <2>9 DEF Contract!Next
<1>6. CASE req.op # "add"
  <2>1. PICK t : Asked(db, t) /\ Allowed(t) /\ WithId(targets[db], req.target_id) = {t}
    BY <1>2, <1>6
  <2>2. /\ db \in Contract!Accessed
        /\ t \in Contract!WithId(Contract!Live(db), req.target_id)
        /\ req.op = "update" /\ req.change # NullFlag
             => ~Contract!TakenByOther(db, req.target_id, req.change.name)
    BY <1>1, <1>2, <2>1, FoundByContract
  <2>3. /\ Contract!Status(t, clock) = Status(t, clock)
        /\ \A S, u : Contract!Replace(S, t, u) = Replace(S, t, u)
        /\ \A given, current : Contract!New(given, current) = Given(given, current)
    BY SameWords
  <2>4. \A other \in targets[db] : {t} = {other} => other = t
    OBVIOUS
  <2>5. CASE req.op = "delete"
    <3>1. DeleteTarget(c.database, c.target_id)
      BY <1>0, <1>1, <1>2, <2>5 DEF Perform
    <3>2. /\ targets' = [targets EXCEPT ![db] =
               Replace(@, t, [t EXCEPT !.delete_date = clock])]
          /\ UNCHANGED <<clock, cloud_databases>>
      BY <1>1, <1>2, <1>4, <1>6, <2>1, <2>4, <3>1 DEF DeleteTarget, databases
    <3>3. Contract!Reply("Success", None)
      BY <1>3, <1>6, <3>2, Replies
    <3>4. Status(t, clock) # "processing"
      BY <2>1, <2>5 DEF Allowed
    <3>5. Contract!Delete
      BY <1>1, <2>2, <2>3, <2>5, <3>2, <3>3, <3>4 DEF Contract!Delete, Contract!Waiting
    <3>6. QED
      BY <3>5 DEF Contract!Next
  <2>6. CASE req.op # "delete"
    <3>1. req.op = "update"
      BY <1>1, <1>6, <2>6, OfCall
    <3>2. UpdateTarget(c.database, c.target_id, req.change)
      BY <1>0, <1>1, <1>2, <3>1 DEF Perform
    <3>3. /\ targets' = [targets EXCEPT ![db] = Replace(@, t,
               [t EXCEPT !.name = Given(req.change.name, t.name),
                         !.image_value = Given(req.change.image_value, t.image_value),
                         !.active_flag = Given(req.change.active_flag, t.active_flag),
                         !.last_modified_date = clock])]
          /\ UNCHANGED <<clock, cloud_databases>>
      <4>1. PICK other \in CloudDatabases :
               /\ Named(cloud_databases, c.database) = {other}
               /\ \E target \in targets[other] :
                    /\ WithId(targets[other], c.target_id) = {target}
                    /\ targets' = [targets EXCEPT ![other] = Replace(@, target,
                         [target EXCEPT
                            !.name = Given(req.change.name, target.name),
                            !.image_value = Given(req.change.image_value, target.image_value),
                            !.active_flag = Given(req.change.active_flag, target.active_flag),
                            !.last_modified_date = clock])]
               /\ UNCHANGED <<clock, cloud_databases>>
        BY <3>2 DEF UpdateTarget, databases
      <4>2. other = db
        BY <1>1, <1>2, <1>4, <1>6, <4>1
      <4>3. WithId(targets[db], c.target_id) = {t}
        BY <1>1, <1>6, <2>1
      <4>4. QED
        BY <2>4, <4>1, <4>2, <4>3
    <3>4. Contract!Reply("Success", None)
      BY <1>3, <1>6, <3>3, Replies
    <3>5. Status(t, clock) = "success" /\ req.change # NullFlag
      BY <1>2, <2>1, <3>1 DEF Allowed
    <3>6. targets' = [targets EXCEPT ![db] = Contract!Replace(@, t,
               [t EXCEPT !.name = Contract!New(req.change.name, @),
                         !.image_value = Contract!New(req.change.image_value, @),
                         !.active_flag = Contract!New(req.change.active_flag, @),
                         !.last_modified_date = clock])]
      BY <2>3, <3>3
    <3>7. Contract!Update
      BY <1>1, <2>2, <2>3, <3>1, <3>4, <3>5, <3>6 DEF Contract!Update, Contract!Waiting
    <3>8. QED
      BY <3>7 DEF Contract!Next
  <2>7. QED
    BY <2>5, <2>6
<1>7. QED
  BY <1>5, <1>6

LEMMA AnswerImplements ==
    ASSUME Alone, Orderly, Answer(client)
    PROVE  Contract!Next
<1>1. /\ pc[client] = "answer" /\ Shapes /\ UNCHANGED manager
      /\ Becomes(client, "idle", None, seen[client], call[client], None)
  BY OrderlyParts, AnswerEffect
<1>2. request'[client] = None /\ answer'[client] = None
  BY <1>1, SeenByClient
<1>3. answer[client] # None
  <2>1. answer[client] \in Answers
    BY <1>1, OrderlyParts DEF WorkerTyped
  <2>2. Answers \subseteq
          [code : ResultCodes, body : TargetIds \cup ImageTarget \cup {None}]
    <3>1. Refusals \cup {"Success", "TargetCreated"} \subseteq ResultCodes
      BY DEF Refusals, ResultCodes
    <3>2. QED
      BY <3>1 DEF Answers
  <2>3. QED
    BY <2>1, <2>2, NoneAssumption
<1>4. Contract!Receive
  BY <1>1, <1>2, <1>3 DEF Contract!Receive, Contract!state, manager, databases
<1>5. QED
  BY <1>4 DEF Contract!Next

LEMMA OthersImplement ==
    ASSUME Alone, Orderly, ClientStep,
           \/ \E db \in CloudDatabases : AddDatabase(db) \/ RemoveDatabase(db)
           \/ TimePasses
    PROVE  Contract!Next
<1>0. /\ request' = request /\ answer' = answer /\ TypeOK
      /\ request[client] # None => UNCHANGED databases
  BY OrderlyParts DEF ClientStep, AddDatabase, RemoveDatabase, TimePasses, work
<1>1. ASSUME NEW db \in CloudDatabases, AddDatabase(db) PROVE Contract!Next
  <2>1. /\ ~CloudConflict(db) /\ cloud_databases' = cloud_databases \cup {db}
        /\ targets' = [targets EXCEPT ![db] = {}] /\ UNCHANGED clock
    BY <1>1 DEF AddDatabase, CreateCloudDatabase
  <2>2. request[client] = None
    BY <1>0, <2>1, CreatedIsNew DEF databases
  <2>3. \A other \in cloud_databases : ~Contract!SameKeys(other, db)
    BY <2>1 DEF CloudConflict, SharesServerIdentity, Contract!SameKeys
  <2>4. Contract!AddDatabase(db)
    BY <1>0, <2>1, <2>2, <2>3 DEF Contract!AddDatabase
  <2>5. QED
    BY <2>4 DEF Contract!Next
<1>2. ASSUME NEW db \in CloudDatabases, RemoveDatabase(db) PROVE Contract!Next
  <2>1. /\ db \in cloud_databases /\ cloud_databases' = cloud_databases \ {db}
        /\ targets' = [targets EXCEPT ![db] = {}] /\ UNCHANGED clock
    BY <1>2 DEF RemoveDatabase, DeleteCloudDatabase, Named
  <2>2. request[client] = None
    BY <1>0, <2>1 DEF databases
  <2>3. Contract!RemoveDatabase(db)
    BY <1>0, <2>1, <2>2 DEF Contract!RemoveDatabase
  <2>4. QED
    BY <2>3 DEF Contract!Next
<1>3. CASE TimePasses
  <2>1. Contract!Tick
    BY <1>0, <1>3 DEF TimePasses, Tick, Contract!Tick, databases
  <2>2. QED
    BY <2>1 DEF Contract!Next
<1>4. QED
  BY <1>1, <1>2, <1>3

LEMMA ContractStep ==
    ASSUME Alone, Orderly, [ClientStep]_service_vars
    PROVE  Contract!Next \/ UNCHANGED Contract!vars
<1>1. CASE \E w \in Workers : WorkerAction(w)
  <2>1. WorkerAction(client) /\ client \in Workers
    BY <1>1 DEF Alone
  <2>2. ~Timeout(client) /\ ~SnapshotFails(client) /\ ~FetchFails(client)
    BY FetchAlwaysFinds DEF Alone, Timeout, SnapshotFails
  <2>3. QED
    BY <2>1, <2>2, WorkerCases, ReceiveImplements, ValidateImplements, FetchImplements,
       DecideImplements, ApplyImplements, AnswerImplements
<1>2. CASE UNCHANGED service_vars
  BY <1>2 DEF service_vars, manager, databases, work, Contract!vars
<1>3. CASE ClientStep /\ ~\E w \in Workers : WorkerAction(w)
  BY <1>3, OthersImplement DEF Alone, ClientStep, ServiceNext, WorkerAction
<1>4. QED
  BY <1>1, <1>2, <1>3

-----------------------------------------------------------------------------
\* Quotas and names: the contract keeps them, and the client's steps are its.
LEMMA FewerStored ==
    ASSUME NamesUnique, QuotaRespected, FiniteTargets, TypeOK,
           cloud_databases' \subseteq cloud_databases,
           \A db \in cloud_databases' : Stored(db)' \subseteq Stored(db)
    PROVE  NamesUnique' /\ QuotaRespected'
<1>1. ASSUME NEW db \in cloud_databases'
      PROVE  /\ \A t, u \in Stored(db)' : t.name = u.name => t = u
             /\ Cardinality(Stored(db)') <= TargetQuota[db]
  <2>1. db \in cloud_databases /\ db \in CloudDatabases /\ Stored(db)' \subseteq Stored(db)
    BY <1>1 DEF TypeOK
  <2>2. \A t, u \in Stored(db)' : t.name = u.name => t = u
    BY <2>1 DEF NamesUnique
  <2>3. /\ IsFiniteSet(Stored(db)) /\ Cardinality(Stored(db)) \in Nat
        /\ Cardinality(Stored(db)) <= TargetQuota[db] /\ TargetQuota[db] \in Nat
    BY <2>1, FiniteStored, WorkersAssumption DEF QuotaRespected
  <2>4. Cardinality(Stored(db)') <= Cardinality(Stored(db)) /\ Cardinality(Stored(db)') \in Nat
    BY <2>1, <2>3, FS_Subset, FS_CardinalityType
  <2>5. QED
    BY <2>2, <2>3, <2>4
<1>2. QED
  BY <1>1 DEF NamesUnique, QuotaRespected

\* One database has a target more, or another in the place of one.
LEMMA OneStored ==
    ASSUME NamesUnique, QuotaRespected, FiniteTargets, TypeOK,
           cloud_databases' = cloud_databases, NEW db \in cloud_databases,
           \A other \in cloud_databases \ {db} : Stored(other)' = Stored(other),
           \A t, u \in Stored(db)' : t.name = u.name => t = u,
           Cardinality(Stored(db)') <= TargetQuota[db]
    PROVE  NamesUnique' /\ QuotaRespected'
  BY DEF NamesUnique, QuotaRespected

LEMMA AddKeepsRules ==
    ASSUME Alone, Orderly, Contract!Add
    PROVE  NamesUnique' /\ QuotaRespected'
<1>0. /\ TypeOK /\ NamesUnique /\ QuotaRespected /\ FiniteTargets
      /\ targets \in [CloudDatabases -> SUBSET ImageTarget]
  BY OrderlyParts DEF TypeOK
<1>1. PICK db \in Contract!Accessed : \E id, uploaded, modified :
        /\ ~Contract!Full(db) /\ ~Contract!Taken(db, req.name)
        /\ targets' = [targets EXCEPT ![db] =
             @ \cup {Contract!NewTarget(id, req.name, req.image, modified, uploaded)}]
        /\ UNCHANGED cloud_databases
  BY DEF Contract!Add, Contract!Reply, req
<1>2. PICK id, uploaded, modified :
        targets' = [targets EXCEPT ![db] =
          @ \cup {Contract!NewTarget(id, req.name, req.image, modified, uploaded)}]
  BY <1>1
<1> DEFINE t == NewTarget(id, req.name, req.image, modified, uploaded)
<1>3. targets' = [targets EXCEPT ![db] = @ \cup {t}]
  BY <1>2, SameWords
<1>4. db \in cloud_databases /\ db \in CloudDatabases
  BY <1>0, <1>1, SameWords, MatchingDatabases
<1>5. t.name = req.name
  BY DEF NewTarget
<1>6. /\ Stored(db)' \subseteq Stored(db) \cup {t}
      /\ \A other \in cloud_databases \ {db} : Stored(other)' = Stored(other)
  BY <1>0, <1>3, <1>4 DEF Stored, NotDeleted, TypeOK
<1>7. /\ ~(Cardinality(Stored(db)) >= TargetQuota[db])
      /\ \A u \in Stored(db) : u.name # req.name
  BY <1>1, SameWords DEF Contract!Full, Contract!Taken, Contract!Cardinality, Cardinality
<1>8. /\ IsFiniteSet(Stored(db)) /\ Cardinality(Stored(db)) \in Nat
      /\ TargetQuota[db] \in Nat
  BY <1>0, <1>4, FiniteStored, WorkersAssumption
<1>9. /\ Cardinality(Stored(db)') \in Nat
      /\ Cardinality(Stored(db)') <= Cardinality(Stored(db)) + 1
  BY <1>6, <1>8, OneMore
<1>10. Cardinality(Stored(db)') <= TargetQuota[db]
  BY <1>7, <1>8, <1>9
<1>11. \A u, v \in Stored(db)' : u.name = v.name => u = v
  BY <1>0, <1>4, <1>5, <1>6, <1>7 DEF NamesUnique
<1>12. QED
  BY <1>0, <1>1, <1>4, <1>6, <1>10, <1>11, OneStored

LEMMA DeleteKeepsRules ==
    ASSUME Alone, Orderly, Contract!Delete
    PROVE  NamesUnique' /\ QuotaRespected'
<1>0. /\ TypeOK /\ NamesUnique /\ QuotaRespected /\ FiniteTargets /\ clock # NoDate
      /\ targets \in [CloudDatabases -> SUBSET ImageTarget]
  BY OrderlyParts DEF TypeOK
<1>1. PICK db \in Contract!Accessed :
        \E t \in Contract!WithId(Contract!Live(db), req.target_id) :
          targets' = [targets EXCEPT ![db] =
            Contract!Replace(@, t, [t EXCEPT !.delete_date = clock])]
  BY DEF Contract!Delete, req
<1>2. PICK t \in Contract!WithId(Contract!Live(db), req.target_id) :
        targets' = [targets EXCEPT ![db] =
          Contract!Replace(@, t, [t EXCEPT !.delete_date = clock])]
  BY <1>1
<1>3. /\ t \in WithId(Stored(db), req.target_id)
      /\ targets' = [targets EXCEPT ![db] =
           Replace(@, t, [t EXCEPT !.delete_date = clock])]
      /\ cloud_databases' = cloud_databases
  BY <1>2, SameWords DEF Contract!Delete, Contract!Reply
<1>4. db \in CloudDatabases /\ t \in ImageTarget
  BY <1>0, <1>1, <1>3, SameWords, MatchingDatabases DEF WithId, Stored, NotDeleted
<1>5. [t EXCEPT !.delete_date = clock].delete_date # NoDate
  BY <1>0, <1>4 DEF ImageTarget
<1>6. \A other \in cloud_databases' : Stored(other)' \subseteq Stored(other)
  BY <1>0, <1>3, <1>4, <1>5 DEF Stored, NotDeleted, Replace, TypeOK
<1>7. QED
  BY <1>0, <1>3, <1>6, FewerStored

LEMMA UpdateKeepsRules ==
    ASSUME Alone, Orderly, Contract!Update
    PROVE  NamesUnique' /\ QuotaRespected'
<1>0. /\ TypeOK /\ NamesUnique /\ QuotaRespected /\ FiniteTargets /\ TargetIdsUnique
      /\ targets \in [CloudDatabases -> SUBSET ImageTarget]
  BY OrderlyParts DEF TypeOK
<1>1. PICK db \in Contract!Accessed :
        \E t \in Contract!WithId(Contract!Live(db), req.target_id) :
          /\ ~Contract!TakenByOther(db, req.target_id, req.change.name)
          /\ targets' = [targets EXCEPT ![db] = Contract!Replace(@, t,
               [t EXCEPT !.name = Contract!New(req.change.name, @),
                         !.image_value = Contract!New(req.change.image_value, @),
                         !.active_flag = Contract!New(req.change.active_flag, @),
                         !.last_modified_date = clock])]
  BY DEF Contract!Update, req
<1>2. PICK t \in Contract!WithId(Contract!Live(db), req.target_id) :
        targets' = [targets EXCEPT ![db] = Contract!Replace(@, t,
             [t EXCEPT !.name = Contract!New(req.change.name, @),
                       !.image_value = Contract!New(req.change.image_value, @),
                       !.active_flag = Contract!New(req.change.active_flag, @),
                       !.last_modified_date = clock])]
  BY <1>1
<1> DEFINE u == [t EXCEPT !.name = Contract!New(req.change.name, @),
                          !.image_value = Contract!New(req.change.image_value, @),
                          !.active_flag = Contract!New(req.change.active_flag, @),
                          !.last_modified_date = clock]
<1>3. /\ t \in WithId(Stored(db), req.target_id)
      /\ targets' = [targets EXCEPT ![db] = Replace(@, t, u)]
      /\ cloud_databases' = cloud_databases
  BY <1>2, SameWords DEF Contract!Update, Contract!Reply
<1>4. /\ db \in CloudDatabases /\ db \in cloud_databases /\ t \in ImageTarget
      /\ t \in Stored(db) /\ t \in targets[db] /\ t.target_id = req.target_id
  BY <1>0, <1>1, <1>3, SameWords, MatchingDatabases DEF WithId, Stored, NotDeleted
<1>5. u.name = Given(req.change.name, t.name)
  <2>1. u.name = Contract!New(req.change.name, t.name)
    BY <1>4 DEF ImageTarget
  <2>2. QED
    BY <2>1, SameWords
<1>6. /\ Stored(db)' \subseteq (Stored(db) \ {t}) \cup {u}
      /\ \A other \in cloud_databases \ {db} : Stored(other)' = Stored(other)
  <2>1. targets'[db] = (targets[db] \ {t}) \cup {u}
    BY <1>0, <1>3, <1>4 DEF Replace
  <2>2. \A other \in cloud_databases \ {db} : targets'[other] = targets[other]
    BY <1>0, <1>3 DEF TypeOK
  <2>3. QED
    BY <2>1, <2>2 DEF Stored, NotDeleted
<1>7. \A x \in Stored(db) \ {t} : x.name # u.name
  <2>1. SUFFICES ASSUME NEW x \in Stored(db) \ {t}, x.name = u.name PROVE FALSE
    OBVIOUS
  <2>2. CASE req.change.name = Absent
    BY <1>0, <1>4, <1>5, <2>1, <2>2 DEF Given, NamesUnique
  <2>3. CASE req.change.name # Absent
    <3>1. x.name = req.change.name
      BY <1>5, <2>1, <2>3 DEF Given
    <3>2. ~\E y \in Stored(db) : y.name = req.change.name /\ y.target_id # req.target_id
      BY <1>1, SameWords DEF Contract!TakenByOther
    <3>3. x.target_id = t.target_id
      BY <1>4, <3>1, <3>2
    <3>4. x \in targets[db]
      BY DEF Stored, NotDeleted
    <3>5. QED
      BY <1>0, <1>4, <3>3, <3>4 DEF TargetIdsUnique
  <2>4. QED
    BY <2>2, <2>3
<1>8. \A x, y \in Stored(db)' : x.name = y.name => x = y
  <2>1. \A x, y \in Stored(db) : x.name = y.name => x = y
    BY <1>0, <1>4 DEF NamesUnique
  <2>2. QED
    BY <1>6, <1>7, <2>1
<1>9. /\ IsFiniteSet(Stored(db)) /\ Cardinality(Stored(db)) \in Nat
      /\ TargetQuota[db] \in Nat /\ Cardinality(Stored(db)) <= TargetQuota[db]
  BY <1>0, <1>4, FiniteStored, WorkersAssumption DEF QuotaRespected
<1>10. /\ IsFiniteSet(Stored(db)')
       /\ Cardinality(Stored(db)') <= Cardinality(Stored(db))
  BY <1>4, <1>6, <1>9, OneForAnother
<1>11. Cardinality(Stored(db)') <= TargetQuota[db]
  BY <1>9, <1>10, FS_CardinalityType
<1>12. QED
  BY <1>0, <1>3, <1>4, <1>6, <1>8, <1>11, OneStored

LEMMA AddDatabaseKeepsRules ==
    ASSUME Alone, Orderly, NEW db \in CloudDatabases, Contract!AddDatabase(db)
    PROVE  NamesUnique' /\ QuotaRespected'
<1>0. /\ NamesUnique /\ QuotaRespected
      /\ targets \in [CloudDatabases -> SUBSET ImageTarget]
      /\ cloud_databases \subseteq CloudDatabases
  BY OrderlyParts DEF TypeOK
<1>1. /\ cloud_databases' = cloud_databases \cup {db}
      /\ targets' = [targets EXCEPT ![db] = {}]
  BY DEF Contract!AddDatabase
<1>2. Stored(db)' = {} /\ \A other \in cloud_databases \ {db} : Stored(other)' = Stored(other)
  BY <1>0, <1>1 DEF Stored, NotDeleted
<1>3. Cardinality(Stored(db)') <= TargetQuota[db]
  <2>1. Cardinality({}) = 0 /\ TargetQuota[db] \in Nat
    BY FS_EmptySet, WorkersAssumption
  <2>2. QED
    BY <1>2, <2>1
<1>4. \A t, u \in Stored(db)' : t.name = u.name => t = u
  BY <1>2
<1>5. ASSUME NEW other \in cloud_databases'
      PROVE  /\ \A t, u \in Stored(other)' : t.name = u.name => t = u
             /\ Cardinality(Stored(other)') <= TargetQuota[other]
  <2>1. CASE other = db
    BY <1>3, <1>4, <2>1
  <2>2. CASE other # db
    <3>1. other \in cloud_databases /\ Stored(other)' = Stored(other)
      BY <1>1, <1>2, <2>2
    <3>2. QED
      BY <1>0, <3>1 DEF NamesUnique, QuotaRespected
  <2>3. QED
    BY <2>1, <2>2
<1>6. QED
  BY <1>5 DEF NamesUnique, QuotaRespected

LEMMA RulesPreserved ==
    ASSUME Alone, Orderly, Contract!Next \/ UNCHANGED Contract!vars
    PROVE  NamesUnique' /\ QuotaRespected'
<1>0. /\ TypeOK /\ NamesUnique /\ QuotaRespected /\ FiniteTargets
      /\ targets \in [CloudDatabases -> SUBSET ImageTarget]
  BY OrderlyParts DEF TypeOK
<1>1. ASSUME targets' = targets, cloud_databases' = cloud_databases
      PROVE  NamesUnique' /\ QuotaRespected'
  BY <1>0, <1>1 DEF NamesUnique, QuotaRespected, Stored
<1>2. ASSUME NEW db \in CloudDatabases, Contract!RemoveDatabase(db)
      PROVE  NamesUnique' /\ QuotaRespected'
  <2>1. /\ cloud_databases' = cloud_databases \ {db}
        /\ targets' = [targets EXCEPT ![db] = {}]
    BY <1>2 DEF Contract!RemoveDatabase
  <2>2. \A other \in cloud_databases' : Stored(other)' \subseteq Stored(other)
    BY <1>0, <2>1 DEF Stored, TypeOK
  <2>3. cloud_databases' \subseteq cloud_databases
    BY <2>1
  <2>4. QED
    BY <1>0, <2>2, <2>3, FewerStored
<1>3. ASSUME NEW r \in Contract!Request, Contract!Ask(r)
      PROVE  targets' = targets /\ cloud_databases' = cloud_databases
  BY <1>3 DEF Contract!Ask, Contract!state
<1>4. CASE \/ Contract!Get \/ Contract!RefuseAccess \/ Contract!RefuseAdd
           \/ Contract!RefuseUnknown \/ Contract!RefuseDelete \/ Contract!RefuseUpdate
           \/ Contract!Receive \/ Contract!Tick \/ UNCHANGED Contract!vars
  <2>1. targets' = targets /\ cloud_databases' = cloud_databases
    BY <1>4 DEF Contract!Get, Contract!RefuseAccess, Contract!RefuseAdd,
       Contract!RefuseUnknown, Contract!RefuseDelete, Contract!RefuseUpdate,
       Contract!Receive, Contract!Tick, Contract!vars, Contract!state,
       Contract!Reply, Contract!Refuse
  <2>2. QED
    BY <1>1, <2>1
<1>5. QED
  BY <1>1, <1>2, <1>3, <1>4, AddKeepsRules, DeleteKeepsRules, UpdateKeepsRules,
     AddDatabaseKeepsRules DEF Contract!Next

-----------------------------------------------------------------------------
\* What the worker found out stays true until it acts on it.
LEMMA StatusesLast ==
    ASSUME NEW t \in ImageTarget, clock \in Nat, clock' = clock + 1
    PROVE  /\ Status(t, clock) # "processing" => Status(t, clock') # "processing"
           /\ Status(t, clock) = "success" => Status(t, clock') = "success"
<1>1. t.last_modified_date \in Nat /\ ProcessingTime \in Nat
  BY TargetsAssumption DEF ImageTarget
<1>2. clock - t.last_modified_date > ProcessingTime
        => clock' - t.last_modified_date > ProcessingTime
  BY <1>1
<1>3. clock - t.last_modified_date <= ProcessingTime <=>
        ~(clock - t.last_modified_date > ProcessingTime)
  BY <1>1
<1>4. clock' - t.last_modified_date <= ProcessingTime <=>
        ~(clock' - t.last_modified_date > ProcessingTime)
  BY <1>1
<1>5. QED
  BY <1>2, <1>3, <1>4 DEF Status

LEMMA SameFacts ==
    ASSUME UNCHANGED <<targets, cloud_databases>>, request'[client] = request[client]
    PROVE  /\ req' = req /\ Matching(req.db)' = Matching(req.db)
           /\ \A db : Refusal(req, db)' = Refusal(req, db)
           /\ \A db, t : Asked(db, t)' = Asked(db, t)
  BY DEF req, Matching, HasKeysOf, Refusal, Stored, Asked

LEMMA UpToDateOfWorker ==
    ASSUME Alone, Orderly, ClientStep, WorkerAction(client)
    PROVE  UpToDate'
<1>0. Shapes /\ WorkerTyped(client)
  BY OrderlyParts
<1>1. ASSUME NEW p, NEW r, NEW s, NEW c, NEW a, Becomes(client, p, r, s, c, a),
             p \notin {"fetch", "decide", "call"}
      PROVE  UpToDate'
  <2>1. pc'[client] = p
    BY <1>0, <1>1, SeenByClient
  <2>2. QED
    BY <1>1, <2>1 DEF UpToDate
<1>2. CASE Receive(client) \/ Apply(client) \/ Answer(client)
  BY <1>0, <1>1, <1>2, ReceiveEffect, ApplyEffect, AnswerEffect, OrderlyParts
<1>3. CASE Validate(client)
  <2>1. /\ UNCHANGED <<manager, issued, late, history>>
        /\ \/ \E a : Becomes(client, "answer", request[client], seen[client],
                             call[client], a)
           \/ \E db \in Matching(req.db) :
                /\ Refusal(req, db) = ""
                /\ Becomes(client, "fetch", request[client], seen[client],
                           call[client], answer[client])
    BY <1>0, <1>3, ValidateEffect, OrderlyParts DEF req
  <2>2. ASSUME NEW db \in Matching(req.db), Refusal(req, db) = "",
               Becomes(client, "fetch", request[client], seen[client],
                       call[client], answer[client])
        PROVE  UpToDate'
    <3>1. pc'[client] = "fetch" /\ request'[client] = request[client]
      BY <1>0, <2>2, SeenByClient
    <3>2. UNCHANGED <<targets, cloud_databases>>
      BY <2>1 DEF manager, databases
    <3>3. db \in Matching(req.db)' /\ Refusal(req, db)' = ""
      BY <2>2, <3>1, <3>2, SameFacts
    <3>4. QED
      BY <3>1, <3>3 DEF UpToDate
  <2>3. QED
    BY <1>1, <2>1, <2>2
<1>4. CASE FetchTarget(client)
  <2>1. UNCHANGED <<targets, cloud_databases>>
    BY <1>4, FetchTargetFinds DEF manager, databases
  <2>2. PICK db \in Matching(req.db) : \E t \in Stored(db) :
          /\ Refusal(req, db) = "" /\ Asked(db, t)
          /\ IF req.op = "get"
             THEN Becomes(client, "answer", req, seen[client], call[client],
                          Response("Success", t))
             ELSE Becomes(client, "decide", req,
                          [database |-> DatabaseName[db], target |-> t],
                          call[client], answer[client])
    BY <1>4, FetchTargetFinds
  <2>3. PICK t \in Stored(db) :
          /\ Refusal(req, db) = "" /\ Asked(db, t)
          /\ IF req.op = "get"
             THEN Becomes(client, "answer", req, seen[client], call[client],
                          Response("Success", t))
             ELSE Becomes(client, "decide", req,
                          [database |-> DatabaseName[db], target |-> t],
                          call[client], answer[client])
    BY <2>2
  <2>4. CASE req.op = "get"
    <3>1. Becomes(client, "answer", req, seen[client], call[client],
                  Response("Success", t))
      BY <2>3, <2>4
    <3>2. QED
      BY <1>1, <3>1
  <2>5. CASE req.op # "get"
    <3>1. /\ pc'[client] = "decide" /\ request'[client] = request[client]
          /\ seen'[client] = [database |-> DatabaseName[db], target |-> t]
      BY <1>0, <2>3, <2>5, SeenByClient, ZenonT(30) DEF req
    <3>2. db \in Matching(req.db)' /\ Refusal(req, db)' = "" /\ Asked(db, t)'
      BY <2>1, <2>3, <3>1, SameFacts
    <3>3. /\ seen'[client].database = DatabaseName[db]
          /\ Asked(db, seen[client].target)'
      <4>1. seen'[client].database = DatabaseName[db] /\ seen'[client].target = t
        BY <3>1
      <4>2. t \in Stored(db)' /\ t.target_id = req'.target_id
        BY <3>2 DEF Asked
      <4>3. QED
        BY <4>1, <4>2 DEF Asked
    <3>4. QED
      BY <3>1, <3>2, <3>3 DEF UpToDate
  <2>6. QED
    BY <2>4, <2>5
<1>5. CASE FetchForAdd(client)
  <2>1. PICK other \in Matching(req.db), id \in TargetIds :
          Becomes(client, "call", req, seen[client], AddCall(client, other, id),
                  answer[client])
    BY <1>0, <1>5, FetchForAddEffect, OrderlyParts DEF req
  <2>2. /\ pc[client] = "fetch" /\ req.op = "add"
        /\ UNCHANGED <<targets, cloud_databases>>
    BY <1>0, <1>5, FetchForAddEffect, OrderlyParts DEF manager, databases, req
  <2>3. PICK db \in Matching(req.db) : Refusal(req, db) = ""
    BY <2>2, OrderlyParts DEF UpToDate
  <2>4. other = db
    BY <2>3, OneDatabase, OrderlyParts, MatchingDatabases
  <2>5. /\ pc'[client] = "call" /\ request'[client] = request[client]
        /\ call'[client] = AddCall(client, db, id)
    BY <1>0, <2>1, <2>4, SeenByClient DEF req
  <2>6. req' = req /\ db \in Matching(req.db)' /\ Refusal(req, db)' = ""
    BY <2>2, <2>3, <2>5, SameFacts
  <2>7. /\ call'[client].database = DatabaseName[db]
        /\ call'[client].name = req.name /\ call'[client].image = req.image
    BY <2>5 DEF AddCall, req
  <2>8. QED
    BY <2>2, <2>5, <2>6, <2>7 DEF UpToDate
<1>6. CASE Decide(client)
  <2>1. /\ pc[client] = "decide" /\ req.op \in {"delete", "update"}
        /\ UNCHANGED <<clock, targets, cloud_databases>>
    BY <1>6, DecisionOf DEF manager, databases
  <2>2. CASE \E code : Becomes(client, "answer", req, None, call[client],
                               Response(code, None))
    BY <1>1, <2>2
  <2>3. CASE /\ Allowed(seen[client].target) /\ (req.op = "update" => req.change # NullFlag)
             /\ Becomes(client, "call", req, None, ChangeCall(client), answer[client])
    <3>1. PICK db \in Matching(req.db) :
            /\ Refusal(req, db) = "" /\ Asked(db, seen[client].target)
            /\ seen[client].database = DatabaseName[db]
      BY <2>1, OrderlyParts DEF UpToDate
    <3>2. /\ pc'[client] = "call" /\ request'[client] = request[client]
          /\ call'[client] = ChangeCall(client)
      BY <1>0, <2>3, SeenByClient DEF req
    <3>3. /\ req' = req /\ db \in Matching(req.db)' /\ Refusal(req, db)' = ""
          /\ Asked(db, seen[client].target) => \E t : Asked(db, t)' /\ t = seen[client].target
      BY <2>1, <3>1, <3>2, SameFacts
    <3>4. \E t : Asked(db, t)' /\ Allowed(t)'
      BY <2>1, <2>3, <3>1, <3>3 DEF Allowed
    <3>5. /\ call'[client].database = DatabaseName[db]
          /\ req.op = "update" => call'[client].change = req.change
      <4>1. CASE req.op = "delete"
        <5>1. call'[client] = [op |-> "delete", database |-> seen[client].database,
                               target_id |-> req.target_id]
          BY <3>2, <4>1 DEF ChangeCall, req
        <5>2. call'[client].database = seen[client].database
          BY <5>1
        <5>3. QED
          BY <3>1, <4>1, <5>2
      <4>2. CASE req.op = "update"
        <5>1. call'[client] = [op |-> "update", database |-> seen[client].database,
                               target_id |-> req.target_id, change |-> req.change]
          BY <3>2, <4>2 DEF ChangeCall, req
        <5>2. /\ call'[client].database = seen[client].database
              /\ call'[client].change = req.change
          BY <5>1
        <5>3. QED
          BY <3>1, <5>2
      <4>3. QED
        BY <2>1, <4>1, <4>2
    <3>6. QED
      BY <2>1, <2>3, <3>2, <3>3, <3>4, <3>5 DEF UpToDate
  <2>4. QED
    BY <1>6, <2>2, <2>3, DecisionOf
<1>7. QED
  <2>1. ~Timeout(client) /\ ~SnapshotFails(client) /\ ~FetchFails(client)
    BY FetchAlwaysFinds DEF Alone, Timeout, SnapshotFails
  <2>2. client \in Workers
    BY OrderlyParts
  <2>3. QED
    BY <1>2, <1>3, <1>4, <1>5, <1>6, <2>1, <2>2, WorkerCases

LEMMA UpToDatePreserved ==
    ASSUME Alone, Orderly, [ClientStep]_service_vars
    PROVE  UpToDate'
<1>1. CASE ClientStep /\ \E w \in Workers : WorkerAction(w)
  BY <1>1, UpToDateOfWorker DEF Alone
<1>2. CASE ClientStep /\ \E db \in CloudDatabases : AddDatabase(db) \/ RemoveDatabase(db)
  <2>1. pc' = pc /\ ~(UNCHANGED databases)
    <3>1. ASSUME NEW db \in CloudDatabases, AddDatabase(db) PROVE ~(UNCHANGED databases)
      BY <3>1, CreatedIsNew DEF AddDatabase, CreateCloudDatabase, databases
    <3>2. ASSUME NEW db \in CloudDatabases, RemoveDatabase(db) PROVE ~(UNCHANGED databases)
      BY <3>2 DEF RemoveDatabase, DeleteCloudDatabase, Named, databases
    <3>3. QED
      BY <1>2, <3>1, <3>2 DEF AddDatabase, RemoveDatabase, work
  <2>2. request[client] = None
    BY <1>2, <2>1 DEF ClientStep
  <2>3. pc[client] = "idle"
    BY <2>2, OrderlyParts, NoneAssumption DEF WorkerTyped
  <2>4. QED
    BY <2>1, <2>3 DEF UpToDate
<1>3. CASE TimePasses
  <2>1. /\ UNCHANGED <<targets, cloud_databases>> /\ UNCHANGED work
        /\ clock' = clock + 1 /\ clock \in Nat
    BY <1>3, OrderlyParts DEF TimePasses, Tick, databases
  <2>2. /\ req' = req /\ Matching(req.db)' = Matching(req.db)
        /\ \A db : Refusal(req, db)' = Refusal(req, db)
        /\ \A db, t : Asked(db, t)' = Asked(db, t)
    BY <2>1, SameFacts DEF work
  <2>3. ASSUME NEW db \in Matching(req.db), NEW t, Asked(db, t), Allowed(t)
        PROVE  Allowed(t)'
    <3>1. t \in ImageTarget
      BY <2>3, OrderlyParts, MatchingDatabases DEF Asked, Stored, NotDeleted, TypeOK
    <3>2. QED
      BY <2>1, <2>2, <2>3, <3>1, StatusesLast DEF Allowed
  <2>4. pc' = pc /\ seen' = seen /\ call' = call
    BY <2>1 DEF work
  <2>5. pc[client] = "decide" => \A db : Asked(db, seen[client].target)' =
                                          Asked(db, seen[client].target)
    BY <2>2, <2>4 DEF Asked
  <2>6. QED
    BY <2>2, <2>3, <2>4, <2>5, OrderlyParts DEF UpToDate
<1>4. CASE UNCHANGED service_vars
  <2>1. UNCHANGED <<targets, cloud_databases, clock, pc, request, seen, call>>
    BY <1>4 DEF service_vars, manager, databases, work
  <2>2. /\ req' = req /\ Matching(req.db)' = Matching(req.db)
        /\ \A db : Refusal(req, db)' = Refusal(req, db)
        /\ \A db, t : Asked(db, t)' = Asked(db, t)
    BY <2>1, SameFacts
  <2>3. \A t : Allowed(t)' = Allowed(t)
    BY <2>1, <2>2 DEF Allowed
  <2>4. \A db : Asked(db, seen[client].target)' = Asked(db, seen[client].target)
    BY <2>1, <2>2 DEF Asked
  <2>5. QED
    BY <2>1, <2>2, <2>3, <2>4, OrderlyParts DEF UpToDate
<1>5. QED
  BY <1>1, <1>2, <1>3, <1>4 DEF Alone, ClientStep, ServiceNext, WorkerAction

LEMMA OrderlyPreserved ==
    ASSUME Alone, Orderly, [ClientStep]_service_vars
    PROVE  Orderly'
<1>1. ServiceTyped /\ IdsKept /\ FiniteTargets /\ [ServiceNext]_service_vars
  BY DEF Orderly, ClientStep
<1>2. ServiceTyped' /\ FiniteTargets' /\ IdsKept'
  BY <1>1, ServiceTypedPreserved, FiniteTargetsStay, ServiceIdSteps, IdsKeptPreserved
     DEF ServiceTyped, Managed
<1>3. NamesUnique' /\ QuotaRespected'
  BY ContractStep, RulesPreserved
<1>4. QED
  BY <1>2, <1>3, UpToDatePreserved DEF Orderly

LEMMA OrderlyInit ==
    ASSUME Alone, ServiceInit
    PROVE  Orderly /\ Contract!Init
<1>1. ServiceTyped /\ IdsKept
  BY InitServiceTyped, InitIdsKept
<1>2. FiniteTargets
  BY FS_EmptySet DEF ServiceInit, Init, FiniteTargets
<1>3. cloud_databases = {} /\ client \in Workers
  BY DEF ServiceInit, Init, Alone
<1>4. NamesUnique /\ QuotaRespected
  BY <1>3 DEF NamesUnique, QuotaRespected
<1>5. UpToDate
  BY <1>3 DEF ServiceInit, UpToDate
<1>6. Contract!Init
  BY <1>3 DEF ServiceInit, Init, Contract!Init
<1>7. QED
  BY <1>1, <1>2, <1>4, <1>5, <1>6 DEF Orderly

-----------------------------------------------------------------------------
\* To a client that waits for its answers, and is the only one, each request
\* is one atomic operation on the targets, with the refusals and the answers
\* of the contract, however its two copies, its decision and its call to the
\* target manager (_flask_server/vws.py) are spread over time.
THEOREM ContractImplemented == ASSUME Alone PROVE OneClient => ImplementsContract
<1>1. ServiceInit => Orderly /\ Contract!Init
  BY OrderlyInit
<1>2. Orderly /\ [ClientStep]_service_vars => Orderly'
  BY OrderlyPreserved
<1>3. Orderly /\ [ClientStep]_service_vars => [Contract!Next]_(Contract!vars)
  BY ContractStep
<1>4. QED
  BY <1>1, <1>2, <1>3, PTL DEF OneClient, ClientStep, ImplementsContract, Contract!Spec

\* With one client no database ever holds more targets than its quota.
THEOREM QuotaStaysRespected == ASSUME Alone PROVE OneClient => []QuotaRespected
<1>1. ServiceInit => Orderly
  BY OrderlyInit
<1>2. Orderly /\ [ClientStep]_service_vars => Orderly'
  BY OrderlyPreserved
<1>3. Orderly => QuotaRespected
  BY DEF Orderly
<1>4. QED
  BY <1>1, <1>2, <1>3, PTL DEF OneClient, ClientStep

\* With one client no two targets of a database ever have the same name, and
\* so no update fails because it finds two.
THEOREM NamesStayUnique == ASSUME Alone PROVE OneClient => []NamesUnique
<1>1. ServiceInit => Orderly
  BY OrderlyInit
<1>2. Orderly /\ [ClientStep]_service_vars => Orderly'
  BY OrderlyPreserved
<1>3. Orderly => NamesUnique
  BY DEF Orderly
<1>4. QED
  BY <1>1, <1>2, <1>3, PTL DEF OneClient, ClientStep
=============================================================================
