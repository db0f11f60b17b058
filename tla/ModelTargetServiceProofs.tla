---------------------- MODULE ModelTargetServiceProofs ----------------------
(***************************************************************************)
(* Theorems about ModelTargetService, for any number of threads and of     *)
(* connections, and for every set of ids, scopes, tokens and workloads.    *)
(***************************************************************************)
EXTENDS ModelTargetService, FiniteSetTheorems, TLAPS

-----------------------------------------------------------------------------
\* What the fields of requests and calls can be.
OnCredentials == {"create_credential", "update_scopes", "delete_credential",
                  "list_credentials", "oauth2_token"}
OnDatasets == {"status", "download", "delete_dataset"}
OnlyLocal == {"create_dataset", "create_report", "download_report"}

LEMMA OfRequest ==
    ASSUME NEW r \in Request
    PROVE  /\ r.op \in OnCredentials \cup OnDatasets \cup OnlyLocal
           /\ r.op \in {"create_credential", "update_scopes"} =>
                r.scopes \in ScopeLists
           /\ r.op \in {"update_scopes", "delete_credential"} =>
                r.client_id \in ClientIds
           /\ r.op = "oauth2_token" => r.client_id \in ClientIds \cup {FixedClientId}
           /\ r.op = "create_dataset" => r.type \in Types
           /\ r.op \in OnDatasets => r.uuid \in Uuids /\ r.type \in Types
           /\ r.op = "download_report" => r.report \in ReportIds
           /\ r # None
  BY NoneAssumption DEF Request, CredentialRequest, DatasetRequest, ReportRequest,
     OnCredentials, OnDatasets, OnlyLocal

LEMMA OfCall ==
    ASSUME NEW c \in Call
    PROVE  /\ c.op \in {"put_credential", "remove_credential", "add_dataset",
                        "remove_dataset"}
           /\ c.op = "put_credential" => /\ c.client_id \in ClientIds
                                         /\ c.scopes \in ScopeLists
           /\ c.op = "remove_credential" => c.client_id \in ClientIds
           /\ c.op = "add_dataset" => c.uuid \in Uuids /\ c.dataset \in Dataset
           /\ c.op = "remove_dataset" => c.uuid \in Uuids
           /\ c # None
  BY NoneAssumption DEF Call

LEMMA MadeCalls ==
    /\ \A id \in ClientIds : \A s \in ScopeLists :
         [op |-> "put_credential", client_id |-> id, scopes |-> s] \in Call
    /\ \A id \in ClientIds : [op |-> "remove_credential", client_id |-> id] \in Call
    /\ \A uuid \in Uuids : \A d \in Dataset :
         [op |-> "add_dataset", uuid |-> uuid, dataset |-> d] \in Call
    /\ \A uuid \in Uuids : [op |-> "remove_dataset", uuid |-> uuid] \in Call
  BY DEF Call

LEMMA LoadedIsSame ==
    ASSUME NEW d \in Dataset, NEW now
    PROVE  Loaded(d, now) = d
  BY DEF Dataset, Loaded

-----------------------------------------------------------------------------
\* What a worker is doing at each place of its program.
FitsRequest(c, r) ==
    \/ r.op \in {"create_credential", "update_scopes"} /\ c.op = "put_credential"
    \/ r.op = "delete_credential" /\ c.op = "remove_credential"
    \/ r.op = "create_dataset" /\ c.op = "add_dataset"
    \/ r.op = "delete_dataset" /\ c.op = "remove_dataset" /\ c.uuid = r.uuid

At(w) ==
    /\ pc[w] = "fetch" => request[w].op \in OnCredentials \cup OnDatasets
    /\ pc[w] = "local" => request[w].op \in OnlyLocal
    /\ pc[w] \in {"status", "training"} => request[w].op \in {"status", "download"}
    /\ pc[w] = "available" => request[w].op = "download_report"
    /\ pc[w] \in {"call", "remove"} => FitsRequest(call[w], request[w])
    /\ pc[w] = "remove" => call[w].op = "remove_credential"
    /\ pc[w] = "answer" =>
         /\ request[w].op = "create_dataset" /\ answer[w].code = "Created" =>
              answer[w].body \in Uuids
         /\ request[w].op = "create_report" => answer[w].body \in ReportIds
    /\ pc[w] \notin {"idle", "answer"} => Authorized(request[w])

Shapes ==
    /\ answer = [w \in Workers |-> answer[w]]
    /\ copy = [w \in Workers |-> copy[w]]

Typed == TypeOK /\ Shapes /\ \A w \in Workers : At(w)

\* Only the program of one worker moves on.
Alone(w) ==
    \A v \in Workers \ {w} :
       /\ pc'[v] = pc[v] /\ request'[v] = request[v] /\ call'[v] = call[v]
       /\ answer'[v] = answer[v] /\ copy'[v] = copy[v]

LEMMA AtFrame ==
    ASSUME NEW w \in Workers, NEW v \in Workers \ {w}, Alone(w), At(v)
    PROVE  At(v)'
  BY DEF Alone, At, FitsRequest, Authorized

LEMMA Responded ==
    ASSUME Typed, NEW w \in Workers, NEW code, NEW body, Respond(w, code, body)
    PROVE  pc'[w] = "answer" /\ answer'[w].code = code /\ answer'[w].body = body
<1>1. pc'[w] = "answer"
  BY DEF Typed, TypeOK, Respond, GoTo
<1>2. DOMAIN answer = Workers
  BY DEF Typed, Shapes
<1>3. answer'[w] = [code |-> code, body |-> body]
  BY <1>2 DEF Respond
<1>4. QED
  BY <1>1, <1>3

LEMMA TypedInit == Init => Typed
  BY ServiceAssumption, StoresAssumption, NoneAssumption
     DEF Init, StoresInit, Typed, TypeOK, Shapes, At, Places

LEMMA TypedReceive ==
    ASSUME Typed, NEW w \in Workers, Receive(w)
    PROVE  Typed'
<1>1. PICK req \in Request :
        /\ request' = [request EXCEPT ![w] = req]
        /\ IF ~Authorized(req) THEN Respond(w, "Forbidden", None)
           ELSE /\ GoTo(w, IF req.op \in OnlyLocal THEN "local" ELSE "fetch")
                /\ UNCHANGED answer
        /\ held' = IF req.op = "oauth2_token" /\ req.client_id \in Present(credentials)
                   THEN [held EXCEPT ![w] = credentials[req.client_id]] ELSE held
        /\ asked' = IF Deletes(req) THEN asked \cup {req.uuid} ELSE asked
        /\ due' = IF Deletes(req)
                  THEN {v \in due : request[v].op = "download_report"
                                      \/ request[v].uuid # req.uuid}
                  ELSE IF Ready(req) /\ Authorized(req) THEN due \cup {w} ELSE due
  BY DEF Receive, OnlyLocal
<1>2. TypeOK'
  <2>1. /\ pc' \in [Workers -> Places]
        /\ request' \in [Workers -> Request \cup {None}]
        /\ \A v \in Workers : pc'[v] = "idle" <=> request'[v] = None
        /\ \A v \in Workers : pc'[v] \in {"call", "remove"} <=> call'[v] # None
        /\ \A v \in Workers : pc'[v] \in {"status", "training"} => copy'[v] \in Dataset
        /\ \A v \in Workers : pc'[v] = "available" => copy'[v] \in Nat
    BY <1>1, OfRequest DEF Typed, TypeOK, Receive, GoTo, Respond, Places
  <2>2. held' \in [Workers -> SUBSET Scopes]
    BY <1>1, ServiceAssumption DEF Typed, TypeOK, Present
  <2>3. asked' \subseteq Uuids /\ due' \subseteq Workers
    BY <1>1, OfRequest DEF Typed, TypeOK, Deletes, OnDatasets
  <2>4. QED
    BY <2>1, <2>2, <2>3 DEF Receive, Typed, TypeOK, stores
<1>3. Shapes'
  BY <1>1 DEF Typed, Shapes, Receive, Respond
<1>4. At(w)'
  <2>1. request'[w] = req
    BY <1>1 DEF Typed, TypeOK
  <2>2. CASE Authorized(req)
    <3>1. pc'[w] = IF req.op \in OnlyLocal THEN "local" ELSE "fetch"
      BY <1>1, <2>2 DEF Typed, TypeOK, GoTo
    <3>2. Authorized(request[w])'
      BY <2>1, <2>2
    <3>3. QED
      BY <2>1, <3>1, <3>2, OfRequest DEF At
  <2>3. CASE ~Authorized(req)
    <3>1. pc'[w] = "answer" /\ answer'[w].code = "Forbidden"
      BY <1>1, <2>3, Responded
    <3>2. req.op # "create_report"
      BY <2>3 DEF Authorized
    <3>3. QED
      BY <2>1, <3>1, <3>2 DEF At
  <2>4. QED
    BY <2>2, <2>3
<1>5. Alone(w)
  BY <1>1 DEF Typed, TypeOK, Shapes, Receive, Respond, GoTo, Alone
<1>6. QED
  BY <1>2, <1>3, <1>4, <1>5, AtFrame DEF Typed

\* A step of a worker which is serving a request.
Becomes(w, p, c, a, k) ==
    /\ pc' = [pc EXCEPT ![w] = p]
    /\ call' = [call EXCEPT ![w] = c]
    /\ answer' = [answer EXCEPT ![w] = a]
    /\ copy' = [copy EXCEPT ![w] = k]
    /\ UNCHANGED request

\* What a worker may be doing for a request.
Fits(r, p, c, a, k) ==
    /\ p \in {"status", "training", "available", "call", "remove", "answer"}
    /\ c \in Call \cup {None}
    /\ p \in {"call", "remove"} <=> c # None
    /\ p \in {"status", "training"} => k \in Dataset /\ r.op \in {"status", "download"}
    /\ p = "available" => k \in Nat /\ r.op = "download_report"
    /\ p \in {"call", "remove"} => FitsRequest(c, r)
    /\ p = "remove" => c.op = "remove_credential"
    /\ p = "answer" =>
         /\ r.op = "create_dataset" /\ a.code = "Created" => a.body \in Uuids
         /\ r.op = "create_report" => a.body \in ReportIds
    /\ p # "answer" => Authorized(r)

StoresTyped ==
    /\ clock \in 0 .. MaxClock
    /\ credentials \in [ClientIds -> ScopeLists \cup {None}]
    /\ datasets \in [Uuids -> Dataset \cup {None}]
    /\ reports \in [ReportIds -> Nat \cup {None}]
    /\ issued \subseteq ClientIds \cup Uuids \cup ReportIds
    /\ workload \in Workloads
    /\ late \in [Lines -> Call \cup {None}]
    /\ held \in [Workers -> SUBSET Scopes]
    /\ gone \subseteq ClientIds /\ told \subseteq Uuids \cup ReportIds
    /\ asked \subseteq Uuids /\ due \subseteq Workers

LEMMA BecomesOne ==
    ASSUME Typed, NEW w \in Workers, NEW p, NEW c, NEW a, NEW k, Becomes(w, p, c, a, k)
    PROVE  /\ pc'[w] = p /\ call'[w] = c /\ answer'[w] = a /\ copy'[w] = k
           /\ request'[w] = request[w]
           /\ Alone(w)
<1>1. DOMAIN answer = Workers /\ DOMAIN copy = Workers
  BY DEF Typed, Shapes
<1>2. QED
  BY <1>1 DEF Becomes, Typed, TypeOK, Alone

LEMMA TypedStep ==
    ASSUME Typed, StoresTyped', NEW w \in Workers, pc[w] # "idle",
           NEW p, NEW c, NEW a, NEW k, Becomes(w, p, c, a, k),
           Fits(request[w], p, c, a, k)
    PROVE  Typed'
<1>1. /\ pc'[w] = p /\ call'[w] = c /\ answer'[w] = a /\ copy'[w] = k
      /\ request'[w] = request[w]
      /\ Alone(w)
  BY BecomesOne
<1>2. pc' \in [Workers -> Places] /\ call' \in [Workers -> Call \cup {None}]
  BY DEF Typed, TypeOK, Becomes, Fits, Places
<1>3. request' \in [Workers -> Request \cup {None}] /\ request[w] # None
  BY DEF Typed, TypeOK, Becomes
<1>4. \A v \in Workers :
         /\ pc'[v] = "idle" <=> request'[v] = None
         /\ pc'[v] \in {"call", "remove"} <=> call'[v] # None
         /\ pc'[v] \in {"status", "training"} => copy'[v] \in Dataset
         /\ pc'[v] = "available" => copy'[v] \in Nat
  BY <1>1, <1>3 DEF Typed, TypeOK, Alone, Fits
<1>5. TypeOK'
  BY <1>2, <1>3, <1>4 DEF StoresTyped, TypeOK
<1>6. Shapes'
  BY DEF Typed, Shapes, Becomes
<1>7. Authorized(request[w])' <=> Authorized(request[w])
  BY <1>1 DEF Authorized
<1>8. At(w)'
  BY <1>1, <1>7 DEF At, Fits, FitsRequest
<1>9. QED
  BY <1>1, <1>5, <1>6, <1>8, AtFrame DEF Typed
LEMMA Unmoved ==
    ASSUME Typed, NEW w \in Workers
    PROVE  /\ call = [call EXCEPT ![w] = call[w]]
           /\ answer = [answer EXCEPT ![w] = answer[w]]
           /\ copy = [copy EXCEPT ![w] = copy[w]]
  BY DEF Typed, TypeOK, Shapes

Moves(w) ==
    \E p, c, a, k : Becomes(w, p, c, a, k) /\ Fits(request[w], p, c, a, k)

LEMMA CredentialsMove ==
    ASSUME Typed, NEW w \in Workers, ServeCredentials(w)
    PROVE  Moves(w) /\ pc[w] = "fetch" /\ request[w].op \in OnCredentials
<1>0. /\ pc[w] = "fetch" /\ request[w].op \in OnCredentials
      /\ request[w] \in Request /\ Authorized(request[w]) /\ call[w] = None
      /\ UNCHANGED <<request, copy>>
  BY DEF ServeCredentials, CreateCredential, UpdateScopes, AskToDeleteCredential,
     ListCredentials, GrantToken, Fetching, OnCredentials, Typed, TypeOK, At
<1> SUFFICES Moves(w)
  BY <1>0
<1>1. ASSUME NEW code, NEW body, Respond(w, code, body), UNCHANGED call
      PROVE  Moves(w)
  <2>1. Becomes(w, "answer", None, [code |-> code, body |-> body], copy[w])
    BY <1>0, <1>1, Unmoved DEF Becomes, Respond, GoTo
  <2>2. Fits(request[w], "answer", None, [code |-> code, body |-> body], copy[w])
    BY <1>0 DEF Fits, OnCredentials
  <2>3. QED
    BY <2>1, <2>2 DEF Moves
<1>2. ASSUME NEW c \in Call, Send(w, c), UNCHANGED answer, FitsRequest(c, request[w])
      PROVE  Moves(w)
  <2>1. Becomes(w, "call", c, answer[w], copy[w])
    BY <1>0, <1>2, Unmoved DEF Becomes, Send, GoTo
  <2>2. Fits(request[w], "call", c, answer[w], copy[w])
    BY <1>0, <1>2, OfCall DEF Fits
  <2>3. QED
    BY <2>1, <2>2 DEF Moves
<1>3. CASE CreateCredential(w)
  <2>1. ASSUME NEW id \in ClientIds \ issued,
               Send(w, [op |-> "put_credential", client_id |-> id,
                        scopes |-> request[w].scopes]),
               UNCHANGED answer
        PROVE  Moves(w)
    <3>1. request[w].op = "create_credential" /\ request[w].scopes \in ScopeLists
      BY <1>0, <1>3, OfRequest DEF CreateCredential, Fetching
    <3>2. QED
      BY <1>2, <2>1, <3>1, MadeCalls DEF FitsRequest
  <2>2. QED
    BY <1>1, <1>3, <2>1 DEF CreateCredential
<1>4. CASE UpdateScopes(w)
  <2>1. /\ request[w].op = "update_scopes" /\ request[w].scopes \in ScopeLists
        /\ request[w].client_id \in ClientIds
    BY <1>0, <1>4, OfRequest DEF UpdateScopes, Fetching
  <2>2. QED
    BY <1>1, <1>2, <1>4, <2>1, MadeCalls DEF UpdateScopes, FitsRequest
<1>5. CASE AskToDeleteCredential(w)
  <2>1. /\ request[w].op = "delete_credential" /\ request[w].client_id \in ClientIds
    BY <1>0, <1>5, OfRequest DEF AskToDeleteCredential, Fetching
  <2>2. QED
    BY <1>1, <1>2, <1>5, <2>1, MadeCalls DEF AskToDeleteCredential, FitsRequest
<1>6. CASE ListCredentials(w)
  BY <1>1, <1>6 DEF ListCredentials
<1>7. CASE GrantToken(w)
  <2>1. PICK granted : Respond(w, granted.code, granted.body)
    BY <1>7 DEF GrantToken
  <2>2. QED
    BY <1>1, <1>7, <2>1 DEF GrantToken
<1>8. QED
  BY <1>0, <1>3, <1>4, <1>5, <1>6, <1>7 DEF ServeCredentials

LEMMA DatasetsMove ==
    ASSUME Typed, NEW w \in Workers, ServeDatasets(w)
    PROVE  Moves(w) /\ pc[w] \in {"local", "fetch", "status", "training"}
<1>0. /\ pc[w] \in {"local", "fetch", "status", "training"}
      /\ request[w] \in Request /\ Authorized(request[w]) /\ call[w] = None
      /\ request[w].op \in OnDatasets \cup {"create_dataset"}
      /\ UNCHANGED request
  BY DEF ServeDatasets, CreateDataset, FindDataset, FindDatasetToDelete,
     ReadStatus, ReadTrainingStatus, Fetching, OnDatasets, Typed, TypeOK, At
<1> SUFFICES Moves(w)
  BY <1>0
<1>1. ASSUME NEW code, NEW body, Respond(w, code, body), UNCHANGED call, code # "Created",
             NEW k, copy' = [copy EXCEPT ![w] = k]
      PROVE  Moves(w)
  <2>1. Becomes(w, "answer", None, [code |-> code, body |-> body], k)
    BY <1>0, <1>1, Unmoved DEF Becomes, Respond, GoTo
  <2>2. Fits(request[w], "answer", None, [code |-> code, body |-> body], k)
    BY <1>0, <1>1 DEF Fits, OnDatasets
  <2>3. QED
    BY <2>1, <2>2 DEF Moves
<1>2. ASSUME NEW c \in Call, Send(w, c), UNCHANGED <<answer, copy>>,
             FitsRequest(c, request[w])
      PROVE  Moves(w)
  <2>1. Becomes(w, "call", c, answer[w], copy[w])
    BY <1>0, <1>2, Unmoved DEF Becomes, Send, GoTo
  <2>2. Fits(request[w], "call", c, answer[w], copy[w])
    BY <1>0, <1>2, OfCall DEF Fits
  <2>3. QED
    BY <2>1, <2>2 DEF Moves
<1>3. ASSUME NEW p \in {"status", "training"}, GoTo(w, p), UNCHANGED <<answer, call>>,
             request[w].op \in {"status", "download"},
             NEW k \in Dataset, copy' = [copy EXCEPT ![w] = k]
      PROVE  Moves(w)
  <2>1. Becomes(w, p, None, answer[w], k)
    BY <1>0, <1>3, Unmoved DEF Becomes, GoTo
  <2>2. Fits(request[w], p, None, answer[w], k)
    BY <1>0, <1>3 DEF Fits
  <2>3. QED
    BY <2>1, <2>2 DEF Moves
<1>4. UNCHANGED copy => copy' = [copy EXCEPT ![w] = copy[w]]
  BY Unmoved
<1>5. CASE CreateDataset(w)
  <2>1. PICK uuid \in Uuids \ issued :
          Send(w, [op |-> "add_dataset", uuid |-> uuid, dataset |->
                   [type |-> request[w].type, created_at |-> clock]])
    BY <1>5 DEF CreateDataset
  <2>2. request[w].op = "create_dataset" /\ UNCHANGED <<answer, copy>>
    BY <1>5 DEF CreateDataset
  <2>3. [type |-> request[w].type, created_at |-> clock] \in Dataset
    BY <1>0, <2>2, OfRequest, StoresAssumption DEF Dataset, Typed, TypeOK
  <2>4. QED
    BY <1>2, <2>1, <2>2, <2>3, MadeCalls DEF FitsRequest
<1>6. CASE FindDataset(w)
  <2>1. request[w].op \in {"status", "download"} /\ UNCHANGED call
    BY <1>6 DEF FindDataset
  <2>2. CASE request[w].uuid \notin Present(datasets)
    BY <1>1, <1>4, <1>6, <2>1, <2>2 DEF FindDataset
  <2>3. CASE request[w].uuid \in Present(datasets)
    <3>1. datasets[request[w].uuid] \in Dataset
      BY <2>3 DEF Present, Typed, TypeOK
    <3>2. copy' = [copy EXCEPT ![w] = datasets[request[w].uuid]]
      BY <1>6, <2>3, <3>1, LoadedIsSame DEF FindDataset
    <3>3. QED
      BY <1>3, <1>6, <2>1, <2>3, <3>1, <3>2 DEF FindDataset
  <2>4. QED
    BY <2>2, <2>3
<1>7. CASE FindDatasetToDelete(w)
  <2>1. /\ request[w].op = "delete_dataset" /\ request[w].uuid \in Uuids
        /\ UNCHANGED copy
    BY <1>0, <1>7, OfRequest DEF FindDatasetToDelete, Fetching, OnDatasets
  <2>2. QED
    BY <1>1, <1>2, <1>4, <1>7, <2>1, MadeCalls DEF FindDatasetToDelete, FitsRequest
<1>8. CASE ReadStatus(w)
  <2>1. /\ request[w].op \in {"status", "download"} /\ copy[w] \in Dataset
        /\ UNCHANGED call
    BY <1>8 DEF ReadStatus, Typed, TypeOK, At
  <2>2. PICK k : copy' = [copy EXCEPT ![w] = k] /\ k = IF pc'[w] = "training"
                                                     THEN copy[w] ELSE None
    BY <1>8, Unmoved DEF ReadStatus
  <2>3. CASE GoTo(w, "training") /\ UNCHANGED answer
    <3>1. pc'[w] = "training"
      BY <2>3 DEF GoTo, Typed, TypeOK
    <3>2. QED
      BY <1>3, <2>1, <2>2, <2>3, <3>1
  <2>4. QED
    BY <1>1, <1>8, <2>1, <2>2, <2>3 DEF ReadStatus
<1>9. CASE ReadTrainingStatus(w)
  BY <1>1, <1>9 DEF ReadTrainingStatus
<1>10. QED
  BY <1>0, <1>5, <1>6, <1>7, <1>8, <1>9 DEF ServeDatasets
LEMMA ReportsMove ==
    ASSUME Typed, NEW w \in Workers, ServeReports(w)
    PROVE  Moves(w) /\ pc[w] \in {"local", "available"}
<1>0. /\ pc[w] \in {"local", "available"}
      /\ request[w] \in Request /\ Authorized(request[w]) /\ call[w] = None
      /\ request[w].op \in {"create_report", "download_report"}
      /\ UNCHANGED <<request, call>>
  BY DEF ServeReports, CreateReport, FindReport, DownloadReport, Typed, TypeOK, At
<1> SUFFICES Moves(w)
  BY <1>0
<1>1. ASSUME NEW code, NEW body, Respond(w, code, body),
             request[w].op = "create_report" => body \in ReportIds,
             NEW k, copy' = [copy EXCEPT ![w] = k]
      PROVE  Moves(w)
  <2>1. Becomes(w, "answer", None, [code |-> code, body |-> body], k)
    BY <1>0, <1>1, Unmoved DEF Becomes, Respond, GoTo
  <2>2. Fits(request[w], "answer", None, [code |-> code, body |-> body], k)
    BY <1>0, <1>1 DEF Fits
  <2>3. QED
    BY <2>1, <2>2 DEF Moves
<1>2. UNCHANGED copy => copy' = [copy EXCEPT ![w] = copy[w]]
  BY Unmoved
<1>3. CASE CreateReport(w)
  BY <1>1, <1>2, <1>3 DEF CreateReport
<1>4. CASE FindReport(w)
  <2>1. request[w].op = "download_report"
    BY <1>4 DEF FindReport
  <2>2. CASE request[w].report \notin Present(reports)
    BY <1>1, <1>2, <1>4, <2>1, <2>2 DEF FindReport
  <2>3. CASE request[w].report \in Present(reports)
    <3>1. reports[request[w].report] \in Nat
      BY <2>3 DEF Present, Typed, TypeOK
    <3>2. Becomes(w, "available", None, answer[w], reports[request[w].report])
      BY <1>0, <1>4, <2>3, Unmoved DEF FindReport, Becomes, GoTo
    <3>3. Fits(request[w], "available", None, answer[w], reports[request[w].report])
      BY <1>0, <2>1, <3>1 DEF Fits
    <3>4. QED
      BY <3>2, <3>3 DEF Moves
  <2>4. QED
    BY <2>2, <2>3
<1>5. CASE DownloadReport(w)
  <2>1. request[w].op = "download_report"
    BY <1>5 DEF DownloadReport, Typed, At
  <2>2. QED
    BY <1>1, <1>5, <2>1 DEF DownloadReport
<1>6. QED
  BY <1>0, <1>3, <1>4, <1>5 DEF ServeReports

LEMMA CallsMove ==
    ASSUME Typed, NEW w \in Workers, ServeCall(w)
    PROVE  Moves(w) /\ pc[w] \in {"call", "remove"}
<1>0. /\ pc[w] \in {"call", "remove"}
      /\ request[w] \in Request /\ Authorized(request[w]) /\ call[w] \in Call
      /\ FitsRequest(call[w], request[w])
      /\ request[w].op \notin {"create_report", "download_report"}
      /\ UNCHANGED <<request, copy>>
  BY DEF ServeCall, LookUp, Apply, Typed, TypeOK, At, FitsRequest
<1> SUFFICES Moves(w)
  BY <1>0
<1>1. ASSUME NEW code, NEW body, Respond(w, code, body),
             code = "Created" /\ request[w].op = "create_dataset" => body \in Uuids,
             call' = [call EXCEPT ![w] = None]
      PROVE  Moves(w)
  <2>1. Becomes(w, "answer", None, [code |-> code, body |-> body], copy[w])
    BY <1>0, <1>1, Unmoved DEF Becomes, Respond, GoTo
  <2>2. Fits(request[w], "answer", None, [code |-> code, body |-> body], copy[w])
    BY <1>0, <1>1 DEF Fits
  <2>3. QED
    BY <2>1, <2>2 DEF Moves
<1>2. CASE LookUp(w)
  <2>1. ASSUME GoTo(w, "remove"), UNCHANGED <<call, answer>>,
               call[w].op = "remove_credential"
        PROVE  Moves(w)
    <3>1. Becomes(w, "remove", call[w], answer[w], copy[w])
      BY <1>0, <2>1, Unmoved DEF Becomes, GoTo
    <3>2. Fits(request[w], "remove", call[w], answer[w], copy[w])
      BY <1>0, <2>1, OfCall DEF Fits
    <3>3. QED
      BY <3>1, <3>2 DEF Moves
  <2>2. QED
    BY <1>1, <1>2, <2>1 DEF LookUp
<1>3. CASE Apply(w)
  <2>1. request[w].op = "create_dataset" => call[w].uuid \in Uuids
    BY <1>0, OfCall DEF FitsRequest
  <2>2. \/ request[w].op = "create_credential"
           /\ Respond(w, "Created", call[w].client_id)
        \/ request[w].op = "create_dataset" /\ Respond(w, "Created", call[w].uuid)
        \/ request[w].op = "delete_credential" /\ Respond(w, "NoContent", None)
        \/ Respond(w, "OK", None)
    BY <1>3 DEF Apply
  <2>3. call' = [call EXCEPT ![w] = None]
    BY <1>3 DEF Apply
  <2>4. QED
    BY <1>1, <2>1, <2>2, <2>3
<1>4. QED
  BY <1>0, <1>2, <1>3 DEF ServeCall

LEMMA GiveUpMoves ==
    ASSUME Typed, NEW w \in Workers, GiveUp(w)
    PROVE  Moves(w) /\ pc[w] \in {"fetch", "call", "remove"}
<1>1. /\ pc[w] \in {"fetch", "call", "remove"}
      /\ request[w].op # "create_report"
      /\ UNCHANGED <<request, copy>>
      /\ Respond(w, "Timeout", None)
      /\ call' = [call EXCEPT ![w] = None]
  BY DEF GiveUp, Typed, At, FitsRequest, OnCredentials, OnDatasets
<1>2. Becomes(w, "answer", None, [code |-> "Timeout", body |-> None], copy[w])
  BY <1>1, Unmoved DEF Becomes, Respond, GoTo
<1>3. Fits(request[w], "answer", None, [code |-> "Timeout", body |-> None], copy[w])
  BY <1>1 DEF Fits
<1>4. QED
  BY <1>1, <1>2, <1>3 DEF Moves

\* The stores after a call was carried out.
LEMMA PerformTyped ==
    ASSUME Typed, NEW c \in Call, Perform(c)
    PROVE  /\ credentials' \in [ClientIds -> ScopeLists \cup {None}]
           /\ datasets' \in [Uuids -> Dataset \cup {None}]
           /\ held' \in [Workers -> SUBSET Scopes]
           /\ gone' \subseteq ClientIds
<1>0. StoresTyped /\ (c.op = "add_dataset" => Loaded(c.dataset, clock) = c.dataset)
  BY OfCall, LoadedIsSame DEF Typed, TypeOK, StoresTyped
<1>1. CASE c.op = "put_credential" /\ PutCredential(c.client_id, c.scopes)
             /\ held' = Held(c.client_id, c.scopes) /\ UNCHANGED gone
  <2>1. c.scopes \in ScopeLists /\ c.scopes \subseteq Scopes
    BY <1>1, OfCall, ServiceAssumption
  <2>2. held' \in [Workers -> SUBSET Scopes]
    BY <1>0, <1>1, <2>1 DEF StoresTyped, Held
  <2>3. QED
    BY <1>0, <1>1, <2>1, <2>2 DEF StoresTyped, PutCredential
<1>2. CASE c.op = "remove_credential" /\ DeleteCredential(c.client_id)
             /\ gone' = gone \cup ({c.client_id} \ Putting) /\ UNCHANGED held
  BY <1>0, <1>2, OfCall DEF StoresTyped, DeleteCredential
<1>3. CASE c.op = "add_dataset" /\ AddDataset(c.uuid, Loaded(c.dataset, clock))
             /\ UNCHANGED <<held, gone>>
  BY <1>0, <1>3, OfCall DEF StoresTyped, AddDataset
<1>4. CASE c.op = "remove_dataset" /\ RemoveDataset(c.uuid) /\ UNCHANGED <<held, gone>>
  BY <1>0, <1>4, OfCall DEF StoresTyped, RemoveDataset
<1>5. QED
  BY <1>1, <1>2, <1>3, <1>4 DEF Perform
LEMMA TypedMove ==
    ASSUME Typed, NEW w \in Workers, Moves(w), pc[w] # "idle", StoresTyped'
    PROVE  Typed'
  BY TypedStep DEF Moves

LEMMA TypedServe ==
    ASSUME Typed, NEW w \in Workers, Serve(w)
    PROVE  Typed'
<1>0. StoresTyped
  BY DEF Typed, TypeOK, StoresTyped
<1>1. CASE ServeCredentials(w)
  <2>1. issued' \subseteq ClientIds \cup Uuids \cup ReportIds
    BY <1>0, <1>1 DEF StoresTyped, ServeCredentials, CreateCredential, UpdateScopes,
       AskToDeleteCredential, ListCredentials, GrantToken
  <2>2. StoresTyped'
    BY <1>0, <1>1, <2>1 DEF StoresTyped, ServeCredentials, stores, history
  <2>3. QED
    BY <1>1, <2>2, CredentialsMove, TypedMove
<1>2. CASE ServeDatasets(w)
  <2>1. issued' \subseteq ClientIds \cup Uuids \cup ReportIds
    BY <1>0, <1>2 DEF StoresTyped, ServeDatasets, CreateDataset, FindDataset,
       FindDatasetToDelete, ReadStatus, ReadTrainingStatus
  <2>2. StoresTyped'
    BY <1>0, <1>2, <2>1 DEF StoresTyped, ServeDatasets, stores, history
  <2>3. QED
    BY <1>2, <2>2, DatasetsMove, TypedMove
<1>3. CASE ServeReports(w)
  <2>1. /\ issued' \subseteq ClientIds \cup Uuids \cup ReportIds
        /\ reports' \in [ReportIds -> Nat \cup {None}]
    BY <1>0, <1>3 DEF StoresTyped, ServeReports, CreateReport, FindReport,
       DownloadReport
  <2>2. StoresTyped'
    BY <1>0, <1>3, <2>1 DEF StoresTyped, ServeReports, stores, history
  <2>3. QED
    BY <1>3, <2>2, ReportsMove, TypedMove
<1>4. CASE ServeCall(w)
  <2>1. /\ credentials' \in [ClientIds -> ScopeLists \cup {None}]
        /\ datasets' \in [Uuids -> Dataset \cup {None}]
        /\ held' \in [Workers -> SUBSET Scopes]
        /\ gone' \subseteq ClientIds
    <3>1. CASE LookUp(w)
      BY <1>0, <3>1 DEF LookUp, StoresTyped, stores
    <3>2. CASE Apply(w)
      <4>1. call[w] \in Call
        BY <3>2 DEF Apply, Typed, TypeOK
      <4>2. QED
        BY <3>2, <4>1, PerformTyped DEF Apply
    <3>3. QED
      BY <1>4, <3>1, <3>2 DEF ServeCall
  <2>2. StoresTyped'
    BY <1>0, <1>4, <2>1 DEF StoresTyped, ServeCall
  <2>3. QED
    BY <1>4, <2>2, CallsMove, TypedMove
<1>5. QED
  BY <1>1, <1>2, <1>3, <1>4 DEF Serve

LEMMA TypedGiveUp ==
    ASSUME Typed, NEW w \in Workers, GiveUp(w)
    PROVE  Typed'
<1>0. StoresTyped
  BY DEF Typed, TypeOK, StoresTyped
<1>1. late' \in [Lines -> Call \cup {None}]
  BY DEF Typed, TypeOK, GiveUp
<1>2. StoresTyped'
  BY <1>0, <1>1 DEF StoresTyped, GiveUp, stores, history
<1>3. QED
  BY <1>2, GiveUpMoves, TypedMove

LEMMA TypedAnswer ==
    ASSUME Typed, NEW w \in Workers, Answer(w)
    PROVE  Typed'
<1>0. StoresTyped /\ pc[w] = "answer" /\ At(w)
  BY DEF Typed, TypeOK, StoresTyped, Answer
<1>1. StoresTyped'
  <2>1. told' \subseteq Uuids \cup ReportIds
    BY <1>0 DEF Answer, At, StoresTyped
  <2>2. held' \in [Workers -> SUBSET Scopes]
    BY <1>0 DEF Answer, StoresTyped
  <2>3. QED
    BY <1>0, <2>1, <2>2 DEF StoresTyped, Answer, stores
<1>2. pc' \in [Workers -> Places] /\ pc'[w] = "idle"
  BY DEF Typed, TypeOK, Answer, GoTo, Places
<1>3. request' \in [Workers -> Request \cup {None}] /\ request'[w] = None
  BY DEF Typed, TypeOK, Answer
<1>4. Alone(w)
  BY DEF Typed, TypeOK, Shapes, Answer, GoTo, Alone
<1>5. UNCHANGED <<call, copy>>
  BY DEF Answer
<1>6. \A v \in Workers :
         /\ pc'[v] = "idle" <=> request'[v] = None
         /\ pc'[v] \in {"call", "remove"} <=> call'[v] # None
         /\ pc'[v] \in {"status", "training"} => copy'[v] \in Dataset
         /\ pc'[v] = "available" => copy'[v] \in Nat
  BY <1>0, <1>2, <1>3, <1>4, <1>5 DEF Typed, TypeOK, Alone
<1>7. TypeOK'
  BY <1>1, <1>2, <1>3, <1>5, <1>6 DEF StoresTyped, Typed, TypeOK
<1>8. Shapes'
  BY DEF Typed, Shapes, Answer
<1>9. At(w)'
  BY <1>2 DEF At
<1>10. QED
  BY <1>4, <1>7, <1>8, <1>9, AtFrame DEF Typed

LEMMA TypedOthers ==
    ASSUME Typed,
           \/ \E line \in Lines : ApplyLate(line)
           \/ Tick \/ UNCHANGED service_vars
    PROVE  Typed'
<1>0. StoresTyped
  BY DEF Typed, TypeOK, StoresTyped
<1>1. StoresTyped'
  <2>1. CASE \E line \in Lines : ApplyLate(line)
    <3>1. PICK line \in Lines : ApplyLate(line)
      BY <2>1
    <3>2. /\ credentials' \in [ClientIds -> ScopeLists \cup {None}]
          /\ datasets' \in [Uuids -> Dataset \cup {None}]
          /\ held' \in [Workers -> SUBSET Scopes]
          /\ gone' \subseteq ClientIds
      <4>1. CASE Perform(late[line])
        <5>1. late[line] \in Call
          BY <1>0, <3>1 DEF ApplyLate, StoresTyped
        <5>2. QED
          BY <4>1, <5>1, PerformTyped
      <4>2. CASE UNCHANGED <<stores, held, gone>>
        BY <1>0, <4>2 DEF StoresTyped, stores
      <4>3. QED
        BY <3>1, <4>1, <4>2 DEF ApplyLate
    <3>3. late' \in [Lines -> Call \cup {None}]
      BY <1>0, <3>1 DEF ApplyLate, StoresTyped
    <3>4. QED
      BY <1>0, <3>1, <3>2, <3>3 DEF ApplyLate, StoresTyped
  <2>2. CASE Tick
    <3>1. clock' \in 0 .. MaxClock
      BY <1>0, <2>2, StoresAssumption DEF Tick, TimePasses, StoresTyped
    <3>2. QED
      BY <1>0, <2>2, <3>1 DEF Tick, TimePasses, StoresTyped, stores, history
  <2>3. CASE UNCHANGED service_vars
    BY <1>0, <2>3 DEF service_vars, StoresTyped, stores, history
  <2>4. QED
    BY <2>1, <2>2, <2>3
<1>2. UNCHANGED work
  BY DEF ApplyLate, Tick, service_vars
<1>3. TypeOK' /\ Shapes'
  BY <1>1, <1>2 DEF Typed, TypeOK, StoresTyped, Shapes, work
<1>4. \A w \in Workers : At(w)'
  BY <1>2 DEF Typed, At, FitsRequest, Authorized, work
<1>5. QED
  BY <1>3, <1>4 DEF Typed

LEMMA TypedRestart ==
    ASSUME Typed, Restart
    PROVE  Typed'
<1>0. StoresTyped
  BY DEF Typed, TypeOK, StoresTyped
<1>1. late' \in [Lines -> Call \cup {None}]
  <2>1. PICK going \in [Lines -> Workers \cup {None}] :
          /\ \A line \in Lines : going[line] # None =>
               late[line] = None /\ call[going[line]] # None
          /\ late' = [line \in Lines |-> IF going[line] = None THEN late[line]
                                         ELSE call[going[line]]]
    BY DEF Restart
  <2>2. QED
    BY <1>0, <2>1 DEF StoresTyped, Typed, TypeOK
<1>2. StoresTyped'
  BY <1>0, <1>1 DEF StoresTyped, Restart, stores
<1>3. \A w \in Workers : pc'[w] = "idle" /\ request'[w] = None /\ call'[w] = None
  BY DEF Restart
<1>4. pc' \in [Workers -> Places] /\ request' \in [Workers -> Request \cup {None}]
      /\ call' \in [Workers -> Call \cup {None}]
  BY DEF Restart, Places
<1>5. TypeOK'
  BY <1>2, <1>3, <1>4 DEF StoresTyped, TypeOK
<1>6. Shapes'
  BY DEF Restart, Shapes
<1>7. \A w \in Workers : At(w)'
  BY <1>3 DEF At
<1>8. QED
  BY <1>5, <1>6, <1>7 DEF Typed

LEMMA TypedNext == Typed /\ [Next]_service_vars => Typed'
<1> SUFFICES ASSUME Typed, [Next]_service_vars PROVE Typed'
  OBVIOUS
<1>1. CASE \E w \in Workers : Receive(w) \/ Serve(w) \/ GiveUp(w) \/ Answer(w)
  BY <1>1, TypedReceive, TypedServe, TypedGiveUp, TypedAnswer
<1>2. CASE Restart
  BY <1>2, TypedRestart
<1>3. QED
  BY <1>1, <1>2, TypedOthers DEF Next

\* Types: every request finds the ids, copies and calls it needs, at every
\* place of its program and whatever the other threads, late calls and
\* restarts of the app do.
THEOREM TypeCorrect == Spec => []TypeOK
<1>1. Typed => TypeOK
  BY DEF Typed
<1>2. QED
  BY <1>1, TypedInit, TypedNext, PTL DEF Spec
-----------------------------------------------------------------------------
\* The calls on their way, and the credentials they are about.
Sent == {call[w] : w \in Workers} \cup {late[line] : line \in Lines}

Removing == {c.client_id : c \in {c \in Sent : c # None /\ c.op = "remove_credential"}}

LEMMA PuttingSent ==
    Putting = {c.client_id : c \in {c \in Sent : c # None /\ c.op = "put_credential"}}
  BY DEF Putting, Sent

\* A step sends at most one call.
LEMMA SentStep ==
    ASSUME NEW c, Sent' \subseteq Sent \cup {c}
    PROVE  /\ c # None /\ c.op = "put_credential" => Putting' \subseteq Putting \cup {c.client_id}
           /\ ~(c # None /\ c.op = "put_credential") => Putting' \subseteq Putting
           /\ c # None /\ c.op = "remove_credential" =>
                Removing' \subseteq Removing \cup {c.client_id}
           /\ ~(c # None /\ c.op = "remove_credential") => Removing' \subseteq Removing
<1>1. /\ Putting = {d.client_id : d \in {d \in Sent : d # None /\ d.op = "put_credential"}}
      /\ Putting' = {d.client_id : d \in {d \in Sent' : d # None /\ d.op = "put_credential"}}
  BY DEF Putting, Sent
<1>2. QED
  BY <1>1 DEF Removing

LEMMA SentByMove ==
    ASSUME Typed, NEW w \in Workers, NEW p, NEW c, NEW a, NEW k, Becomes(w, p, c, a, k),
           UNCHANGED late
    PROVE  Sent' \subseteq Sent \cup {c}
<1>1. call'[w] = c /\ \A v \in Workers \ {w} : call'[v] = call[v]
  BY BecomesOne DEF Alone
<1>2. QED
  BY <1>1 DEF Sent

\* A step that sends no call.
LEMMA NothingSent ==
    ASSUME Typed,
           \/ \E w \in Workers : Receive(w) \/ GiveUp(w) \/ Answer(w)
           \/ \E line \in Lines : ApplyLate(line)
           \/ Restart \/ Tick \/ UNCHANGED service_vars
    PROVE  Sent' \subseteq Sent \cup {None}
<1>1. CASE \E w \in Workers : GiveUp(w)
  <2>1. PICK w \in Workers : GiveUp(w)
    BY <1>1
  <2>2. call' = [call EXCEPT ![w] = None]
    BY <2>1 DEF GiveUp
  <2>3. \A v \in Workers : call'[v] \in {call[v], None}
    BY <2>2 DEF Typed, TypeOK
  <2>4. late' = late \/ \E line \in Lines : late' = [late EXCEPT ![line] = call[w]]
    BY <2>1 DEF GiveUp
  <2>5. \A line \in Lines : late'[line] \in {late[line], call[w]}
    BY <2>4 DEF Typed, TypeOK
  <2>6. QED
    BY <2>3, <2>5 DEF Sent
<1>2. CASE \E line \in Lines : ApplyLate(line)
  <2>1. PICK line \in Lines : ApplyLate(line)
    BY <1>2
  <2>2. UNCHANGED call /\ late' = [late EXCEPT ![line] = None]
    BY <2>1 DEF ApplyLate, work
  <2>3. \A l \in Lines : late'[l] \in {late[l], None}
    BY <2>2 DEF Typed, TypeOK
  <2>4. QED
    BY <2>2, <2>3 DEF Sent
<1>3. CASE Restart
  <2>1. PICK going \in [Lines -> Workers \cup {None}] :
          late' = [line \in Lines |-> IF going[line] = None THEN late[line]
                                      ELSE call[going[line]]]
    BY <1>3 DEF Restart
  <2>2. \A line \in Lines : late'[line] \in Sent
    BY <2>1 DEF Sent
  <2>3. \A w \in Workers : call'[w] = None
    BY <1>3 DEF Restart
  <2>4. QED
    BY <2>2, <2>3 DEF Sent
<1>4. UNCHANGED <<call, late>> => Sent' = Sent
  BY DEF Sent
<1>5. QED
  BY <1>1, <1>2, <1>3, <1>4 DEF Receive, Answer, Tick, service_vars, work

\* What a step does to the credentials.
Quiet ==
    /\ Putting' \subseteq Putting /\ Removing' \subseteq Removing
    /\ issued \subseteq issued' /\ UNCHANGED <<credentials, gone>>

Creates(id) ==
    /\ id \notin issued /\ Cardinality(Present(credentials)) < MaxClientCredentials
    /\ Putting' \subseteq Putting \cup {id} /\ Removing' \subseteq Removing
    /\ issued' = issued \cup {id} /\ UNCHANGED <<credentials, gone>>

Asks(id) ==
    /\ id \in Present(credentials)
    /\ Putting' \subseteq Putting \cup {id} /\ Removing' \subseteq Removing \cup {id}
    /\ UNCHANGED <<credentials, gone, issued>>

Puts(id, scopes) ==
    /\ id \in Putting
    /\ Putting' \subseteq Putting /\ Removing' \subseteq Removing
    /\ credentials' = [credentials EXCEPT ![id] = scopes] /\ UNCHANGED <<gone, issued>>

Removes(id) ==
    /\ id \in Removing
    /\ Putting' \subseteq Putting /\ Removing' \subseteq Removing
    /\ credentials' = [credentials EXCEPT ![id] = None] /\ UNCHANGED issued
    /\ gone' = gone \cup ({id} \ Putting)

CredentialStep ==
    \/ Quiet
    \/ \E id \in ClientIds : Creates(id) \/ Asks(id) \/ Removes(id)
    \/ \E id \in ClientIds : \E scopes \in ScopeLists : Puts(id, scopes)

LEMMA PerformCredentials ==
    ASSUME Typed, NEW c \in Sent, c # None, Perform(c), Sent' \subseteq Sent \cup {None},
           UNCHANGED issued
    PROVE  CredentialStep
<1>a. c \in Call
  BY DEF Sent, Typed, TypeOK
<1>b. Putting' \subseteq Putting /\ Removing' \subseteq Removing
  BY SentStep
<1>0. c \in Call /\ Putting' \subseteq Putting /\ Removing' \subseteq Removing
  BY <1>a, <1>b
<1>1. CASE c.op = "put_credential" /\ PutCredential(c.client_id, c.scopes) /\ UNCHANGED gone
  <2>1. c.client_id \in Putting /\ c.client_id \in ClientIds /\ c.scopes \in ScopeLists
    BY <1>0, <1>1, OfCall, PuttingSent
  <2>2. QED
    BY <1>0, <1>1, <2>1 DEF CredentialStep, Puts, PutCredential
<1>2. CASE c.op = "remove_credential" /\ DeleteCredential(c.client_id)
             /\ gone' = gone \cup ({c.client_id} \ Putting)
  <2>1. c.client_id \in Removing /\ c.client_id \in ClientIds
    BY <1>0, <1>2, OfCall DEF Removing
  <2>2. QED
    BY <1>0, <1>2, <2>1 DEF CredentialStep, Removes, DeleteCredential
<1>3. CASE UNCHANGED <<credentials, gone>>
  BY <1>0, <1>3 DEF CredentialStep, Quiet
<1>4. QED
  BY <1>1, <1>2, <1>3 DEF Perform, AddDataset, RemoveDataset
LEMMA CredentialsOfServe ==
    ASSUME Typed, NEW w \in Workers, ServeCredentials(w)
    PROVE  CredentialStep
<1>0. /\ request[w] \in Request /\ UNCHANGED <<credentials, gone, late>>
      /\ call \in [Workers -> Call \cup {None}]
  BY DEF ServeCredentials, CreateCredential, UpdateScopes, AskToDeleteCredential,
     ListCredentials, GrantToken, Fetching, stores, history, Typed, TypeOK
<1>1. ASSUME UNCHANGED <<call, issued>> PROVE CredentialStep
  <2>1. Sent' \subseteq Sent \cup {None}
    BY <1>0, <1>1 DEF Sent
  <2>2. QED
    BY <1>0, <1>1, <2>1, SentStep DEF CredentialStep, Quiet
<1>2. ASSUME NEW c \in Call, Send(w, c) PROVE Sent' \subseteq Sent \cup {c}
  <2>1. \A v \in Workers : call'[v] \in {call[v], c}
    BY <1>0, <1>2 DEF Send
  <2>2. QED
    BY <1>0, <2>1 DEF Sent
<1>3. CASE CreateCredential(w)
  <2>1. request[w].scopes \in ScopeLists
    BY <1>0, <1>3, OfRequest DEF CreateCredential, Fetching
  <2>2. ASSUME NEW id \in ClientIds \ issued,
               Send(w, [op |-> "put_credential", client_id |-> id,
                        scopes |-> request[w].scopes]),
               issued' = issued \cup {id},
               ~(Cardinality(Present(credentials)) >= MaxClientCredentials)
        PROVE  CredentialStep
    <3> DEFINE c == [op |-> "put_credential", client_id |-> id,
                     scopes |-> request[w].scopes]
    <3>1. c \in Call /\ c # None /\ c.op = "put_credential" /\ c.client_id = id
      BY <2>1, MadeCalls, OfCall
    <3>2. Sent' \subseteq Sent \cup {c}
      BY <1>2, <2>2, <3>1
    <3>3. Putting' \subseteq Putting \cup {id} /\ Removing' \subseteq Removing
      <4> HIDE DEF c
      <4> QED
        BY <3>1, <3>2, SentStep
    <3>4. Cardinality(Present(credentials)) \in Nat
      <4>1. IsFiniteSet(Present(credentials))
        BY StoresAssumption, FS_Subset DEF Present, Typed, TypeOK
      <4>2. QED
        BY <4>1, FS_CardinalityType
    <3>5. Cardinality(Present(credentials)) < MaxClientCredentials
      BY <2>2, <3>4, ServiceAssumption
    <3>6. Creates(id)
      BY <1>0, <2>2, <3>3, <3>5 DEF Creates
    <3>7. QED
      BY <3>6 DEF CredentialStep
  <2>3. QED
    BY <1>1, <1>3, <2>2 DEF CreateCredential
<1>4. ASSUME NEW c \in Call, Send(w, c), UNCHANGED issued,
             c.op \in {"put_credential", "remove_credential"},
             c.client_id \in Present(credentials)
      PROVE  CredentialStep
  <2>1. c # None /\ c.client_id \in ClientIds /\ Sent' \subseteq Sent \cup {c}
    BY <1>2, <1>4, OfCall
  <2>2. /\ Putting' \subseteq Putting \cup {c.client_id}
        /\ Removing' \subseteq Removing \cup {c.client_id}
    BY <1>4, <2>1, SentStep
  <2>3. Asks(c.client_id)
    BY <1>0, <1>4, <2>2 DEF Asks
  <2>4. QED
    BY <2>1, <2>3 DEF CredentialStep
<1>5. CASE UpdateScopes(w)
  <2>1. /\ request[w].client_id \in ClientIds /\ request[w].scopes \in ScopeLists
    BY <1>0, <1>5, OfRequest DEF UpdateScopes, Fetching
  <2>2. [op |-> "put_credential", client_id |-> request[w].client_id,
         scopes |-> request[w].scopes] \in Call
    BY <2>1, MadeCalls
  <2>3. QED
    BY <1>1, <1>4, <1>5, <2>2 DEF UpdateScopes
<1>6. CASE AskToDeleteCredential(w)
  <2>1. [op |-> "remove_credential", client_id |-> request[w].client_id] \in Call
    BY <1>0, <1>6, OfRequest, MadeCalls DEF AskToDeleteCredential, Fetching
  <2>2. QED
    BY <1>1, <1>4, <1>6, <2>1 DEF AskToDeleteCredential
<1>7. QED
  BY <1>1, <1>3, <1>5, <1>6 DEF ServeCredentials, ListCredentials, GrantToken

LEMMA CredentialSteps ==
    ASSUME Typed, [Next]_service_vars
    PROVE  CredentialStep
<1>0. call \in [Workers -> Call \cup {None}] /\ late \in [Lines -> Call \cup {None}]
  BY DEF Typed, TypeOK
<1>1. ASSUME NEW c, Sent' \subseteq Sent \cup {c}, issued \subseteq issued',
             UNCHANGED <<credentials, gone>>,
             c = None \/ c.op \notin {"put_credential", "remove_credential"}
      PROVE  CredentialStep
  BY <1>1, SentStep DEF CredentialStep, Quiet
<1>2. ASSUME NEW w \in Workers, Receive(w) \/ GiveUp(w) \/ Answer(w)
      PROVE  CredentialStep
  <2>1. Sent' \subseteq Sent \cup {None}
    BY <1>2, NothingSent
  <2>2. UNCHANGED <<credentials, gone, issued>>
    BY <1>2 DEF Receive, GiveUp, Answer, stores, history
  <2>3. QED
    BY <1>1, <2>1, <2>2
<1>3. ASSUME NEW w \in Workers, ServeDatasets(w) PROVE CredentialStep
  <2>1. UNCHANGED <<credentials, gone, late>>
    BY <1>3 DEF ServeDatasets, stores, history
  <2>2. CASE CreateDataset(w)
    <3>1. PICK uuid \in Uuids \ issued :
            /\ issued' = issued \cup {uuid}
            /\ Send(w, [op |-> "add_dataset", uuid |-> uuid, dataset |->
                        [type |-> request[w].type, created_at |-> clock]])
      BY <2>2 DEF CreateDataset
    <3> DEFINE c == [op |-> "add_dataset", uuid |-> uuid, dataset |->
                     [type |-> request[w].type, created_at |-> clock]]
    <3>2. c.op = "add_dataset" /\ call' = [call EXCEPT ![w] = c]
      BY <3>1 DEF Send
    <3> HIDE DEF c
    <3>3. \A v \in Workers : call'[v] \in {call[v], c}
      BY <1>0, <3>2
    <3>4. Sent' \subseteq Sent \cup {c}
      BY <2>1, <3>3 DEF Sent
    <3>5. QED
      BY <1>1, <2>1, <3>1, <3>2, <3>4
  <2>3. CASE FindDatasetToDelete(w)
    <3> DEFINE c == [op |-> "remove_dataset", uuid |-> request[w].uuid]
    <3>1. UNCHANGED issued /\ (UNCHANGED call \/ call' = [call EXCEPT ![w] = c])
      BY <2>3 DEF FindDatasetToDelete, Send
    <3>2. c.op = "remove_dataset"
      OBVIOUS
    <3> HIDE DEF c
    <3>3. \A v \in Workers : call'[v] \in {call[v], c}
      BY <1>0, <3>1
    <3>4. Sent' \subseteq Sent \cup {c}
      BY <2>1, <3>3 DEF Sent
    <3>5. QED
      BY <1>1, <2>1, <3>1, <3>2, <3>4
  <2>4. CASE UNCHANGED <<call, issued>>
    <3>1. Sent' \subseteq Sent \cup {None}
      BY <2>1, <2>4 DEF Sent
    <3>2. QED
      BY <1>1, <2>1, <2>4, <3>1
  <2>5. QED
    BY <1>3, <2>2, <2>3, <2>4 DEF ServeDatasets, FindDataset, ReadStatus,
       ReadTrainingStatus
<1>4. ASSUME NEW w \in Workers, ServeReports(w) PROVE CredentialStep
  <2>1. UNCHANGED <<credentials, gone, late, call>> /\ issued \subseteq issued'
    BY <1>4 DEF ServeReports, stores, history, CreateReport, FindReport, DownloadReport
  <2>2. Sent' \subseteq Sent \cup {None}
    BY <2>1 DEF Sent
  <2>3. QED
    BY <1>1, <2>1, <2>2
<1>5. ASSUME NEW w \in Workers, ServeCall(w) PROVE CredentialStep
  <2>1. UNCHANGED <<late, issued>>
    BY <1>5 DEF ServeCall
  <2>2. Sent' \subseteq Sent \cup {None}
    <3>1. call' \in {call, [call EXCEPT ![w] = None]}
      BY <1>5 DEF ServeCall, LookUp, Apply
    <3>2. \A v \in Workers : call'[v] \in {call[v], None}
      BY <1>0, <3>1
    <3>3. QED
      BY <2>1, <3>2 DEF Sent
  <2>3. CASE LookUp(w)
    <3>1. UNCHANGED <<credentials, gone>>
      BY <2>3 DEF LookUp, stores
    <3>2. QED
      BY <1>1, <2>1, <2>2, <3>1
  <2>4. CASE Apply(w)
    <3>1. call[w] \in Sent /\ call[w] # None /\ Perform(call[w])
      BY <2>4 DEF Apply, Sent, Typed, TypeOK
    <3>2. QED
      BY <2>1, <2>2, <3>1, PerformCredentials
  <2>5. QED
    BY <1>5, <2>3, <2>4 DEF ServeCall
<1>6. ASSUME NEW line \in Lines, ApplyLate(line) PROVE CredentialStep
  <2>1. Sent' \subseteq Sent \cup {None}
    BY <1>6, NothingSent
  <2>2. late[line] \in Sent /\ late[line] # None /\ UNCHANGED issued
    BY <1>6 DEF ApplyLate, Sent
  <2>3. CASE Perform(late[line])
    BY <2>1, <2>2, <2>3, PerformCredentials
  <2>4. CASE UNCHANGED <<stores, held, gone>>
    BY <1>1, <2>1, <2>2, <2>4 DEF stores
  <2>5. QED
    BY <1>6, <2>3, <2>4 DEF ApplyLate
<1>7. ASSUME Restart \/ Tick \/ UNCHANGED service_vars PROVE CredentialStep
  <2>1. Sent' \subseteq Sent \cup {None}
    BY <1>7, NothingSent
  <2>2. UNCHANGED <<credentials, gone, issued>>
    BY <1>7 DEF Restart, Tick, TimePasses, service_vars, stores, history
  <2>3. QED
    BY <1>1, <2>1, <2>2
<1>8. QED
  BY <1>2, <1>3, <1>4, <1>5, <1>6, <1>7, CredentialsOfServe DEF Next, Serve
-----------------------------------------------------------------------------
\* An id is new when a credential is made with it, and never used again.
Known ==
    Present(credentials) \cup Putting \cup Removing \cup gone \subseteq issued

\* What a step can add to the credentials there are, or may come to be.
LEMMA PresentStep ==
    ASSUME Typed, NEW id \in ClientIds, NEW s,
           credentials' = [credentials EXCEPT ![id] = s]
    PROVE  /\ Present(credentials)' \subseteq Present(credentials) \cup {id}
           /\ s = None => Present(credentials)' \subseteq Present(credentials) \ {id}
<1>1. credentials \in [ClientIds -> ScopeLists \cup {None}]
  BY DEF Typed, TypeOK
<1>2. DOMAIN credentials = ClientIds /\ DOMAIN credentials' = ClientIds
  BY <1>1
<1>3. \A key \in ClientIds : credentials'[key] = IF key = id THEN s ELSE credentials[key]
  BY <1>1
<1>4. Present(credentials)' = {key \in ClientIds : credentials'[key] # None}
  BY <1>2 DEF Present
<1>5. QED
  BY <1>2, <1>3, <1>4 DEF Present

LEMMA KnownStep ==
    ASSUME Typed, Known, DeletedCredentialGone, CredentialStep
    PROVE  Known' /\ DeletedCredentialGone'
<1>1. CASE Quiet
  BY <1>1 DEF Quiet, Known, DeletedCredentialGone, Present
<1>2. CASE \E id \in ClientIds : Creates(id)
  BY <1>2 DEF Creates, Known, DeletedCredentialGone, Present
<1>3. CASE \E id \in ClientIds : Asks(id)
  BY <1>3 DEF Asks, Known, DeletedCredentialGone, Present
<1>4. CASE \E id \in ClientIds : Removes(id)
  <2>1. PICK id \in ClientIds : Removes(id)
    BY <1>4
  <2>2. Present(credentials)' \subseteq Present(credentials) \ {id}
    BY <2>1, PresentStep DEF Removes
  <2>3. QED
    BY <2>1, <2>2 DEF Removes, Known, DeletedCredentialGone
<1>5. CASE \E id \in ClientIds : \E scopes \in ScopeLists : Puts(id, scopes)
  <2>1. PICK id \in ClientIds : \E scopes \in ScopeLists : Puts(id, scopes)
    BY <1>5
  <2>2. Present(credentials)' \subseteq Present(credentials) \cup {id}
    BY <2>1, PresentStep DEF Puts
  <2>3. QED
    BY <2>1, <2>2 DEF Puts, Known, DeletedCredentialGone
<1>6. QED
  BY <1>1, <1>2, <1>3, <1>4, <1>5 DEF CredentialStep

LEMMA NoneSentInit == Init => Putting = {} /\ Removing = {} /\ Present(credentials) = {}
  BY DEF Init, StoresInit, Putting, Removing, Sent, Present

\* A deletion is final for what had not read the credential before it: when
\* the target manager removes a credential and no update of it is on its way,
\* no later request, late call or restart brings it back.
THEOREM DeletedCredentialsStayGone == Spec => []DeletedCredentialGone
<1>1. Init => Typed /\ Known /\ DeletedCredentialGone
  BY TypedInit, NoneSentInit DEF Init, Known, DeletedCredentialGone
<1>2. Typed /\ Known /\ DeletedCredentialGone /\ [Next]_service_vars
        => (Typed /\ Known /\ DeletedCredentialGone)'
  BY TypedNext, CredentialSteps, KnownStep
<1>3. QED
  BY <1>1, <1>2, PTL DEF Spec

-----------------------------------------------------------------------------
\* Each thread and each connection carries at most one credential.
LEMMA AtMostOneEach ==
    ASSUME NEW S, IsFiniteSet(S), NEW f, NEW R \in SUBSET S
    PROVE  /\ IsFiniteSet({f[x].client_id : x \in R})
           /\ Cardinality({f[x].client_id : x \in R}) <= Cardinality(S)
<1> DEFINE g == [x \in R |-> f[x].client_id]
           T == {f[x].client_id : x \in R}
<1>1. g \in Surjection(R, T)
  BY DEF Surjection
<1>2. IsFiniteSet(R) /\ Cardinality(R) <= Cardinality(S)
  BY FS_Subset
<1> HIDE DEF g, T
<1>3. IsFiniteSet(T) /\ Cardinality(T) <= Cardinality(R)
  BY <1>1, <1>2, FS_Surjection
<1>4. Cardinality(T) <= Cardinality(S)
  <2>1. Cardinality(T) \in Nat /\ Cardinality(R) \in Nat /\ Cardinality(S) \in Nat
    BY <1>2, <1>3, FS_CardinalityType
  <2>2. QED
    BY <1>2, <1>3, <2>1
<1>5. QED
  BY <1>3, <1>4 DEF T

PutIn(f, S) ==
    {f[x].client_id : x \in {x \in S : f[x] # None /\ f[x].op = "put_credential"}}

LEMMA PutFew ==
    ASSUME NEW f, NEW g, NEW T, T = PutIn(f, Workers) \cup PutIn(g, Lines)
    PROVE  /\ IsFiniteSet(T) /\ Cardinality(T) \in Nat
           /\ Cardinality(T) <= Cardinality(Workers) + Cardinality(Lines)
           /\ Cardinality(Workers) \in Nat /\ Cardinality(Lines) \in Nat
<1> DEFINE Ws == {w \in Workers : f[w] # None /\ f[w].op = "put_credential"}
           Ls == {line \in Lines : g[line] # None /\ g[line].op = "put_credential"}
           W == {f[w].client_id : w \in Ws}
           L == {g[line].client_id : line \in Ls}
<1>1. T = W \cup L
  BY DEF PutIn
<1>2. Ws \in SUBSET Workers /\ Ls \in SUBSET Lines
  OBVIOUS
<1>3. IsFiniteSet(Workers) /\ IsFiniteSet(Lines)
  BY ServiceAssumption
<1>4. /\ IsFiniteSet(W) /\ Cardinality(W) <= Cardinality(Workers)
      /\ IsFiniteSet(L) /\ Cardinality(L) <= Cardinality(Lines)
  <2> HIDE DEF Ws, Ls
  <2>1. QED
    BY <1>2, <1>3, AtMostOneEach
<1> HIDE DEF W, L
<1>5. IsFiniteSet(W \cup L) /\ IsFiniteSet(W \cap L)
  BY <1>4, FS_Union, FS_Intersection
<1>6. Cardinality(W \cup L) = Cardinality(W) + Cardinality(L) - Cardinality(W \cap L)
  BY <1>4, FS_Union
<1>7. /\ Cardinality(W) \in Nat /\ Cardinality(L) \in Nat
      /\ Cardinality(W \cap L) \in Nat /\ Cardinality(W \cup L) \in Nat
      /\ Cardinality(Workers) \in Nat /\ Cardinality(Lines) \in Nat
  BY <1>3, <1>4, <1>5, FS_CardinalityType
<1>8. Cardinality(W \cup L) <= Cardinality(Workers) + Cardinality(Lines)
  BY <1>4, <1>6, <1>7
<1>9. QED
  BY <1>1, <1>5, <1>7, <1>8

LEMMA PuttingFew ==
    ASSUME NEW T \in {Putting, Putting'}
    PROVE  /\ IsFiniteSet(T) /\ Cardinality(T) \in Nat
           /\ Cardinality(T) <= Cardinality(Workers) + Cardinality(Lines)
           /\ Cardinality(Workers) \in Nat /\ Cardinality(Lines) \in Nat
<1>1. Putting = PutIn(call, Workers) \cup PutIn(late, Lines)
  BY DEF Putting, PutIn
<1>2. Putting' = PutIn(call', Workers) \cup PutIn(late', Lines)
  BY DEF Putting, PutIn
<1>3. QED
  BY <1>1, <1>2, PutFew

LEMMA PresentFinite ==
    ASSUME Typed
    PROVE  IsFiniteSet(Present(credentials)) /\ Cardinality(Present(credentials)) \in Nat
<1>1. IsFiniteSet(Present(credentials))
  BY StoresAssumption, FS_Subset DEF Present, Typed, TypeOK
<1>2. QED
  BY <1>1, FS_CardinalityType

LEMMA LimitStep ==
    ASSUME Typed, Typed', LimitOvershootBounded, CredentialStep
    PROVE  LimitOvershootBounded'
<1> DEFINE Here == Present(credentials) \cup Putting
           Then == Present(credentials)' \cup Putting'
           Bound == MaxClientCredentials - 1 + Cardinality(Workers) + Cardinality(Lines)
<1>a. IsFiniteSet(Putting) /\ IsFiniteSet(Putting')
  BY PuttingFew
<1>b. IsFiniteSet(Present(credentials)) /\ IsFiniteSet(Present(credentials)')
  <2>1. Present(credentials)' \subseteq ClientIds
    BY DEF Present, Typed, TypeOK
  <2>2. QED
    BY <2>1, PresentFinite, StoresAssumption, FS_Subset
<1>0. /\ IsFiniteSet(Here) /\ Cardinality(Here) \in Nat
      /\ IsFiniteSet(Then) /\ Cardinality(Then) \in Nat
      /\ Bound \in Nat
  <2>1. IsFiniteSet(Here) /\ IsFiniteSet(Then)
    BY <1>a, <1>b, FS_Union
  <2>2. Bound \in Nat
    BY PuttingFew, ServiceAssumption
  <2>3. QED
    BY <2>1, <2>2, FS_CardinalityType
<1>1. ASSUME Then \subseteq Here PROVE LimitOvershootBounded'
  <2>1. Cardinality(Then) <= Cardinality(Here)
    BY <1>0, <1>1, FS_Subset
  <2>2. Cardinality(Then) <= Bound
    BY <1>0, <2>1 DEF LimitOvershootBounded
  <2>3. QED
    BY <2>2 DEF LimitOvershootBounded
<1>2. CASE \E id \in ClientIds : Creates(id)
  <2>1. PICK id \in ClientIds : Creates(id)
    BY <1>2
  <2>2. Present(credentials)' = Present(credentials)
    BY <2>1 DEF Creates, Present
  <2>3. Cardinality(Then) = Cardinality(Present(credentials)) + Cardinality(Putting')
                              - Cardinality(Present(credentials) \cap Putting')
    BY <1>a, <1>b, <2>2, FS_Union
  <2>4. /\ Cardinality(Present(credentials) \cap Putting') \in Nat
        /\ Cardinality(Present(credentials)) \in Nat
    BY <1>a, <1>b, FS_Intersection, FS_CardinalityType
  <2>5. /\ Cardinality(Putting') \in Nat
        /\ Cardinality(Putting') <= Cardinality(Workers) + Cardinality(Lines)
        /\ Cardinality(Workers) \in Nat /\ Cardinality(Lines) \in Nat
    BY PuttingFew
  <2>6. Cardinality(Present(credentials)) <= MaxClientCredentials - 1
    BY <2>1, <2>4, ServiceAssumption DEF Creates
  <2>7. Cardinality(Then) <= Bound
    BY <2>3, <2>4, <2>5, <2>6, ServiceAssumption
  <2>8. QED
    BY <2>7 DEF LimitOvershootBounded
<1>3. CASE Quiet \/ \E id \in ClientIds : Asks(id)
  BY <1>1, <1>3 DEF Quiet, Asks, Present
<1>4. CASE \E id \in ClientIds : Removes(id)
  <2>1. PICK id \in ClientIds : Removes(id)
    BY <1>4
  <2>2. Present(credentials)' \subseteq Present(credentials)
    BY <2>1, PresentStep DEF Removes
  <2>3. QED
    BY <1>1, <2>1, <2>2 DEF Removes
<1>5. CASE \E id \in ClientIds : \E scopes \in ScopeLists : Puts(id, scopes)
  <2>1. PICK id \in ClientIds : \E scopes \in ScopeLists : Puts(id, scopes)
    BY <1>5
  <2>2. Present(credentials)' \subseteq Present(credentials) \cup {id}
    BY <2>1, PresentStep DEF Puts
  <2>3. QED
    BY <1>1, <2>1, <2>2 DEF Puts
<1>6. QED
  BY <1>2, <1>3, <1>4, <1>5 DEF CredentialStep

\* The limit on credentials is passed by no more than threads and connections
\* can carry at once: a creation is admitted by a copy which is below the
\* limit, and an update puts only what was there.
THEOREM LimitStaysBounded == Spec => []LimitOvershootBounded
<1>1. Init => LimitOvershootBounded
  <2>1. ASSUME Init PROVE LimitOvershootBounded
    <3>1. Present(credentials) \cup Putting = {}
      BY <2>1, NoneSentInit
    <3>2. Cardinality(Present(credentials) \cup Putting) = 0
      <4> HIDE DEF Init
      <4>1. Cardinality({}) = 0
        BY FS_EmptySet
      <4>2. QED
        BY <3>1, <4>1, Zenon
    <3>3. Cardinality(Workers) \in Nat /\ Cardinality(Lines) \in Nat
      BY PuttingFew
    <3>4. QED
      BY <3>1, <3>2, <3>3, ServiceAssumption DEF LimitOvershootBounded
  <2>2. QED
    BY <2>1
<1>2. Typed /\ LimitOvershootBounded /\ [Next]_service_vars
        => (Typed /\ LimitOvershootBounded)'
  BY TypedNext, CredentialSteps, LimitStep
<1>3. QED
  BY <1>1, <1>2, TypedInit, PTL DEF Spec

\* With one thread and no connection that can break, Vuforia's limit of 100
\* created credentials is kept as the docs say: what overshoots it is only
\* creations at once and calls left alone.
THEOREM LimitKeptAlone ==
  ASSUME \E w : Workers = {w}, Lines = {}
  PROVE  Spec => [](Cardinality(Present(credentials)) <= MaxClientCredentials)
<1>1. Cardinality(Workers) = 1 /\ Cardinality(Lines) = 0
  BY FS_Singleton, FS_EmptySet
<1>2. ASSUME Typed, LimitOvershootBounded
      PROVE  Cardinality(Present(credentials)) <= MaxClientCredentials
  <2> DEFINE All == Present(credentials) \cup Putting
  <2>1. IsFiniteSet(Present(credentials)) /\ IsFiniteSet(Putting)
    BY <1>2, PresentFinite, PuttingFew
  <2>2. IsFiniteSet(All)
    BY <2>1, FS_Union
  <2>3. /\ Cardinality(All) \in Nat /\ Cardinality(Present(credentials)) \in Nat
        /\ Cardinality(Present(credentials)) <= Cardinality(All)
    BY <2>1, <2>2, FS_Subset, FS_CardinalityType
  <2>4. Cardinality(All) <= MaxClientCredentials - 1 + 1 + 0
    BY <1>1, <1>2 DEF LimitOvershootBounded
  <2>5. QED
    BY <2>3, <2>4, ServiceAssumption
<1>3. Spec => []Typed
  BY TypedInit, TypedNext, PTL DEF Spec
<1>4. QED
  BY <1>2, <1>3, LimitStaysBounded, PTL
-----------------------------------------------------------------------------
\* What a request for a token has seen of its credential.
TokenAt(w) ==
    /\ /\ pc[w] = "fetch" /\ request[w].op = "oauth2_token"
       /\ request[w].client_id \in Present(credentials)
       => credentials[request[w].client_id] \subseteq held[w]
    /\ /\ pc[w] = "answer" /\ answer[w].code = "OK"
       /\ request[w].op = "oauth2_token" /\ request[w].client_id # FixedClientId
       => answer[w].body \subseteq held[w]

\* The scopes a credential gets are noted for the requests under way.
Noted(w) ==
    /\ held[w] \subseteq held'[w]
    /\ /\ pc[w] # "idle" /\ request[w].op = "oauth2_token"
       /\ request[w].client_id \in Present(credentials)'
       => \/ credentials'[request[w].client_id] \subseteq held'[w]
          \/ /\ request[w].client_id \in Present(credentials)
             /\ credentials'[request[w].client_id] = credentials[request[w].client_id]

LEMMA TokenFrame ==
    ASSUME NEW w \in Workers, TokenAt(w), Noted(w),
           pc'[w] = pc[w], request'[w] = request[w], answer'[w] = answer[w]
    PROVE  TokenAt(w)'
  BY DEF TokenAt, Noted

LEMMA NotedIfSame ==
    ASSUME UNCHANGED credentials, NEW w \in Workers, held'[w] = held[w]
    PROVE  Noted(w)
  BY DEF Noted, Present

LEMMA PerformNoted ==
    ASSUME Typed, NEW c \in Call, Perform(c), NEW w \in Workers
    PROVE  Noted(w)
<1>1. CASE c.op = "put_credential" /\ PutCredential(c.client_id, c.scopes)
             /\ held' = Held(c.client_id, c.scopes)
  <2>1. held'[w] = IF pc[w] # "idle" /\ request[w].op = "oauth2_token"
                        /\ request[w].client_id = c.client_id
                   THEN held[w] \cup c.scopes ELSE held[w]
    BY <1>1 DEF Held
  <2>2. /\ DOMAIN credentials = ClientIds /\ DOMAIN credentials' = ClientIds
        /\ \A key \in ClientIds : credentials'[key] = IF key = c.client_id THEN c.scopes
                                                      ELSE credentials[key]
    BY <1>1 DEF PutCredential, Typed, TypeOK
  <2>3. QED
    BY <2>1, <2>2 DEF Noted, Present
<1>2. CASE DeleteCredential(c.client_id) /\ UNCHANGED held
  <2>1. /\ DOMAIN credentials = ClientIds /\ DOMAIN credentials' = ClientIds
        /\ \A key \in ClientIds : credentials'[key] = IF key = c.client_id THEN None
                                                      ELSE credentials[key]
    BY <1>2 DEF DeleteCredential, Typed, TypeOK
  <2>2. QED
    BY <1>2, <2>1 DEF Noted, Present
<1>3. CASE UNCHANGED <<credentials, held>>
  BY <1>3, NotedIfSame
<1>4. QED
  BY <1>1, <1>2, <1>3 DEF Perform, AddDataset, RemoveDataset

LEMMA GrantedOwn ==
    ASSUME NEW requested, NEW own, Granted(requested, own).code = "OK"
    PROVE  Granted(requested, own).body \subseteq own
  BY DEF Granted

LEMMA TokenOfServe ==
    ASSUME Typed, NEW w \in Workers, Serve(w), TokenAt(w)
    PROVE  TokenAt(w)'
<1>1. CASE GrantToken(w) /\ UNCHANGED <<credentials, request, held>>
  <2> DEFINE req == request[w]
             known == req.client_id = FixedClientId \/ req.client_id \in Present(credentials)
             own == IF req.client_id = FixedClientId THEN Scopes
                    ELSE credentials[req.client_id]
             granted == IF known /\ req.secret_matches THEN Granted(req.scopes, own)
                        ELSE [code |-> "InvalidClient", body |-> None]
  <2>1. /\ pc[w] = "fetch" /\ request[w].op = "oauth2_token"
        /\ Respond(w, granted.code, granted.body)
    BY <1>1 DEF GrantToken, Fetching
  <2>2. granted.code = "OK" => known /\ granted.body \subseteq own
    BY GrantedOwn
  <2> HIDE DEF granted, known
  <2>3. pc'[w] = "answer" /\ answer'[w].code = granted.code /\ answer'[w].body = granted.body
    BY <2>1, Responded
  <2>4. known /\ req.client_id # FixedClientId => own \subseteq held[w]
    BY <2>1 DEF known, TokenAt
  <2>5. QED
    BY <1>1, <2>2, <2>3, <2>4 DEF TokenAt
<1>2. ASSUME request'[w].op # "oauth2_token" PROVE TokenAt(w)'
  BY <1>2 DEF TokenAt
<1>3. CASE ServeCredentials(w)
  <2>1. UNCHANGED <<credentials, request, held>>
    BY <1>3 DEF ServeCredentials, stores, history
  <2>2. GrantToken(w) \/ request[w].op # "oauth2_token"
    BY <1>3 DEF ServeCredentials, CreateCredential, UpdateScopes,
       AskToDeleteCredential, ListCredentials, Fetching
  <2>3. QED
    BY <1>1, <1>2, <2>1, <2>2
<1>4. CASE ServeDatasets(w)
  <2>1. request[w].op # "oauth2_token" /\ UNCHANGED request
    BY <1>4 DEF ServeDatasets, CreateDataset, FindDataset, FindDatasetToDelete,
       ReadStatus, ReadTrainingStatus, Fetching, Typed, At
  <2>2. QED
    BY <1>2, <2>1
<1>5. CASE ServeReports(w)
  <2>1. request[w].op # "oauth2_token" /\ UNCHANGED request
    BY <1>5 DEF ServeReports, CreateReport, FindReport, DownloadReport, Typed, At
  <2>2. QED
    BY <1>2, <2>1
<1>6. CASE ServeCall(w)
  <2>1. request[w].op # "oauth2_token" /\ UNCHANGED request
    BY <1>6, CallsMove DEF ServeCall, FitsRequest, Typed, At
  <2>2. QED
    BY <1>2, <2>1
<1>7. QED
  BY <1>3, <1>4, <1>5, <1>6 DEF Serve

LEMMA ServeAlone ==
    ASSUME Typed, NEW w \in Workers, Serve(w) \/ GiveUp(w)
    PROVE  Alone(w) /\ pc[w] # "idle" /\ request'[w] = request[w]
<1>1. Moves(w) /\ pc[w] # "idle"
  BY CredentialsMove, DatasetsMove, ReportsMove, CallsMove, GiveUpMoves DEF Serve
<1>2. QED
  BY <1>1, BecomesOne DEF Moves

LEMMA ServeNoted ==
    ASSUME Typed, NEW w \in Workers, Serve(w) \/ GiveUp(w), NEW v \in Workers
    PROVE  Noted(v)
<1>1. CASE ServeCall(w) /\ Apply(w)
  BY <1>1, PerformNoted DEF Apply, Typed, TypeOK
<1>2. CASE UNCHANGED <<credentials, held>>
  BY <1>2, NotedIfSame
<1>3. QED
  BY <1>1, <1>2 DEF Serve, ServeCredentials, ServeDatasets, ServeReports, ServeCall,
     LookUp, GiveUp, stores, history
LEMMA EndsAlone ==
    ASSUME Typed, NEW w \in Workers, Receive(w) \/ Answer(w)
    PROVE  Alone(w)
  BY DEF Typed, TypeOK, Shapes, Receive, Respond, Answer, GoTo, Alone

LEMMA EndsNoted ==
    ASSUME Typed, NEW w \in Workers, Receive(w) \/ Answer(w),
           NEW v \in Workers \ {w}
    PROVE  Noted(v)
<1>1. UNCHANGED credentials
  BY DEF Receive, Answer, stores
<1>2. held'[v] = held[v]
  BY DEF Receive, Answer, Typed, TypeOK
<1>3. QED
  BY <1>1, <1>2, NotedIfSame

LEMMA TokenOfReceive ==
    ASSUME Typed, NEW w \in Workers, Receive(w)
    PROVE  TokenAt(w)'
<1>1. PICK req \in Request :
        /\ request' = [request EXCEPT ![w] = req]
        /\ IF ~Authorized(req) THEN Respond(w, "Forbidden", None)
           ELSE /\ GoTo(w, IF req.op \in OnlyLocal THEN "local" ELSE "fetch")
                /\ UNCHANGED answer
        /\ held' = IF req.op = "oauth2_token" /\ req.client_id \in Present(credentials)
                   THEN [held EXCEPT ![w] = credentials[req.client_id]] ELSE held
  BY DEF Receive, OnlyLocal
<1>2. request'[w] = req
  BY <1>1 DEF Typed, TypeOK
<1>3. UNCHANGED credentials
  BY DEF Receive, stores
<1>4. CASE Authorized(req)
  <2>1. pc'[w] # "answer"
    BY <1>1, <1>4 DEF GoTo, Typed, TypeOK
  <2>2. req.op = "oauth2_token" /\ req.client_id \in Present(credentials)
          => held'[w] = credentials[req.client_id]
    BY <1>1 DEF Typed, TypeOK
  <2>3. QED
    BY <1>2, <1>3, <2>1, <2>2 DEF TokenAt, Present
<1>5. CASE ~Authorized(req)
  <2>1. pc'[w] = "answer" /\ answer'[w].code = "Forbidden"
    BY <1>1, <1>5, Responded
  <2>2. QED
    BY <2>1 DEF TokenAt
<1>6. QED
  BY <1>4, <1>5

LEMMA TokensKept ==
    ASSUME Typed, \A w \in Workers : TokenAt(w), [Next]_service_vars
    PROVE  \A w \in Workers : TokenAt(w)'
<1>1. ASSUME NEW w \in Workers, Receive(w) PROVE \A v \in Workers : TokenAt(v)'
  BY <1>1, EndsAlone, EndsNoted, TokenFrame, TokenOfReceive DEF Alone
<1>2. ASSUME NEW w \in Workers, Answer(w) PROVE \A v \in Workers : TokenAt(v)'
  <2>1. pc'[w] = "idle"
    BY <1>2 DEF Answer, GoTo, Typed, TypeOK
  <2>2. TokenAt(w)'
    BY <2>1 DEF TokenAt
  <2>3. QED
    BY <1>2, <2>2, EndsAlone, EndsNoted, TokenFrame DEF Alone
<1>3. ASSUME NEW w \in Workers, Serve(w) PROVE \A v \in Workers : TokenAt(v)'
  BY <1>3, ServeAlone, ServeNoted, TokenFrame, TokenOfServe DEF Alone
<1>4. ASSUME NEW w \in Workers, GiveUp(w) PROVE \A v \in Workers : TokenAt(v)'
  <2>1. pc'[w] = "answer" /\ answer'[w].code = "Timeout"
    BY <1>4, Responded DEF GiveUp
  <2>2. TokenAt(w)'
    BY <2>1 DEF TokenAt
  <2>3. QED
    BY <1>4, <2>2, ServeAlone, ServeNoted, TokenFrame DEF Alone
<1>5. ASSUME NEW line \in Lines, ApplyLate(line) PROVE \A v \in Workers : TokenAt(v)'
  <2>1. UNCHANGED <<pc, request, answer>> /\ late[line] \in Call
    BY <1>5 DEF ApplyLate, work, Typed, TypeOK
  <2>2. Perform(late[line]) \/ UNCHANGED <<credentials, held>>
    BY <1>5 DEF ApplyLate, stores
  <2>3. QED
    BY <2>1, <2>2, PerformNoted, NotedIfSame, TokenFrame
<1>6. CASE Restart
  <2>1. \A w \in Workers : pc'[w] = "idle"
    BY <1>6 DEF Restart
  <2>2. QED
    BY <2>1 DEF TokenAt
<1>7. CASE Tick \/ UNCHANGED service_vars
  <2>1. UNCHANGED <<pc, request, answer, credentials, held>>
    BY <1>7 DEF Tick, TimePasses, service_vars, work, stores, history
  <2>2. QED
    BY <2>1, NotedIfSame, TokenFrame
<1>8. QED
  BY <1>1, <1>2, <1>3, <1>4, <1>5, <1>6, <1>7 DEF Next

\* A token grants only what its credential had at some moment since it was
\* asked for, whatever updates and deletions pass by.
THEOREM TokenScopesStayHeld == Spec => []TokenScopesHeld
<1> DEFINE Tokened == \A w \in Workers : TokenAt(w)
<1>1. Init => Tokened
  BY DEF Init, TokenAt
<1>2. Typed /\ Tokened /\ [Next]_service_vars => (Typed /\ Tokened)'
  BY TypedNext, TokensKept
<1>3. Tokened => TokenScopesHeld
  BY DEF TokenAt, TokenScopesHeld
<1> HIDE DEF Tokened
<1>4. QED
  BY <1>1, <1>2, <1>3, TypedInit, PTL DEF Spec
-----------------------------------------------------------------------------
\* The calls that will add a dataset, and the answers that tell of one.
Adds(c, uuid) == c # None /\ c.op = "add_dataset" /\ c.uuid = uuid

OnItsWay(uuid) ==
    \/ \E w \in Workers : Adds(call[w], uuid)
    \/ \E line \in Lines : Adds(late[line], uuid)

Tells(w, uuid) ==
    /\ pc[w] = "answer" /\ request[w].op = "create_dataset"
    /\ answer[w].code = "Created" /\ answer[w].body = uuid

\* Of each dataset there is one call, and nobody knows it before it was added.
OneCall ==
    /\ \A w, v \in Workers : \A uuid \in Uuids :
         Adds(call[w], uuid) /\ Adds(call[v], uuid) => w = v
    /\ \A line, other \in Lines : \A uuid \in Uuids :
         Adds(late[line], uuid) /\ Adds(late[other], uuid) => line = other
    /\ \A w \in Workers : \A line \in Lines : \A uuid \in Uuids :
         ~(Adds(call[w], uuid) /\ Adds(late[line], uuid))

Unknown(uuid) ==
    /\ datasets[uuid] = None /\ uuid \notin told
    /\ \A w \in Workers : ~Tells(w, uuid)

AddedOnce ==
    /\ OneCall
    /\ \A uuid \in Uuids : OnItsWay(uuid) => uuid \in issued /\ Unknown(uuid)
    /\ \A uuid \in Uuids : uuid \notin issued => Unknown(uuid)

LEMMA NotAdded == ASSUME NEW uuid PROVE ~Adds(None, uuid)
  BY DEF Adds

\* Calls are dropped, or replaced by others which add nothing.
LEMMA OneCallIfFewer ==
    ASSUME OneCall,
           \A w \in Workers : \A uuid \in Uuids :
              Adds(call'[w], uuid) => Adds(call[w], uuid),
           \A line \in Lines : \A uuid \in Uuids :
              Adds(late'[line], uuid) => Adds(late[line], uuid)
    PROVE  /\ OneCall'
           /\ \A uuid \in Uuids : OnItsWay(uuid)' => OnItsWay(uuid)
<1>1. OneCall'
  <2>1. \A w, v \in Workers : \A uuid \in Uuids :
          Adds(call'[w], uuid) /\ Adds(call'[v], uuid) => w = v
    BY DEF OneCall
  <2>2. \A line, other \in Lines : \A uuid \in Uuids :
          Adds(late'[line], uuid) /\ Adds(late'[other], uuid) => line = other
    BY DEF OneCall
  <2>3. \A w \in Workers : \A line \in Lines : \A uuid \in Uuids :
          ~(Adds(call'[w], uuid) /\ Adds(late'[line], uuid))
    BY DEF OneCall
  <2>4. QED
    BY <2>1, <2>2, <2>3 DEF OneCall, Adds
<1>2. QED
  BY <1>1 DEF OnItsWay, Adds

\* A call which its worker leaves alone is on one connection afterwards.
LEMMA OneCallOfGiveUp ==
    ASSUME Typed, OneCall, NEW w \in Workers, GiveUp(w)
    PROVE  /\ OneCall'
           /\ \A uuid \in Uuids : OnItsWay(uuid)' => OnItsWay(uuid)
<1>1. call'[w] = None /\ \A v \in Workers \ {w} : call'[v] = call[v]
  BY DEF GiveUp, Typed, TypeOK
<1>2. \A v \in Workers : \A uuid \in Uuids : Adds(call'[v], uuid) => Adds(call[v], uuid)
  BY <1>1, NotAdded
<1>3. CASE UNCHANGED late
  BY <1>2, <1>3, OneCallIfFewer
<1>4. ASSUME NEW line \in Lines, late' = [late EXCEPT ![line] = call[w]]
      PROVE  /\ OneCall'
             /\ \A uuid \in Uuids : OnItsWay(uuid)' => OnItsWay(uuid)
  <2>1. late'[line] = call[w] /\ \A l \in Lines \ {line} : late'[l] = late[l]
    BY <1>4 DEF Typed, TypeOK
  <2>2. \A v, u \in Workers : \A uuid \in Uuids :
          Adds(call'[v], uuid) /\ Adds(call'[u], uuid) => v = u
    BY <1>2 DEF OneCall
  <2>3. \A l, other \in Lines : \A uuid \in Uuids :
          Adds(late'[l], uuid) /\ Adds(late'[other], uuid) => l = other
    BY <2>1 DEF OneCall
  <2>4. \A v \in Workers : \A l \in Lines : \A uuid \in Uuids :
          ~(Adds(call'[v], uuid) /\ Adds(late'[l], uuid))
    BY <1>1, <2>1, NotAdded DEF OneCall
  <2>5. OneCall'
    BY <2>2, <2>3, <2>4 DEF OneCall, Adds
  <2>6. \A uuid \in Uuids : OnItsWay(uuid)' => OnItsWay(uuid)
    <3>1. \A uuid \in Uuids : \A v \in Workers : Adds(call'[v], uuid) => OnItsWay(uuid)
      BY <1>2 DEF OnItsWay
    <3>2. \A uuid \in Uuids : \A l \in Lines : Adds(late'[l], uuid) => OnItsWay(uuid)
      BY <2>1 DEF OnItsWay
    <3>3. QED
      BY <3>1, <3>2 DEF OnItsWay, Adds
  <2>7. QED
    BY <2>5, <2>6
<1>5. QED
  BY <1>3, <1>4 DEF GiveUp

LEMMA OneCallOfRestart ==
    ASSUME Typed, OneCall, Restart
    PROVE  /\ OneCall'
           /\ \A uuid \in Uuids : OnItsWay(uuid)' => OnItsWay(uuid)
<1>1. PICK going \in [Lines -> Workers \cup {None}] :
        /\ \A line \in Lines : going[line] # None =>
             /\ late[line] = None /\ call[going[line]] # None
             /\ \A other \in Lines \ {line} : going[other] # going[line]
        /\ late' = [line \in Lines |-> IF going[line] = None THEN late[line]
                                       ELSE call[going[line]]]
  BY DEF Restart
<1>2. \A w \in Workers : call'[w] = None
  BY DEF Restart
<1>3. \A line \in Lines : /\ going[line] = None => late'[line] = late[line]
                          /\ going[line] # None => /\ late'[line] = call[going[line]]
                                                   /\ going[line] \in Workers
  BY <1>1
<1>4. \A line, other \in Lines : \A uuid \in Uuids :
        Adds(late'[line], uuid) /\ Adds(late'[other], uuid) => line = other
  BY <1>1, <1>3 DEF OneCall
<1>5. \A w \in Workers : \A uuid \in Uuids : ~Adds(call'[w], uuid)
  BY <1>2, NotAdded
<1>6. OneCall'
  BY <1>4, <1>5 DEF OneCall, Adds
<1>7. \A uuid \in Uuids : \A line \in Lines : Adds(late'[line], uuid) => OnItsWay(uuid)
  BY <1>3 DEF OnItsWay
<1>8. QED
  BY <1>5, <1>6, <1>7 DEF OnItsWay, Adds
\* What a step does to the datasets, and to what is known of them.
Dropping == {c.uuid : c \in {c \in Sent : c # None /\ c.op = "remove_dataset"}}

Arrives(uuid) == OnItsWay(uuid) /\ ~OnItsWay(uuid)' /\ datasets'[uuid] # None

DatasetStep ==
    /\ OneCall' /\ issued \subseteq issued'
    /\ \A uuid \in Uuids :
         /\ OnItsWay(uuid)' => OnItsWay(uuid) \/ uuid \in issued' \ issued
         /\ \/ datasets'[uuid] = datasets[uuid]
            \/ datasets'[uuid] = None /\ uuid \in Dropping
            \/ Arrives(uuid)
         /\ uuid \in told' => uuid \in told \/ \E w \in Workers : Tells(w, uuid)
         /\ uuid \in told => uuid \in told'
         /\ \A w \in Workers : Tells(w, uuid)' => Tells(w, uuid) \/ Arrives(uuid)

\* Steps that leave the datasets alone.
LEMMA OtherDatasetStep ==
    ASSUME OneCall', issued \subseteq issued', UNCHANGED <<datasets, told>>,
           \A uuid \in Uuids : /\ OnItsWay(uuid)' => OnItsWay(uuid) \/ uuid \in issued' \ issued
                               /\ \A w \in Workers : Tells(w, uuid)' => Tells(w, uuid)
    PROVE  DatasetStep
  BY DEF DatasetStep

LEMMA NothingTold ==
    ASSUME Typed, NEW w \in Workers, Alone(w), NEW uuid,
           ~(/\ pc'[w] = "answer" /\ request'[w].op = "create_dataset"
             /\ answer'[w].code = "Created")
    PROVE  \A v \in Workers : Tells(v, uuid)' => Tells(v, uuid)
  BY DEF Alone, Tells

LEMMA DatasetsOfServeDatasets ==
    ASSUME Typed, AddedOnce, NEW w \in Workers, ServeDatasets(w)
    PROVE  DatasetStep
<1>0. /\ UNCHANGED <<datasets, told, late, request>> /\ issued \subseteq issued'
      /\ call \in [Workers -> Call \cup {None}]
  BY DEF ServeDatasets, stores, history, CreateDataset, FindDataset,
     FindDatasetToDelete, ReadStatus, ReadTrainingStatus, Typed, TypeOK
<1>1. Alone(w)
  BY ServeAlone DEF Serve
<1>2. ~(/\ pc'[w] = "answer" /\ request'[w].op = "create_dataset"
        /\ answer'[w].code = "Created")
  <2>1. CASE CreateDataset(w)
    BY <2>1 DEF CreateDataset, Send, GoTo, Typed, TypeOK
  <2>2. ASSUME ~CreateDataset(w) PROVE request[w].op # "create_dataset"
    BY <2>2 DEF ServeDatasets, FindDataset, FindDatasetToDelete, ReadStatus,
       ReadTrainingStatus, Fetching, Typed, At
  <2>3. QED
    BY <1>0, <2>1, <2>2
<1>3. \A uuid \in Uuids : \A v \in Workers : Tells(v, uuid)' => Tells(v, uuid)
  BY <1>1, <1>2, NothingTold
<1>4. CASE CreateDataset(w)
  <2>1. PICK new \in Uuids \ issued :
          /\ issued' = issued \cup {new}
          /\ Send(w, [op |-> "add_dataset", uuid |-> new, dataset |->
                      [type |-> request[w].type, created_at |-> clock]])
    BY <1>4 DEF CreateDataset
  <2>2. /\ Adds(call'[w], new) /\ \A uuid \in Uuids : Adds(call'[w], uuid) => uuid = new
        /\ \A v \in Workers \ {w} : call'[v] = call[v]
    <3> DEFINE c == [op |-> "add_dataset", uuid |-> new, dataset |->
                     [type |-> request[w].type, created_at |-> clock]]
    <3>1. c.op = "add_dataset" /\ c.uuid = new /\ call' = [call EXCEPT ![w] = c]
      BY <2>1 DEF Send
    <3>2. c # None
      <4>1. [type |-> request[w].type, created_at |-> clock] \in Dataset
        BY <1>4, OfRequest, StoresAssumption DEF CreateDataset, Dataset, Typed, TypeOK
      <4>2. c \in Call
        BY <4>1, MadeCalls
      <4>3. QED
        BY <4>2, OfCall
    <3> HIDE DEF c
    <3>3. call'[w] = c /\ \A v \in Workers \ {w} : call'[v] = call[v]
      BY <1>0, <3>1
    <3>4. QED
      BY <3>1, <3>2, <3>3 DEF Adds
  <2>3. ~OnItsWay(new)
    BY DEF AddedOnce
  <2>4. OneCall'
    <3>1. \A u, v \in Workers : \A uuid \in Uuids :
            Adds(call'[u], uuid) /\ Adds(call'[v], uuid) => u = v
      BY <2>2, <2>3 DEF AddedOnce, OneCall, OnItsWay
    <3>2. \A v \in Workers : \A line \in Lines : \A uuid \in Uuids :
            ~(Adds(call'[v], uuid) /\ Adds(late[line], uuid))
      BY <2>2, <2>3 DEF AddedOnce, OneCall, OnItsWay
    <3>3. QED
      BY <1>0, <3>1, <3>2 DEF AddedOnce, OneCall, Adds
  <2>5. \A uuid \in Uuids : OnItsWay(uuid)' => OnItsWay(uuid) \/ uuid = new
    <3>1. \A uuid \in Uuids : \A v \in Workers :
            Adds(call'[v], uuid) => OnItsWay(uuid) \/ uuid = new
      BY <2>2 DEF OnItsWay
    <3>2. QED
      BY <1>0, <3>1 DEF OnItsWay, Adds
  <2>6. QED
    BY <1>0, <1>3, <2>1, <2>4, <2>5, OtherDatasetStep
<1>5. ASSUME UNCHANGED call \/ Send(w, [op |-> "remove_dataset", uuid |-> request[w].uuid])
      PROVE  DatasetStep
  <2> DEFINE c == [op |-> "remove_dataset", uuid |-> request[w].uuid]
  <2>1. \A uuid \in Uuids : ~Adds(c, uuid)
    BY DEF Adds
  <2>2. UNCHANGED call \/ call' = [call EXCEPT ![w] = c]
    BY <1>5 DEF Send
  <2> HIDE DEF c
  <2>3. \A v \in Workers : call'[v] \in {call[v], c}
    BY <1>0, <2>2
  <2>4. \A v \in Workers : \A uuid \in Uuids : Adds(call'[v], uuid) => Adds(call[v], uuid)
    BY <2>1, <2>3
  <2>5. OneCall' /\ \A uuid \in Uuids : OnItsWay(uuid)' => OnItsWay(uuid)
    BY <1>0, <2>4, OneCallIfFewer DEF AddedOnce
  <2>6. QED
    BY <1>0, <1>3, <2>5, OtherDatasetStep
<1>6. QED
  BY <1>4, <1>5 DEF ServeDatasets, FindDataset, FindDatasetToDelete, ReadStatus,
     ReadTrainingStatus

\* The target manager carries out a call which is on its way only once.
LEMMA DatasetsOfPerform ==
    ASSUME Typed, AddedOnce, NEW c \in Sent, c # None, Perform(c),
           UNCHANGED <<issued, told>>, OneCall',
           \A uuid \in Uuids : OnItsWay(uuid)' => OnItsWay(uuid) /\ ~Adds(c, uuid),
           \A uuid \in Uuids : \A w \in Workers :
              Tells(w, uuid)' => Tells(w, uuid) \/ Adds(c, uuid)
    PROVE  DatasetStep
<1>0. c \in Call /\ datasets \in [Uuids -> Dataset \cup {None}]
  BY DEF Sent, Typed, TypeOK
<1>1. CASE c.op = "add_dataset" /\ AddDataset(c.uuid, Loaded(c.dataset, clock))
  <2>1. c.uuid \in Uuids /\ c.dataset \in Dataset /\ c.dataset # None
    BY <1>0, <1>1, OfCall, ServiceAssumption
  <2>2. datasets' = [datasets EXCEPT ![c.uuid] = c.dataset]
    BY <1>1, <2>1, LoadedIsSame DEF AddDataset
  <2>3. Arrives(c.uuid)
    <3>1. Adds(c, c.uuid)
      BY <1>1 DEF Adds
    <3>2. OnItsWay(c.uuid)
      BY <3>1 DEF OnItsWay, Sent
    <3>3. ~OnItsWay(c.uuid)'
      BY <2>1, <3>1
    <3>4. datasets'[c.uuid] # None
      BY <1>0, <2>1, <2>2
    <3>5. QED
      BY <3>2, <3>3, <3>4 DEF Arrives
  <2>4. \A uuid \in Uuids : uuid = c.uuid \/ datasets'[uuid] = datasets[uuid]
    BY <1>0, <2>2
  <2>5. \A uuid : Adds(c, uuid) => uuid = c.uuid
    BY DEF Adds
  <2>6. QED
    BY <2>3, <2>4, <2>5 DEF DatasetStep
<1>2. CASE c.op # "add_dataset"
  <2>1. \A uuid \in Uuids : ~Adds(c, uuid)
    BY <1>2 DEF Adds
  <2>2. \A uuid \in Uuids : \/ datasets'[uuid] = datasets[uuid]
                            \/ datasets'[uuid] = None /\ uuid \in Dropping
    <3>1. CASE c.op = "remove_dataset" /\ RemoveDataset(c.uuid)
      <4>1. c.uuid \in Dropping
        BY <3>1 DEF Dropping
      <4>2. QED
        BY <1>0, <3>1, <4>1 DEF RemoveDataset
    <3>2. CASE UNCHANGED datasets
      BY <3>2
    <3>3. QED
      BY <1>2, <3>1, <3>2 DEF Perform, PutCredential, DeleteCredential
  <2>3. QED
    BY <2>1, <2>2 DEF DatasetStep
<1>3. QED
  BY <1>1, <1>2 DEF Perform
LEMMA DatasetsOfCall ==
    ASSUME Typed, AddedOnce, NEW w \in Workers, ServeCall(w)
    PROVE  DatasetStep
<1>0. /\ UNCHANGED <<issued, told, late, request>>
      /\ call \in [Workers -> Call \cup {None}] /\ At(w)
      /\ pc[w] \in {"call", "remove"}
  BY CallsMove DEF ServeCall, Typed, TypeOK
<1>1. Alone(w)
  BY ServeAlone DEF Serve
<1>2. \A v \in Workers \ {w} : call'[v] = call[v]
  BY <1>1 DEF Alone
<1>3. CASE LookUp(w)
  <2>1. call'[w] \in {call[w], None}
    BY <1>0, <1>3 DEF LookUp
  <2>2. \A v \in Workers : \A uuid \in Uuids : Adds(call'[v], uuid) => Adds(call[v], uuid)
    BY <1>2, <2>1, NotAdded
  <2>3. OneCall' /\ \A uuid \in Uuids : OnItsWay(uuid)' => OnItsWay(uuid)
    BY <1>0, <2>2, OneCallIfFewer DEF AddedOnce
  <2>4. request'[w].op # "create_dataset"
    BY <1>0, <1>3 DEF LookUp, At, FitsRequest
  <2>5. \A uuid \in Uuids : \A v \in Workers : Tells(v, uuid)' => Tells(v, uuid)
    BY <1>1, <2>4, NothingTold
  <2>6. UNCHANGED datasets
    BY <1>3 DEF LookUp, stores
  <2>7. QED
    BY <1>0, <2>3, <2>5, <2>6, OtherDatasetStep
<1>4. CASE Apply(w)
  <2>1. /\ call[w] \in Sent /\ call[w] # None /\ Perform(call[w]) /\ call'[w] = None
    BY <1>0, <1>4 DEF Apply, Sent, Typed, TypeOK
  <2>2. \A v \in Workers : \A uuid \in Uuids : Adds(call'[v], uuid) => Adds(call[v], uuid)
    BY <1>2, <2>1, NotAdded
  <2>3. OneCall' /\ \A uuid \in Uuids : OnItsWay(uuid)' => OnItsWay(uuid)
    BY <1>0, <2>2, OneCallIfFewer DEF AddedOnce
  <2>4. \A uuid \in Uuids : OnItsWay(uuid)' => ~Adds(call[w], uuid)
    <3>1. ASSUME NEW uuid \in Uuids, Adds(call[w], uuid) PROVE ~OnItsWay(uuid)'
      <4>1. \A v \in Workers : ~Adds(call'[v], uuid)
        BY <1>2, <2>1, <3>1, NotAdded DEF AddedOnce, OneCall
      <4>2. \A line \in Lines : ~Adds(late'[line], uuid)
        BY <1>0, <3>1 DEF AddedOnce, OneCall
      <4>3. QED
        BY <4>1, <4>2 DEF OnItsWay, Adds
    <3>2. QED
      BY <3>1
  <2>5. \A uuid \in Uuids : \A v \in Workers :
          Tells(v, uuid)' => Tells(v, uuid) \/ Adds(call[w], uuid)
    <3>1. CASE request[w].op = "create_dataset"
      <4>1. Respond(w, "Created", call[w].uuid)
        BY <1>4, <3>1 DEF Apply
      <4>2. answer'[w].body = call[w].uuid
        BY <4>1, Responded
      <4>3. call[w].op = "add_dataset"
        BY <1>0, <3>1 DEF At, FitsRequest
      <4>4. QED
        BY <1>1, <2>1, <4>2, <4>3 DEF Alone, Tells, Adds
    <3>2. CASE request[w].op # "create_dataset"
      BY <1>0, <1>1, <3>2, NothingTold
    <3>3. QED
      BY <3>1, <3>2
  <2>6. QED
    BY <1>0, <2>1, <2>3, <2>4, <2>5, DatasetsOfPerform
<1>5. QED
  BY <1>3, <1>4 DEF ServeCall

LEMMA DatasetsOfLateCall ==
    ASSUME Typed, AddedOnce, NEW line \in Lines, ApplyLate(line)
    PROVE  DatasetStep
<1>0. /\ UNCHANGED <<issued, told, work>> /\ late[line] # None /\ late[line] \in Sent
      /\ late'[line] = None /\ \A l \in Lines \ {line} : late'[l] = late[l]
  BY DEF ApplyLate, Sent, Typed, TypeOK
<1>1. \A l \in Lines : \A uuid \in Uuids : Adds(late'[l], uuid) => Adds(late[l], uuid)
  BY <1>0, NotAdded
<1>2. OneCall' /\ \A uuid \in Uuids : OnItsWay(uuid)' => OnItsWay(uuid)
  BY <1>0, <1>1, OneCallIfFewer DEF AddedOnce, work
<1>3. \A uuid \in Uuids : \A w \in Workers : Tells(w, uuid)' => Tells(w, uuid)
  BY <1>0 DEF Tells, work
<1>4. \A uuid \in Uuids : OnItsWay(uuid)' => ~Adds(late[line], uuid)
  <2>1. ASSUME NEW uuid \in Uuids, Adds(late[line], uuid) PROVE ~OnItsWay(uuid)'
    <3>1. \A w \in Workers : ~Adds(call'[w], uuid)
      BY <1>0, <2>1 DEF AddedOnce, OneCall, work
    <3>2. \A l \in Lines : ~Adds(late'[l], uuid)
      BY <1>0, <2>1, NotAdded DEF AddedOnce, OneCall
    <3>3. QED
      BY <3>1, <3>2 DEF OnItsWay, Adds
  <2>2. QED
    BY <2>1
<1>5. CASE Perform(late[line])
  BY <1>0, <1>2, <1>3, <1>4, <1>5, DatasetsOfPerform
<1>6. CASE UNCHANGED <<stores, held, gone>>
  BY <1>0, <1>2, <1>3, <1>6, OtherDatasetStep DEF stores
<1>7. QED
  BY <1>5, <1>6 DEF ApplyLate

LEMMA DatasetSteps ==
    ASSUME Typed, AddedOnce, [Next]_service_vars
    PROVE  DatasetStep
<1>0. /\ call \in [Workers -> Call \cup {None}] /\ pc \in [Workers -> Places]
      /\ request \in [Workers -> Request \cup {None}]
  BY DEF Typed, TypeOK
<1>1. UNCHANGED <<call, late>> =>
        OneCall' /\ \A uuid \in Uuids : OnItsWay(uuid)' => OnItsWay(uuid)
  BY OneCallIfFewer DEF AddedOnce
<1>2. ASSUME NEW w \in Workers, Receive(w) PROVE DatasetStep
  <2>1. UNCHANGED <<datasets, told, issued, call, late>>
    BY <1>2 DEF Receive, stores
  <2>2. pc'[w] = "answer" => answer'[w].code = "Forbidden"
    <3>1. Respond(w, "Forbidden", None) \/ GoTo(w, "local") \/ GoTo(w, "fetch")
      BY <1>2 DEF Receive
    <3>2. QED
      BY <1>0, <3>1, Responded DEF GoTo
  <2>3. \A uuid \in Uuids : \A v \in Workers : Tells(v, uuid)' => Tells(v, uuid)
    BY <1>2, <2>2, EndsAlone, NothingTold
  <2>4. QED
    BY <1>1, <2>1, <2>3, OtherDatasetStep
<1>3. ASSUME NEW w \in Workers, Answer(w) PROVE DatasetStep
  <2>1. UNCHANGED <<datasets, issued, call, late>> /\ pc'[w] = "idle"
    BY <1>0, <1>3 DEF Answer, stores, GoTo
  <2>2. \A uuid \in Uuids : \A v \in Workers : Tells(v, uuid)' => Tells(v, uuid)
    BY <1>3, <2>1, EndsAlone, NothingTold
  <2>3. \A uuid \in Uuids : uuid \in told' => uuid \in told \/ Tells(w, uuid)
    <3>1. request[w].op = "create_report" => answer[w].body \in ReportIds
      BY <1>3 DEF Answer, Typed, At
    <3>2. QED
      BY <1>3, <3>1, ServiceAssumption DEF Answer, Tells
  <2>4. told \subseteq told'
    BY <1>3 DEF Answer
  <2>5. QED
    BY <1>1, <2>1, <2>2, <2>3, <2>4 DEF DatasetStep
<1>4. ASSUME NEW w \in Workers, GiveUp(w) PROVE DatasetStep
  <2>1. UNCHANGED <<datasets, told, issued>>
    BY <1>4 DEF GiveUp, stores, history
  <2>2. answer'[w].code = "Timeout"
    BY <1>4, Responded DEF GiveUp
  <2>3. \A uuid \in Uuids : \A v \in Workers : Tells(v, uuid)' => Tells(v, uuid)
    BY <1>4, <2>2, ServeAlone, NothingTold
  <2>4. QED
    BY <1>4, <2>1, <2>3, OneCallOfGiveUp, OtherDatasetStep DEF AddedOnce
<1>5. ASSUME NEW w \in Workers, ServeCredentials(w) \/ ServeReports(w) PROVE DatasetStep
  <2>1. UNCHANGED <<datasets, told, late, request>> /\ issued \subseteq issued'
    BY <1>5 DEF ServeCredentials, ServeReports, stores, history, CreateCredential,
       UpdateScopes, AskToDeleteCredential, ListCredentials, GrantToken, CreateReport,
       FindReport, DownloadReport
  <2>2. Alone(w)
    BY <1>5, ServeAlone DEF Serve
  <2>3. request[w].op # "create_dataset"
    BY <1>5, CredentialsMove DEF ServeReports, CreateReport, FindReport, DownloadReport,
       OnCredentials, Typed, At
  <2>4. \A uuid \in Uuids : \A v \in Workers : Tells(v, uuid)' => Tells(v, uuid)
    BY <2>1, <2>2, <2>3, NothingTold
  <2>5. \A uuid \in Uuids : ~Adds(call'[w], uuid)
    <3>1. Moves(w) /\ request[w].op # "create_dataset"
      BY <1>5, <2>3, CredentialsMove, ReportsMove
    <3>2. PICK p, c, a, k : Becomes(w, p, c, a, k) /\ Fits(request[w], p, c, a, k)
      BY <3>1 DEF Moves
    <3>3. call'[w] = c
      BY <3>2, BecomesOne
    <3>4. c = None \/ c.op # "add_dataset"
      BY <3>1, <3>2 DEF Fits, FitsRequest
    <3>5. QED
      BY <3>3, <3>4 DEF Adds
  <2>6. \A v \in Workers : \A uuid \in Uuids : Adds(call'[v], uuid) => Adds(call[v], uuid)
    BY <2>2, <2>5 DEF Alone
  <2>7. OneCall' /\ \A uuid \in Uuids : OnItsWay(uuid)' => OnItsWay(uuid)
    BY <2>1, <2>6, OneCallIfFewer DEF AddedOnce
  <2>8. QED
    BY <2>1, <2>4, <2>7, OtherDatasetStep
<1>6. CASE Restart
  <2>1. UNCHANGED <<datasets, issued>> /\ told' = told \ ReportIds
    BY <1>6 DEF Restart, stores
  <2>2. \A uuid \in Uuids : uuid \in told' <=> uuid \in told
    BY <2>1, ServiceAssumption
  <2>3. \A w \in Workers : pc'[w] = "idle"
    BY <1>6 DEF Restart
  <2>4. \A uuid \in Uuids : \A w \in Workers : ~Tells(w, uuid)'
    BY <2>3 DEF Tells
  <2>5. QED
    BY <1>6, <2>1, <2>2, <2>4, OneCallOfRestart DEF DatasetStep, AddedOnce
<1>7. CASE Tick \/ UNCHANGED service_vars
  <2>1. UNCHANGED <<datasets, told, issued, call, late, pc, request, answer>>
    BY <1>7 DEF Tick, TimePasses, service_vars, work, stores, history
  <2>2. \A uuid \in Uuids : \A w \in Workers : Tells(w, uuid)' => Tells(w, uuid)
    BY <2>1 DEF Tells
  <2>3. QED
    BY <1>1, <2>1, <2>2, OtherDatasetStep
<1>8. QED
  BY <1>2, <1>3, <1>4, <1>5, <1>6, <1>7, DatasetsOfServeDatasets, DatasetsOfCall,
     DatasetsOfLateCall DEF Next, Serve

LEMMA AddedOnceInit == Init => AddedOnce
<1> SUFFICES ASSUME Init PROVE AddedOnce
  OBVIOUS
<1>1. \A w \in Workers : \A uuid : ~Adds(call[w], uuid) /\ ~Tells(w, uuid)
  BY DEF Init, Adds, Tells
<1>2. \A line \in Lines : \A uuid : ~Adds(late[line], uuid)
  BY DEF Init, Adds
<1>3. \A uuid \in Uuids : datasets[uuid] = None /\ uuid \notin told
  BY DEF Init, StoresInit
<1>4. QED
  BY <1>1, <1>2, <1>3 DEF AddedOnce, OneCall, OnItsWay, Unknown

LEMMA AddedOnceStep ==
    ASSUME AddedOnce, DatasetStep
    PROVE  AddedOnce'
<1>1. ASSUME NEW uuid \in Uuids, Unknown(uuid), ~Arrives(uuid) PROVE Unknown(uuid)'
  <2>1. datasets'[uuid] = None /\ uuid \notin told'
    BY <1>1 DEF DatasetStep, Unknown
  <2>2. \A w \in Workers : ~Tells(w, uuid)'
    BY <1>1 DEF DatasetStep, Unknown
  <2>3. QED
    BY <2>1, <2>2 DEF Unknown
<1>2. ASSUME NEW uuid \in Uuids, OnItsWay(uuid)' PROVE uuid \in issued' /\ Unknown(uuid)'
  BY <1>1, <1>2 DEF AddedOnce, DatasetStep, Arrives
<1>3. ASSUME NEW uuid \in Uuids, uuid \notin issued' PROVE Unknown(uuid)'
  BY <1>1, <1>3 DEF AddedOnce, DatasetStep, Arrives
<1>4. OneCall'
  BY DEF DatasetStep
<1>5. QED
  BY <1>2, <1>3, <1>4 DEF AddedOnce
-----------------------------------------------------------------------------
\* Requests under way, and what was asked to be deleted.
Wanted(w) ==
    /\ pc[w] # "idle" /\ request[w].op \in OnDatasets => request[w].uuid \in told
    /\ pc[w] = "fetch" /\ Deletes(request[w]) => request[w].uuid \in asked

AskedKept ==
    /\ \A uuid \in Dropping : uuid \in told /\ uuid \in asked
    /\ \A w \in Workers : Wanted(w)
    /\ \A uuid \in Uuids : /\ uuid \notin asked
                           /\ uuid \in told \/ \E w \in Workers : Tells(w, uuid)
                           => datasets[uuid] # None

\* What is known of is not added again, and only removed when asked to be.
LEMMA KnownDataset ==
    ASSUME AddedOnce, DatasetStep, NEW uuid \in Uuids, uuid \in told
    PROVE  /\ uuid \in told'
           /\ \/ datasets'[uuid] = datasets[uuid]
              \/ datasets'[uuid] = None /\ uuid \in Dropping
  BY DEF AddedOnce, Unknown, DatasetStep, Arrives

LEMMA AskedGrows ==
    ASSUME [Next]_service_vars
    PROVE  asked \subseteq asked'
  BY DEF Next, Serve, Receive, ServeCredentials, ServeDatasets, ServeReports, ServeCall,
     GiveUp, Answer, ApplyLate, Restart, Tick, service_vars, history

\* A worker goes on with its request, takes a new one, or has none.
LEMMA RequestStep ==
    ASSUME Typed, [Next]_service_vars, NEW v \in Workers
    PROVE  \/ Receive(v)
           \/ pc'[v] = "idle"
           \/ /\ pc[v] # "idle" /\ request'[v] = request[v]
              /\ pc'[v] = "fetch" => pc[v] = "fetch"
<1>1. ASSUME NEW w \in Workers, Receive(w) \/ Answer(w)
      PROVE  \/ Receive(v)
             \/ pc'[v] = "idle"
             \/ /\ pc[v] # "idle" /\ request'[v] = request[v]
                /\ pc'[v] = "fetch" => pc[v] = "fetch"
  <2>1. CASE v = w
    BY <1>1, <2>1 DEF Answer, GoTo, Typed, TypeOK
  <2>2. CASE v # w
    BY <1>1, <2>2, EndsAlone DEF Alone
  <2>3. QED
    BY <2>1, <2>2
<1>2. ASSUME NEW w \in Workers, Serve(w) \/ GiveUp(w)
      PROVE  \/ pc'[v] = "idle"
             \/ /\ pc[v] # "idle" /\ request'[v] = request[v]
                /\ pc'[v] = "fetch" => pc[v] = "fetch"
  <2>1. CASE v = w
    <3>1. Moves(w) /\ pc[w] # "idle"
      BY <1>2, CredentialsMove, DatasetsMove, ReportsMove, CallsMove, GiveUpMoves
         DEF Serve
    <3>2. pc'[w] # "fetch" /\ request'[w] = request[w]
      BY <3>1, BecomesOne DEF Moves, Fits
    <3>3. QED
      BY <2>1, <3>1, <3>2
  <2>2. CASE v # w
    BY <1>2, <2>2, ServeAlone DEF Alone
  <2>3. QED
    BY <2>1, <2>2
<1>3. CASE Restart
  BY <1>3 DEF Restart
<1>4. ASSUME UNCHANGED <<pc, request>>
      PROVE  \/ pc'[v] = "idle"
             \/ /\ pc[v] # "idle" /\ request'[v] = request[v]
                /\ pc'[v] = "fetch" => pc[v] = "fetch"
  BY <1>4
<1>5. QED
  BY <1>1, <1>2, <1>3, <1>4 DEF Next, ApplyLate, Tick, service_vars, work

LEMMA WantedOfReceive ==
    ASSUME Typed, NEW w \in Workers, Receive(w)
    PROVE  Wanted(w)'
<1>1. PICK req \in Request :
        /\ Askable(req)
        /\ request' = [request EXCEPT ![w] = req]
        /\ IF ~Authorized(req) THEN Respond(w, "Forbidden", None)
           ELSE /\ GoTo(w, IF req.op \in OnlyLocal THEN "local" ELSE "fetch")
                /\ UNCHANGED answer
        /\ asked' = IF Deletes(req) THEN asked \cup {req.uuid} ELSE asked
  BY DEF Receive, OnlyLocal
<1>2. request'[w] = req /\ UNCHANGED <<told, datasets>>
  BY <1>1 DEF Typed, TypeOK, Receive, stores
<1>3. req.op \in OnDatasets => req.uuid \in told
  BY <1>1 DEF Askable, OnDatasets
<1>4. Deletes(request[w])' => req.uuid \in asked'
  BY <1>1, <1>2 DEF Deletes, Authorized
<1>5. QED
  BY <1>2, <1>3, <1>4 DEF Wanted

\* A call to remove a dataset is sent for a request that deletes it.
LEMMA DroppingStep ==
    ASSUME Typed, [Next]_service_vars, NEW uuid \in Dropping'
    PROVE  \/ uuid \in Dropping
           \/ \E w \in Workers : /\ pc[w] = "fetch" /\ Deletes(request[w])
                                 /\ request[w].uuid = uuid
<1>1. ASSUME NEW c, Sent' \subseteq Sent \cup {c}, c = None \/ c.op # "remove_dataset"
      PROVE  uuid \in Dropping
  BY <1>1 DEF Dropping
<1>2. CASE \E w \in Workers : Serve(w)
  <2>1. PICK w \in Workers : Serve(w)
    BY <1>2
  <2>2. Moves(w) /\ UNCHANGED late
    BY <2>1, CredentialsMove, DatasetsMove, ReportsMove, CallsMove
       DEF Serve, ServeCredentials, ServeDatasets, ServeReports, ServeCall
  <2>3. PICK p, c, a, k : Becomes(w, p, c, a, k) /\ Fits(request[w], p, c, a, k)
    BY <2>2 DEF Moves
  <2>4. Sent' \subseteq Sent \cup {c} /\ call'[w] = c
    BY <2>2, <2>3, SentByMove, BecomesOne
  <2>5. CASE c = None \/ c.op # "remove_dataset"
    BY <1>1, <2>4, <2>5
  <2>6. CASE c # None /\ c.op = "remove_dataset"
    <3>1. request[w].op = "delete_dataset" /\ c.uuid = request[w].uuid
      BY <2>3, <2>6 DEF Fits, FitsRequest
    <3>2. CASE c \in Sent
      BY <2>4, <3>2 DEF Dropping
    <3>3. CASE c \notin Sent
      <4>1. call'[w] # call[w] /\ call'[w] # None
        BY <2>4, <2>6, <3>3 DEF Sent
      <4>2. ~ServeCall(w)
        BY <4>1 DEF ServeCall, LookUp, Apply, Typed, TypeOK
      <4>3. ~ServeCredentials(w) /\ ~ServeReports(w)
        BY <3>1, CredentialsMove DEF OnCredentials, ServeReports, CreateReport,
           FindReport, DownloadReport, Typed, At
      <4>4. FindDatasetToDelete(w)
        BY <2>1, <3>1, <4>2, <4>3 DEF Serve, ServeDatasets, CreateDataset, FindDataset,
           ReadStatus, ReadTrainingStatus, Typed, At
      <4>5. /\ pc[w] = "fetch" /\ request[w].uuid \in Present(datasets)
            /\ datasets[request[w].uuid].type = request[w].type
        BY <4>1, <4>4 DEF FindDatasetToDelete, Fetching
      <4>6. Deletes(request[w])
        BY <3>1, <4>5 DEF Deletes, Present, Typed, At
      <4>7. uuid \in Dropping \/ uuid = c.uuid
        BY <2>4 DEF Dropping
      <4>8. QED
        BY <3>1, <4>5, <4>6, <4>7
    <3>4. QED
      BY <3>2, <3>3
  <2>7. QED
    BY <2>5, <2>6
<1>3. CASE ~\E w \in Workers : Serve(w)
  <2>1. Sent' \subseteq Sent \cup {None}
    BY <1>3, NothingSent DEF Next
  <2>2. QED
    BY <1>1, <2>1
<1>4. QED
  BY <1>2, <1>3

LEMMA AskedStep ==
    ASSUME Typed, AddedOnce, AskedKept, [Next]_service_vars
    PROVE  AskedKept'
<1>0. DatasetStep /\ asked \subseteq asked' /\ request \in [Workers -> Request \cup {None}]
  BY DatasetSteps, AskedGrows DEF Typed, TypeOK
<1>1. ASSUME NEW w \in Workers PROVE Wanted(w)'
  <2>1. CASE Receive(w)
    BY <2>1, WantedOfReceive
  <2>2. CASE pc'[w] = "idle"
    BY <2>2 DEF Wanted
  <2>3. CASE /\ pc[w] # "idle" /\ request'[w] = request[w]
             /\ pc'[w] = "fetch" => pc[w] = "fetch"
    <3>1. request[w] \in Request
      BY <2>3 DEF Typed, TypeOK
    <3>2. request[w].op \in OnDatasets => /\ request[w].uuid \in told
                                          /\ request[w].uuid \in Uuids
      BY <2>3, <3>1, OfRequest DEF AskedKept, Wanted
    <3>3. request[w].op \in OnDatasets => request[w].uuid \in told'
      BY <1>0, <3>2, KnownDataset
    <3>4. Deletes(request[w])' => Deletes(request[w])
      <4>1. SUFFICES ASSUME Deletes(request[w])' PROVE Deletes(request[w])
        OBVIOUS
      <4>2. /\ request[w].op = "delete_dataset" /\ Authorized(request[w])
            /\ datasets'[request[w].uuid] # None
            /\ datasets'[request[w].uuid].type = request[w].type
        BY <2>3, <4>1 DEF Deletes, Authorized
      <4>3. datasets'[request[w].uuid] = datasets[request[w].uuid]
        BY <1>0, <3>2, <4>2, KnownDataset DEF OnDatasets
      <4>4. QED
        BY <4>2, <4>3 DEF Deletes
    <3>5. QED
      BY <1>0, <2>3, <3>3, <3>4 DEF Wanted, AskedKept
  <2>4. QED
    BY <2>1, <2>2, <2>3, RequestStep
<1>2. ASSUME NEW uuid \in Dropping' PROVE uuid \in told' /\ uuid \in asked'
  <2>1. uuid \in told /\ uuid \in asked /\ uuid \in Uuids
    <3>1. CASE uuid \in Dropping
      <4>1. uuid \in Uuids
        BY <3>1, OfCall DEF Dropping, Sent, Typed, TypeOK
      <4>2. QED
        BY <3>1, <4>1 DEF AskedKept
    <3>2. CASE \E w \in Workers : /\ pc[w] = "fetch" /\ Deletes(request[w])
                                  /\ request[w].uuid = uuid
      <4>1. PICK w \in Workers : /\ pc[w] = "fetch" /\ Deletes(request[w])
                                 /\ request[w].uuid = uuid
        BY <3>2
      <4>2. request[w] \in Request /\ request[w].op \in OnDatasets
        BY <1>0, <4>1 DEF Deletes, OnDatasets, Typed, TypeOK
      <4>3. QED
        BY <4>1, <4>2, OfRequest DEF AskedKept, Wanted
    <3>3. QED
      BY <1>2, <3>1, <3>2, DroppingStep
  <2>2. QED
    BY <1>0, <2>1, KnownDataset
<1>3. ASSUME NEW uuid \in Uuids, uuid \notin asked',
             uuid \in told' \/ \E w \in Workers : Tells(w, uuid)'
      PROVE  datasets'[uuid] # None
  <2>1. uuid \notin asked /\ uuid \notin Dropping
    BY <1>0, <1>3 DEF AskedKept
  <2>2. CASE Arrives(uuid)
    BY <2>2 DEF Arrives
  <2>3. CASE ~Arrives(uuid)
    <3>1. uuid \in told \/ \E w \in Workers : Tells(w, uuid)
      BY <1>0, <1>3, <2>3 DEF DatasetStep
    <3>2. datasets[uuid] # None
      BY <2>1, <3>1 DEF AskedKept
    <3>3. QED
      BY <1>0, <2>1, <2>3, <3>2 DEF DatasetStep
  <2>4. QED
    BY <2>2, <2>3
<1>4. QED
  BY <1>1, <1>2, <1>3 DEF AskedKept, Tells

LEMMA AskedInit == Init => AskedKept
  BY DEF Init, AskedKept, Wanted, Dropping, Sent, Tells

\* A dataset whose creation was acknowledged is lost to no deletion which was
\* not asked for through its own route, to no late call and to no restart.
THEOREM AckedDatasetsStayKept == Spec => []AckedDatasetKept
<1>1. Typed /\ AddedOnce /\ AskedKept /\ [Next]_service_vars
        => (Typed /\ AddedOnce /\ AskedKept)'
  BY TypedNext, DatasetSteps, AddedOnceStep, AskedStep
<1>2. Typed /\ AskedKept => AckedDatasetKept
  BY DEF AskedKept, AckedDatasetKept, Present, Typed, TypeOK
<1>3. QED
  BY <1>1, <1>2, TypedInit, AddedOnceInit, AskedInit, PTL DEF Spec
-----------------------------------------------------------------------------
\* What was told to be deleted, is.
DeletedAt(w) ==
    /\ pc[w] = "answer" /\ answer[w].code = "OK" /\ request[w].op = "delete_dataset"
    /\ request[w].uuid \in Present(datasets)
    => datasets[request[w].uuid].type # request[w].type

LEMMA DeletedServe ==
    ASSUME Typed, NEW w \in Workers, Serve(w)
    PROVE  DeletedAt(w)'
<1>0. /\ At(w) /\ request'[w] = request[w] /\ datasets \in [Uuids -> Dataset \cup {None}]
      /\ request[w] \in Request
  BY ServeAlone DEF Typed, TypeOK
<1>1. ASSUME request[w].op # "delete_dataset" PROVE DeletedAt(w)'
  BY <1>0, <1>1 DEF DeletedAt
<1>2. CASE ServeCredentials(w) \/ ServeReports(w)
  <2>1. request[w].op # "delete_dataset"
    BY <1>0, <1>2, CredentialsMove DEF OnCredentials, ServeReports, CreateReport,
       FindReport, DownloadReport, At
  <2>2. QED
    BY <1>1, <2>1
<1>3. CASE ServeDatasets(w)
  <2>1. CASE FindDatasetToDelete(w)
    <3>1. UNCHANGED datasets
      BY <1>3 DEF ServeDatasets, stores
    <3>2. CASE Respond(w, "NotFound", None)
      BY <3>2, Responded DEF DeletedAt
    <3>3. CASE datasets[request[w].uuid].type # request[w].type
      BY <1>0, <3>1, <3>3 DEF DeletedAt
    <3>4. CASE GoTo(w, "call")
      <4>1. pc'[w] = "call"
        BY <3>4 DEF GoTo, Typed, TypeOK
      <4>2. QED
        BY <4>1 DEF DeletedAt
    <3>5. QED
      BY <2>1, <3>2, <3>3, <3>4 DEF FindDatasetToDelete, Send
  <2>2. CASE ~FindDatasetToDelete(w)
    <3>1. request[w].op # "delete_dataset"
      BY <1>0, <1>3, <2>2 DEF ServeDatasets, CreateDataset, FindDataset, ReadStatus,
         ReadTrainingStatus, At
    <3>2. QED
      BY <1>1, <3>1
  <2>3. QED
    BY <2>1, <2>2
<1>4. CASE ServeCall(w)
  <2>1. SUFFICES ASSUME request[w].op = "delete_dataset" PROVE DeletedAt(w)'
    BY <1>1
  <2>2. call[w].op = "remove_dataset" /\ call[w].uuid = request[w].uuid
    BY <1>0, <1>4, <2>1, CallsMove DEF At, FitsRequest
  <2>3. Apply(w) /\ Perform(call[w])
    BY <1>4, <2>2 DEF ServeCall, LookUp, Apply
  <2>4. datasets' = [datasets EXCEPT ![request[w].uuid] = None]
    BY <2>2, <2>3 DEF Perform, RemoveDataset
  <2>5. request[w].uuid \notin Present(datasets)'
    BY <1>0, <2>4 DEF Present
  <2>6. QED
    BY <1>0, <2>5 DEF DeletedAt
<1>5. QED
  BY <1>2, <1>3, <1>4 DEF Serve

\* A worker whose answer is the same is where it was, was refused or gave up.
LEMMA AnswerStep ==
    ASSUME Typed, [Next]_service_vars, NEW v \in Workers, pc'[v] = "answer"
    PROVE  \/ Serve(v)
           \/ Receive(v) /\ answer'[v].code = "Forbidden"
           \/ GiveUp(v) /\ answer'[v].code = "Timeout"
           \/ pc[v] = "answer" /\ request'[v] = request[v] /\ answer'[v] = answer[v]
<1>1. ASSUME NEW w \in Workers, Receive(w) \/ Serve(w) \/ GiveUp(w) \/ Answer(w), w # v
      PROVE  pc[v] = "answer" /\ request'[v] = request[v] /\ answer'[v] = answer[v]
  <2>1. Alone(w)
    BY <1>1, EndsAlone, ServeAlone
  <2>2. QED
    BY <1>1, <2>1 DEF Alone
<1>2. CASE Receive(v)
  <2>1. Respond(v, "Forbidden", None) \/ GoTo(v, "local") \/ GoTo(v, "fetch")
    BY <1>2 DEF Receive
  <2>2. QED
    BY <1>2, <2>1, Responded DEF GoTo, Typed, TypeOK
<1>3. CASE GiveUp(v)
  BY <1>3, Responded DEF GiveUp
<1>4. CASE Answer(v)
  BY <1>4 DEF Answer, GoTo, Typed, TypeOK
<1>5. CASE Restart
  BY <1>5 DEF Restart
<1>6. CASE UNCHANGED work
  BY <1>6 DEF work
<1>7. QED
  BY <1>1, <1>2, <1>3, <1>4, <1>5, <1>6 DEF Next, ApplyLate, Tick, service_vars

LEMMA DeletedStep ==
    ASSUME Typed, AddedOnce, AskedKept, [Next]_service_vars,
           \A w \in Workers : DeletedAt(w)
    PROVE  \A w \in Workers : DeletedAt(w)'
<1> SUFFICES ASSUME NEW w \in Workers PROVE DeletedAt(w)'
  OBVIOUS
<1>0. DatasetStep
  BY DatasetSteps
<1>1. CASE pc[w] = "answer" /\ request'[w] = request[w] /\ answer'[w] = answer[w]
  <2>1. SUFFICES ASSUME request[w].op = "delete_dataset" PROVE DeletedAt(w)'
    BY <1>1 DEF DeletedAt
  <2>2. request[w] \in Request
    BY <1>1 DEF Typed, TypeOK
  <2>3. request[w].uuid \in Uuids /\ request[w].uuid \in told
    BY <1>1, <2>1, <2>2, OfRequest DEF AskedKept, Wanted, OnDatasets
  <2>4. datasets'[request[w].uuid] \in {datasets[request[w].uuid], None}
    BY <1>0, <2>3, KnownDataset
  <2>5. DOMAIN datasets = Uuids
    BY DEF Typed, TypeOK
  <2>6. QED
    BY <1>1, <2>3, <2>4, <2>5 DEF DeletedAt, Present
<1>2. CASE Serve(w)
  BY <1>2, DeletedServe
<1>3. QED
  BY <1>1, <1>2, AnswerStep DEF DeletedAt

\* A deletion which was answered with success has removed the dataset for
\* good, or had come by the route of the other type.
THEOREM DeletionsStayEffective == Spec => []DeletionEffective
<1> DEFINE Deleted == \A w \in Workers : DeletedAt(w)
<1>1. Init => Deleted
  BY DEF Init, DeletedAt
<1>2. Typed /\ AddedOnce /\ AskedKept /\ Deleted /\ [Next]_service_vars
        => (Typed /\ AddedOnce /\ AskedKept /\ Deleted)'
  BY TypedNext, DatasetSteps, AddedOnceStep, AskedStep, DeletedStep
<1>3. Deleted => DeletionEffective
  BY DEF DeletedAt, DeletionEffective
<1> HIDE DEF Deleted
<1>4. QED
  BY <1>1, <1>2, <1>3, TypedInit, AddedOnceInit, AskedInit, PTL DEF Spec
-----------------------------------------------------------------------------
\* The reports which clients know of, or are being told of.
TellsReport(w, id) ==
    pc[w] = "answer" /\ request[w].op = "create_report" /\ answer[w].body = id

ReportsKept ==
    \A id \in ReportIds :
       /\ id \in told \/ (\E w \in Workers : TellsReport(w, id)) => reports[id] # None
       /\ reports[id] # None => id \in issued

ReportsGrow ==
    /\ issued \subseteq issued'
    /\ \A id \in ReportIds : reports[id] # None => reports'[id] = reports[id]

LEMMA ReportStep ==
    ASSUME Typed, ReportsKept, [Next]_service_vars
    PROVE  /\ ReportsKept'
           /\ ReportsGrow \/ Restart
<1>0. /\ reports \in [ReportIds -> Nat \cup {None}] /\ clock \in Nat
      /\ None \notin Nat
  BY StoresAssumption, ServiceAssumption DEF Typed, TypeOK
<1>1. CASE \E w \in Workers : CreateReport(w) /\ ServeReports(w)
  <2>1. PICK w \in Workers : CreateReport(w) /\ ServeReports(w)
    BY <1>1
  <2>2. PICK new \in ReportIds \ issued :
          /\ issued' = issued \cup {new}
          /\ reports' = [reports EXCEPT ![new] = clock]
          /\ Respond(w, "OK", new)
    BY <2>1 DEF CreateReport
  <2>3. answer'[w].body = new /\ Alone(w) /\ UNCHANGED told
    BY <2>1, <2>2, Responded, ServeAlone DEF Serve, ServeReports, history
  <2>4. /\ reports'[new] = clock
        /\ \A id \in ReportIds \ {new} : reports'[id] = reports[id]
    BY <1>0, <2>2
  <2>5. \A v \in Workers : \A id \in ReportIds :
          TellsReport(v, id)' => TellsReport(v, id) \/ id = new
    BY <2>3 DEF TellsReport, Alone
  <2>6. QED
    BY <1>0, <2>2, <2>3, <2>4, <2>5 DEF ReportsKept, ReportsGrow
<1>2. CASE Restart
  <2>1. /\ \A w \in Workers : pc'[w] = "idle"
        /\ \A id \in ReportIds : reports'[id] = None /\ id \notin told'
    BY <1>2 DEF Restart
  <2>2. QED
    BY <1>2, <2>1 DEF ReportsKept, TellsReport
<1>3. ASSUME UNCHANGED reports, issued \subseteq issued',
             \A id \in ReportIds :
                /\ id \in told' => id \in told \/ \E w \in Workers : TellsReport(w, id)
                /\ \A w \in Workers : TellsReport(w, id)' => TellsReport(w, id)
      PROVE  ReportsKept' /\ ReportsGrow
  BY <1>3 DEF ReportsKept, ReportsGrow
<1>4. ASSUME NEW w \in Workers, Alone(w),
             pc'[w] # "answer" \/ request'[w].op # "create_report"
      PROVE  \A id \in ReportIds : \A v \in Workers : TellsReport(v, id)' => TellsReport(v, id)
  BY <1>4 DEF Alone, TellsReport
<1>5. ASSUME NEW w \in Workers, Receive(w)
      PROVE  ReportsKept' /\ ReportsGrow
  <2>1. pc'[w] # "answer" \/ request'[w].op # "create_report"
    <3>1. PICK req \in Request :
            /\ request' = [request EXCEPT ![w] = req]
            /\ Authorized(req) => GoTo(w, IF req.op \in OnlyLocal THEN "local" ELSE "fetch")
      BY <1>5 DEF Receive, OnlyLocal
    <3>2. req.op = "create_report" => Authorized(req)
      BY DEF Authorized
    <3>3. request'[w] = req
      BY <3>1 DEF Typed, TypeOK
    <3>4. QED
      BY <3>1, <3>2, <3>3 DEF GoTo, Typed, TypeOK
  <2>2. UNCHANGED <<reports, issued, told>>
    BY <1>5 DEF Receive
  <2>3. QED
    BY <1>3, <1>4, <1>5, <2>1, <2>2, EndsAlone
<1>6. ASSUME NEW w \in Workers, Serve(w), ~CreateReport(w) \/ ~ServeReports(w)
      PROVE  ReportsKept' /\ ReportsGrow
  <2>1. request'[w] = request[w] /\ Alone(w) /\ At(w)
    BY <1>6, ServeAlone DEF Typed
  <2>2. request[w].op # "create_report"
    BY <1>6, <2>1, CredentialsMove, DatasetsMove, CallsMove DEF Serve, OnCredentials,
       ServeDatasets, CreateDataset, FindDataset, FindDatasetToDelete, ReadStatus,
       ReadTrainingStatus, Fetching, ServeReports, FindReport, DownloadReport, At,
       FitsRequest
  <2>3. UNCHANGED <<reports, told>> /\ issued \subseteq issued'
    BY <1>6 DEF Serve, ServeCredentials, ServeDatasets, ServeReports, ServeCall, history,
       CreateCredential, UpdateScopes, AskToDeleteCredential, ListCredentials, GrantToken,
       CreateDataset, FindDataset, FindDatasetToDelete, ReadStatus, ReadTrainingStatus,
       FindReport, DownloadReport
  <2>4. QED
    BY <1>3, <1>4, <2>1, <2>2, <2>3
<1>7. ASSUME NEW w \in Workers, GiveUp(w) PROVE ReportsKept' /\ ReportsGrow
  <2>1. request'[w] = request[w] /\ Alone(w) /\ At(w)
    BY <1>7, ServeAlone DEF Typed
  <2>2. request[w].op # "create_report"
    BY <1>7, <2>1, GiveUpMoves DEF At, FitsRequest, OnCredentials, OnDatasets
  <2>3. UNCHANGED <<reports, told, issued>>
    BY <1>7 DEF GiveUp, history
  <2>4. QED
    BY <1>3, <1>4, <2>1, <2>2, <2>3
<1>8. ASSUME NEW w \in Workers, Answer(w) PROVE ReportsKept' /\ ReportsGrow
  <2>1. pc'[w] = "idle" /\ UNCHANGED <<reports, issued>>
    BY <1>8 DEF Answer, GoTo, Typed, TypeOK
  <2>2. \A id \in ReportIds : id \in told' => id \in told \/ TellsReport(w, id)
    <3>1. request[w].op = "create_dataset" /\ answer[w].code = "Created"
            => answer[w].body \in Uuids
      BY <1>8 DEF Answer, Typed, At
    <3>2. QED
      BY <1>8, <3>1, ServiceAssumption DEF Answer, TellsReport
  <2>3. QED
    BY <1>3, <1>4, <1>8, <2>1, <2>2, EndsAlone
<1>9. CASE (\E line \in Lines : ApplyLate(line)) \/ Tick \/ UNCHANGED service_vars
  <2>1. UNCHANGED <<reports, told, issued, pc, request, answer>>
    BY <1>9 DEF ApplyLate, Tick, service_vars, work, history
  <2>2. \A id \in ReportIds : \A w \in Workers : TellsReport(w, id)' => TellsReport(w, id)
    BY <2>1 DEF TellsReport
  <2>3. QED
    BY <1>3, <2>1, <2>2
<1>10. QED
  BY <1>1, <1>2, <1>5, <1>6, <1>7, <1>8, <1>9 DEF Next

LEMMA ReportsInit == Init => ReportsKept
  BY DEF Init, ReportsKept, TellsReport
-----------------------------------------------------------------------------
\* What a worker that was asked for something ready is doing about it.
WellAnswered(a) ==
    \/ a.code = "OK" /\ a.body # "processing"
    \/ a.code = "Timeout"
    \/ a.body = "failed"

DueAt(w) ==
    /\ pc[w] # "idle" /\ request[w].op \in {"status", "download", "download_report"}
    /\ request[w].op # "download_report" => request[w].uuid \notin asked
    /\ pc[w] = "fetch" =>
         /\ request[w].uuid \in told
         /\ clock >= datasets[request[w].uuid].created_at + ProcessingTime
    /\ pc[w] \in {"status", "training"} => clock >= copy[w].created_at + ProcessingTime
    /\ pc[w] = "training" => GenerationFailure
    /\ pc[w] = "local" => /\ request[w].report \in told
                          /\ clock >= reports[request[w].report] + ProcessingTime
    /\ pc[w] = "available" => clock >= copy[w] + ProcessingTime
    /\ pc[w] = "answer" => WellAnswered(answer[w])

DueKept == \A w \in due : DueAt(w)

LEMMA ClockGrows ==
    ASSUME Typed, [Next]_service_vars
    PROVE  clock \in Nat /\ clock' \in Nat /\ clock <= clock'
<1>1. clock \in Nat
  BY StoresAssumption DEF Typed, TypeOK
<1>2. UNCHANGED clock \/ clock' = clock + 1
  BY DEF Next, Serve, Receive, ServeCredentials, ServeDatasets, ServeReports, ServeCall,
     GiveUp, Answer, ApplyLate, Restart, Tick, TimePasses, service_vars
<1>3. QED
  BY <1>1, <1>2

LEMMA DoneStatus ==
    ASSUME NEW d \in Dataset, NEW now \in Nat, now >= d.created_at + ProcessingTime
    PROVE  DatasetStatus(d, now) = IF GenerationFailure THEN "failed" ELSE "done"
  BY StoresAssumption DEF DatasetStatus, Dataset

\* While a worker stays where it is, what it was asked for stays ready.
LEMMA DueFrame ==
    ASSUME Typed, AddedOnce, AskedKept, ReportsKept, [Next]_service_vars, ~Restart,
           NEW w \in Workers, DueAt(w),
           request[w].op # "download_report" => request[w].uuid \notin asked',
           pc'[w] = pc[w], request'[w] = request[w], answer'[w] = answer[w], copy'[w] = copy[w]
    PROVE  DueAt(w)'
<1>0. /\ DatasetStep /\ ReportsGrow /\ asked \subseteq asked'
      /\ clock \in Nat /\ clock' \in Nat /\ clock <= clock' /\ ProcessingTime \in Nat
      /\ At(w) /\ request[w] \in Request
  BY DatasetSteps, ReportStep, AskedGrows, ClockGrows, StoresAssumption
     DEF Typed, TypeOK, DueAt
<1>1. ASSUME pc[w] = "fetch"
      PROVE  /\ request[w].uuid \in told'
             /\ clock' >= datasets'[request[w].uuid].created_at + ProcessingTime
  <2>1. request[w].op \in {"status", "download"} /\ request[w].uuid \in told \ asked
    BY <1>0, <1>1 DEF DueAt, At, OnCredentials, OnDatasets
  <2>2. request[w].uuid \in Uuids
    BY <1>0, <2>1, OfRequest DEF OnDatasets
  <2>3. request[w].uuid \in told' /\ request[w].uuid \notin Dropping
    BY <1>0, <2>1, <2>2, KnownDataset DEF AskedKept
  <2>4. datasets'[request[w].uuid] = datasets[request[w].uuid]
    BY <1>0, <2>1, <2>2, <2>3, KnownDataset
  <2>5. datasets[request[w].uuid].created_at \in Nat
    <3>1. datasets[request[w].uuid] \in Dataset
      BY <2>1, <2>2 DEF AskedKept, Typed, TypeOK
    <3>2. QED
      BY <3>1 DEF Dataset
  <2>6. clock >= datasets[request[w].uuid].created_at + ProcessingTime
    BY <1>1 DEF DueAt
  <2>7. clock' >= datasets'[request[w].uuid].created_at + ProcessingTime
    BY <1>0, <2>4, <2>5, <2>6
  <2>8. QED
    BY <2>1, <2>3, <2>7
<1>2. ASSUME pc[w] \in {"status", "training"}
      PROVE  clock' >= copy[w].created_at + ProcessingTime
  <2>1. copy[w].created_at \in Nat
    BY <1>2 DEF Typed, TypeOK, Dataset
  <2>2. clock >= copy[w].created_at + ProcessingTime
    BY <1>2 DEF DueAt
  <2>3. QED
    BY <1>0, <2>1, <2>2
<1>3. ASSUME pc[w] = "local"
      PROVE  /\ request[w].report \in told'
             /\ clock' >= reports'[request[w].report] + ProcessingTime
  <2>1. /\ request[w].op = "download_report" /\ request[w].report \in told
        /\ clock >= reports[request[w].report] + ProcessingTime
    BY <1>0, <1>3 DEF DueAt, At, OnlyLocal
  <2>2. request[w].report \in ReportIds
    BY <1>0, <2>1, OfRequest
  <2>3. reports'[request[w].report] = reports[request[w].report]
        /\ reports[request[w].report] \in Nat
    BY <1>0, <2>1, <2>2 DEF ReportsKept, ReportsGrow, Typed, TypeOK
  <2>4. request[w].report \in told'
    BY <2>1 DEF Next, Serve, Receive, ServeCredentials, ServeDatasets, ServeReports,
       ServeCall, GiveUp, Answer, ApplyLate, Tick, service_vars, history
  <2>5. QED
    BY <1>0, <2>1, <2>3, <2>4
<1>4. ASSUME pc[w] = "available" PROVE clock' >= copy[w] + ProcessingTime
  <2>1. copy[w] \in Nat /\ clock >= copy[w] + ProcessingTime
    BY <1>4 DEF DueAt, Typed, TypeOK
  <2>2. QED
    BY <1>0, <2>1
<1>5. QED
  BY <1>1, <1>2, <1>3, <1>4 DEF DueAt
LEMMA DueOfReceive ==
    ASSUME Typed, AskedKept, ReportsKept, DueKept, NEW w \in Workers, Receive(w), w \in due'
    PROVE  DueAt(w)'
<1>1. PICK req \in Request :
        /\ request' = [request EXCEPT ![w] = req]
        /\ IF ~Authorized(req) THEN Respond(w, "Forbidden", None)
           ELSE /\ GoTo(w, IF req.op \in OnlyLocal THEN "local" ELSE "fetch")
                /\ UNCHANGED answer
        /\ asked' = IF Deletes(req) THEN asked \cup {req.uuid} ELSE asked
        /\ due' = IF Deletes(req)
                  THEN {v \in due : request[v].op = "download_report"
                                      \/ request[v].uuid # req.uuid}
                  ELSE IF Ready(req) /\ Authorized(req) THEN due \cup {w} ELSE due
  BY DEF Receive, OnlyLocal
<1>2. w \notin due /\ request'[w] = req /\ UNCHANGED <<told, datasets, reports, clock>>
  BY <1>1 DEF Receive, DueKept, DueAt, Typed, TypeOK, stores
<1>3. Ready(req) /\ Authorized(req) /\ UNCHANGED asked
  BY <1>1, <1>2
<1>4. pc'[w] = IF req.op \in OnlyLocal THEN "local" ELSE "fetch"
  BY <1>1, <1>3 DEF GoTo, Typed, TypeOK
<1>5. CASE req.op \in {"status", "download"}
  <2>1. req.uuid \in told \ asked /\ req.uuid \in Uuids
    BY <1>3, <1>5, OfRequest DEF Ready, OnDatasets
  <2>2. datasets[req.uuid] # None
    BY <2>1 DEF AskedKept
  <2>3. clock >= datasets[req.uuid].created_at + ProcessingTime
    BY <1>3, <1>5, <2>2 DEF Ready
  <2>4. pc'[w] = "fetch"
    BY <1>4, <1>5 DEF OnlyLocal
  <2>5. QED
    BY <1>2, <1>3, <1>5, <2>1, <2>3, <2>4 DEF DueAt
<1>6. CASE req.op = "download_report"
  <2>1. req.report \in told /\ req.report \in ReportIds
    BY <1>3, <1>6, OfRequest DEF Ready
  <2>2. clock >= reports[req.report] + ProcessingTime
    BY <1>3, <1>6, <2>1 DEF Ready, ReportsKept
  <2>3. pc'[w] = "local"
    BY <1>4, <1>6 DEF OnlyLocal
  <2>4. QED
    BY <1>2, <1>6, <2>1, <2>2, <2>3 DEF DueAt
<1>7. QED
  BY <1>3, <1>5, <1>6 DEF Ready

LEMMA DueOfServe ==
    ASSUME Typed, AskedKept, ReportsKept, NEW w \in Workers, Serve(w), DueAt(w)
    PROVE  DueAt(w)'
<1>0. /\ request'[w] = request[w] /\ request[w] \in Request /\ At(w)
      /\ request[w].op \in {"status", "download", "download_report"}
      /\ clock \in Nat /\ UNCHANGED <<asked, clock>>
  BY ServeAlone, StoresAssumption DEF DueAt, Typed, TypeOK, Serve, ServeCredentials,
     ServeDatasets, ServeReports, ServeCall, history
<1>1. ASSUME NEW code, NEW body, Respond(w, code, body),
             (code = "OK" /\ body # "processing") \/ body = "failed"
      PROVE  DueAt(w)'
  BY <1>0, <1>1, Responded DEF DueAt, WellAnswered
<1>2. ~ServeCredentials(w) /\ ~ServeCall(w)
  BY <1>0, CredentialsMove, CallsMove DEF OnCredentials, At, FitsRequest
<1>3. CASE ServeDatasets(w)
  <2>1. CASE FindDataset(w)
    <3>1. /\ request[w].op \in {"status", "download"} /\ request[w].uuid \in told \ asked
          /\ clock >= datasets[request[w].uuid].created_at + ProcessingTime
      BY <2>1 DEF FindDataset, DueAt
    <3>2. request[w].uuid \in Uuids
      BY <1>0, <3>1, OfRequest DEF OnDatasets
    <3>3. datasets[request[w].uuid] \in Dataset
      BY <3>1, <3>2 DEF AskedKept, Typed, TypeOK
    <3>4. request[w].uuid \in Present(datasets)
      BY <3>2, <3>3, ServiceAssumption DEF Present, Typed, TypeOK
    <3>5. copy' = [copy EXCEPT ![w] = datasets[request[w].uuid]] /\ GoTo(w, "status")
      BY <2>1, <3>3, <3>4, LoadedIsSame DEF FindDataset
    <3>6. copy'[w] = datasets[request[w].uuid] /\ pc'[w] = "status"
      <4>1. DOMAIN copy = Workers
        BY DEF Typed, Shapes
      <4>2. QED
        BY <3>5, <4>1 DEF GoTo, Typed, TypeOK
    <3>7. QED
      BY <1>0, <3>1, <3>6 DEF DueAt
  <2>2. CASE ReadStatus(w)
    <3>1. copy[w] \in Dataset /\ clock >= copy[w].created_at + ProcessingTime
      BY <2>2 DEF ReadStatus, DueAt, Typed, TypeOK
    <3>2. DatasetStatus(copy[w], clock) = IF GenerationFailure THEN "failed" ELSE "done"
      BY <1>0, <3>1, DoneStatus
    <3>3. CASE request[w].op = "status"
      BY <1>1, <2>2, <3>2, <3>3 DEF ReadStatus
    <3>4. CASE request[w].op # "status" /\ ~GenerationFailure
      BY <1>1, <2>2, <3>2, <3>4 DEF ReadStatus
    <3>5. CASE request[w].op # "status" /\ GenerationFailure
      <4>1. pc'[w] = "training"
        BY <2>2, <3>2, <3>5 DEF ReadStatus, GoTo, Typed, TypeOK
      <4>2. copy'[w] = copy[w]
        BY <2>2, <4>1 DEF ReadStatus
      <4>3. QED
        BY <1>0, <3>1, <3>5, <4>1, <4>2 DEF DueAt
    <3>6. QED
      BY <3>3, <3>4, <3>5
  <2>3. CASE ReadTrainingStatus(w)
    <3>1. /\ copy[w] \in Dataset /\ clock >= copy[w].created_at + ProcessingTime
          /\ GenerationFailure
      BY <2>3 DEF ReadTrainingStatus, DueAt, Typed, TypeOK
    <3>2. DatasetStatus(copy[w], clock) = "failed"
      BY <1>0, <3>1, DoneStatus
    <3>3. QED
      BY <1>1, <2>3, <3>2 DEF ReadTrainingStatus
  <2>4. QED
    BY <1>0, <1>3, <2>1, <2>2, <2>3 DEF ServeDatasets, CreateDataset, FindDatasetToDelete,
       Fetching
<1>4. CASE ServeReports(w)
  <2>1. CASE FindReport(w)
    <3>1. /\ request[w].op = "download_report" /\ request[w].report \in told
          /\ clock >= reports[request[w].report] + ProcessingTime
      BY <2>1 DEF FindReport, DueAt
    <3>2. request[w].report \in ReportIds
      BY <1>0, <3>1, OfRequest
    <3>3. request[w].report \in Present(reports)
      BY <3>1, <3>2 DEF ReportsKept, Present, Typed, TypeOK
    <3>4. copy' = [copy EXCEPT ![w] = reports[request[w].report]] /\ GoTo(w, "available")
      BY <2>1, <3>3 DEF FindReport
    <3>5. copy'[w] = reports[request[w].report] /\ pc'[w] = "available"
      <4>1. DOMAIN copy = Workers
        BY DEF Typed, Shapes
      <4>2. QED
        BY <3>4, <4>1 DEF GoTo, Typed, TypeOK
    <3>6. QED
      BY <1>0, <3>1, <3>5 DEF DueAt
  <2>2. CASE DownloadReport(w)
    <3>1. clock >= copy[w] + ProcessingTime
      BY <2>2 DEF DownloadReport, DueAt
    <3>2. QED
      BY <1>1, <2>2, <3>1 DEF DownloadReport
  <2>3. QED
    BY <1>0, <1>4, <2>1, <2>2 DEF ServeReports, CreateReport
<1>5. QED
  BY <1>2, <1>3, <1>4 DEF Serve

LEMMA DueStep ==
    ASSUME Typed, AddedOnce, AskedKept, ReportsKept, DueKept, [Next]_service_vars
    PROVE  DueKept'
<1> SUFFICES ASSUME NEW w \in due' PROVE DueAt(w)'
  BY DEF DueKept
<1>0. w \in Workers
  BY TypedNext DEF Typed, TypeOK
<1>1. ASSUME w \in due, UNCHANGED asked, ~Restart,
             pc'[w] = pc[w], request'[w] = request[w], answer'[w] = answer[w],
             copy'[w] = copy[w]
      PROVE  DueAt(w)'
  <2>1. DueAt(w)
    BY <1>1 DEF DueKept
  <2>2. request[w].op # "download_report" => request[w].uuid \notin asked'
    BY <1>1, <2>1 DEF DueAt
  <2>3. QED
    BY <1>0, <1>1, <2>1, <2>2, DueFrame
<1>2. ASSUME NEW v \in Workers, Receive(v) PROVE DueAt(w)'
  <2>1. CASE v = w
    BY <1>0, <1>2, <2>1, DueOfReceive
  <2>2. CASE v # w
    <3>1. Alone(v)
      BY <1>2, EndsAlone
    <3>2. w \in due /\ (request[w].op # "download_report" => request[w].uuid \notin asked')
      <4>1. PICK req \in Request :
              /\ asked' = IF Deletes(req) THEN asked \cup {req.uuid} ELSE asked
              /\ due' = IF Deletes(req)
                        THEN {u \in due : request[u].op = "download_report"
                                            \/ request[u].uuid # req.uuid}
                        ELSE IF Ready(req) /\ Authorized(req) THEN due \cup {v} ELSE due
        BY <1>2 DEF Receive
      <4>2. w \in due
        BY <2>2, <4>1
      <4>3. request[w].op # "download_report" => request[w].uuid \notin asked
        BY <4>2 DEF DueKept, DueAt
      <4>4. QED
        BY <2>2, <4>1, <4>2, <4>3
    <3>3. ~Restart
      <4>1. \E u \in {v} : pc'[u] # "idle"
        <5>1. Respond(v, "Forbidden", None) \/ GoTo(v, "local") \/ GoTo(v, "fetch")
          BY <1>2 DEF Receive
        <5>2. QED
          BY <1>2, <5>1 DEF Respond, GoTo, Typed, TypeOK
      <4>2. QED
        BY <1>2, <4>1 DEF Restart
    <3>4. DueAt(w)
      BY <3>2 DEF DueKept
    <3>5. QED
      BY <1>0, <2>2, <3>1, <3>2, <3>3, <3>4, DueFrame DEF Alone
  <2>3. QED
    BY <2>1, <2>2
<1>3. ASSUME NEW v \in Workers, Serve(v) \/ GiveUp(v) PROVE DueAt(w)'
  <2>1. UNCHANGED <<asked, due>>
    BY <1>3 DEF Serve, ServeCredentials, ServeDatasets, ServeReports, ServeCall, GiveUp,
       history
  <2>2. DueAt(w)
    BY <2>1 DEF DueKept
  <2>3. CASE v = w
    <3>1. CASE Serve(w)
      BY <1>0, <2>2, <3>1, DueOfServe
    <3>2. CASE GiveUp(w)
      <4>1. pc'[w] = "answer" /\ answer'[w].code = "Timeout" /\ request'[w] = request[w]
        BY <1>0, <3>2, Responded, ServeAlone DEF GiveUp
      <4>2. QED
        BY <2>1, <2>2, <4>1 DEF DueAt, WellAnswered
    <3>3. QED
      BY <1>3, <2>3, <3>1, <3>2
  <2>4. CASE v # w
    <3>1. Alone(v) /\ pc'[v] # "idle"
      <4>1. Moves(v)
        BY <1>3, CredentialsMove, DatasetsMove, ReportsMove, CallsMove, GiveUpMoves
           DEF Serve
      <4>2. QED
        BY <1>3, <4>1, ServeAlone, BecomesOne DEF Moves, Fits
    <3>2. ~Restart
      BY <3>1 DEF Restart
    <3>3. QED
      BY <1>0, <1>1, <2>1, <2>4, <3>1, <3>2 DEF Alone
  <2>5. QED
    BY <2>3, <2>4
<1>4. ASSUME NEW v \in Workers, Answer(v), ~Restart PROVE DueAt(w)'
  <2>1. due' = due \ {v} /\ UNCHANGED asked
    BY <1>4 DEF Answer
  <2>2. QED
    BY <1>0, <1>1, <1>4, <2>1, EndsAlone DEF Alone
<1>5. ASSUME UNCHANGED <<work, due, asked>>, ~Restart PROVE DueAt(w)'
  BY <1>1, <1>5 DEF work
<1>6. CASE Restart
  BY <1>6 DEF Restart
<1>7. QED
  BY <1>2, <1>3, <1>4, <1>5, <1>6 DEF Next, ApplyLate, Tick, service_vars, history

\* Whoever asks for a dataset or a report which is ready is served, whatever
\* other threads, late calls and restarts of the app do meanwhile.
THEOREM ReadyIsAlwaysServed == Spec => []ReadyIsServed
<1>1. Init => ReportsKept /\ DueKept
  BY ReportsInit DEF Init, DueKept
<1>2. Typed /\ AddedOnce /\ AskedKept /\ ReportsKept /\ DueKept /\ [Next]_service_vars
        => (Typed /\ AddedOnce /\ AskedKept /\ ReportsKept /\ DueKept)'
  BY TypedNext, DatasetSteps, AddedOnceStep, AskedStep, ReportStep, DueStep
<1>3. Typed /\ DueKept => ReadyIsServed
  BY DEF DueKept, DueAt, WellAnswered, ReadyIsServed
<1>4. QED
  BY <1>1, <1>2, <1>3, TypedInit, AddedOnceInit, AskedInit, PTL DEF Spec
-----------------------------------------------------------------------------
\* Only what a client knows of was asked to be deleted.
AskedKnown == asked \subseteq told

LEMMA AskedKnownStep ==
    ASSUME Typed, AskedKnown, [Next]_service_vars
    PROVE  AskedKnown'
<1>1. ASSUME NEW w \in Workers, Receive(w) PROVE AskedKnown'
  <2>1. PICK req \in Request :
          /\ Askable(req)
          /\ asked' = IF Deletes(req) THEN asked \cup {req.uuid} ELSE asked
    BY <1>1 DEF Receive
  <2>2. Deletes(req) => req.uuid \in told
    BY <2>1 DEF Askable, Deletes
  <2>3. told' = told
    BY <1>1 DEF Receive
  <2>4. QED
    BY <2>1, <2>2, <2>3 DEF AskedKnown
<1>2. CASE Restart
  <2>1. asked' = asked /\ told' = told \ ReportIds
    BY <1>2 DEF Restart
  <2>2. asked \subseteq Uuids
    BY DEF Typed, TypeOK
  <2>3. QED
    BY <2>1, <2>2, ServiceAssumption DEF AskedKnown
<1>3. ASSUME asked' = asked, told \subseteq told' PROVE AskedKnown'
  BY <1>3 DEF AskedKnown
<1>4. QED
  BY <1>1, <1>2, <1>3 DEF Next, Serve, ServeCredentials, ServeDatasets, ServeReports,
     ServeCall, GiveUp, Answer, ApplyLate, Tick, service_vars, history

\* The phase of a dataset depends on whether it is there.
LEMMA PhaseOf ==
    ASSUME Typed, NEW uuid \in Uuids
    PROVE  /\ datasets[uuid] # None => Phase(uuid) \in Lifecycle!Stored
           /\ datasets[uuid] = None /\ uuid \in asked => Phase(uuid) = "deleted"
           /\ datasets[uuid] = None /\ uuid \notin asked => Phase(uuid) = "absent"
  BY DEF Phase, Present, Lifecycle!Stored, Typed, TypeOK

\* It is that of before unless something about this dataset changes.
LEMMA PhaseFrame ==
    ASSUME Typed, Typed', NEW uuid \in Uuids, clock' = clock,
           datasets'[uuid] = datasets[uuid],
           datasets[uuid] # None \/ (uuid \in asked' <=> uuid \in asked)
    PROVE  Phase(uuid)' = Phase(uuid)
  BY DEF Phase, Present, Typed, TypeOK

Unnoticed == UNCHANGED <<datasets, clock, asked, told \cap Uuids>>

LEMMA UnnoticedStutters == Unnoticed => UNCHANGED Lifecycle!vars
  BY DEF Unnoticed, Lifecycle!vars, Phase, Present

LEMMA LifecycleOfReceive ==
    ASSUME Typed, Typed', AskedKnown, NEW w \in Workers, Receive(w)
    PROVE  [Lifecycle!Next]_(Lifecycle!vars)
<1>1. PICK req \in Request :
        /\ Askable(req)
        /\ asked' = IF Deletes(req) THEN asked \cup {req.uuid} ELSE asked
  BY DEF Receive
<1>2. UNCHANGED <<datasets, clock, told>>
  BY DEF Receive, stores
<1>3. CASE Deletes(req)
  <2>1. req.uuid \in told \cap Uuids /\ datasets[req.uuid] # None
    BY <1>1, <1>3, OfRequest DEF Askable, Deletes, OnDatasets
  <2>2. Phase(req.uuid) \in Lifecycle!Stored
    BY <2>1, PhaseOf
  <2>3. \A uuid \in Uuids : Phase(uuid)' = Phase(uuid)
    BY <1>1, <1>2, <1>3, <2>1, PhaseFrame
  <2>4. Lifecycle!AskToDelete(req.uuid)
    BY <1>1, <1>2, <1>3, <2>1, <2>2, <2>3 DEF Lifecycle!AskToDelete
  <2>5. QED
    BY <2>1, <2>4 DEF Lifecycle!Next
<1>4. CASE ~Deletes(req)
  BY <1>1, <1>2, <1>4, UnnoticedStutters DEF Unnoticed
<1>5. QED
  BY <1>3, <1>4

\* The client gets to know of a dataset, which is there.
LEMMA LifecycleOfAnswer ==
    ASSUME Typed, Typed', AskedKept, AskedKnown, NEW w \in Workers, Answer(w)
    PROVE  [Lifecycle!Next]_(Lifecycle!vars)
<1>1. UNCHANGED <<datasets, clock, asked>>
  BY DEF Answer, stores
<1>2. request[w].op = "create_report" => answer[w].body \in ReportIds
  BY DEF Answer, Typed, At
<1>3. CASE /\ request[w].op = "create_dataset" /\ answer[w].code = "Created"
           /\ answer[w].body \notin told
  <2> DEFINE uuid == answer[w].body
  <2>1. uuid \in Uuids /\ Tells(w, uuid) /\ told' = told \cup {uuid}
    BY <1>3 DEF Answer, Tells, Typed, At
  <2>2. datasets[uuid] # None
    BY <1>3, <2>1 DEF AskedKept, AskedKnown
  <2>3. Phase(uuid) \in Lifecycle!Stored
    BY <2>1, <2>2, PhaseOf
  <2>4. \A u \in Uuids : Phase(u)' = Phase(u)
    BY <1>1, PhaseFrame
  <2>5. Lifecycle!Tell(uuid)
    BY <1>1, <2>1, <2>3, <2>4 DEF Lifecycle!Tell
  <2>6. QED
    BY <2>1, <2>5 DEF Lifecycle!Next
<1>4. CASE ~(/\ request[w].op = "create_dataset" /\ answer[w].code = "Created"
             /\ answer[w].body \notin told)
  <2>1. told' \cap Uuids = told \cap Uuids
    BY <1>2, <1>4, ServiceAssumption DEF Answer
  <2>2. QED
    BY <1>1, <2>1, UnnoticedStutters DEF Unnoticed
<1>5. QED
  BY <1>3, <1>4

\* What the target manager carries out creates a dataset that never was, or
\* removes one that is to go.
LEMMA LifecycleOfPerform ==
    ASSUME Typed, Typed', AddedOnce, AskedKept, AskedKnown,
           NEW c \in Sent, c # None, Perform(c), UNCHANGED <<clock, told, asked>>
    PROVE  [Lifecycle!Next]_(Lifecycle!vars)
<1>0. c \in Call /\ datasets \in [Uuids -> Dataset \cup {None}]
  BY DEF Sent, Typed, TypeOK
<1>1. CASE c.op = "add_dataset" /\ AddDataset(c.uuid, Loaded(c.dataset, clock))
  <2>1. c.uuid \in Uuids /\ c.dataset \in Dataset /\ c.dataset # None
    BY <1>0, <1>1, OfCall, ServiceAssumption
  <2>2. datasets' = [datasets EXCEPT ![c.uuid] = c.dataset]
    BY <1>1, <2>1, LoadedIsSame DEF AddDataset
  <2>3. Unknown(c.uuid) /\ c.uuid \notin asked
    <3>1. OnItsWay(c.uuid)
      BY <1>1 DEF Adds, OnItsWay, Sent
    <3>2. QED
      BY <2>1, <3>1 DEF AddedOnce, Unknown, AskedKnown
  <2>4. Phase(c.uuid) = "absent"
    BY <2>1, <2>3, PhaseOf DEF Unknown
  <2>5. Phase(c.uuid)' \in Lifecycle!Stored
    <3>1. datasets'[c.uuid] # None
      BY <1>0, <2>1, <2>2
    <3>2. QED
      BY <2>1, <3>1 DEF Phase, Present, Lifecycle!Stored, Typed, TypeOK
  <2>6. \A uuid \in Uuids \ {c.uuid} : Phase(uuid)' = Phase(uuid)
    BY <1>0, <2>2, PhaseFrame
  <2>7. Lifecycle!Create(c.uuid)
    BY <2>1, <2>4, <2>5, <2>6 DEF Lifecycle!Create
  <2>8. QED
    BY <2>1, <2>7 DEF Lifecycle!Next
<1>2. CASE c.op = "remove_dataset" /\ RemoveDataset(c.uuid)
  <2>1. c.uuid \in Uuids /\ datasets' = [datasets EXCEPT ![c.uuid] = None]
    BY <1>0, <1>2, OfCall DEF RemoveDataset
  <2>2. c.uuid \in asked
    BY <1>2 DEF AskedKept, Dropping
  <2>3. CASE datasets[c.uuid] # None
    <3>1. Phase(c.uuid) \in Lifecycle!Stored
      BY <2>1, <2>3, PhaseOf
    <3>2. Phase(c.uuid)' = "deleted"
      BY <1>0, <2>1, <2>2 DEF Phase, Present
    <3>3. \A uuid \in Uuids \ {c.uuid} : Phase(uuid)' = Phase(uuid)
      BY <1>0, <2>1, PhaseFrame
    <3>4. Lifecycle!Delete(c.uuid)
      BY <2>1, <2>2, <3>1, <3>2, <3>3 DEF Lifecycle!Delete
    <3>5. QED
      BY <2>1, <3>4 DEF Lifecycle!Next
  <2>4. CASE datasets[c.uuid] = None
    <3>1. datasets' = datasets
      BY <1>0, <2>1, <2>4
    <3>2. QED
      BY <3>1, UnnoticedStutters DEF Unnoticed
  <2>5. QED
    BY <2>3, <2>4
<1>3. CASE UNCHANGED datasets
  BY <1>3, UnnoticedStutters DEF Unnoticed
<1>4. QED
  BY <1>1, <1>2, <1>3 DEF Perform, PutCredential, DeleteCredential

\* A dataset that is done stays done.
LEMMA LifecycleOfTick ==
    ASSUME Typed, Typed', Tick
    PROVE  [Lifecycle!Next]_(Lifecycle!vars)
<1>1. UNCHANGED <<datasets, asked, told>> /\ clock' = clock + 1 /\ clock \in Nat
  BY StoresAssumption DEF Tick, TimePasses, stores, history, Typed, TypeOK
<1> DEFINE done == {uuid \in Uuids : Phase(uuid) = "processing"
                                       /\ Phase(uuid)' = "finished"}
<1>2. ASSUME NEW uuid \in Uuids
      PROVE  \/ Phase(uuid)' = Phase(uuid)
             \/ Phase(uuid) = "processing" /\ Phase(uuid)' = "finished"
  <2>1. CASE uuid \in Present(datasets)
    <3>1. uuid \in Present(datasets)' /\ datasets'[uuid] = datasets[uuid]
      BY <1>1, <2>1 DEF Present
    <3>2. datasets[uuid].created_at \in Nat
      BY <1>2, <2>1 DEF Present, Dataset, Typed, TypeOK
    <3>3. DatasetStatus(datasets[uuid], clock) # "processing"
            => DatasetStatus(datasets[uuid], clock + 1) # "processing"
      BY <1>1, <3>2, StoresAssumption DEF DatasetStatus
    <3>4. QED
      BY <1>1, <2>1, <3>1, <3>3 DEF Phase
  <2>2. CASE uuid \notin Present(datasets)
    BY <1>1, <2>2 DEF Phase, Present
  <2>3. QED
    BY <2>1, <2>2
<1>3. /\ done \in SUBSET {uuid \in Uuids : Phase(uuid) = "processing"}
      /\ \A uuid \in Uuids : Phase(uuid)' = IF uuid \in done THEN "finished"
                                            ELSE Phase(uuid)
  BY <1>2
<1> HIDE DEF done
<1>4. Lifecycle!FinishProcessing
  <2>1. done \in SUBSET {uuid \in Uuids : [u \in Uuids |-> Phase(u)][uuid] = "processing"}
    BY <1>3
  <2>2. [uuid \in Uuids |-> Phase(uuid)']
          = [uuid \in Uuids |-> IF uuid \in done THEN "finished"
                                ELSE [u \in Uuids |-> Phase(u)][uuid]]
    BY <1>3
  <2>3. QED
    BY <1>1, <2>1, <2>2 DEF Lifecycle!FinishProcessing
<1>5. QED
  BY <1>4 DEF Lifecycle!Next

LEMMA LifecycleSteps ==
    ASSUME Typed, Typed', AddedOnce, AskedKept, AskedKnown, [Next]_service_vars
    PROVE  [Lifecycle!Next]_(Lifecycle!vars)
<1>1. ASSUME NEW w \in Workers, ServeCall(w) PROVE [Lifecycle!Next]_(Lifecycle!vars)
  <2>1. UNCHANGED <<clock, told, asked>>
    BY <1>1 DEF ServeCall
  <2>2. CASE LookUp(w)
    BY <2>1, <2>2, UnnoticedStutters DEF LookUp, stores, Unnoticed
  <2>3. CASE Apply(w)
    <3>1. call[w] \in Sent /\ call[w] # None /\ Perform(call[w])
      BY <2>3 DEF Apply, Sent, Typed, TypeOK
    <3>2. QED
      BY <2>1, <3>1, LifecycleOfPerform
  <2>4. QED
    BY <1>1, <2>2, <2>3 DEF ServeCall
<1>2. ASSUME NEW line \in Lines, ApplyLate(line) PROVE [Lifecycle!Next]_(Lifecycle!vars)
  <2>1. UNCHANGED <<clock, told, asked>> /\ late[line] \in Sent /\ late[line] # None
    BY <1>2 DEF ApplyLate, Sent
  <2>2. CASE Perform(late[line])
    BY <2>1, <2>2, LifecycleOfPerform
  <2>3. CASE UNCHANGED stores
    BY <2>1, <2>3, UnnoticedStutters DEF stores, Unnoticed
  <2>4. QED
    BY <1>2, <2>2, <2>3 DEF ApplyLate
<1>3. CASE Restart
  <2>1. UNCHANGED <<datasets, clock, asked>> /\ told' = told \ ReportIds
    BY <1>3 DEF Restart, stores
  <2>2. told' \cap Uuids = told \cap Uuids
    BY <2>1, ServiceAssumption
  <2>3. QED
    BY <2>1, <2>2, UnnoticedStutters DEF Unnoticed
<1>4. ASSUME UNCHANGED <<datasets, clock, asked, told>>
      PROVE  [Lifecycle!Next]_(Lifecycle!vars)
  BY <1>4, UnnoticedStutters DEF Unnoticed
<1>5. ASSUME NEW w \in Workers,
             ServeCredentials(w) \/ ServeDatasets(w) \/ ServeReports(w) \/ GiveUp(w)
      PROVE  [Lifecycle!Next]_(Lifecycle!vars)
  BY <1>4, <1>5 DEF ServeCredentials, ServeDatasets, ServeReports, GiveUp, stores, history
<1>6. CASE UNCHANGED service_vars
  BY <1>4, <1>6 DEF service_vars, stores, history
<1>7. QED
  BY <1>1, <1>2, <1>3, <1>5, <1>6, LifecycleOfReceive, LifecycleOfAnswer,
     LifecycleOfTick DEF Next, Serve

\* Threads which work on copies, calls given up and arriving late, and
\* restarts: to its clients every dataset comes to be, is processed and goes
\* as one that a single thread keeps.
THEOREM LifecycleImplemented == Spec => ImplementsLifecycle
<1>1. Init => Lifecycle!Init
  BY DEF Init, StoresInit, Lifecycle!Init, Phase, Present
<1>2. Init => AskedKnown
  BY DEF Init, AskedKnown
<1>3. Typed /\ AddedOnce /\ AskedKept /\ AskedKnown /\ [Next]_service_vars
        => (Typed /\ AddedOnce /\ AskedKept /\ AskedKnown)'
  BY TypedNext, DatasetSteps, AddedOnceStep, AskedStep, AskedKnownStep
<1>4. Typed /\ Typed' /\ AddedOnce /\ AskedKept /\ AskedKnown /\ [Next]_service_vars
        => [Lifecycle!Next]_(Lifecycle!vars)
  BY LifecycleSteps
<1>5. QED
  BY <1>1, <1>2, <1>3, <1>4, TypedInit, AddedOnceInit, AskedInit, PTL
     DEF Spec, ImplementsLifecycle, Lifecycle!Spec
=============================================================================
