------------------------- MODULE ModelTargetService -------------------------
(***************************************************************************)
(* The Model Target Web API, _model_target_web_api.py, and the reports of  *)
(* _reco_counts_web_api.py as the VWS app serves them.  Datasets and       *)
(* credentials are kept by the target manager: a request fetches one copy  *)
(* of a dictionary, decides on it, and sends at most one call, whose       *)
(* answer nobody looks at (_HTTPModelTargetDatasetStore).  Reports are     *)
(* kept by the app itself and go with it when it restarts.  Request bodies *)
(* are well formed here; DatasetValidators has their validation.              *)
(***************************************************************************)
EXTENDS ModelTargetStores

CONSTANTS
    ReportIds,
    FixedClientId,         \* the client id of the built-in credential
    MaxClientCredentials,  \* _MAX_CLIENT_CREDENTIALS
    ScopeLists,            \* the scopes clients ask for
    Tokens,                \* the scopes of bearer tokens; nothing verifies them
    Workloads,             \* what clients do: the routes they use, the scopes
                           \* they ask for, and a bound on their credentials
    Workers,               \* the threads of the app
    Lines                  \* connections on which a call goes on alone

ASSUME ServiceAssumption ==
    /\ IsFiniteSet(Workers) /\ IsFiniteSet(Lines)
    /\ MaxClientCredentials \in Nat \ {0}
    /\ FixedClientId \notin ClientIds
    /\ ScopeLists \subseteq SUBSET Scopes /\ Tokens \subseteq SUBSET Scopes
    /\ \A scopes \in SUBSET Scopes : scopes # None
    /\ None \notin Dataset /\ None \notin Nat
    /\ ReportIds \cap Uuids = {} /\ ReportIds \cap ClientIds = {}
    /\ Uuids \cap ClientIds = {}

VARIABLES
    reports,   \* _RECO_COUNTS_REPORT_STORE: the creation date of each
    issued,    \* the ids generated so far (uuid4)
    workload,  \* what the clients of this behaviour do
    pc, request, call, answer,  \* of each worker
    copy,      \* the dataset, or the report's date, which it looked up
    late,      \* the calls whose worker has given up or died
    held,      \* history: the scopes a credential had since a token for it
               \* was asked for
    gone,      \* history: ids deleted while no update of them was on its way
    told,      \* history: uuids and report ids which a client was told of
    asked,     \* history: datasets whose deletion was asked for
    due        \* history: workers asked for something that was ready

work == <<pc, request, call, answer, copy>>
history == <<held, gone, told, asked, due>>
service_vars == <<clock, stores, reports, issued, workload, work, late, history>>

CredentialRequest ==
    [op : {"create_credential"}, token : Tokens, scopes : ScopeLists]
    \cup [op : {"update_scopes"}, token : Tokens, client_id : ClientIds,
          scopes : ScopeLists]
    \cup [op : {"delete_credential"}, token : Tokens, client_id : ClientIds]
    \cup [op : {"list_credentials"}, token : Tokens]
    \cup [op : {"oauth2_token"}, client_id : ClientIds \cup {FixedClientId},
          secret_matches : BOOLEAN, scopes : ScopeLists \cup {{}}]

DatasetRequest ==
    [op : {"create_dataset"}, token : Tokens, type : Types]
    \cup [op : {"status", "download", "delete_dataset"}, token : Tokens,
          type : Types, uuid : Uuids]

ReportRequest ==
    [op : {"create_report"}] \cup [op : {"download_report"}, report : ReportIds]

Request == CredentialRequest \cup DatasetRequest \cup ReportRequest

\* The calls to the target manager.
Call ==
    [op : {"put_credential"}, client_id : ClientIds, scopes : ScopeLists]
    \cup [op : {"remove_credential"}, client_id : ClientIds]
    \cup [op : {"add_dataset"}, uuid : Uuids, dataset : Dataset]
    \cup [op : {"remove_dataset"}, uuid : Uuids]

ASSUME NoneAssumption == None \notin Request \cup Call

-----------------------------------------------------------------------------
\* _require_client_credentials_scope and _require_bearer_token.
Authorized(req) ==
    CASE req.op \in {"create_credential", "update_scopes", "delete_credential",
                     "list_credentials"} -> "clientcredentials" \in req.token
      [] req.op \in {"create_dataset", "status", "download", "delete_dataset"} ->
            req.token \cap {req.type, "all"} # {}
      [] OTHER -> TRUE

GoTo(w, place) == pc' = [pc EXCEPT ![w] = place]

Respond(w, code, body) ==
    /\ GoTo(w, "answer")
    /\ answer' = [answer EXCEPT ![w] = [code |-> code, body |-> body]]

Send(w, c) ==
    /\ GoTo(w, "call")
    /\ call' = [call EXCEPT ![w] = c]

\* The bound on creations: those which have no id yet will find one.
Left(ids, op, bound) ==
    Cardinality(issued \cap ids)
      + Cardinality({w \in Workers : /\ pc[w] \in {"fetch", "local"}
                                     /\ request[w].op = op})
    < bound

\* What a client can ask for: of the uuids it was told of, nobody guesses one.
Askable(req) ==
    /\ req.op \in workload.routes
    /\ CASE req.op = "create_credential" ->
               /\ Left(ClientIds, req.op, workload.credentials)
               /\ req.scopes \in workload.scopes
         [] req.op = "update_scopes" -> req.scopes \in workload.scopes
         [] req.op = "create_dataset" -> Left(Uuids, req.op, Cardinality(Uuids))
         [] req.op = "create_report" ->
               Left(ReportIds, req.op, Cardinality(ReportIds))
         [] req.op \in {"status", "download", "delete_dataset"} ->
               req.uuid \in told
         [] OTHER -> TRUE

\* What was created, is finished, and nobody asked to delete.
Ready(req) ==
    \/ /\ req.op \in {"status", "download"}
       /\ req.uuid \in told \ asked
       /\ datasets[req.uuid] # None =>
            clock >= datasets[req.uuid].created_at + ProcessingTime
    \/ /\ req.op = "download_report"
       /\ req.report \in told
       /\ reports[req.report] # None =>
            clock >= reports[req.report] + ProcessingTime

\* A request to delete a dataset through the route which created it.
Deletes(req) ==
    /\ req.op = "delete_dataset" /\ Authorized(req)
    /\ datasets[req.uuid] # None /\ datasets[req.uuid].type = req.type

\* A worker takes a request and checks its token.
Receive(w) ==
    /\ pc[w] = "idle"
    /\ \E req \in Request :
         /\ Askable(req)
         /\ request' = [request EXCEPT ![w] = req]
         /\ IF ~Authorized(req) THEN Respond(w, "Forbidden", None)
            ELSE /\ GoTo(w, IF req.op \in {"create_dataset", "create_report",
                                           "download_report"}
                            THEN "local" ELSE "fetch")
                 /\ UNCHANGED answer
         /\ held' = IF req.op = "oauth2_token" /\ req.client_id \in Present(credentials)
                    THEN [held EXCEPT ![w] = credentials[req.client_id]] ELSE held
         /\ asked' = IF Deletes(req) THEN asked \cup {req.uuid} ELSE asked
         /\ due' = IF Deletes(req)
                   THEN {v \in due : request[v].op = "download_report"
                                       \/ request[v].uuid # req.uuid}
                   ELSE IF Ready(req) /\ Authorized(req) THEN due \cup {w} ELSE due
    /\ UNCHANGED <<clock, stores, reports, issued, workload, call, copy, late,
                   gone, told>>

-----------------------------------------------------------------------------
\* The handlers of credentials: one copy of the dictionary, one decision.
Fetching(w, op) == pc[w] = "fetch" /\ request[w].op = op

\* Mutant: one credential too many.
CreateCredentialOneLater(w) ==
    /\ Fetching(w, "create_credential")
    /\ IF Cardinality(Present(credentials)) > MaxClientCredentials
       THEN Respond(w, "Conflict", None) /\ UNCHANGED <<call, issued>>
       ELSE \E id \in ClientIds \ issued :
              /\ issued' = issued \cup {id}
              /\ Send(w, [op |-> "put_credential", client_id |-> id,
                          scopes |-> request[w].scopes])
              /\ UNCHANGED answer

CreateCredential(w) ==
    /\ Fetching(w, "create_credential")
    /\ IF Cardinality(Present(credentials)) >= MaxClientCredentials
       THEN Respond(w, "Conflict", None) /\ UNCHANGED <<call, issued>>
       ELSE \E id \in ClientIds \ issued :
              /\ issued' = issued \cup {id}
              /\ Send(w, [op |-> "put_credential", client_id |-> id,
                          scopes |-> request[w].scopes])
              /\ UNCHANGED answer

\* Mutants: an update stores the scopes of the token it came with, and one of
\* an unknown credential creates it.
UpdateKeepingRequest(w) ==
    /\ Fetching(w, "update_scopes")
    /\ IF request[w].client_id \notin Present(credentials)
       THEN Respond(w, "NotFound", None) /\ UNCHANGED call
       ELSE /\ Send(w, [op |-> "put_credential",
                        client_id |-> request[w].client_id,
                        scopes |-> request[w].token])
            /\ UNCHANGED answer
    /\ UNCHANGED issued

UpdateOrCreate(w) ==
    /\ Fetching(w, "update_scopes")
    /\ Send(w, [op |-> "put_credential", client_id |-> request[w].client_id,
                scopes |-> request[w].scopes])
    /\ UNCHANGED <<answer, issued>>

\* The credential of the copy goes back as a whole, with other scopes.
UpdateScopes(w) ==
    /\ Fetching(w, "update_scopes")
    /\ IF request[w].client_id \notin Present(credentials)
       THEN Respond(w, "NotFound", None) /\ UNCHANGED call
       ELSE /\ Send(w, [op |-> "put_credential",
                        client_id |-> request[w].client_id,
                        scopes |-> request[w].scopes])
            /\ UNCHANGED answer
    /\ UNCHANGED issued

AskToDeleteCredential(w) ==
    /\ Fetching(w, "delete_credential")
    /\ IF request[w].client_id \notin Present(credentials)
       THEN Respond(w, "NotFound", None) /\ UNCHANGED call
       ELSE /\ Send(w, [op |-> "remove_credential",
                        client_id |-> request[w].client_id])
            /\ UNCHANGED answer
    /\ UNCHANGED issued

ListCredentials(w) ==
    /\ Fetching(w, "list_credentials")
    /\ Respond(w, "OK", None)
    /\ UNCHANGED <<call, issued>>

\* Mutant: requested scopes are not compared with those of the credential.
GrantedUnchecked(requested, own) ==
    IF requested = {} THEN [code |-> "OK", body |-> own]
    ELSE [code |-> "OK", body |-> requested]

\* All scopes are granted if none are requested, and else only own ones.
Granted(requested, own) ==
    IF requested = {} THEN [code |-> "OK", body |-> own]
    ELSE IF requested \subseteq own THEN [code |-> "OK", body |-> requested]
    ELSE [code |-> "InvalidScope", body |-> None]

\* The built-in credential, like the password grant, has every scope.
GrantToken(w) ==
    LET req == request[w]
        known == req.client_id = FixedClientId \/ req.client_id \in Present(credentials)
        own == IF req.client_id = FixedClientId THEN Scopes
               ELSE credentials[req.client_id]
        granted == IF known /\ req.secret_matches THEN Granted(req.scopes, own)
                   ELSE [code |-> "InvalidClient", body |-> None]
    IN  /\ Fetching(w, "oauth2_token")
        /\ Respond(w, granted.code, granted.body)
        /\ UNCHANGED <<call, issued>>

ServeCredentials(w) ==
    /\ \/ CreateCredential(w) \/ UpdateScopes(w) \/ AskToDeleteCredential(w)
       \/ ListCredentials(w) \/ GrantToken(w)
    /\ UNCHANGED <<clock, stores, reports, workload, request, copy, late, history>>

-----------------------------------------------------------------------------
\* The handlers of datasets.  A new one is dated when it is made.
CreateDataset(w) ==
    /\ pc[w] = "local" /\ request[w].op = "create_dataset"
    /\ \E uuid \in Uuids \ issued :
         /\ issued' = issued \cup {uuid}
         /\ Send(w, [op |-> "add_dataset", uuid |-> uuid, dataset |->
                     [type |-> request[w].type, created_at |-> clock]])
    /\ UNCHANGED <<answer, copy>>

\* Mutant: datasets are deleted through either route.
FindDatasetToDeleteOfAnyType(w) ==
    /\ Fetching(w, "delete_dataset")
    /\ IF request[w].uuid \notin Present(datasets)
       THEN Respond(w, "NotFound", None) /\ UNCHANGED call
       ELSE /\ Send(w, [op |-> "remove_dataset", uuid |-> request[w].uuid])
            /\ UNCHANGED answer
    /\ UNCHANGED <<copy, issued>>

\* Mutant: only datasets whose processing has ended are deleted.
FindDatasetToDeleteWhenDone(w) ==
    /\ Fetching(w, "delete_dataset")
    /\ IF request[w].uuid \notin Present(datasets)
       THEN Respond(w, "NotFound", None) /\ UNCHANGED call
       ELSE IF \/ datasets[request[w].uuid].type # request[w].type
               \/ DatasetStatus(datasets[request[w].uuid], clock) = "processing"
       THEN Respond(w, "OK", None) /\ UNCHANGED call
       ELSE /\ Send(w, [op |-> "remove_dataset", uuid |-> request[w].uuid])
            /\ UNCHANGED answer
    /\ UNCHANGED <<copy, issued>>

\* Through the other route nothing is deleted, and the answer is the same.
FindDatasetToDelete(w) ==
    /\ Fetching(w, "delete_dataset")
    /\ IF request[w].uuid \notin Present(datasets)
       THEN Respond(w, "NotFound", None) /\ UNCHANGED call
       ELSE IF datasets[request[w].uuid].type # request[w].type
       THEN Respond(w, "OK", None) /\ UNCHANGED call
       ELSE /\ Send(w, [op |-> "remove_dataset", uuid |-> request[w].uuid])
            /\ UNCHANGED answer
    /\ UNCHANGED <<copy, issued>>

\* Both routes find datasets of both types.
FindDataset(w) ==
    /\ pc[w] = "fetch" /\ request[w].op \in {"status", "download"}
    /\ IF request[w].uuid \notin Present(datasets)
       THEN Respond(w, "NotFound", None) /\ UNCHANGED copy
       ELSE /\ copy' = [copy EXCEPT ![w] =
                          Loaded(datasets[request[w].uuid], clock)]
            /\ GoTo(w, "status")
            /\ UNCHANGED answer
    /\ UNCHANGED <<call, issued>>

\* status_body, or the first look of a download at the status.
ReadStatus(w) ==
    /\ pc[w] = "status"
    /\ IF request[w].op = "status"
       THEN Respond(w, "OK", DatasetStatus(copy[w], clock))
       ELSE IF DatasetStatus(copy[w], clock) = "done"
       THEN Respond(w, "OK", "zip")
       ELSE GoTo(w, "training") /\ UNCHANGED answer
    /\ copy' = IF pc'[w] = "training" THEN copy ELSE [copy EXCEPT ![w] = None]
    /\ UNCHANGED <<call, issued>>

\* _TRAINING_STATUSES[dataset.status], its second look: KeyError for "done".
ReadTrainingStatus(w) ==
    /\ pc[w] = "training"
    /\ IF DatasetStatus(copy[w], clock) = "done"
       THEN Respond(w, "ServerError", None)
       ELSE Respond(w, "UnsupportedState", DatasetStatus(copy[w], clock))
    /\ copy' = [copy EXCEPT ![w] = None]
    /\ UNCHANGED <<call, issued>>

ServeDatasets(w) ==
    /\ \/ CreateDataset(w) \/ FindDataset(w) \/ FindDatasetToDelete(w)
       \/ ReadStatus(w) \/ ReadTrainingStatus(w)
    /\ UNCHANGED <<clock, stores, reports, workload, request, late, history>>

-----------------------------------------------------------------------------
\* The handlers of reports.
CreateReport(w) ==
    /\ pc[w] = "local" /\ request[w].op = "create_report"
    /\ \E id \in ReportIds \ issued :
         /\ issued' = issued \cup {id}
         /\ reports' = [reports EXCEPT ![id] = clock]
         /\ Respond(w, "OK", id)
    /\ UNCHANGED copy

FindReport(w) ==
    /\ pc[w] = "local" /\ request[w].op = "download_report"
    /\ IF request[w].report \notin Present(reports)
       THEN Respond(w, "NotFound", None) /\ UNCHANGED copy
       ELSE /\ copy' = [copy EXCEPT ![w] = reports[request[w].report]]
            /\ GoTo(w, "available") /\ UNCHANGED answer
    /\ UNCHANGED <<issued, reports>>

\* is_available: the report is looked at when it has been found.
DownloadReport(w) ==
    /\ pc[w] = "available"
    /\ IF clock >= copy[w] + ProcessingTime THEN Respond(w, "OK", "csv")
       ELSE Respond(w, "NotFound", None)
    /\ copy' = [copy EXCEPT ![w] = None]
    /\ UNCHANGED <<issued, reports>>

ServeReports(w) ==
    /\ CreateReport(w) \/ FindReport(w) \/ DownloadReport(w)
    /\ UNCHANGED <<clock, stores, workload, request, call, late, history>>

-----------------------------------------------------------------------------
\* The ids of credentials which some call on its way would put.
Putting ==
    {c.client_id : c \in {c \in {call[w] : w \in Workers}
                                \cup {late[line] : line \in Lines} :
                            c # None /\ c.op = "put_credential"}}

\* What the requests for tokens of a credential may have seen of it.
Held(id, scopes) ==
    [w \in Workers |->
        IF pc[w] # "idle" /\ request[w].op = "oauth2_token"
             /\ request[w].client_id = id
        THEN held[w] \cup scopes ELSE held[w]]

\* The target manager carries out a call, all of it at once.
Perform(c) ==
    \/ /\ c.op = "put_credential" /\ PutCredential(c.client_id, c.scopes)
       /\ held' = Held(c.client_id, c.scopes)
       /\ UNCHANGED gone
    \/ /\ c.op = "remove_credential" /\ DeleteCredential(c.client_id)
       /\ gone' = gone \cup ({c.client_id} \ Putting)
       /\ UNCHANGED held
    \/ /\ c.op = "add_dataset" /\ AddDataset(c.uuid, Loaded(c.dataset, clock))
       /\ UNCHANGED <<held, gone>>
    \/ /\ c.op = "remove_dataset" /\ RemoveDataset(c.uuid)
       /\ UNCHANGED <<held, gone>>

\* The first half of removing a credential, the lookup in a copy.
LookUp(w) ==
    /\ pc[w] = "call" /\ call[w].op = "remove_credential"
    /\ IF call[w].client_id \in Present(credentials)
       THEN GoTo(w, "remove") /\ UNCHANGED <<call, answer>>
       ELSE /\ Respond(w, "NoContent", None)
            /\ call' = [call EXCEPT ![w] = None]
    /\ UNCHANGED <<stores, held, gone>>

\* The answer says nothing of what the target manager answered.
Apply(w) ==
    /\ \/ pc[w] = "call" /\ call[w].op # "remove_credential"
       \/ pc[w] = "remove"
    /\ Perform(call[w])
    /\ CASE request[w].op = "create_credential" ->
              Respond(w, "Created", call[w].client_id)
         [] request[w].op = "create_dataset" -> Respond(w, "Created", call[w].uuid)
         [] request[w].op = "delete_credential" -> Respond(w, "NoContent", None)
         [] OTHER -> Respond(w, "OK", None)
    /\ call' = [call EXCEPT ![w] = None]

ServeCall(w) ==
    /\ LookUp(w) \/ Apply(w)
    /\ UNCHANGED <<clock, reports, issued, workload, request, copy, late, told,
                   asked, due>>

\* Mutant: a creation whose call was given up is answered all the same.
GiveUpUnnoticed(w) ==
    /\ Lines # {}
    /\ \/ pc[w] = "fetch" /\ UNCHANGED late
       \/ /\ pc[w] \in {"call", "remove"}
          /\ \E line \in Lines : /\ late[line] = None
                                 /\ late' = [late EXCEPT ![line] = call[w]]
    /\ IF request[w].op = "create_dataset" THEN Respond(w, "Created", call[w].uuid)
       ELSE Respond(w, "Timeout", None)
    /\ call' = [call EXCEPT ![w] = None]
    /\ UNCHANGED <<clock, stores, reports, issued, workload, request, copy, history>>

\* requests gives up after 30 seconds, and the exception is not caught.
GiveUp(w) ==
    /\ Lines # {}
    /\ \/ pc[w] = "fetch" /\ UNCHANGED late
       \/ /\ pc[w] \in {"call", "remove"}
          /\ \E line \in Lines : /\ late[line] = None
                                 /\ late' = [late EXCEPT ![line] = call[w]]
    /\ Respond(w, "Timeout", None)
    /\ call' = [call EXCEPT ![w] = None]
    /\ UNCHANGED <<clock, stores, reports, issued, workload, request, copy, history>>

\* A call of nobody's is carried out, or it never arrives.
ApplyLate(line) ==
    /\ late[line] # None
    /\ \/ Perform(late[line])
       \/ UNCHANGED <<stores, held, gone>>
    /\ late' = [late EXCEPT ![line] = None]
    /\ UNCHANGED <<clock, reports, issued, workload, work, told, asked, due>>

\* The client gets the answer.
Answer(w) ==
    /\ pc[w] = "answer"
    /\ told' = IF \/ request[w].op = "create_dataset" /\ answer[w].code = "Created"
                  \/ request[w].op = "create_report"
               THEN told \cup {answer[w].body} ELSE told
    /\ GoTo(w, "idle")
    /\ request' = [request EXCEPT ![w] = None]
    /\ answer' = [answer EXCEPT ![w] = None]
    /\ held' = [held EXCEPT ![w] = {}]
    /\ due' = due \ {w}
    /\ UNCHANGED <<clock, stores, reports, issued, workload, call, copy, late,
                   gone, asked>>

\* The app restarts: its reports are lost, and its calls arrive or not.
Restart ==
    /\ \E going \in [Lines -> Workers \cup {None}] :
         /\ \A line \in Lines : going[line] # None =>
              /\ late[line] = None /\ call[going[line]] # None
              /\ \A other \in Lines \ {line} : going[other] # going[line]
         /\ late' = [line \in Lines |-> IF going[line] = None THEN late[line]
                                        ELSE call[going[line]]]
    /\ reports' = [id \in ReportIds |-> None]
    /\ pc' = [w \in Workers |-> "idle"]
    /\ request' = [w \in Workers |-> None]
    /\ call' = [w \in Workers |-> None]
    /\ answer' = [w \in Workers |-> None]
    /\ copy' = [w \in Workers |-> None]
    /\ held' = [w \in Workers |-> {}]
    /\ told' = told \ ReportIds
    /\ due' = {}
    /\ UNCHANGED <<clock, stores, issued, workload, gone, asked>>

\* Time matters only as the age of datasets and reports, so it stands still
\* while there are none.
Tick ==
    /\ (Uuids \cup ReportIds) \cap issued # {}
    /\ TimePasses
    /\ UNCHANGED <<reports, issued, workload, work, late, history>>

Init ==
    /\ StoresInit
    /\ reports = [id \in ReportIds |-> None]
    /\ issued = {}
    /\ workload \in Workloads
    /\ pc = [w \in Workers |-> "idle"]
    /\ request = [w \in Workers |-> None]
    /\ call = [w \in Workers |-> None]
    /\ answer = [w \in Workers |-> None]
    /\ copy = [w \in Workers |-> None]
    /\ late = [line \in Lines |-> None]
    /\ held = [w \in Workers |-> {}]
    /\ gone = {} /\ told = {} /\ asked = {} /\ due = {}

Serve(w) ==
    ServeCredentials(w) \/ ServeDatasets(w) \/ ServeReports(w) \/ ServeCall(w)

Next ==
    \/ \E w \in Workers : Receive(w) \/ Serve(w) \/ GiveUp(w) \/ Answer(w)
    \/ \E line \in Lines : ApplyLate(line)
    \/ Restart
    \/ Tick

Spec == Init /\ [][Next]_service_vars

-----------------------------------------------------------------------------
Places == {"idle", "fetch", "local", "status", "training", "available",
           "call", "remove", "answer"}

\* Types, and what a worker holds at each place of its program.
TypeOK ==
    /\ clock \in 0 .. MaxClock
    /\ credentials \in [ClientIds -> ScopeLists \cup {None}]
    /\ datasets \in [Uuids -> Dataset \cup {None}]
    /\ reports \in [ReportIds -> Nat \cup {None}]
    /\ issued \subseteq ClientIds \cup Uuids \cup ReportIds
    /\ workload \in Workloads
    /\ pc \in [Workers -> Places]
    /\ request \in [Workers -> Request \cup {None}]
    /\ call \in [Workers -> Call \cup {None}]
    /\ late \in [Lines -> Call \cup {None}]
    /\ held \in [Workers -> SUBSET Scopes]
    /\ gone \subseteq ClientIds /\ told \subseteq Uuids \cup ReportIds
    /\ asked \subseteq Uuids /\ due \subseteq Workers
    /\ \A w \in Workers :
         /\ pc[w] = "idle" <=> request[w] = None
         /\ pc[w] \in {"call", "remove"} <=> call[w] # None
         /\ pc[w] \in {"status", "training"} => copy[w] \in Dataset
         /\ pc[w] = "available" => copy[w] \in Nat

\* Vuforia's limit of 100 created credentials is checked on a copy: creations
\* pass it together, and an update may put back a credential deleted after it
\* was read when its place has been taken.  Still no more credentials can come
\* to be than the limit and one per other thread and call left alone.
LimitOvershootBounded ==
    Cardinality(Present(credentials) \cup Putting) <=
        MaxClientCredentials - 1 + Cardinality(Workers) + Cardinality(Lines)

\* A credential which was deleted while no update of it was on its way never
\* comes back, although an update puts whole credentials: only an update which
\* had read the credential before it was deleted can bring it back.
DeletedCredentialGone == gone \cap (Present(credentials) \cup Putting) = {}

\* A token carries only scopes which its credential had at some moment since
\* the token was asked for: scopes that were taken away, and those of deleted
\* credentials, are in no later token.
TokenScopesHeld ==
    \A w \in Workers :
       /\ pc[w] = "answer" /\ answer[w].code = "OK"
       /\ request[w].op = "oauth2_token" /\ request[w].client_id # FixedClientId
       => answer[w].body \subseteq held[w]

\* A dataset whose creation was acknowledged is kept, through restarts of the
\* app and deletions asked for through the other route, until it is asked to
\* be deleted through its own.
AckedDatasetKept == (told \cap Uuids) \ asked \subseteq Present(datasets)

\* A deletion answered with success has removed the dataset, whatever became
\* of it meanwhile, unless it was asked for through the other route.
DeletionEffective ==
    \A w \in Workers :
       /\ pc[w] = "answer" /\ answer[w].code = "OK"
       /\ request[w].op = "delete_dataset" /\ request[w].uuid \in Present(datasets)
       => datasets[request[w].uuid].type # request[w].type

\* A dataset or report which a client knows of, whose time of processing has
\* passed and which nobody asks to delete is served, not reported as missing
\* or as still being processed.
ReadyIsServed ==
    \A w \in due : pc[w] = "answer" =>
       \/ answer[w].code = "OK" /\ answer[w].body # "processing"
       \/ answer[w].code = "Timeout"
       \/ answer[w].body = "failed"

\* Every dataset runs through its life once, in order, and ends it only when
\* asked to, although it is created and removed by calls that may be given up
\* and arrive late, and its status is worked out from a date in a copy.
Phase(uuid) ==
    IF uuid \in Present(datasets)
    THEN IF DatasetStatus(datasets[uuid], clock) = "processing"
         THEN "processing" ELSE "finished"
    ELSE IF uuid \in asked THEN "deleted" ELSE "absent"

Lifecycle == INSTANCE DatasetLifecycle WITH
    phase <- [uuid \in Uuids |-> Phase(uuid)],
    known <- told \cap Uuids
ImplementsLifecycle == Lifecycle!Spec

\* "A download request for a dataset which is not ready reports the dataset's
\* training status": it is answered, with the status or with the dataset.
TrainingStatusReported ==
    \A w \in Workers : pc[w] = "answer" /\ request[w].op = "download" =>
       answer[w].code # "ServerError"
=============================================================================
