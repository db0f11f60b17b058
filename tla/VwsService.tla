----------------------------- MODULE VwsService -----------------------------
(***************************************************************************)
(* The VWS app of the Docker deployment, _flask_server/vws.py, in front of *)
(* the target manager.  Its threads serve requests on image targets in     *)
(* steps: each fetches all databases to validate the request, fetches them *)
(* again, decides on that copy, and sends one call to the target manager,  *)
(* whose answer it does not look at.  Requests carry well-formed bodies    *)
(* and the server keys of a database; rate limits and project states are   *)
(* left out.                                                               *)
(***************************************************************************)
EXTENDS TargetManager

CONSTANTS
    Workers,      \* the threads of the app
    Lines,        \* connections on which a call goes on without its worker
    TargetQuota,  \* target_quota of every cloud database
    Ops,          \* the operations clients use
    Changes,      \* the bodies of update requests
    NullFlag,     \* the update body whose active_flag is null
    None

ASSUME WorkersAssumption ==
    /\ IsFiniteSet(Workers) /\ IsFiniteSet(Lines)
    /\ Workers \cap Lines = {}
    /\ TargetQuota \in [CloudDatabases -> Nat]
    /\ Ops \subseteq {"add", "update", "delete", "get"}
    /\ Changes \subseteq Change
    /\ NullFlag \notin Change

VARIABLES
    pc,             \* where each worker is
    request,        \* the request it serves
    seen,           \* the database name and target it found in its second copy
    call,           \* its call to the target manager
    answer,         \* its answer
    late,           \* the calls whose worker has given up
    acked_adds,     \* history: ids of added targets, while nothing explains
                    \* that they could be gone but a request to delete them
    acked_deletes,  \* history: ids whose deletion was acknowledged
    delete_asked,   \* history: ids which some request asked to delete
    too_late,       \* history: workers whose target was known to be deleted
    interrupted     \* history: workers during whose add a database went

work == <<pc, request, seen, call, answer>>
history == <<acked_adds, acked_deletes, delete_asked, too_late, interrupted>>
manager == <<clock, databases, targets, vumark_targets>>
service_vars == <<manager, issued, work, late, history>>

Request ==
    [op : Ops \cap {"add"}, db : CloudDatabases, name : Names, image : Images]
    \cup [op : Ops \cap {"update"}, db : CloudDatabases, target_id : TargetIds,
          change : Changes \cup {NullFlag}]
    \cup [op : Ops \cap {"delete", "get"}, db : CloudDatabases,
          target_id : TargetIds]

\* The result codes of these requests; an uncaught exception is a ServerError.
ResultCodes ==
    {"Success", "TargetCreated", "Fail", "AuthenticationFailure", "UnknownTarget",
     "TargetNameExist", "TargetQuotaReached", "TargetStatusProcessing",
     "TargetStatusNotSuccess", "ServerError"}

ASSUME NoneAssumption ==
    None \notin Request
        \cup [code : ResultCodes, body : TargetIds \cup ImageTarget \cup {None}]

-----------------------------------------------------------------------------
\* The databases whose keys the request was signed with.
HasKeysOf(other, db) ==
    /\ ServerAccessKey[other] = ServerAccessKey[db]
    /\ ServerSecretKey[other] = ServerSecretKey[db]

Matching(db) == {other \in cloud_databases : HasKeysOf(other, db)}

Stored(db) == NotDeleted(targets[db])

\* The first validator of the pipeline which refuses the request; "" if none.
Refusal(req, db) ==
    IF req.op = "add" THEN AddRefusal(targets[db], TargetQuota[db], req.name)
    ELSE IF WithId(Stored(db), req.target_id) = {} THEN "UnknownTarget"
    ELSE IF req.op = "update" /\ req.change # NullFlag
         THEN NameRefusal(targets[db], req.target_id, req.change.name)
    ELSE ""

-----------------------------------------------------------------------------
GoTo(w, place) == pc' = [pc EXCEPT ![w] = place]

Respond(w, code, body) ==
    /\ GoTo(w, "answer")
    /\ answer' = [answer EXCEPT ![w] = [code |-> code, body |-> body]]

\* The bound on adds: ids are left for those which have no id yet.
IdsLeft ==
    Cardinality(issued)
      + Cardinality({w \in Workers : /\ pc[w] \in {"validate", "fetch"}
                                     /\ request[w].op = "add"})
    < Cardinality(TargetIds)

\* A worker takes a request.
Receive(w) ==
    /\ pc[w] = "idle"
    /\ \E req \in Request :
         /\ req.op = "add" => IdsLeft
         /\ request' = [request EXCEPT ![w] = req]
         /\ delete_asked' = delete_asked \cup
              (IF req.op = "delete" THEN {req.target_id} ELSE {})
         /\ too_late' = IF req.op # "add" /\ req.target_id \in acked_deletes
                        THEN too_late \cup {w} ELSE too_late
    /\ GoTo(w, "validate")
    /\ UNCHANGED <<manager, issued, seen, call, answer, late,
                   acked_adds, acked_deletes, interrupted>>

\* validate_request: the validators on a first copy of the databases.
Validate(w) ==
    LET db == request[w].db
    IN  /\ pc[w] = "validate"
        /\ \/ /\ \A other \in cloud_databases :
                    ServerAccessKey[other] # ServerAccessKey[db]
              /\ Respond(w, "Fail", None)
           \/ /\ \E other \in cloud_databases :
                    ServerAccessKey[other] = ServerAccessKey[db]
              /\ Matching(db) = {}
              /\ Respond(w, "AuthenticationFailure", None)
           \/ \E matched \in Matching(db) :
                LET refusal == Refusal(request[w], matched)
                IN  IF refusal = "" THEN GoTo(w, "fetch") /\ UNCHANGED answer
                    ELSE Respond(w, refusal, None)
        /\ UNCHANGED <<manager, issued, request, seen, call, late, history>>

\* The handlers' second copy: no matching database or no such target any more
\* is an uncaught ValueError.  A target deleted in between is still found.
FetchFails(w) ==
    /\ pc[w] = "fetch"
    /\ \/ Matching(request[w].db) = {}
       \/ /\ request[w].op # "add"
          /\ \E db \in Matching(request[w].db) : \A t \in targets[db] :
               WithId(targets[db], request[w].target_id) # {t}
    /\ Respond(w, "ServerError", None)
    /\ UNCHANGED <<manager, issued, request, seen, call, late, history>>

\* get_target answers from the copy; delete_target and update_target go on.
FetchTarget(w) ==
    /\ pc[w] = "fetch" /\ request[w].op # "add"
    /\ \E db \in Matching(request[w].db) : \E t \in targets[db] :
         /\ WithId(targets[db], request[w].target_id) = {t}
         /\ IF request[w].op = "get"
            THEN Respond(w, "Success", t) /\ UNCHANGED seen
            ELSE /\ seen' = [seen EXCEPT ![w] =
                      [database |-> DatabaseName[db], target |-> t]]
                 /\ GoTo(w, "decide")
                 /\ UNCHANGED answer
    /\ UNCHANGED <<manager, issued, request, call, late, history>>

Send(w, c) ==
    /\ GoTo(w, "call")
    /\ call' = [call EXCEPT ![w] = c]

\* add_target makes the target, and its id, itself.
FetchForAdd(w) ==
    /\ pc[w] = "fetch" /\ request[w].op = "add"
    /\ \E db \in Matching(request[w].db), id \in TargetIds :
         /\ Issue(id)
         /\ Send(w, [op |-> "add", database |-> DatabaseName[db],
                     target_id |-> id, name |-> request[w].name,
                     image |-> request[w].image, sent |-> clock])
    /\ UNCHANGED <<manager, request, seen, answer, late, history>>

\* The status is that of the copy's target now.
DecideDelete(w) ==
    /\ pc[w] = "decide" /\ request[w].op = "delete"
    /\ seen' = [seen EXCEPT ![w] = None]
    /\ IF Status(seen[w].target, clock) = "processing"
       THEN Respond(w, "TargetStatusProcessing", None) /\ UNCHANGED call
       ELSE /\ Send(w, [op |-> "delete", database |-> seen[w].database,
                        target_id |-> request[w].target_id])
            /\ UNCHANGED answer
    /\ UNCHANGED <<manager, issued, request, late, history>>

\* Mutant: only targets being processed are refused, not failed ones.
DecideUpdateOfFailed(w) ==
    /\ pc[w] = "decide" /\ request[w].op = "update"
    /\ seen' = [seen EXCEPT ![w] = None]
    /\ IF Status(seen[w].target, clock) = "processing"
       THEN Respond(w, "TargetStatusNotSuccess", None) /\ UNCHANGED call
       ELSE /\ request[w].change # NullFlag
            /\ Send(w, [op |-> "update", database |-> seen[w].database,
                        target_id |-> request[w].target_id,
                        change |-> request[w].change])
            /\ UNCHANGED answer
    /\ UNCHANGED <<manager, issued, request, late, history>>

DecideUpdate(w) ==
    /\ pc[w] = "decide" /\ request[w].op = "update"
    /\ seen' = [seen EXCEPT ![w] = None]
    /\ IF Status(seen[w].target, clock) # "success"
       THEN Respond(w, "TargetStatusNotSuccess", None) /\ UNCHANGED call
       ELSE IF request[w].change = NullFlag
       THEN Respond(w, "Fail", None) /\ UNCHANGED call
       ELSE /\ Send(w, [op |-> "update", database |-> seen[w].database,
                        target_id |-> request[w].target_id,
                        change |-> request[w].change])
            /\ UNCHANGED answer
    /\ UNCHANGED <<manager, issued, request, late, history>>

\* The target manager finds the database and the target a call is about.
Served(c) ==
    \E db \in CloudDatabases :
        /\ Named(cloud_databases, c.database) = {db}
        /\ c.op # "add" => \E t \in targets[db] : WithId(targets[db], c.target_id) = {t}

\* Mutant: a call whose database or target is gone waits for it to come back.
PerformWhenServed(c) ==
    /\ Served(c)
    /\ \/ /\ c.op = "add"
          /\ CreateTarget(c.database, c.target_id, c.name, c.image, clock, clock)
       \/ c.op = "delete" /\ DeleteTarget(c.database, c.target_id)
       \/ c.op = "update" /\ UpdateTarget(c.database, c.target_id, c.change)

\* The target manager carries out a call, or answers 500 and changes nothing.
Perform(c) ==
    \/ /\ c.op = "add"
       /\ \E uploaded \in c.sent .. clock : \E modified \in c.sent .. uploaded :
            CreateTarget(c.database, c.target_id, c.name, c.image, modified, uploaded)
    \/ c.op = "delete" /\ DeleteTarget(c.database, c.target_id)
    \/ c.op = "update" /\ UpdateTarget(c.database, c.target_id, c.change)
    \/ ~Served(c) /\ UNCHANGED manager

\* The worker answers with success whatever the target manager answered.
Apply(w) ==
    /\ pc[w] = "call"
    /\ Perform(call[w])
    /\ IF call[w].op = "add" THEN Respond(w, "TargetCreated", call[w].target_id)
       ELSE Respond(w, "Success", None)
    /\ call' = [call EXCEPT ![w] = None]
    /\ UNCHANGED <<issued, request, seen, late, history>>

\* requests gives up after 30 seconds, and the exception is not caught; the
\* call may still be carried out later, or never reach the target manager.
Timeout(w) ==
    /\ pc[w] = "call"
    /\ \E line \in Lines :
         late[line] = None /\ late' = [late EXCEPT ![line] = call[w]]
    /\ Respond(w, "ServerError", None)
    /\ call' = [call EXCEPT ![w] = None]
    /\ UNCHANGED <<manager, issued, request, seen, history>>

\* Fetching the databases may time out as well; nothing was called for then.
SnapshotFails(w) ==
    /\ Lines # {} /\ pc[w] \in {"validate", "fetch"}
    /\ Respond(w, "ServerError", None)
    /\ UNCHANGED <<manager, issued, request, seen, call, late, history>>

ApplyLate(line) ==
    /\ late[line] # None
    /\ Perform(late[line])
    /\ late' = [late EXCEPT ![line] = None]
    /\ UNCHANGED <<issued, work, history>>

DropLate(line) ==
    /\ late[line] # None
    /\ late' = [late EXCEPT ![line] = None]
    /\ UNCHANGED <<manager, issued, work, history>>

\* The client gets the answer.
Answer(w) ==
    /\ pc[w] = "answer"
    /\ acked_adds' =
         IF answer[w].code = "TargetCreated" /\ w \notin interrupted
         THEN acked_adds \cup {answer[w].body} ELSE acked_adds
    /\ acked_deletes' =
         IF answer[w].code = "Success" /\ request[w].op = "delete"
         THEN acked_deletes \cup {request[w].target_id} ELSE acked_deletes
    /\ too_late' = too_late \ {w}
    /\ interrupted' = interrupted \ {w}
    /\ GoTo(w, "idle")
    /\ request' = [request EXCEPT ![w] = None]
    /\ answer' = [answer EXCEPT ![w] = None]
    /\ UNCHANGED <<manager, issued, seen, call, late, delete_asked>>

-----------------------------------------------------------------------------
\* Databases come and go, and time passes, while requests are served.
AddDatabase(db) ==
    CreateCloudDatabase(db) /\ UNCHANGED <<work, late, history>>

RemoveDatabase(db) ==
    /\ DeleteCloudDatabase(db)
    /\ acked_adds' = acked_adds \ {t.target_id : t \in targets[db]}
    /\ interrupted' = interrupted \cup
         {w \in Workers : pc[w] # "idle" /\ request[w].op = "add"}
    /\ UNCHANGED <<work, late, acked_deletes, delete_asked, too_late>>

TimePasses == Tick /\ UNCHANGED <<work, late, history>>

ServiceInit ==
    /\ Init
    /\ pc = [w \in Workers |-> "idle"]
    /\ request = [w \in Workers |-> None]
    /\ seen = [w \in Workers |-> None]
    /\ call = [w \in Workers |-> None]
    /\ answer = [w \in Workers |-> None]
    /\ late = [line \in Lines |-> None]
    /\ acked_adds = {} /\ acked_deletes = {} /\ delete_asked = {}
    /\ too_late = {} /\ interrupted = {}

Fetch(w) == FetchFails(w) \/ FetchTarget(w) \/ FetchForAdd(w)
Decide(w) == DecideDelete(w) \/ DecideUpdate(w)

\* What a worker does on its own once it has a request.
Serve(w) ==
    Validate(w) \/ Fetch(w) \/ Decide(w) \/ Apply(w) \/ Answer(w)

ServiceNext ==
    \/ \E w \in Workers : Receive(w) \/ Serve(w) \/ Timeout(w) \/ SnapshotFails(w)
    \/ \E line \in Lines : ApplyLate(line) \/ DropLate(line)
    \/ \E db \in CloudDatabases : AddDatabase(db) \/ RemoveDatabase(db)
    \/ TimePasses

ServiceSpec == ServiceInit /\ [][ServiceNext]_service_vars

\* Threads are scheduled, and requests gives up on a call in the end, so a
\* worker which can go on does.
FairServiceSpec == ServiceSpec /\ \A w \in Workers : WF_service_vars(Serve(w))

-----------------------------------------------------------------------------
Call ==
    LET name == {DatabaseName[db] : db \in CloudDatabases}
    IN  [op : {"add"}, database : name, target_id : TargetIds, name : Names,
         image : Images, sent : 0 .. clock]
        \cup [op : {"update"}, database : name, target_id : TargetIds,
              change : Changes]
        \cup [op : {"delete"}, database : name, target_id : TargetIds]

\* Types, and what a worker holds at each place of its program.
ServiceTypeOK ==
    /\ TypeOK
    /\ late \in [Lines -> Call \cup {None}]
    /\ acked_adds \cup acked_deletes \cup delete_asked \subseteq TargetIds
    /\ too_late \cup interrupted \subseteq Workers
    /\ \A w \in Workers :
         /\ pc[w] \in {"idle", "validate", "fetch", "decide", "call", "answer"}
         /\ IF pc[w] = "idle" THEN request[w] = None ELSE request[w] \in Request
         /\ pc[w] = "decide" => seen[w].target \in ImageTarget
         /\ pc[w] = "call" => call[w] \in Call /\ call[w].op = request[w].op
         /\ pc[w] # "decide" => seen[w] = None
         /\ pc[w] # "call" => call[w] = None
         /\ pc[w] # "answer" => answer[w] = None

\* Once a client was told that a target is deleted, no later request on it
\* succeeds, whatever other requests on it were being served or given up
\* meanwhile: a delayed update never brings a deleted target back.
AckedDeleteFinal ==
    \A w \in too_late : pc[w] = "answer" =>
        answer[w].code \in {"UnknownTarget", "Fail", "AuthenticationFailure",
                            "ServerError"}

\* A target whose creation was acknowledged, while its database stays, is
\* there until a client asks for its deletion: no other worker's call,
\* decided on an older copy of the targets, makes it disappear.
AckedAddKept ==
    \A id \in acked_adds \ delete_asked :
        \E db \in cloud_databases : WithId(Stored(db), id) # {}

\* The adds that passed the quota check and are not yet stored in db.
PendingAdds(db) ==
    {w \in Workers :
        \/ /\ pc[w] = "fetch" /\ request[w].op = "add"
           /\ HasKeysOf(db, request[w].db)
        \/ /\ pc[w] = "call" /\ call[w].op = "add"
           /\ call[w].database = DatabaseName[db]}
    \cup {line \in Lines : late[line] # None /\ late[line].op = "add"
                              /\ late[line].database = DatabaseName[db]}

\* The last number of targets with which an add still passes the quota check;
\* none does with a quota of 0.
LastAdmitting(db) == IF TargetQuota[db] = 0 THEN 0 ELSE TargetQuota[db] - 1

\* Concurrent adds can pass the quota check together, but only as many as
\* there are threads and given-up calls: a database never holds more targets
\* over its quota than that, however long the service runs and whatever other
\* database had its name before.
QuotaOvershootBounded ==
    \A db \in cloud_databases :
        Cardinality(Stored(db)) + Cardinality(PendingAdds(db)) <=
            LastAdmitting(db) + Cardinality(Workers) + Cardinality(Lines)

\* A database holds at most target_quota targets: adding to one which already
\* has them is answered with TargetQuotaReached.
QuotaRespected ==
    \A db \in cloud_databases : Cardinality(Stored(db)) <= TargetQuota[db]

\* Two targets of a database never have the same name; with two, every update
\* to that name fails with an uncaught ValueError.
NamesUnique ==
    \A db \in cloud_databases : \A t, u \in Stored(db) : t.name = u.name => t = u

\* Every request is answered, also when its database or target goes while it
\* is served and when the target manager rejects the call.
RequestsAnswered == \A w \in Workers : (pc[w] # "idle") ~> (pc[w] = "idle")

-----------------------------------------------------------------------------
\* One client, which waits for each answer and changes its databases only
\* between requests.
client == CHOOSE w \in Workers : TRUE

OneClient ==
    /\ ServiceInit
    /\ [][ServiceNext /\ (request[client] # None => UNCHANGED databases)]_service_vars

\* To one client the two copies, the decision and the call look like one
\* atomic operation on the targets, and it never gets an unexplained error.
Contract == INSTANCE CloudTargetContract WITH
                request <- request[client], answer <- answer[client]
ImplementsContract == Contract!Spec
=============================================================================
