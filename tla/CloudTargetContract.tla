------------------------ MODULE CloudTargetContract ------------------------
(***************************************************************************)
(* What the Vuforia Web Services promise a client which waits for each     *)
(* answer before its next request: every request on a target takes effect  *)
(* at one moment between its request and its answer, the answer says what  *)
(* that effect was, and the quota, the names and the statuses of targets   *)
(* are those of that moment.  VwsService is shown to implement it for one  *)
(* such client.                                                            *)
(***************************************************************************)
EXTENDS Targets, FiniteSets

CONSTANTS
    CloudDatabases, ServerAccessKey, ServerSecretKey, TargetQuota,
    Changes, NullFlag, None,
    MaxClock    \* bound on the clock

VARIABLES
    clock,
    cloud_databases,  \* the databases there are
    targets,          \* the targets of each, the deleted ones too
    request,          \* the client's request, None between requests
    answer            \* its answer, None until the request took effect

vars == <<clock, cloud_databases, targets, request, answer>>
state == <<clock, cloud_databases, targets>>

Request ==
    [op : {"add"}, db : CloudDatabases, name : Names, image : Images]
    \cup [op : {"update"}, db : CloudDatabases, target_id : TargetIds,
          change : Changes \cup {NullFlag}]
    \cup [op : {"delete", "get"}, db : CloudDatabases, target_id : TargetIds]

SameKeys(other, db) ==
    /\ ServerAccessKey[other] = ServerAccessKey[db]
    /\ ServerSecretKey[other] = ServerSecretKey[db]

\* The databases which the keys of the request give access to.
Accessed == {db \in cloud_databases : SameKeys(db, request.db)}

Live(db) == NotDeleted(targets[db])

Full(db) == Cardinality(Live(db)) >= TargetQuota[db]

Taken(db, name) == \E t \in Live(db) : t.name = name

TakenByOther(db, id, name) ==
    \E t \in Live(db) : t.name = name /\ t.target_id # id

New(given, current) == IF given = Absent THEN current ELSE given

-----------------------------------------------------------------------------
Ask(req) ==
    /\ request = None
    /\ request' = req
    /\ UNCHANGED <<state, answer>>

Waiting(op) == request # None /\ answer = None /\ request.op = op

Reply(code, body) ==
    /\ answer' = [code |-> code, body |-> body]
    /\ UNCHANGED <<clock, cloud_databases, request>>

Add ==
    /\ Waiting("add")
    /\ \E db \in Accessed, id \in TargetIds, uploaded \in 0 .. clock :
       \E modified \in 0 .. uploaded :
         /\ ~Full(db) /\ ~Taken(db, request.name)
         /\ \A other \in CloudDatabases : WithId(targets[other], id) = {}
         /\ targets' = [targets EXCEPT ![db] =
              @ \cup {NewTarget(id, request.name, request.image, modified, uploaded)}]
         /\ Reply("TargetCreated", id)

Delete ==
    /\ Waiting("delete")
    /\ \E db \in Accessed : \E t \in WithId(Live(db), request.target_id) :
         /\ Status(t, clock) # "processing"
         /\ targets' = [targets EXCEPT ![db] =
              Replace(@, t, [t EXCEPT !.delete_date = clock])]
    /\ Reply("Success", None)

Update ==
    /\ Waiting("update") /\ request.change # NullFlag
    /\ \E db \in Accessed : \E t \in WithId(Live(db), request.target_id) :
         /\ Status(t, clock) = "success"
         /\ ~TakenByOther(db, request.target_id, request.change.name)
         /\ targets' = [targets EXCEPT ![db] = Replace(@, t,
              [t EXCEPT !.name = New(request.change.name, @),
                        !.image_value = New(request.change.image_value, @),
                        !.active_flag = New(request.change.active_flag, @),
                        !.last_modified_date = clock])]
    /\ Reply("Success", None)

Get ==
    /\ Waiting("get")
    /\ \E db \in Accessed : \E t \in WithId(Live(db), request.target_id) :
         Reply("Success", t)
    /\ UNCHANGED targets

\* A refusal gives the one reason that applies, and changes nothing.
Refuse(code) == Reply(code, None) /\ UNCHANGED targets

RefuseAccess ==
    /\ request # None /\ answer = None /\ Accessed = {}
    /\ IF \E db \in cloud_databases :
             ServerAccessKey[db] = ServerAccessKey[request.db]
       THEN Refuse("AuthenticationFailure") ELSE Refuse("Fail")

RefuseAdd ==
    /\ Waiting("add")
    /\ \E db \in Accessed :
         \/ Full(db) /\ Refuse("TargetQuotaReached")
         \/ ~Full(db) /\ Taken(db, request.name) /\ Refuse("TargetNameExist")

RefuseUnknown ==
    /\ request # None /\ answer = None /\ request.op # "add"
    /\ \E db \in Accessed : WithId(Live(db), request.target_id) = {}
    /\ Refuse("UnknownTarget")

RefuseDelete ==
    /\ Waiting("delete")
    /\ \E db \in Accessed : \E t \in WithId(Live(db), request.target_id) :
         Status(t, clock) = "processing"
    /\ Refuse("TargetStatusProcessing")

RefuseUpdate ==
    /\ Waiting("update")
    /\ \E db \in Accessed : \E t \in WithId(Live(db), request.target_id) :
         IF /\ request.change # NullFlag
            /\ TakenByOther(db, request.target_id, request.change.name)
         THEN Refuse("TargetNameExist")
         ELSE \/ Status(t, clock) # "success" /\ Refuse("TargetStatusNotSuccess")
              \/ /\ Status(t, clock) = "success" /\ request.change = NullFlag
                 /\ Refuse("Fail")

Receive ==
    /\ answer # None
    /\ request' = None /\ answer' = None
    /\ UNCHANGED state

\* Databases change between requests only.
AddDatabase(db) ==
    /\ request = None
    /\ \A other \in cloud_databases : ~SameKeys(other, db)
    /\ cloud_databases' = cloud_databases \cup {db}
    /\ targets' = [targets EXCEPT ![db] = {}]
    /\ UNCHANGED <<clock, request, answer>>

RemoveDatabase(db) ==
    /\ request = None
    /\ cloud_databases' = cloud_databases \ {db}
    /\ targets' = [targets EXCEPT ![db] = {}]
    /\ UNCHANGED <<clock, request, answer>>

Tick ==
    /\ clock < MaxClock
    /\ clock' = clock + 1
    /\ UNCHANGED <<cloud_databases, targets, request, answer>>

Init ==
    /\ clock = 0
    /\ cloud_databases = {}
    /\ targets = [db \in CloudDatabases |-> {}]
    /\ request = None
    /\ answer = None

Next ==
    \/ \E req \in Request : Ask(req)
    \/ Add \/ Delete \/ Update \/ Get
    \/ RefuseAccess \/ RefuseAdd \/ RefuseUnknown \/ RefuseDelete \/ RefuseUpdate
    \/ Receive
    \/ \E db \in CloudDatabases : AddDatabase(db) \/ RemoveDatabase(db)
    \/ Tick

Spec == Init /\ [][Next]_vars
=============================================================================
