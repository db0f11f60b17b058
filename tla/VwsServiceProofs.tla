-------------------------- MODULE VwsServiceProofs --------------------------
(***************************************************************************)
(* Theorems about VwsService, for any number of threads and of calls that  *)
(* were given up, and for every set of databases, targets and changes.     *)
(***************************************************************************)
EXTENDS VwsService, TargetManagerProofs, FiniteSetTheorems

-----------------------------------------------------------------------------
\* What the fields of requests and calls can be.
LEMMA OfRequest ==
    ASSUME NEW r \in Request
    PROVE  /\ r.op \in {"add", "update", "delete", "get"}
           /\ r.db \in CloudDatabases
           /\ r.op = "add" => r.name \in Names /\ r.image \in Images
           /\ r.op # "add" => r.target_id \in TargetIds
           /\ r.op = "update" => r.change \in Changes \cup {NullFlag}
  BY DEF Request

DatabaseNames == {DatabaseName[db] : db \in CloudDatabases}

LEMMA OfCall ==
    ASSUME NEW c \in Call
    PROVE  /\ c.op \in {"add", "update", "delete"}
           /\ c.database \in DatabaseNames /\ c.target_id \in TargetIds
           /\ c.op = "add" => /\ c.name \in Names /\ c.image \in Images
                              /\ c.sent \in 0 .. clock
           /\ c.op = "update" => c.change \in Changes
  BY DEF Call, DatabaseNames

LEMMA MadeCalls ==
    ASSUME NEW name \in DatabaseNames, NEW id \in TargetIds
    PROVE  /\ \A n \in Names, image \in Images, now \in 0 .. clock :
                 [op |-> "add", database |-> name, target_id |-> id, name |-> n,
                  image |-> image, sent |-> now] \in Call
           /\ \A change \in Changes :
                 [op |-> "update", database |-> name, target_id |-> id,
                  change |-> change] \in Call
           /\ [op |-> "delete", database |-> name, target_id |-> id] \in Call
  BY DEF Call, DatabaseNames

LEMMA CallGrows ==
    ASSUME clock \in Nat, clock' \in Nat, clock <= clock', NEW c \in Call
    PROVE  c \in Call'
<1>1. 0 .. clock \subseteq 0 .. clock'
  OBVIOUS
<1>2. QED
  BY <1>1 DEF Call

-----------------------------------------------------------------------------
\* What one call to the target manager does to the targets.
Placed(c, db, t) ==
    /\ c.op = "add" /\ Named(cloud_databases, c.database) = {db}
    /\ t \in ImageTarget /\ t.target_id = c.target_id /\ t.delete_date = NoDate
    /\ targets' = [targets EXCEPT ![db] = @ \cup {t}]
    /\ UNCHANGED <<clock, databases, vumark_targets, issued>>

ReplacedFor(c, db, t, u) ==
    /\ Named(cloud_databases, c.database) = {db}
    /\ Replaced(db, t, u) /\ t.target_id = c.target_id
    /\ \/ c.op = "delete" /\ u.delete_date = clock
       \/ c.op = "update" /\ u.delete_date = t.delete_date

LEMMA PerformCases ==
    ASSUME TypeOK, NEW c \in Call, Perform(c), issued' = issued
    PROVE  \/ \E db \in cloud_databases : \E t : Placed(c, db, t)
           \/ \E db \in cloud_databases : \E t, u : ReplacedFor(c, db, t, u)
           \/ ~Served(c) /\ UNCHANGED manager
<1>0. clock \in Nat /\ targets \in [CloudDatabases -> SUBSET ImageTarget]
  BY DatabasesAssumption DEF TypeOK
<1>1. ASSUME c.op = "add",
             NEW uploaded \in c.sent .. clock, NEW modified \in c.sent .. uploaded,
             CreateTarget(c.database, c.target_id, c.name, c.image, modified, uploaded)
      PROVE  \E db \in cloud_databases : \E t : Placed(c, db, t)
  <2>1. PICK db \in CloudDatabases :
          /\ Named(cloud_databases, c.database) = {db}
          /\ targets' = [targets EXCEPT ![db] =
               @ \cup {NewTarget(c.target_id, c.name, c.image, modified, uploaded)}]
          /\ UNCHANGED <<clock, databases, vumark_targets>>
    BY <1>1 DEF CreateTarget
  <2>2. modified \in Nat /\ uploaded \in Nat
    <3>1. c.sent \in 0 .. clock
      BY <1>1, OfCall
    <3>2. QED
      BY <1>0, <3>1
  <2>3. Placed(c, db, NewTarget(c.target_id, c.name, c.image, modified, uploaded))
    BY <1>1, <2>1, <2>2, OfCall, NewTargetType DEF Placed
  <2>4. db \in cloud_databases
    BY <2>1 DEF Named
  <2>5. QED
    BY <2>3, <2>4
<1>2. ASSUME c.op = "delete", DeleteTarget(c.database, c.target_id)
      PROVE  \E db \in cloud_databases : \E t, u : ReplacedFor(c, db, t, u)
  <2>1. PICK db \in CloudDatabases :
          /\ Named(cloud_databases, c.database) = {db}
          /\ \E t \in targets[db] :
               /\ WithId(targets[db], c.target_id) = {t}
               /\ targets' = [targets EXCEPT ![db] = Replace(@, t, DeletedCopy(t))]
          /\ UNCHANGED <<clock, databases, vumark_targets, issued>>
    BY <1>2 DEF DeleteTarget, DeletedCopy
  <2>2. PICK t \in targets[db] :
          /\ WithId(targets[db], c.target_id) = {t}
          /\ targets' = [targets EXCEPT ![db] = Replace(@, t, DeletedCopy(t))]
    BY <2>1
  <2>3. t.target_id = c.target_id /\ t \in ImageTarget
    BY <1>0, <2>2 DEF WithId
  <2>4. CopyOf(DeletedCopy(t), t) /\ DeletedCopy(t).delete_date = clock
    BY <1>0, <2>3, DeletedCopyType DEF CopyOf
  <2>5. Replaced(db, t, DeletedCopy(t))
    BY <2>1, <2>2, <2>4 DEF Replaced, Replace
  <2>6. ReplacedFor(c, db, t, DeletedCopy(t))
    BY <1>2, <2>1, <2>3, <2>4, <2>5 DEF ReplacedFor
  <2>7. db \in cloud_databases
    BY <2>1 DEF Named
  <2>8. QED
    BY <2>6, <2>7
<1>3. ASSUME c.op = "update", UpdateTarget(c.database, c.target_id, c.change)
      PROVE  \E db \in cloud_databases : \E t, u : ReplacedFor(c, db, t, u)
  <2>1. PICK db \in CloudDatabases :
          /\ Named(cloud_databases, c.database) = {db}
          /\ \E t \in targets[db] :
               /\ WithId(targets[db], c.target_id) = {t}
               /\ targets' = [targets EXCEPT ![db] =
                                Replace(@, t, UpdatedCopy(t, c.change))]
          /\ UNCHANGED <<clock, databases, vumark_targets, issued>>
    BY <1>3 DEF UpdateTarget, UpdatedCopy
  <2>2. PICK t \in targets[db] :
          /\ WithId(targets[db], c.target_id) = {t}
          /\ targets' = [targets EXCEPT ![db] = Replace(@, t, UpdatedCopy(t, c.change))]
    BY <2>1
  <2>3. t.target_id = c.target_id /\ t \in ImageTarget /\ c.change \in Change
    BY <1>0, <1>3, <2>2, OfCall, WorkersAssumption DEF WithId
  <2>4. /\ CopyOf(UpdatedCopy(t, c.change), t)
        /\ UpdatedCopy(t, c.change).delete_date = t.delete_date
    BY <1>0, <2>3, UpdatedCopyType DEF CopyOf
  <2>5. Replaced(db, t, UpdatedCopy(t, c.change))
    BY <2>1, <2>2, <2>4 DEF Replaced, Replace
  <2>6. ReplacedFor(c, db, t, UpdatedCopy(t, c.change))
    BY <1>3, <2>1, <2>3, <2>4, <2>5 DEF ReplacedFor
  <2>7. db \in cloud_databases
    BY <2>1 DEF Named
  <2>8. QED
    BY <2>6, <2>7
<1>4. QED
  BY <1>1, <1>2, <1>3 DEF Perform

\* The target manager's state in a step of the service.
ManagerStep ==
    \/ \E c \in Call : \E db \in cloud_databases : \E t : Placed(c, db, t)
    \/ \E db \in cloud_databases : \E t, u : Replaced(db, t, u)
    \/ \E db \in CloudDatabases : CreateCloudDatabase(db) \/ DeleteCloudDatabase(db)
    \/ Tick
    \/ UNCHANGED manager /\ \E id \in TargetIds : Issue(id)
    \/ UNCHANGED <<manager, issued>>

Managed == TypeOK /\ CredentialsUnique

LEMMA ManagedPreserved ==
    Managed /\ ManagerStep => Managed' /\ clock' \in Nat /\ clock <= clock'
<1> SUFFICES ASSUME Managed, ManagerStep
             PROVE  Managed' /\ clock' \in Nat /\ clock <= clock'
  OBVIOUS
<1>0. TypeOK /\ CredentialsUnique /\ clock \in Nat
  BY DatabasesAssumption DEF Managed, TypeOK
<1>1. CASE \E c \in Call : \E db \in cloud_databases : \E t : Placed(c, db, t)
  <2>1. PICK c \in Call, db \in cloud_databases : \E t : Placed(c, db, t)
    BY <1>1
  <2>2. PICK t : Placed(c, db, t)
    BY <2>1
  <2>3. targets' \in [CloudDatabases -> SUBSET ImageTarget]
    BY <1>0, <2>2 DEF Placed, TypeOK
  <2>4. TypeOK'
    BY <1>0, <2>1, <2>2, <2>3 DEF Placed, TypeOK, databases
  <2>5. CredentialsUnique'
    BY <1>0, <2>2 DEF Placed, CredentialsUnique, SharesServerIdentity,
                      SharesClientKey, databases
  <2>6. QED
    BY <1>0, <2>2, <2>4, <2>5 DEF Placed, Managed
<1>2. CASE AbstractStep
  <2>1. TypeOK' /\ CredentialsUnique'
    BY <1>0, <1>2, TypePreserved, CredentialsPreserved
  <2>2. clock' \in Nat /\ clock <= clock'
    <3>1. (\E db \in cloud_databases : \E t : Added(db, t)) => clock' = clock
      BY DEF Added
    <3>2. (\E db \in cloud_databases : \E t, u : Replaced(db, t, u)) => clock' = clock
      BY DEF Replaced
    <3>3. QED
      BY <1>0, <1>2, <3>1, <3>2, OtherSteps
  <2>3. QED
    BY <2>1, <2>2 DEF Managed
<1>3. CASE UNCHANGED manager /\ \E id \in TargetIds : Issue(id)
  BY <1>0, <1>3 DEF manager, databases, Issue, Managed, TypeOK, CredentialsUnique,
                    SharesServerIdentity, SharesClientKey
<1>4. QED
  <2>1. UNCHANGED <<manager, issued>> => UNCHANGED vars
    BY DEF manager, vars
  <2>2. QED
    BY <1>1, <1>2, <1>3, <2>1 DEF ManagerStep, AbstractStep

-----------------------------------------------------------------------------
\* What a worker holds at each place of its program.
Place == {"idle", "validate", "fetch", "decide", "call", "answer"}

\* The result codes of requests that fail, and of those that succeed.
Refusals == {"Fail", "AuthenticationFailure", "UnknownTarget", "ServerError",
             "TargetQuotaReached", "TargetNameExist", "TargetStatusProcessing",
             "TargetStatusNotSuccess"}

Answers == [code : Refusals, body : {None}]
           \cup [code : {"Success"}, body : ImageTarget \cup {None}]
           \cup [code : {"TargetCreated"}, body : TargetIds]

Seen == [database : DatabaseNames, target : ImageTarget]

WorkerTyped(w) ==
    /\ IF pc[w] = "idle" THEN request[w] = None ELSE request[w] \in Request
    /\ IF pc[w] = "decide"
       THEN seen[w] \in Seen /\ request[w].op \in {"delete", "update"}
       ELSE seen[w] = None
    /\ IF pc[w] = "call"
       THEN /\ call[w] \in Call /\ call[w].op = request[w].op
            /\ call[w].op # "add" => call[w].target_id = request[w].target_id
       ELSE call[w] = None
    /\ IF pc[w] = "answer" THEN answer[w] \in Answers ELSE answer[w] = None

Shapes ==
    /\ pc \in [Workers -> Place]
    /\ request \in [Workers -> Request \cup {None}]
    /\ seen \in [Workers -> Seen \cup {None}]
    /\ call \in [Workers -> Call \cup {None}]
    /\ answer \in [Workers -> Answers \cup {None}]
    /\ late \in [Lines -> Call \cup {None}]
    /\ acked_adds \subseteq TargetIds /\ acked_deletes \subseteq TargetIds
    /\ delete_asked \subseteq TargetIds
    /\ too_late \subseteq Workers /\ interrupted \subseteq Workers

\* The part of Shapes that workers share.
SharedShapes ==
    /\ late \in [Lines -> Call \cup {None}]
    /\ acked_adds \subseteq TargetIds /\ acked_deletes \subseteq TargetIds
    /\ delete_asked \subseteq TargetIds
    /\ too_late \subseteq Workers /\ interrupted \subseteq Workers

ServiceTyped ==
    /\ Managed /\ Shapes
    /\ \A w \in Workers : WorkerTyped(w)

\* A step of one worker: it goes to a place with these, and the others stay.
Becomes(w, p, r, s, c, a) ==
    /\ pc' = [pc EXCEPT ![w] = p]
    /\ request' = [request EXCEPT ![w] = r]
    /\ seen' = [seen EXCEPT ![w] = s]
    /\ call' = [call EXCEPT ![w] = c]
    /\ answer' = [answer EXCEPT ![w] = a]

LEMMA BecomesFacts ==
    ASSUME Shapes, NEW w \in Workers, NEW p, NEW r, NEW s, NEW c, NEW a,
           Becomes(w, p, r, s, c, a)
    PROVE  /\ pc'[w] = p /\ request'[w] = r /\ seen'[w] = s /\ call'[w] = c
           /\ answer'[w] = a
           /\ \A v \in Workers \ {w} :
                 /\ pc'[v] = pc[v] /\ request'[v] = request[v] /\ seen'[v] = seen[v]
                 /\ call'[v] = call[v] /\ answer'[v] = answer[v]
           /\ p \in Place => pc' \in [Workers -> Place]
           /\ r \in Request \cup {None} => request' \in [Workers -> Request \cup {None}]
           /\ s \in Seen \cup {None} => seen' \in [Workers -> Seen \cup {None}]
           /\ a \in Answers \cup {None} => answer' \in [Workers -> Answers \cup {None}]
           /\ c \in Call' \cup {None} /\ (\A x \in Call : x \in Call')
                => call' \in [Workers -> Call' \cup {None}]
<1>1. /\ pc'[w] = p /\ \A v \in Workers \ {w} : pc'[v] = pc[v]
      /\ p \in Place => pc' \in [Workers -> Place]
  BY DEF Shapes, Becomes
<1>2. /\ request'[w] = r /\ \A v \in Workers \ {w} : request'[v] = request[v]
      /\ r \in Request \cup {None} => request' \in [Workers -> Request \cup {None}]
  BY DEF Shapes, Becomes
<1>3. /\ seen'[w] = s /\ \A v \in Workers \ {w} : seen'[v] = seen[v]
      /\ s \in Seen \cup {None} => seen' \in [Workers -> Seen \cup {None}]
  BY DEF Shapes, Becomes
<1>4. /\ call'[w] = c /\ \A v \in Workers \ {w} : call'[v] = call[v]
      /\ c \in Call' \cup {None} /\ (\A x \in Call : x \in Call')
           => call' \in [Workers -> Call' \cup {None}]
  BY DEF Shapes, Becomes
<1>5. /\ answer'[w] = a /\ \A v \in Workers \ {w} : answer'[v] = answer[v]
      /\ a \in Answers \cup {None} => answer' \in [Workers -> Answers \cup {None}]
  BY DEF Shapes, Becomes
<1>6. QED
  BY <1>1, <1>2, <1>3, <1>4, <1>5

\* An action names what it changes for its worker.
LEMMA Unchanged ==
    ASSUME Shapes, NEW w \in Workers
    PROVE  /\ UNCHANGED request => request' = [request EXCEPT ![w] = request[w]]
           /\ UNCHANGED seen => seen' = [seen EXCEPT ![w] = seen[w]]
           /\ UNCHANGED call => call' = [call EXCEPT ![w] = call[w]]
           /\ UNCHANGED answer => answer' = [answer EXCEPT ![w] = answer[w]]
  BY DEF Shapes

\* What is typed stays typed if the worker which makes the step leaves well.
LEMMA WorkersStayTyped ==
    ASSUME ServiceTyped, Managed', clock' \in Nat, clock <= clock',
           NEW w \in Workers, NEW p, NEW r, NEW s, NEW c, NEW a,
           Becomes(w, p, r, s, c, a), p \in Place, r \in Request \cup {None},
           s \in Seen \cup {None}, c \in Call' \cup {None},
           a \in Answers \cup {None}, WorkerTyped(w)', SharedShapes'
    PROVE  ServiceTyped'
<1>0. /\ Shapes /\ clock \in Nat /\ \A v \in Workers : WorkerTyped(v)
  BY DatabasesAssumption DEF ServiceTyped, Managed, TypeOK
<1>1. \A x \in Call : x \in Call'
  BY <1>0, CallGrows
<1>2. /\ pc' \in [Workers -> Place]
      /\ request' \in [Workers -> Request \cup {None}]
      /\ seen' \in [Workers -> Seen \cup {None}]
      /\ answer' \in [Workers -> Answers \cup {None}]
      /\ call' \in [Workers -> Call' \cup {None}]
      /\ \A v \in Workers \ {w} :
            /\ pc'[v] = pc[v] /\ request'[v] = request[v] /\ seen'[v] = seen[v]
            /\ call'[v] = call[v] /\ answer'[v] = answer[v]
  BY <1>0, <1>1, BecomesFacts
<1>3. ASSUME NEW v \in Workers \ {w} PROVE WorkerTyped(v)'
  BY <1>0, <1>1, <1>2 DEF WorkerTyped
<1>4. Shapes'
  BY <1>2 DEF Shapes, SharedShapes
<1>5. QED
  BY <1>3, <1>4 DEF ServiceTyped

\* A step in which no worker moves.
LEMMA WorkersStand ==
    ASSUME ServiceTyped, Managed', clock' \in Nat, clock <= clock',
           UNCHANGED work, SharedShapes'
    PROVE  ServiceTyped'
<1>0. /\ Shapes /\ clock \in Nat /\ \A v \in Workers : WorkerTyped(v)
  BY DatabasesAssumption DEF ServiceTyped, Managed, TypeOK
<1>1. \A x \in Call : x \in Call'
  BY <1>0, CallGrows
<1>2. ASSUME NEW v \in Workers PROVE WorkerTyped(v)'
  BY <1>0, <1>1 DEF WorkerTyped, work
<1>3. Shapes'
  BY <1>0, <1>1 DEF Shapes, SharedShapes, work
<1>4. QED
  BY <1>2, <1>3 DEF ServiceTyped

-----------------------------------------------------------------------------
\* What each action of a worker does to the worker.
Response(code, body) == [code |-> code, body |-> body]

LEMMA ReceiveEffect ==
    ASSUME Shapes, NEW w \in Workers, Receive(w)
    PROVE  \E req \in Request :
             /\ pc[w] = "idle"
             /\ Becomes(w, "validate", req, seen[w], call[w], answer[w])
             /\ delete_asked' = delete_asked \cup
                  (IF req.op = "delete" THEN {req.target_id} ELSE {})
             /\ too_late' = IF req.op # "add" /\ req.target_id \in acked_deletes
                            THEN too_late \cup {w} ELSE too_late
             /\ UNCHANGED <<manager, issued, late, acked_adds, acked_deletes, interrupted>>
<1>1. PICK req \in Request :
        /\ request' = [request EXCEPT ![w] = req]
        /\ delete_asked' = delete_asked \cup
             (IF req.op = "delete" THEN {req.target_id} ELSE {})
        /\ too_late' = IF req.op # "add" /\ req.target_id \in acked_deletes
                       THEN too_late \cup {w} ELSE too_late
  BY DEF Receive
<1>2. /\ pc[w] = "idle" /\ pc' = [pc EXCEPT ![w] = "validate"]
      /\ UNCHANGED <<manager, issued, seen, call, answer, late, acked_adds,
                     acked_deletes, interrupted>>
  BY DEF Receive, GoTo
<1>3. Becomes(w, "validate", req, seen[w], call[w], answer[w])
  BY <1>1, <1>2, Unchanged DEF Becomes
<1>4. QED
  BY <1>1, <1>2, <1>3

LEMMA RefusalCode ==
    ASSUME NEW req, NEW db
    PROVE  Refusal(req, db) \in Refusals \cup {""}
  BY DEF Refusal, AddRefusal, NameRefusal, Refusals

LEMMA ValidateEffect ==
    ASSUME Shapes, NEW w \in Workers, Validate(w)
    PROVE  /\ pc[w] = "validate"
           /\ \/ \E code \in {"Fail", "AuthenticationFailure"} :
                   Becomes(w, "answer", request[w], seen[w], call[w], Response(code, None))
              \/ \E db \in Matching(request[w].db) :
                   IF Refusal(request[w], db) = ""
                   THEN Becomes(w, "fetch", request[w], seen[w], call[w], answer[w])
                   ELSE /\ Refusal(request[w], db) \in Refusals
                        /\ Becomes(w, "answer", request[w], seen[w], call[w],
                                   Response(Refusal(request[w], db), None))
           /\ UNCHANGED <<manager, issued, late, history>>
<1>1. /\ pc[w] = "validate" /\ UNCHANGED <<manager, issued, late, history>>
      /\ UNCHANGED <<request, seen, call>>
  BY DEF Validate
<1>2. CASE \E code \in {"Fail", "AuthenticationFailure"} : Respond(w, code, None)
  <2>1. PICK code \in {"Fail", "AuthenticationFailure"} : Respond(w, code, None)
    BY <1>2
  <2>2. Becomes(w, "answer", request[w], seen[w], call[w], Response(code, None))
    BY <1>1, <2>1, Unchanged DEF Respond, GoTo, Becomes, Response
  <2>3. QED
    BY <1>1, <2>2
<1>3. CASE \E matched \in Matching(request[w].db) :
                IF Refusal(request[w], matched) = ""
                THEN GoTo(w, "fetch") /\ UNCHANGED answer
                ELSE Respond(w, Refusal(request[w], matched), None)
  <2>1. PICK matched \in Matching(request[w].db) :
                IF Refusal(request[w], matched) = ""
                THEN GoTo(w, "fetch") /\ UNCHANGED answer
                ELSE Respond(w, Refusal(request[w], matched), None)
    BY <1>3
  <2>2. CASE Refusal(request[w], matched) = ""
    <3>1. Becomes(w, "fetch", request[w], seen[w], call[w], answer[w])
      BY <1>1, <2>1, <2>2, Unchanged DEF GoTo, Becomes
    <3>2. QED
      BY <1>1, <2>2, <3>1
  <2>3. CASE Refusal(request[w], matched) # ""
    <3>1. Becomes(w, "answer", request[w], seen[w], call[w],
                  Response(Refusal(request[w], matched), None))
      BY <1>1, <2>1, <2>3, Unchanged DEF GoTo, Respond, Becomes, Response
    <3>2. Refusal(request[w], matched) \in Refusals
      BY <2>3, RefusalCode
    <3>3. QED
      BY <1>1, <2>3, <3>1, <3>2
  <2>4. QED
    BY <2>2, <2>3
<1>4. QED
  BY <1>2, <1>3 DEF Validate

LEMMA FailureEffect ==
    ASSUME Shapes, NEW w \in Workers, FetchFails(w) \/ SnapshotFails(w)
    PROVE  /\ pc[w] \in {"validate", "fetch"}
           /\ Becomes(w, "answer", request[w], seen[w], call[w],
                      Response("ServerError", None))
           /\ UNCHANGED <<manager, issued, late, history>>
<1>1. /\ pc[w] \in {"validate", "fetch"} /\ Respond(w, "ServerError", None)
      /\ UNCHANGED <<manager, issued, request, seen, call, late, history>>
  BY DEF FetchFails, SnapshotFails
<1>2. QED
  BY <1>1, Unchanged DEF Respond, GoTo, Becomes, Response

LEMMA FetchTargetEffect ==
    ASSUME Shapes, NEW w \in Workers, FetchTarget(w)
    PROVE  /\ pc[w] = "fetch" /\ request[w].op # "add"
           /\ \E db \in Matching(request[w].db) : \E t \in targets[db] :
                /\ WithId(targets[db], request[w].target_id) = {t}
                /\ IF request[w].op = "get"
                   THEN Becomes(w, "answer", request[w], seen[w], call[w],
                                Response("Success", t))
                   ELSE Becomes(w, "decide", request[w],
                                [database |-> DatabaseName[db], target |-> t],
                                call[w], answer[w])
           /\ UNCHANGED <<manager, issued, late, history>>
<1>1. /\ pc[w] = "fetch" /\ request[w].op # "add"
      /\ UNCHANGED <<manager, issued, request, call, late, history>>
  BY DEF FetchTarget
<1>0. PICK db \in Matching(request[w].db) : \E t \in targets[db] :
        /\ WithId(targets[db], request[w].target_id) = {t}
        /\ IF request[w].op = "get"
           THEN Respond(w, "Success", t) /\ UNCHANGED seen
           ELSE /\ seen' = [seen EXCEPT ![w] =
                     [database |-> DatabaseName[db], target |-> t]]
                /\ GoTo(w, "decide")
                /\ UNCHANGED answer
  BY DEF FetchTarget
<1>2. PICK t \in targets[db] :
        /\ WithId(targets[db], request[w].target_id) = {t}
        /\ IF request[w].op = "get"
           THEN Respond(w, "Success", t) /\ UNCHANGED seen
           ELSE /\ seen' = [seen EXCEPT ![w] =
                     [database |-> DatabaseName[db], target |-> t]]
                /\ GoTo(w, "decide")
                /\ UNCHANGED answer
  BY <1>0
<1>3. IF request[w].op = "get"
      THEN Becomes(w, "answer", request[w], seen[w], call[w], Response("Success", t))
      ELSE Becomes(w, "decide", request[w],
                   [database |-> DatabaseName[db], target |-> t], call[w], answer[w])
  BY <1>1, <1>2, Unchanged DEF Respond, GoTo, Becomes, Response
<1>4. QED
  BY <1>1, <1>2, <1>3

AddCall(w, db, id) ==
    [op |-> "add", database |-> DatabaseName[db], target_id |-> id,
     name |-> request[w].name, image |-> request[w].image, sent |-> clock]

LEMMA FetchForAddEffect ==
    ASSUME Shapes, NEW w \in Workers, FetchForAdd(w)
    PROVE  /\ pc[w] = "fetch" /\ request[w].op = "add"
           /\ \E db \in Matching(request[w].db), id \in TargetIds :
                /\ Issue(id)
                /\ Becomes(w, "call", request[w], seen[w], AddCall(w, db, id), answer[w])
           /\ UNCHANGED <<manager, late, history>>
<1>1. /\ pc[w] = "fetch" /\ request[w].op = "add"
      /\ UNCHANGED <<manager, request, seen, answer, late, history>>
  BY DEF FetchForAdd
<1>2. PICK db \in Matching(request[w].db), id \in TargetIds :
        Issue(id) /\ Send(w, AddCall(w, db, id))
  BY DEF FetchForAdd, AddCall
<1>3. Becomes(w, "call", request[w], seen[w], AddCall(w, db, id), answer[w])
  BY <1>1, <1>2, Unchanged DEF Send, GoTo, Becomes
<1>4. QED
  BY <1>1, <1>2, <1>3

\* The call a worker decides on.
ChangeCall(w) ==
    IF request[w].op = "delete"
    THEN [op |-> "delete", database |-> seen[w].database,
          target_id |-> request[w].target_id]
    ELSE [op |-> "update", database |-> seen[w].database,
          target_id |-> request[w].target_id, change |-> request[w].change]

LEMMA DecideEffect ==
    ASSUME Shapes, NEW w \in Workers, Decide(w)
    PROVE  /\ pc[w] = "decide" /\ request[w].op \in {"delete", "update"}
           /\ \/ \E code \in {"TargetStatusProcessing", "TargetStatusNotSuccess", "Fail"} :
                   Becomes(w, "answer", request[w], None, call[w], Response(code, None))
              \/ /\ request[w].op = "update" => request[w].change # NullFlag
                 /\ Becomes(w, "call", request[w], None, ChangeCall(w), answer[w])
           /\ UNCHANGED <<manager, issued, late, history>>
<1>1. CASE DecideDelete(w)
  <2>1. /\ pc[w] = "decide" /\ request[w].op = "delete"
        /\ seen' = [seen EXCEPT ![w] = None]
        /\ UNCHANGED <<manager, issued, request, late, history>>
    BY <1>1 DEF DecideDelete
  <2>2. CASE Respond(w, "TargetStatusProcessing", None) /\ UNCHANGED call
    BY <2>1, <2>2, Unchanged DEF Respond, GoTo, Becomes, Response
  <2>3. CASE Send(w, ChangeCall(w)) /\ UNCHANGED answer
    BY <2>1, <2>3, Unchanged DEF Send, GoTo, Becomes
  <2>4. QED
    BY <1>1, <2>1, <2>2, <2>3 DEF DecideDelete, ChangeCall
<1>2. CASE DecideUpdate(w)
  <2>1. /\ pc[w] = "decide" /\ request[w].op = "update"
        /\ seen' = [seen EXCEPT ![w] = None]
        /\ UNCHANGED <<manager, issued, request, late, history>>
    BY <1>2 DEF DecideUpdate
  <2>2. CASE /\ \E code \in {"TargetStatusNotSuccess", "Fail"} : Respond(w, code, None)
             /\ UNCHANGED call
    BY <2>1, <2>2, Unchanged DEF Respond, GoTo, Becomes, Response
  <2>3. CASE /\ request[w].change # NullFlag
             /\ Send(w, ChangeCall(w)) /\ UNCHANGED answer
    BY <2>1, <2>3, Unchanged DEF Send, GoTo, Becomes
  <2>4. QED
    BY <1>2, <2>1, <2>2, <2>3 DEF DecideUpdate, ChangeCall
<1>3. QED
  BY <1>1, <1>2 DEF Decide

\* What the client is told once the call of its request was sent.
Acknowledged(w) ==
    IF call[w].op = "add" THEN Response("TargetCreated", call[w].target_id)
    ELSE Response("Success", None)

LEMMA ApplyEffect ==
    ASSUME Shapes, NEW w \in Workers, Apply(w)
    PROVE  /\ pc[w] = "call" /\ Perform(call[w])
           /\ Becomes(w, "answer", request[w], seen[w], None, Acknowledged(w))
           /\ UNCHANGED <<issued, late, history>>
<1>1. /\ pc[w] = "call" /\ Perform(call[w])
      /\ call' = [call EXCEPT ![w] = None]
      /\ IF call[w].op = "add" THEN Respond(w, "TargetCreated", call[w].target_id)
         ELSE Respond(w, "Success", None)
      /\ UNCHANGED <<issued, request, seen, late, history>>
  BY DEF Apply
<1>2. pc' = [pc EXCEPT ![w] = "answer"] /\ answer' = [answer EXCEPT ![w] = Acknowledged(w)]
  BY <1>1 DEF Respond, GoTo, Response, Acknowledged
<1>3. QED
  BY <1>1, <1>2, Unchanged DEF Becomes

LEMMA TimeoutEffect ==
    ASSUME Shapes, NEW w \in Workers, Timeout(w)
    PROVE  /\ pc[w] = "call"
           /\ \E line \in Lines :
                late[line] = None /\ late' = [late EXCEPT ![line] = call[w]]
           /\ Becomes(w, "answer", request[w], seen[w], None, Response("ServerError", None))
           /\ UNCHANGED <<manager, issued, history>>
<1>1. /\ pc[w] = "call"
      /\ \E line \in Lines :
           late[line] = None /\ late' = [late EXCEPT ![line] = call[w]]
      /\ Respond(w, "ServerError", None)
      /\ call' = [call EXCEPT ![w] = None]
      /\ UNCHANGED <<manager, issued, request, seen, history>>
  BY DEF Timeout
<1>2. QED
  BY <1>1, Unchanged DEF Respond, GoTo, Becomes, Response

LEMMA AnswerEffect ==
    ASSUME Shapes, NEW w \in Workers, Answer(w)
    PROVE  /\ pc[w] = "answer"
           /\ Becomes(w, "idle", None, seen[w], call[w], None)
           /\ acked_adds' =
                IF answer[w].code = "TargetCreated" /\ w \notin interrupted
                THEN acked_adds \cup {answer[w].body} ELSE acked_adds
           /\ acked_deletes' =
                IF answer[w].code = "Success" /\ request[w].op = "delete"
                THEN acked_deletes \cup {request[w].target_id} ELSE acked_deletes
           /\ too_late' = too_late \ {w} /\ interrupted' = interrupted \ {w}
           /\ UNCHANGED <<manager, issued, late, delete_asked>>
<1>1. /\ pc[w] = "answer" /\ GoTo(w, "idle")
      /\ request' = [request EXCEPT ![w] = None]
      /\ answer' = [answer EXCEPT ![w] = None]
      /\ UNCHANGED <<manager, issued, seen, call, late, delete_asked>>
  BY DEF Answer
<1>2. Becomes(w, "idle", None, seen[w], call[w], None)
  BY <1>1, Unchanged DEF GoTo, Becomes
<1>3. QED
  BY <1>1, <1>2 DEF Answer

WorkerAction(w) == Receive(w) \/ Serve(w) \/ Timeout(w) \/ SnapshotFails(w)

LEMMA WorkerCases ==
    ASSUME NEW w \in Workers, WorkerAction(w)
    PROVE  \/ Receive(w) \/ Validate(w) \/ FetchFails(w) \/ SnapshotFails(w)
           \/ FetchTarget(w) \/ FetchForAdd(w) \/ Decide(w) \/ Apply(w)
           \/ Timeout(w) \/ Answer(w)
  BY DEF WorkerAction, Serve, Fetch

LEMMA ServiceCases ==
    ASSUME [ServiceNext]_service_vars
    PROVE  \/ \E w \in Workers : WorkerAction(w)
           \/ \E line \in Lines : ApplyLate(line)
           \/ \E line \in Lines : DropLate(line)
           \/ \E db \in CloudDatabases : AddDatabase(db)
           \/ \E db \in CloudDatabases : RemoveDatabase(db)
           \/ TimePasses
           \/ UNCHANGED service_vars
  BY DEF ServiceNext, WorkerAction

-----------------------------------------------------------------------------
\* The target manager's part of every step.
LEMMA MatchingDatabases ==
    ASSUME TypeOK, NEW db
    PROVE  /\ Matching(db) \subseteq cloud_databases
           /\ \A other \in Matching(db) : /\ other \in CloudDatabases
                                          /\ DatabaseName[other] \in DatabaseNames
  BY DEF Matching, TypeOK, DatabaseNames

LEMMA PerformSteps ==
    ASSUME TypeOK, NEW c \in Call, Perform(c), issued' = issued
    PROVE  ManagerStep
<1>1. (\E db \in cloud_databases : \E t, u : ReplacedFor(c, db, t, u))
        => \E db \in cloud_databases : \E t, u : Replaced(db, t, u)
  BY DEF ReplacedFor
<1>2. QED
  BY <1>1, PerformCases DEF ManagerStep

LEMMA WorkersManage ==
    ASSUME ServiceTyped, NEW w \in Workers, WorkerAction(w)
    PROVE  ManagerStep
<1>0. Shapes /\ TypeOK /\ WorkerTyped(w)
  BY DEF ServiceTyped, Managed
<1>1. CASE Apply(w)
  <2>1. call[w] \in Call
    BY <1>0, <1>1, ApplyEffect DEF WorkerTyped
  <2>2. QED
    BY <1>0, <1>1, <2>1, ApplyEffect, PerformSteps
<1>2. CASE FetchForAdd(w)
  BY <1>0, <1>2, FetchForAddEffect DEF ManagerStep
<1>3. CASE ~Apply(w) /\ ~FetchForAdd(w)
  <2>1. UNCHANGED <<manager, issued>>
    BY <1>0, <1>3, WorkerCases, ReceiveEffect, ValidateEffect, FailureEffect,
       FetchTargetEffect, DecideEffect, TimeoutEffect, AnswerEffect
  <2>2. QED
    BY <2>1 DEF ManagerStep
<1>4. QED
  BY <1>1, <1>2, <1>3

LEMMA ServiceManages ==
    ASSUME ServiceTyped, [ServiceNext]_service_vars
    PROVE  ManagerStep
<1>0. Shapes /\ TypeOK
  BY DEF ServiceTyped, Managed
<1>1. ASSUME NEW line \in Lines, ApplyLate(line) PROVE ManagerStep
  <2>1. late[line] \in Call /\ Perform(late[line]) /\ issued' = issued
    BY <1>0, <1>1 DEF ApplyLate, Shapes
  <2>2. QED
    BY <1>0, <2>1, PerformSteps
<1>2. ASSUME NEW line \in Lines, DropLate(line) PROVE ManagerStep
  BY <1>2 DEF DropLate, ManagerStep
<1>3. ASSUME NEW db \in CloudDatabases, AddDatabase(db) \/ RemoveDatabase(db)
      PROVE  ManagerStep
  BY <1>3 DEF AddDatabase, RemoveDatabase, ManagerStep
<1>4. CASE TimePasses
  BY <1>4 DEF TimePasses, ManagerStep
<1>5. CASE UNCHANGED service_vars
  BY <1>5 DEF service_vars, ManagerStep
<1>6. QED
  BY <1>1, <1>2, <1>3, <1>4, <1>5, ServiceCases, WorkersManage

-----------------------------------------------------------------------------
LEMMA AnswerTypes ==
    /\ \A code \in Refusals : Response(code, None) \in Answers
    /\ Response("Success", None) \in Answers
    /\ \A t \in ImageTarget : Response("Success", t) \in Answers
    /\ \A id \in TargetIds : Response("TargetCreated", id) \in Answers
  BY DEF Response, Answers

\* A worker that answers, with nothing else in its hands.
LEMMA AnsweringTyped ==
    ASSUME ServiceTyped, Managed', clock' \in Nat, clock <= clock', SharedShapes',
           NEW w \in Workers, pc[w] # "idle", NEW a \in Answers,
           Becomes(w, "answer", request[w], None, None, a)
    PROVE  ServiceTyped'
<1>0. Shapes /\ WorkerTyped(w)
  BY DEF ServiceTyped
<1>1. "answer" \in Place /\ request[w] \in Request
  BY <1>0 DEF Place, WorkerTyped
<1>2. /\ pc'[w] = "answer" /\ request'[w] = request[w] /\ seen'[w] = None
      /\ call'[w] = None /\ answer'[w] = a
  BY <1>0, BecomesFacts
<1>3. WorkerTyped(w)'
  BY <1>1, <1>2 DEF WorkerTyped
<1>4. QED
  BY <1>1, <1>3, WorkersStayTyped

LEMMA WorkerStepsTyped ==
    ASSUME ServiceTyped, NEW w \in Workers, WorkerAction(w),
           Managed', clock' \in Nat, clock <= clock'
    PROVE  ServiceTyped'
<1>0. /\ Shapes /\ SharedShapes /\ WorkerTyped(w) /\ TypeOK /\ clock \in Nat
      /\ \A x \in Call : x \in Call'
  <2>1. Shapes /\ WorkerTyped(w) /\ TypeOK /\ clock \in Nat
    BY DatabasesAssumption DEF ServiceTyped, Managed, TypeOK
  <2>2. QED
    BY <2>1, CallGrows DEF Shapes, SharedShapes
<1>1. CASE ~(Receive(w) \/ Timeout(w) \/ Answer(w))
  <2>0. SharedShapes'
    <3>1. UNCHANGED <<late, history>>
      BY <1>0, <1>1, WorkerCases, ValidateEffect, FailureEffect, FetchTargetEffect,
         FetchForAddEffect, DecideEffect, ApplyEffect
    <3>2. QED
      BY <1>0, <3>1 DEF SharedShapes, history
  <2>1. CASE Validate(w)
    <3>1. pc[w] = "validate" /\ seen[w] = None /\ call[w] = None
          /\ request[w] \in Request /\ answer[w] = None
      BY <1>0, <2>1, ValidateEffect DEF WorkerTyped
    <3>2. CASE \E code \in Refusals : Becomes(w, "answer", request[w], seen[w], call[w],
                                           Response(code, None))
      BY <2>0, <3>1, <3>2, AnswerTypes, AnsweringTyped
    <3>3. CASE Becomes(w, "fetch", request[w], seen[w], call[w], answer[w])
      <4>1. /\ pc'[w] = "fetch" /\ request'[w] = request[w] /\ seen'[w] = None
            /\ call'[w] = None /\ answer'[w] = None
        BY <1>0, <3>1, <3>3, BecomesFacts
      <4>2. WorkerTyped(w)' /\ "fetch" \in Place
        BY <3>1, <4>1 DEF WorkerTyped, Place
      <4>3. QED
        BY <2>0, <3>1, <3>3, <4>2, WorkersStayTyped
    <3>4. {"Fail", "AuthenticationFailure"} \subseteq Refusals
      BY DEF Refusals
    <3>5. QED
      BY <1>0, <2>1, <3>2, <3>3, <3>4, ValidateEffect
  <2>2. CASE FetchFails(w) \/ SnapshotFails(w)
    <3>1. pc[w] # "idle" /\ seen[w] = None /\ call[w] = None
      BY <1>0, <2>2, FailureEffect DEF WorkerTyped
    <3>2. Response("ServerError", None) \in Answers
      BY AnswerTypes DEF Refusals
    <3>3. QED
      BY <1>0, <2>0, <2>2, <3>1, <3>2, FailureEffect, AnsweringTyped
  <2>3. CASE FetchTarget(w)
    <3>1. PICK db \in Matching(request[w].db) : \E t \in targets[db] :
            IF request[w].op = "get"
            THEN Becomes(w, "answer", request[w], seen[w], call[w],
                         Response("Success", t))
            ELSE Becomes(w, "decide", request[w],
                         [database |-> DatabaseName[db], target |-> t],
                         call[w], answer[w])
      BY <1>0, <2>3, FetchTargetEffect
    <3>2. PICK t \in targets[db] :
            IF request[w].op = "get"
            THEN Becomes(w, "answer", request[w], seen[w], call[w],
                         Response("Success", t))
            ELSE Becomes(w, "decide", request[w],
                         [database |-> DatabaseName[db], target |-> t],
                         call[w], answer[w])
      BY <3>1
    <3>3. /\ pc[w] = "fetch" /\ seen[w] = None /\ call[w] = None /\ answer[w] = None
          /\ request[w] \in Request /\ request[w].op # "add"
      BY <1>0, <2>3, FetchTargetEffect DEF WorkerTyped
    <3>4. t \in ImageTarget /\ DatabaseName[db] \in DatabaseNames
      BY <1>0, MatchingDatabases DEF TypeOK
    <3>5. CASE request[w].op = "get"
      <4>1. Response("Success", t) \in Answers
        BY <3>4, AnswerTypes DEF Refusals
      <4>2. QED
        BY <2>0, <3>2, <3>3, <3>5, <4>1, AnsweringTyped
    <3>6. CASE request[w].op # "get"
      <4> DEFINE s == [database |-> DatabaseName[db], target |-> t]
      <4>1. s \in Seen
        BY <3>4 DEF Seen
      <4>2. Becomes(w, "decide", request[w], s, call[w], answer[w])
        BY <3>2, <3>6
      <4> HIDE DEF s
      <4>3. /\ pc'[w] = "decide" /\ request'[w] = request[w] /\ seen'[w] = s
            /\ call'[w] = None /\ answer'[w] = None
        BY <1>0, <3>3, <4>2, BecomesFacts
      <4>4. request[w].op \in {"delete", "update"}
        BY <3>3, <3>6, OfRequest
      <4>5. WorkerTyped(w)' /\ "decide" \in Place
        BY <3>3, <4>1, <4>3, <4>4 DEF WorkerTyped, Place
      <4>6. QED
        BY <2>0, <3>3, <4>1, <4>2, <4>5, WorkersStayTyped
    <3>7. QED
      BY <3>5, <3>6
  <2>4. CASE FetchForAdd(w)
    <3>1. PICK db \in Matching(request[w].db), id \in TargetIds :
            Becomes(w, "call", request[w], seen[w], AddCall(w, db, id), answer[w])
      BY <1>0, <2>4, FetchForAddEffect
    <3>2. /\ pc[w] = "fetch" /\ seen[w] = None /\ answer[w] = None
          /\ request[w] \in Request /\ request[w].op = "add"
      BY <1>0, <2>4, FetchForAddEffect DEF WorkerTyped
    <3>3. AddCall(w, db, id) \in Call /\ AddCall(w, db, id).op = "add"
      <4>1. clock \in 0 .. clock
        BY <1>0
      <4>2. QED
        BY <1>0, <3>2, <4>1, OfRequest, MatchingDatabases, MadeCalls DEF AddCall
    <3>4. /\ pc'[w] = "call" /\ request'[w] = request[w] /\ seen'[w] = None
          /\ call'[w] = AddCall(w, db, id) /\ answer'[w] = None
      BY <1>0, <3>1, <3>2, BecomesFacts
    <3>5. WorkerTyped(w)' /\ "call" \in Place
      BY <1>0, <3>2, <3>3, <3>4 DEF WorkerTyped, Place
    <3>6. QED
      BY <1>0, <2>0, <3>1, <3>2, <3>3, <3>5, WorkersStayTyped
  <2>5. CASE Decide(w)
    <3>1. /\ pc[w] = "decide" /\ seen[w] \in Seen /\ call[w] = None /\ answer[w] = None
          /\ request[w] \in Request /\ request[w].op \in {"delete", "update"}
      BY <1>0, <2>5, DecideEffect DEF WorkerTyped
    <3>2. CASE \E code \in {"TargetStatusProcessing", "TargetStatusNotSuccess", "Fail"} :
                   Becomes(w, "answer", request[w], None, call[w], Response(code, None))
      <4>1. {"TargetStatusProcessing", "TargetStatusNotSuccess", "Fail"} \subseteq Refusals
        BY DEF Refusals
      <4>2. QED
        BY <2>0, <3>1, <3>2, <4>1, AnswerTypes, AnsweringTyped
    <3>3. CASE /\ request[w].op = "update" => request[w].change # NullFlag
               /\ Becomes(w, "call", request[w], None, ChangeCall(w), answer[w])
      <4>1. /\ ChangeCall(w) \in Call /\ ChangeCall(w).op = request[w].op
            /\ ChangeCall(w).target_id = request[w].target_id
        <5>1. seen[w].database \in DatabaseNames /\ request[w].target_id \in TargetIds
          BY <3>1, OfRequest DEF Seen
        <5>2. request[w].op = "update" => request[w].change \in Changes
          BY <3>1, <3>3, OfRequest
        <5>3. QED
          BY <3>1, <5>1, <5>2, MadeCalls DEF ChangeCall
      <4>2. /\ pc'[w] = "call" /\ request'[w] = request[w] /\ seen'[w] = None
            /\ call'[w] = ChangeCall(w) /\ answer'[w] = None
        BY <1>0, <3>1, <3>3, BecomesFacts
      <4>3. WorkerTyped(w)' /\ "call" \in Place
        BY <1>0, <3>1, <4>1, <4>2 DEF WorkerTyped, Place
      <4>4. QED
        BY <1>0, <2>0, <3>1, <3>3, <4>1, <4>3, WorkersStayTyped
    <3>4. QED
      BY <1>0, <2>5, <3>2, <3>3, DecideEffect
  <2>6. CASE Apply(w)
    <3>1. pc[w] = "call" /\ seen[w] = None /\ call[w] \in Call
      BY <1>0, <2>6, ApplyEffect DEF WorkerTyped
    <3>2. Acknowledged(w) \in Answers
      BY <3>1, OfCall, AnswerTypes DEF Acknowledged
    <3>3. QED
      BY <1>0, <2>0, <2>6, <3>1, <3>2, ApplyEffect, AnsweringTyped
  <2>7. QED
    BY <1>1, <2>1, <2>2, <2>3, <2>4, <2>5, <2>6, WorkerCases
<1>2. CASE Receive(w)
  <2>1. PICK req \in Request :
          /\ pc[w] = "idle"
          /\ Becomes(w, "validate", req, seen[w], call[w], answer[w])
          /\ delete_asked' = delete_asked \cup
               (IF req.op = "delete" THEN {req.target_id} ELSE {})
          /\ too_late' = IF req.op # "add" /\ req.target_id \in acked_deletes
                         THEN too_late \cup {w} ELSE too_late
          /\ UNCHANGED <<manager, issued, late, acked_adds, acked_deletes, interrupted>>
    BY <1>0, <1>2, ReceiveEffect
  <2>2. seen[w] = None /\ call[w] = None /\ answer[w] = None
    BY <1>0, <2>1 DEF WorkerTyped
  <2>3. req.op = "delete" => req.target_id \in TargetIds
    BY OfRequest
  <2>4. SharedShapes'
    BY <1>0, <2>1, <2>3 DEF SharedShapes
  <2>5. /\ pc'[w] = "validate" /\ request'[w] = req /\ seen'[w] = None
        /\ call'[w] = None /\ answer'[w] = None
    BY <1>0, <2>1, <2>2, BecomesFacts
  <2>6. WorkerTyped(w)' /\ "validate" \in Place
    BY <2>1, <2>5 DEF WorkerTyped, Place
  <2>7. QED
    BY <2>1, <2>2, <2>4, <2>6, WorkersStayTyped
<1>3. CASE Timeout(w)
  <2>1. pc[w] = "call" /\ seen[w] = None /\ call[w] \in Call
    BY <1>0, <1>3, TimeoutEffect DEF WorkerTyped
  <2>2. PICK line \in Lines : late' = [late EXCEPT ![line] = call[w]]
    BY <1>0, <1>3, TimeoutEffect
  <2>3. late' \in [Lines -> Call' \cup {None}]
    BY <1>0, <2>1, <2>2 DEF Shapes
  <2>4. UNCHANGED history
    BY <1>0, <1>3, TimeoutEffect
  <2>5. SharedShapes'
    BY <1>0, <2>3, <2>4 DEF SharedShapes, history
  <2>6. Response("ServerError", None) \in Answers
    BY AnswerTypes DEF Refusals
  <2>7. QED
    BY <1>0, <1>3, <2>1, <2>5, <2>6, TimeoutEffect, AnsweringTyped
<1>4. CASE Answer(w)
  <2>1. /\ pc[w] = "answer" /\ seen[w] = None /\ call[w] = None
        /\ answer[w] \in Answers /\ request[w] \in Request
        /\ Becomes(w, "idle", None, seen[w], call[w], None)
    BY <1>0, <1>4, AnswerEffect DEF WorkerTyped
  <2>2. SharedShapes'
    <3>1. answer[w].code = "TargetCreated" => answer[w].body \in TargetIds
      BY <2>1 DEF Answers, Refusals
    <3>2. request[w].op = "delete" => request[w].target_id \in TargetIds
      BY <2>1, OfRequest
    <3>3. UNCHANGED <<manager, issued, late, delete_asked>>
      BY <1>0, <1>4, AnswerEffect
    <3>4. /\ acked_adds' \subseteq TargetIds /\ acked_deletes' \subseteq TargetIds
          /\ too_late' \subseteq Workers /\ interrupted' \subseteq Workers
      BY <1>0, <1>4, <3>1, <3>2, AnswerEffect DEF SharedShapes
    <3>5. QED
      BY <1>0, <3>3, <3>4 DEF SharedShapes
  <2>3. /\ pc'[w] = "idle" /\ request'[w] = None /\ seen'[w] = None
        /\ call'[w] = None /\ answer'[w] = None
    BY <1>0, <2>1, BecomesFacts
  <2>4. WorkerTyped(w)' /\ "idle" \in Place
    BY <2>3 DEF WorkerTyped, Place
  <2>5. QED
    BY <2>1, <2>2, <2>4, WorkersStayTyped
<1>5. QED
  BY <1>1, <1>2, <1>3, <1>4

LEMMA ServiceTypedPreserved == ServiceTyped /\ [ServiceNext]_service_vars => ServiceTyped'
<1> SUFFICES ASSUME ServiceTyped, [ServiceNext]_service_vars PROVE ServiceTyped'
  OBVIOUS
<1>0. /\ Managed' /\ clock' \in Nat /\ clock <= clock'
      /\ SharedShapes /\ TypeOK /\ Shapes /\ \A x \in Call : x \in Call'
  <2>1. Managed' /\ clock' \in Nat /\ clock <= clock'
    BY ServiceManages, ManagedPreserved DEF ServiceTyped
  <2>2. SharedShapes /\ TypeOK /\ Shapes /\ clock \in Nat
    BY DatabasesAssumption DEF ServiceTyped, Managed, TypeOK, Shapes, SharedShapes
  <2>3. QED
    BY <2>1, <2>2, CallGrows
<1>1. CASE \E w \in Workers : WorkerAction(w)
  BY <1>0, <1>1, WorkerStepsTyped
<1>2. ASSUME UNCHANGED work, SharedShapes' PROVE ServiceTyped'
  BY <1>0, <1>2, WorkersStand
<1>3. ASSUME NEW line \in Lines, ApplyLate(line) \/ DropLate(line) PROVE ServiceTyped'
  <2>1. /\ late' = [late EXCEPT ![line] = None] /\ UNCHANGED work /\ UNCHANGED history
    BY <1>3 DEF ApplyLate, DropLate
  <2>2. late' \in [Lines -> Call' \cup {None}]
    BY <1>0, <2>1 DEF Shapes
  <2>3. SharedShapes'
    BY <1>0, <2>1, <2>2 DEF SharedShapes, history
  <2>4. QED
    BY <1>2, <2>1, <2>3
<1>4. ASSUME NEW db \in CloudDatabases, AddDatabase(db) PROVE ServiceTyped'
  BY <1>0, <1>2, <1>4 DEF AddDatabase, SharedShapes, history
<1>5. ASSUME NEW db \in CloudDatabases, RemoveDatabase(db) PROVE ServiceTyped'
  <2>1. /\ UNCHANGED work /\ UNCHANGED <<late, acked_deletes, delete_asked, too_late>>
        /\ acked_adds' \subseteq acked_adds
        /\ interrupted' \subseteq interrupted \cup Workers
    BY <1>5 DEF RemoveDatabase
  <2>2. QED
    BY <1>0, <1>2, <2>1 DEF SharedShapes
<1>6. CASE TimePasses
  BY <1>0, <1>2, <1>6 DEF TimePasses, SharedShapes, history
<1>7. CASE UNCHANGED service_vars
  BY <1>0, <1>2, <1>7 DEF service_vars, SharedShapes, history
<1>8. QED
  BY <1>1, <1>3, <1>4, <1>5, <1>6, <1>7, ServiceCases

LEMMA InitServiceTyped == ServiceInit => ServiceTyped
<1> SUFFICES ASSUME ServiceInit PROVE ServiceTyped
  OBVIOUS
<1>1. TypeOK /\ CredentialsUnique
  BY DatabasesAssumption DEF ServiceInit, Init, TypeOK, CredentialsUnique
<1>2. "idle" \in Place
  BY DEF Place
<1>3. Shapes
  BY <1>2 DEF ServiceInit, Shapes
<1>4. \A w \in Workers : WorkerTyped(w)
  BY DEF ServiceInit, WorkerTyped
<1>5. QED
  BY <1>1, <1>3, <1>4 DEF ServiceTyped, Managed

\* At each place of its program a worker holds what it needs there and nothing
\* it has done with, and no call is ever made from the future.
THEOREM ServiceTypeCorrect == ServiceSpec => []ServiceTypeOK
<1>1. ServiceTyped => ServiceTypeOK
  <2>1. ASSUME ServiceTyped, NEW w \in Workers
        PROVE  /\ pc[w] \in {"idle", "validate", "fetch", "decide", "call", "answer"}
               /\ IF pc[w] = "idle" THEN request[w] = None ELSE request[w] \in Request
               /\ pc[w] = "decide" => seen[w].target \in ImageTarget
               /\ pc[w] = "call" => call[w] \in Call /\ call[w].op = request[w].op
               /\ pc[w] # "decide" => seen[w] = None
               /\ pc[w] # "call" => call[w] = None
               /\ pc[w] # "answer" => answer[w] = None
    <3>1. WorkerTyped(w) /\ pc[w] \in Place
      BY <2>1 DEF ServiceTyped, Shapes
    <3>2. pc[w] = "decide" => seen[w].target \in ImageTarget
      BY <3>1 DEF WorkerTyped, Seen
    <3>3. QED
      BY <3>1, <3>2 DEF WorkerTyped, Place
  <2>2. ServiceTyped => /\ TypeOK /\ late \in [Lines -> Call \cup {None}]
                        /\ acked_adds \cup acked_deletes \cup delete_asked \subseteq TargetIds
                        /\ too_late \cup interrupted \subseteq Workers
    BY DEF ServiceTyped, Managed, Shapes
  <2>3. QED
    BY <2>1, <2>2 DEF ServiceTypeOK
<1>2. QED
  BY <1>1, InitServiceTyped, ServiceTypedPreserved, PTL DEF ServiceSpec

-----------------------------------------------------------------------------
\* The calls which have not reached the target manager: those of workers, and
\* those which go on without one.
Holds(x) == IF x \in Workers THEN pc[x] = "call" ELSE late[x] # None

CallOf(x) == IF x \in Workers THEN call[x] ELSE late[x]

\* Where there is a call that adds a target of this id.
Adding(id) ==
    {x \in Workers \cup Lines :
        Holds(x) /\ CallOf(x).op = "add" /\ CallOf(x).target_id = id}

\* A target to be added has an id of its own which no target has yet.
CallIds ==
    \A id : Adding(id) # {} =>
        /\ id \in issued
        /\ \A db \in CloudDatabases : \A t \in targets[db] : t.target_id # id
        /\ \A x, y \in Adding(id) : x = y

LEMMA WorkerHands ==
    ASSUME Shapes, NEW w \in Workers, NEW p, NEW r, NEW s, NEW c, NEW a,
           Becomes(w, p, r, s, c, a)
    PROVE  \A x \in Workers \cup Lines :
             /\ x # w /\ (x \in Workers \/ late'[x] = late[x])
                  => Holds(x)' = Holds(x) /\ CallOf(x)' = CallOf(x)
             /\ x = w => Holds(x)' = (p = "call") /\ CallOf(x)' = c
  BY BecomesFacts DEF Holds, CallOf

\* A worker takes up a call, or none.
LEMMA WorkerAdding ==
    ASSUME Shapes, NEW w \in Workers, NEW p, NEW r, NEW s, NEW c, NEW a,
           Becomes(w, p, r, s, c, a), UNCHANGED late
    PROVE  /\ p # "call" \/ c.op # "add" => \A id : Adding(id)' \subseteq Adding(id) \ {w}
           /\ \A id : c.target_id # id => Adding(id)' \subseteq Adding(id) \ {w}
           /\ \A id : Adding(id)' \subseteq Adding(id) \cup {w}
<1>1. \A x \in Workers \cup Lines :
         /\ x # w => Holds(x)' = Holds(x) /\ CallOf(x)' = CallOf(x)
         /\ x = w => Holds(x)' = (p = "call") /\ CallOf(x)' = c
  BY WorkerHands
<1>2. QED
  BY <1>1 DEF Adding

LEMMA LineAdding ==
    ASSUME Shapes, NEW line \in Lines, late' = [late EXCEPT ![line] = None],
           UNCHANGED work
    PROVE  \A id : Adding(id)' \subseteq Adding(id) \ {line}
<1>1. line \notin Workers
  BY WorkersAssumption
<1>2. \A x \in Workers \cup Lines :
         /\ x # line => Holds(x)' = Holds(x) /\ CallOf(x)' = CallOf(x)
         /\ x = line => ~Holds(x)'
  BY <1>1 DEF Holds, CallOf, work, Shapes
<1>3. QED
  BY <1>2 DEF Adding

LEMMA MovedAdding ==
    ASSUME Shapes, NEW w \in Workers, NEW line \in Lines, pc[w] = "call",
           NEW p, NEW r, NEW s, NEW c, NEW a, Becomes(w, p, r, s, c, a), p # "call",
           late' = [late EXCEPT ![line] = call[w]]
    PROVE  \A id : Adding(id)' \subseteq
              (Adding(id) \ {w}) \cup {z \in {line} : w \in Adding(id)}
<1>1. line \notin Workers
  BY WorkersAssumption
<1>2. \A x \in Workers \cup Lines :
         /\ x # line /\ x # w => Holds(x)' = Holds(x) /\ CallOf(x)' = CallOf(x)
         /\ x = w => ~Holds(x)'
  <2>1. \A x \in Lines : x # line => late'[x] = late[x]
    BY DEF Shapes
  <2>2. ASSUME NEW x \in Workers \cup Lines, x # line, x # w
        PROVE  Holds(x)' = Holds(x) /\ CallOf(x)' = CallOf(x)
    BY <2>1, <2>2, WorkerHands
  <2>3. ~Holds(w)'
    BY WorkerHands
  <2>4. QED
    BY <2>2, <2>3
<1>3. CallOf(line)' = call[w] /\ Holds(w) /\ CallOf(w) = call[w]
  BY <1>1 DEF CallOf, Holds, Shapes
<1>4. QED
  BY <1>2, <1>3 DEF Adding

LEMMA StandingAdding ==
    ASSUME UNCHANGED <<work, late>>
    PROVE  \A id : Adding(id)' = Adding(id)
  BY DEF Adding, Holds, CallOf, work

-----------------------------------------------------------------------------
\* What a step does to targets and ids.
PlacingStep ==
    \E c \in Call : \E db \in cloud_databases : \E t : \E x \in Adding(c.target_id) :
       Placed(c, db, t) /\ \A id : Adding(id)' \subseteq Adding(id) \ {x}

IssuingStep ==
    /\ UNCHANGED manager
    /\ \E id \in TargetIds : \E w \in Workers :
          /\ Issue(id)
          /\ Adding(id)' \subseteq Adding(id) \cup {w}
          /\ \A other : other # id => Adding(other)' \subseteq Adding(other)

MovingStep ==
    /\ UNCHANGED <<manager, issued>>
    /\ \E x, y : \A id : Adding(id)' \subseteq
          (Adding(id) \ {x}) \cup {z \in {y} : x \in Adding(id)}

ReplacingStep(c) ==
    /\ \E x \in Workers \cup Lines : Holds(x) /\ CallOf(x) = c
    /\ \E db \in cloud_databases : \E t, u : ReplacedFor(c, db, t, u)
    /\ \A id : Adding(id)' \subseteq Adding(id)

EmptyingStep ==
    /\ \E db \in CloudDatabases : CreateCloudDatabase(db) \/ DeleteCloudDatabase(db)
    /\ \A id : Adding(id)' \subseteq Adding(id)

QuietStep ==
    /\ UNCHANGED <<databases, targets, vumark_targets, issued>>
    /\ \A id : Adding(id)' \subseteq Adding(id)

IdStep ==
    \/ PlacingStep \/ IssuingStep \/ MovingStep
    \/ \E c \in Call : ReplacingStep(c)
    \/ EmptyingStep \/ QuietStep

\* The call which x holds reaches the target manager.
LEMMA PerformedIdStep ==
    ASSUME TypeOK, NEW x \in Workers \cup Lines, NEW c \in Call,
           Holds(x), CallOf(x) = c, Perform(c), issued' = issued,
           \A id : Adding(id)' \subseteq Adding(id) \ {x}
    PROVE  IdStep
<1>1. CASE \E db \in cloud_databases : \E t : Placed(c, db, t)
  <2>1. x \in Adding(c.target_id)
    BY <1>1 DEF Adding, Placed
  <2>2. QED
    BY <1>1, <2>1 DEF PlacingStep, IdStep
<1>2. CASE \E db \in cloud_databases : \E t, u : ReplacedFor(c, db, t, u)
  BY <1>2 DEF ReplacingStep, IdStep
<1>3. CASE UNCHANGED manager
  BY <1>3 DEF manager, QuietStep, IdStep
<1>4. QED
  BY <1>1, <1>2, <1>3, PerformCases

LEMMA ServiceIdSteps == ServiceTyped /\ [ServiceNext]_service_vars => IdStep
<1> SUFFICES ASSUME ServiceTyped, [ServiceNext]_service_vars PROVE IdStep
  OBVIOUS
<1>0. Shapes /\ TypeOK /\ \A w \in Workers : WorkerTyped(w)
  BY DEF ServiceTyped, Managed
<1>1. ASSUME NEW w \in Workers, NEW p, NEW r, NEW s, NEW c, NEW a,
             Becomes(w, p, r, s, c, a), UNCHANGED <<manager, issued, late>>,
             p # "call" \/ c.op # "add"
      PROVE  IdStep
  BY <1>0, <1>1, WorkerAdding DEF manager, QuietStep, IdStep
<1>2. ASSUME NEW w \in Workers, WorkerAction(w) PROVE IdStep
  <2>1. CASE Receive(w)
    BY <1>0, <1>1, <2>1, ReceiveEffect
  <2>2. CASE Validate(w)
    BY <1>0, <1>1, <2>2, ValidateEffect
  <2>3. CASE FetchFails(w) \/ SnapshotFails(w)
    BY <1>0, <1>1, <2>3, FailureEffect
  <2>4. CASE FetchTarget(w)
    BY <1>0, <1>1, <2>4, FetchTargetEffect
  <2>5. CASE FetchForAdd(w)
    <3>1. PICK db \in Matching(request[w].db), id \in TargetIds :
            /\ Issue(id)
            /\ Becomes(w, "call", request[w], seen[w], AddCall(w, db, id), answer[w])
      BY <1>0, <2>5, FetchForAddEffect
    <3>2. AddCall(w, db, id).target_id = id /\ UNCHANGED <<manager, late>>
      BY <1>0, <2>5, FetchForAddEffect DEF AddCall
    <3>3. /\ Adding(id)' \subseteq Adding(id) \cup {w}
          /\ \A other : other # id => Adding(other)' \subseteq Adding(other)
      BY <1>0, <3>1, <3>2, WorkerAdding
    <3>4. QED
      BY <3>1, <3>2, <3>3 DEF IssuingStep, IdStep
  <2>6. CASE Decide(w)
    <3>1. ChangeCall(w).op # "add"
      BY DEF ChangeCall
    <3>2. QED
      BY <1>0, <1>1, <2>6, <3>1, DecideEffect
  <2>7. CASE Apply(w)
    <3>1. /\ pc[w] = "call" /\ Perform(call[w]) /\ call[w] \in Call
          /\ issued' = issued /\ UNCHANGED late
          /\ Becomes(w, "answer", request[w], seen[w], None, Acknowledged(w))
      BY <1>0, <2>7, ApplyEffect DEF WorkerTyped
    <3>2. \A id : Adding(id)' \subseteq Adding(id) \ {w}
      BY <1>0, <3>1, WorkerAdding
    <3>3. Holds(w) /\ CallOf(w) = call[w]
      BY <3>1 DEF Holds, CallOf
    <3>4. QED
      BY <1>0, <3>1, <3>2, <3>3, PerformedIdStep
  <2>8. CASE Timeout(w)
    <3>1. PICK line \in Lines : late' = [late EXCEPT ![line] = call[w]]
      BY <1>0, <2>8, TimeoutEffect
    <3>2. /\ pc[w] = "call" /\ UNCHANGED <<manager, issued>>
          /\ Becomes(w, "answer", request[w], seen[w], None, Response("ServerError", None))
      BY <1>0, <2>8, TimeoutEffect
    <3>3. \A id : Adding(id)' \subseteq
             (Adding(id) \ {w}) \cup {z \in {line} : w \in Adding(id)}
      BY <1>0, <3>1, <3>2, MovedAdding
    <3>4. QED
      BY <3>2, <3>3 DEF MovingStep, IdStep
  <2>9. CASE Answer(w)
    BY <1>0, <1>1, <2>9, AnswerEffect
  <2>10. QED
    BY <1>2, <2>1, <2>2, <2>3, <2>4, <2>5, <2>6, <2>7, <2>8, <2>9, WorkerCases
<1>3. ASSUME NEW line \in Lines, ApplyLate(line) PROVE IdStep
  <2>1. /\ late[line] # None /\ late[line] \in Call /\ Perform(late[line])
        /\ issued' = issued /\ UNCHANGED work
        /\ late' = [late EXCEPT ![line] = None]
    BY <1>0, <1>3 DEF ApplyLate, Shapes
  <2>2. Holds(line) /\ CallOf(line) = late[line]
    BY <2>1, WorkersAssumption DEF Holds, CallOf
  <2>3. QED
    BY <1>0, <2>1, <2>2, LineAdding, PerformedIdStep
<1>4. ASSUME NEW line \in Lines, DropLate(line) PROVE IdStep
  <2>1. /\ UNCHANGED <<manager, issued, work>>
        /\ late' = [late EXCEPT ![line] = None]
    BY <1>4 DEF DropLate
  <2>2. QED
    BY <1>0, <2>1, LineAdding DEF manager, QuietStep, IdStep
<1>5. ASSUME NEW db \in CloudDatabases, AddDatabase(db) \/ RemoveDatabase(db) PROVE IdStep
  BY <1>5, StandingAdding DEF AddDatabase, RemoveDatabase, EmptyingStep, IdStep
<1>6. CASE TimePasses
  BY <1>6, StandingAdding DEF TimePasses, Tick, QuietStep, IdStep
<1>7. CASE UNCHANGED service_vars
  BY <1>7, StandingAdding DEF service_vars, manager, QuietStep, IdStep
<1>8. QED
  BY <1>2, <1>3, <1>4, <1>5, <1>6, <1>7, ServiceCases

-----------------------------------------------------------------------------
IdsKept == IdsIssued /\ TargetIdsUnique /\ CallIds

\* The targets of a database after a call placed one or replaced one.
LEMMA PlacedTargets ==
    ASSUME TypeOK, NEW c, NEW db \in cloud_databases, NEW t, Placed(c, db, t)
    PROVE  /\ db \in CloudDatabases
           /\ \A other \in CloudDatabases : \A x \in targets'[other] :
                 x \in targets[other] \/ (other = db /\ x = t)
           /\ \A other \in CloudDatabases : targets[other] \subseteq targets'[other]
           /\ t \in targets'[db]
  BY DEF TypeOK, Placed

LEMMA ReplacedTargets ==
    ASSUME TypeOK, NEW c, NEW db \in cloud_databases, NEW t, NEW u,
           ReplacedFor(c, db, t, u)
    PROVE  /\ db \in CloudDatabases /\ t \in targets[db] /\ u \in targets'[db]
           /\ u.target_id = t.target_id
           /\ \A other \in CloudDatabases : \A x \in targets'[other] :
                 \/ x \in targets[other] /\ ~(other = db /\ x = t)
                 \/ other = db /\ x = u
           /\ \A other \in CloudDatabases : \A x \in targets[other] :
                 x \in targets'[other] \/ (other = db /\ x = t)
  BY DEF TypeOK, ReplacedFor, Replaced, CopyOf

LEMMA EmptiedTargets ==
    ASSUME TypeOK, EmptyingStep
    PROVE  /\ \A db \in CloudDatabases : targets'[db] = targets[db] \/ targets'[db] = {}
           /\ issued' = issued
  BY CreatedIsNew DEF TypeOK, EmptyingStep, CreateCloudDatabase, DeleteCloudDatabase

LEMMA IdsKeptPreserved ==
    ASSUME TypeOK, IdsKept, IdStep
    PROVE  IdsKept'
<1>0. IdsIssued /\ TargetIdsUnique /\ CallIds
  BY DEF IdsKept
\* Targets are as before or fewer, and calls to add are as before or fewer.
<1>1. ASSUME issued' = issued,
             \A db \in CloudDatabases : targets'[db] \subseteq targets[db],
             \A id : Adding(id)' \subseteq Adding(id)
      PROVE  IdsKept'
  <2>1. IdsIssued' /\ TargetIdsUnique'
    BY <1>0, <1>1 DEF IdsIssued, TargetIdsUnique
  <2>2. CallIds'
    BY <1>0, <1>1 DEF CallIds
  <2>3. QED
    BY <2>1, <2>2 DEF IdsKept
<1>2. CASE PlacingStep
  <2>1. PICK c \in Call, db \in cloud_databases : \E t : \E x \in Adding(c.target_id) :
          Placed(c, db, t) /\ \A id : Adding(id)' \subseteq Adding(id) \ {x}
    BY <1>2 DEF PlacingStep
  <2>2. PICK t : \E x \in Adding(c.target_id) :
          Placed(c, db, t) /\ \A id : Adding(id)' \subseteq Adding(id) \ {x}
    BY <2>1
  <2>3. PICK x \in Adding(c.target_id) :
          Placed(c, db, t) /\ \A id : Adding(id)' \subseteq Adding(id) \ {x}
    BY <2>2
  <2>4. /\ t.target_id = c.target_id /\ issued' = issued
        /\ c.target_id \in issued
        /\ \A other \in CloudDatabases : \A y \in targets[other] : y.target_id # c.target_id
        /\ Adding(c.target_id)' = {}
    BY <1>0, <2>3 DEF Placed, CallIds
  <2>5. /\ db \in CloudDatabases
        /\ \A other \in CloudDatabases : \A y \in targets'[other] :
              y \in targets[other] \/ (other = db /\ y = t)
    BY <2>3, PlacedTargets
  <2>6. IdsIssued' /\ TargetIdsUnique'
    BY <1>0, <2>4, <2>5 DEF IdsIssued, TargetIdsUnique
  <2>7. CallIds'
    <3>1. SUFFICES ASSUME NEW id, Adding(id)' # {}
                   PROVE  /\ id \in issued
                          /\ \A other \in CloudDatabases : \A y \in targets'[other] :
                                y.target_id # id
                          /\ \A y, z \in Adding(id)' : y = z
      BY <2>4 DEF CallIds
    <3>2. id # c.target_id /\ Adding(id)' \subseteq Adding(id)
      BY <2>3, <2>4, <3>1
    <3>3. QED
      BY <1>0, <2>4, <2>5, <3>1, <3>2 DEF CallIds
  <2>8. QED
    BY <2>6, <2>7 DEF IdsKept
<1>3. CASE IssuingStep
  <2>1. PICK id \in TargetIds, w \in Workers :
          /\ Issue(id)
          /\ Adding(id)' \subseteq Adding(id) \cup {w}
          /\ \A other : other # id => Adding(other)' \subseteq Adding(other)
    BY <1>3 DEF IssuingStep
  <2>2. /\ targets' = targets /\ issued' = issued \cup {id}
        /\ \A db \in CloudDatabases : \A t \in targets[db] : t.target_id # id
        /\ Adding(id) = {}
    BY <1>0, <1>3, <2>1 DEF IssuingStep, Issue, manager, IdsIssued, CallIds
  <2>3. IdsIssued' /\ TargetIdsUnique'
    BY <1>0, <2>2 DEF IdsIssued, TargetIdsUnique
  <2>4. CallIds'
    <3>1. SUFFICES ASSUME NEW other, Adding(other)' # {}
                   PROVE  /\ other \in issued'
                          /\ \A db \in CloudDatabases : \A y \in targets'[db] :
                                y.target_id # other
                          /\ \A y, z \in Adding(other)' : y = z
      BY DEF CallIds
    <3>2. CASE other = id
      BY <2>1, <2>2, <3>2
    <3>3. CASE other # id
      BY <1>0, <2>1, <2>2, <3>1, <3>3 DEF CallIds
    <3>4. QED
      BY <3>2, <3>3
  <2>5. QED
    BY <2>3, <2>4 DEF IdsKept
<1>4. CASE MovingStep
  <2>1. PICK x, y : \A id : Adding(id)' \subseteq
          (Adding(id) \ {x}) \cup {z \in {y} : x \in Adding(id)}
    BY <1>4 DEF MovingStep
  <2>2. targets' = targets /\ issued' = issued
    BY <1>4 DEF MovingStep, manager
  <2>3. CallIds'
    <3>1. SUFFICES ASSUME NEW id, Adding(id)' # {}
                   PROVE  /\ id \in issued
                          /\ \A db \in CloudDatabases : \A t \in targets[db] :
                                t.target_id # id
                          /\ \A u, z \in Adding(id)' : u = z
      BY <2>2 DEF CallIds
    <3>2. Adding(id) # {}
      BY <2>1, <3>1
    <3>3. \A u, z \in Adding(id) : u = z
      BY <1>0, <3>2 DEF CallIds
    <3>4. \A u, z \in Adding(id)' : u = z
      BY <2>1, <3>3
    <3>5. QED
      BY <1>0, <3>2, <3>4 DEF CallIds
  <2>4. QED
    BY <1>0, <2>2, <2>3 DEF IdsKept, IdsIssued, TargetIdsUnique
<1>5. ASSUME NEW c \in Call, ReplacingStep(c) PROVE IdsKept'
  <2>1. PICK db \in cloud_databases : \E t, u : ReplacedFor(c, db, t, u)
    BY <1>5 DEF ReplacingStep
  <2>2. PICK t, u : ReplacedFor(c, db, t, u)
    BY <2>1
  <2>3. /\ db \in CloudDatabases /\ t \in targets[db] /\ u.target_id = t.target_id
        /\ \A other \in CloudDatabases : \A x \in targets'[other] :
              \/ x \in targets[other] /\ ~(other = db /\ x = t)
              \/ other = db /\ x = u
    BY <2>2, ReplacedTargets
  <2>4. issued' = issued /\ \A id : Adding(id)' \subseteq Adding(id)
    BY <1>5, <2>2 DEF ReplacingStep, ReplacedFor, Replaced
  <2>5. \A other \in CloudDatabases : \A x \in targets[other] :
           x.target_id = t.target_id => other = db /\ x = t
    BY <1>0, <2>3 DEF TargetIdsUnique
  <2>6. IdsIssued'
    BY <1>0, <2>3, <2>4 DEF IdsIssued
  <2>7. TargetIdsUnique'
    BY <1>0, <2>3, <2>5 DEF TargetIdsUnique
  <2>8. CallIds'
    BY <1>0, <2>3, <2>4 DEF CallIds
  <2>9. QED
    BY <2>6, <2>7, <2>8 DEF IdsKept
<1>6. CASE EmptyingStep
  <2>1. /\ issued' = issued
        /\ \A db \in CloudDatabases : targets'[db] = targets[db] \/ targets'[db] = {}
    BY <1>6, EmptiedTargets
  <2>2. \A db \in CloudDatabases : targets'[db] \subseteq targets[db]
    BY <2>1
  <2>3. \A id : Adding(id)' \subseteq Adding(id)
    BY <1>6 DEF EmptyingStep
  <2>4. QED
    BY <1>1, <2>1, <2>2, <2>3
<1>7. CASE QuietStep
  BY <1>1, <1>7 DEF QuietStep
<1>8. QED
  BY <1>2, <1>3, <1>4, <1>5, <1>6, <1>7 DEF IdStep

LEMMA InitIdsKept == ServiceInit => IdsKept
<1> SUFFICES ASSUME ServiceInit PROVE IdsKept
  OBVIOUS
<1>1. IdsIssued /\ TargetIdsUnique
  BY DEF ServiceInit, Init, IdsIssued, TargetIdsUnique
<1>2. \A id : Adding(id) = {}
  BY DEF ServiceInit, Adding, Holds, CallOf
<1>3. QED
  BY <1>1, <1>2 DEF IdsKept, CallIds

-----------------------------------------------------------------------------
\* An id whose target is deleted, or gone with its database, for good.
Gone(id) ==
    /\ id \in issued /\ Adding(id) = {}
    /\ \A db \in CloudDatabases : \A t \in targets[db] :
          t.target_id = id => t.delete_date # NoDate

\* An id whose target can only be in a database of this name.
Located(id, name) ==
    /\ id \in issued /\ Adding(id) = {}
    /\ \A db \in CloudDatabases : \A t \in targets[db] :
          t.target_id = id => DatabaseName[db] = name

\* An id which was issued and is not to be added is not added later.
LEMMA NotAddedLater ==
    ASSUME IdStep, NEW id \in issued, Adding(id) = {}
    PROVE  id \in issued' /\ Adding(id)' = {}
<1>1. CASE PlacingStep
  BY <1>1 DEF PlacingStep, Placed
<1>2. CASE IssuingStep
  BY <1>2 DEF IssuingStep, Issue
<1>3. CASE MovingStep
  BY <1>3 DEF MovingStep
<1>4. CASE \E c \in Call : ReplacingStep(c)
  BY <1>4 DEF ReplacingStep, ReplacedFor, Replaced
<1>5. CASE EmptyingStep
  BY <1>5 DEF EmptyingStep, CreateCloudDatabase, DeleteCloudDatabase
<1>6. CASE QuietStep
  BY <1>6 DEF QuietStep
<1>7. QED
  BY <1>1, <1>2, <1>3, <1>4, <1>5, <1>6 DEF IdStep

\* The targets of such an id are those which were there, or copies of them.
LEMMA OldTargets ==
    ASSUME TypeOK, IdStep, NEW id, Adding(id) = {}
    PROVE  \A db \in CloudDatabases : \A u \in targets'[db] :
              u.target_id = id =>
                 \E t \in targets[db] :
                    /\ t.target_id = id
                    /\ u.delete_date = t.delete_date \/ u.delete_date = clock
<1>1. CASE \A db \in CloudDatabases : targets'[db] \subseteq targets[db]
  BY <1>1
<1>2. CASE PlacingStep
  <2>1. PICK c \in Call, db \in cloud_databases : \E t : \E x \in Adding(c.target_id) :
          Placed(c, db, t)
    BY <1>2 DEF PlacingStep
  <2>2. PICK t : \E x \in Adding(c.target_id) : Placed(c, db, t)
    BY <2>1
  <2>3. t.target_id # id
    BY <2>2 DEF Placed
  <2>4. \A other \in CloudDatabases : \A u \in targets'[other] :
           u \in targets[other] \/ (other = db /\ u = t)
    BY <2>2, PlacedTargets
  <2>5. QED
    BY <2>3, <2>4
<1>3. ASSUME NEW c \in Call, ReplacingStep(c)
      PROVE  \A db \in CloudDatabases : \A u \in targets'[db] :
              u.target_id = id =>
                 \E t \in targets[db] :
                    /\ t.target_id = id
                    /\ u.delete_date = t.delete_date \/ u.delete_date = clock
  <2>1. PICK db \in cloud_databases : \E t, u : ReplacedFor(c, db, t, u)
    BY <1>3 DEF ReplacingStep
  <2>2. PICK t, u : ReplacedFor(c, db, t, u)
    BY <2>1
  <2>3. /\ t \in targets[db] /\ u.target_id = t.target_id
        /\ \A other \in CloudDatabases : \A x \in targets'[other] :
              \/ x \in targets[other]
              \/ other = db /\ x = u
    BY <2>2, ReplacedTargets
  <2>4. u.delete_date = t.delete_date \/ u.delete_date = clock
    BY <2>2 DEF ReplacedFor
  <2>5. QED
    BY <2>3, <2>4
<1>4. CASE IssuingStep \/ MovingStep \/ QuietStep
  BY <1>1, <1>4 DEF IssuingStep, MovingStep, QuietStep, manager
<1>5. CASE EmptyingStep
  BY <1>1, <1>5, EmptiedTargets
<1>6. QED
  BY <1>2, <1>3, <1>4, <1>5 DEF IdStep

LEMMA GoneStays ==
    ASSUME TypeOK, IdStep, NEW id, Gone(id)
    PROVE  Gone(id)'
<1>1. clock # NoDate
  BY DatabasesAssumption, TargetsAssumption DEF TypeOK
<1>2. id \in issued' /\ Adding(id)' = {}
  BY NotAddedLater DEF Gone
<1>3. \A db \in CloudDatabases : \A u \in targets'[db] :
         u.target_id = id => u.delete_date # NoDate
  BY <1>1, OldTargets DEF Gone
<1>4. QED
  BY <1>2, <1>3 DEF Gone

LEMMA LocatedStays ==
    ASSUME TypeOK, IdStep, NEW id, NEW name, Located(id, name)
    PROVE  Located(id, name)'
<1>1. id \in issued' /\ Adding(id)' = {}
  BY NotAddedLater DEF Located
<1>2. \A db \in CloudDatabases : \A u \in targets'[db] :
         u.target_id = id => DatabaseName[db] = name
  BY OldTargets DEF Located
<1>3. QED
  BY <1>1, <1>2 DEF Located

\* A target which is there now, in the one database that has its id.
LEMMA LocatedNow ==
    ASSUME TypeOK, IdsKept, NEW db \in CloudDatabases, NEW t \in targets[db]
    PROVE  Located(t.target_id, DatabaseName[db])
<1>0. IdsIssued /\ TargetIdsUnique /\ CallIds
  BY DEF IdsKept
<1>1. t.target_id \in issued /\ Adding(t.target_id) = {}
  BY <1>0 DEF IdsIssued, CallIds
<1>2. QED
  BY <1>0, <1>1 DEF Located, TargetIdsUnique

\* The target manager finds a target by the name of its database and its id.
LEMMA FoundByName ==
    ASSUME Managed, IdsKept, NEW db \in CloudDatabases, NEW t \in targets[db]
    PROVE  /\ Named(cloud_databases, DatabaseName[db]) = {db}
           /\ WithId(targets[db], t.target_id) = {t}
<1>0. TypeOK /\ CredentialsUnique /\ TargetIdsUnique
  BY DEF Managed, IdsKept
<1>1. db \in cloud_databases
  BY <1>0 DEF TypeOK
<1>2. Named(cloud_databases, DatabaseName[db]) = {db}
  BY <1>0, <1>1 DEF Named, CredentialsUnique, SharesServerIdentity
<1>3. WithId(targets[db], t.target_id) = {t}
  BY <1>0 DEF WithId, TargetIdsUnique
<1>4. QED
  BY <1>2, <1>3

\* Once a call to delete a target was carried out, or found nothing, the target
\* is gone.
LEMMA DeletedIsGone ==
    ASSUME Managed, IdsKept, IdStep, NEW c \in Call, c.op = "delete",
           Located(c.target_id, c.database), Perform(c), issued' = issued
    PROVE  Gone(c.target_id)'
<1>0. TypeOK /\ clock # NoDate
  BY DatabasesAssumption, TargetsAssumption DEF Managed, TypeOK
<1>1. c.target_id \in issued' /\ Adding(c.target_id)' = {}
  BY NotAddedLater DEF Located
<1>2. CASE \E db \in cloud_databases : \E t, u : ReplacedFor(c, db, t, u)
  <2>1. PICK db \in cloud_databases : \E t, u : ReplacedFor(c, db, t, u)
    BY <1>2
  <2>2. PICK t, u : ReplacedFor(c, db, t, u)
    BY <2>1
  <2>3. /\ db \in CloudDatabases /\ t \in targets[db] /\ t.target_id = c.target_id
        /\ u.delete_date = clock
        /\ \A other \in CloudDatabases : \A x \in targets'[other] :
              \/ x \in targets[other] /\ ~(other = db /\ x = t)
              \/ other = db /\ x = u
    BY <1>0, <2>2, ReplacedTargets DEF ReplacedFor
  <2>4. \A other \in CloudDatabases : \A x \in targets[other] :
           x.target_id = c.target_id => other = db /\ x = t
    BY <2>3 DEF IdsKept, TargetIdsUnique
  <2>5. \A other \in CloudDatabases : \A x \in targets'[other] :
           x.target_id = c.target_id => x.delete_date # NoDate
    BY <1>0, <2>3, <2>4
  <2>6. QED
    BY <1>1, <2>5 DEF Gone
<1>3. CASE ~Served(c) /\ UNCHANGED manager
  <2>1. ASSUME NEW db \in CloudDatabases, NEW t \in targets[db], t.target_id = c.target_id
        PROVE  FALSE
    <3>1. DatabaseName[db] = c.database
      BY <2>1 DEF Located
    <3>2. /\ Named(cloud_databases, c.database) = {db}
          /\ WithId(targets[db], c.target_id) = {t}
      BY <2>1, <3>1, FoundByName
    <3>3. QED
      BY <1>3, <3>2 DEF Served
  <2>2. targets' = targets
    BY <1>3 DEF manager
  <2>3. QED
    BY <1>1, <2>1, <2>2 DEF Gone
<1>4. QED
  <2>1. ~\E db \in cloud_databases : \E t : Placed(c, db, t)
    BY DEF Placed
  <2>2. QED
    BY <1>0, <1>2, <1>3, <2>1, PerformCases

-----------------------------------------------------------------------------
\* The answers to a request on a target which is gone.
GoneCodes == {"UnknownTarget", "Fail", "AuthenticationFailure", "ServerError"}

\* What a worker with a deletion knows of its target, and that a request on a
\* target which is gone gets no further than the validators.
DeleteOfWorker(w) ==
    \A id, name :
      /\ (pc[w] = "decide" /\ request[w].op = "delete"
          /\ request[w].target_id = id /\ seen[w].database = name)
         => Located(id, name)
      /\ (pc[w] = "call" /\ request[w].op = "delete"
          /\ request[w].target_id = id /\ call[w].database = name)
         => Located(id, name)
      /\ (pc[w] = "answer" /\ request[w].op = "delete"
          /\ request[w].target_id = id /\ answer[w].code = "Success")
         => Gone(id)
      /\ w \in too_late =>
           /\ pc[w] \in {"validate", "answer"} /\ request[w].op # "add"
           /\ (request[w].target_id = id => Gone(id))
           /\ (pc[w] = "answer" => answer[w].code \in GoneCodes)

DeletesKept ==
    /\ \A id \in acked_deletes : Gone(id)
    /\ \A w \in Workers : DeleteOfWorker(w)

LEMMA RefusedWhenGone ==
    ASSUME TypeOK, NEW req \in Request, req.op # "add", Gone(req.target_id),
           NEW db \in CloudDatabases
    PROVE  Refusal(req, db) = "UnknownTarget"
<1>1. WithId(Stored(db), req.target_id) = {}
  BY DEF WithId, Stored, NotDeleted, Gone
<1>2. QED
  BY <1>1 DEF Refusal

LEMMA DeletesOfOthers ==
    ASSUME Managed, IdStep, NEW v \in Workers, DeleteOfWorker(v),
           pc'[v] = pc[v], request'[v] = request[v], seen'[v] = seen[v],
           call'[v] = call[v], answer'[v] = answer[v],
           v \in too_late' => v \in too_late
    PROVE  DeleteOfWorker(v)'
<1>1. TypeOK
  BY DEF Managed
<1>2. \A id : Gone(id) => Gone(id)'
  BY <1>1, GoneStays
<1>3. \A id, name : Located(id, name) => Located(id, name)'
  BY <1>1, LocatedStays
<1>4. QED
  BY <1>2, <1>3 DEF DeleteOfWorker

LEMMA DeletesOfWorkers ==
    ASSUME ServiceTyped, IdsKept, DeletesKept, IdStep,
           NEW w \in Workers, WorkerAction(w)
    PROVE  DeletesKept'
<1>0. /\ Shapes /\ Managed /\ TypeOK /\ WorkerTyped(w)
      /\ \A v \in Workers : DeleteOfWorker(v)
      /\ \A id \in acked_deletes : Gone(id)
  BY DEF ServiceTyped, Managed, DeletesKept
<1>1. /\ \A id : Gone(id) => Gone(id)'
      /\ \A id, name : Located(id, name) => Located(id, name)'
  BY <1>0, GoneStays, LocatedStays
\* It is enough to look at the worker and at what it acknowledges.
<1>2. ASSUME NEW p, NEW r, NEW s, NEW c, NEW a, Becomes(w, p, r, s, c, a),
             \A v \in Workers \ {w} : v \in too_late' => v \in too_late,
             DeleteOfWorker(w)', \A id \in acked_deletes' : Gone(id)'
      PROVE  DeletesKept'
  <2>1. ASSUME NEW v \in Workers \ {w} PROVE DeleteOfWorker(v)'
    BY <1>0, <1>2, BecomesFacts, DeletesOfOthers
  <2>2. QED
    BY <1>2, <2>1 DEF DeletesKept
\* A worker which answers with a failure, and whose request was not too late
\* or gets one of the answers that those get.
<1>3. ASSUME NEW code \in Refusals, NEW s, NEW c,
             Becomes(w, "answer", request[w], s, c, Response(code, None)),
             UNCHANGED history, w \in too_late => code \in GoneCodes
      PROVE  DeletesKept'
  <2>1. /\ pc'[w] = "answer" /\ request'[w] = request[w]
        /\ answer'[w] = Response(code, None)
    BY <1>0, <1>3, BecomesFacts
  <2>2. answer'[w].code = code /\ code # "Success"
    BY <2>1 DEF Response, Refusals
  <2>3. too_late' = too_late /\ acked_deletes' = acked_deletes
    BY <1>3 DEF history
  <2>4. DeleteOfWorker(w)'
    BY <1>0, <1>1, <1>3, <2>1, <2>2, <2>3 DEF DeleteOfWorker
  <2>5. QED
    BY <1>0, <1>1, <1>2, <1>3, <2>3, <2>4
<1>4. CASE Receive(w)
  <2>1. PICK req \in Request :
          /\ pc[w] = "idle"
          /\ Becomes(w, "validate", req, seen[w], call[w], answer[w])
          /\ too_late' = IF req.op # "add" /\ req.target_id \in acked_deletes
                         THEN too_late \cup {w} ELSE too_late
          /\ acked_deletes' = acked_deletes
    BY <1>0, <1>4, ReceiveEffect
  <2>2. w \notin too_late
    BY <1>0, <2>1 DEF DeleteOfWorker
  <2>3. pc'[w] = "validate" /\ request'[w] = req
    BY <1>0, <2>1, BecomesFacts
  <2>4. w \in too_late' => req.op # "add" /\ Gone(req.target_id)
    BY <1>0, <2>1, <2>2
  <2>5. DeleteOfWorker(w)'
    BY <1>1, <2>3, <2>4 DEF DeleteOfWorker
  <2>6. QED
    BY <1>0, <1>1, <1>2, <2>1, <2>5
<1>5. CASE Validate(w)
  <2>1. /\ pc[w] = "validate" /\ request[w] \in Request /\ UNCHANGED history
        /\ \/ \E code \in {"Fail", "AuthenticationFailure"} :
                Becomes(w, "answer", request[w], seen[w], call[w], Response(code, None))
           \/ \E db \in Matching(request[w].db) :
                IF Refusal(request[w], db) = ""
                THEN Becomes(w, "fetch", request[w], seen[w], call[w], answer[w])
                ELSE /\ Refusal(request[w], db) \in Refusals
                     /\ Becomes(w, "answer", request[w], seen[w], call[w],
                                Response(Refusal(request[w], db), None))
    BY <1>0, <1>5, ValidateEffect DEF WorkerTyped
  <2>2. CASE \E code \in {"Fail", "AuthenticationFailure"} :
                Becomes(w, "answer", request[w], seen[w], call[w], Response(code, None))
    BY <1>3, <2>1, <2>2 DEF Refusals, GoneCodes
  <2>3. ASSUME NEW db \in Matching(request[w].db), w \in too_late
        PROVE  Refusal(request[w], db) = "UnknownTarget"
    <3>1. request[w].op # "add" /\ Gone(request[w].target_id)
      BY <1>0, <2>3 DEF DeleteOfWorker
    <3>2. QED
      BY <1>0, <2>1, <2>3, <3>1, MatchingDatabases, RefusedWhenGone
  <2>4. ASSUME NEW db \in Matching(request[w].db), Refusal(request[w], db) = "",
               Becomes(w, "fetch", request[w], seen[w], call[w], answer[w])
        PROVE  DeletesKept'
    <3>1. w \notin too_late' /\ acked_deletes' = acked_deletes /\ too_late' = too_late
      BY <2>1, <2>3, <2>4 DEF history
    <3>2. pc'[w] = "fetch"
      <4>1. pc' = [pc EXCEPT ![w] = "fetch"]
        BY <2>4 DEF Becomes
      <4>2. QED
        BY <1>0, <4>1 DEF Shapes
    <3>3. DeleteOfWorker(w)'
      BY <3>1, <3>2 DEF DeleteOfWorker
    <3>4. QED
      BY <1>0, <1>1, <1>2, <2>4, <3>1, <3>3
  <2>5. ASSUME NEW db \in Matching(request[w].db), Refusal(request[w], db) # "",
               Refusal(request[w], db) \in Refusals,
               Becomes(w, "answer", request[w], seen[w], call[w],
                       Response(Refusal(request[w], db), None))
        PROVE  DeletesKept'
    <3>1. w \in too_late => Refusal(request[w], db) \in GoneCodes
      BY <2>3, <2>5 DEF GoneCodes
    <3>2. QED
      BY <1>3, <2>1, <2>5, <3>1
  <2>6. QED
    BY <2>1, <2>2, <2>4, <2>5
<1>6. CASE FetchFails(w) \/ SnapshotFails(w)
  <2>1. /\ Becomes(w, "answer", request[w], seen[w], call[w],
                   Response("ServerError", None))
        /\ UNCHANGED history
    BY <1>0, <1>6, FailureEffect
  <2>2. QED
    BY <1>3, <2>1 DEF Refusals, GoneCodes
<1>7. CASE FetchTarget(w)
  <2>1. /\ pc[w] = "fetch" /\ UNCHANGED history
        /\ \E db \in Matching(request[w].db) : \E t \in targets[db] :
             /\ WithId(targets[db], request[w].target_id) = {t}
             /\ IF request[w].op = "get"
                THEN Becomes(w, "answer", request[w], seen[w], call[w],
                             Response("Success", t))
                ELSE Becomes(w, "decide", request[w],
                             [database |-> DatabaseName[db], target |-> t],
                             call[w], answer[w])
    BY <1>0, <1>7, FetchTargetEffect
  <2>2. PICK db \in Matching(request[w].db) : \E t \in targets[db] :
             /\ WithId(targets[db], request[w].target_id) = {t}
             /\ IF request[w].op = "get"
                THEN Becomes(w, "answer", request[w], seen[w], call[w],
                             Response("Success", t))
                ELSE Becomes(w, "decide", request[w],
                             [database |-> DatabaseName[db], target |-> t],
                             call[w], answer[w])
    BY <2>1
  <2>3. PICK t \in targets[db] :
             /\ WithId(targets[db], request[w].target_id) = {t}
             /\ IF request[w].op = "get"
                THEN Becomes(w, "answer", request[w], seen[w], call[w],
                             Response("Success", t))
                ELSE Becomes(w, "decide", request[w],
                             [database |-> DatabaseName[db], target |-> t],
                             call[w], answer[w])
    BY <2>2
  <2>4. /\ w \notin too_late /\ too_late' = too_late /\ acked_deletes' = acked_deletes
    BY <1>0, <2>1 DEF DeleteOfWorker, history
  <2>5. CASE request[w].op = "get"
    <3>1. pc'[w] = "answer" /\ request'[w] = request[w]
      BY <1>0, <2>3, <2>5, BecomesFacts
    <3>2. DeleteOfWorker(w)'
      BY <2>4, <2>5, <3>1 DEF DeleteOfWorker
    <3>3. QED
      BY <1>0, <1>1, <1>2, <2>3, <2>4, <2>5, <3>2
  <2>6. CASE request[w].op # "get"
    <3>1. t.target_id = request[w].target_id /\ db \in CloudDatabases
      BY <1>0, <2>3, MatchingDatabases DEF WithId
    <3>2. Located(request[w].target_id, DatabaseName[db])
      BY <1>0, <3>1, LocatedNow
    <3>3. /\ pc'[w] = "decide" /\ request'[w] = request[w]
          /\ seen'[w] = [database |-> DatabaseName[db], target |-> t]
      BY <1>0, <2>3, <2>6, BecomesFacts
    <3>4. DeleteOfWorker(w)'
      BY <1>1, <2>4, <3>2, <3>3 DEF DeleteOfWorker
    <3>5. QED
      BY <1>0, <1>1, <1>2, <2>3, <2>4, <2>6, <3>4
  <2>7. QED
    BY <2>5, <2>6
<1>8. CASE FetchForAdd(w)
  <2>1. PICK c : Becomes(w, "call", request[w], seen[w], c, answer[w])
    BY <1>0, <1>8, FetchForAddEffect
  <2>2. /\ request[w].op = "add" /\ UNCHANGED history /\ pc[w] = "fetch"
    BY <1>0, <1>8, FetchForAddEffect
  <2>3. w \notin too_late /\ too_late' = too_late /\ acked_deletes' = acked_deletes
    BY <1>0, <2>2 DEF DeleteOfWorker, history
  <2>4. pc'[w] = "call" /\ request'[w] = request[w]
    BY <1>0, <2>1, BecomesFacts
  <2>5. DeleteOfWorker(w)'
    BY <2>2, <2>3, <2>4 DEF DeleteOfWorker
  <2>6. QED
    BY <1>0, <1>1, <1>2, <2>1, <2>3, <2>5
<1>9. CASE Decide(w)
  <2>1. /\ pc[w] = "decide" /\ UNCHANGED history
        /\ \/ \E code \in {"TargetStatusProcessing", "TargetStatusNotSuccess", "Fail"} :
                Becomes(w, "answer", request[w], None, call[w], Response(code, None))
           \/ Becomes(w, "call", request[w], None, ChangeCall(w), answer[w])
    BY <1>0, <1>9, DecideEffect
  <2>2. w \notin too_late /\ too_late' = too_late /\ acked_deletes' = acked_deletes
    BY <1>0, <2>1 DEF DeleteOfWorker, history
  <2>3. CASE \E code \in {"TargetStatusProcessing", "TargetStatusNotSuccess", "Fail"} :
                Becomes(w, "answer", request[w], None, call[w], Response(code, None))
    BY <1>3, <2>1, <2>2, <2>3 DEF Refusals
  <2>4. CASE Becomes(w, "call", request[w], None, ChangeCall(w), answer[w])
    <3>1. pc'[w] = "call" /\ request'[w] = request[w] /\ call'[w] = ChangeCall(w)
      BY <1>0, <2>4, BecomesFacts
    <3>2. request[w].op = "delete" => /\ ChangeCall(w).database = seen[w].database
                                      /\ Located(request[w].target_id, seen[w].database)
      BY <1>0, <2>1 DEF ChangeCall, DeleteOfWorker
    <3>3. DeleteOfWorker(w)'
      BY <1>1, <2>2, <3>1, <3>2 DEF DeleteOfWorker
    <3>4. QED
      BY <1>0, <1>1, <1>2, <2>2, <2>4, <3>3
  <2>5. QED
    BY <2>1, <2>3, <2>4
<1>10. CASE Apply(w)
  <2>1. /\ pc[w] = "call" /\ Perform(call[w]) /\ issued' = issued /\ UNCHANGED history
        /\ call[w] \in Call /\ call[w].op = request[w].op
        /\ call[w].op # "add" => call[w].target_id = request[w].target_id
        /\ Becomes(w, "answer", request[w], seen[w], None, Acknowledged(w))
    BY <1>0, <1>10, ApplyEffect DEF WorkerTyped
  <2>2. w \notin too_late /\ too_late' = too_late /\ acked_deletes' = acked_deletes
    BY <1>0, <2>1 DEF DeleteOfWorker, history
  <2>3. PICK c \in Call : c = call[w]
    BY <2>1
  <2>4. c.op = "delete" => Gone(c.target_id)'
    <3>1. c.op = "delete" => Located(c.target_id, c.database)
      BY <1>0, <2>1, <2>3 DEF DeleteOfWorker
    <3>2. QED
      BY <1>0, <2>1, <2>3, <3>1, DeletedIsGone
  <2>5. pc'[w] = "answer" /\ request'[w] = request[w]
    BY <1>0, <2>1, BecomesFacts
  <2>6. DeleteOfWorker(w)'
    BY <2>1, <2>2, <2>3, <2>4, <2>5 DEF DeleteOfWorker
  <2>7. QED
    BY <1>0, <1>1, <1>2, <2>1, <2>2, <2>6
<1>11. CASE Timeout(w)
  <2>1. /\ Becomes(w, "answer", request[w], seen[w], None, Response("ServerError", None))
        /\ UNCHANGED history
    BY <1>0, <1>11, TimeoutEffect
  <2>2. QED
    BY <1>3, <2>1 DEF Refusals, GoneCodes
<1>12. CASE Answer(w)
  <2>1. /\ pc[w] = "answer" /\ Becomes(w, "idle", None, seen[w], call[w], None)
        /\ acked_deletes' =
             IF answer[w].code = "Success" /\ request[w].op = "delete"
             THEN acked_deletes \cup {request[w].target_id} ELSE acked_deletes
        /\ too_late' = too_late \ {w}
    BY <1>0, <1>12, AnswerEffect
  <2>2. answer[w].code = "Success" /\ request[w].op = "delete"
          => Gone(request[w].target_id)
    BY <1>0, <2>1 DEF DeleteOfWorker
  <2>3. \A id \in acked_deletes' : Gone(id)'
    BY <1>0, <1>1, <2>1, <2>2
  <2>4. pc'[w] = "idle"
    BY <1>0, <2>1, BecomesFacts
  <2>5. DeleteOfWorker(w)'
    BY <2>1, <2>4 DEF DeleteOfWorker
  <2>6. QED
    BY <1>2, <2>1, <2>3, <2>5
<1>13. QED
  BY <1>4, <1>5, <1>6, <1>7, <1>8, <1>9, <1>10, <1>11, <1>12, WorkerCases

LEMMA DeletesKeptPreserved ==
    ServiceTyped /\ IdsKept /\ DeletesKept /\ [ServiceNext]_service_vars
        => DeletesKept'
<1> SUFFICES ASSUME ServiceTyped, IdsKept, DeletesKept, [ServiceNext]_service_vars
             PROVE  DeletesKept'
  OBVIOUS
<1>1. IdStep /\ Managed /\ TypeOK
  BY ServiceIdSteps DEF ServiceTyped, Managed, SharedShapes, Shapes
\* Every other step leaves the workers, and what was acknowledged, alone.
<1>2. ASSUME UNCHANGED work, too_late' = too_late, acked_deletes' = acked_deletes
      PROVE  DeletesKept'
  <2>1. ASSUME NEW w \in Workers PROVE DeleteOfWorker(w)'
    BY <1>1, <1>2, DeletesOfOthers DEF work, DeletesKept
  <2>2. \A id \in acked_deletes' : Gone(id)'
    BY <1>1, <1>2, GoneStays DEF DeletesKept
  <2>3. QED
    BY <2>1, <2>2 DEF DeletesKept
<1>3. ASSUME NEW w \in Workers, WorkerAction(w) PROVE DeletesKept'
  BY <1>1, <1>3, DeletesOfWorkers
<1>4. ASSUME NEW line \in Lines, ApplyLate(line) \/ DropLate(line)
      PROVE  DeletesKept'
  BY <1>2, <1>4 DEF ApplyLate, DropLate, history
<1>5. ASSUME NEW db \in CloudDatabases, AddDatabase(db) \/ RemoveDatabase(db)
      PROVE  DeletesKept'
  BY <1>2, <1>5 DEF AddDatabase, RemoveDatabase, history
<1>6. CASE TimePasses
  BY <1>2, <1>6 DEF TimePasses, history
<1>7. CASE UNCHANGED service_vars
  BY <1>2, <1>7 DEF service_vars, history
<1>8. QED
  BY <1>3, <1>4, <1>5, <1>6, <1>7, ServiceCases

LEMMA InitDeletesKept == ServiceInit => DeletesKept
  BY DEF ServiceInit, DeletesKept, DeleteOfWorker

\* A deletion which was acknowledged stays final for every number of threads,
\* databases and given-up calls: a request on the target received after it
\* (delete_target, update_target and get_target of _flask_server/vws.py) is
\* answered with one of four errors, and never succeeds.
THEOREM AckedDeletesStayFinal == ServiceSpec => []AckedDeleteFinal
<1>1. ServiceTyped /\ DeletesKept => AckedDeleteFinal
  <2>1. ServiceTyped => too_late \subseteq Workers
    BY DEF ServiceTyped, Shapes
  <2>2. QED
    BY <2>1 DEF DeletesKept, DeleteOfWorker, AckedDeleteFinal, GoneCodes
<1>2. ServiceTyped /\ IdsKept /\ [ServiceNext]_service_vars => IdsKept'
  BY ServiceIdSteps, IdsKeptPreserved DEF ServiceTyped, Managed
<1>3. QED
  BY <1>1, <1>2, InitServiceTyped, ServiceTypedPreserved, InitIdsKept, InitDeletesKept,
     DeletesKeptPreserved, PTL DEF ServiceSpec

-----------------------------------------------------------------------------
\* A target which is stored and not deleted, or whose deletion was asked for.
Kept(id) ==
    \/ id \in delete_asked
    \/ \E db \in cloud_databases : \E t \in targets[db] :
          t.target_id = id /\ t.delete_date = NoDate

NameStands(name) == \E db \in cloud_databases : DatabaseName[db] = name

\* Deletions are asked for before they are called for; the database of an add
\* which was not interrupted is there, and so is the target it was told of.
AddOfWorker(w) ==
    /\ (pc[w] # "idle" /\ request[w].op = "delete")
          => request[w].target_id \in delete_asked
    /\ (pc[w] = "call" /\ call[w].op = "add" /\ w \notin interrupted)
          => NameStands(call[w].database)
    /\ (pc[w] = "answer" /\ answer[w].code = "TargetCreated")
          => /\ request[w].op = "add"
             /\ (w \notin interrupted => Kept(answer[w].body))

AddsKept ==
    /\ \A id \in acked_adds : Kept(id)
    /\ \A w \in Workers : AddOfWorker(w)
    /\ \A line \in Lines : (late[line] # None /\ late[line].op = "delete")
                              => late[line].target_id \in delete_asked

\* No call deletes a target whose deletion was not asked for.
LEMMA DeletesAreAsked ==
    ASSUME ServiceTyped, AddsKept, NEW x \in Workers \cup Lines, Holds(x),
           CallOf(x).op = "delete"
    PROVE  CallOf(x).target_id \in delete_asked
<1>1. CASE x \in Workers
  <2>1. pc[x] = "call" /\ CallOf(x) = call[x]
    BY <1>1, WorkersAssumption DEF Holds, CallOf
  <2>2. WorkerTyped(x) /\ AddOfWorker(x)
    BY <1>1 DEF ServiceTyped, AddsKept
  <2>3. QED
    BY <2>1, <2>2 DEF WorkerTyped, AddOfWorker
<1>2. CASE x \in Lines
  <2>1. late[x] # None /\ CallOf(x) = late[x]
    BY <1>2, WorkersAssumption DEF Holds, CallOf
  <2>2. QED
    BY <1>2, <2>1 DEF AddsKept
<1>3. QED
  BY <1>1, <1>2

\* While no database goes, what is kept stays.
LEMMA KeptStays ==
    ASSUME ServiceTyped, AddsKept, IdStep, NEW id, Kept(id),
           delete_asked \subseteq delete_asked',
           cloud_databases \subseteq cloud_databases'
    PROVE  Kept(id)'
<1>0. TypeOK
  BY DEF ServiceTyped, Managed
<1>1. CASE id \in delete_asked
  BY <1>1 DEF Kept
<1>2. ASSUME NEW db \in cloud_databases, NEW t \in targets[db],
             t.target_id = id, t.delete_date = NoDate
      PROVE  Kept(id)'
  <2>0. db \in CloudDatabases /\ db \in cloud_databases'
    BY <1>0 DEF TypeOK
  <2>1. ASSUME targets[db] \subseteq targets'[db] PROVE Kept(id)'
    BY <1>2, <2>0, <2>1 DEF Kept
  <2>2. CASE PlacingStep
    BY <1>0, <2>0, <2>1, <2>2, PlacedTargets DEF PlacingStep
  <2>3. CASE IssuingStep \/ MovingStep \/ QuietStep
    BY <2>1, <2>3 DEF IssuingStep, MovingStep, QuietStep, manager
  <2>4. CASE \E c \in Call : ReplacingStep(c)
    <3>1. PICK c \in Call : ReplacingStep(c)
      BY <2>4
    <3>2. PICK other \in cloud_databases : \E s, u : ReplacedFor(c, other, s, u)
      BY <3>1 DEF ReplacingStep
    <3>3. PICK s, u : ReplacedFor(c, other, s, u)
      BY <3>2
    <3>4. CASE t \in targets'[db]
      BY <1>2, <2>0, <3>4 DEF Kept
    <3>5. CASE t \notin targets'[db]
      <4>0. /\ u \in targets'[other] /\ u.target_id = s.target_id
            /\ \A d \in CloudDatabases : \A x \in targets[d] :
                  x \in targets'[d] \/ (d = other /\ x = s)
        BY <1>0, <3>3, ReplacedTargets DEF ReplacedFor
      <4>1. other = db /\ s = t /\ u \in targets'[db] /\ u.target_id = id
        BY <1>2, <2>0, <3>5, <4>0
      <4>2. \/ c.op = "delete" /\ c.target_id = id
            \/ u.delete_date = NoDate
        BY <1>2, <3>3, <4>1 DEF ReplacedFor
      <4>3. c.op = "delete" => c.target_id \in delete_asked
        BY <3>1, DeletesAreAsked DEF ReplacingStep
      <4>4. QED
        BY <2>0, <4>1, <4>2, <4>3 DEF Kept
    <3>6. QED
      BY <3>4, <3>5
  <2>5. CASE EmptyingStep
    <3>1. PICK other \in CloudDatabases :
            CreateCloudDatabase(other) \/ DeleteCloudDatabase(other)
      BY <2>5 DEF EmptyingStep
    <3>2. CASE CreateCloudDatabase(other)
      <4>1. other # db
        BY <1>2, <3>2, CreatedIsNew DEF CreateCloudDatabase
      <4>2. QED
        BY <1>0, <2>0, <2>1, <3>2, <4>1 DEF TypeOK, CreateCloudDatabase
    <3>3. CASE DeleteCloudDatabase(other)
      BY <1>0, <2>0, <2>1, <3>3 DEF TypeOK, DeleteCloudDatabase, Named
    <3>4. QED
      BY <3>1, <3>2, <3>3
  <2>6. QED
    BY <2>2, <2>3, <2>4, <2>5 DEF IdStep
<1>3. QED
  BY <1>1, <1>2 DEF Kept

LEMMA AddsOfOthers ==
    ASSUME ServiceTyped, AddsKept, IdStep, NEW v \in Workers,
           delete_asked \subseteq delete_asked',
           cloud_databases \subseteq cloud_databases',
           pc'[v] = pc[v], request'[v] = request[v], call'[v] = call[v],
           answer'[v] = answer[v], v \in interrupted => v \in interrupted'
    PROVE  AddOfWorker(v)'
<1>1. \A id : Kept(id) => Kept(id)'
  BY KeptStays
<1>2. \A name : NameStands(name) => NameStands(name)'
  BY DEF NameStands
<1>3. AddOfWorker(v)
  BY DEF AddsKept
<1>4. QED
  BY <1>1, <1>2, <1>3 DEF AddOfWorker

LEMMA AddsOfWorkers ==
    ASSUME ServiceTyped, IdsKept, AddsKept, IdStep, NEW w \in Workers,
           WorkerAction(w)
    PROVE  AddsKept'
<1>0. /\ Shapes /\ Managed /\ TypeOK /\ WorkerTyped(w) /\ AddOfWorker(w)
      /\ \A id \in acked_adds : Kept(id)
      /\ \A line \in Lines : (late[line] # None /\ late[line].op = "delete")
                                => late[line].target_id \in delete_asked
  BY DEF ServiceTyped, Managed, AddsKept
\* It is enough to look at the worker, its line and what it acknowledges.
<1>1. ASSUME NEW p, NEW r, NEW s, NEW c, NEW a, Becomes(w, p, r, s, c, a),
             cloud_databases' = cloud_databases, delete_asked \subseteq delete_asked',
             interrupted \subseteq interrupted' \cup {w},
             AddOfWorker(w)', \A id \in acked_adds' : Kept(id),
             \A line \in Lines : \/ late'[line] = late[line]
                                 \/ late'[line] = call[w] /\ pc[w] = "call"
      PROVE  AddsKept'
  <2>1. ASSUME NEW v \in Workers \ {w} PROVE AddOfWorker(v)'
    BY <1>0, <1>1, BecomesFacts, AddsOfOthers
  <2>2. \A id \in acked_adds' : Kept(id)'
    BY <1>1, KeptStays
  <2>3. pc[w] = "call" /\ call[w].op = "delete" => call[w].target_id \in delete_asked
    BY <1>0 DEF AddOfWorker, WorkerTyped
  <2>4. \A line \in Lines : (late'[line] # None /\ late'[line].op = "delete")
                               => late'[line].target_id \in delete_asked'
    BY <1>0, <1>1, <2>3
  <2>5. QED
    BY <1>1, <2>1, <2>2, <2>4 DEF AddsKept
\* Steps that answer with a failure, or go on to validate, fetch or decide.
<1>2. ASSUME NEW p, NEW s, NEW c, NEW a, Becomes(w, p, request[w], s, c, a),
             p \notin {"call", "idle"}, pc[w] # "idle",
             p = "answer" => a.code # "TargetCreated",
             UNCHANGED <<manager, history>>,
             \A line \in Lines : \/ late'[line] = late[line]
                                 \/ late'[line] = call[w] /\ pc[w] = "call"
      PROVE  AddsKept'
  <2>1. pc'[w] = p /\ request'[w] = request[w] /\ answer'[w] = a
    BY <1>0, <1>2, BecomesFacts
  <2>2. /\ UNCHANGED <<acked_adds, delete_asked, interrupted>>
        /\ cloud_databases' = cloud_databases
    BY <1>2 DEF manager, history, databases
  <2>3. AddOfWorker(w)'
    BY <1>0, <1>2, <2>1, <2>2 DEF AddOfWorker
  <2>4. QED
    BY <1>0, <1>1, <1>2, <2>2, <2>3
<1>3. CASE Receive(w)
  <2>1. PICK req \in Request :
          /\ pc[w] = "idle"
          /\ Becomes(w, "validate", req, seen[w], call[w], answer[w])
          /\ delete_asked' = delete_asked \cup
               (IF req.op = "delete" THEN {req.target_id} ELSE {})
          /\ UNCHANGED <<manager, late, acked_adds, interrupted>>
    BY <1>0, <1>3, ReceiveEffect
  <2>2. pc'[w] = "validate" /\ request'[w] = req
    BY <1>0, <2>1, BecomesFacts
  <2>3. AddOfWorker(w)'
    BY <2>1, <2>2 DEF AddOfWorker
  <2>4. cloud_databases' = cloud_databases /\ delete_asked \subseteq delete_asked'
    BY <2>1 DEF manager, databases
  <2>5. QED
    BY <1>0, <1>1, <2>1, <2>3, <2>4
<1>4. CASE Validate(w)
  <2>1. ASSUME NEW code \in Refusals PROVE Response(code, None).code # "TargetCreated"
    BY <2>1 DEF Refusals, Response
  <2>2. pc[w] = "validate" /\ UNCHANGED <<manager, late, history>>
    BY <1>0, <1>4, ValidateEffect
  <2>3. \/ \E code \in Refusals :
             Becomes(w, "answer", request[w], seen[w], call[w], Response(code, None))
        \/ Becomes(w, "fetch", request[w], seen[w], call[w], answer[w])
    BY <1>0, <1>4, ValidateEffect DEF Refusals
  <2>4. QED
    BY <1>2, <2>1, <2>2, <2>3
<1>5. CASE FetchFails(w) \/ SnapshotFails(w)
  <2>1. Response("ServerError", None).code # "TargetCreated"
    BY DEF Response
  <2>2. QED
    BY <1>0, <1>2, <1>5, <2>1, FailureEffect
<1>6. CASE FetchTarget(w)
  <2>1. /\ pc[w] = "fetch" /\ UNCHANGED <<manager, late, history>>
        /\ \E t : \/ Becomes(w, "answer", request[w], seen[w], call[w],
                             Response("Success", t))
                  \/ \E s : Becomes(w, "decide", request[w], s, call[w], answer[w])
    <3>1. /\ pc[w] = "fetch" /\ UNCHANGED <<manager, late, history>>
          /\ \E db \in Matching(request[w].db) : \E t \in targets[db] :
                IF request[w].op = "get"
                THEN Becomes(w, "answer", request[w], seen[w], call[w],
                             Response("Success", t))
                ELSE Becomes(w, "decide", request[w],
                             [database |-> DatabaseName[db], target |-> t],
                             call[w], answer[w])
      BY <1>0, <1>6, FetchTargetEffect
    <3>2. QED
      BY <3>1
  <2>2. \A t : Response("Success", t).code # "TargetCreated"
    BY DEF Response
  <2>3. QED
    BY <1>2, <2>1, <2>2
<1>7. CASE FetchForAdd(w)
  <2>1. PICK db \in Matching(request[w].db), id \in TargetIds :
          Becomes(w, "call", request[w], seen[w], AddCall(w, db, id), answer[w])
    BY <1>0, <1>7, FetchForAddEffect
  <2>2. /\ pc[w] = "fetch" /\ request[w].op = "add"
        /\ UNCHANGED <<manager, late, history>>
    BY <1>0, <1>7, FetchForAddEffect
  <2>3. /\ UNCHANGED <<acked_adds, delete_asked, interrupted>>
        /\ cloud_databases' = cloud_databases
    BY <2>2 DEF manager, history, databases
  <2>4. pc'[w] = "call" /\ request'[w] = request[w] /\ call'[w] = AddCall(w, db, id)
    BY <1>0, <2>1, BecomesFacts
  <2>5. AddCall(w, db, id).database = DatabaseName[db] /\ NameStands(DatabaseName[db])'
    BY <1>0, <2>3, MatchingDatabases DEF NameStands, AddCall
  <2>6. AddOfWorker(w)'
    BY <2>2, <2>4, <2>5 DEF AddOfWorker
  <2>7. QED
    BY <1>0, <1>1, <2>1, <2>2, <2>3, <2>6
<1>8. CASE Decide(w)
  <2>1. /\ pc[w] = "decide" /\ UNCHANGED <<manager, late, history>>
        /\ \/ \E code \in {"TargetStatusProcessing", "TargetStatusNotSuccess", "Fail"} :
                Becomes(w, "answer", request[w], None, call[w], Response(code, None))
           \/ Becomes(w, "call", request[w], None, ChangeCall(w), answer[w])
    BY <1>0, <1>8, DecideEffect
  <2>2. CASE \E code \in {"TargetStatusProcessing", "TargetStatusNotSuccess", "Fail"} :
                Becomes(w, "answer", request[w], None, call[w], Response(code, None))
    <3>1. \A code \in {"TargetStatusProcessing", "TargetStatusNotSuccess", "Fail"} :
             Response(code, None).code # "TargetCreated"
      BY DEF Response
    <3>2. QED
      BY <1>2, <2>1, <2>2, <3>1
  <2>3. CASE Becomes(w, "call", request[w], None, ChangeCall(w), answer[w])
    <3>1. pc'[w] = "call" /\ request'[w] = request[w] /\ call'[w] = ChangeCall(w)
      BY <1>0, <2>3, BecomesFacts
    <3>2. /\ UNCHANGED <<acked_adds, delete_asked, interrupted>>
          /\ cloud_databases' = cloud_databases
      BY <2>1 DEF manager, history, databases
    <3>3. ChangeCall(w).op # "add"
      BY DEF ChangeCall
    <3>4. AddOfWorker(w)'
      BY <1>0, <2>1, <3>1, <3>2, <3>3 DEF AddOfWorker
    <3>5. QED
      BY <1>0, <1>1, <2>1, <2>3, <3>2, <3>4
  <2>4. QED
    BY <2>1, <2>2, <2>3
<1>9. CASE Apply(w)
  <2>1. /\ pc[w] = "call" /\ Perform(call[w]) /\ issued' = issued
        /\ UNCHANGED <<late, history>>
        /\ call[w] \in Call /\ call[w].op = request[w].op
        /\ Becomes(w, "answer", request[w], seen[w], None, Acknowledged(w))
    BY <1>0, <1>9, ApplyEffect DEF WorkerTyped
  <2>2. PICK c \in Call : c = call[w]
    BY <2>1
  <2>3. /\ UNCHANGED <<acked_adds, delete_asked, interrupted>>
        /\ cloud_databases' = cloud_databases
    BY <1>0, <2>1, <2>2, PerformCases
       DEF Placed, ReplacedFor, Replaced, manager, databases, history
  <2>4. pc'[w] = "answer" /\ request'[w] = request[w] /\ answer'[w] = Acknowledged(w)
    BY <1>0, <2>1, BecomesFacts
  <2>5. CASE c.op = "add"
    <3>1. answer'[w] = Response("TargetCreated", c.target_id)
      BY <2>2, <2>4, <2>5 DEF Acknowledged
    <3>2. ASSUME w \notin interrupted PROVE Kept(c.target_id)'
      <4>1. PICK db \in cloud_databases : DatabaseName[db] = c.database
        BY <1>0, <2>1, <2>2, <2>5, <3>2 DEF AddOfWorker, NameStands
      <4>2. db \in CloudDatabases /\ Named(cloud_databases, c.database) = {db}
        BY <1>0, <4>1 DEF Managed, TypeOK, CredentialsUnique, SharesServerIdentity, Named
      <4>3. Served(c)
        BY <2>5, <4>2 DEF Served
      <4>4. PICK other \in cloud_databases : \E t : Placed(c, other, t)
        BY <1>0, <2>1, <2>2, <2>5, <4>3, PerformCases DEF ReplacedFor
      <4>5. PICK t : Placed(c, other, t)
        BY <4>4
      <4>6. t \in targets'[other] /\ t.target_id = c.target_id /\ t.delete_date = NoDate
        BY <1>0, <4>5, PlacedTargets DEF Placed
      <4>7. QED
        BY <2>3, <4>6 DEF Kept
    <3>3. AddOfWorker(w)'
      BY <2>1, <2>2, <2>3, <2>4, <2>5, <3>1, <3>2 DEF AddOfWorker, Response
    <3>4. QED
      BY <1>0, <1>1, <2>1, <2>3, <3>3
  <2>6. CASE c.op # "add"
    <3>1. answer'[w].code = "Success"
      BY <2>2, <2>4, <2>6 DEF Acknowledged, Response
    <3>2. AddOfWorker(w)'
      BY <1>0, <2>1, <2>3, <2>4, <3>1 DEF AddOfWorker
    <3>3. QED
      BY <1>0, <1>1, <2>1, <2>3, <3>2
  <2>7. QED
    BY <2>5, <2>6
<1>10. CASE Timeout(w)
  <2>1. Response("ServerError", None).code # "TargetCreated"
    BY DEF Response
  <2>2. /\ pc[w] = "call" /\ UNCHANGED <<manager, history>>
        /\ Becomes(w, "answer", request[w], seen[w], None, Response("ServerError", None))
        /\ \E line \in Lines : late' = [late EXCEPT ![line] = call[w]]
    BY <1>0, <1>10, TimeoutEffect
  <2>3. \A line \in Lines : late'[line] = late[line] \/ late'[line] = call[w]
    BY <2>2 DEF ServiceTyped, SharedShapes
  <2>4. QED
    BY <1>2, <2>1, <2>2, <2>3
<1>11. CASE Answer(w)
  <2>1. /\ pc[w] = "answer" /\ Becomes(w, "idle", None, seen[w], call[w], None)
        /\ acked_adds' =
             IF answer[w].code = "TargetCreated" /\ w \notin interrupted
             THEN acked_adds \cup {answer[w].body} ELSE acked_adds
        /\ interrupted' = interrupted \ {w}
        /\ UNCHANGED <<manager, late, delete_asked>>
    BY <1>0, <1>11, AnswerEffect
  <2>2. \A id \in acked_adds' : Kept(id)
    BY <1>0, <2>1 DEF AddOfWorker
  <2>3. pc'[w] = "idle"
    BY <1>0, <2>1, BecomesFacts
  <2>4. AddOfWorker(w)'
    BY <2>3 DEF AddOfWorker
  <2>5. cloud_databases' = cloud_databases /\ interrupted \subseteq interrupted' \cup {w}
    BY <2>1 DEF manager, databases
  <2>6. QED
    BY <1>1, <2>1, <2>2, <2>4, <2>5
<1>12. QED
  BY <1>3, <1>4, <1>5, <1>6, <1>7, <1>8, <1>9, <1>10, <1>11, WorkerCases

\* A database which goes takes its targets out of what was acknowledged, and
\* interrupts every add.
LEMMA AddsWhenRemoved ==
    ASSUME ServiceTyped, AddsKept, NEW db \in CloudDatabases, RemoveDatabase(db)
    PROVE  AddsKept'
<1>1. /\ cloud_databases' = cloud_databases \ {db}
      /\ targets' = [targets EXCEPT ![db] = {}]
      /\ acked_adds' = acked_adds \ {t.target_id : t \in targets[db]}
      /\ interrupted' = interrupted \cup
           {w \in Workers : pc[w] # "idle" /\ request[w].op = "add"}
      /\ UNCHANGED <<pc, request, call, answer, late, delete_asked>>
  BY DEF RemoveDatabase, DeleteCloudDatabase, work
<1>2. TypeOK
  BY DEF ServiceTyped, Managed
<1>3. ASSUME NEW id \in acked_adds' PROVE Kept(id)'
  <2>1. Kept(id)
    BY <1>1, <1>3 DEF AddsKept
  <2>2. ASSUME NEW other \in cloud_databases, NEW t \in targets[other],
               t.target_id = id, t.delete_date = NoDate
        PROVE  Kept(id)'
    <3>1. other # db /\ other \in CloudDatabases
      BY <1>1, <1>2, <1>3, <2>2 DEF TypeOK
    <3>2. other \in cloud_databases' /\ t \in targets'[other]
      BY <1>1, <1>2, <2>2, <3>1 DEF TypeOK
    <3>3. QED
      BY <2>2, <3>2 DEF Kept
  <2>3. QED
    BY <1>1, <2>1, <2>2 DEF Kept
<1>4. ASSUME NEW w \in Workers PROVE AddOfWorker(w)'
  <2>1. AddOfWorker(w) /\ WorkerTyped(w)
    BY DEF AddsKept, ServiceTyped
  <2>2. pc[w] # "idle" /\ request[w].op = "add" => w \in interrupted'
    BY <1>1
  <2>3. QED
    BY <1>1, <2>1, <2>2 DEF AddOfWorker, WorkerTyped
<1>5. QED
  BY <1>1, <1>3, <1>4 DEF AddsKept

LEMMA AddsKeptPreserved ==
    ServiceTyped /\ IdsKept /\ AddsKept /\ [ServiceNext]_service_vars => AddsKept'
<1> SUFFICES ASSUME ServiceTyped, IdsKept, AddsKept, [ServiceNext]_service_vars
             PROVE  AddsKept'
  OBVIOUS
<1>1. IdStep /\ TypeOK /\ SharedShapes
  BY ServiceIdSteps DEF ServiceTyped, Managed, SharedShapes, Shapes
\* Every other step leaves the workers, and what was acknowledged, alone.
<1>2. ASSUME UNCHANGED work, UNCHANGED <<acked_adds, delete_asked, interrupted>>,
             cloud_databases \subseteq cloud_databases',
             \A line \in Lines : late'[line] \in {late[line], None}
      PROVE  AddsKept'
  <2>1. ASSUME NEW w \in Workers PROVE AddOfWorker(w)'
    BY <1>1, <1>2, AddsOfOthers DEF work
  <2>2. \A id \in acked_adds' : Kept(id)'
    BY <1>1, <1>2, KeptStays DEF AddsKept
  <2>3. QED
    BY <1>2, <2>1, <2>2 DEF AddsKept
<1>3. ASSUME NEW w \in Workers, WorkerAction(w) PROVE AddsKept'
  BY <1>1, <1>3, AddsOfWorkers
<1>4. ASSUME NEW line \in Lines, ApplyLate(line) PROVE AddsKept'
  <2>1. /\ late[line] # None /\ Perform(late[line]) /\ issued' = issued
        /\ late' = [late EXCEPT ![line] = None] /\ UNCHANGED <<work, history>>
    BY <1>4 DEF ApplyLate
  <2>2. PICK c \in Call : c = late[line]
    BY <1>1, <2>1 DEF SharedShapes
  <2>3. cloud_databases' = cloud_databases
    BY <1>1, <2>1, <2>2, PerformCases DEF Placed, ReplacedFor, Replaced, manager, databases
  <2>4. QED
    BY <1>1, <1>2, <2>1, <2>3 DEF SharedShapes, history
<1>5. ASSUME NEW line \in Lines, DropLate(line) PROVE AddsKept'
  BY <1>1, <1>2, <1>5 DEF DropLate, SharedShapes, history, manager, databases
<1>6. ASSUME NEW db \in CloudDatabases, AddDatabase(db) PROVE AddsKept'
  BY <1>2, <1>6 DEF AddDatabase, CreateCloudDatabase, history
<1>7. ASSUME NEW db \in CloudDatabases, RemoveDatabase(db) PROVE AddsKept'
  BY <1>7, AddsWhenRemoved
<1>8. CASE TimePasses
  BY <1>2, <1>8 DEF TimePasses, Tick, history, databases
<1>9. CASE UNCHANGED service_vars
  BY <1>2, <1>9 DEF service_vars, history, manager, databases
<1>10. QED
  BY <1>3, <1>4, <1>5, <1>6, <1>7, <1>8, <1>9, ServiceCases

LEMMA InitAddsKept == ServiceInit => AddsKept
  BY DEF ServiceInit, AddsKept, AddOfWorker

\* A target whose creation was acknowledged stays for as long as its database
\* does and no client asks for its deletion, for every number of threads,
\* databases and given-up calls: no call of add_target, update_target or
\* delete_target (_flask_server/vws.py), decided on an older copy, removes it.
THEOREM AckedAddsStayKept == ServiceSpec => []AckedAddKept
<1>1. AddsKept => AckedAddKept
  BY DEF AddsKept, AckedAddKept, Kept, WithId, Stored, NotDeleted
<1>2. ServiceTyped /\ IdsKept /\ [ServiceNext]_service_vars => IdsKept'
  BY ServiceIdSteps, IdsKeptPreserved DEF ServiceTyped, Managed
<1>3. QED
  BY <1>1, <1>2, InitServiceTyped, ServiceTypedPreserved, InitIdsKept, InitAddsKept,
     AddsKeptPreserved, PTL DEF ServiceSpec

-----------------------------------------------------------------------------
\* How far concurrent adds may go over a quota.
LEMMA OfThreads ==
    ASSUME NEW P, P \subseteq Workers \cup Lines
    PROVE  /\ IsFiniteSet(P) /\ Cardinality(P) \in Nat
           /\ Cardinality(P) <= Cardinality(Workers) + Cardinality(Lines)
<1>1. /\ IsFiniteSet(Workers \cup Lines) /\ Workers \cap Lines = {}
      /\ Cardinality(Workers \cup Lines) = Cardinality(Workers) + Cardinality(Lines)
  <2>1. /\ IsFiniteSet(Workers) /\ IsFiniteSet(Lines) /\ Workers \cap Lines = {}
        /\ Cardinality(Workers) \in Nat /\ Cardinality(Lines) \in Nat
    BY WorkersAssumption, FS_CardinalityType
  <2>2. /\ IsFiniteSet(Workers \cup Lines)
        /\ Cardinality(Workers \cup Lines) =
              Cardinality(Workers) + Cardinality(Lines) - Cardinality(Workers \cap Lines)
    BY <2>1, FS_Union
  <2>3. Cardinality(Workers \cap Lines) = 0
    BY <2>1, FS_EmptySet
  <2>4. QED
    BY <2>1, <2>2, <2>3
<1>2. QED
  BY <1>1, FS_Subset, FS_CardinalityType

LEMMA OneMore ==
    ASSUME NEW S, IsFiniteSet(S), NEW x, NEW T, T \subseteq S \cup {x}
    PROVE  /\ IsFiniteSet(T) /\ Cardinality(T) \in Nat
           /\ Cardinality(T) <= Cardinality(S) + 1
<1>0. Cardinality(S) \in Nat
  BY FS_CardinalityType
<1>1. IsFiniteSet(S \cup {x}) /\ Cardinality(S \cup {x}) <= Cardinality(S) + 1
  <2>1. /\ IsFiniteSet(S \cup {x})
        /\ Cardinality(S \cup {x}) = IF x \in S THEN Cardinality(S) ELSE Cardinality(S) + 1
    BY FS_AddElement
  <2>2. QED
    BY <1>0, <2>1
<1>2. QED
  BY <1>0, <1>1, FS_Subset, FS_CardinalityType

LEMMA OneLess ==
    ASSUME NEW S, IsFiniteSet(S), NEW x \in S, NEW T, T \subseteq S \ {x}
    PROVE  /\ IsFiniteSet(T) /\ Cardinality(T) \in Nat
           /\ Cardinality(T) + 1 <= Cardinality(S)
<1>1. /\ IsFiniteSet(S \ {x}) /\ Cardinality(S) \in Nat
      /\ Cardinality(S \ {x}) = Cardinality(S) - 1 /\ Cardinality(S \ {x}) \in Nat
  BY FS_RemoveElement, FS_CardinalityType
<1>2. QED
  BY <1>1, FS_Subset, FS_CardinalityType

LEMMA OneForAnother ==
    ASSUME NEW S, IsFiniteSet(S), NEW x \in S, NEW y, NEW T,
           T \subseteq (S \ {x}) \cup {y}
    PROVE  IsFiniteSet(T) /\ Cardinality(T) <= Cardinality(S)
<1>1. /\ IsFiniteSet(S \ {x}) /\ Cardinality(S \ {x}) + 1 <= Cardinality(S)
      /\ Cardinality(S) \in Nat /\ Cardinality(S \ {x}) \in Nat
  BY OneLess, FS_CardinalityType
<1>2. /\ IsFiniteSet(T) /\ Cardinality(T) \in Nat
      /\ Cardinality(T) <= Cardinality(S \ {x}) + 1
  BY <1>1, OneMore
<1>3. QED
  BY <1>1, <1>2

LEMMA NoMore ==
    ASSUME NEW S, IsFiniteSet(S), NEW T, T \subseteq S
    PROVE  IsFiniteSet(T) /\ Cardinality(T) <= Cardinality(S)
  BY FS_Subset

FiniteTargets == \A db \in CloudDatabases : IsFiniteSet(targets[db])

QuotaKept == FiniteTargets /\ QuotaOvershootBounded

\* What a step may do to the targets of a database and its pending adds: no more
\* of either; an add done; or few enough targets for the next one.
QuotaStep(db) ==
    \/ /\ db \in cloud_databases
       /\ Cardinality(Stored(db)') <= Cardinality(Stored(db))
       /\ Cardinality(PendingAdds(db)') <= Cardinality(PendingAdds(db))
    \/ /\ db \in cloud_databases
       /\ Cardinality(Stored(db)') <= Cardinality(Stored(db)) + 1
       /\ Cardinality(PendingAdds(db)') + 1 <= Cardinality(PendingAdds(db))
    \/ Cardinality(Stored(db)') <= LastAdmitting(db)

LEMMA FiniteStored ==
    ASSUME FiniteTargets, NEW db \in CloudDatabases
    PROVE  IsFiniteSet(Stored(db)) /\ Cardinality(Stored(db)) \in Nat
<1>1. IsFiniteSet(targets[db]) /\ Stored(db) \subseteq targets[db]
  BY DEF FiniteTargets, Stored, NotDeleted
<1>2. QED
  BY <1>1, FS_Subset, FS_CardinalityType

\* The arithmetic of the bound.
LEMMA BoundArithmetic ==
    ASSUME NEW stored \in Nat, NEW stored1 \in Nat, NEW pending \in Nat,
           NEW pending1 \in Nat, NEW last \in Int, NEW threads \in Nat,
           \/ stored + pending <= last + threads /\ stored1 <= stored /\ pending1 <= pending
           \/ /\ stored + pending <= last + threads
              /\ stored1 <= stored + 1 /\ pending1 + 1 <= pending
           \/ stored1 <= last /\ pending1 <= threads
    PROVE  stored1 + pending1 <= last + threads
  OBVIOUS

LEMMA QuotaFromStep ==
    ASSUME QuotaKept, FiniteTargets', NEW db \in CloudDatabases, QuotaStep(db)
    PROVE  (Cardinality(Stored(db)) + Cardinality(PendingAdds(db)) <=
               LastAdmitting(db) + Cardinality(Workers) + Cardinality(Lines))'
<1>1. /\ Cardinality(Stored(db)) \in Nat
      /\ Cardinality(Stored(db)') \in Nat
  <2>1. IsFiniteSet(targets'[db]) /\ Stored(db)' \subseteq targets'[db]
    BY DEF FiniteTargets, Stored, NotDeleted
  <2>2. QED
    BY <2>1, FiniteStored, FS_Subset, FS_CardinalityType DEF QuotaKept
<1>2. /\ Cardinality(PendingAdds(db)) \in Nat /\ Cardinality(PendingAdds(db)') \in Nat
      /\ Cardinality(PendingAdds(db)') <= Cardinality(Workers) + Cardinality(Lines)
  <2>1. PendingAdds(db) \subseteq Workers \cup Lines /\ PendingAdds(db)' \subseteq Workers \cup Lines
    BY DEF PendingAdds
  <2>2. QED
    BY <2>1, OfThreads
<1>3. /\ LastAdmitting(db) \in Int /\ Cardinality(Workers) \in Nat /\ Cardinality(Lines) \in Nat
  BY WorkersAssumption, FS_CardinalityType DEF LastAdmitting
<1>4. db \in cloud_databases =>
        Cardinality(Stored(db)) + Cardinality(PendingAdds(db)) <=
          LastAdmitting(db) + (Cardinality(Workers) + Cardinality(Lines))
  BY <1>1, <1>2, <1>3 DEF QuotaKept, QuotaOvershootBounded
<1>5. Cardinality(Stored(db)') + Cardinality(PendingAdds(db)') <=
          LastAdmitting(db) + (Cardinality(Workers) + Cardinality(Lines))
  <2>1. Cardinality(Workers) + Cardinality(Lines) \in Nat
    BY <1>3
  <2>2. QED
    BY <1>1, <1>2, <1>3, <1>4, <2>1, BoundArithmetic DEF QuotaStep
<1>6. LastAdmitting(db)' = LastAdmitting(db)
  BY DEF LastAdmitting
<1>7. QED
  BY <1>1, <1>2, <1>3, <1>5, <1>6

Joins(db, p, r, c) ==
    \/ p = "fetch" /\ r.op = "add" /\ HasKeysOf(db, r.db)
    \/ p = "call" /\ c.op = "add" /\ c.database = DatabaseName[db]

LEMMA PendingOfWorker ==
    ASSUME Shapes, NEW w \in Workers, NEW p, NEW r, NEW s, NEW c, NEW a,
           Becomes(w, p, r, s, c, a), UNCHANGED late, NEW db
    PROVE  /\ PendingAdds(db)' \subseteq PendingAdds(db) \cup {w}
           /\ w \in PendingAdds(db)' => Joins(db, p, r, c)
<1>1. Workers \cap Lines = {}
  BY WorkersAssumption
<1>2. /\ pc'[w] = p /\ request'[w] = r /\ call'[w] = c
      /\ \A v \in Workers \ {w} :
            pc'[v] = pc[v] /\ request'[v] = request[v] /\ call'[v] = call[v]
  BY BecomesFacts
<1>3. QED
  BY <1>1, <1>2 DEF PendingAdds, Joins, HasKeysOf

LEMMA PendingOf ==
    ASSUME NEW db, NEW w \in Workers, Joins(db, pc[w], request[w], call[w])
    PROVE  w \in PendingAdds(db)
  BY DEF PendingAdds, Joins, HasKeysOf

LEMMA QuietQuota ==
    ASSUME TypeOK, FiniteTargets, NEW db \in cloud_databases,
           targets'[db] \subseteq targets[db],
           PendingAdds(db)' \subseteq PendingAdds(db)
    PROVE  QuotaStep(db)
<1>1. IsFiniteSet(Stored(db)) /\ Stored(db)' \subseteq Stored(db)
  BY FiniteStored DEF TypeOK, Stored, NotDeleted
<1>2. IsFiniteSet(PendingAdds(db))
  BY OfThreads DEF PendingAdds
<1>3. QED
  BY <1>1, <1>2, NoMore DEF QuotaStep

LEMMA PerformedQuota ==
    ASSUME TypeOK, FiniteTargets, NEW c \in Call, Perform(c), issued' = issued, NEW x,
           NEW db \in cloud_databases,
           PendingAdds(db)' \subseteq PendingAdds(db) \ {x},
           c.op = "add" /\ c.database = DatabaseName[db] => x \in PendingAdds(db)
    PROVE  QuotaStep(db)
<1>0. /\ db \in CloudDatabases /\ clock # NoDate
      /\ IsFiniteSet(Stored(db)) /\ IsFiniteSet(PendingAdds(db))
  BY FiniteStored, OfThreads, DatabasesAssumption, TargetsAssumption
     DEF TypeOK, PendingAdds
<1>1. CASE \E other \in cloud_databases : \E t : Placed(c, other, t)
  <2>1. PICK other \in cloud_databases : \E t : Placed(c, other, t)
    BY <1>1
  <2>2. PICK t : Placed(c, other, t)
    BY <2>1
  <2>3. CASE other = db
    <3>1. x \in PendingAdds(db)
      BY <2>2, <2>3 DEF Placed, Named
    <3>2. Cardinality(PendingAdds(db)') + 1 <= Cardinality(PendingAdds(db))
      BY <1>0, <3>1, OneLess
    <3>3. Stored(db)' \subseteq Stored(db) \cup {t}
      BY <1>0, <2>2, PlacedTargets DEF Stored, NotDeleted
    <3>4. Cardinality(Stored(db)') <= Cardinality(Stored(db)) + 1
      BY <1>0, <3>3, OneMore
    <3>5. QED
      BY <3>2, <3>4 DEF QuotaStep
  <2>4. CASE other # db
    BY <1>0, <2>2, <2>4, PlacedTargets, QuietQuota
  <2>5. QED
    BY <2>3, <2>4
<1>2. CASE \E other \in cloud_databases : \E t, u : ReplacedFor(c, other, t, u)
  <2>1. PICK other \in cloud_databases : \E t, u : ReplacedFor(c, other, t, u)
    BY <1>2
  <2>2. PICK t, u : ReplacedFor(c, other, t, u)
    BY <2>1
  <2>3. /\ t \in targets[other]
        /\ \A d \in CloudDatabases : \A y \in targets'[d] :
              \/ y \in targets[d] /\ ~(d = other /\ y = t)
              \/ d = other /\ y = u
    BY <2>2, ReplacedTargets DEF ReplacedFor
  <2>4. u.delete_date = NoDate => t.delete_date = NoDate
    BY <1>0, <2>2 DEF ReplacedFor
  <2>5. Cardinality(Stored(db)') <= Cardinality(Stored(db))
    <3>1. CASE other = db /\ t \in Stored(db)
      <4>1. Stored(db)' \subseteq (Stored(db) \ {t}) \cup {u}
        BY <1>0, <2>3, <3>1 DEF Stored, NotDeleted
      <4>2. QED
        BY <1>0, <3>1, <4>1, OneForAnother, ZenonT(30)
    <3>2. CASE ~(other = db /\ t \in Stored(db))
      <4>1. Stored(db)' \subseteq Stored(db)
        BY <1>0, <2>3, <2>4, <3>2 DEF Stored, NotDeleted
      <4>2. QED
        BY <1>0, <4>1, NoMore
    <3>3. QED
      BY <3>1, <3>2
  <2>6. Cardinality(PendingAdds(db)') <= Cardinality(PendingAdds(db))
    BY <1>0, NoMore
  <2>7. QED
    BY <2>5, <2>6 DEF QuotaStep
<1>3. CASE ~Served(c) /\ UNCHANGED manager
  BY <1>3, QuietQuota DEF manager
<1>4. QED
  BY <1>1, <1>2, <1>3, PerformCases

LEMMA FiniteTargetsStay ==
    ServiceTyped /\ FiniteTargets /\ [ServiceNext]_service_vars => FiniteTargets'
<1> SUFFICES ASSUME ServiceTyped, FiniteTargets, [ServiceNext]_service_vars,
                    NEW db \in CloudDatabases
             PROVE  IsFiniteSet(targets'[db])
  BY DEF FiniteTargets
<1>0. IsFiniteSet(targets[db]) /\ TypeOK /\ ManagerStep
  BY ServiceManages DEF FiniteTargets, ServiceTyped, Managed
<1>1. ASSUME NEW z, targets'[db] \subseteq targets[db] \cup {z}
      PROVE  IsFiniteSet(targets'[db])
  BY <1>0, <1>1, OneMore
<1>2. CASE \E c \in Call : \E other \in cloud_databases : \E t : Placed(c, other, t)
  <2>1. PICK c \in Call : \E other \in cloud_databases : \E t : Placed(c, other, t)
    BY <1>2
  <2>2. PICK other \in cloud_databases : \E t : Placed(c, other, t)
    BY <2>1
  <2>3. PICK t : Placed(c, other, t)
    BY <2>2
  <2>4. QED
    BY <1>0, <1>1, <2>3, PlacedTargets
<1>3. CASE \E other \in cloud_databases : \E t, u : Replaced(other, t, u)
  <2>1. PICK other \in cloud_databases : \E t, u : Replaced(other, t, u)
    BY <1>3
  <2>2. PICK t, u : Replaced(other, t, u)
    BY <2>1
  <2>3. targets'[db] \subseteq targets[db] \cup {u}
    BY <1>0, <2>2 DEF Replaced, TypeOK
  <2>4. QED
    BY <1>1, <2>3
<1>4. ASSUME targets'[db] \subseteq targets[db] PROVE IsFiniteSet(targets'[db])
  BY <1>0, <1>4, NoMore
<1>5. CASE \E other \in CloudDatabases :
             CreateCloudDatabase(other) \/ DeleteCloudDatabase(other)
  BY <1>0, <1>4, <1>5 DEF CreateCloudDatabase, DeleteCloudDatabase, TypeOK
<1>6. CASE Tick \/ UNCHANGED manager
  BY <1>4, <1>6 DEF Tick, manager
<1>7. QED
  BY <1>0, <1>2, <1>3, <1>5, <1>6 DEF ManagerStep, manager

\* A worker joins the pending adds of a database by passing the quota check on
\* its targets, and only then.
LEMMA QuotaOfWorkers ==
    ASSUME ServiceTyped, FiniteTargets, NEW w \in Workers, WorkerAction(w),
           NEW db \in cloud_databases
    PROVE  QuotaStep(db)
<1>0. /\ Shapes /\ TypeOK /\ CredentialsUnique /\ WorkerTyped(w)
      /\ w \notin Lines /\ db \in CloudDatabases
  BY WorkersAssumption DEF ServiceTyped, Managed, TypeOK
\* Steps that leave the targets alone, and which do not make an add pending.
<1>1. ASSUME NEW p, NEW r, NEW s, NEW c, NEW a, Becomes(w, p, r, s, c, a),
             UNCHANGED <<manager, late>>,
             Joins(db, p, r, c) => w \in PendingAdds(db)
      PROVE  QuotaStep(db)
  <2>1. PendingAdds(db)' \subseteq PendingAdds(db)
    BY <1>0, <1>1, PendingOfWorker
  <2>2. QED
    BY <1>0, <1>1, <2>1, QuietQuota DEF manager
<1>2. ASSUME NEW p, NEW r, NEW s, NEW c, NEW a, Becomes(w, p, r, s, c, a),
             UNCHANGED <<manager, late>>, p \notin {"fetch", "call"}
      PROVE  QuotaStep(db)
  BY <1>1, <1>2 DEF Joins
<1>3. CASE Receive(w)
  BY <1>0, <1>2, <1>3, ReceiveEffect
<1>4. CASE Validate(w)
  <2>1. /\ pc[w] = "validate" /\ request[w] \in Request /\ UNCHANGED <<manager, late>>
        /\ \/ \E a : Becomes(w, "answer", request[w], seen[w], call[w], a)
           \/ \E other \in Matching(request[w].db) :
                /\ Refusal(request[w], other) = ""
                /\ Becomes(w, "fetch", request[w], seen[w], call[w], answer[w])
    BY <1>0, <1>4, ValidateEffect DEF WorkerTyped
  <2>2. ASSUME NEW other \in Matching(request[w].db), Refusal(request[w], other) = "",
               Becomes(w, "fetch", request[w], seen[w], call[w], answer[w])
        PROVE  QuotaStep(db)
    <3>1. CASE request[w].op = "add" /\ HasKeysOf(db, request[w].db)
      <4>1. other = db
        BY <1>0, <3>1, MatchingDatabases
           DEF Matching, HasKeysOf, CredentialsUnique, SharesServerIdentity
      <4>2. ~(Cardinality(Stored(db)) >= TargetQuota[db])
        BY <2>2, <3>1, <4>1 DEF Refusal, AddRefusal, Stored
      <4>3. Cardinality(Stored(db)) <= LastAdmitting(db)
        BY <1>0, <4>2, FiniteStored, WorkersAssumption DEF LastAdmitting
      <4>4. Stored(db)' = Stored(db)
        BY <2>1 DEF Stored, manager
      <4>5. QED
        BY <4>3, <4>4 DEF QuotaStep
    <3>2. CASE ~(request[w].op = "add" /\ HasKeysOf(db, request[w].db))
      BY <1>1, <2>1, <2>2, <3>2 DEF Joins
    <3>3. QED
      BY <3>1, <3>2
  <2>3. ASSUME NEW a, Becomes(w, "answer", request[w], seen[w], call[w], a)
        PROVE  QuotaStep(db)
    <3>1. UNCHANGED <<manager, late>>
      BY <2>1
    <3>2. QED
      BY <1>2, <2>3, <3>1
  <2>4. QED
    BY <2>1, <2>2, <2>3
<1>5. CASE FetchFails(w) \/ SnapshotFails(w)
  BY <1>0, <1>2, <1>5, FailureEffect
<1>6. CASE FetchTarget(w)
  <2>1. /\ UNCHANGED <<manager, late>>
        /\ \E other \in Matching(request[w].db) : \E t \in targets[other] :
             IF request[w].op = "get"
             THEN Becomes(w, "answer", request[w], seen[w], call[w],
                          Response("Success", t))
             ELSE Becomes(w, "decide", request[w],
                          [database |-> DatabaseName[other], target |-> t],
                          call[w], answer[w])
    BY <1>0, <1>6, FetchTargetEffect
  <2>2. QED
    BY <1>2, <2>1
<1>7. CASE FetchForAdd(w)
  <2>1. PICK other \in Matching(request[w].db), id \in TargetIds :
          Becomes(w, "call", request[w], seen[w], AddCall(w, other, id), answer[w])
    BY <1>0, <1>7, FetchForAddEffect
  <2>2. /\ pc[w] = "fetch" /\ request[w].op = "add" /\ UNCHANGED <<manager, late>>
    BY <1>0, <1>7, FetchForAddEffect
  <2>3. AddCall(w, other, id).database = DatabaseName[other]
    BY DEF AddCall
  <2>4. DatabaseName[other] = DatabaseName[db] => w \in PendingAdds(db)
    <3>1. DatabaseName[other] = DatabaseName[db] => other = db
      BY <1>0, MatchingDatabases DEF CredentialsUnique, SharesServerIdentity
    <3>2. HasKeysOf(other, request[w].db)
      BY DEF Matching
    <3>3. QED
      BY <2>2, <3>1, <3>2, PendingOf DEF Joins
  <2>5. QED
    BY <1>1, <2>1, <2>2, <2>3, <2>4 DEF Joins
<1>8. CASE Decide(w)
  <2>1. UNCHANGED <<manager, late>>
    BY <1>0, <1>8, DecideEffect
  <2>2. \/ \E code \in {"TargetStatusProcessing", "TargetStatusNotSuccess", "Fail"} :
             Becomes(w, "answer", request[w], None, call[w], Response(code, None))
        \/ Becomes(w, "call", request[w], None, ChangeCall(w), answer[w])
    BY <1>0, <1>8, DecideEffect
  <2>3. ChangeCall(w).op # "add"
    BY DEF ChangeCall
  <2>4. QED
    BY <1>1, <1>2, <2>1, <2>2, <2>3 DEF Joins
<1>9. CASE Apply(w)
  <2>1. /\ pc[w] = "call" /\ Perform(call[w]) /\ issued' = issued /\ UNCHANGED late
        /\ call[w] \in Call
        /\ Becomes(w, "answer", request[w], seen[w], None, Acknowledged(w))
    BY <1>0, <1>9, ApplyEffect DEF WorkerTyped
  <2>2. PICK c \in Call : c = call[w]
    BY <2>1
  <2>3. PendingAdds(db)' \subseteq PendingAdds(db) \ {w}
    BY <1>0, <2>1, PendingOfWorker DEF Joins
  <2>4. c.op = "add" /\ c.database = DatabaseName[db] => w \in PendingAdds(db)
    BY <2>1, <2>2, PendingOf DEF Joins
  <2>5. QED
    BY <1>0, <2>1, <2>2, <2>3, <2>4, PerformedQuota
<1>10. CASE Timeout(w)
  <2>1. PICK line \in Lines : late[line] = None /\ late' = [late EXCEPT ![line] = call[w]]
    BY <1>0, <1>10, TimeoutEffect
  <2>2. /\ pc[w] = "call" /\ UNCHANGED manager
        /\ Becomes(w, "answer", request[w], seen[w], None, Response("ServerError", None))
    BY <1>0, <1>10, TimeoutEffect
  <2>3. /\ pc'[w] = "answer"
        /\ \A v \in Workers \ {w} :
              pc'[v] = pc[v] /\ request'[v] = request[v] /\ call'[v] = call[v]
    BY <1>0, <2>2, BecomesFacts
  <2>4. late'[line] = call[w] /\ \A other \in Lines \ {line} : late'[other] = late[other]
    BY <1>0, <2>1 DEF Shapes
  <2>5. w \notin PendingAdds(db) => PendingAdds(db)' \subseteq PendingAdds(db)
    BY <1>0, <2>2, <2>3, <2>4 DEF PendingAdds, HasKeysOf
  <2>6. w \in PendingAdds(db) => PendingAdds(db)' \subseteq (PendingAdds(db) \ {w}) \cup {line}
    BY <1>0, <2>2, <2>3, <2>4, WorkersAssumption DEF PendingAdds, HasKeysOf
  <2>7. IsFiniteSet(PendingAdds(db))
    BY OfThreads DEF PendingAdds
  <2>8. Cardinality(PendingAdds(db)') <= Cardinality(PendingAdds(db))
    BY <2>5, <2>6, <2>7, NoMore, OneForAnother
  <2>9. Cardinality(Stored(db)') <= Cardinality(Stored(db))
    BY <1>0, <2>2, FiniteStored, NoMore DEF Stored, manager
  <2>10. QED
    BY <2>8, <2>9 DEF QuotaStep
<1>11. CASE Answer(w)
  BY <1>0, <1>2, <1>11, AnswerEffect
<1>12. QED
  BY <1>3, <1>4, <1>5, <1>6, <1>7, <1>8, <1>9, <1>10, <1>11, WorkerCases

LEMMA QuotaOfSteps ==
    ASSUME ServiceTyped, FiniteTargets, [ServiceNext]_service_vars,
           NEW db \in CloudDatabases, db \in cloud_databases'
    PROVE  QuotaStep(db)
<1>0. Shapes /\ TypeOK /\ CredentialsUnique
  BY DEF ServiceTyped, Managed
\* Every other step leaves the workers alone.
<1>1. ASSUME db \in cloud_databases, targets'[db] \subseteq targets[db],
             UNCHANGED work, \A line \in Lines : late'[line] \in {late[line], None}
      PROVE  QuotaStep(db)
  <2>1. PendingAdds(db)' \subseteq PendingAdds(db)
    BY <1>1 DEF PendingAdds, work, HasKeysOf
  <2>2. QED
    BY <1>0, <1>1, <2>1, QuietQuota
<1>2. CASE \E w \in Workers : WorkerAction(w)
  <2>1. PICK w \in Workers : WorkerAction(w)
    BY <1>2
  <2>2. cloud_databases' = cloud_databases
    <3>1. CASE Apply(w)
      <4>1. Perform(call[w]) /\ issued' = issued /\ call[w] \in Call
        BY <1>0, <2>1, <3>1, ApplyEffect DEF ServiceTyped, WorkerTyped
      <4>2. QED
        BY <1>0, <4>1, PerformCases DEF Placed, ReplacedFor, Replaced, manager, databases
    <3>2. CASE ~Apply(w)
      <4>1. UNCHANGED manager
        BY <1>0, <2>1, <3>2, WorkerCases, ReceiveEffect, ValidateEffect, FailureEffect,
           FetchTargetEffect, FetchForAddEffect, DecideEffect, TimeoutEffect, AnswerEffect
      <4>2. QED
        BY <4>1 DEF manager, databases
    <3>3. QED
      BY <3>1, <3>2
  <2>3. QED
    BY <2>1, <2>2, QuotaOfWorkers
<1>3. CASE \E line \in Lines : ApplyLate(line)
  <2>1. PICK line \in Lines : ApplyLate(line)
    BY <1>3
  <2>2. /\ late[line] # None /\ Perform(late[line]) /\ issued' = issued
        /\ late' = [late EXCEPT ![line] = None] /\ UNCHANGED work
    BY <2>1 DEF ApplyLate
  <2>3. PICK c \in Call : c = late[line]
    BY <1>0, <2>2 DEF Shapes
  <2>4. cloud_databases' = cloud_databases
    BY <1>0, <2>2, <2>3, PerformCases DEF Placed, ReplacedFor, Replaced, manager, databases
  <2>5. PendingAdds(db)' \subseteq PendingAdds(db) \ {line}
    BY <1>0, <2>2, WorkersAssumption DEF PendingAdds, HasKeysOf, Shapes, work
  <2>6. c.op = "add" /\ c.database = DatabaseName[db] => line \in PendingAdds(db)
    BY <2>2, <2>3 DEF PendingAdds
  <2>7. QED
    BY <1>0, <2>2, <2>3, <2>4, <2>5, <2>6, PerformedQuota
<1>4. CASE \E line \in Lines : DropLate(line)
  BY <1>0, <1>1, <1>4 DEF DropLate, Shapes, manager, databases
<1>5. ASSUME NEW other \in CloudDatabases, AddDatabase(other) PROVE QuotaStep(db)
  <2>1. CASE other = db
    <3>1. Stored(db)' = {}
      BY <1>0, <1>5, <2>1 DEF AddDatabase, CreateCloudDatabase, Stored, NotDeleted, TypeOK
    <3>2. 0 <= LastAdmitting(db)
      BY WorkersAssumption DEF LastAdmitting
    <3>3. QED
      BY <3>1, <3>2, FS_EmptySet DEF QuotaStep
  <2>2. CASE other # db
    BY <1>0, <1>1, <1>5, <2>2 DEF AddDatabase, CreateCloudDatabase, TypeOK
  <2>3. QED
    BY <2>1, <2>2
<1>6. ASSUME NEW other \in CloudDatabases, RemoveDatabase(other) PROVE QuotaStep(db)
  BY <1>0, <1>1, <1>6 DEF RemoveDatabase, DeleteCloudDatabase, TypeOK
<1>7. CASE TimePasses
  BY <1>1, <1>7 DEF TimePasses, Tick, databases
<1>8. CASE UNCHANGED service_vars
  BY <1>1, <1>8 DEF service_vars, manager, databases
<1>9. QED
  BY <1>2, <1>3, <1>4, <1>5, <1>6, <1>7, <1>8, ServiceCases

LEMMA InitQuotaKept == ServiceInit => QuotaKept
<1> SUFFICES ASSUME ServiceInit PROVE QuotaKept
  OBVIOUS
<1>1. cloud_databases = {} /\ \A db \in CloudDatabases : targets[db] = {}
  BY DEF ServiceInit, Init
<1>2. QED
  BY <1>1, FS_EmptySet DEF QuotaKept, FiniteTargets, QuotaOvershootBounded

\* However many threads serve a database, and whatever calls were given up: the
\* quota check of validate_target_quota (_services_validators/), made on an
\* older copy of the targets, lets no database grow beyond its quota by more
\* than the adds that were checked and not yet stored.
THEOREM QuotaStaysBounded == ServiceSpec => []QuotaOvershootBounded
<1>1. ServiceTyped /\ QuotaKept /\ [ServiceNext]_service_vars => QuotaKept'
  <2> SUFFICES ASSUME ServiceTyped, QuotaKept, [ServiceNext]_service_vars
               PROVE  QuotaKept'
    OBVIOUS
  <2>1. FiniteTargets' /\ FiniteTargets
    BY FiniteTargetsStay DEF QuotaKept
  <2>2. cloud_databases' \subseteq CloudDatabases
    BY ServiceTypedPreserved DEF ServiceTyped, Managed, TypeOK
  <2>3. QED
    BY <2>1, <2>2, QuotaOfSteps, QuotaFromStep DEF QuotaKept, QuotaOvershootBounded
<1>2. QuotaKept => QuotaOvershootBounded
  BY DEF QuotaKept
<1>3. QED
  BY <1>1, <1>2, InitServiceTyped, ServiceTypedPreserved, InitQuotaKept, PTL DEF ServiceSpec
=============================================================================
