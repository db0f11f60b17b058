------------------------------ MODULE VwsReads ------------------------------
(***************************************************************************)
(* The requests of the VWS and VWQ apps which change nothing: lists,       *)
(* records, summaries and duplicates of targets, queries, and instances of *)
(* VuMark targets.  Each is answered from copies of the databases which    *)
(* the target manager makes at one moment, while the statuses of their     *)
(* targets go on with time: they are computed each time they are asked     *)
(* for.  The readers do not notice one another, so there is one of them.   *)
(***************************************************************************)
EXTENDS TargetManager, Sequences

CONSTANTS
    Rating,      \* what the target rater gives for each image
    IdRank,      \* the order of target ids
    MaxResults,  \* the values of max_num_results
    Workloads,   \* what clients do: the databases they create, the images and
                 \* changes of targets, and the operations of the reader
    None

ASSUME ReadsAssumption ==
    /\ Rating \in [Images -> Nat]
    /\ \A id \in TargetIds : IdRank[id] \in Nat
    /\ \A id, other \in TargetIds : IdRank[id] = IdRank[other] => id = other
    /\ MaxResults \subseteq Nat \ {0}
    /\ \A work \in Workloads : work.images \subseteq Images /\ work.changes \subseteq Change

VARIABLES
    workload,  \* what the clients of this behaviour do
    request,   \* the reader's request, None between requests
    place,     \* where it is in its handler
    copy,      \* the targets of the database as they were copied
    fetched,   \* when that was
    look,      \* what it has seen of the copy so far
    answer,
    gone,      \* history: the targets deleted when the request was sent
    stays      \* history: the database, and the target, were there since then

reader == <<request, place, copy, fetched, look, answer>>
reads_vars == <<vars, workload, reader, gone, stays>>

\* A record is what GET of a target and the summary of a target answer with.
Requests ==
    [op : {"list", "summary"}, db : CloudDatabases]
    \cup [op : {"record", "duplicates"}, db : CloudDatabases, target_id : TargetIds]
    \cup [op : {"query"}, db : CloudDatabases, image : Images, most : MaxResults]
    \cup [op : {"instance"}, db : CloudDatabases \cup VuMarkDatabases,
          target_id : TargetIds]

ASSUME NoneAssumption == None \notin Requests

OfTarget(req) == req.op \in {"record", "duplicates", "instance"}

-----------------------------------------------------------------------------
\* tracking_rating is computed when the target is copied, and looked at again
\* with the clock of the reader.
Unrated(target, now) == now - target.upload_date <= ProcessingTime \div 2

Copied(target) ==
    [target |-> target,
     rating |-> IF Unrated(target, clock) THEN -1 ELSE Rating[target.image_value]]

TrackingRating(copied) ==
    IF Unrated(copied.target, clock) THEN -1 ELSE copied.rating

StatusOf(copied) == Status(copied.target, clock)

NotDeletedCopies == {c \in copy : c.target.delete_date = NoDate}

\* sorted_targets: by upload date and then by target id.
Before(c, d) ==
    \/ c.target.upload_date < d.target.upload_date
    \/ /\ c.target.upload_date = d.target.upload_date
       /\ IdRank[c.target.target_id] < IdRank[d.target.target_id]

Sorted(copies) ==
    CHOOSE seq \in [1 .. Cardinality(copies) -> copies] :
       \A i, j \in DOMAIN seq : i < j => Before(seq[i], seq[j])

IdsOf(copies) == [i \in DOMAIN copies |-> copies[i].target.target_id]

\* The views of CloudDatabase, in the order in which a summary counts them.
InView(view, c) ==
    \/ view = "active" /\ StatusOf(c) = "success" /\ c.target.active_flag
    \/ view = "inactive" /\ StatusOf(c) = "success" /\ ~c.target.active_flag
    \/ view \in {"failed", "processing"} /\ StatusOf(c) = view

\* Mutant: targets being processed are counted first.
ProcessingFirst == <<"processing", "active", "inactive", "failed">>

Views == <<"active", "inactive", "failed", "processing">>

-----------------------------------------------------------------------------
\* Databases whose keys are those of the request: server keys of both kinds of
\* database, or client keys, which only cloud databases have.
ServerKeysMatch(db, other) ==
    /\ ServerAccessKey[db] = ServerAccessKey[other]
    /\ ServerSecretKey[db] = ServerSecretKey[other]

ClientKeysMatch(db, other) ==
    /\ ClientAccessKey[db] = ClientAccessKey[other]
    /\ ClientSecretKey[db] = ClientSecretKey[other]

Matching(dbs) == {db \in dbs : IF request.op = "query"
                               THEN ClientKeysMatch(db, request.db)
                               ELSE ServerKeysMatch(db, request.db)}

Reply(code, body) ==
    /\ place' = "answer"
    /\ answer' = [code |-> code, body |-> body]

\* The target which a request is for is there and not deleted.
Live(req) ==
    IF req.db \in VuMarkDatabases
    THEN req.db \in vumark_databases /\ req.target_id \in vumark_targets[req.db]
    ELSE /\ req.db \in cloud_databases
         /\ OfTarget(req) => WithId(NotDeleted(targets[req.db]), req.target_id) # {}

Ask ==
    /\ request = None
    /\ \E req \in Requests :
         /\ req.op \in workload.reads
         /\ req.db \in workload.databases
         /\ OfTarget(req) => req.target_id \in issued
         /\ request' = req
         /\ gone' = IF req.db \in CloudDatabases
                    THEN {t.target_id : t \in {t \in targets[req.db] :
                                                 t.delete_date # NoDate}}
                    ELSE {}
         /\ stays' = Live(req)
         /\ place' = IF req.op \in {"query", "instance"} THEN "fetch" ELSE "validate"
    /\ UNCHANGED <<vars, workload, copy, fetched, look, answer>>

\* The validators of the VWS app have a copy of their own.
Validate ==
    /\ place = "validate"
    /\ IF Matching(cloud_databases) = {} THEN Reply("AuthenticationFailure", None)
       ELSE \E db \in Matching(cloud_databases) :
              IF /\ OfTarget(request)
                 /\ WithId(NotDeleted(targets[db]), request.target_id) = {}
              THEN Reply("UnknownTarget", None)
              ELSE place' = "fetch" /\ UNCHANGED answer
    /\ UNCHANGED <<vars, workload, request, copy, fetched, look, gone, stays>>

\* What the handler keeps in mind while it looks at the copies.
Start(copies) ==
    CASE request.op = "summary" ->
            [view |-> 1, left |-> {c \in copies : c.target.delete_date = NoDate},
             counts |-> [i \in DOMAIN Views |-> 0]]
      [] request.op = "duplicates" ->
            [at |-> "own", found |-> <<>>,
             left |-> Sorted({c \in copies : \E own \in copies :
                        /\ own.target.target_id = request.target_id
                        /\ c # own
                        /\ c.target.image_value = own.target.image_value})]
      [] request.op = "query" ->
            [at |-> "status", found |-> <<>>,
             left |-> Sorted({c \in copies : c.target.image_value = request.image})]
      [] OTHER -> None

\* The copy of the handler.  A database which has gone is an uncaught
\* ValueError in the VWS app, and so is a target; VWQ validates on this copy.
Fetch ==
    /\ place = "fetch" /\ request.op # "instance"
    /\ IF Matching(cloud_databases) = {}
       THEN /\ Reply(IF request.op = "query" THEN "AuthenticationFailure"
                     ELSE "ServerError", None)
            /\ UNCHANGED <<copy, fetched, look>>
       ELSE \E db \in Matching(cloud_databases) :
              IF OfTarget(request) /\ WithId(targets[db], request.target_id) = {}
              THEN Reply("ServerError", None) /\ UNCHANGED <<copy, fetched, look>>
              ELSE /\ copy' = {Copied(t) : t \in targets[db]}
                   /\ fetched' = clock
                   /\ look' = Start(copy')
                   /\ place' = "look"
                   /\ UNCHANGED answer
    /\ UNCHANGED <<vars, workload, request, gone, stays>>

-----------------------------------------------------------------------------
\* The target list looks at no status.
List ==
    /\ request.op = "list"
    /\ Reply("Success", IdsOf(Sorted(NotDeletedCopies)))
    /\ UNCHANGED look

\* The record of a target: its rating, and then its status.
Record ==
    /\ request.op = "record"
    /\ \E c \in copy :
         /\ c.target.target_id = request.target_id
         /\ IF look = None
            THEN look' = TrackingRating(c) /\ UNCHANGED <<place, answer>>
            ELSE /\ Reply("Success", [rating |-> look, status |-> StatusOf(c),
                                      target |-> c.target])
                 /\ UNCHANGED look

\* The counts of a summary: each target in turn for each view.
CountOne ==
    /\ request.op = "summary" /\ look.left # {}
    /\ \E c \in look.left :
         look' = [look EXCEPT
                    !.left = @ \ {c},
                    !.counts[look.view] = @ + (IF InView(Views[look.view], c) THEN 1 ELSE 0)]
    /\ UNCHANGED <<place, answer>>

NextView ==
    /\ request.op = "summary" /\ look.left = {}
    /\ IF look.view = Len(Views)
       THEN Reply("Success", look.counts) /\ UNCHANGED look
       ELSE /\ look' = [look EXCEPT !.view = @ + 1, !.left = NotDeletedCopies]
            /\ UNCHANGED <<place, answer>>

\* The status of the target itself, and that of the other twice, which have to
\* be other than failed and then other than processing.
Own == CHOOSE c \in copy : c.target.target_id = request.target_id

Dropped == [look EXCEPT !.left = Tail(@), !.at = "own"]

\* Mutant: a target which has failed is not left out.
CompareFailedToo ==
    /\ request.op = "duplicates" /\ look.left # <<>>
    /\ LET other == Head(look.left)
       IN  look' = IF look.at = "own" THEN [look EXCEPT !.at = "again"]
                   ELSE IF StatusOf(other) = "processing" \/ ~other.target.active_flag
                   THEN Dropped
                   ELSE [Dropped EXCEPT !.found = Append(@, other)]
    /\ UNCHANGED <<place, answer>>

Compare ==
    /\ request.op = "duplicates" /\ look.left # <<>>
    /\ LET other == Head(look.left)
       IN  \/ /\ look.at = "own"
              /\ look' = IF StatusOf(Own) = "failed" THEN Dropped
                         ELSE [look EXCEPT !.at = "other"]
           \/ /\ look.at = "other"
              /\ look' = IF StatusOf(other) = "failed" THEN Dropped
                         ELSE [look EXCEPT !.at = "again"]
           \/ /\ look.at = "again"
              /\ look' = IF StatusOf(other) = "processing" \/ ~other.target.active_flag
                         THEN Dropped
                         ELSE [Dropped EXCEPT !.found = Append(@, other)]
    /\ UNCHANGED <<place, answer>>

Duplicates ==
    /\ request.op = "duplicates" /\ look.left = <<>>
    /\ Reply("Success", IdsOf(look.found))
    /\ UNCHANGED look

\* Mutant: deleted targets are matched.
ShownDeletedToo(c) == c.target.active_flag /\ StatusOf(c) = "success"

Shown(c) ==
    /\ c.target.active_flag
    /\ c.target.delete_date = NoDate
    /\ StatusOf(c) = "success"

\* The matches of a query: first all statuses and then all ratings.
Match ==
    /\ request.op = "query" /\ look.left # <<>>
    /\ LET c == Head(look.left)
           kept == IF look.at = "status" THEN Shown(c) ELSE TrackingRating(c) > 0
       IN  look' = [look EXCEPT !.left = Tail(@),
                                !.found = IF kept THEN Append(@, c) ELSE @]
    /\ UNCHANGED <<place, answer>>

NextMatches ==
    /\ request.op = "query" /\ look.left = <<>> /\ look.at = "status"
    /\ look' = [at |-> "rating", left |-> look.found, found |-> <<>>]
    /\ UNCHANGED <<place, answer>>

\* Mutant: the last results are kept instead of the first.
LastOnes(results) ==
    IF Len(results) <= request.most THEN results
    ELSE SubSeq(results, Len(results) - request.most + 1, Len(results))

\* max_num_results cuts what has been filtered and sorted.
FirstOnes(results) ==
    IF Len(results) <= request.most THEN results ELSE SubSeq(results, 1, request.most)

Results ==
    /\ request.op = "query" /\ look.left = <<>> /\ look.at = "rating"
    /\ Reply("Success", IdsOf(FirstOnes(look.found)))
    /\ UNCHANGED look

Look ==
    /\ place = "look"
    /\ \/ List \/ Record \/ CountOne \/ NextView \/ Compare \/ Duplicates
       \/ Match \/ NextMatches \/ Results
    /\ UNCHANGED <<vars, workload, request, copy, fetched, gone, stays>>

-----------------------------------------------------------------------------
\* An instance needs two copies, of the cloud databases and then of the VuMark
\* databases, and both the validators and the handler work on them together.
FetchClouds ==
    /\ place = "fetch" /\ request.op = "instance"
    /\ copy' = {[db |-> db,
                 ids |-> {t.target_id : t \in NotDeleted(targets[db])}] :
                  db \in Matching(cloud_databases)}
    /\ fetched' = clock
    /\ place' = "fetch_vumarks"
    /\ UNCHANGED <<vars, workload, request, look, answer, gone, stays>>

\* The first database with the keys decides, and cloud databases come first.
\* A VuMark target is being processed for no time at all, or has been.
Instance ==
    LET vumarks == {[db |-> db, ids |-> vumark_targets[db]] :
                      db \in Matching(vumark_databases)}
        candidates == IF copy # {} THEN copy ELSE vumarks
    IN  /\ place = "fetch_vumarks"
        /\ IF candidates = {} THEN Reply("AuthenticationFailure", None)
           ELSE \E c \in candidates :
                  IF request.target_id \notin c.ids THEN Reply("UnknownTarget", None)
                  ELSE IF c.db \in CloudDatabases THEN Reply("InvalidTargetType", None)
                  ELSE \/ Reply("Success", request.target_id)
                       \/ Reply("TargetStatusNotSuccess", None)
        /\ UNCHANGED <<vars, workload, request, copy, fetched, look, gone, stays>>

\* Mutant: the copy of the databases is kept for the next request.
AnswerKeepingCopy ==
    /\ place = "answer"
    /\ request' = None /\ place' = "idle"
    /\ look' = None /\ answer' = None
    /\ gone' = {} /\ stays' = FALSE
    /\ UNCHANGED <<vars, workload, copy, fetched>>

\* Every request makes copies of its own.
Answer ==
    /\ place = "answer"
    /\ request' = None /\ place' = "idle"
    /\ copy' = {} /\ fetched' = 0
    /\ look' = None /\ answer' = None
    /\ gone' = {} /\ stays' = FALSE
    /\ UNCHANGED <<vars, workload>>

\* Meanwhile clients change databases and targets.
ClientsChange ==
    /\ \/ \E db \in CloudDatabases \cap workload.databases :
             CreateCloudDatabase(db) \/ DeleteCloudDatabase(db)
       \/ \E db \in VuMarkDatabases \cap workload.databases :
             CreateVuMarkDatabase(db) \/ DeleteVuMarkDatabase(db)
       \/ \E db \in CloudDatabases \cap workload.databases, id \in TargetIds :
             \/ \E name \in Names, image \in workload.images, uploaded \in 0 .. clock :
                \E modified \in 0 .. uploaded :
                   /\ CreateTarget(DatabaseName[db], id, name, image, modified, uploaded)
                   /\ Issue(id)
             \/ DeleteTarget(DatabaseName[db], id)
             \/ \E change \in workload.changes :
                   UpdateTarget(DatabaseName[db], id, change)
       \/ \E db \in VuMarkDatabases \cap workload.databases, id \in TargetIds :
             CreateVuMarkTarget(DatabaseName[db], id) /\ Issue(id)
    /\ UNCHANGED <<workload, reader, gone>>
    /\ stays' = (stays /\ Live(request)')

TimePasses == Tick /\ UNCHANGED <<workload, reader, gone, stays>>

ReadsInit ==
    /\ Init
    /\ workload \in Workloads
    /\ request = None /\ place = "idle"
    /\ copy = {} /\ fetched = 0
    /\ look = None /\ answer = None
    /\ gone = {} /\ stays = FALSE

Read == Ask \/ Validate \/ Fetch \/ Look \/ FetchClouds \/ Instance \/ Answer

ReadsNext == ClientsChange \/ TimePasses \/ Read

ReadsSpec == ReadsInit /\ [][ReadsNext]_reads_vars
-----------------------------------------------------------------------------
CopiedTarget == [target : ImageTarget, rating : Nat \cup {-1}]

\* Types, and what the reader holds at each place of its handler.
ReadsTypeOK ==
    /\ workload \in Workloads
    /\ request \in Requests \cup {None}
    /\ place \in {"idle", "validate", "fetch", "fetch_vumarks", "look", "answer"}
    /\ place = "idle" <=> request = None
    /\ place # "answer" => answer = None
    /\ fetched \in 0 .. clock
    /\ place \in {"idle", "validate", "fetch"} => copy = {}
    /\ place = "look" => \A c \in copy : /\ c.target \in ImageTarget
                                        /\ c.rating \in Nat \cup {-1}
    /\ gone \subseteq issued /\ stays \in BOOLEAN

Answered(op) ==
    place = "answer" /\ request.op = op /\ answer.code = "Success"

Elements(seq) == {seq[i] : i \in DOMAIN seq}

\* Its counts are made one after another, and a target may be done meanwhile;
\* still a summary counts no target twice.
CountedOnce ==
    Answered("summary") =>
       answer.body[1] + answer.body[2] + answer.body[3] + answer.body[4]
          <= Cardinality(NotDeletedCopies)

\* "In the mock, targets are not matched after they have been deleted", nor are
\* they listed or reported: no target that was deleted before the request was
\* sent is in its answer.  Lists of duplicates do have deleted targets.
DeletedNotServed ==
    /\ \A op \in {"list", "query"} :
          Answered(op) => Elements(answer.body) \cap gone = {}
    /\ Answered("record") => request.target_id \notin gone

Qualifies(c, now) ==
    /\ c.target.image_value = request.image
    /\ c.target.active_flag /\ c.target.delete_date = NoDate
    /\ Status(c.target, now) = "success" /\ c.rating > 0

\* Of the targets which qualified when the databases were copied, a query
\* returns the first by upload date, whatever is done while it looks; one that
\* is done only now may be among them; no other is.
FirstMatchesReturned ==
    Answered("query") =>
       LET results == {c \in copy : c.target.target_id \in Elements(answer.body)}
           left_out == copy \ results
       IN  /\ Len(answer.body) = Cardinality(results)
           /\ Len(answer.body) <= request.most
           /\ \A c \in results : Qualifies(c, clock)
           /\ \A c \in left_out : Qualifies(c, fetched) =>
                 /\ Len(answer.body) = request.most
                 /\ \A d \in results : Before(d, c)

\* "Targets are not duplicates if the status is not 'success'", up to the
\* moment of looking: none had failed when the databases were copied, and none
\* is still being processed.  (One that fails between the two looks is listed.)
DuplicatesProcessed ==
    Answered("duplicates") =>
       \A c \in {c \in copy : c.target.target_id \in Elements(answer.body)} :
          /\ Status(c.target, fetched) # "failed" /\ StatusOf(c) # "processing"
          /\ Status(Own.target, fetched) # "failed"
          /\ c.target.image_value = Own.target.image_value /\ c.target.active_flag

\* A request to a database, and on a target, which stay there meanwhile is
\* served: no other database, of either kind, answers in its place, although
\* keys can pass from one database to another between the copies.
StableIsServed ==
    place = "answer" /\ stays =>
       answer.code \in
          IF request.op = "instance" /\ request.db \in CloudDatabases
          THEN {"InvalidTargetType"} ELSE {"Success", "TargetStatusNotSuccess"}
=============================================================================
