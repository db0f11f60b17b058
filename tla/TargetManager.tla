--------------------------- MODULE TargetManager ---------------------------
(***************************************************************************)
(* The target manager service: the TargetManager class and the handlers of *)
(* _flask_server/target_manager.py that change databases and targets.      *)
(* Every handler holds TARGET_MANAGER.lock around its lookup and its       *)
(* change, so each is one step, whichever thread runs it.  A handler whose *)
(* lookup fails answers 404, 409 or 500 and changes nothing: its action is *)
(* then not enabled.                                                       *)
(***************************************************************************)
EXTENDS Targets

CONSTANTS
    CloudDatabases, VuMarkDatabases,  \* the databases clients may create
    DatabaseName, ServerAccessKey, ServerSecretKey,  \* of every database
    ClientAccessKey, ClientSecretKey,                \* of cloud databases
    MaxClock                                         \* bound on the clock

ASSUME DatabasesAssumption ==
    /\ CloudDatabases \cap VuMarkDatabases = {}
    /\ MaxClock \in Nat

VARIABLES
    clock,
    cloud_databases,   \* self._cloud_databases
    vumark_databases,  \* self._vumark_databases
    targets,           \* database.targets, of every cloud database
    vumark_targets,    \* database.vumark_targets: the ids of its targets
    issued             \* history: the target ids the services have generated

databases == <<cloud_databases, vumark_databases>>
vars == <<clock, databases, targets, vumark_targets, issued>>

-----------------------------------------------------------------------------
\* add_cloud_database and add_vumark_database raise ValueError, answered with
\* 409, when a key or the name is taken: server keys and names among the
\* databases of both kinds, client keys among the cloud databases.
SharesServerIdentity(db, other) ==
    \/ ServerAccessKey[db] = ServerAccessKey[other]
    \/ ServerSecretKey[db] = ServerSecretKey[other]
    \/ DatabaseName[db] = DatabaseName[other]

SharesClientKey(db, other) ==
    \/ ClientAccessKey[db] = ClientAccessKey[other]
    \/ ClientSecretKey[db] = ClientSecretKey[other]

CloudConflict(db) ==
    \/ \E other \in cloud_databases \cup vumark_databases :
          SharesServerIdentity(db, other)
    \/ \E other \in cloud_databases : SharesClientKey(db, other)

\* Mutant: server credentials compared among databases of one kind only.
ConflictAmongVuMarks(db) ==
    \E other \in vumark_databases : SharesServerIdentity(db, other)

VuMarkConflict(db) ==
    \E other \in cloud_databases \cup vumark_databases :
       SharesServerIdentity(db, other)

\* (database,) = ... for a name: exactly one match, or ValueError.
Named(dbs, name) == {db \in dbs : DatabaseName[db] = name}

-----------------------------------------------------------------------------
CreateCloudDatabase(db) ==
    /\ ~CloudConflict(db)
    /\ cloud_databases' = cloud_databases \cup {db}
    /\ targets' = [targets EXCEPT ![db] = {}]
    /\ UNCHANGED <<clock, vumark_databases, vumark_targets, issued>>

CreateVuMarkDatabase(db) ==
    /\ ~VuMarkConflict(db)
    /\ vumark_databases' = vumark_databases \cup {db}
    /\ vumark_targets' = [vumark_targets EXCEPT ![db] = {}]
    /\ UNCHANGED <<clock, cloud_databases, targets, issued>>

\* Mutant: the targets outlive their database.
DeleteCloudDatabaseOnly(db) ==
    /\ Named(cloud_databases, DatabaseName[db]) = {db}
    /\ cloud_databases' = cloud_databases \ {db}
    /\ UNCHANGED <<clock, vumark_databases, targets, vumark_targets, issued>>

\* Deleting drops the database with all it contains.
DeleteCloudDatabase(db) ==
    /\ Named(cloud_databases, DatabaseName[db]) = {db}
    /\ cloud_databases' = cloud_databases \ {db}
    /\ targets' = [targets EXCEPT ![db] = {}]
    /\ UNCHANGED <<clock, vumark_databases, vumark_targets, issued>>

DeleteVuMarkDatabase(db) ==
    /\ Named(vumark_databases, DatabaseName[db]) = {db}
    /\ vumark_databases' = vumark_databases \ {db}
    /\ vumark_targets' = [vumark_targets EXCEPT ![db] = {}]
    /\ UNCHANGED <<clock, cloud_databases, targets, issued>>

\* The id comes with the request.  Both dates are the target manager's own, of
\* two moments before the handler got the lock.
CreateTarget(name, id, target_name, image, modified, uploaded) ==
    \E db \in CloudDatabases :
        /\ Named(cloud_databases, name) = {db}
        /\ targets' = [targets EXCEPT ![db] =
             @ \cup {NewTarget(id, target_name, image, modified, uploaded)}]
        /\ UNCHANGED <<clock, databases, vumark_targets>>

\* Finds a target that is already deleted too, and then moves its delete_date.
DeleteTarget(name, id) ==
    \E db \in CloudDatabases :
        /\ Named(cloud_databases, name) = {db}
        /\ \E target \in targets[db] :
             /\ WithId(targets[db], id) = {target}
             /\ targets' = [targets EXCEPT ![db] =
                  Replace(@, target, [target EXCEPT !.delete_date = clock])]
        /\ UNCHANGED <<clock, databases, vumark_targets, issued>>

\* Mutants: the date of an update is read before the handler gets the lock, as
\* the dates of a new target are, and the updated target is built anew, without
\* the delete date of the old one.
UpdateTargetDatedEarly(name, id, change) ==
    \E db \in CloudDatabases, modified \in 0 .. clock :
        /\ Named(cloud_databases, name) = {db}
        /\ \E target \in WithId(targets[db], id) :
             targets' = [targets EXCEPT ![db] = Replace(@, target,
               [target EXCEPT !.last_modified_date = modified])]
        /\ UNCHANGED <<clock, databases, vumark_targets, issued>>

UpdateTargetReviving(name, id, change) ==
    \E db \in CloudDatabases :
        /\ Named(cloud_databases, name) = {db}
        /\ \E target \in WithId(targets[db], id) :
             targets' = [targets EXCEPT ![db] = Replace(@, target,
               [target EXCEPT !.delete_date = NoDate, !.last_modified_date = clock])]
        /\ UNCHANGED <<clock, databases, vumark_targets, issued>>

\* Fields the body leaves out, and delete_date, keep their values.  A deleted
\* target is changed like any other, and the image is processed again.
UpdateTarget(name, id, change) ==
    \E db \in CloudDatabases :
        /\ Named(cloud_databases, name) = {db}
        /\ \E target \in targets[db] :
             /\ WithId(targets[db], id) = {target}
             /\ targets' = [targets EXCEPT ![db] = Replace(@, target,
                  [target EXCEPT
                     !.name = Given(change.name, target.name),
                     !.image_value = Given(change.image_value, target.image_value),
                     !.active_flag = Given(change.active_flag, target.active_flag),
                     !.last_modified_date = clock])]
        /\ UNCHANGED <<clock, databases, vumark_targets, issued>>

CreateVuMarkTarget(name, id) ==
    \E db \in VuMarkDatabases :
        /\ Named(vumark_databases, name) = {db}
        /\ vumark_targets' = [vumark_targets EXCEPT ![db] = @ \cup {id}]
        /\ UNCHANGED <<clock, databases, targets>>

Tick ==
    /\ clock < MaxClock
    /\ clock' = clock + 1
    /\ UNCHANGED <<databases, targets, vumark_targets, issued>>

Init ==
    /\ clock = 0
    /\ cloud_databases = {}
    /\ vumark_databases = {}
    /\ targets = [db \in CloudDatabases |-> {}]
    /\ vumark_targets = [db \in VuMarkDatabases |-> {}]
    /\ issued = {}

\* A service generates a new id for every target it asks for (uuid4).
Issue(id) == id \notin issued /\ issued' = issued \cup {id}

Next ==
    \/ \E db \in CloudDatabases : CreateCloudDatabase(db) \/ DeleteCloudDatabase(db)
    \/ \E db \in VuMarkDatabases : CreateVuMarkDatabase(db) \/ DeleteVuMarkDatabase(db)
    \/ \E db \in CloudDatabases, id \in TargetIds :
          \/ \E name \in Names, image \in Images, uploaded \in 0 .. clock :
             \E modified \in 0 .. uploaded :
                /\ CreateTarget(DatabaseName[db], id, name, image, modified, uploaded)
                /\ Issue(id)
          \/ DeleteTarget(DatabaseName[db], id)
          \/ \E change \in Change : UpdateTarget(DatabaseName[db], id, change)
    \/ \E db \in VuMarkDatabases, id \in TargetIds :
          CreateVuMarkTarget(DatabaseName[db], id) /\ Issue(id)
    \/ Tick

Spec == Init /\ [][Next]_vars

-----------------------------------------------------------------------------
\* Types; a database which is not there holds no targets.
TypeOK ==
    /\ clock \in 0 .. MaxClock
    /\ cloud_databases \subseteq CloudDatabases
    /\ vumark_databases \subseteq VuMarkDatabases
    /\ targets \in [CloudDatabases -> SUBSET ImageTarget]
    /\ vumark_targets \in [VuMarkDatabases -> SUBSET TargetIds]
    /\ issued \subseteq TargetIds
    /\ \A db \in CloudDatabases \ cloud_databases : targets[db] = {}
    /\ \A db \in VuMarkDatabases \ vumark_databases : vumark_targets[db] = {}

\* No sequence of creations and deletions of both kinds of database lets two
\* databases share a key or a name, so the credentials of a request and the
\* name in a path always select at most one database.
CredentialsUnique ==
    /\ \A db, other \in cloud_databases \cup vumark_databases :
          db # other => ~SharesServerIdentity(db, other)
    /\ \A db, other \in cloud_databases :
          db # other => ~SharesClientKey(db, other)

\* get_target unpacks exactly one match: it cannot fail for an id that is
\* there, however often the target was replaced by a changed copy of itself.
TargetIdsUnique ==
    \A db, other \in CloudDatabases : \A t \in targets[db], u \in targets[other] :
       t.target_id = u.target_id => db = other /\ t = u

\* A new target may be last modified before its upload, but no later change of
\* it, nor its deletion, is dated before its upload; and in whatever order
\* updates and deletions arrive, the moment since which it is being processed,
\* and that of its deletion, never go back.
DatesNeverGoBack ==
    [][\A db \in cloud_databases \cap cloud_databases' :
          \A t \in targets[db], u \in targets'[db] : u.target_id = t.target_id =>
             /\ \/ u.last_modified_date = t.last_modified_date
                \/ /\ u.last_modified_date >= t.last_modified_date
                   /\ u.last_modified_date >= u.upload_date
             /\ u.delete_date # t.delete_date =>
                   /\ t.delete_date # NoDate => u.delete_date >= t.delete_date
                   /\ u.delete_date >= u.upload_date]_vars

\* While its database stays, a target keeps its identity and its upload date,
\* and one that was deleted stays deleted: an update which arrives after the
\* deletion may change it but never brings it back.
DeletionIsFinal ==
    [][\A db \in cloud_databases \cap cloud_databases' : \A t \in targets[db] :
          \E u \in targets'[db] :
             /\ u.target_id = t.target_id /\ u.upload_date = t.upload_date
             /\ t.delete_date # NoDate => u.delete_date # NoDate]_vars
=============================================================================
