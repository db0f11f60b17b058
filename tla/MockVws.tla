------------------------------ MODULE MockVws ------------------------------
(***************************************************************************)
(* MockVWS of decorators.py, the in-process mock, with the handlers of     *)
(* _requests_mock_server/mock_web_services_api.py that change targets.     *)
(* One instance is used by a program of one thread, as a context manager   *)
(* and as a decorator, nested in any way.  The targets of a database are   *)
(* kept on the database object, which the program owns, and the instance   *)
(* keeps which databases its current target manager holds.  Nothing in the *)
(* mock changes the targets of a VuMark database.                          *)
(***************************************************************************)
EXTENDS Targets, Sequences

CONSTANTS
    CloudDatabases, VuMarkDatabases,  \* the database objects of the program
    Conflicts,     \* pairs which share a key or a name (TargetManager)
    TargetQuota,   \* target_quota of each cloud database
    Changes,       \* the bodies of update requests
    Managers,      \* the identities of TargetManager objects
    Own,           \* the one which the instance was created with
    MaxDepth,      \* bound on the nesting of blocks and calls
    MaxAdded,      \* bound on how many databases are added
    MaxClock       \* bound on the clock

Databases == CloudDatabases \cup VuMarkDatabases

ASSUME MockAssumption ==
    /\ CloudDatabases \cap VuMarkDatabases = {}
    /\ Conflicts \subseteq Databases \X Databases
    /\ \A db \in Databases : <<db, db>> \in Conflicts
    /\ \A pair \in Conflicts : <<pair[2], pair[1]>> \in Conflicts
    /\ TargetQuota \in [CloudDatabases -> Nat]
    /\ Changes \subseteq Change
    /\ Own \in Managers
    /\ MaxDepth \in Nat /\ MaxAdded \in Nat /\ MaxClock \in Nat

VARIABLES
    clock,
    targets,          \* database.targets, of every cloud database object
    issued,           \* the target ids generated so far
    manager,          \* self._target_manager
    held,             \* the databases of each target manager
    cloud_added,      \* self._added_cloud_databases
    vumark_added,     \* self._added_vumark_databases
    contexts,         \* self._started, and of each call what it puts back;
                      \* added is history
    broken            \* history: the set-up of some call has failed

mock == <<manager, held, cloud_added, vumark_added, contexts, broken>>
vars == <<clock, targets, issued, mock>>

Elements(seq) == {seq[i] : i \in DOMAIN seq}
Last(seq) == seq[Len(seq)]
Front(seq) == SubSeq(seq, 1, Len(seq) - 1)

Depth == Len(contexts)
Added == Elements(cloud_added) \cup Elements(vumark_added)

\* add_cloud_database and add_vumark_database of TargetManager raise
\* ValueError for a database which conflicts with one that is there.
Fits(db, dbs) == \A other \in dbs : <<db, other>> \notin Conflicts

-----------------------------------------------------------------------------
\* A request reaches the innermost started mock, whose routes are bound to the
\* target manager that was current when it started.
Reachable == IF Depth = 0 THEN {} ELSE held[Last(contexts).bound] \cap CloudDatabases

\* Time may pass while the target is made.
AddTarget(db, id, name, image) ==
    /\ db \in Reachable
    /\ id \notin issued
    /\ AddRefusal(targets[db], TargetQuota[db], name) = ""
    /\ clock' \in clock .. MaxClock
    /\ targets' = [targets EXCEPT ![db] =
         @ \cup {NewTarget(id, name, image, clock, clock')}]
    /\ issued' = issued \cup {id}
    /\ UNCHANGED mock

DeleteTarget(db, id) ==
    /\ db \in Reachable
    /\ \E target \in NotDeleted(targets[db]) :
         /\ WithId(targets[db], id) = {target}
         /\ Status(target, clock) # "processing"
         /\ targets' = [targets EXCEPT ![db] =
              Replace(@, target, [target EXCEPT !.delete_date = clock])]
    /\ UNCHANGED <<clock, issued, mock>>

UpdateTarget(db, id, change) ==
    /\ db \in Reachable
    /\ \E target \in NotDeleted(targets[db]) :
         /\ WithId(targets[db], id) = {target}
         /\ NameRefusal(targets[db], id, change.name) = ""
         /\ Status(target, clock) = "success"
         /\ targets' = [targets EXCEPT ![db] = Replace(@, target,
              [target EXCEPT
                 !.name = Given(change.name, target.name),
                 !.image_value = Given(change.image_value, target.image_value),
                 !.active_flag = Given(change.active_flag, target.active_flag),
                 !.last_modified_date = clock])]
    /\ UNCHANGED <<clock, issued, mock>>

-----------------------------------------------------------------------------
\* The program adds a database to whatever target manager is current.
AddCloudDatabase(db) ==
    /\ Fits(db, held[manager])
    /\ Len(cloud_added) + Len(vumark_added) < MaxAdded
    /\ held' = [held EXCEPT ![manager] = @ \cup {db}]
    /\ cloud_added' = Append(cloud_added, db)
    /\ UNCHANGED <<clock, targets, issued, manager, vumark_added, contexts, broken>>

AddVuMarkDatabase(db) ==
    /\ Fits(db, held[manager])
    /\ Len(cloud_added) + Len(vumark_added) < MaxAdded
    /\ held' = [held EXCEPT ![manager] = @ \cup {db}]
    /\ vumark_added' = Append(vumark_added, db)
    /\ UNCHANGED <<clock, targets, issued, manager, cloud_added, contexts, broken>>

\* __enter__ of a block of the program.
Enter ==
    /\ Depth < MaxDepth
    /\ contexts' = Append(contexts, [kind |-> "block", bound |-> manager])
    /\ UNCHANGED <<clock, targets, issued, manager, held, cloud_added,
                   vumark_added, broken>>

Exit ==
    /\ Depth > 0 /\ Last(contexts).kind = "block"
    /\ contexts' = Front(contexts)
    /\ UNCHANGED <<clock, targets, issued, manager, held, cloud_added,
                   vumark_added, broken>>

-----------------------------------------------------------------------------
\* The target managers which something refers to; the others are gone.
Referenced(current, started) ==
    {Own, current} \cup {c.bound : c \in Elements(started)}
      \cup {c.original : c \in {c \in Elements(started) : c.kind = "call"}}

Kept(dbs, referenced) ==
    [m \in Managers |-> IF m \in referenced THEN dbs[m] ELSE {}]

\* Mutant: only cloud databases are loaded.
ToLoadOfOneKind(clouds, vumarks) == clouds

\* The databases loaded into a fresh target manager, in this order.
ToLoad(clouds, vumarks) == clouds \o vumarks

\* The first so many of a sequence, all of which fit together.
FitTogether(dbs, n) ==
    \A i \in 1 .. n : Fits(dbs[i], {dbs[j] : j \in 1 .. (i - 1)})

\* Mutant: only the databases of the current target manager are saved.
SnapshotsOfCurrent ==
    [db \in held[manager] \cap CloudDatabases |-> targets[db]]

Snapshots == [db \in Elements(cloud_added) |-> targets[db]]

\* A decorated function is called: the current targets are saved, a fresh
\* target manager replaces the current one and is loaded, and the mock starts.
Call ==
    LET dbs == ToLoad(cloud_added, vumark_added)
    IN  /\ Depth < MaxDepth
        /\ FitTogether(dbs, Len(dbs))
        /\ \E fresh \in Managers \ Referenced(manager, contexts) :
             /\ manager' = fresh
             /\ held' = [held EXCEPT ![fresh] = Elements(dbs)]
             /\ contexts' = Append(contexts,
                  [kind |-> "call", bound |-> fresh, original |-> manager,
                   snapshots |-> Snapshots, added |-> Added])
        /\ UNCHANGED <<clock, targets, issued, cloud_added, vumark_added, broken>>

\* Mutant: the conflict is noticed once the database is there.
LoadedWithNext(dbs, n) == {dbs[i] : i \in 1 .. (n + 1)}

\* What is there when loading stops.
LoadedUpTo(dbs, n) == {dbs[i] : i \in 1 .. n}

\* Loading stops at a database which conflicts with one loaded before: an
\* exception, raised before the try which puts the target manager back.
CallFails ==
    LET dbs == ToLoad(cloud_added, vumark_added)
    IN  /\ Depth < MaxDepth
        /\ \E n \in 0 .. (Len(dbs) - 1), fresh \in Managers \ Referenced(manager, contexts) :
             /\ FitTogether(dbs, n) /\ ~FitTogether(dbs, n + 1)
             /\ manager' = fresh
             /\ held' = Kept([held EXCEPT ![fresh] = LoadedUpTo(dbs, n)],
                             Referenced(fresh, contexts))
        /\ broken' = TRUE
        /\ UNCHANGED <<clock, targets, issued, cloud_added, vumark_added, contexts>>

\* What the databases hold once saved targets are put back.
PutBack(snapshots) ==
    [db \in CloudDatabases |->
       IF db \in DOMAIN snapshots THEN snapshots[db] ELSE targets[db]]

\* Mutant: a call ends with the instance's own target manager.
ReturnToOwn ==
    /\ Depth > 0 /\ Last(contexts).kind = "call"
    /\ manager' = Own
    /\ targets' = PutBack(Last(contexts).snapshots)
    /\ contexts' = Front(contexts)
    /\ held' = Kept(held, Referenced(manager', contexts'))
    /\ UNCHANGED <<clock, issued, cloud_added, vumark_added, broken>>

\* The function returns or raises.
Return ==
    /\ Depth > 0 /\ Last(contexts).kind = "call"
    /\ manager' = Last(contexts).original
    /\ targets' = PutBack(Last(contexts).snapshots)
    /\ contexts' = Front(contexts)
    /\ held' = Kept(held, Referenced(manager', contexts'))
    /\ UNCHANGED <<clock, issued, cloud_added, vumark_added, broken>>

Tick ==
    /\ clock < MaxClock
    /\ clock' = clock + 1
    /\ UNCHANGED <<targets, issued, mock>>

Init ==
    /\ clock = 0
    /\ targets = [db \in CloudDatabases |-> {}]
    /\ issued = {}
    /\ manager = Own
    /\ held = [m \in Managers |-> {}]
    /\ cloud_added = <<>> /\ vumark_added = <<>>
    /\ contexts = <<>>
    /\ broken = FALSE

Next ==
    \/ \E db \in CloudDatabases, id \in TargetIds :
          \/ \E name \in Names, image \in Images : AddTarget(db, id, name, image)
          \/ DeleteTarget(db, id)
          \/ \E change \in Changes : UpdateTarget(db, id, change)
    \/ \E db \in CloudDatabases : AddCloudDatabase(db)
    \/ \E db \in VuMarkDatabases : AddVuMarkDatabase(db)
    \/ Enter \/ Exit \/ Call \/ CallFails \/ Return
    \/ Tick

Spec == Init /\ [][Next]_vars

-----------------------------------------------------------------------------
\* Types; a target manager never holds two databases which conflict.
TypeOK ==
    /\ clock \in 0 .. MaxClock
    /\ targets \in [CloudDatabases -> SUBSET ImageTarget]
    /\ issued \subseteq TargetIds
    /\ manager \in Managers
    /\ held \in [Managers -> SUBSET Databases]
    /\ cloud_added \in Seq(CloudDatabases)
    /\ vumark_added \in Seq(VuMarkDatabases)
    /\ \A c \in Elements(contexts) :
          /\ c.kind \in {"block", "call"} /\ c.bound \in Managers
          /\ c.kind = "call" => /\ c.original \in Managers
                               /\ c.added \subseteq Databases
                               /\ \A db \in DOMAIN c.snapshots :
                                     c.snapshots[db] \subseteq ImageTarget
    /\ broken \in BOOLEAN
    /\ \A m \in Managers : \A db, other \in held[m] :
          db # other => <<db, other>> \notin Conflicts

\* Nested blocks and calls end with the state the enclosing one had: requests
\* are answered from the target manager to which databases are added, as long
\* as no call's set-up has failed.
RoutesFollowState ==
    ~broken => IF Depth > 0 THEN Last(contexts).bound = manager
               ELSE manager = Own

\* "The databases added to the instance are available inside the call", of
\* both kinds and through calls and blocks nested in it.
DatabasesAvailable ==
    ~broken => \A c \in Elements(contexts) :
                  c.kind = "call" => c.added \subseteq held[c.bound]

\* Unlike behind the Docker deployment, a database never holds more targets
\* than its quota, and never two of one name, also when targets are put back.
RulesKept ==
    \A db \in CloudDatabases :
       /\ Cardinality(NotDeleted(targets[db])) <= TargetQuota[db]
       /\ \A t, u \in NotDeleted(targets[db]) : t.name = u.name => t = u

\* Seen from the targets, blocks and calls are a stack of worlds: whatever
\* happens to target managers, a call leaves every database that was added
\* before it with the targets it had then.
Worlds == INSTANCE MockWorlds WITH
    known <- Elements(cloud_added),
    world <- targets,
    saved <- [i \in DOMAIN contexts |->
                IF contexts[i].kind = "call" THEN contexts[i].snapshots
                ELSE [db \in {} |-> {}]]
ImplementsWorlds == Worlds!Spec

\* "the state which was there before the block is back once it ends": while no
\* call runs, the current target manager is the instance's own.
StateRestored ==
    (\A c \in Elements(contexts) : c.kind = "block") => manager = Own
=============================================================================
