------------------------ MODULE TargetManagerProofs ------------------------
(***************************************************************************)
(* Theorems about TargetManager, for every set of databases, whatever      *)
(* credentials they share, and every set of targets.                       *)
(***************************************************************************)
EXTENDS TargetManager, TLAPS

\* Targets and what the handlers make of them are image targets.
LEMMA NewTargetType ==
    ASSUME NEW id \in TargetIds, NEW name \in Names, NEW image \in Images,
           NEW modified \in Nat, NEW uploaded \in Nat
    PROVE  LET new == NewTarget(id, name, image, modified, uploaded)
           IN  /\ new \in ImageTarget /\ new.target_id = id
               /\ new.last_modified_date = modified /\ new.upload_date = uploaded
               /\ new.delete_date = NoDate
  BY DEF NewTarget, ImageTarget

DeletedCopy(target) == [target EXCEPT !.delete_date = clock]

UpdatedCopy(target, change) ==
    [target EXCEPT
       !.name = Given(change.name, target.name),
       !.image_value = Given(change.image_value, target.image_value),
       !.active_flag = Given(change.active_flag, target.active_flag),
       !.last_modified_date = clock]

LEMMA DeletedCopyType ==
    ASSUME NEW target \in ImageTarget, clock \in Nat
    PROVE  /\ DeletedCopy(target) \in ImageTarget
           /\ DeletedCopy(target).target_id = target.target_id
           /\ DeletedCopy(target).upload_date = target.upload_date
           /\ DeletedCopy(target).last_modified_date = target.last_modified_date
           /\ DeletedCopy(target).delete_date = clock
  BY DEF DeletedCopy, ImageTarget

LEMMA UpdatedCopyType ==
    ASSUME NEW target \in ImageTarget, NEW change \in Change, clock \in Nat
    PROVE  /\ UpdatedCopy(target, change) \in ImageTarget
           /\ UpdatedCopy(target, change).target_id = target.target_id
           /\ UpdatedCopy(target, change).upload_date = target.upload_date
           /\ UpdatedCopy(target, change).last_modified_date = clock
           /\ UpdatedCopy(target, change).delete_date = target.delete_date
<1>1. /\ Given(change.name, target.name) \in Names
      /\ Given(change.image_value, target.image_value) \in Images
      /\ Given(change.active_flag, target.active_flag) \in BOOLEAN
  BY DEF Given, Change, ImageTarget
<1>2. QED
  BY <1>1 DEF UpdatedCopy, ImageTarget

\* A database that can be created is not there yet: it would conflict with itself.
LEMMA CreatedIsNew ==
    ASSUME NEW db
    PROVE  /\ ~CloudConflict(db) => db \notin cloud_databases
           /\ ~VuMarkConflict(db) => db \notin vumark_databases
  BY DEF CloudConflict, VuMarkConflict, SharesServerIdentity

-----------------------------------------------------------------------------
\* How a step may change the targets: what a new target, and the copy that
\* replaces a target, look like.
CopyOf(u, t) ==
    /\ u \in ImageTarget
    /\ u.target_id = t.target_id /\ u.upload_date = t.upload_date
    /\ \/ u.last_modified_date = t.last_modified_date /\ u.delete_date = clock
       \/ u.last_modified_date = clock /\ u.delete_date = t.delete_date

Added(db, t) ==
    /\ t \in ImageTarget /\ t.target_id \notin issued
    /\ t.upload_date <= clock /\ t.last_modified_date <= clock
    /\ t.delete_date = NoDate
    /\ targets' = [targets EXCEPT ![db] = @ \cup {t}]
    /\ issued' = issued \cup {t.target_id}
    /\ UNCHANGED <<clock, databases, vumark_targets>>

Replaced(db, t, u) ==
    /\ t \in targets[db] /\ CopyOf(u, t)
    /\ targets' = [targets EXCEPT ![db] = (@ \ {t}) \cup {u}]
    /\ UNCHANGED <<clock, databases, vumark_targets, issued>>

LEMMA CreateTargetAdds ==
    ASSUME TypeOK, NEW name, NEW id \in TargetIds, NEW n \in Names,
           NEW image \in Images, NEW modified \in Nat, NEW uploaded \in 0 .. clock,
           modified <= uploaded,
           CreateTarget(name, id, n, image, modified, uploaded), Issue(id)
    PROVE  \E db \in cloud_databases : \E t : Added(db, t)
<1>1. PICK db \in CloudDatabases :
        /\ Named(cloud_databases, name) = {db}
        /\ targets' = [targets EXCEPT ![db] =
             @ \cup {NewTarget(id, n, image, modified, uploaded)}]
        /\ UNCHANGED <<clock, databases, vumark_targets>>
  BY DEF CreateTarget
<1>2. db \in cloud_databases
  BY <1>1 DEF Named
<1>3. /\ clock \in Nat /\ uploaded \in Nat
      /\ uploaded <= clock /\ modified <= clock
  BY DatabasesAssumption DEF TypeOK
<1>4. Added(db, NewTarget(id, n, image, modified, uploaded))
  BY <1>1, <1>3, NewTargetType DEF Added, Issue
<1>5. QED
  BY <1>2, <1>4

LEMMA DeleteTargetReplaces ==
    ASSUME TypeOK, NEW name, NEW id, DeleteTarget(name, id)
    PROVE  \E db \in cloud_databases : \E t, u : Replaced(db, t, u)
<1>1. PICK db \in CloudDatabases :
        /\ Named(cloud_databases, name) = {db}
        /\ \E target \in targets[db] :
             targets' = [targets EXCEPT ![db] =
                           Replace(@, target, DeletedCopy(target))]
        /\ UNCHANGED <<clock, databases, vumark_targets, issued>>
  BY DEF DeleteTarget, DeletedCopy
<1>2. PICK target \in targets[db] :
        targets' = [targets EXCEPT ![db] =
                      Replace(@, target, DeletedCopy(target))]
  BY <1>1
<1>3. db \in cloud_databases
  BY <1>1 DEF Named
<1>4. target \in ImageTarget /\ clock \in Nat
  BY DatabasesAssumption DEF TypeOK
<1>5. CopyOf(DeletedCopy(target), target)
  BY <1>4, DeletedCopyType DEF CopyOf
<1>6. Replaced(db, target, DeletedCopy(target))
  BY <1>1, <1>2, <1>5 DEF Replaced, Replace
<1>7. QED
  BY <1>3, <1>6

LEMMA UpdateTargetReplaces ==
    ASSUME TypeOK, NEW name, NEW id, NEW change \in Change,
           UpdateTarget(name, id, change)
    PROVE  \E db \in cloud_databases : \E t, u : Replaced(db, t, u)
<1>1. PICK db \in CloudDatabases :
        /\ Named(cloud_databases, name) = {db}
        /\ \E target \in targets[db] :
             targets' = [targets EXCEPT ![db] =
                           Replace(@, target, UpdatedCopy(target, change))]
        /\ UNCHANGED <<clock, databases, vumark_targets, issued>>
  BY DEF UpdateTarget, UpdatedCopy
<1>2. PICK target \in targets[db] :
        targets' = [targets EXCEPT ![db] =
                      Replace(@, target, UpdatedCopy(target, change))]
  BY <1>1
<1>3. db \in cloud_databases
  BY <1>1 DEF Named
<1>4. target \in ImageTarget /\ clock \in Nat
  BY DatabasesAssumption DEF TypeOK
<1>5. CopyOf(UpdatedCopy(target, change), target)
  BY <1>4, UpdatedCopyType DEF CopyOf
<1>6. Replaced(db, target, UpdatedCopy(target, change))
  BY <1>1, <1>2, <1>5 DEF Replaced, Replace
<1>7. QED
  BY <1>3, <1>6

\* Every step is one of these; the rest of the proofs argue about them.
AbstractStep ==
    \/ \E db \in CloudDatabases : CreateCloudDatabase(db) \/ DeleteCloudDatabase(db)
    \/ \E db \in VuMarkDatabases : CreateVuMarkDatabase(db) \/ DeleteVuMarkDatabase(db)
    \/ \E db \in cloud_databases : \E t : Added(db, t)
    \/ \E db \in cloud_databases : \E t, u : Replaced(db, t, u)
    \/ \E db \in VuMarkDatabases, id \in TargetIds :
          CreateVuMarkTarget(DatabaseName[db], id) /\ Issue(id)
    \/ Tick
    \/ UNCHANGED vars

LEMMA StepCases == TypeOK /\ [Next]_vars => AbstractStep
<1> SUFFICES ASSUME TypeOK, [Next]_vars PROVE AbstractStep
  OBVIOUS
<1>1. CASE \E db \in CloudDatabases, id \in TargetIds :
             \E name \in Names, image \in Images, uploaded \in 0 .. clock :
             \E modified \in 0 .. uploaded :
                /\ CreateTarget(DatabaseName[db], id, name, image, modified, uploaded)
                /\ Issue(id)
  BY <1>1, CreateTargetAdds DEF AbstractStep
<1>2. CASE \E db \in CloudDatabases, id \in TargetIds :
             DeleteTarget(DatabaseName[db], id)
  BY <1>2, DeleteTargetReplaces DEF AbstractStep
<1>3. CASE \E db \in CloudDatabases, id \in TargetIds : \E change \in Change :
             UpdateTarget(DatabaseName[db], id, change)
  BY <1>3, UpdateTargetReplaces DEF AbstractStep
<1>4. QED
  BY <1>1, <1>2, <1>3 DEF Next, AbstractStep

-----------------------------------------------------------------------------
LEMMA TypePreserved == TypeOK /\ AbstractStep => TypeOK'
<1> SUFFICES ASSUME TypeOK, AbstractStep PROVE TypeOK'
  OBVIOUS
<1>0. MaxClock \in Nat
  BY DatabasesAssumption
<1>1. CASE \E db \in CloudDatabases : CreateCloudDatabase(db)
  BY <1>1 DEF CreateCloudDatabase, TypeOK
<1>2. CASE \E db \in CloudDatabases : DeleteCloudDatabase(db)
  BY <1>2 DEF DeleteCloudDatabase, TypeOK
<1>3. CASE \E db \in VuMarkDatabases : CreateVuMarkDatabase(db)
  BY <1>3 DEF CreateVuMarkDatabase, TypeOK
<1>4. CASE \E db \in VuMarkDatabases : DeleteVuMarkDatabase(db)
  BY <1>4 DEF DeleteVuMarkDatabase, TypeOK
<1>5. CASE \E db \in cloud_databases : \E t : Added(db, t)
  <2>1. PICK db \in cloud_databases : \E t : Added(db, t)
    BY <1>5
  <2>2. PICK t : Added(db, t)
    BY <2>1
  <2>3. targets' \in [CloudDatabases -> SUBSET ImageTarget]
    BY <2>1, <2>2 DEF Added, TypeOK
  <2>4. t.target_id \in TargetIds
    BY <2>2 DEF Added, ImageTarget
  <2>5. QED
    BY <2>1, <2>2, <2>3, <2>4 DEF Added, TypeOK, databases
<1>6. CASE \E db \in cloud_databases : \E t, u : Replaced(db, t, u)
  <2>1. PICK db \in cloud_databases : \E t, u : Replaced(db, t, u)
    BY <1>6
  <2>2. PICK t, u : Replaced(db, t, u)
    BY <2>1
  <2>3. targets' \in [CloudDatabases -> SUBSET ImageTarget]
    BY <2>1, <2>2 DEF Replaced, CopyOf, TypeOK
  <2>4. QED
    BY <2>1, <2>2, <2>3 DEF Replaced, TypeOK, databases
<1>7. CASE \E db \in VuMarkDatabases, id \in TargetIds :
             CreateVuMarkTarget(DatabaseName[db], id) /\ Issue(id)
  <2>1. PICK asked \in VuMarkDatabases, id \in TargetIds :
          CreateVuMarkTarget(DatabaseName[asked], id) /\ Issue(id)
    BY <1>7
  <2>2. PICK db \in VuMarkDatabases :
          /\ Named(vumark_databases, DatabaseName[asked]) = {db}
          /\ vumark_targets' = [vumark_targets EXCEPT ![db] = @ \cup {id}]
          /\ UNCHANGED <<clock, databases, targets>>
    BY <2>1 DEF CreateVuMarkTarget
  <2>3. db \in vumark_databases
    BY <2>2 DEF Named
  <2>4. QED
    BY <2>1, <2>2, <2>3 DEF Issue, TypeOK, databases
<1>8. CASE Tick
  BY <1>0, <1>8 DEF Tick, TypeOK, databases
<1>9. CASE UNCHANGED vars
  BY <1>9 DEF vars, TypeOK, databases
<1>10. QED
  BY <1>1, <1>2, <1>3, <1>4, <1>5, <1>6, <1>7, <1>8, <1>9 DEF AbstractStep

\* Every state the handlers can reach is well typed, and what a database held
\* goes with it: a database that is not there has no targets left behind.
THEOREM TypeCorrect == Spec => []TypeOK
<1>1. Init => TypeOK
  BY DatabasesAssumption DEF Init, TypeOK
<1>2. TypeOK /\ [Next]_vars => TypeOK'
  BY StepCases, TypePreserved
<1>3. QED
  BY <1>1, <1>2, PTL DEF Spec

-----------------------------------------------------------------------------
LEMMA CredentialsPreserved ==
    TypeOK /\ CredentialsUnique /\ AbstractStep => CredentialsUnique'
<1> SUFFICES ASSUME TypeOK, CredentialsUnique, AbstractStep
             PROVE  CredentialsUnique'
  OBVIOUS
<1>1. CASE \E db \in CloudDatabases : CreateCloudDatabase(db)
  <2>1. PICK db \in CloudDatabases : CreateCloudDatabase(db)
    BY <1>1
  <2>2. /\ cloud_databases' = cloud_databases \cup {db}
        /\ vumark_databases' = vumark_databases
        /\ \A other \in cloud_databases \cup vumark_databases :
              ~SharesServerIdentity(db, other)
        /\ \A other \in cloud_databases : ~SharesClientKey(db, other)
    BY <2>1 DEF CreateCloudDatabase, CloudConflict
  <2>3. QED
    BY <2>2 DEF CredentialsUnique, SharesServerIdentity, SharesClientKey
<1>2. CASE \E db \in CloudDatabases : DeleteCloudDatabase(db)
  BY <1>2 DEF DeleteCloudDatabase, CredentialsUnique, SharesServerIdentity,
              SharesClientKey
<1>3. CASE \E db \in VuMarkDatabases : CreateVuMarkDatabase(db)
  <2>1. PICK db \in VuMarkDatabases : CreateVuMarkDatabase(db)
    BY <1>3
  <2>2. /\ vumark_databases' = vumark_databases \cup {db}
        /\ cloud_databases' = cloud_databases
        /\ \A other \in cloud_databases \cup vumark_databases :
              ~SharesServerIdentity(db, other)
    BY <2>1 DEF CreateVuMarkDatabase, VuMarkConflict
  <2>3. QED
    BY <2>2 DEF CredentialsUnique, SharesServerIdentity, SharesClientKey
<1>4. CASE \E db \in VuMarkDatabases : DeleteVuMarkDatabase(db)
  BY <1>4 DEF DeleteVuMarkDatabase, CredentialsUnique, SharesServerIdentity,
              SharesClientKey
<1>5. CASE UNCHANGED databases
  BY <1>5 DEF databases, CredentialsUnique, SharesServerIdentity, SharesClientKey
<1>6. QED
  <2>1. (\E db \in cloud_databases : \E t : Added(db, t)) => UNCHANGED databases
    BY DEF Added
  <2>2. (\E db \in cloud_databases : \E t, u : Replaced(db, t, u))
           => UNCHANGED databases
    BY DEF Replaced
  <2>3. (\E db \in VuMarkDatabases, id \in TargetIds :
           CreateVuMarkTarget(DatabaseName[db], id) /\ Issue(id))
           => UNCHANGED databases
    BY DEF CreateVuMarkTarget
  <2>4. (Tick \/ UNCHANGED vars) => UNCHANGED databases
    BY DEF Tick, vars
  <2>5. QED
    BY <1>1, <1>2, <1>3, <1>4, <1>5, <2>1, <2>2, <2>3, <2>4 DEF AbstractStep

\* Whatever keys and names the databases have, no order of creations and
\* deletions leaves two of them sharing a key or a name, so _database_matchers
\* and the (database,) = ... lookups never have two databases to choose from.
THEOREM CredentialsStayUnique == Spec => []CredentialsUnique
<1>1. Init => CredentialsUnique
  BY DEF Init, CredentialsUnique
<1>2. TypeOK /\ CredentialsUnique /\ [Next]_vars => CredentialsUnique'
  BY StepCases, CredentialsPreserved
<1>3. QED
  BY <1>1, <1>2, TypeCorrect, PTL DEF Spec

-----------------------------------------------------------------------------
\* A new id is not among those issued, and every stored target has an issued
\* one: this is what makes the uniqueness of ids inductive.
IdsIssued ==
    \A db \in CloudDatabases : \A t \in targets[db] : t.target_id \in issued

IdsInvariant == TypeOK /\ IdsIssued /\ TargetIdsUnique

\* How the targets of one database change in a step which is not a creation
\* or a replacement of a target.
LEMMA OtherSteps ==
    ASSUME TypeOK, AbstractStep
    PROVE  \/ \E db \in cloud_databases : \E t : Added(db, t)
           \/ \E db \in cloud_databases : \E t, u : Replaced(db, t, u)
           \/ /\ \A db \in CloudDatabases :
                    targets'[db] = targets[db] \/ targets'[db] = {}
              /\ \A db \in cloud_databases \cap cloud_databases' :
                    targets'[db] = targets[db]
              /\ issued \subseteq issued'
              /\ clock <= clock' /\ clock' \in Nat
<1>0. MaxClock \in Nat /\ clock \in Nat
  BY DatabasesAssumption DEF TypeOK
<1>1. CASE \E db \in CloudDatabases : CreateCloudDatabase(db)
  BY <1>0, <1>1, CreatedIsNew DEF CreateCloudDatabase, TypeOK
<1>2. CASE \E db \in CloudDatabases : DeleteCloudDatabase(db)
  BY <1>0, <1>2 DEF DeleteCloudDatabase, TypeOK
<1>3. CASE \E db \in VuMarkDatabases :
             CreateVuMarkDatabase(db) \/ DeleteVuMarkDatabase(db)
  BY <1>0, <1>3 DEF CreateVuMarkDatabase, DeleteVuMarkDatabase
<1>4. CASE \E db \in VuMarkDatabases, id \in TargetIds :
             CreateVuMarkTarget(DatabaseName[db], id) /\ Issue(id)
  BY <1>0, <1>4 DEF CreateVuMarkTarget, Issue
<1>5. CASE Tick
  BY <1>0, <1>5 DEF Tick
<1>6. CASE UNCHANGED vars
  BY <1>0, <1>6 DEF vars
<1>7. QED
  BY <1>1, <1>2, <1>3, <1>4, <1>5, <1>6 DEF AbstractStep

LEMMA IdsPreserved == IdsInvariant /\ AbstractStep => (IdsIssued /\ TargetIdsUnique)'
<1> SUFFICES ASSUME IdsInvariant, AbstractStep
             PROVE  IdsIssued' /\ TargetIdsUnique'
  OBVIOUS
<1>0. TypeOK /\ IdsIssued /\ TargetIdsUnique
  BY DEF IdsInvariant
<1>1. CASE \E db \in cloud_databases : \E t : Added(db, t)
  <2>1. PICK db \in cloud_databases : \E t : Added(db, t)
    BY <1>1
  <2>2. PICK t : Added(db, t)
    BY <2>1
  <2>3. \A other \in CloudDatabases : \A x \in targets'[other] :
           \/ x \in targets[other]
           \/ other = db /\ x = t
    BY <1>0, <2>1, <2>2 DEF Added, TypeOK
  <2>4. \A other \in CloudDatabases : \A x \in targets[other] :
           x.target_id # t.target_id
    BY <1>0, <2>2 DEF Added, IdsIssued
  <2>5. QED
    BY <1>0, <2>2, <2>3, <2>4 DEF Added, IdsIssued, TargetIdsUnique
<1>2. CASE \E db \in cloud_databases : \E t, u : Replaced(db, t, u)
  <2>1. PICK db \in cloud_databases : \E t, u : Replaced(db, t, u)
    BY <1>2
  <2>2. PICK t, u : Replaced(db, t, u)
    BY <2>1
  <2>3. t \in targets[db] /\ u.target_id = t.target_id /\ issued' = issued
    BY <2>2 DEF Replaced, CopyOf
  <2>4. \A other \in CloudDatabases : \A x \in targets'[other] :
           \/ x \in targets[other] /\ ~(other = db /\ x = t)
           \/ other = db /\ x = u
    BY <1>0, <2>1, <2>2 DEF Replaced, TypeOK
  <2>5. db \in CloudDatabases
    BY <1>0, <2>1 DEF TypeOK
  <2>6. \A other \in CloudDatabases : \A x \in targets[other] :
           x.target_id = t.target_id => other = db /\ x = t
    BY <1>0, <2>3, <2>5 DEF TargetIdsUnique
  <2>7. IdsIssued'
    BY <1>0, <2>3, <2>4, <2>5 DEF IdsIssued
  <2>8. TargetIdsUnique'
    BY <1>0, <2>3, <2>4, <2>6 DEF TargetIdsUnique
  <2>9. QED
    BY <2>7, <2>8
<1>3. CASE /\ \A db \in CloudDatabases :
                targets'[db] = targets[db] \/ targets'[db] = {}
           /\ issued \subseteq issued'
  BY <1>0, <1>3 DEF IdsIssued, TargetIdsUnique
<1>4. QED
  BY <1>0, <1>1, <1>2, <1>3, OtherSteps

LEMMA IdsInvariantHolds == Spec => []IdsInvariant
<1>1. Init => IdsInvariant
  BY DatabasesAssumption DEF Init, IdsInvariant, TypeOK, IdsIssued, TargetIdsUnique
<1>2. IdsInvariant /\ [Next]_vars => IdsInvariant'
  BY StepCases, TypePreserved, IdsPreserved DEF IdsInvariant
<1>3. QED
  BY <1>1, <1>2, PTL DEF Spec

\* However often targets are replaced by changed copies of themselves, an id
\* is that of one target of one database: get_target never has two to unpack.
THEOREM IdsStayUnique == Spec => []TargetIdsUnique
<1>1. IdsInvariant => TargetIdsUnique
  BY DEF IdsInvariant
<1>2. QED
  BY <1>1, IdsInvariantHolds, PTL

-----------------------------------------------------------------------------
\* No date of a target lies in the future: what DatesNeverGoBack rests on.
Passed(t, now) ==
    /\ t.upload_date <= now /\ t.last_modified_date <= now
    /\ t.delete_date # NoDate => t.delete_date <= now

DatesPassed == \A db \in CloudDatabases : \A t \in targets[db] : Passed(t, clock)

LEMMA CopyPassed ==
    ASSUME NEW t \in ImageTarget, NEW u, CopyOf(u, t), clock \in Nat,
           Passed(t, clock)
    PROVE  Passed(u, clock)
  BY DEF CopyOf, Passed, ImageTarget

LEMMA PassedLater ==
    ASSUME NEW t \in ImageTarget, NEW now \in Nat, NEW later \in Nat,
           now <= later, Passed(t, now)
    PROVE  Passed(t, later)
<1>1. /\ t.upload_date \in Nat /\ t.last_modified_date \in Nat
      /\ t.delete_date # NoDate => t.delete_date \in Nat
  BY DEF ImageTarget
<1>2. QED
  BY <1>1 DEF Passed

LEMMA DatesPreserved ==
    TypeOK /\ DatesPassed /\ AbstractStep => DatesPassed'
<1> SUFFICES ASSUME TypeOK, DatesPassed, AbstractStep,
                    NEW db \in CloudDatabases, NEW x \in targets'[db]
             PROVE  Passed(x, clock')
  BY DEF DatesPassed, Passed
<1>0. clock \in Nat /\ targets \in [CloudDatabases -> SUBSET ImageTarget]
  BY DatabasesAssumption DEF TypeOK
<1>1. \A other \in CloudDatabases : \A t \in targets[other] :
         t \in ImageTarget /\ Passed(t, clock)
  BY <1>0 DEF DatesPassed
<1>2. CASE \E other \in cloud_databases : \E t : Added(other, t)
  <2>1. PICK other \in cloud_databases : \E t : Added(other, t)
    BY <1>2
  <2>2. PICK t : Added(other, t)
    BY <2>1
  <2>3. Passed(t, clock)
    BY <1>0, <2>2 DEF Added, Passed, ImageTarget
  <2>4. x \in targets[db] \/ x = t
    BY <1>0, <2>1, <2>2 DEF Added
  <2>5. QED
    BY <1>1, <2>2, <2>3, <2>4 DEF Added
<1>3. CASE \E other \in cloud_databases : \E t, u : Replaced(other, t, u)
  <2>1. PICK other \in cloud_databases : \E t, u : Replaced(other, t, u)
    BY <1>3
  <2>2. PICK t, u : Replaced(other, t, u)
    BY <2>1
  <2>3. other \in CloudDatabases /\ t \in targets[other] /\ CopyOf(u, t)
    BY <2>1, <2>2 DEF Replaced, TypeOK
  <2>4. Passed(u, clock)
    BY <1>0, <1>1, <2>3, CopyPassed
  <2>5. x \in targets[db] \/ x = u
    BY <1>0, <2>2 DEF Replaced
  <2>6. QED
    BY <1>1, <2>2, <2>4, <2>5 DEF Replaced
<1>4. CASE /\ \A other \in CloudDatabases :
                targets'[other] = targets[other] \/ targets'[other] = {}
           /\ clock <= clock' /\ clock' \in Nat
  <2>1. x \in targets[db]
    BY <1>4
  <2>2. QED
    BY <1>0, <1>1, <1>4, <2>1, PassedLater
<1>5. QED
  BY <1>2, <1>3, <1>4, OtherSteps

LEMMA DatesArePassed == Spec => []DatesPassed
<1>1. Init => DatesPassed
  BY DEF Init, DatesPassed
<1>2. TypeOK /\ DatesPassed /\ [Next]_vars => DatesPassed'
  BY StepCases, DatesPreserved
<1>3. QED
  BY <1>1, <1>2, TypeCorrect, PTL DEF Spec

\* What a target may become in a step, as far as its dates go.
DatesGoOn(t, u) ==
    /\ \/ u.last_modified_date = t.last_modified_date
       \/ /\ u.last_modified_date >= t.last_modified_date
          /\ u.last_modified_date >= u.upload_date
    /\ u.delete_date # t.delete_date =>
          /\ t.delete_date # NoDate => u.delete_date >= t.delete_date
          /\ u.delete_date >= u.upload_date

LEMMA CopyGoesOn ==
    ASSUME NEW t \in ImageTarget, NEW u, CopyOf(u, t), clock \in Nat, Passed(t, clock)
    PROVE  DatesGoOn(t, u)
<1>1. /\ t.upload_date \in Nat /\ t.last_modified_date \in Nat
      /\ t.delete_date # NoDate => t.delete_date \in Nat
  BY DEF ImageTarget
<1>2. QED
  BY <1>1 DEF CopyOf, Passed, DatesGoOn

\* However updates and deletions of a target follow each other, its processing
\* never began, and its deletion never was, earlier than it had been before, and
\* no change of it is dated before its upload, as the target itself may be.
THEOREM DatesStayMonotonic == Spec => DatesNeverGoBack
<1>1. ASSUME TypeOK, TargetIdsUnique, IdsIssued, DatesPassed, [Next]_vars,
             NEW db \in cloud_databases \cap cloud_databases',
             NEW t \in targets[db], NEW u \in targets'[db],
             u.target_id = t.target_id
      PROVE  DatesGoOn(t, u)
  <2>0. /\ AbstractStep /\ db \in CloudDatabases
        /\ clock \in Nat /\ targets \in [CloudDatabases -> SUBSET ImageTarget]
        /\ cloud_databases \subseteq CloudDatabases
    BY <1>1, StepCases, DatabasesAssumption DEF TypeOK
  <2>1. CASE u \in targets[db]
    <3>1. u = t
      BY <1>1, <2>0, <2>1 DEF TargetIdsUnique
    <3>2. QED
      BY <3>1 DEF DatesGoOn
  <2>2. CASE \E other \in cloud_databases : \E x : Added(other, x)
    <3>1. PICK other \in cloud_databases : \E x : Added(other, x)
      BY <2>2
    <3>2. PICK x : Added(other, x)
      BY <3>1
    <3>3. t.target_id \in issued
      BY <1>1, <2>0 DEF IdsIssued
    <3>4. u # x
      BY <1>1, <3>2, <3>3 DEF Added
    <3>5. u \in targets[db]
      BY <2>0, <3>2, <3>4 DEF Added
    <3>6. QED
      BY <2>1, <3>5
  <2>3. CASE \E other \in cloud_databases : \E x, y : Replaced(other, x, y)
    <3>1. PICK other \in cloud_databases : \E x, y : Replaced(other, x, y)
      BY <2>3
    <3>2. PICK x, y : Replaced(other, x, y)
      BY <3>1
    <3>3. CASE u \in targets[db]
      BY <2>1, <3>3
    <3>4. CASE u \notin targets[db]
      <4>1. other = db /\ u = y
        BY <2>0, <3>2, <3>4 DEF Replaced
      <4>2. x \in targets[db] /\ CopyOf(u, x)
        BY <3>2, <4>1 DEF Replaced
      <4>3. x.target_id = t.target_id
        BY <1>1, <4>2 DEF CopyOf
      <4>4. x = t
        BY <1>1, <2>0, <4>2, <4>3 DEF TargetIdsUnique
      <4>5. t \in ImageTarget /\ Passed(t, clock)
        BY <1>1, <2>0 DEF DatesPassed
      <4>6. QED
        BY <2>0, <4>2, <4>4, <4>5, CopyGoesOn
    <3>5. QED
      BY <3>3, <3>4
  <2>4. CASE targets'[db] = targets[db] \/ targets'[db] = {}
    BY <1>1, <2>1, <2>4
  <2>5. QED
    BY <1>1, <2>0, <2>2, <2>3, <2>4, OtherSteps
<1>2. IdsInvariant /\ DatesPassed /\ [Next]_vars =>
        [\A db \in cloud_databases \cap cloud_databases' :
           \A t \in targets[db], u \in targets'[db] : u.target_id = t.target_id =>
              DatesGoOn(t, u)]_vars
  BY <1>1 DEF IdsInvariant
<1>3. QED
  BY <1>2, IdsInvariantHolds, DatesArePassed, PTL DEF Spec, DatesNeverGoBack, DatesGoOn

-----------------------------------------------------------------------------
\* While its database stays, a target is never lost, keeps its identity, and
\* if deleted stays deleted, whatever arrives for it afterwards.
THEOREM DeletionStaysFinal == Spec => DeletionIsFinal
<1>1. ASSUME TypeOK, [Next]_vars,
             NEW db \in cloud_databases \cap cloud_databases',
             NEW t \in targets[db]
      PROVE  \E u \in targets'[db] :
               /\ u.target_id = t.target_id /\ u.upload_date = t.upload_date
               /\ t.delete_date # NoDate => u.delete_date # NoDate
  <2>0. /\ AbstractStep /\ db \in CloudDatabases
        /\ clock \in Nat /\ targets \in [CloudDatabases -> SUBSET ImageTarget]
    BY <1>1, StepCases, DatabasesAssumption DEF TypeOK
  <2>1. CASE t \in targets'[db]
    BY <2>1
  <2>2. CASE \E other \in cloud_databases : \E x : Added(other, x)
    <3>1. t \in targets'[db]
      BY <2>0, <2>2 DEF Added
    <3>2. QED
      BY <2>1, <3>1
  <2>3. CASE \E other \in cloud_databases : \E x, u : Replaced(other, x, u)
    <3>1. PICK other \in cloud_databases : \E x, u : Replaced(other, x, u)
      BY <2>3
    <3>2. PICK x, u : Replaced(other, x, u)
      BY <3>1
    <3>3. CASE other = db /\ x = t
      <4>1. u \in targets'[db] /\ CopyOf(u, t)
        BY <2>0, <3>2, <3>3 DEF Replaced
      <4>2. clock # NoDate
        BY <2>0, TargetsAssumption
      <4>3. QED
        BY <4>1, <4>2 DEF CopyOf
    <3>4. CASE ~(other = db /\ x = t)
      <4>1. t \in targets'[db]
        BY <2>0, <3>2, <3>4 DEF Replaced
      <4>2. QED
        BY <2>1, <4>1
    <3>5. QED
      BY <3>3, <3>4
  <2>4. QED
    BY <1>1, <2>0, <2>1, <2>2, <2>3, OtherSteps
<1>2. TypeOK /\ [Next]_vars =>
        [\A db \in cloud_databases \cap cloud_databases' : \A t \in targets[db] :
           \E u \in targets'[db] :
             /\ u.target_id = t.target_id /\ u.upload_date = t.upload_date
             /\ t.delete_date # NoDate => u.delete_date # NoDate]_vars
  BY <1>1
<1>3. QED
  BY <1>2, TypeCorrect, PTL DEF Spec, DeletionIsFinal
=============================================================================
