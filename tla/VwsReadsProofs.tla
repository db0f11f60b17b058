--------------------------- MODULE VwsReadsProofs ---------------------------
(***************************************************************************)
(* Theorems about VwsReads: what a reader answers with, however the        *)
(* databases change and however much time passes while it looks.           *)
(***************************************************************************)
EXTENDS VwsReads, TargetManagerProofs, FunctionTheorems, FiniteSetTheorems,
        SequenceTheorems

\* What is sorted: copies of targets with ids of their own.
Distinct(copies) ==
    /\ \A c \in copies : c.target \in ImageTarget
    /\ \A c, d \in copies : c.target.target_id = d.target.target_id => c = d

InOrder(seq) == \A i, j \in DOMAIN seq : i < j => Before(seq[i], seq[j])

LEMMA BeforeIsTotal ==
    ASSUME NEW copies, Distinct(copies)
    PROVE  /\ \A c \in copies : ~Before(c, c)
           /\ \A c, d \in copies : Before(c, d) \/ Before(d, c) \/ c = d
           /\ \A c, d, e \in copies : Before(c, d) /\ Before(d, e) => Before(c, e)
<1>1. \A c \in copies : c.target.upload_date \in Nat /\ c.target.target_id \in TargetIds
  BY DEF Distinct, ImageTarget
<1>2. \A id \in TargetIds : IdRank[id] \in Nat
  BY ReadsAssumption
<1>3. \A id, other \in TargetIds : IdRank[id] = IdRank[other] => id = other
  BY ReadsAssumption
<1>4. \A c, d \in copies : c.target.target_id = d.target.target_id => c = d
  BY DEF Distinct
<1>5. QED
  BY <1>1, <1>2, <1>3, <1>4 DEF Before

\* How many copies come before one tells its place, and is another for another.
LEMMA RanksAreDistinct ==
    ASSUME NEW copies, IsFiniteSet(copies), Distinct(copies),
           NEW c \in copies, NEW d \in copies, Before(c, d)
    PROVE  Cardinality({e \in copies : Before(e, c)})
             < Cardinality({e \in copies : Before(e, d)})
<1> DEFINE Below(x) == {e \in copies : Before(e, x)}
<1>1. IsFiniteSet(Below(c)) /\ IsFiniteSet(Below(d))
  BY FS_Subset
<1>2. c \notin Below(c) /\ Below(c) \cup {c} \subseteq Below(d)
  BY BeforeIsTotal
<1>3. Cardinality(Below(c) \cup {c}) = Cardinality(Below(c)) + 1
  BY <1>1, <1>2, FS_AddElement
<1>4. Cardinality(Below(c) \cup {c}) <= Cardinality(Below(d))
  BY <1>1, <1>2, FS_Subset
<1>5. Cardinality(Below(c)) \in Nat /\ Cardinality(Below(d)) \in Nat
  BY <1>1, FS_CardinalityType
<1>6. QED
  BY <1>3, <1>4, <1>5

LEMMA SortedExists ==
    ASSUME NEW copies, IsFiniteSet(copies), Distinct(copies)
    PROVE  \E seq \in [1 .. Cardinality(copies) -> copies] : InOrder(seq)
<1> DEFINE Below(x) == {e \in copies : Before(e, x)}
           n == Cardinality(copies)
           rank == [c \in copies |-> Cardinality(Below(c)) + 1]
           seq == [i \in 1 .. n |-> CHOOSE c \in copies : rank[c] = i]
<1>1. n \in Nat
  BY FS_CardinalityType
<1>2. ASSUME NEW c \in copies PROVE rank[c] \in 1 .. n
  <2>1. Below(c) \subseteq copies \ {c}
    BY BeforeIsTotal
  <2>2. IsFiniteSet(copies \ {c}) /\ Cardinality(copies \ {c}) = n - 1
    BY FS_RemoveElement
  <2>3. IsFiniteSet(Below(c)) /\ Cardinality(Below(c)) <= n - 1
    BY <2>1, <2>2, FS_Subset
  <2>4. Cardinality(Below(c)) \in Nat
    BY <2>3, FS_CardinalityType
  <2>5. QED
    BY <1>1, <2>3, <2>4
<1>3. \A c, d \in copies : Before(c, d) => rank[c] < rank[d]
  <2>1. ASSUME NEW c \in copies, NEW d \in copies, Before(c, d)
        PROVE  rank[c] < rank[d]
    <3>1. Cardinality(Below(c)) < Cardinality(Below(d))
      BY <2>1, RanksAreDistinct
    <3>2. rank[c] = Cardinality(Below(c)) + 1 /\ rank[d] = Cardinality(Below(d)) + 1
      OBVIOUS
    <3>3. Cardinality(Below(c)) \in Nat /\ Cardinality(Below(d)) \in Nat
      BY FS_Subset, FS_CardinalityType
    <3> HIDE DEF Below, rank
    <3>4. QED
      BY <3>1, <3>2, <3>3
  <2>2. QED
    BY <2>1
<1>4. rank \in [copies -> 1 .. n]
  <2>1. rank = [c \in copies |-> rank[c]]
    OBVIOUS
  <2> HIDE DEF rank
  <2>2. QED
    BY <1>2, <2>1
<1> HIDE DEF rank
<1>5. \A c, d \in copies : rank[c] = rank[d] => c = d
  <2>1. \A c \in copies : rank[c] \in Nat
    BY <1>1, <1>2
  <2>2. QED
    BY <1>3, <2>1, BeforeIsTotal
<1>6. rank \in Surjection(copies, 1 .. n)
  <2>1. rank \in Injection(copies, 1 .. n)
    BY <1>4, <1>5 DEF Injection, IsInjective
  <2>2. IsFiniteSet(1 .. n) /\ Cardinality(1 .. n) = n
    BY <1>1, FS_Interval
  <2>3. QED
    BY <2>1, <2>2, FS_Injection
<1>7. \A i \in 1 .. n : \E c \in copies : rank[c] = i
  BY <1>6 DEF Surjection
<1>8. \A i \in 1 .. n : seq[i] \in copies /\ rank[seq[i]] = i
  BY <1>7
<1>9. seq \in [1 .. n -> copies]
  BY <1>7
<1> HIDE DEF seq
<1>10. ASSUME NEW i \in 1 .. n, NEW j \in 1 .. n, i < j
       PROVE  Before(seq[i], seq[j])
  <2>1. ~Before(seq[j], seq[i])
    BY <1>1, <1>3, <1>8, <1>10
  <2>2. seq[i] # seq[j]
    BY <1>8, <1>10
  <2>3. QED
    BY <1>8, <2>1, <2>2, BeforeIsTotal
<1>11. InOrder(seq)
  BY <1>9, <1>10 DEF InOrder
<1>12. QED
  BY <1>9, <1>11

\* sorted_targets returns all its targets in order.
LEMMA SortedWorks ==
    ASSUME NEW copies, IsFiniteSet(copies), Distinct(copies)
    PROVE  /\ Sorted(copies) \in Seq(copies)
           /\ InOrder(Sorted(copies))
           /\ \A c \in copies : \E i \in 1 .. Len(Sorted(copies)) : Sorted(copies)[i] = c
<1> DEFINE n == Cardinality(copies)
           s == Sorted(copies)
<1>1. n \in Nat
  BY FS_CardinalityType
<1>2. s \in [1 .. n -> copies] /\ InOrder(s)
  <2> DEFINE P(seq) == \A i, j \in DOMAIN seq : i < j => Before(seq[i], seq[j])
  <2>1. \E seq \in [1 .. n -> copies] : P(seq)
    BY SortedExists DEF InOrder
  <2>2. s = CHOOSE seq \in [1 .. n -> copies] : P(seq)
    BY DEF Sorted
  <2> HIDE DEF P
  <2>3. s \in [1 .. n -> copies] /\ P(s)
    BY <2>1, <2>2
  <2>4. QED
    BY <2>3 DEF P, InOrder
<1> HIDE DEF s
<1>3. s \in Seq(copies) /\ Len(s) = n
  BY <1>1, <1>2
<1>4. s \in Injection(1 .. n, copies)
  <2>1. \A i, j \in 1 .. n : i < j => s[i] # s[j]
    BY <1>2, BeforeIsTotal DEF InOrder
  <2>2. \A i, j \in 1 .. n : s[i] = s[j] => i = j
    BY <1>1, <2>1
  <2>3. QED
    BY <1>2, <2>2 DEF Injection, IsInjective
<1>5. s \in Surjection(1 .. n, copies)
  <2>1. Cardinality(1 .. n) = n
    BY <1>1, FS_Interval
  <2>2. QED
    BY <1>4, <2>1, FS_Injection
<1>6. QED
  BY <1>2, <1>3, <1>5 DEF Surjection, s

-----------------------------------------------------------------------------
\* The target manager under the readers.
FiniteTargets == \A db \in CloudDatabases : IsFiniteSet(targets[db])

Manager ==
    /\ TypeOK /\ IdsIssued /\ TargetIdsUnique /\ CredentialsUnique
    /\ DatesPassed /\ FiniteTargets

LEMMA FiniteStays == TypeOK /\ FiniteTargets /\ AbstractStep => FiniteTargets'
<1> SUFFICES ASSUME TypeOK, FiniteTargets, AbstractStep, NEW d \in CloudDatabases
             PROVE  IsFiniteSet(targets'[d])
  BY DEF FiniteTargets
<1>1. /\ targets \in [CloudDatabases -> SUBSET ImageTarget]
      /\ cloud_databases \subseteq CloudDatabases
      /\ IsFiniteSet(targets[d])
  BY DEF TypeOK, FiniteTargets
<1>2. CASE \E db \in cloud_databases : \E t : Added(db, t)
  <2>1. PICK db \in cloud_databases : \E t : Added(db, t)
    BY <1>2
  <2>2. PICK t : Added(db, t)
    BY <2>1
  <2>3. targets'[d] = targets[d] \/ targets'[d] = targets[d] \cup {t}
    BY <1>1, <2>2 DEF Added
  <2>4. QED
    BY <1>1, <2>3, FS_AddElement
<1>3. CASE \E db \in cloud_databases : \E t, u : Replaced(db, t, u)
  <2>1. PICK db \in cloud_databases : \E t, u : Replaced(db, t, u)
    BY <1>3
  <2>2. PICK t, u : Replaced(db, t, u)
    BY <2>1
  <2>3. targets'[d] = targets[d] \/ targets'[d] = (targets[d] \ {t}) \cup {u}
    BY <1>1, <2>2 DEF Replaced
  <2>4. IsFiniteSet((targets[d] \ {t}) \cup {u})
    BY <1>1, FS_AddElement, FS_RemoveElement
  <2>5. QED
    BY <1>1, <2>3, <2>4
<1>4. CASE targets'[d] = targets[d] \/ targets'[d] = {}
  BY <1>1, <1>4, FS_EmptySet
<1>5. QED
  BY <1>2, <1>3, <1>4, OtherSteps

LEMMA ManagerInit == Init => Manager
<1> SUFFICES ASSUME Init PROVE Manager
  OBVIOUS
<1>1. TypeOK
  BY DatabasesAssumption DEF Init, TypeOK
<1>2. IdsIssued /\ TargetIdsUnique /\ CredentialsUnique /\ DatesPassed
  BY DEF Init, IdsIssued, TargetIdsUnique, CredentialsUnique, DatesPassed
<1>3. FiniteTargets
  BY FS_EmptySet DEF Init, FiniteTargets
<1>4. QED
  BY <1>1, <1>2, <1>3 DEF Manager

LEMMA ManagerKept == Manager /\ AbstractStep => Manager'
<1> SUFFICES ASSUME Manager, AbstractStep PROVE Manager'
  OBVIOUS
<1>1. TypeOK'
  BY TypePreserved DEF Manager
<1>2. IdsIssued' /\ TargetIdsUnique'
  BY IdsPreserved DEF Manager, IdsInvariant
<1>3. CredentialsUnique'
  BY CredentialsPreserved DEF Manager
<1>4. DatesPassed'
  BY DatesPreserved DEF Manager
<1>5. FiniteTargets'
  BY FiniteStays DEF Manager
<1>6. QED
  BY <1>1, <1>2, <1>3, <1>4, <1>5 DEF Manager

\* What clients do, time passing, and the reader are steps of the manager.
LEMMA ReadsAreSteps ==
    ASSUME TypeOK, workload \in Workloads, [ReadsNext]_reads_vars
    PROVE  AbstractStep
<1>1. CASE ClientsChange
  <2>1. workload.images \subseteq Images /\ workload.changes \subseteq Change
    BY ReadsAssumption
  <2>2. Next
    BY <1>1, <2>1 DEF ClientsChange, Next
  <2>3. QED
    BY <2>2, StepCases
<1>2. CASE TimePasses
  BY <1>2 DEF TimePasses, AbstractStep
<1>3. CASE Read
  <2>1. UNCHANGED vars
    BY <1>3 DEF Read, Ask, Validate, Fetch, Look, FetchClouds, Instance, Answer
  <2>2. QED
    BY <2>1 DEF AbstractStep
<1>4. CASE UNCHANGED reads_vars
  BY <1>4 DEF reads_vars, AbstractStep
<1>5. QED
  BY <1>1, <1>2, <1>3, <1>4 DEF ReadsNext

\* The clock goes on, and nothing else of the manager changes with it.
LEMMA ClockGoesOn ==
    ASSUME TypeOK, AbstractStep
    PROVE  clock \in Nat /\ clock' \in Nat /\ clock <= clock'
<1>1. clock \in Nat /\ MaxClock \in Nat
  BY DatabasesAssumption DEF TypeOK
<1>2. CASE \E db \in cloud_databases : \E t : Added(db, t)
  BY <1>1, <1>2 DEF Added
<1>3. CASE \E db \in cloud_databases : \E t, u : Replaced(db, t, u)
  BY <1>1, <1>3 DEF Replaced
<1>4. CASE clock <= clock' /\ clock' \in Nat
  BY <1>1, <1>4
<1>5. QED
  BY <1>2, <1>3, <1>4, OtherSteps

-----------------------------------------------------------------------------
\* What the reader holds at each place of its handler.
Shape ==
    /\ place = "validate" => request.op \notin {"query", "instance"}
    /\ place = "fetch_vumarks" => request.op = "instance"
    /\ place = "look" => request.op # "instance"

HoldsCopy ==
    \/ place = "look"
    \/ place = "answer" /\ answer.code = "Success" /\ request.op # "instance"

Faithful(c) ==
    /\ c.target \in ImageTarget
    /\ c.rating = IF Unrated(c.target, fetched) THEN -1 ELSE Rating[c.target.image_value]
    /\ c.target.target_id \in gone => c.target.delete_date # NoDate

CopyOK ==
    HoldsCopy =>
       /\ IsFiniteSet(copy) /\ Distinct(copy)
       /\ \A c \in copy : Faithful(c)
       /\ OfTarget(request) => \E c \in copy : c.target.target_id = request.target_id

\* A target that was deleted when the request was sent is not brought back.
GoneStays ==
    \A db \in CloudDatabases : \A t \in targets[db] :
       t.target_id \in gone => t.delete_date # NoDate

Base == Manager /\ ReadsTypeOK /\ Shape /\ CopyOK /\ GoneStays

\* A step of the rest of the system, or none.
Quiet ==
    /\ AbstractStep
    /\ UNCHANGED <<workload, reader, gone>>
    /\ \/ stays' = (stays /\ Live(request)')
       \/ UNCHANGED <<stays, databases, targets, vumark_targets>>

LEMMA StepKinds ==
    ASSUME Base, [ReadsNext]_reads_vars
    PROVE  AbstractStep /\ (Quiet \/ Read)
<1>1. AbstractStep
  BY ReadsAreSteps DEF Base, Manager, ReadsTypeOK
<1>2. CASE ClientsChange
  BY <1>1, <1>2 DEF ClientsChange, Quiet
<1>3. CASE TimePasses
  BY <1>1, <1>3 DEF TimePasses, Tick, Quiet
<1>4. CASE UNCHANGED reads_vars
  BY <1>1, <1>4 DEF reads_vars, vars, Quiet
<1>5. QED
  BY <1>1, <1>2, <1>3, <1>4 DEF ReadsNext

LEMMA GoneStaysGone ==
    ASSUME Base, AbstractStep, gone' = gone
    PROVE  GoneStays'
<1> SUFFICES ASSUME NEW d \in CloudDatabases, NEW x \in targets'[d],
                    x.target_id \in gone
             PROVE  x.delete_date # NoDate
  BY DEF GoneStays
<1>1. /\ targets \in [CloudDatabases -> SUBSET ImageTarget]
      /\ cloud_databases \subseteq CloudDatabases
      /\ clock \in Nat /\ clock # NoDate
  BY TargetsAssumption, DatabasesAssumption DEF Base, Manager, TypeOK
<1>2. \A t \in targets[d] : t.target_id \in gone => t.delete_date # NoDate
  BY DEF Base, GoneStays
<1>3. gone \subseteq issued
  BY DEF Base, ReadsTypeOK
<1>4. TypeOK
  BY DEF Base, Manager
<1>5. CASE \E db \in cloud_databases : \E t : Added(db, t)
  <2>1. PICK db \in cloud_databases : \E t : Added(db, t)
    BY <1>5
  <2>2. PICK t : Added(db, t)
    BY <2>1
  <2>3. x \in targets[d] \/ x = t
    BY <1>1, <2>2 DEF Added
  <2>4. x # t
    BY <1>3, <2>2 DEF Added
  <2>5. QED
    BY <1>2, <2>3, <2>4
<1>6. CASE \E db \in cloud_databases : \E t, u : Replaced(db, t, u)
  <2>1. PICK db \in cloud_databases : \E t, u : Replaced(db, t, u)
    BY <1>6
  <2>2. PICK t, u : Replaced(db, t, u)
    BY <2>1
  <2>3. CASE x \in targets[d]
    BY <1>2, <2>3
  <2>4. CASE d = db /\ x = u
    <3>1. t \in targets[d] /\ CopyOf(u, t)
      BY <2>2, <2>4 DEF Replaced
    <3>2. t.delete_date # NoDate
      BY <1>2, <2>4, <3>1 DEF CopyOf
    <3>3. QED
      BY <1>1, <2>4, <3>1, <3>2 DEF CopyOf
  <2>5. QED
    BY <1>1, <2>2, <2>3, <2>4 DEF Replaced
<1>7. CASE targets'[d] = targets[d] \/ targets'[d] = {}
  BY <1>2, <1>7
<1>8. QED
  BY <1>4, <1>5, <1>6, <1>7, OtherSteps

LEMMA BaseQuiet ==
    ASSUME Base, Quiet
    PROVE  Base'
<1>1. AbstractStep /\ UNCHANGED <<workload, reader, gone>>
  BY DEF Quiet
<1>2. Manager' /\ GoneStays'
  BY <1>1, ManagerKept, GoneStaysGone DEF Base
<1>3. clock \in Nat /\ clock' \in Nat /\ clock <= clock'
  BY <1>1, ClockGoesOn DEF Base, Manager
<1>4. issued \subseteq issued'
  <2>1. TypeOK
    BY DEF Base, Manager
  <2>2. CASE \E db \in cloud_databases : \E t : Added(db, t)
    BY <2>2 DEF Added
  <2>3. CASE \E db \in cloud_databases : \E t, u : Replaced(db, t, u)
    BY <2>3 DEF Replaced
  <2>4. QED
    BY <1>1, <2>1, <2>2, <2>3, OtherSteps
<1>5. stays' \in BOOLEAN
  BY DEF Quiet, Base, ReadsTypeOK
<1>6. ReadsTypeOK'
  BY <1>1, <1>3, <1>4, <1>5 DEF reader, Base, ReadsTypeOK
<1>7. Shape'
  BY <1>1 DEF reader, Base, Shape
<1>8. CopyOK'
  BY <1>1 DEF reader, Base, CopyOK, HoldsCopy, Faithful, Unrated
<1>9. QED
  BY <1>2, <1>6, <1>7, <1>8 DEF Base

-----------------------------------------------------------------------------
\* The reader's own steps.
LEMMA AskKeepsBase ==
    ASSUME Base, Ask, AbstractStep
    PROVE  Base'
<1>1. PICK req \in Requests :
        /\ request' = req
        /\ gone' = IF req.db \in CloudDatabases
                   THEN {t.target_id : t \in {t \in targets[req.db] :
                                                t.delete_date # NoDate}}
                   ELSE {}
        /\ stays' = Live(req)
        /\ place' = IF req.op \in {"query", "instance"} THEN "fetch" ELSE "validate"
  BY DEF Ask
<1>2. UNCHANGED <<vars, workload, copy, fetched, look, answer>> /\ request = None
  BY DEF Ask
<1>3. Manager'
  BY ManagerKept DEF Base
<1>4. place = "idle" /\ copy = {} /\ answer = None
  BY <1>2 DEF Base, ReadsTypeOK
<1>5. gone' \subseteq issued
  BY <1>1 DEF Base, Manager, IdsIssued
<1>6. GoneStays'
  <2> SUFFICES ASSUME NEW d \in CloudDatabases, NEW t \in targets[d],
                      t.target_id \in gone'
               PROVE  t.delete_date # NoDate
    BY <1>2 DEF GoneStays, vars
  <2>1. /\ req.db \in CloudDatabases
        /\ \E u \in targets[req.db] : u.delete_date # NoDate /\ u.target_id = t.target_id
    BY <1>1
  <2>2. QED
    BY <2>1 DEF Base, Manager, TargetIdsUnique
<1>7. stays' \in BOOLEAN
  BY <1>1 DEF Live
<1>8. /\ request' \in Requests /\ request' # None
      /\ place' \in {"fetch", "validate"}
  BY <1>1, NoneAssumption
<1>9. ReadsTypeOK'
  BY <1>2, <1>4, <1>5, <1>7, <1>8 DEF Base, ReadsTypeOK, vars
<1>10. Shape' /\ CopyOK'
  BY <1>1 DEF Shape, CopyOK, HoldsCopy
<1>11. QED
  BY <1>3, <1>6, <1>9, <1>10 DEF Base

\* While it serves its request.
LEMMA ServingKeepsRest ==
    ASSUME Base, AbstractStep, UNCHANGED <<vars, workload, request, gone, stays>>
    PROVE  Manager' /\ GoneStays'
  BY ManagerKept, GoneStaysGone DEF Base

LEMMA ValidateKeepsBase ==
    ASSUME Base, Validate, AbstractStep
    PROVE  Base'
<1>1. UNCHANGED <<vars, workload, request, copy, fetched, look, gone, stays>>
  BY DEF Validate
<1>2. place = "validate"
  BY DEF Validate
<1>3. \/ place' = "fetch" /\ answer' = answer
      \/ place' = "answer" /\ answer'.code \in {"AuthenticationFailure", "UnknownTarget"}
  BY DEF Validate, Reply
<1>4. Manager' /\ GoneStays'
  BY <1>1, ServingKeepsRest
<1>5. ReadsTypeOK'
  BY <1>1, <1>2, <1>3 DEF Base, ReadsTypeOK, vars
<1>6. Shape' /\ CopyOK'
  BY <1>3 DEF Shape, CopyOK, HoldsCopy
<1>7. QED
  BY <1>4, <1>5, <1>6 DEF Base

\* A copy holds what was there when it was made.
LEMMA CopyIsFaithful ==
    ASSUME Base, NEW db \in cloud_databases,
           copy' = {Copied(t) : t \in targets[db]}, fetched' = clock, gone' = gone
    PROVE  /\ IsFiniteSet(copy') /\ Distinct(copy')
           /\ \A c \in copy' : Faithful(c)'
           /\ \A c \in copy' : c.target \in targets[db]
           /\ \A c \in copy' : c.rating \in Nat \cup {-1}
           /\ \A t \in targets[db] : \E c \in copy' : c.target = t
<1>1. /\ db \in CloudDatabases
      /\ targets[db] \subseteq ImageTarget
  BY DEF Base, Manager, TypeOK
<1>2. \A t \in targets[db] :
        /\ Copied(t).target = t
        /\ Copied(t).rating = IF Unrated(t, clock) THEN -1 ELSE Rating[t.image_value]
  BY DEF Copied
<1>3. IsFiniteSet(copy')
  <2> DEFINE f == [t \in targets[db] |-> Copied(t)]
  <2>1. f \in Surjection(targets[db], copy')
    BY DEF Surjection
  <2>2. IsFiniteSet(targets[db])
    BY <1>1 DEF Base, Manager, FiniteTargets
  <2>3. QED
    BY <2>1, <2>2, FS_Surjection
<1>4. \A t, u \in targets[db] : t.target_id = u.target_id => t = u
  BY <1>1 DEF Base, Manager, TargetIdsUnique
<1>5. Distinct(copy')
  BY <1>1, <1>2, <1>4 DEF Distinct
<1>6. \A t \in targets[db] : t.target_id \in gone => t.delete_date # NoDate
  BY <1>1 DEF Base, GoneStays
<1>7. ASSUME NEW c \in copy' PROVE Faithful(c)'
  <2>1. PICK t \in targets[db] : c = Copied(t)
    OBVIOUS
  <2>2. c.target = t /\ t \in ImageTarget
    BY <1>1, <1>2, <2>1
  <2>3. c.rating = IF Unrated(t, clock) THEN -1 ELSE Rating[t.image_value]
    BY <1>2, <2>1
  <2>4. QED
    BY <1>6, <2>2, <2>3 DEF Faithful, Unrated
<1>8. ASSUME NEW t \in targets[db] PROVE Copied(t).rating \in Nat \cup {-1}
  <2>1. Rating[t.image_value] \in Nat
    BY <1>1, ReadsAssumption DEF ImageTarget
  <2>2. QED
    BY <1>2, <2>1
<1>9. QED
  BY <1>2, <1>3, <1>5, <1>7, <1>8

LEMMA FetchKeepsBase ==
    ASSUME Base, Fetch, AbstractStep
    PROVE  Base'
<1>1. UNCHANGED <<vars, workload, request, gone, stays>>
  BY DEF Fetch
<1>2. place = "fetch" /\ request.op # "instance"
  BY DEF Fetch
<1>3. Manager' /\ GoneStays'
  BY <1>1, ServingKeepsRest
<1>4. CASE /\ place' = "answer" /\ answer'.code \in {"AuthenticationFailure", "ServerError"}
           /\ UNCHANGED <<copy, fetched, look>>
  <2>1. ReadsTypeOK'
    BY <1>1, <1>2, <1>4 DEF Base, ReadsTypeOK, vars
  <2>2. Shape' /\ CopyOK'
    BY <1>4 DEF Shape, CopyOK, HoldsCopy
  <2>3. QED
    BY <1>3, <2>1, <2>2 DEF Base
<1>5. CASE \E db \in Matching(cloud_databases) :
             /\ ~(OfTarget(request) /\ WithId(targets[db], request.target_id) = {})
             /\ copy' = {Copied(t) : t \in targets[db]}
             /\ fetched' = clock
             /\ place' = "look"
             /\ UNCHANGED answer
  <2>1. PICK db \in Matching(cloud_databases) :
          /\ ~(OfTarget(request) /\ WithId(targets[db], request.target_id) = {})
          /\ copy' = {Copied(t) : t \in targets[db]}
          /\ fetched' = clock
          /\ place' = "look"
          /\ UNCHANGED answer
    BY <1>5
  <2>2. db \in cloud_databases /\ db \in CloudDatabases
    BY DEF Matching, Base, Manager, TypeOK
  <2>3. /\ IsFiniteSet(copy') /\ Distinct(copy')
        /\ \A c \in copy' : Faithful(c)'
        /\ \A c \in copy' : c.rating \in Nat \cup {-1}
        /\ \A t \in targets[db] : \E c \in copy' : c.target = t
    BY <1>1, <2>1, <2>2, CopyIsFaithful
  <2>4. OfTarget(request) => \E c \in copy' : c.target.target_id = request.target_id
    BY <2>1, <2>3 DEF WithId
  <2>5. CopyOK'
    BY <1>1, <2>3, <2>4 DEF CopyOK, OfTarget
  <2>6. clock \in Nat /\ clock' = clock
    BY <1>1, DatabasesAssumption DEF Base, Manager, TypeOK, vars
  <2>7. ReadsTypeOK'
    BY <1>1, <1>2, <2>1, <2>3, <2>6 DEF Base, ReadsTypeOK, vars, Distinct
  <2>8. Shape'
    BY <1>1, <1>2, <2>1 DEF Shape
  <2>9. QED
    BY <1>3, <2>5, <2>7, <2>8 DEF Base
<1>6. QED
  BY <1>4, <1>5 DEF Fetch, Reply

\* A look at the copy answers, or goes on.
LEMMA LookEffect ==
    ASSUME Look
    PROVE  /\ place = "look"
           /\ UNCHANGED <<vars, workload, request, copy, fetched, gone, stays>>
           /\ \/ place' = "answer" /\ answer'.code = "Success"
              \/ UNCHANGED <<place, answer>>
<1>1. place = "look" /\ UNCHANGED <<vars, workload, request, copy, fetched, gone, stays>>
  BY DEF Look
<1>2. \/ place' = "answer" /\ answer'.code = "Success"
      \/ UNCHANGED <<place, answer>>
  <2>1. CASE List
    BY <2>1 DEF List, Reply
  <2>2. CASE Record
    BY <2>2 DEF Record, Reply
  <2>3. CASE CountOne \/ Compare \/ Match \/ NextMatches
    BY <2>3 DEF CountOne, Compare, Match, NextMatches
  <2>4. CASE NextView
    BY <2>4 DEF NextView, Reply
  <2>5. CASE Duplicates
    BY <2>5 DEF Duplicates, Reply
  <2>6. CASE Results
    BY <2>6 DEF Results, Reply
  <2>7. QED
    BY <2>1, <2>2, <2>3, <2>4, <2>5, <2>6 DEF Look
<1>3. QED
  BY <1>1, <1>2

LEMMA LookKeepsBase ==
    ASSUME Base, Look, AbstractStep
    PROVE  Base'
<1>1. /\ place = "look"
      /\ UNCHANGED <<vars, workload, request, copy, fetched, gone, stays>>
      /\ \/ place' = "answer" /\ answer'.code = "Success"
         \/ UNCHANGED <<place, answer>>
  BY LookEffect
<1>2. Manager' /\ GoneStays'
  BY <1>1, ServingKeepsRest
<1>3. ReadsTypeOK'
  BY <1>1 DEF Base, ReadsTypeOK, vars
<1>4. Shape'
  BY <1>1 DEF Base, Shape
<1>5. CopyOK'
  BY <1>1 DEF Base, CopyOK, HoldsCopy, Faithful, Unrated
<1>6. QED
  BY <1>2, <1>3, <1>4, <1>5 DEF Base

LEMMA FetchCloudsKeepsBase ==
    ASSUME Base, FetchClouds, AbstractStep
    PROVE  Base'
<1>1. /\ place = "fetch" /\ request.op = "instance"
      /\ fetched' = clock /\ place' = "fetch_vumarks"
      /\ UNCHANGED <<vars, workload, request, look, answer, gone, stays>>
  BY DEF FetchClouds
<1>2. Manager' /\ GoneStays'
  BY <1>1, ServingKeepsRest
<1>3. clock \in Nat /\ clock' = clock
  BY <1>1, DatabasesAssumption DEF Base, Manager, TypeOK, vars
<1>4. ReadsTypeOK'
  BY <1>1, <1>3 DEF Base, ReadsTypeOK, vars
<1>5. Shape' /\ CopyOK'
  BY <1>1 DEF Shape, CopyOK, HoldsCopy
<1>6. QED
  BY <1>2, <1>4, <1>5 DEF Base

LEMMA InstanceKeepsBase ==
    ASSUME Base, Instance, AbstractStep
    PROVE  Base'
<1>1. /\ place = "fetch_vumarks" /\ place' = "answer"
      /\ UNCHANGED <<vars, workload, request, copy, fetched, look, gone, stays>>
  BY DEF Instance, Reply
<1>2. Manager' /\ GoneStays'
  BY <1>1, ServingKeepsRest
<1>3. request.op = "instance"
  BY <1>1 DEF Base, Shape
<1>4. ReadsTypeOK'
  BY <1>1 DEF Base, ReadsTypeOK, vars
<1>5. Shape' /\ CopyOK'
  BY <1>1, <1>3 DEF Shape, CopyOK, HoldsCopy
<1>6. QED
  BY <1>2, <1>4, <1>5 DEF Base

LEMMA AnswerKeepsBase ==
    ASSUME Base, Answer, AbstractStep
    PROVE  Base'
<1>1. /\ request' = None /\ place' = "idle" /\ copy' = {} /\ fetched' = 0
      /\ look' = None /\ answer' = None /\ gone' = {} /\ stays' = FALSE
      /\ UNCHANGED <<vars, workload>>
  BY DEF Answer
<1>2. Manager'
  BY ManagerKept DEF Base
<1>3. clock \in Nat /\ clock' = clock
  BY <1>1, DatabasesAssumption DEF Base, Manager, TypeOK, vars
<1>4. ReadsTypeOK'
  <2>1. stays' \in BOOLEAN
    BY <1>1
  <2>2. fetched' \in 0 .. clock'
    BY <1>1, <1>3
  <2>3. QED
    BY <1>1, <2>1, <2>2 DEF Base, ReadsTypeOK
<1>5. Shape' /\ CopyOK' /\ GoneStays'
  BY <1>1 DEF Shape, CopyOK, HoldsCopy, GoneStays
<1>6. QED
  BY <1>2, <1>4, <1>5 DEF Base

LEMMA BaseKept == Base /\ [ReadsNext]_reads_vars => Base'
<1> SUFFICES ASSUME Base, [ReadsNext]_reads_vars PROVE Base'
  OBVIOUS
<1>1. AbstractStep /\ (Quiet \/ Read)
  BY StepKinds
<1>2. CASE Quiet
  BY <1>2, BaseQuiet
<1>3. CASE Read
  BY <1>1, <1>3, AskKeepsBase, ValidateKeepsBase, FetchKeepsBase, LookKeepsBase,
     FetchCloudsKeepsBase, InstanceKeepsBase, AnswerKeepsBase DEF Read
<1>4. QED
  BY <1>1, <1>2, <1>3

LEMMA BaseInit == ReadsInit => Base
<1> SUFFICES ASSUME ReadsInit PROVE Base
  OBVIOUS
<1>1. Manager
  BY ManagerInit DEF ReadsInit
<1>2. clock = 0
  BY DEF ReadsInit, Init
<1>3. ReadsTypeOK
  <2>1. stays \in BOOLEAN
    BY DEF ReadsInit
  <2>2. QED
    BY <1>2, <2>1 DEF ReadsInit, ReadsTypeOK
<1>4. Shape /\ CopyOK /\ GoneStays
  BY DEF ReadsInit, Shape, CopyOK, HoldsCopy, GoneStays
<1>5. QED
  BY <1>1, <1>3, <1>4 DEF Base

LEMMA BaseHolds == ReadsSpec => []Base
  BY BaseInit, BaseKept, PTL DEF ReadsSpec

\* What the reader holds is well typed at each place of its handler.
THEOREM ReadsTypesCorrect == ReadsSpec => []ReadsTypeOK
<1>1. Base => ReadsTypeOK
  BY DEF Base
<1>2. QED
  BY <1>1, BaseHolds, PTL

-----------------------------------------------------------------------------
\* While the database, and the target, of the request are there, they are the
\* only ones with its credentials.
StayLive == stays => Live(request)

\* What the cloud databases' part of an instance has found.
CloudsSeen ==
    place = "fetch_vumarks" /\ stays =>
       IF request.db \in CloudDatabases
       THEN copy # {} /\ \A c \in copy : /\ request.target_id \in c.ids
                                         /\ c.db = request.db
       ELSE copy = {}

Stable == StayLive /\ CloudsSeen /\ StableIsServed

LEMMA OnlyTheLiveMatches ==
    ASSUME Base, request # None, Live(request)
    PROVE  /\ request.db \in CloudDatabases => Matching(cloud_databases) = {request.db}
           /\ request.db \in VuMarkDatabases /\ request.op = "instance" =>
                 /\ Matching(cloud_databases) = {}
                 /\ Matching(vumark_databases) = {request.db}
<1>1. /\ cloud_databases \subseteq CloudDatabases
      /\ vumark_databases \subseteq VuMarkDatabases
      /\ CloudDatabases \cap VuMarkDatabases = {}
  BY DatabasesAssumption DEF Base, Manager, TypeOK
<1>2. CredentialsUnique
  BY DEF Base, Manager
<1>3. CASE request.db \in CloudDatabases
  <2>1. request.db \in cloud_databases
    BY <1>1, <1>3 DEF Live
  <2>2. \A db \in cloud_databases : db # request.db =>
          ~ServerKeysMatch(db, request.db) /\ ~ClientKeysMatch(db, request.db)
    BY <1>2, <2>1 DEF CredentialsUnique, SharesServerIdentity, SharesClientKey,
                      ServerKeysMatch, ClientKeysMatch
  <2>3. ServerKeysMatch(request.db, request.db) /\ ClientKeysMatch(request.db, request.db)
    BY DEF ServerKeysMatch, ClientKeysMatch
  <2>4. Matching(cloud_databases) = {request.db}
    BY <2>1, <2>2, <2>3 DEF Matching
  <2>5. QED
    BY <1>1, <1>3, <2>4
<1>4. CASE request.db \in VuMarkDatabases /\ request.op = "instance"
  <2>1. request.db \in vumark_databases
    BY <1>4 DEF Live
  <2>2. \A db \in cloud_databases \cup vumark_databases : db # request.db =>
          ~ServerKeysMatch(db, request.db)
    BY <1>2, <2>1 DEF CredentialsUnique, SharesServerIdentity, ServerKeysMatch
  <2>3. request.db \notin cloud_databases
    BY <1>1, <1>4
  <2>4. ServerKeysMatch(request.db, request.db)
    BY DEF ServerKeysMatch
  <2>5. Matching(cloud_databases) = {}
    BY <1>4, <2>2, <2>3 DEF Matching
  <2>6. Matching(vumark_databases) = {request.db}
    BY <1>4, <2>1, <2>2, <2>4 DEF Matching
  <2>7. QED
    BY <1>1, <1>4, <2>5, <2>6
<1>5. QED
  BY <1>3, <1>4

\* Requests to VuMark databases are for instances.
LEMMA RequestShape ==
    ASSUME NEW req \in Requests
    PROVE  /\ req.op \in {"list", "summary", "record", "duplicates", "query", "instance"}
           /\ req.db \in CloudDatabases \cup VuMarkDatabases
           /\ req.op # "instance" => req.db \in CloudDatabases
           /\ req.db \in CloudDatabases => req.db \notin VuMarkDatabases
  BY DatabasesAssumption DEF Requests

LEMMA StableQuiet ==
    ASSUME Base, Stable, Quiet
    PROVE  Stable'
<1>1. UNCHANGED reader
  BY DEF Quiet
<1>2. stays' => stays /\ Live(request)'
  <2>1. CASE stays' = (stays /\ Live(request)')
    BY <2>1
  <2>2. CASE UNCHANGED <<stays, databases, targets, vumark_targets>>
    BY <1>1, <2>2 DEF Stable, StayLive, Live, reader, databases
  <2>3. QED
    BY <2>1, <2>2 DEF Quiet
<1>3. StayLive'
  BY <1>2 DEF StayLive
<1>4. CloudsSeen' /\ StableIsServed'
  BY <1>1, <1>2 DEF Stable, CloudsSeen, StableIsServed, reader
<1>5. QED
  BY <1>3, <1>4 DEF Stable

LEMMA StableServing ==
    ASSUME StayLive, UNCHANGED <<vars, request, stays>>
    PROVE  StayLive'
  BY DEF StayLive, Live, vars, databases

LEMMA StableValidate ==
    ASSUME Base, Stable, Validate
    PROVE  Stable'
<1>1. /\ place = "validate"
      /\ UNCHANGED <<vars, workload, request, copy, fetched, look, gone, stays>>
  BY DEF Validate
<1>2. StayLive'
  BY <1>1, StableServing DEF Stable
<1>3. place' # "fetch_vumarks"
  BY DEF Validate, Reply
<1>4. ASSUME stays PROVE place' = "fetch"
  <2>1. Live(request) /\ request \in Requests /\ request # None
    BY <1>1, <1>4 DEF Stable, StayLive, Base, ReadsTypeOK
  <2>2. request.op # "instance"
    BY <1>1 DEF Base, Shape
  <2>3. request.db \in CloudDatabases /\ request.db \notin VuMarkDatabases
    BY <2>1, <2>2, RequestShape
  <2>4. Matching(cloud_databases) = {request.db}
    BY <2>1, <2>3, OnlyTheLiveMatches
  <2>5. OfTarget(request) =>
          WithId(NotDeleted(targets[request.db]), request.target_id) # {}
    BY <2>1, <2>3 DEF Live
  <2>6. QED
    BY <2>4, <2>5 DEF Validate
<1>5. CloudsSeen' /\ StableIsServed'
  BY <1>1, <1>3, <1>4 DEF CloudsSeen, StableIsServed
<1>6. QED
  BY <1>2, <1>5 DEF Stable

LEMMA StableFetch ==
    ASSUME Base, Stable, Fetch
    PROVE  Stable'
<1>1. /\ place = "fetch" /\ request.op # "instance"
      /\ UNCHANGED <<vars, workload, request, gone, stays>>
  BY DEF Fetch
<1>2. StayLive'
  BY <1>1, StableServing DEF Stable
<1>3. place' # "fetch_vumarks"
  BY DEF Fetch, Reply
<1>4. ASSUME stays PROVE place' = "look"
  <2>1. Live(request) /\ request \in Requests /\ request # None
    BY <1>1, <1>4 DEF Stable, StayLive, Base, ReadsTypeOK
  <2>2. request.db \in CloudDatabases /\ request.db \notin VuMarkDatabases
    BY <1>1, <2>1, RequestShape
  <2>3. Matching(cloud_databases) = {request.db}
    BY <2>1, <2>2, OnlyTheLiveMatches
  <2>4. OfTarget(request) => WithId(targets[request.db], request.target_id) # {}
    BY <2>1, <2>2 DEF Live, WithId, NotDeleted
  <2>5. QED
    BY <2>3, <2>4 DEF Fetch
<1>5. CloudsSeen' /\ StableIsServed'
  BY <1>1, <1>3, <1>4 DEF CloudsSeen, StableIsServed
<1>6. QED
  BY <1>2, <1>5 DEF Stable

LEMMA StableLook ==
    ASSUME Base, Stable, Look
    PROVE  Stable'
<1>1. /\ place = "look"
      /\ UNCHANGED <<vars, workload, request, copy, fetched, gone, stays>>
      /\ \/ place' = "answer" /\ answer'.code = "Success"
         \/ UNCHANGED <<place, answer>>
  BY LookEffect
<1>2. request.op # "instance"
  BY <1>1 DEF Base, Shape
<1>3. StayLive'
  BY <1>1, StableServing DEF Stable
<1>4. CloudsSeen' /\ StableIsServed'
  BY <1>1, <1>2 DEF CloudsSeen, StableIsServed
<1>5. QED
  BY <1>3, <1>4 DEF Stable

LEMMA StableFetchClouds ==
    ASSUME Base, Stable, FetchClouds
    PROVE  Stable'
<1>1. /\ place = "fetch" /\ request.op = "instance"
      /\ copy' = {[db |-> db, ids |-> {t.target_id : t \in NotDeleted(targets[db])}] :
                    db \in Matching(cloud_databases)}
      /\ place' = "fetch_vumarks"
      /\ UNCHANGED <<vars, workload, request, look, answer, gone, stays>>
  BY DEF FetchClouds
<1>2. StayLive'
  BY <1>1, StableServing DEF Stable
<1>3. ASSUME stays
      PROVE  IF request.db \in CloudDatabases
             THEN copy' # {} /\ \A c \in copy' : /\ request.target_id \in c.ids
                                                 /\ c.db = request.db
             ELSE copy' = {}
  <2>1. Live(request) /\ request \in Requests /\ request # None
    BY <1>1, <1>3 DEF Stable, StayLive, Base, ReadsTypeOK
  <2>2. CASE request.db \in CloudDatabases
    <3>1. Matching(cloud_databases) = {request.db} /\ request.db \notin VuMarkDatabases
      BY <2>1, <2>2, OnlyTheLiveMatches, RequestShape
    <3>2. copy' = {[db |-> request.db,
                    ids |-> {t.target_id : t \in NotDeleted(targets[request.db])}]}
      BY <1>1, <3>1
    <3>3. WithId(NotDeleted(targets[request.db]), request.target_id) # {}
      BY <1>1, <2>1, <3>1 DEF Live, OfTarget
    <3>4. request.target_id \in {t.target_id : t \in NotDeleted(targets[request.db])}
      BY <3>3 DEF WithId
    <3>5. QED
      BY <2>2, <3>2, <3>4
  <2>3. CASE request.db \notin CloudDatabases
    <3>1. Matching(cloud_databases) = {}
      BY <1>1, <2>1, <2>3, OnlyTheLiveMatches, RequestShape
    <3>2. QED
      BY <1>1, <2>3, <3>1
  <2>4. QED
    BY <2>2, <2>3
<1>4. CloudsSeen' /\ StableIsServed'
  BY <1>1, <1>3 DEF CloudsSeen, StableIsServed
<1>5. QED
  BY <1>2, <1>4 DEF Stable

LEMMA StableInstance ==
    ASSUME Base, Stable, Instance
    PROVE  Stable'
<1> DEFINE vumarks == {[db |-> db, ids |-> vumark_targets[db]] :
                         db \in Matching(vumark_databases)}
           candidates == IF copy # {} THEN copy ELSE vumarks
<1>1. /\ place = "fetch_vumarks" /\ place' = "answer"
      /\ UNCHANGED <<vars, workload, request, copy, fetched, look, gone, stays>>
  BY DEF Instance, Reply
<1>2. \/ candidates = {}
      \/ \E c \in candidates :
           IF request.target_id \notin c.ids THEN answer'.code = "UnknownTarget"
           ELSE IF c.db \in CloudDatabases THEN answer'.code = "InvalidTargetType"
           ELSE answer'.code \in {"Success", "TargetStatusNotSuccess"}
  BY DEF Instance, Reply
<1>3. StayLive'
  BY <1>1, StableServing DEF Stable
<1>4. request.op = "instance"
  BY <1>1 DEF Base, Shape
<1>5. ASSUME stays
      PROVE  answer'.code \in IF request.db \in CloudDatabases THEN {"InvalidTargetType"}
                              ELSE {"Success", "TargetStatusNotSuccess"}
  <2>1. Live(request) /\ request \in Requests /\ request # None
    BY <1>1, <1>5 DEF Stable, StayLive, Base, ReadsTypeOK
  <2>2. CASE request.db \in CloudDatabases
    <3>1. copy # {} /\ \A c \in copy : request.target_id \in c.ids /\ c.db = request.db
      BY <1>1, <1>5, <2>2 DEF Stable, CloudsSeen
    <3>2. candidates = copy
      BY <3>1
    <3> HIDE DEF candidates
    <3>3. QED
      BY <1>2, <2>2, <3>1, <3>2
  <2>3. CASE request.db \notin CloudDatabases
    <3>1. copy = {}
      BY <1>1, <1>5, <2>3 DEF Stable, CloudsSeen
    <3>2. request.db \in VuMarkDatabases
      BY <2>1, <2>3, RequestShape
    <3>3. Matching(vumark_databases) = {request.db}
      BY <1>4, <2>1, <3>2, OnlyTheLiveMatches
    <3>4. candidates = {[db |-> request.db, ids |-> vumark_targets[request.db]]}
      BY <3>1, <3>3
    <3>5. request.target_id \in vumark_targets[request.db]
      BY <2>1, <3>2 DEF Live
    <3>6. \A c \in candidates : c.db = request.db /\ request.target_id \in c.ids
      BY <3>4, <3>5
    <3> HIDE DEF candidates
    <3>7. candidates # {}
      BY <3>4
    <3>8. QED
      BY <1>2, <2>3, <3>6, <3>7
  <2>4. QED
    BY <2>2, <2>3
<1>6. CloudsSeen' /\ StableIsServed'
  BY <1>1, <1>4, <1>5 DEF CloudsSeen, StableIsServed
<1>7. QED
  BY <1>3, <1>6 DEF Stable

LEMMA StableKept == Base /\ Stable /\ [ReadsNext]_reads_vars => Stable'
<1> SUFFICES ASSUME Base, Stable, [ReadsNext]_reads_vars PROVE Stable'
  OBVIOUS
<1>1. Quiet \/ Read
  BY StepKinds
<1>2. CASE Ask
  <2>1. PICK req \in Requests :
          request' = req /\ stays' = Live(req) /\ place' \in {"fetch", "validate"}
    BY <1>2 DEF Ask
  <2>2. UNCHANGED vars
    BY <1>2 DEF Ask
  <2>3. StayLive'
    BY <2>1, <2>2 DEF StayLive, Live, vars, databases
  <2>4. QED
    BY <2>1, <2>3 DEF Stable, CloudsSeen, StableIsServed
<1>3. CASE Answer
  BY <1>3 DEF Answer, Stable, StayLive, CloudsSeen, StableIsServed
<1>4. QED
  BY <1>1, <1>2, <1>3, StableQuiet, StableValidate, StableFetch, StableLook,
     StableFetchClouds, StableInstance DEF Read

\* A request to a database, and on a target, which stay there is served, by no
\* other database.
THEOREM StableStaysServed == ReadsSpec => []StableIsServed
<1>1. ReadsInit => Stable
  BY DEF ReadsInit, Stable, StayLive, CloudsSeen, StableIsServed
<1>2. Stable => StableIsServed
  BY DEF Stable
<1>3. QED
  BY <1>1, <1>2, StableKept, BaseHolds, PTL DEF ReadsSpec

-----------------------------------------------------------------------------
\* A target leaves the processing view once, for a view where it stays.
LEMMA StatusesSettle ==
    ASSUME NEW t \in ImageTarget, NEW now \in Nat, NEW later \in Nat, now <= later
    PROVE  /\ Status(t, now) \in {"processing", "success", "failed"}
           /\ Status(t, now) # "processing" => Status(t, later) = Status(t, now)
<1>1. t.last_modified_date \in Nat /\ ProcessingTime \in Nat
  BY TargetsAssumption DEF ImageTarget
<1>2. QED
  BY <1>1 DEF Status

InViewAt(v, c) == InView(Views[v], c)

LEMMA ViewsExclude ==
    ASSUME NEW c, c.target.active_flag \in BOOLEAN
    PROVE  \A v, w \in 1 .. 4 : InViewAt(v, c) /\ InViewAt(w, c) => v = w
<1>1. /\ InViewAt(1, c) <=> StatusOf(c) = "success" /\ c.target.active_flag
      /\ InViewAt(2, c) <=> StatusOf(c) = "success" /\ ~c.target.active_flag
      /\ InViewAt(3, c) <=> StatusOf(c) = "failed"
      /\ InViewAt(4, c) <=> StatusOf(c) = "processing"
  BY DEF InViewAt, InView, Views
<1>2. \A v \in 1 .. 4 : v = 1 \/ v = 2 \/ v = 3 \/ v = 4
  OBVIOUS
<1>3. QED
  BY <1>1, <1>2

LEMMA ViewsStay ==
    ASSUME NEW c, c.target \in ImageTarget, NEW v \in 1 .. 3, InViewAt(v, c),
           clock \in Nat, clock' \in Nat, clock <= clock'
    PROVE  InViewAt(v, c)'
<1>1. /\ InViewAt(1, c) <=> StatusOf(c) = "success" /\ c.target.active_flag
      /\ InViewAt(2, c) <=> StatusOf(c) = "success" /\ ~c.target.active_flag
      /\ InViewAt(3, c) <=> StatusOf(c) = "failed"
  BY DEF InViewAt, InView, Views
<1>2. /\ InViewAt(1, c)' <=> StatusOf(c)' = "success" /\ c.target.active_flag
      /\ InViewAt(2, c)' <=> StatusOf(c)' = "success" /\ ~c.target.active_flag
      /\ InViewAt(3, c)' <=> StatusOf(c)' = "failed"
  BY DEF InViewAt, InView, Views
<1>3. StatusOf(c) # "processing" => StatusOf(c)' = StatusOf(c)
  BY StatusesSettle DEF StatusOf
<1>4. v = 1 \/ v = 2 \/ v = 3
  OBVIOUS
<1>5. QED
  BY <1>1, <1>2, <1>3, <1>4

\* The copies which a summary has counted so far, and will not count again.
CountedAt(l, c) ==
    \/ l.view = 4 /\ c \notin l.left
    \/ \E v \in 1 .. 3 : /\ v <= l.view /\ InViewAt(v, c)
                         /\ v = l.view => c \notin l.left

Tally(counts) == counts[1] + counts[2] + counts[3] + counts[4]

Summing(l) ==
    /\ l \in [view : 1 .. 4, left : SUBSET NotDeletedCopies, counts : [1 .. 4 -> Nat]]
    /\ \E counted \in SUBSET NotDeletedCopies :
          /\ Cardinality(counted) = Tally(l.counts)
          /\ \A c \in counted : CountedAt(l, c)

Summary == place = "look" /\ request.op = "summary" => Summing(look)

Counting == Summary /\ CountedOnce

LEMMA CopiesHeld ==
    ASSUME Base, place = "look"
    PROVE  /\ IsFiniteSet(copy) /\ IsFiniteSet(NotDeletedCopies)
           /\ Distinct(copy)
           /\ \A c \in copy : c.target \in ImageTarget /\ c.target.active_flag \in BOOLEAN
<1>1. IsFiniteSet(copy) /\ Distinct(copy) /\ NotDeletedCopies \subseteq copy
  BY DEF Base, CopyOK, HoldsCopy, NotDeletedCopies
<1>2. IsFiniteSet(NotDeletedCopies)
  BY <1>1, FS_Subset
<1>3. \A t \in ImageTarget : t.active_flag \in BOOLEAN
  BY DEF ImageTarget
<1>4. QED
  BY <1>1, <1>2, <1>3 DEF Distinct

LEMMA CountOneCounts ==
    ASSUME Base, Summing(look), CountOne, place = "look",
           UNCHANGED <<vars, copy>>
    PROVE  Summing(look)'
<1> DEFINE N == NotDeletedCopies
           v == look.view
<1>1. look \in [view : 1 .. 4, left : SUBSET N, counts : [1 .. 4 -> Nat]]
  BY DEF Summing
<1>2. PICK c \in look.left :
        look' = [look EXCEPT
                   !.left = @ \ {c},
                   !.counts[look.view] = @ + (IF InView(Views[look.view], c) THEN 1 ELSE 0)]
  BY DEF CountOne
<1>3. v \in 1 .. 4 /\ look.counts \in [1 .. 4 -> Nat] /\ look.left \subseteq N /\ c \in N
  BY <1>1
<1>4. /\ look'.view = v /\ look'.left = look.left \ {c}
      /\ look'.counts = [look.counts EXCEPT
                           ![v] = @ + (IF InViewAt(v, c) THEN 1 ELSE 0)]
  BY <1>1, <1>2 DEF InViewAt
<1>5. look' \in [view : 1 .. 4, left : SUBSET N, counts : [1 .. 4 -> Nat]]
  <2>1. look'.counts \in [1 .. 4 -> Nat]
    BY <1>3, <1>4
  <2>2. look' = [view |-> look'.view, left |-> look'.left, counts |-> look'.counts]
    BY <1>1, <1>2
  <2>3. look'.view \in 1 .. 4 /\ look'.left \in SUBSET N
    BY <1>3, <1>4
  <2>4. QED
    BY <2>1, <2>2, <2>3
<1>6. NotDeletedCopies' = N
  BY DEF NotDeletedCopies
<1>7. \A x, w : InViewAt(w, x)' <=> InViewAt(w, x)
  BY DEF InViewAt, InView, StatusOf, vars
<1>8. PICK counted \in SUBSET N : /\ Cardinality(counted) = Tally(look.counts)
                                  /\ \A x \in counted : CountedAt(look, x)
  BY DEF Summing
<1>9. ASSUME NEW x \in counted PROVE CountedAt(look, x)'
  <2>1. CountedAt(look, x)
    BY <1>8
  <2>2. QED
    BY <1>4, <1>7, <2>1 DEF CountedAt
<1>10. CASE ~InViewAt(v, c)
  <2>1. Tally(look'.counts) = Tally(look.counts)
    <3>1. look'.counts = look.counts
      BY <1>3, <1>4, <1>10
    <3>2. QED
      BY <3>1
  <2>2. QED
    BY <1>5, <1>6, <1>8, <1>9, <2>1 DEF Summing
<1>11. CASE InViewAt(v, c)
  <2>1. c \notin counted
    <3>1. SUFFICES ASSUME CountedAt(look, c) PROVE FALSE
      BY <1>8
    <3>2. \A w \in 1 .. 3 : InViewAt(w, c) => w = v
      <4>1. c \in copy
        BY <1>3 DEF NotDeletedCopies
      <4>2. c.target.active_flag \in BOOLEAN
        BY <4>1, CopiesHeld
      <4>3. \A w \in 1 .. 3 : w \in 1 .. 4
        OBVIOUS
      <4>4. QED
        BY <1>3, <1>11, <4>2, <4>3, ViewsExclude
    <3>3. QED
      BY <3>1, <3>2 DEF CountedAt
  <2>2. /\ IsFiniteSet(counted) /\ Cardinality(counted \cup {c}) = Cardinality(counted) + 1
    <3>1. IsFiniteSet(N)
      BY CopiesHeld
    <3>2. IsFiniteSet(counted)
      BY <3>1, FS_Subset
    <3>3. QED
      BY <2>1, <3>2, FS_AddElement
  <2>3. Tally(look'.counts) = Tally(look.counts) + 1
    <3>1. look'.counts = [look.counts EXCEPT ![v] = @ + 1]
      BY <1>4, <1>11
    <3>2. v = 1 \/ v = 2 \/ v = 3 \/ v = 4
      BY <1>3
    <3>3. /\ look.counts[1] \in Nat /\ look.counts[2] \in Nat
          /\ look.counts[3] \in Nat /\ look.counts[4] \in Nat
      BY <1>3
    <3>4. QED
      BY <1>3, <3>1, <3>2, <3>3 DEF Tally
  <2>4. CountedAt(look, c)'
    <3>1. look'.view = v /\ c \notin look'.left
      BY <1>4
    <3>2. CASE v = 4
      BY <3>1, <3>2 DEF CountedAt
    <3>3. CASE v \in 1 .. 3
      BY <1>7, <1>11, <3>1, <3>3 DEF CountedAt
    <3>4. QED
      BY <1>3, <3>2, <3>3
  <2>5. counted \cup {c} \in SUBSET N
    BY <1>3
  <2>6. Cardinality(counted \cup {c}) = Tally(look'.counts)
    BY <1>8, <2>2, <2>3
  <2>7. \A x \in counted \cup {c} : CountedAt(look, x)'
    BY <1>9, <2>4
  <2>8. QED
    BY <1>5, <1>6, <2>5, <2>6, <2>7 DEF Summing
<1>12. QED
  BY <1>10, <1>11

LEMMA NextViewCounts ==
    ASSUME Base, Summing(look), NextView, place = "look",
           UNCHANGED <<vars, request, copy>>
    PROVE  \/ Summing(look)' /\ place' = "look"
           \/ /\ place' = "answer" /\ answer'.body = look.counts
              /\ Tally(look.counts) <= Cardinality(NotDeletedCopies)
<1> DEFINE N == NotDeletedCopies
<1>1. look \in [view : 1 .. 4, left : SUBSET N, counts : [1 .. 4 -> Nat]]
  BY DEF Summing
<1>2. PICK counted \in SUBSET N : /\ Cardinality(counted) = Tally(look.counts)
                                  /\ \A c \in counted : CountedAt(look, c)
  BY DEF Summing
<1>3. Len(Views) = 4
  BY DEF Views
<1>4. CASE look.view = 4
  <2>1. Cardinality(counted) <= Cardinality(N)
    BY CopiesHeld, FS_Subset
  <2>2. place' = "answer" /\ answer'.body = look.counts
    BY <1>3, <1>4 DEF NextView, Reply
  <2>3. QED
    BY <1>2, <2>1, <2>2
<1>5. CASE look.view # 4
  <2>1. /\ look' = [look EXCEPT !.view = @ + 1, !.left = NotDeletedCopies]
        /\ place' = "look"
    BY <1>3, <1>5 DEF NextView
  <2>2. /\ look'.view = look.view + 1 /\ look'.left = N /\ look'.counts = look.counts
        /\ look' \in [view : 1 .. 4, left : SUBSET N, counts : [1 .. 4 -> Nat]]
    <3>1. look.view + 1 \in 1 .. 4
      BY <1>1, <1>5
    <3>2. QED
      BY <1>1, <2>1, <3>1
  <2>3. NotDeletedCopies' = N
    BY DEF NotDeletedCopies
  <2>4. \A c, w : InViewAt(w, c)' <=> InViewAt(w, c)
    BY DEF InViewAt, InView, StatusOf, vars
  <2>5. ASSUME NEW c \in counted PROVE CountedAt(look, c)'
    <3>1. PICK v \in 1 .. 3 : v <= look.view /\ InViewAt(v, c)
      BY <1>2, <1>5 DEF CountedAt
    <3>2. v <= look'.view /\ v # look'.view
      BY <1>1, <2>2, <3>1
    <3>3. QED
      BY <2>4, <3>1, <3>2 DEF CountedAt
  <2>6. QED
    BY <1>2, <2>1, <2>2, <2>3, <2>5 DEF Summing
<1>6. QED
  BY <1>4, <1>5

LEMMA FetchCounts ==
    ASSUME Base, Fetch, AbstractStep
    PROVE  Counting'
<1>1. UNCHANGED <<vars, workload, request, gone, stays>> /\ place = "fetch"
  BY DEF Fetch
<1>2. \/ place' = "answer" /\ answer'.code \in {"AuthenticationFailure", "ServerError"}
      \/ place' = "look" /\ look' = Start(copy')
  BY DEF Fetch, Reply
<1>3. CountedOnce'
  BY <1>2 DEF CountedOnce, Answered
<1>4. ASSUME place' = "look", request.op = "summary" PROVE Summing(look)'
  <2>1. look' = [view |-> 1, left |-> {c \in copy' : c.target.delete_date = NoDate},
                 counts |-> [i \in DOMAIN Views |-> 0]]
    BY <1>2, <1>4 DEF Start
  <2>2. DOMAIN Views = 1 .. 4
    BY DEF Views
  <2>3. look'.left = NotDeletedCopies'
    BY <2>1 DEF NotDeletedCopies
  <2>4. look' \in [view : 1 .. 4, left : SUBSET NotDeletedCopies',
                   counts : [1 .. 4 -> Nat]]
    BY <2>1, <2>2, <2>3
  <2>5. Tally(look'.counts) = 0
    BY <2>1, <2>2 DEF Tally
  <2>6. {} \in SUBSET NotDeletedCopies' /\ Cardinality({}) = 0
    BY FS_EmptySet
  <2>7. QED
    BY <2>4, <2>5, <2>6 DEF Summing
<1>5. Summary'
  BY <1>1, <1>4 DEF Summary
<1>6. QED
  BY <1>3, <1>5 DEF Counting

LEMMA LookCounts ==
    ASSUME Base, Counting, Look
    PROVE  Counting'
<1>1. /\ place = "look"
      /\ UNCHANGED <<vars, workload, request, copy, fetched, gone, stays>>
  BY LookEffect
<1>2. CASE request.op # "summary"
  BY <1>1, <1>2 DEF Counting, Summary, CountedOnce, Answered
<1>3. CASE request.op = "summary"
  <2>1. Summing(look)
    BY <1>1, <1>3 DEF Counting, Summary
  <2>2. CountOne \/ NextView
    BY <1>3 DEF Look, List, Record, Compare, Duplicates, Match, NextMatches, Results
  <2>3. CASE CountOne
    <3>1. place' = "look"
      BY <1>1, <2>3 DEF CountOne
    <3>2. Summing(look)'
      BY <1>1, <2>1, <2>3, CountOneCounts
    <3>3. QED
      BY <3>1, <3>2 DEF Counting, Summary, CountedOnce, Answered
  <2>4. CASE NextView
    <3>1. \/ Summing(look)' /\ place' = "look"
          \/ /\ place' = "answer" /\ answer'.body = look.counts
             /\ Tally(look.counts) <= Cardinality(NotDeletedCopies)
      BY <1>1, <2>1, <2>4, NextViewCounts
    <3>2. NotDeletedCopies' = NotDeletedCopies
      BY <1>1 DEF NotDeletedCopies
    <3>3. QED
      BY <3>1, <3>2 DEF Counting, Summary, CountedOnce, Answered, Tally
  <2>5. QED
    BY <2>2, <2>3, <2>4
<1>4. QED
  BY <1>2, <1>3

LEMMA CountingQuiet ==
    ASSUME Base, Counting, Quiet
    PROVE  Counting'
<1>1. AbstractStep /\ UNCHANGED <<request, place, copy, fetched, look, answer>>
  BY DEF Quiet, reader
<1>2. NotDeletedCopies' = NotDeletedCopies
  BY <1>1 DEF NotDeletedCopies
<1>3. CountedOnce'
  BY <1>1, <1>2 DEF Counting, CountedOnce, Answered
<1>4. clock \in Nat /\ clock' \in Nat /\ clock <= clock'
  BY <1>1, ClockGoesOn DEF Base, Manager
<1>5. ASSUME place = "look", request.op = "summary" PROVE Summing(look)'
  <2>1. Summing(look)
    BY <1>5 DEF Counting, Summary
  <2>2. PICK counted \in SUBSET NotDeletedCopies :
          /\ Cardinality(counted) = Tally(look.counts)
          /\ \A c \in counted : CountedAt(look, c)
    BY <2>1 DEF Summing
  <2>3. ASSUME NEW c \in counted PROVE CountedAt(look, c)'
    <3>1. c.target \in ImageTarget
      BY <1>5, CopiesHeld DEF NotDeletedCopies
    <3>2. \A v \in 1 .. 3 : InViewAt(v, c) => InViewAt(v, c)'
      BY <1>4, <3>1, ViewsStay
    <3>3. CountedAt(look, c)
      BY <2>2
    <3>4. QED
      BY <1>1, <3>2, <3>3 DEF CountedAt
  <2>4. look' \in [view : 1 .. 4, left : SUBSET NotDeletedCopies',
                   counts : [1 .. 4 -> Nat]]
    BY <1>1, <1>2, <2>1 DEF Summing
  <2>5. QED
    BY <1>1, <1>2, <2>2, <2>3, <2>4 DEF Summing
<1>6. Summary'
  BY <1>1, <1>5 DEF Summary
<1>7. QED
  BY <1>3, <1>6 DEF Counting

LEMMA CountingKept == Base /\ Counting /\ [ReadsNext]_reads_vars => Counting'
<1> SUFFICES ASSUME Base, Counting, [ReadsNext]_reads_vars PROVE Counting'
  OBVIOUS
<1>1. AbstractStep /\ (Quiet \/ Read)
  BY StepKinds
<1>2. CASE Ask \/ Validate \/ FetchClouds \/ Answer
  BY <1>2 DEF Ask, Validate, FetchClouds, Answer, Reply, Counting, Summary,
              CountedOnce, Answered
<1>3. CASE Instance
  <2>1. place' = "answer" /\ UNCHANGED request /\ place = "fetch_vumarks"
    BY <1>3 DEF Instance, Reply
  <2>2. request.op = "instance"
    BY <2>1 DEF Base, Shape
  <2>3. QED
    BY <2>1, <2>2 DEF Counting, Summary, CountedOnce, Answered
<1>4. QED
  BY <1>1, <1>2, <1>3, CountingQuiet, FetchCounts, LookCounts DEF Read

\* Though its counts are made one after another, a summary counts no target
\* twice.
THEOREM SummariesCountOnce == ReadsSpec => []CountedOnce
<1>1. ReadsInit => Counting
  BY DEF ReadsInit, Counting, Summary, CountedOnce, Answered
<1>2. Counting => CountedOnce
  BY DEF Counting
<1>3. QED
  BY <1>1, <1>2, CountingKept, BaseHolds, PTL DEF ReadsSpec

-----------------------------------------------------------------------------
\* Sequences of copies.
LEMMA SeqElements ==
    ASSUME NEW S, NEW seq \in Seq(S)
    PROVE  /\ DOMAIN seq = 1 .. Len(seq) /\ Len(seq) \in Nat
           /\ Elements(seq) \subseteq S
           /\ \A i \in 1 .. Len(seq) : seq[i] \in S
  BY DEF Elements

LEMMA HeadTail ==
    ASSUME NEW S, NEW seq \in Seq(S), seq # <<>>
    PROVE  /\ Head(seq) \in S /\ Head(seq) \in Elements(seq) /\ Head(seq) = seq[1]
           /\ Tail(seq) \in Seq(S) /\ Len(seq) \in Nat /\ Len(seq) > 0
           /\ Len(Tail(seq)) = Len(seq) - 1
           /\ \A i \in 1 .. Len(seq) - 1 : Tail(seq)[i] = seq[i + 1]
           /\ Elements(Tail(seq)) \subseteq Elements(seq)
           /\ Elements(seq) \subseteq {Head(seq)} \cup Elements(Tail(seq))
<1>1. /\ Head(seq) \in S /\ Head(seq) = seq[1]
      /\ Tail(seq) \in Seq(S) /\ Len(seq) \in Nat /\ Len(seq) > 0
      /\ Len(Tail(seq)) = Len(seq) - 1
      /\ \A i \in 1 .. Len(seq) - 1 : Tail(seq)[i] = seq[i + 1]
  OBVIOUS
<1>2. DOMAIN seq = 1 .. Len(seq) /\ DOMAIN Tail(seq) = 1 .. (Len(seq) - 1)
  BY <1>1, SeqElements
<1>3. Head(seq) \in Elements(seq)
  BY <1>1, <1>2 DEF Elements
<1>4. ASSUME NEW i \in 1 .. Len(seq) - 1 PROVE Tail(seq)[i] \in Elements(seq)
  <2>1. i + 1 \in DOMAIN seq /\ Tail(seq)[i] = seq[i + 1]
    BY <1>1, <1>2
  <2>2. QED
    BY <2>1 DEF Elements
<1>5. Elements(Tail(seq)) \subseteq Elements(seq)
  BY <1>2, <1>4 DEF Elements
<1>6. ASSUME NEW i \in 1 .. Len(seq)
      PROVE  seq[i] \in {Head(seq)} \cup Elements(Tail(seq))
  <2>1. CASE i = 1
    BY <1>1, <2>1
  <2>2. CASE i # 1
    <3>1. i - 1 \in 1 .. Len(seq) - 1 /\ (i - 1) + 1 = i
      BY <1>1, <2>2
    <3>2. Tail(seq)[i - 1] = seq[i]
      BY <1>1, <3>1
    <3>3. QED
      BY <1>2, <3>1, <3>2 DEF Elements
  <2>3. QED
    BY <2>1, <2>2
<1>7. Elements(seq) \subseteq {Head(seq)} \cup Elements(Tail(seq))
  BY <1>2, <1>6 DEF Elements
<1>8. QED
  BY <1>1, <1>3, <1>5, <1>7

LEMMA Appended ==
    ASSUME NEW S, NEW seq \in Seq(S), NEW x \in S
    PROVE  /\ Append(seq, x) \in Seq(S) /\ Len(seq) \in Nat
           /\ Len(Append(seq, x)) = Len(seq) + 1
           /\ \A i \in 1 .. Len(seq) : Append(seq, x)[i] = seq[i]
           /\ Append(seq, x)[Len(seq) + 1] = x
           /\ Elements(Append(seq, x)) = Elements(seq) \cup {x}
<1>1. /\ Append(seq, x) \in Seq(S) /\ Len(seq) \in Nat
      /\ Len(Append(seq, x)) = Len(seq) + 1
      /\ \A i \in 1 .. Len(seq) : Append(seq, x)[i] = seq[i]
      /\ Append(seq, x)[Len(seq) + 1] = x
  OBVIOUS
<1>2. DOMAIN seq = 1 .. Len(seq) /\ DOMAIN Append(seq, x) = 1 .. (Len(seq) + 1)
  BY <1>1, SeqElements
<1>3. \A i \in 1 .. (Len(seq) + 1) : i \in 1 .. Len(seq) \/ i = Len(seq) + 1
  BY <1>1
<1>4. Len(seq) + 1 \in 1 .. (Len(seq) + 1) /\ 1 .. Len(seq) \subseteq 1 .. (Len(seq) + 1)
  BY <1>1
<1>5. QED
  BY <1>1, <1>2, <1>3, <1>4 DEF Elements

LEMMA SortedElements ==
    ASSUME NEW copies, IsFiniteSet(copies), Distinct(copies), NEW S, copies \subseteq S
    PROVE  /\ Sorted(copies) \in Seq(S) /\ Elements(Sorted(copies)) = copies
           /\ \A i, j \in 1 .. Len(Sorted(copies)) :
                 i < j => Before(Sorted(copies)[i], Sorted(copies)[j])
<1> DEFINE s == Sorted(copies)
<1>1. /\ s \in Seq(copies) /\ InOrder(s)
      /\ \A c \in copies : \E i \in 1 .. Len(s) : s[i] = c
  BY SortedWorks
<1> HIDE DEF s
<1>2. DOMAIN s = 1 .. Len(s) /\ Elements(s) \subseteq copies
  BY <1>1, SeqElements
<1>3. Elements(s) = copies
  BY <1>1, <1>2 DEF Elements
<1>4. s \in Seq(S)
  <2>1. s \in [1 .. Len(s) -> S] /\ Len(s) \in Nat
    BY <1>1
  <2>2. QED
    BY <2>1
<1>5. QED
  BY <1>1, <1>2, <1>3, <1>4 DEF InOrder, s

LEMMA NoElements == Elements(<<>>) = {}
  BY DEF Elements

\* What was found comes before what is left, both in order.
Ordering(found, left) ==
    /\ found \in Seq(copy) /\ left \in Seq(copy)
    /\ \A i, j \in 1 .. Len(found) : i < j => Before(found[i], found[j])
    /\ \A i, j \in 1 .. Len(left) : i < j => Before(left[i], left[j])
    /\ \A i \in 1 .. Len(found), j \in 1 .. Len(left) : Before(found[i], left[j])

LEMMA OrderingAdvances ==
    ASSUME NEW found, NEW left, Ordering(found, left), left # <<>>
    PROVE  /\ Ordering(found, Tail(left))
           /\ Ordering(Append(found, Head(left)), Tail(left))
<1> DEFINE h == Head(left)
           t == Tail(left)
           f == Append(found, h)
           n == Len(left)
           m == Len(found)
<1>1. /\ h \in copy /\ h = left[1] /\ t \in Seq(copy) /\ n \in Nat /\ n > 0
      /\ Len(t) = n - 1 /\ \A i \in 1 .. n - 1 : t[i] = left[i + 1]
  BY HeadTail DEF Ordering
<1>2. /\ f \in Seq(copy) /\ m \in Nat /\ Len(f) = m + 1
      /\ \A i \in 1 .. m : f[i] = found[i]
      /\ f[m + 1] = h
  BY <1>1, Appended DEF Ordering
<1>3. /\ \A i, j \in 1 .. m : i < j => Before(found[i], found[j])
      /\ \A i, j \in 1 .. n : i < j => Before(left[i], left[j])
      /\ \A i \in 1 .. m, j \in 1 .. n : Before(found[i], left[j])
      /\ found \in Seq(copy)
  BY DEF Ordering
<1> HIDE DEF h, t, f, n, m
<1>4. ASSUME NEW i \in 1 .. n - 1, NEW j \in 1 .. n - 1, i < j PROVE Before(t[i], t[j])
  <2>1. i + 1 \in 1 .. n /\ j + 1 \in 1 .. n /\ i + 1 < j + 1
    BY <1>1, <1>4
  <2>2. QED
    BY <1>1, <1>3, <2>1
<1>5. ASSUME NEW i \in 1 .. m, NEW j \in 1 .. n - 1 PROVE Before(found[i], t[j])
  <2>1. j + 1 \in 1 .. n
    BY <1>1
  <2>2. QED
    BY <1>1, <1>3, <2>1
<1>6. ASSUME NEW j \in 1 .. n - 1 PROVE Before(h, t[j])
  <2>1. 1 \in 1 .. n /\ j + 1 \in 1 .. n /\ 1 < j + 1
    BY <1>1
  <2>2. QED
    BY <1>1, <1>3, <2>1
<1>7. ASSUME NEW i \in 1 .. m PROVE Before(found[i], h)
  <2>1. 1 \in 1 .. n
    BY <1>1
  <2>2. QED
    BY <1>1, <1>3, <2>1
<1>8. \A i \in 1 .. m + 1 : i \in 1 .. m \/ i = m + 1
  BY <1>2
<1>9. \A i, j \in 1 .. m + 1 : i < j => Before(f[i], f[j])
  <2>1. ASSUME NEW i \in 1 .. m + 1, NEW j \in 1 .. m + 1, i < j
        PROVE  Before(f[i], f[j])
    <3>1. i \in 1 .. m
      BY <1>2, <2>1
    <3>2. QED
      BY <1>2, <1>3, <1>7, <1>8, <2>1, <3>1
  <2>2. QED
    BY <2>1
<1>10. \A i \in 1 .. m + 1, j \in 1 .. n - 1 : Before(f[i], t[j])
  BY <1>2, <1>5, <1>6, <1>8
<1>11. Ordering(found, t)
  BY <1>1, <1>3, <1>4, <1>5 DEF Ordering, m
<1>12. Ordering(f, t)
  BY <1>1, <1>2, <1>4, <1>9, <1>10 DEF Ordering
<1>13. QED
  BY <1>11, <1>12 DEF f, t, h

-----------------------------------------------------------------------------
\* Queries.  What qualified when the databases were copied still does.
Matched(l) == Elements(l.found) \cup Elements(l.left)

Querying(l) ==
    /\ l = [at |-> l.at, left |-> l.left, found |-> l.found]
    /\ l.at \in {"status", "rating"}
    /\ Ordering(l.found, l.left)
    /\ \A c \in Matched(l) : c.target.image_value = request.image
    /\ \A c \in Elements(l.found) : Shown(c)
    /\ l.at = "rating" => /\ \A c \in Elements(l.left) : Shown(c)
                          /\ \A c \in Elements(l.found) : c.rating > 0
    /\ \A c \in copy : Qualifies(c, fetched) => c \in Matched(l)

Query == place = "look" /\ request.op = "query" => Querying(look)

Finding == Query /\ FirstMatchesReturned

\* The clock has gone on since the copy was made.
LEMMA CopyTimes ==
    ASSUME Base, HoldsCopy
    PROVE  /\ fetched \in Nat /\ clock \in Nat /\ fetched <= clock
           /\ IsFiniteSet(copy) /\ Distinct(copy)
           /\ \A c \in copy : Faithful(c) /\ c.target \in ImageTarget
<1>1. clock \in Nat /\ fetched \in 0 .. clock
  BY DatabasesAssumption DEF Base, Manager, TypeOK, ReadsTypeOK
<1>2. QED
  BY <1>1 DEF Base, CopyOK, Faithful

LEMMA QualifiedStays ==
    ASSUME Base, HoldsCopy, NEW c \in copy, Qualifies(c, fetched)
    PROVE  Shown(c) /\ TrackingRating(c) > 0
<1>1. /\ fetched \in Nat /\ clock \in Nat /\ fetched <= clock
      /\ c.target \in ImageTarget /\ Faithful(c)
  BY CopyTimes
<1>2. /\ c.target.active_flag /\ c.target.delete_date = NoDate
      /\ Status(c.target, fetched) = "success" /\ c.rating > 0
  BY DEF Qualifies
<1>3. StatusOf(c) = "success"
  BY <1>1, <1>2, StatusesSettle DEF StatusOf
<1>4. c.target.upload_date \in Nat /\ ProcessingTime \div 2 \in Int
  BY <1>1, TargetsAssumption DEF ImageTarget
<1>5. ~Unrated(c.target, fetched)
  BY <1>1, <1>2 DEF Faithful
<1>6. ~Unrated(c.target, clock)
  BY <1>1, <1>4, <1>5 DEF Unrated
<1>7. QED
  BY <1>2, <1>3, <1>6 DEF Shown, TrackingRating

LEMMA ShownStays ==
    ASSUME NEW c, c.target \in ImageTarget, Shown(c),
           clock \in Nat, clock' \in Nat, clock <= clock'
    PROVE  Shown(c)'
<1>1. StatusOf(c)' = "success"
  BY StatusesSettle DEF Shown, StatusOf
<1>2. QED
  BY <1>1 DEF Shown

LEMMA MatchQueries ==
    ASSUME Base, Querying(look), Match, place = "look",
           UNCHANGED <<vars, request, copy, fetched>>
    PROVE  Querying(look)' /\ place' = "look"
<1> DEFINE c == Head(look.left)
           kept == IF look.at = "status" THEN Shown(c) ELSE TrackingRating(c) > 0
           found == IF kept THEN Append(look.found, c) ELSE look.found
<1>1. /\ look = [at |-> look.at, left |-> look.left, found |-> look.found]
      /\ look.at \in {"status", "rating"}
      /\ Ordering(look.found, look.left)
  BY DEF Querying
<1>2. look.left # <<>> /\ place' = "look"
  BY DEF Match
<1>3. look' = [at |-> look.at, left |-> Tail(look.left), found |-> found]
  BY <1>1 DEF Match
<1>4. /\ look'.at = look.at /\ look'.left = Tail(look.left) /\ look'.found = found
      /\ look' = [at |-> look'.at, left |-> look'.left, found |-> look'.found]
  BY <1>3
<1>5. /\ c \in copy /\ c \in Elements(look.left)
      /\ Elements(Tail(look.left)) \subseteq Elements(look.left)
      /\ Elements(look.left) \subseteq {c} \cup Elements(Tail(look.left))
  BY <1>1, <1>2, HeadTail DEF Ordering
<1>6. Elements(found) = IF kept THEN Elements(look.found) \cup {c}
                        ELSE Elements(look.found)
  <2>1. look.found \in Seq(copy)
    BY <1>1 DEF Ordering
  <2>2. Elements(Append(look.found, c)) = Elements(look.found) \cup {c}
    BY <1>5, <2>1, Appended
  <2> HIDE DEF c, kept
  <2>3. QED
    BY <2>2
<1>7. Ordering(found, Tail(look.left))
  BY <1>1, <1>2, OrderingAdvances
<1>8. /\ \A x : Shown(x)' <=> Shown(x)
      /\ \A x : Qualifies(x, fetched)' <=> Qualifies(x, fetched)
  BY DEF Shown, StatusOf, Qualifies, vars
<1>9. /\ \A x \in Matched(look) : x.target.image_value = request.image
      /\ \A x \in Elements(look.found) : Shown(x)
      /\ look.at = "rating" => /\ \A x \in Elements(look.left) : Shown(x)
                               /\ \A x \in Elements(look.found) : x.rating > 0
      /\ \A x \in copy : Qualifies(x, fetched) => x \in Matched(look)
  BY DEF Querying
<1>10. kept => Shown(c)
  BY <1>1, <1>5, <1>9
<1>11. kept /\ look.at = "rating" => c.rating > 0
  <2>1. ~(-1 > 0)
    OBVIOUS
  <2>2. QED
    BY <2>1 DEF TrackingRating
<1>12. Qualifies(c, fetched) => kept
  BY <1>1, <1>5, QualifiedStays DEF HoldsCopy
<1> HIDE DEF c, kept, found
<1>13. Ordering(look.found, look.left)'
  BY <1>4, <1>7 DEF Ordering
<1>14. /\ Elements(look'.left) = Elements(Tail(look.left))
       /\ Elements(look'.found) = Elements(found)
       /\ Matched(look') = Elements(found) \cup Elements(Tail(look.left))
  BY <1>4 DEF Matched
<1>15. \A x \in Matched(look') : x \in Matched(look)
  BY <1>5, <1>6, <1>14 DEF Matched
<1>16. /\ \A x \in Elements(look'.found) : Shown(x)
       /\ look'.at = "rating" => /\ \A x \in Elements(look'.left) : Shown(x)
                                 /\ \A x \in Elements(look'.found) : x.rating > 0
  BY <1>4, <1>5, <1>6, <1>9, <1>10, <1>11, <1>14
<1>17. \A x \in copy : Qualifies(x, fetched) => x \in Matched(look')
  BY <1>5, <1>6, <1>9, <1>12, <1>14 DEF Matched
<1>18. Matched(look)' = Matched(look') /\ Elements(look.found)' = Elements(look'.found)
       /\ Elements(look.left)' = Elements(look'.left)
  BY DEF Matched, Elements
<1>19. QED
  BY <1>1, <1>2, <1>4, <1>8, <1>9, <1>13, <1>15, <1>16, <1>17, <1>18 DEF Querying

LEMMA NextMatchesQueries ==
    ASSUME Base, Querying(look), NextMatches, place = "look",
           UNCHANGED <<vars, request, copy, fetched>>
    PROVE  Querying(look)' /\ place' = "look"
<1>1. /\ look.left = <<>> /\ place' = "look"
      /\ look' = [at |-> "rating", left |-> look.found, found |-> <<>>]
  BY DEF NextMatches
<1>2. /\ look'.at = "rating" /\ look'.left = look.found /\ look'.found = <<>>
      /\ look' = [at |-> look'.at, left |-> look'.left, found |-> look'.found]
  BY <1>1
<1>3. Ordering(look.found, look.left)
  BY DEF Querying
<1>4. Ordering(<<>>, look.found)
  BY <1>3, EmptySeq DEF Ordering
<1>5. Ordering(look.found, look.left)'
  BY <1>2, <1>4 DEF Ordering
<1>6. /\ Elements(look.left)' = Elements(look.found) /\ Elements(look.found)' = {}
      /\ Matched(look)' = Elements(look.found)
      /\ Matched(look) = Elements(look.found)
  BY <1>1, <1>2, NoElements DEF Matched, Elements
<1>7. /\ \A x : Shown(x)' <=> Shown(x)
      /\ \A x : Qualifies(x, fetched)' <=> Qualifies(x, fetched)
  BY DEF Shown, StatusOf, Qualifies, vars
<1>8. QED
  BY <1>1, <1>2, <1>5, <1>6, <1>7 DEF Querying

\* The first results by upload date, and no more than asked for.
LEMMA FirstOnesFirst ==
    ASSUME NEW seq \in Seq(copy), request.most \in Nat \ {0}
    PROVE  LET first == FirstOnes(seq)
           IN  /\ first \in Seq(copy) /\ Len(first) \in Nat /\ Len(seq) \in Nat
               /\ Len(first) <= request.most /\ Len(first) <= Len(seq)
               /\ Len(first) < Len(seq) => Len(first) = request.most
               /\ \A i \in 1 .. Len(first) : first[i] = seq[i]
<1> DEFINE m == request.most
<1>1. Len(seq) \in Nat /\ \A i \in 1 .. Len(seq) : seq[i] \in copy
  BY SeqElements
<1>2. CASE Len(seq) <= m
  BY <1>1, <1>2 DEF FirstOnes
<1>3. CASE ~(Len(seq) <= m)
  <2>1. 1 \in Int /\ m \in Int /\ m \in Nat /\ m < Len(seq)
    BY <1>1, <1>3
  <2>2. \A i \in 1 .. m : seq[i] \in copy
    BY <1>1, <2>1
  <2>3. /\ SubSeq(seq, 1, m) \in Seq(copy)
        /\ Len(SubSeq(seq, 1, m)) = m
        /\ \A i \in 1 .. m : SubSeq(seq, 1, m)[i] = seq[i]
    BY <2>1, <2>2, SubSeqProperties
  <2>4. FirstOnes(seq) = SubSeq(seq, 1, m)
    BY <1>3 DEF FirstOnes
  <2>5. QED
    BY <1>1, <2>1, <2>3, <2>4
<1>4. QED
  BY <1>2, <1>3

LEMMA IdsOfIs ==
    ASSUME NEW seq \in Seq(copy), Distinct(copy)
    PROVE  /\ Len(IdsOf(seq)) = Len(seq)
           /\ Elements(IdsOf(seq)) = {c.target.target_id : c \in Elements(seq)}
           /\ {c \in copy : c.target.target_id \in Elements(IdsOf(seq))} = Elements(seq)
<1>1. /\ DOMAIN seq = 1 .. Len(seq) /\ Len(seq) \in Nat /\ Elements(seq) \subseteq copy
      /\ \A i \in 1 .. Len(seq) : seq[i] \in copy
  BY SeqElements
<1>2. IdsOf(seq) = [i \in 1 .. Len(seq) |-> seq[i].target.target_id]
  BY <1>1 DEF IdsOf
<1>3. IdsOf(seq) \in Seq(TargetIds) /\ Len(IdsOf(seq)) = Len(seq)
  <2>1. \A i \in 1 .. Len(seq) : seq[i].target.target_id \in TargetIds
    BY <1>1 DEF Distinct, ImageTarget
  <2>2. QED
    BY <1>1, <1>2, <2>1
<1>4. Elements(IdsOf(seq)) = {c.target.target_id : c \in Elements(seq)}
  BY <1>1, <1>2 DEF Elements
<1>5. {c \in copy : c.target.target_id \in Elements(IdsOf(seq))} = Elements(seq)
  BY <1>1, <1>4 DEF Distinct
<1>6. QED
  BY <1>3, <1>4, <1>5

LEMMA ElementsCounted ==
    ASSUME NEW seq \in Seq(copy), Distinct(copy),
           \A i, j \in 1 .. Len(seq) : i < j => Before(seq[i], seq[j])
    PROVE  Cardinality(Elements(seq)) = Len(seq)
<1> DEFINE n == Len(seq)
<1>1. /\ DOMAIN seq = 1 .. n /\ n \in Nat /\ \A i \in 1 .. n : seq[i] \in copy
  BY SeqElements
<1>2. \A i, j \in 1 .. n : i < j => seq[i] # seq[j]
  BY <1>1, BeforeIsTotal
<1>3. \A i, j \in 1 .. n : seq[i] = seq[j] => i = j
  BY <1>1, <1>2
<1>4. seq \in [1 .. n -> Elements(seq)]
  BY <1>1 DEF Elements
<1>5. seq \in Bijection(1 .. n, Elements(seq))
  <2>1. seq \in Injection(1 .. n, Elements(seq))
    BY <1>3, <1>4 DEF Injection, IsInjective
  <2>2. seq \in Surjection(1 .. n, Elements(seq))
    BY <1>1, <1>4 DEF Surjection, Elements
  <2>3. QED
    BY <2>1, <2>2 DEF Bijection
<1>6. QED
  BY <1>1, <1>5, FS_CountingElements DEF ExistsBijection

LEMMA ResultsFind ==
    ASSUME Base, Querying(look), Results, place = "look",
           UNCHANGED <<vars, request, copy, fetched, gone>>
    PROVE  /\ place' = "answer" /\ FirstMatchesReturned'
           /\ Elements(answer'.body) \cap gone = {}
<1> DEFINE found == look.found
           first == FirstOnes(found)
           body == IdsOf(first)
<1>1. place' = "answer" /\ answer'.body = body /\ look.left = <<>> /\ look.at = "rating"
  BY DEF Results, Reply
<1>2. /\ Ordering(found, look.left)
      /\ \A c \in Elements(found) : c.target.image_value = request.image
      /\ \A c \in Elements(found) : Shown(c) /\ c.rating > 0
      /\ \A c \in copy : Qualifies(c, fetched) => c \in Elements(found)
  <2>1. Matched(look) = Elements(found)
    BY <1>1, NoElements DEF Matched
  <2>2. QED
    BY <1>1, <2>1 DEF Querying
<1>3. request.op = "query" /\ request.most \in Nat \ {0}
  <2>1. request.op = "query"
    BY DEF Results
  <2>2. request \in Requests
    BY DEF Base, ReadsTypeOK
  <2>3. request.most \in MaxResults
    BY <2>1, <2>2 DEF Requests
  <2>4. QED
    BY <2>1, <2>3, ReadsAssumption
<1>4. /\ found \in Seq(copy)
      /\ \A i, j \in 1 .. Len(found) : i < j => Before(found[i], found[j])
  BY <1>2 DEF Ordering
<1>5. /\ first \in Seq(copy) /\ Len(first) \in Nat /\ Len(found) \in Nat
      /\ Len(first) <= request.most /\ Len(first) <= Len(found)
      /\ Len(first) < Len(found) => Len(first) = request.most
      /\ \A i \in 1 .. Len(first) : first[i] = found[i]
  BY <1>3, <1>4, FirstOnesFirst
<1>6. /\ Distinct(copy) /\ \A c \in copy : Faithful(c)
  BY CopyTimes DEF HoldsCopy
<1>7. /\ DOMAIN first = 1 .. Len(first) /\ DOMAIN found = 1 .. Len(found)
  BY <1>4, <1>5, SeqElements
<1> HIDE DEF found, first
<1>8. /\ Len(body) = Len(first)
      /\ Elements(body) = {c.target.target_id : c \in Elements(first)}
      /\ {c \in copy : c.target.target_id \in Elements(body)} = Elements(first)
  BY <1>5, <1>6, IdsOfIs
<1>9. 1 .. Len(first) \subseteq 1 .. Len(found)
  BY <1>5
<1>10. \A i, j \in 1 .. Len(first) : i < j => Before(first[i], first[j])
  BY <1>4, <1>5, <1>9
<1>11. Cardinality(Elements(first)) = Len(first)
  BY <1>5, <1>6, <1>10, ElementsCounted
<1>12. Elements(first) \subseteq Elements(found)
  BY <1>5, <1>7, <1>9 DEF Elements
<1>13. \A c \in Elements(first) : Qualifies(c, clock)
  BY <1>2, <1>12 DEF Qualifies, Shown, StatusOf
<1>14. ASSUME NEW c \in copy, c \notin Elements(first), Qualifies(c, fetched)
       PROVE  /\ Len(first) = request.most
              /\ \A d \in Elements(first) : Before(d, c)
  <2>1. c \in Elements(found)
    BY <1>2, <1>14 DEF found
  <2>2. PICK k \in 1 .. Len(found) : found[k] = c
    BY <1>7, <2>1 DEF Elements
  <2>3. ~(k \in 1 .. Len(first))
    BY <1>5, <1>7, <1>14, <2>2 DEF Elements
  <2>4. k > Len(first) /\ Len(first) < Len(found)
    BY <1>5, <2>3
  <2>5. ASSUME NEW i \in 1 .. Len(first) PROVE Before(first[i], c)
    <3>1. i \in 1 .. Len(found) /\ i < k
      BY <1>5, <2>4
    <3>2. QED
      BY <1>4, <1>5, <2>2, <3>1
  <2>6. QED
    BY <1>5, <1>7, <2>4, <2>5 DEF Elements
<1> DEFINE results == Elements(first)
<1>15. /\ {c \in copy : c.target.target_id \in Elements(answer.body)}' = results
       /\ Len(answer.body)' = Len(first)
  BY <1>1, <1>8 DEF Elements
<1>16. /\ \A c \in results : Qualifies(c, clock)'
       /\ \A c \in copy \ results : Qualifies(c, fetched)' =>
             Len(first) = request.most /\ \A d \in results : Before(d, c)
  BY <1>13, <1>14 DEF Qualifies, vars
<1>17. FirstMatchesReturned'
  <2> HIDE DEF results
  <2>1. Len(first) = Cardinality(results) /\ Len(first) <= request.most
    BY <1>5, <1>11 DEF results
  <2>2. QED
    BY <1>15, <1>16, <2>1 DEF FirstMatchesReturned, Before
<1>18. Elements(body) \cap gone = {}
  <2>1. \A c \in Elements(first) : c.target.delete_date = NoDate /\ c \in copy
    BY <1>8, <1>13 DEF Qualifies
  <2>2. QED
    BY <1>6, <1>8, <2>1 DEF Faithful
<1>19. QED
  BY <1>1, <1>17, <1>18

LEMMA FetchQueries ==
    ASSUME Base, Fetch, AbstractStep
    PROVE  Finding'
<1>1. UNCHANGED <<vars, workload, request, gone, stays>> /\ place = "fetch"
  BY DEF Fetch
<1>2. \/ place' = "answer" /\ answer'.code \in {"AuthenticationFailure", "ServerError"}
      \/ place' = "look" /\ look' = Start(copy')
  BY DEF Fetch, Reply
<1>3. FirstMatchesReturned'
  BY <1>2 DEF FirstMatchesReturned, Answered
<1>4. ASSUME place' = "look", request.op = "query" PROVE Querying(look)'
  <2> DEFINE M == {c \in copy' : c.target.image_value = request.image}
  <2>1. look' = [at |-> "status", found |-> <<>>, left |-> Sorted(M)]
    BY <1>2, <1>4 DEF Start
  <2>2. Base'
    BY FetchKeepsBase
  <2>3. IsFiniteSet(copy') /\ Distinct(copy')
    BY <1>4, <2>2 DEF Base, CopyOK, HoldsCopy
  <2>4. IsFiniteSet(M) /\ Distinct(M)
    BY <2>3, FS_Subset DEF Distinct
  <2>5. /\ Sorted(M) \in Seq(copy') /\ Elements(Sorted(M)) = M
        /\ \A i, j \in 1 .. Len(Sorted(M)) : i < j => Before(Sorted(M)[i], Sorted(M)[j])
    BY <2>4, SortedElements
  <2> DEFINE left == Sorted(M)
  <2>6. look'.at = "status" /\ look'.found = <<>> /\ look'.left = left
    BY <2>1
  <2>7. look' = [at |-> look'.at, left |-> look'.left, found |-> look'.found]
    BY <2>1
  <2> HIDE DEF left
  <2>8. Ordering(look.found, look.left)'
    <3>1. <<>> \in Seq(copy') /\ Len(<<>>) = 0
      BY EmptySeq
    <3>2. left \in Seq(copy')
      BY <2>5 DEF left
    <3>3. \A i, j \in 1 .. Len(left) : i < j => Before(left[i], left[j])
      BY <2>5 DEF left
    <3>4. QED
      BY <2>6, <3>1, <3>2, <3>3 DEF Ordering, Before
  <2>9. Elements(left) = M
    BY <2>5 DEF left
  <2>10. \A c \in M : c.target.image_value = request.image
    OBVIOUS
  <2>11. \A c \in copy' : Qualifies(c, fetched)' => c \in M
    BY <1>1 DEF Qualifies
  <2> HIDE DEF M
  <2>12. Elements(look.found)' = {} /\ Elements(look.left)' = M
    BY <2>6, <2>9, NoElements DEF Elements
  <2>13. Matched(look)' = M
    BY <2>12 DEF Matched
  <2>14. QED
    BY <1>1, <2>6, <2>7, <2>8, <2>10, <2>11, <2>12, <2>13 DEF Querying
<1>5. Query'
  BY <1>1, <1>4 DEF Query
<1>6. QED
  BY <1>3, <1>5 DEF Finding

LEMMA LookQueries ==
    ASSUME Base, Finding, Look
    PROVE  Finding'
<1>1. /\ place = "look"
      /\ UNCHANGED <<vars, workload, request, copy, fetched, gone, stays>>
  BY LookEffect
<1>2. CASE request.op # "query"
  BY <1>1, <1>2 DEF Finding, Query, FirstMatchesReturned, Answered
<1>3. CASE request.op = "query"
  <2>1. Querying(look)
    BY <1>1, <1>3 DEF Finding, Query
  <2>2. Match \/ NextMatches \/ Results
    BY <1>3 DEF Look, List, Record, CountOne, NextView, Compare, Duplicates
  <2>3. CASE Match \/ NextMatches
    <3>1. Querying(look)' /\ place' = "look"
      BY <1>1, <2>1, <2>3, MatchQueries, NextMatchesQueries
    <3>2. QED
      BY <3>1 DEF Finding, Query, FirstMatchesReturned, Answered
  <2>4. CASE Results
    <3>1. place' = "answer" /\ FirstMatchesReturned'
      BY <1>1, <2>1, <2>4, ResultsFind
    <3>2. QED
      BY <3>1 DEF Finding, Query
  <2>5. QED
    BY <2>2, <2>3, <2>4
<1>4. QED
  BY <1>2, <1>3

LEMMA FindingQuiet ==
    ASSUME Base, Finding, Quiet
    PROVE  Finding'
<1>1. AbstractStep /\ UNCHANGED <<request, place, copy, fetched, look, answer>>
  BY DEF Quiet, reader
<1>2. clock \in Nat /\ clock' \in Nat /\ clock <= clock'
  BY <1>1, ClockGoesOn DEF Base, Manager
<1>3. ASSUME HoldsCopy, NEW c \in copy PROVE Shown(c) => Shown(c)'
  BY <1>2, <1>3, CopyTimes, ShownStays
<1>4. \A c : Qualifies(c, fetched)' <=> Qualifies(c, fetched)
  BY <1>1 DEF Qualifies
<1>5. ASSUME place = "look", request.op = "query" PROVE Querying(look)'
  <2>1. Querying(look)
    BY <1>5 DEF Finding, Query
  <2>2. Elements(look.found) \subseteq copy /\ Elements(look.left) \subseteq copy
    BY <2>1, SeqElements DEF Querying, Ordering
  <2>3. /\ Elements(look.found)' = Elements(look.found)
        /\ Elements(look.left)' = Elements(look.left)
        /\ Matched(look)' = Matched(look)
        /\ Ordering(look.found, look.left)'
    BY <1>1, <2>1 DEF Elements, Matched, Ordering, Querying
  <2>4. \A c \in copy : Shown(c) => Shown(c)'
    BY <1>3, <1>5 DEF HoldsCopy
  <2>5. QED
    BY <1>1, <1>4, <2>1, <2>2, <2>3, <2>4 DEF Querying
<1>6. Query'
  BY <1>1, <1>5 DEF Query
<1>7. ASSUME Answered("query") PROVE FirstMatchesReturned'
  <2> DEFINE results == {c \in copy : c.target.target_id \in Elements(answer.body)}
  <2>1. HoldsCopy
    BY <1>7 DEF Answered, HoldsCopy
  <2>2. FirstMatchesReturned
    BY DEF Finding
  <2>3. /\ Len(answer.body) = Cardinality(results)
        /\ Len(answer.body) <= request.most
        /\ \A c \in results : Qualifies(c, clock)
        /\ \A c \in copy \ results : Qualifies(c, fetched) =>
              Len(answer.body) = request.most /\ \A d \in results : Before(d, c)
    BY <1>7, <2>2 DEF FirstMatchesReturned
  <2>4. ASSUME NEW c \in copy, Qualifies(c, clock) PROVE Qualifies(c, clock)'
    <3>1. Shown(c)
      BY <2>4 DEF Qualifies, Shown, StatusOf
    <3>2. Shown(c)'
      BY <1>3, <2>1, <3>1
    <3>3. QED
      BY <1>1, <2>4, <3>2 DEF Qualifies, Shown, StatusOf
  <2>5. results' = results /\ results \subseteq copy
    BY <1>1 DEF Elements
  <2>6. \A c \in results : Qualifies(c, clock)'
    BY <2>3, <2>4, <2>5
  <2> HIDE DEF results
  <2>7. {c \in copy : c.target.target_id \in Elements(answer.body)}' = results
    BY <2>5 DEF results
  <2>8. QED
    BY <1>1, <1>4, <2>3, <2>6, <2>7 DEF FirstMatchesReturned, Before
<1>8. FirstMatchesReturned'
  BY <1>1, <1>7 DEF FirstMatchesReturned, Answered
<1>9. QED
  BY <1>6, <1>8 DEF Finding

LEMMA FindingKept == Base /\ Finding /\ [ReadsNext]_reads_vars => Finding'
<1> SUFFICES ASSUME Base, Finding, [ReadsNext]_reads_vars PROVE Finding'
  OBVIOUS
<1>1. AbstractStep /\ (Quiet \/ Read)
  BY StepKinds
<1>2. CASE Ask \/ Validate \/ FetchClouds \/ Answer
  BY <1>2 DEF Ask, Validate, FetchClouds, Answer, Reply, Finding, Query,
              FirstMatchesReturned, Answered
<1>3. CASE Instance
  <2>1. place' = "answer" /\ UNCHANGED request /\ place = "fetch_vumarks"
    BY <1>3 DEF Instance, Reply
  <2>2. request.op = "instance"
    BY <2>1 DEF Base, Shape
  <2>3. QED
    BY <2>1, <2>2 DEF Finding, Query, FirstMatchesReturned, Answered
<1>4. QED
  BY <1>1, <1>2, <1>3, FindingQuiet, FetchQueries, LookQueries DEF Read

LEMMA FindingInit == ReadsInit => Finding
  BY DEF ReadsInit, Finding, Query, FirstMatchesReturned, Answered

LEMMA FindingHolds == ReadsSpec => []Finding
  BY FindingInit, FindingKept, BaseHolds, PTL DEF ReadsSpec

\* Of what qualified when it was copied a query returns the first, and nothing
\* that does not qualify.
THEOREM FirstMatchesStayReturned == ReadsSpec => []FirstMatchesReturned
<1>1. Finding => FirstMatchesReturned
  BY DEF Finding
<1>2. QED
  BY <1>1, FindingHolds, PTL

-----------------------------------------------------------------------------
\* Deleted targets: a record is of a target that was not deleted, and lists and
\* matches leave deleted ones out.
Recorded ==
    request # None /\ request.op = "record" =>
       (place = "fetch" \/ place = "look" \/ Answered("record")
          => request.target_id \notin gone)

Unserved == Recorded /\ DeletedNotServed

LEMMA ListUnserved ==
    ASSUME Base, List, place = "look", UNCHANGED copy
    PROVE  Elements(answer'.body) \cap gone = {}
<1>1. /\ IsFiniteSet(copy) /\ Distinct(copy) /\ \A c \in copy : Faithful(c)
  BY CopyTimes DEF HoldsCopy
<1>2. /\ NotDeletedCopies \subseteq copy /\ IsFiniteSet(NotDeletedCopies)
      /\ Distinct(NotDeletedCopies)
  BY <1>1, FS_Subset DEF NotDeletedCopies, Distinct
<1>3. /\ Sorted(NotDeletedCopies) \in Seq(copy)
      /\ Elements(Sorted(NotDeletedCopies)) = NotDeletedCopies
  BY <1>2, SortedElements
<1>4. answer'.body = IdsOf(Sorted(NotDeletedCopies))
  BY DEF List, Reply
<1>5. Elements(answer'.body) = {c.target.target_id : c \in NotDeletedCopies}
  BY <1>1, <1>3, <1>4, IdsOfIs
<1>6. QED
  BY <1>1, <1>5 DEF NotDeletedCopies, Faithful

LEMMA LookUnserved ==
    ASSUME Base, Finding, Unserved, Look
    PROVE  Unserved'
<1>1. /\ place = "look"
      /\ UNCHANGED <<vars, workload, request, copy, fetched, gone, stays>>
  BY LookEffect
<1>2. Recorded'
  BY <1>1 DEF Unserved, Recorded, Answered
<1>3. ASSUME place' = "answer", request.op = "list"
      PROVE  Elements(answer'.body) \cap gone = {}
  <2>1. List
    BY <1>3 DEF Look, Record, CountOne, NextView, Compare, Duplicates, Match,
                NextMatches, Results
  <2>2. QED
    BY <1>1, <2>1, ListUnserved
<1>4. ASSUME place' = "answer", request.op = "query"
      PROVE  Elements(answer'.body) \cap gone = {}
  <2>1. Results
    BY <1>1, <1>4 DEF Look, List, Record, CountOne, NextView, Compare, Duplicates,
                      Match, NextMatches
  <2>2. QED
    BY <1>1, <1>4, <2>1, ResultsFind DEF Finding, Query
<1>5. ASSUME Answered("record")' PROVE request.target_id \notin gone
  <2>1. request # None /\ request.op = "record"
    BY <1>1, <1>5 DEF Answered, Base, ReadsTypeOK
  <2>2. QED
    BY <1>1, <2>1 DEF Unserved, Recorded
<1>6. Elements(answer.body)' = Elements(answer'.body)
  BY DEF Elements
<1>7. DeletedNotServed'
  BY <1>1, <1>3, <1>4, <1>5, <1>6 DEF DeletedNotServed, Answered
<1>8. QED
  BY <1>2, <1>7 DEF Unserved

LEMMA ValidateUnserved ==
    ASSUME Base, Unserved, Validate
    PROVE  Unserved'
<1>1. /\ place = "validate"
      /\ UNCHANGED <<vars, workload, request, copy, fetched, look, gone, stays>>
  BY DEF Validate
<1>2. \/ place' = "fetch"
      \/ place' = "answer" /\ answer'.code \in {"AuthenticationFailure", "UnknownTarget"}
  BY DEF Validate, Reply
<1>3. ASSUME place' = "fetch", request.op = "record"
      PROVE  request.target_id \notin gone
  <2>1. PICK db \in Matching(cloud_databases) :
          WithId(NotDeleted(targets[db]), request.target_id) # {}
    BY <1>3 DEF Validate, Reply, OfTarget
  <2>2. db \in CloudDatabases
    BY DEF Matching, Base, Manager, TypeOK
  <2>3. PICK t \in targets[db] : t.delete_date = NoDate /\ t.target_id = request.target_id
    BY <2>1 DEF WithId, NotDeleted
  <2>4. QED
    BY <2>2, <2>3 DEF Base, GoneStays
<1>4. Recorded'
  BY <1>1, <1>2, <1>3 DEF Recorded, Answered
<1>5. DeletedNotServed'
  BY <1>2 DEF DeletedNotServed, Answered
<1>6. QED
  BY <1>4, <1>5 DEF Unserved

LEMMA UnservedKept ==
    Base /\ Finding /\ Unserved /\ [ReadsNext]_reads_vars => Unserved'
<1> SUFFICES ASSUME Base, Finding, Unserved, [ReadsNext]_reads_vars PROVE Unserved'
  OBVIOUS
<1>1. AbstractStep /\ (Quiet \/ Read)
  BY StepKinds
<1>2. CASE Quiet
  BY <1>2 DEF Quiet, reader, Unserved, Recorded, DeletedNotServed, Answered, Elements
<1>3. CASE Ask
  <2>1. PICK req \in Requests :
          /\ request' = req
          /\ place' = IF req.op \in {"query", "instance"} THEN "fetch" ELSE "validate"
    BY <1>3 DEF Ask
  <2>2. Recorded' /\ DeletedNotServed'
    BY <2>1 DEF Recorded, DeletedNotServed, Answered
  <2>3. QED
    BY <2>2 DEF Unserved
<1>4. CASE Fetch
  <2>1. /\ UNCHANGED <<vars, workload, request, gone, stays>> /\ place = "fetch"
        /\ \/ place' = "answer" /\ answer'.code \in {"AuthenticationFailure", "ServerError"}
           \/ place' = "look"
    BY <1>4 DEF Fetch, Reply
  <2>2. Recorded'
    BY <2>1 DEF Unserved, Recorded, Answered
  <2>3. DeletedNotServed'
    BY <2>1 DEF DeletedNotServed, Answered
  <2>4. QED
    BY <2>2, <2>3 DEF Unserved
<1>5. CASE FetchClouds
  <2>1. place' = "fetch_vumarks"
    BY <1>5 DEF FetchClouds
  <2>2. QED
    BY <2>1 DEF Unserved, Recorded, DeletedNotServed, Answered
<1>6. CASE Instance
  <2>1. place' = "answer" /\ UNCHANGED request /\ place = "fetch_vumarks"
    BY <1>6 DEF Instance, Reply
  <2>2. request.op = "instance"
    BY <2>1 DEF Base, Shape
  <2>3. QED
    BY <2>1, <2>2 DEF Unserved, Recorded, DeletedNotServed, Answered
<1>7. CASE Answer
  BY <1>7 DEF Answer, Unserved, Recorded, DeletedNotServed, Answered
<1>8. QED
  BY <1>1, <1>2, <1>3, <1>4, <1>5, <1>6, <1>7, ValidateUnserved, LookUnserved DEF Read

\* No target that was deleted before the request was sent is listed, matched or
\* reported, whatever database has its credentials by now.
THEOREM DeletedStaysUnserved == ReadsSpec => []DeletedNotServed
<1>1. ReadsInit => Unserved
  BY DEF ReadsInit, Unserved, Recorded, DeletedNotServed, Answered
<1>2. Unserved => DeletedNotServed
  BY DEF Unserved
<1>3. QED
  BY <1>1, <1>2, UnservedKept, BaseHolds, FindingHolds, PTL DEF ReadsSpec

-----------------------------------------------------------------------------
\* Duplicates: what the reader has seen of the target itself and of the other.
IsDuplicate(c) ==
    /\ Status(c.target, fetched) # "failed" /\ StatusOf(c) # "processing"
    /\ Status(Own.target, fetched) # "failed"
    /\ c.target.image_value = Own.target.image_value /\ c.target.active_flag

Comparing(l) ==
    /\ l = [at |-> l.at, found |-> l.found, left |-> l.left]
    /\ l.at \in {"own", "other", "again"}
    /\ l.found \in Seq(copy) /\ l.left \in Seq(copy)
    /\ \A c \in Elements(l.left) : c.target.image_value = Own.target.image_value
    /\ \A c \in Elements(l.found) : IsDuplicate(c)
    /\ l.at # "own" => Status(Own.target, fetched) # "failed"
    /\ l.at = "again" => Status(Head(l.left).target, fetched) # "failed"

Comparison == place = "look" /\ request.op = "duplicates" => Comparing(look)

Paired == Comparison /\ DuplicatesProcessed

LEMMA OwnIsHeld ==
    ASSUME Base, HoldsCopy, request.op = "duplicates"
    PROVE  /\ Own \in copy /\ Own.target.target_id = request.target_id
           /\ \A c \in copy : c.target.target_id = request.target_id => c = Own
<1>1. /\ Distinct(copy)
      /\ \E c \in copy : c.target.target_id = request.target_id
  BY DEF Base, CopyOK, OfTarget
<1>2. Own \in copy /\ Own.target.target_id = request.target_id
  BY <1>1 DEF Own
<1>3. QED
  BY <1>1, <1>2 DEF Distinct

\* Who has not failed by now had not failed when the databases were copied.
LEMMA NotFailedBefore ==
    ASSUME Base, HoldsCopy, NEW c \in copy, StatusOf(c) # "failed"
    PROVE  Status(c.target, fetched) # "failed"
<1>1. /\ fetched \in Nat /\ clock \in Nat /\ fetched <= clock
      /\ c.target \in ImageTarget
  BY CopyTimes
<1>2. QED
  BY <1>1, StatusesSettle DEF StatusOf

LEMMA CompareCompares ==
    ASSUME Base, Comparing(look), Compare, place = "look",
           UNCHANGED <<vars, request, copy, fetched>>
    PROVE  Comparing(look)' /\ place' = "look"
<1> DEFINE other == Head(look.left)
<1>1. /\ look = [at |-> look.at, found |-> look.found, left |-> look.left]
      /\ look.at \in {"own", "other", "again"}
      /\ look.found \in Seq(copy) /\ look.left \in Seq(copy)
      /\ \A c \in Elements(look.left) : c.target.image_value = Own.target.image_value
      /\ \A c \in Elements(look.found) : IsDuplicate(c)
      /\ look.at # "own" => Status(Own.target, fetched) # "failed"
      /\ look.at = "again" => Status(other.target, fetched) # "failed"
  BY DEF Comparing
<1>2. /\ look.left # <<>> /\ place' = "look" /\ request.op = "duplicates"
      /\ \/ /\ look.at = "own"
            /\ look' = IF StatusOf(Own) = "failed" THEN Dropped
                       ELSE [look EXCEPT !.at = "other"]
         \/ /\ look.at = "other"
            /\ look' = IF StatusOf(other) = "failed" THEN Dropped
                       ELSE [look EXCEPT !.at = "again"]
         \/ /\ look.at = "again"
            /\ look' = IF StatusOf(other) = "processing" \/ ~other.target.active_flag
                       THEN Dropped
                       ELSE [Dropped EXCEPT !.found = Append(@, other)]
  BY DEF Compare
<1>3. /\ other \in copy /\ other \in Elements(look.left)
      /\ Tail(look.left) \in Seq(copy)
      /\ Elements(Tail(look.left)) \subseteq Elements(look.left)
  BY <1>1, <1>2, HeadTail
<1>4. HoldsCopy
  BY DEF HoldsCopy
<1>5. Own \in copy
  BY <1>2, <1>4, OwnIsHeld
<1>6. /\ Own' = Own
      /\ \A c : IsDuplicate(c)' <=> IsDuplicate(c)
      /\ \A c : Status(c.target, fetched)' = Status(c.target, fetched)
  BY DEF Own, IsDuplicate, StatusOf, vars
<1>7. Dropped = [at |-> "own", found |-> look.found, left |-> Tail(look.left)]
  <2> DEFINE Looks == [at : {"own", "other", "again"}, found : Seq(copy), left : Seq(copy)]
  <2>1. look \in Looks /\ Tail(look.left) \in Seq(copy)
    BY <1>1, <1>3
  <2>2. Dropped = [look EXCEPT !.left = Tail(look.left), !.at = "own"]
    BY DEF Dropped
  <2>3. /\ Dropped \in Looks /\ Dropped.at = "own"
        /\ Dropped.found = look.found /\ Dropped.left = Tail(look.left)
    BY <2>1, <2>2
  <2>4. Dropped = [at |-> Dropped.at, found |-> Dropped.found, left |-> Dropped.left]
    BY <2>3
  <2>5. QED
    BY <2>3, <2>4, Zenon
<1> HIDE DEF other
<1>8. CASE look' = Dropped
  <2>1. /\ look'.at = "own" /\ look'.found = look.found /\ look'.left = Tail(look.left)
        /\ look' = [at |-> look'.at, found |-> look'.found, left |-> look'.left]
    BY <1>7, <1>8
  <2>2. /\ Elements(look.found)' = Elements(look.found)
        /\ Elements(look.left)' = Elements(Tail(look.left))
    BY <2>1 DEF Elements
  <2>3. QED
    BY <1>1, <1>2, <1>3, <1>6, <2>1, <2>2 DEF Comparing
<1>9. CASE look.at = "own" /\ StatusOf(Own) # "failed"
  <2>1. look' = [look EXCEPT !.at = "other"]
    BY <1>2, <1>9
  <2>2. /\ look'.at = "other" /\ look'.found = look.found /\ look'.left = look.left
        /\ look' = [at |-> look'.at, found |-> look'.found, left |-> look'.left]
    BY <1>1, <2>1
  <2>3. Status(Own.target, fetched) # "failed"
    BY <1>4, <1>5, <1>9, NotFailedBefore
  <2>4. /\ Elements(look.found)' = Elements(look.found)
        /\ Elements(look.left)' = Elements(look.left)
    BY <2>2 DEF Elements
  <2>5. QED
    BY <1>1, <1>2, <1>6, <2>2, <2>3, <2>4 DEF Comparing
<1>10. CASE look.at = "other" /\ StatusOf(other) # "failed"
  <2>1. look' = [look EXCEPT !.at = "again"]
    BY <1>2, <1>10
  <2>2. /\ look'.at = "again" /\ look'.found = look.found /\ look'.left = look.left
        /\ look' = [at |-> look'.at, found |-> look'.found, left |-> look'.left]
    BY <1>1, <2>1
  <2>3. Status(other.target, fetched) # "failed"
    BY <1>3, <1>4, <1>10, NotFailedBefore
  <2>4. /\ Elements(look.found)' = Elements(look.found)
        /\ Elements(look.left)' = Elements(look.left)
    BY <2>2 DEF Elements
  <2>5. Status(Head(look.left).target, fetched)' # "failed"
    BY <2>2, <2>3 DEF other
  <2>6. QED
    BY <1>1, <1>2, <1>6, <1>10, <2>2, <2>4, <2>5 DEF Comparing
<1>11. CASE /\ look.at = "again"
            /\ StatusOf(other) # "processing" /\ other.target.active_flag
  <2>1. look' = [Dropped EXCEPT !.found = Append(@, other)]
    BY <1>2, <1>11
  <2>2. /\ look'.at = "own" /\ look'.found = Append(look.found, other)
        /\ look'.left = Tail(look.left)
        /\ look' = [at |-> look'.at, found |-> look'.found, left |-> look'.left]
    BY <1>7, <2>1
  <2>3. IsDuplicate(other)
    BY <1>1, <1>3, <1>11 DEF IsDuplicate
  <2>4. /\ Append(look.found, other) \in Seq(copy)
        /\ Elements(Append(look.found, other)) = Elements(look.found) \cup {other}
    BY <1>1, <1>3, Appended
  <2>5. /\ Elements(look.found)' = Elements(look.found) \cup {other}
        /\ Elements(look.left)' = Elements(Tail(look.left))
    BY <2>2, <2>4 DEF Elements
  <2>6. QED
    BY <1>1, <1>2, <1>3, <1>6, <2>2, <2>3, <2>4, <2>5 DEF Comparing
<1>12. QED
  BY <1>1, <1>2, <1>8, <1>9, <1>10, <1>11

LEMMA FetchCompares ==
    ASSUME Base, Fetch, AbstractStep
    PROVE  Paired'
<1>1. UNCHANGED <<vars, workload, request, gone, stays>> /\ place = "fetch"
  BY DEF Fetch
<1>2. \/ place' = "answer" /\ answer'.code \in {"AuthenticationFailure", "ServerError"}
      \/ place' = "look" /\ look' = Start(copy')
  BY DEF Fetch, Reply
<1>3. DuplicatesProcessed'
  BY <1>2 DEF DuplicatesProcessed, Answered
<1>4. ASSUME place' = "look", request.op = "duplicates" PROVE Comparing(look)'
  <2> DEFINE M == {c \in copy' : \E own \in copy' :
                     /\ own.target.target_id = request.target_id
                     /\ c # own
                     /\ c.target.image_value = own.target.image_value}
  <2>1. look' = [at |-> "own", found |-> <<>>, left |-> Sorted(M)]
    BY <1>2, <1>4 DEF Start
  <2>2. Base' /\ HoldsCopy'
    BY <1>4, FetchKeepsBase DEF HoldsCopy
  <2>3. /\ IsFiniteSet(copy') /\ Distinct(copy')
        /\ \E c \in copy' : c.target.target_id = request.target_id
    BY <1>1, <1>4, <2>2 DEF Base, CopyOK, OfTarget
  <2>4. IsFiniteSet(M) /\ Distinct(M) /\ M \subseteq copy'
    BY <2>3, FS_Subset DEF Distinct
  <2>5. Sorted(M) \in Seq(copy') /\ Elements(Sorted(M)) = M
    BY <2>4, SortedElements
  <2>6. Own' \in copy' /\ Own'.target.target_id = request.target_id
    BY <1>1, <2>3 DEF Own
  <2>7. \A c \in M : c.target.image_value = Own'.target.image_value
    BY <2>3, <2>6 DEF Distinct
  <2> DEFINE left == Sorted(M)
  <2>8. /\ look'.at = "own" /\ look'.found = <<>> /\ look'.left = left
        /\ look' = [at |-> look'.at, found |-> look'.found, left |-> look'.left]
    BY <2>1
  <2>9. /\ left \in Seq(copy') /\ <<>> \in Seq(copy')
        /\ Elements(left) = M
    BY <2>5, EmptySeq
  <2> HIDE DEF M, left
  <2>10. Elements(look.found)' = {} /\ Elements(look.left)' = M
    BY <2>8, <2>9, NoElements DEF Elements
  <2>11. QED
    BY <2>7, <2>8, <2>9, <2>10 DEF Comparing
<1>5. Comparison'
  BY <1>1, <1>4 DEF Comparison
<1>6. QED
  BY <1>3, <1>5 DEF Paired

LEMMA LookCompares ==
    ASSUME Base, Paired, Look
    PROVE  Paired'
<1>1. /\ place = "look"
      /\ UNCHANGED <<vars, workload, request, copy, fetched, gone, stays>>
  BY LookEffect
<1>2. CASE request.op # "duplicates"
  BY <1>1, <1>2 DEF Paired, Comparison, DuplicatesProcessed, Answered
<1>3. CASE request.op = "duplicates"
  <2>1. Comparing(look)
    BY <1>1, <1>3 DEF Paired, Comparison
  <2>2. Compare \/ Duplicates
    BY <1>3 DEF Look, List, Record, CountOne, NextView, Match, NextMatches, Results
  <2>3. CASE Compare
    <3>1. Comparing(look)' /\ place' = "look"
      BY <1>1, <2>1, <2>3, CompareCompares
    <3>2. QED
      BY <3>1 DEF Paired, Comparison, DuplicatesProcessed, Answered
  <2>4. CASE Duplicates
    <3>1. place' = "answer" /\ answer'.body = IdsOf(look.found)
      BY <2>4 DEF Duplicates, Reply
    <3>2. Distinct(copy)
      BY <1>1, CopyTimes DEF HoldsCopy
    <3>3. look.found \in Seq(copy) /\ \A c \in Elements(look.found) : IsDuplicate(c)
      BY <2>1 DEF Comparing
    <3>4. {c \in copy : c.target.target_id \in Elements(IdsOf(look.found))}
            = Elements(look.found)
      BY <3>2, <3>3, IdsOfIs
    <3>5. /\ Own' = Own
          /\ {c \in copy : c.target.target_id \in Elements(answer.body)}'
               = Elements(look.found)
      BY <1>1, <3>1, <3>4 DEF Own, Elements
    <3>6. \A c \in Elements(look.found) : IsDuplicate(c)'
      BY <1>1, <3>3, <3>5 DEF IsDuplicate, StatusOf, vars
    <3>7. DuplicatesProcessed'
      BY <3>5, <3>6 DEF DuplicatesProcessed, IsDuplicate
    <3>8. QED
      BY <3>1, <3>7 DEF Paired, Comparison
  <2>5. QED
    BY <2>2, <2>3, <2>4
<1>4. QED
  BY <1>2, <1>3

LEMMA PairedQuiet ==
    ASSUME Base, Paired, Quiet
    PROVE  Paired'
<1>1. AbstractStep /\ UNCHANGED <<request, place, copy, fetched, look, answer>>
  BY DEF Quiet, reader
<1>2. clock \in Nat /\ clock' \in Nat /\ clock <= clock'
  BY <1>1, ClockGoesOn DEF Base, Manager
<1>3. Own' = Own
  BY <1>1 DEF Own
<1>4. ASSUME HoldsCopy, NEW c \in copy, IsDuplicate(c) PROVE IsDuplicate(c)'
  <2>1. c.target \in ImageTarget
    BY <1>4, CopyTimes
  <2>2. StatusOf(c)' # "processing"
    BY <1>2, <1>4, <2>1, StatusesSettle DEF IsDuplicate, StatusOf
  <2>3. QED
    BY <1>1, <1>3, <1>4, <2>2 DEF IsDuplicate
<1>5. ASSUME place = "look", request.op = "duplicates" PROVE Comparing(look)'
  <2>1. Comparing(look)
    BY <1>5 DEF Paired, Comparison
  <2>2. Elements(look.found) \subseteq copy
    BY <2>1, SeqElements DEF Comparing
  <2>3. /\ Elements(look.found)' = Elements(look.found)
        /\ Elements(look.left)' = Elements(look.left)
    BY <1>1 DEF Elements
  <2>4. \A c \in Elements(look.found) : IsDuplicate(c)'
    BY <1>4, <1>5, <2>1, <2>2 DEF Comparing, HoldsCopy
  <2>5. QED
    BY <1>1, <1>3, <2>1, <2>3, <2>4 DEF Comparing
<1>6. Comparison'
  BY <1>1, <1>5 DEF Comparison
<1>7. ASSUME Answered("duplicates") PROVE DuplicatesProcessed'
  <2> DEFINE results == {c \in copy : c.target.target_id \in Elements(answer.body)}
  <2>1. HoldsCopy
    BY <1>7 DEF Answered, HoldsCopy
  <2>2. \A c \in results : IsDuplicate(c)
    BY <1>7 DEF Paired, DuplicatesProcessed, IsDuplicate
  <2>3. \A c \in results : IsDuplicate(c)'
    BY <1>4, <2>1, <2>2
  <2>4. {c \in copy : c.target.target_id \in Elements(answer.body)}' = results
    BY <1>1 DEF Elements
  <2> HIDE DEF results
  <2>5. QED
    BY <2>3, <2>4 DEF DuplicatesProcessed, IsDuplicate
<1>8. DuplicatesProcessed'
  BY <1>1, <1>7 DEF DuplicatesProcessed, Answered
<1>9. QED
  BY <1>6, <1>8 DEF Paired

LEMMA PairedKept == Base /\ Paired /\ [ReadsNext]_reads_vars => Paired'
<1> SUFFICES ASSUME Base, Paired, [ReadsNext]_reads_vars PROVE Paired'
  OBVIOUS
<1>1. AbstractStep /\ (Quiet \/ Read)
  BY StepKinds
<1>2. CASE Ask \/ Validate \/ FetchClouds \/ Answer
  BY <1>2 DEF Ask, Validate, FetchClouds, Answer, Reply, Paired, Comparison,
              DuplicatesProcessed, Answered
<1>3. CASE Instance
  <2>1. place' = "answer" /\ UNCHANGED request /\ place = "fetch_vumarks"
    BY <1>3 DEF Instance, Reply
  <2>2. request.op = "instance"
    BY <2>1 DEF Base, Shape
  <2>3. QED
    BY <2>1, <2>2 DEF Paired, Comparison, DuplicatesProcessed, Answered
<1>4. QED
  BY <1>1, <1>2, <1>3, PairedQuiet, FetchCompares, LookCompares DEF Read

\* Every duplicate listed had not failed when it was copied, is not being
\* processed, and has the image of the target itself, which had not failed.
THEOREM DuplicatesStayProcessed == ReadsSpec => []DuplicatesProcessed
<1>1. ReadsInit => Paired
  BY DEF ReadsInit, Paired, Comparison, DuplicatesProcessed, Answered
<1>2. Paired => DuplicatesProcessed
  BY DEF Paired
<1>3. QED
  BY <1>1, <1>2, PairedKept, BaseHolds, PTL DEF ReadsSpec
=============================================================================
