--------------------------- MODULE MockVwsProofs ---------------------------
(***************************************************************************)
(* Theorems about MockVws, for every set of databases, whatever keys they  *)
(* share, and for blocks and calls nested to any depth.                    *)
(***************************************************************************)
EXTENDS MockVws, SequenceTheorems, FiniteSetTheorems, TLAPS

-----------------------------------------------------------------------------
\* Sequences and their elements.
LEMMA InElements ==
    ASSUME NEW S, NEW seq \in Seq(S)
    PROVE  /\ \A i \in 1 .. Len(seq) : seq[i] \in Elements(seq)
           /\ \A e \in Elements(seq) : e \in S /\ \E i \in 1 .. Len(seq) : e = seq[i]
  BY DEF Elements

LEMMA ElementsOfAppend ==
    ASSUME NEW S, NEW seq \in Seq(S), NEW e \in S
    PROVE  /\ Append(seq, e) \in Seq(S)
           /\ Elements(Append(seq, e)) = Elements(seq) \cup {e}
           /\ Len(Append(seq, e)) = Len(seq) + 1
           /\ Append(seq, e)[Len(seq) + 1] = e
           /\ \A i \in 1 .. Len(seq) : Append(seq, e)[i] = seq[i]
           /\ Last(Append(seq, e)) = e
<1>1. /\ Append(seq, e) \in Seq(S)
      /\ Len(Append(seq, e)) = Len(seq) + 1
      /\ Append(seq, e)[Len(seq) + 1] = e
      /\ \A i \in 1 .. Len(seq) : Append(seq, e)[i] = seq[i]
      /\ Len(seq) \in Nat
  OBVIOUS
<1>2. /\ DOMAIN seq = 1 .. Len(seq)
      /\ DOMAIN Append(seq, e) = 1 .. (Len(seq) + 1)
  BY <1>1
<1>3. Elements(Append(seq, e)) = Elements(seq) \cup {e}
  <2>1. \A i \in 1 .. (Len(seq) + 1) : i \in 1 .. Len(seq) \/ i = Len(seq) + 1
    BY <1>1
  <2>2. Len(seq) + 1 \in 1 .. (Len(seq) + 1) /\ 1 .. Len(seq) \subseteq 1 .. (Len(seq) + 1)
    BY <1>1
  <2>3. QED
    BY <1>1, <1>2, <2>1, <2>2 DEF Elements
<1>4. QED
  BY <1>1, <1>3 DEF Last

LEMMA ElementsOfConcatenation ==
    ASSUME NEW S, NEW a \in Seq(S), NEW b \in Seq(S)
    PROVE  /\ a \o b \in Seq(S)
           /\ Elements(a \o b) = Elements(a) \cup Elements(b)
<1>1. /\ a \o b \in Seq(S) /\ Len(a \o b) = Len(a) + Len(b)
      /\ Len(a) \in Nat /\ Len(b) \in Nat
      /\ \A i \in 1 .. Len(a) : (a \o b)[i] = a[i]
      /\ \A i \in 1 .. Len(b) : (a \o b)[Len(a) + i] = b[i]
  OBVIOUS
<1>2. /\ DOMAIN a = 1 .. Len(a) /\ DOMAIN b = 1 .. Len(b)
      /\ DOMAIN (a \o b) = 1 .. (Len(a) + Len(b))
  BY <1>1
<1>3. \A i \in 1 .. (Len(a) + Len(b)) :
         i \in 1 .. Len(a) \/ \E j \in 1 .. Len(b) : i = Len(a) + j
  <2>1. SUFFICES ASSUME NEW i \in 1 .. (Len(a) + Len(b)), i \notin 1 .. Len(a)
                 PROVE  \E j \in 1 .. Len(b) : i = Len(a) + j
    OBVIOUS
  <2>2. i - Len(a) \in 1 .. Len(b) /\ i = Len(a) + (i - Len(a))
    BY <1>1, <2>1
  <2>3. QED
    BY <2>2
<1>4. /\ 1 .. Len(a) \subseteq 1 .. (Len(a) + Len(b))
      /\ \A j \in 1 .. Len(b) : Len(a) + j \in 1 .. (Len(a) + Len(b))
  BY <1>1
<1>5. \A e \in Elements(a \o b) : e \in Elements(a) \cup Elements(b)
  <2>1. SUFFICES ASSUME NEW i \in 1 .. (Len(a) + Len(b))
                 PROVE  (a \o b)[i] \in Elements(a) \cup Elements(b)
    BY <1>2 DEF Elements
  <2>2. CASE i \in 1 .. Len(a)
    BY <1>1, <1>2, <2>2 DEF Elements
  <2>3. CASE \E j \in 1 .. Len(b) : i = Len(a) + j
    BY <1>1, <1>2, <2>3 DEF Elements
  <2>4. QED
    BY <1>3, <2>2, <2>3
<1>6. \A e \in Elements(a) : e \in Elements(a \o b)
  BY <1>1, <1>2, <1>4 DEF Elements
<1>7. \A e \in Elements(b) : e \in Elements(a \o b)
  BY <1>1, <1>2, <1>4, ZenonT(30) DEF Elements
<1>8. QED
  BY <1>1, <1>5, <1>6, <1>7

LEMMA FrontLength ==
    ASSUME NEW n \in Nat, n > 0, NEW k, k = IF 1 <= n - 1 THEN n - 1 - 1 + 1 ELSE 0
    PROVE  k = n - 1
<1>1. CASE n = 1
  BY <1>1
<1>2. CASE n > 1
  BY <1>2
<1>3. QED
  BY <1>1, <1>2

LEMMA FrontAndLast ==
    ASSUME NEW S, NEW seq \in Seq(S), Len(seq) > 0
    PROVE  /\ Front(seq) \in Seq(S)
           /\ Len(Front(seq)) = Len(seq) - 1
           /\ \A i \in 1 .. (Len(seq) - 1) : Front(seq)[i] = seq[i]
           /\ Elements(Front(seq)) \subseteq Elements(seq)
           /\ Last(seq) \in Elements(seq) /\ Last(seq) \in S
<1>0. Len(seq) \in Nat /\ Len(seq) - 1 \in Nat /\ \A i \in 1 .. (Len(seq) - 1) : seq[i] \in S
  OBVIOUS
<1>1. /\ Front(seq) \in Seq(S)
      /\ Len(Front(seq)) = Len(seq) - 1
      /\ \A i \in 1 .. (Len(seq) - 1) : Front(seq)[i] = seq[i]
      /\ Len(seq) \in Nat
  <2>1. /\ Front(seq) \in Seq(S)
        /\ Len(Front(seq)) = IF 1 <= Len(seq) - 1 THEN Len(seq) - 1 - 1 + 1 ELSE 0
        /\ \A i \in 1 .. (Len(seq) - 1) - 1 + 1 : Front(seq)[i] = seq[1 + i - 1]
    BY <1>0, SubSeqProperties DEF Front
  <2>2. Len(Front(seq)) = Len(seq) - 1
    BY <1>0, <2>1, FrontLength
  <2>3. \A i \in 1 .. (Len(seq) - 1) : i \in 1 .. (Len(seq) - 1) - 1 + 1 /\ 1 + i - 1 = i
    BY <1>0
  <2>4. QED
    BY <1>0, <2>1, <2>2, <2>3
<1>2. Len(seq) \in 1 .. Len(seq) /\ 1 .. (Len(seq) - 1) \subseteq 1 .. Len(seq)
  BY <1>1
<1>3. DOMAIN Front(seq) = 1 .. (Len(seq) - 1) /\ DOMAIN seq = 1 .. Len(seq)
  BY <1>1
<1>4. QED
  BY <1>1, <1>2, <1>3 DEF Elements, Last
-----------------------------------------------------------------------------
\* What a handler puts in place of a target, or adds, is an image target.
LEMMA NewTargetType ==
    ASSUME NEW id \in TargetIds, NEW name \in Names, NEW image \in Images,
           NEW modified \in Nat, NEW uploaded \in Nat
    PROVE  NewTarget(id, name, image, modified, uploaded) \in ImageTarget
  BY DEF NewTarget, ImageTarget

LEMMA DeletedCopyType ==
    ASSUME NEW target \in ImageTarget, NEW now \in Nat
    PROVE  [target EXCEPT !.delete_date = now] \in ImageTarget
  BY DEF ImageTarget

UpdatedCopy(target, change) ==
    [target EXCEPT
       !.name = Given(change.name, target.name),
       !.image_value = Given(change.image_value, target.image_value),
       !.active_flag = Given(change.active_flag, target.active_flag),
       !.last_modified_date = clock]

LEMMA UpdatedCopyType ==
    ASSUME NEW target \in ImageTarget, NEW change \in Change, clock \in Nat
    PROVE  UpdatedCopy(target, change) \in ImageTarget
<1>1. /\ Given(change.name, target.name) \in Names
      /\ Given(change.image_value, target.image_value) \in Images
      /\ Given(change.active_flag, target.active_flag) \in BOOLEAN
  BY DEF Given, Change, ImageTarget
<1>2. QED
  BY <1>1 DEF UpdatedCopy, ImageTarget

\* The rules for the targets of one database.
Fine(ts, quota) ==
    /\ IsFiniteSet(NotDeleted(ts))
    /\ Cardinality(NotDeleted(ts)) <= quota
    /\ \A t, u \in NotDeleted(ts) : t.name = u.name => t = u

LEMMA RoomForOneMore ==
    ASSUME NEW quota \in Nat, NEW k \in Nat, ~(k >= quota)
    PROVE  k <= quota /\ k + 1 <= quota
  OBVIOUS

LEMMA AddKeepsRules ==
    ASSUME NEW ts, NEW quota \in Nat, Fine(ts, quota),
           NEW id, NEW name, NEW image, NEW modified, NEW uploaded,
           AddRefusal(ts, quota, name) = ""
    PROVE  Fine(ts \cup {NewTarget(id, name, image, modified, uploaded)}, quota)
<1> DEFINE new == NewTarget(id, name, image, modified, uploaded)
<1>1. new.name = name /\ new.delete_date = NoDate
  BY DEF NewTarget
<1>2. /\ ~(Cardinality(NotDeleted(ts)) >= quota)
      /\ \A t \in NotDeleted(ts) : t.name # name
  BY DEF AddRefusal, SameName
<1>3. NotDeleted(ts \cup {new}) = NotDeleted(ts) \cup {new}
  BY <1>1 DEF NotDeleted
<1> HIDE DEF new
<1>4. /\ IsFiniteSet(NotDeleted(ts) \cup {new})
      /\ \/ Cardinality(NotDeleted(ts) \cup {new}) = Cardinality(NotDeleted(ts))
         \/ Cardinality(NotDeleted(ts) \cup {new}) = Cardinality(NotDeleted(ts)) + 1
      /\ Cardinality(NotDeleted(ts)) \in Nat
  BY FS_AddElement, FS_CardinalityType DEF Fine
<1>5. Cardinality(NotDeleted(ts) \cup {new}) <= quota
  BY <1>2, <1>4, RoomForOneMore DEF Fine
<1>6. \A t, u \in NotDeleted(ts) \cup {new} : t.name = u.name => t = u
  BY <1>1, <1>2 DEF Fine
<1>7. QED
  BY <1>3, <1>4, <1>5, <1>6 DEF Fine, new

\* A target is replaced by one which is deleted, or has its name, or a name
\* that no other target has.
LEMMA ReplaceKeepsRules ==
    ASSUME NEW ts, NEW quota \in Nat, Fine(ts, quota),
           NEW target \in NotDeleted(ts), NEW new,
           new.delete_date = NoDate =>
              \A t \in NotDeleted(ts) : t.name = new.name => t = target
    PROVE  Fine(Replace(ts, target, new), quota)
<1> DEFINE others == NotDeleted(ts) \ {target}
<1>1. /\ IsFiniteSet(others) /\ Cardinality(others) = Cardinality(NotDeleted(ts)) - 1
      /\ Cardinality(NotDeleted(ts)) \in Nat /\ Cardinality(others) \in Nat
  BY FS_RemoveElement, FS_CardinalityType DEF Fine
<1>2. CASE new.delete_date = NoDate
  <2>1. NotDeleted(Replace(ts, target, new)) = others \cup {new}
    BY <1>2 DEF NotDeleted, Replace
  <2>2. \A t \in others : t.name # new.name
    BY <1>2
  <2> HIDE DEF others
  <2>3. /\ IsFiniteSet(others \cup {new})
        /\ \/ Cardinality(others \cup {new}) = Cardinality(others)
           \/ Cardinality(others \cup {new}) = Cardinality(others) + 1
    BY <1>1, FS_AddElement
  <2>4. Cardinality(others \cup {new}) <= quota
    BY <1>1, <2>3 DEF Fine
  <2>5. \A t, u \in others \cup {new} : t.name = u.name => t = u
    BY <2>2 DEF others, Fine
  <2>6. QED
    BY <2>1, <2>3, <2>4, <2>5 DEF Fine
<1>3. CASE new.delete_date # NoDate
  <2>1. NotDeleted(Replace(ts, target, new)) = others
    BY <1>3 DEF NotDeleted, Replace
  <2> HIDE DEF others
  <2>2. Cardinality(others) <= quota
    BY <1>1 DEF Fine
  <2>3. \A t, u \in others : t.name = u.name => t = u
    BY DEF others, Fine
  <2>4. QED
    BY <1>1, <2>1, <2>2, <2>3 DEF Fine
<1>4. QED
  BY <1>2, <1>3

\* The name check of an update: no other target has the name it leads to.
LEMMA NameLeftAlone ==
    ASSUME NEW ts, NEW quota, Fine(ts, quota), NEW id, NEW name,
           NEW target \in NotDeleted(ts), WithId(ts, id) = {target},
           NameRefusal(ts, id, name) = ""
    PROVE  \A t \in NotDeleted(ts) : t.name = Given(name, target.name) => t = target
<1>1. CASE name = Absent
  BY <1>1 DEF Given, Fine
<1>2. CASE name # Absent /\ SameName(ts, name) = {}
  BY <1>2 DEF Given, SameName
<1>3. CASE name # Absent /\ SameName(ts, name) # {}
  <2>1. WithId(SameName(ts, name), id) # {}
    BY <1>3 DEF NameRefusal
  <2>2. PICK t \in SameName(ts, name) : t.target_id = id
    BY <2>1 DEF WithId
  <2>3. t = target /\ t.name = name
    BY <2>2 DEF SameName, NotDeleted, WithId
  <2>4. QED
    BY <1>3, <2>3 DEF Given, Fine
<1>4. QED
  BY <1>1, <1>2, <1>3

\* Databases which fit together one after the other fit together.
LEMMA FittingDatabases ==
    ASSUME NEW dbs \in Seq(Databases), NEW n \in 0 .. Len(dbs), FitTogether(dbs, n)
    PROVE  \A i, j \in 1 .. n : dbs[i] # dbs[j] => <<dbs[i], dbs[j]>> \notin Conflicts
<1>1. SUFFICES ASSUME NEW i \in 1 .. n, NEW j \in 1 .. n, dbs[i] # dbs[j]
               PROVE  <<dbs[i], dbs[j]>> \notin Conflicts
  OBVIOUS
<1>2. \A a, b \in 1 .. n : b < a => <<dbs[a], dbs[b]>> \notin Conflicts
  BY DEF FitTogether, Fits
<1>3. i < j \/ j < i
  BY <1>1
<1>4. <<dbs[j], dbs[i]>> \notin Conflicts => <<dbs[i], dbs[j]>> \notin Conflicts
  <2>1. \A x, y : <<x, y>> \in Conflicts => <<y, x>> \in Conflicts
    BY MockAssumption
  <2>2. QED
    BY <2>1
<1>5. QED
  BY <1>2, <1>3, <1>4

-----------------------------------------------------------------------------
Snapshot == UNION {[dbs -> SUBSET ImageTarget] : dbs \in SUBSET CloudDatabases}

Context ==
    [kind : {"block"}, bound : Managers]
    \cup [kind : {"call"}, bound : Managers, original : Managers,
          snapshots : Snapshot, added : SUBSET Databases]

\* A target manager only holds databases which were added to the instance.
HeldAdded == \A m \in Managers : held[m] \subseteq Added

Typed == TypeOK /\ contexts \in Seq(Context) /\ HeldAdded

\* What changes the targets of a database which can be reached, and keeps the
\* rules for them.
TargetStep ==
    /\ \E db \in Reachable : \E changed \in SUBSET ImageTarget :
          /\ targets' = [targets EXCEPT ![db] = changed]
          /\ Fine(targets[db], TargetQuota[db]) => Fine(changed, TargetQuota[db])
    /\ issued' \subseteq TargetIds /\ clock' \in 0 .. MaxClock
    /\ UNCHANGED mock

LEMMA TargetSteps ==
    ASSUME TypeOK, NEW db \in CloudDatabases, NEW id \in TargetIds
    PROVE  /\ \A name \in Names, image \in Images :
                 AddTarget(db, id, name, image) => TargetStep
           /\ DeleteTarget(db, id) => TargetStep
           /\ \A change \in Changes : UpdateTarget(db, id, change) => TargetStep
<1>0. /\ clock \in Nat /\ clock \in 0 .. MaxClock /\ MaxClock \in Nat
      /\ targets[db] \subseteq ImageTarget /\ issued \subseteq TargetIds
      /\ Changes \subseteq Change /\ TargetQuota[db] \in Nat
  BY MockAssumption DEF TypeOK
<1>1. ASSUME NEW name \in Names, NEW image \in Images, AddTarget(db, id, name, image)
      PROVE  TargetStep
  <2> DEFINE added == targets[db] \cup {NewTarget(id, name, image, clock, clock')}
  <2>1. clock' \in 0 .. MaxClock /\ clock' \in Nat
    <3>1. clock' \in clock .. MaxClock
      BY <1>1 DEF AddTarget
    <3>2. QED
      BY <1>0, <3>1
  <2>2. added \in SUBSET ImageTarget
    BY <1>0, <2>1, NewTargetType
  <2>3. Fine(targets[db], TargetQuota[db]) => Fine(added, TargetQuota[db])
    BY <1>0, <1>1, AddKeepsRules DEF AddTarget
  <2>4. /\ db \in Reachable
        /\ targets' = [targets EXCEPT ![db] = added]
        /\ issued' = issued \cup {id} /\ UNCHANGED mock
    BY <1>1 DEF AddTarget
  <2> HIDE DEF added
  <2>5. QED
    BY <1>0, <2>1, <2>2, <2>3, <2>4 DEF TargetStep
<1>2. ASSUME DeleteTarget(db, id) PROVE TargetStep
  <2>1. PICK target \in NotDeleted(targets[db]) :
          targets' = [targets EXCEPT ![db] =
             Replace(@, target, [target EXCEPT !.delete_date = clock])]
    BY <1>2 DEF DeleteTarget
  <2> DEFINE gone == [target EXCEPT !.delete_date = clock]
  <2>2. target \in ImageTarget
    BY <1>0 DEF NotDeleted
  <2>3. gone \in ImageTarget /\ gone.delete_date = clock
    BY <1>0, <2>2, DeletedCopyType DEF ImageTarget
  <2>4. Replace(targets[db], target, gone) \in SUBSET ImageTarget
    BY <1>0, <2>3 DEF Replace
  <2>5. gone.delete_date # NoDate
    BY <1>0, <2>3, TargetsAssumption
  <2> HIDE DEF gone
  <2>6. Fine(targets[db], TargetQuota[db])
          => Fine(Replace(targets[db], target, gone), TargetQuota[db])
    BY <1>0, <2>5, ReplaceKeepsRules
  <2>7. targets' = [targets EXCEPT ![db] = Replace(targets[db], target, gone)]
    BY <2>1 DEF gone
  <2>8. QED
    BY <1>0, <1>2, <2>4, <2>6, <2>7 DEF DeleteTarget, TargetStep
<1>3. ASSUME NEW change \in Changes, UpdateTarget(db, id, change) PROVE TargetStep
  <2>1. PICK target \in NotDeleted(targets[db]) :
          /\ WithId(targets[db], id) = {target}
          /\ NameRefusal(targets[db], id, change.name) = ""
          /\ targets' = [targets EXCEPT ![db] =
               Replace(@, target, UpdatedCopy(target, change))]
    BY <1>3 DEF UpdateTarget, UpdatedCopy
  <2>2. target \in ImageTarget /\ change \in Change
    BY <1>0 DEF NotDeleted
  <2>3. /\ UpdatedCopy(target, change) \in ImageTarget
        /\ UpdatedCopy(target, change).name = Given(change.name, target.name)
    <3>1. UpdatedCopy(target, change).name = Given(change.name, target.name)
      BY <2>2 DEF UpdatedCopy, ImageTarget
    <3>2. QED
      BY <1>0, <2>2, <3>1, UpdatedCopyType
  <2>4. Replace(targets[db], target, UpdatedCopy(target, change)) \in SUBSET ImageTarget
    BY <1>0, <2>3 DEF Replace
  <2>5. ASSUME Fine(targets[db], TargetQuota[db])
        PROVE  Fine(Replace(targets[db], target, UpdatedCopy(target, change)), TargetQuota[db])
    <3>1. \A t \in NotDeleted(targets[db]) :
             t.name = Given(change.name, target.name) => t = target
      BY <2>1, <2>5, NameLeftAlone, ZenonT(30)
    <3>2. QED
      BY <1>0, <2>3, <2>5, <3>1, ReplaceKeepsRules
  <2>6. QED
    BY <1>0, <1>3, <2>1, <2>4, <2>5 DEF UpdateTarget, TargetStep
<1>4. QED
  BY <1>1, <1>2, <1>3

-----------------------------------------------------------------------------
\* The parts of Typed.
Basic ==
    /\ clock \in 0 .. MaxClock
    /\ targets \in [CloudDatabases -> SUBSET ImageTarget]
    /\ issued \subseteq TargetIds
    /\ manager \in Managers
    /\ held \in [Managers -> SUBSET Databases]
    /\ cloud_added \in Seq(CloudDatabases)
    /\ vumark_added \in Seq(VuMarkDatabases)
    /\ broken \in BOOLEAN

Compatible ==
    \A m \in Managers : \A db, other \in held[m] :
       db # other => <<db, other>> \notin Conflicts

LEMMA OfContext ==
    ASSUME NEW c \in Context
    PROVE  /\ c.kind \in {"block", "call"} /\ c.bound \in Managers
           /\ c.kind = "call" =>
                /\ c.original \in Managers
                /\ c.added \subseteq Databases
                /\ c.snapshots \in Snapshot
                /\ \A db \in DOMAIN c.snapshots : c.snapshots[db] \subseteq ImageTarget
                /\ DOMAIN c.snapshots \subseteq CloudDatabases
  BY DEF Context, Snapshot

LEMMA TypedParts ==
    Typed <=> Basic /\ Compatible /\ HeldAdded /\ contexts \in Seq(Context)
<1>1. ASSUME contexts \in Seq(Context)
      PROVE  \A c \in Elements(contexts) :
                /\ c.kind \in {"block", "call"} /\ c.bound \in Managers
                /\ c.kind = "call" => /\ c.original \in Managers
                                     /\ c.added \subseteq Databases
                                     /\ \A db \in DOMAIN c.snapshots :
                                           c.snapshots[db] \subseteq ImageTarget
  BY <1>1, InElements, OfContext
<1>2. QED
  BY <1>1 DEF Typed, TypeOK, Basic, Compatible

\* The databases a call loads are those that were added.
LEMMA Loaded ==
    ASSUME Basic
    PROVE  /\ ToLoad(cloud_added, vumark_added) \in Seq(Databases)
           /\ Elements(ToLoad(cloud_added, vumark_added)) = Added
           /\ Added \subseteq Databases
           /\ Elements(cloud_added) \subseteq CloudDatabases
           /\ Elements(cloud_added) \subseteq Added
<1>1. cloud_added \in Seq(Databases) /\ vumark_added \in Seq(Databases)
  BY DEF Basic, Databases
<1>2. /\ \A e \in Elements(cloud_added) : e \in CloudDatabases
      /\ \A e \in Elements(vumark_added) : e \in VuMarkDatabases
  BY InElements DEF Basic
<1>3. QED
  BY <1>1, <1>2, ElementsOfConcatenation DEF ToLoad, Added, Databases

LEMMA SnapshotsType == Basic => Snapshots \in Snapshot
<1> SUFFICES ASSUME Basic PROVE Snapshots \in Snapshot
  OBVIOUS
<1>1. Elements(cloud_added) \in SUBSET CloudDatabases
  BY Loaded
<1>2. Snapshots \in [Elements(cloud_added) -> SUBSET ImageTarget]
  BY <1>1 DEF Snapshots, Basic
<1>3. QED
  BY <1>1, <1>2 DEF Snapshot

LEMMA PutBackType ==
    ASSUME Basic, NEW snapshots \in Snapshot
    PROVE  PutBack(snapshots) \in [CloudDatabases -> SUBSET ImageTarget]
<1>1. PICK dbs \in SUBSET CloudDatabases : snapshots \in [dbs -> SUBSET ImageTarget]
  BY DEF Snapshot
<1>2. DOMAIN snapshots = dbs /\ \A db \in dbs : snapshots[db] \in SUBSET ImageTarget
  BY <1>1
<1>3. QED
  BY <1>2 DEF PutBack, Basic

-----------------------------------------------------------------------------
\* A step, with what its action leaves alone.
LEMMA StepCases ==
    ASSUME Typed, [Next]_vars
    PROVE  \/ TargetStep
           \/ \E db \in CloudDatabases : AddCloudDatabase(db)
           \/ \E db \in VuMarkDatabases : AddVuMarkDatabase(db)
           \/ Enter \/ Exit \/ Call \/ CallFails \/ Return \/ Tick
           \/ UNCHANGED vars
<1>1. TypeOK
  BY DEF Typed
<1>2. QED
  BY <1>1, TargetSteps DEF Next

\* Adding a database to the current target manager.
LEMMA HeldMore ==
    ASSUME Typed, NEW db \in Databases, Fits(db, held[manager]),
           held' = [held EXCEPT ![manager] = @ \cup {db}]
    PROVE  /\ held' \in [Managers -> SUBSET Databases]
           /\ Compatible'
           /\ \A m \in Managers : held'[m] \subseteq held[m] \cup {db}
           /\ \A m \in Managers : held[m] \subseteq held'[m]
           /\ db \in held'[manager]
<1>1. Basic /\ Compatible
  BY TypedParts
<1>2. /\ held' \in [Managers -> SUBSET Databases]
      /\ \A m \in Managers : held'[m] = IF m = manager THEN held[m] \cup {db} ELSE held[m]
  BY <1>1 DEF Basic
<1>3. \A other \in held[manager] : /\ <<db, other>> \notin Conflicts
                                   /\ <<other, db>> \notin Conflicts
  <2>1. \A x, y : <<x, y>> \in Conflicts => <<y, x>> \in Conflicts
    BY MockAssumption
  <2>2. QED
    BY <2>1 DEF Fits
<1>4. Compatible'
  BY <1>1, <1>2, <1>3, ZenonT(30) DEF Compatible
<1>5. QED
  BY <1>1, <1>2, <1>4 DEF Basic

LEMMA TypedPreserved == Typed /\ [Next]_vars => Typed'
<1> SUFFICES ASSUME Typed, [Next]_vars PROVE Typed'
  OBVIOUS
<1>0. Basic /\ Compatible /\ HeldAdded /\ contexts \in Seq(Context)
  BY TypedParts
<1>1. SUFFICES (Basic /\ Compatible /\ HeldAdded /\ contexts \in Seq(Context))'
  BY TypedParts, PTL
<1>2. CASE TargetStep
  <2>1. targets' \in [CloudDatabases -> SUBSET ImageTarget]
    BY <1>0, <1>2 DEF TargetStep, Reachable, Basic
  <2>2. QED
    BY <1>0, <1>2, <2>1 DEF TargetStep, mock, Basic, Compatible, HeldAdded, Added
<1>3. ASSUME NEW db \in CloudDatabases, AddCloudDatabase(db)
      PROVE  (Basic /\ Compatible /\ HeldAdded /\ contexts \in Seq(Context))'
  <2>1. db \in Databases
    BY DEF Databases
  <2>2. /\ held' \in [Managers -> SUBSET Databases] /\ Compatible'
        /\ \A m \in Managers : held'[m] \subseteq held[m] \cup {db}
    BY <1>3, <2>1, HeldMore DEF AddCloudDatabase
  <2>3. /\ cloud_added' \in Seq(CloudDatabases)
        /\ Elements(cloud_added') = Elements(cloud_added) \cup {db}
    BY <1>0, <1>3, ElementsOfAppend DEF AddCloudDatabase, Basic
  <2>4. HeldAdded'
    BY <1>0, <1>3, <2>2, <2>3 DEF AddCloudDatabase, HeldAdded, Added
  <2>5. QED
    BY <1>0, <1>3, <2>2, <2>3, <2>4 DEF AddCloudDatabase, Basic
<1>4. ASSUME NEW db \in VuMarkDatabases, AddVuMarkDatabase(db)
      PROVE  (Basic /\ Compatible /\ HeldAdded /\ contexts \in Seq(Context))'
  <2>1. db \in Databases
    BY DEF Databases
  <2>2. /\ held' \in [Managers -> SUBSET Databases] /\ Compatible'
        /\ \A m \in Managers : held'[m] \subseteq held[m] \cup {db}
    BY <1>4, <2>1, HeldMore DEF AddVuMarkDatabase
  <2>3. /\ vumark_added' \in Seq(VuMarkDatabases)
        /\ Elements(vumark_added') = Elements(vumark_added) \cup {db}
    BY <1>0, <1>4, ElementsOfAppend DEF AddVuMarkDatabase, Basic
  <2>4. HeldAdded'
    BY <1>0, <1>4, <2>2, <2>3 DEF AddVuMarkDatabase, HeldAdded, Added
  <2>5. QED
    BY <1>0, <1>4, <2>2, <2>3, <2>4 DEF AddVuMarkDatabase, Basic
<1>5. CASE Enter
  <2>1. [kind |-> "block", bound |-> manager] \in Context
    BY <1>0 DEF Context, Basic
  <2>2. contexts' \in Seq(Context)
    BY <1>0, <1>5, <2>1, ElementsOfAppend DEF Enter
  <2>3. QED
    BY <1>0, <1>5, <2>2 DEF Enter, Basic, Compatible, HeldAdded, Added
<1>6. CASE Exit
  <2>1. contexts' \in Seq(Context)
    BY <1>0, <1>6, FrontAndLast DEF Exit, Depth
  <2>2. QED
    BY <1>0, <1>6, <2>1 DEF Exit, Basic, Compatible, HeldAdded, Added
<1>7. CASE Call
  <2> DEFINE dbs == ToLoad(cloud_added, vumark_added)
  <2>1. PICK fresh \in Managers \ Referenced(manager, contexts) :
          /\ manager' = fresh
          /\ held' = [held EXCEPT ![fresh] = Elements(dbs)]
          /\ contexts' = Append(contexts,
               [kind |-> "call", bound |-> fresh, original |-> manager,
                snapshots |-> Snapshots, added |-> Added])
    BY <1>7 DEF Call
  <2>2. /\ dbs \in Seq(Databases) /\ Elements(dbs) = Added /\ Added \subseteq Databases
        /\ FitTogether(dbs, Len(dbs))
        /\ UNCHANGED <<clock, targets, issued, cloud_added, vumark_added, broken>>
    BY <1>0, <1>7, Loaded DEF Call
  <2>3. \A db, other \in Elements(dbs) : db # other => <<db, other>> \notin Conflicts
    BY <2>2, InElements, FittingDatabases
  <2> HIDE DEF dbs
  <2>4. /\ held' \in [Managers -> SUBSET Databases]
        /\ \A m \in Managers : held'[m] = IF m = fresh THEN Added ELSE held[m]
    BY <1>0, <2>1, <2>2 DEF Basic
  <2>5. Compatible' /\ HeldAdded'
    BY <1>0, <2>2, <2>3, <2>4 DEF Compatible, HeldAdded, Added
  <2>6. [kind |-> "call", bound |-> fresh, original |-> manager,
         snapshots |-> Snapshots, added |-> Added] \in Context
    BY <1>0, <2>2, SnapshotsType DEF Context, Basic
  <2>7. contexts' \in Seq(Context)
    BY <1>0, <2>1, <2>6, ElementsOfAppend
  <2>8. QED
    BY <1>0, <2>1, <2>2, <2>4, <2>5, <2>7 DEF Basic
<1>8. CASE CallFails
  <2> DEFINE dbs == ToLoad(cloud_added, vumark_added)
  <2>1. PICK n \in 0 .. (Len(dbs) - 1), fresh \in Managers \ Referenced(manager, contexts) :
          /\ FitTogether(dbs, n)
          /\ manager' = fresh
          /\ held' = Kept([held EXCEPT ![fresh] = LoadedUpTo(dbs, n)],
                          Referenced(fresh, contexts))
    BY <1>8 DEF CallFails
  <2>2. /\ dbs \in Seq(Databases) /\ Elements(dbs) = Added /\ Added \subseteq Databases
        /\ UNCHANGED <<clock, targets, issued, cloud_added, vumark_added, contexts>>
        /\ broken' = TRUE
    BY <1>0, <1>8, Loaded DEF CallFails
  <2> HIDE DEF dbs
  <2>3. n \in 0 .. Len(dbs) /\ \A i \in 1 .. n : i \in 1 .. Len(dbs)
    BY <2>2
  <2>4. \A db, other \in LoadedUpTo(dbs, n) : db # other => <<db, other>> \notin Conflicts
    BY <2>1, <2>2, <2>3, FittingDatabases DEF LoadedUpTo
  <2>5. LoadedUpTo(dbs, n) \subseteq Added
    BY <2>2, <2>3, InElements DEF LoadedUpTo
  <2>6. /\ held' \in [Managers -> SUBSET Databases]
        /\ \A m \in Managers : \/ held'[m] = {}
                               \/ m = fresh /\ held'[m] = LoadedUpTo(dbs, n)
                               \/ held'[m] = held[m]
    BY <1>0, <2>1, <2>2, <2>5 DEF Basic, Kept
  <2>7. Compatible' /\ HeldAdded'
    BY <1>0, <2>2, <2>4, <2>5, <2>6 DEF Compatible, HeldAdded, Added
  <2>8. QED
    BY <1>0, <2>1, <2>2, <2>6, <2>7 DEF Basic
<1>9. CASE Return
  <2>1. /\ Last(contexts) \in Context /\ Last(contexts).kind = "call"
        /\ contexts' \in Seq(Context)
    BY <1>0, <1>9, FrontAndLast DEF Return, Depth
  <2>2. manager' \in Managers /\ targets' \in [CloudDatabases -> SUBSET ImageTarget]
    BY <1>0, <1>9, <2>1, OfContext, PutBackType DEF Return
  <2>3. /\ held' \in [Managers -> SUBSET Databases]
        /\ \A m \in Managers : held'[m] = {} \/ held'[m] = held[m]
    BY <1>0, <1>9 DEF Return, Kept, Basic
  <2>4. Compatible' /\ HeldAdded'
    BY <1>0, <1>9, <2>3 DEF Return, Compatible, HeldAdded, Added
  <2>5. QED
    BY <1>0, <1>9, <2>1, <2>2, <2>3, <2>4 DEF Return, Basic
<1>10. CASE Tick
  <2>1. clock' \in 0 .. MaxClock
    BY <1>0, <1>10, MockAssumption DEF Tick, Basic
  <2>2. QED
    BY <1>0, <1>10, <2>1 DEF Tick, mock, Basic, Compatible, HeldAdded, Added
<1>11. CASE UNCHANGED vars
  BY <1>0, <1>11 DEF vars, mock, Basic, Compatible, HeldAdded, Added
<1>12. QED
  BY <1>2, <1>3, <1>4, <1>5, <1>6, <1>7, <1>8, <1>9, <1>10, <1>11, StepCases

LEMMA InitTyped == Init => Typed
<1> SUFFICES ASSUME Init
             PROVE  Basic /\ Compatible /\ HeldAdded /\ contexts \in Seq(Context)
  BY TypedParts
<1>1. 0 \in 0 .. MaxClock /\ Own \in Managers
  BY MockAssumption
<1>2. /\ cloud_added \in Seq(CloudDatabases) /\ vumark_added \in Seq(VuMarkDatabases)
      /\ contexts \in Seq(Context)
  BY DEF Init
<1>3. Compatible /\ HeldAdded
  BY DEF Init, Compatible, HeldAdded
<1>4. QED
  BY <1>1, <1>2, <1>3 DEF Init, Basic

\* Whatever a program does with an instance, no target manager ever holds two
\* databases which share a key or a name, one whose loading stopped included.
THEOREM TypeCorrect == Spec => []TypeOK
<1>1. Init => Typed
  BY InitTyped
<1>2. Typed => TypeOK
  BY DEF Typed
<1>3. QED
  BY <1>1, <1>2, TypedPreserved, PTL DEF Spec

-----------------------------------------------------------------------------
\* Where the i-th block or call was begun: in the one before it.
Outer(i) == IF i = 1 THEN Own ELSE contexts[i - 1].bound

\* A block is bound to the target manager that it was begun with; a call puts
\* that one back.
Nested ==
    \A i \in 1 .. Len(contexts) :
       /\ contexts[i].kind = "block" => contexts[i].bound = Outer(i)
       /\ contexts[i].kind = "call" => contexts[i].original = Outer(i)

\* The current target manager is that of the innermost block or call.
Routed == manager = Outer(Len(contexts) + 1)

RoutesInvariant == Typed /\ (broken = FALSE => Nested /\ Routed)

LEMMA LenIsNatural == contexts \in Seq(Context) => Len(contexts) \in Nat
  OBVIOUS

\* A block or call is begun with one more context, which is the current one.
LEMMA NestedMore ==
    ASSUME contexts \in Seq(Context), Nested, Routed, NEW c \in Context,
           contexts' = Append(contexts, c), manager' = c.bound,
           c.kind = "block" => c.bound = manager,
           c.kind = "call" => c.original = manager
    PROVE  Nested' /\ Routed'
<1>0. PICK n \in Nat : n = Len(contexts)
  BY LenIsNatural
<1>1. /\ Len(contexts) = n /\ Len(contexts') = n + 1 /\ contexts'[n + 1] = c
      /\ \A i \in 1 .. n : contexts'[i] = contexts[i]
  BY <1>0, ElementsOfAppend
<1>2. \A i \in 1 .. (n + 1) : Outer(i)' = Outer(i)
  <2>1. SUFFICES ASSUME NEW i \in 1 .. (n + 1) PROVE Outer(i)' = Outer(i)
    OBVIOUS
  <2>2. i = 1 \/ i - 1 \in 1 .. n
    BY <1>1
  <2>3. QED
    BY <1>1, <2>2 DEF Outer
<1>3. Outer(n + 1 + 1)' = c.bound
  <2>1. n + 1 + 1 # 1 /\ n + 1 + 1 - 1 = n + 1
    BY <1>1
  <2>2. QED
    BY <1>1, <2>1 DEF Outer
<1>4. Routed'
  BY <1>1, <1>3 DEF Routed
<1>5. ASSUME NEW i \in 1 .. (n + 1)
      PROVE  /\ contexts'[i].kind = "block" => contexts'[i].bound = Outer(i)'
             /\ contexts'[i].kind = "call" => contexts'[i].original = Outer(i)'
  <2>1. CASE i \in 1 .. n
    BY <1>1, <1>2, <2>1 DEF Nested
  <2>2. CASE i = n + 1
    <3>1. Outer(i)' = manager
      BY <1>1, <1>2, <2>2 DEF Routed
    <3>2. QED
      BY <1>1, <2>2, <3>1
  <2>3. i \in 1 .. n \/ i = n + 1
    BY <1>1
  <2>4. QED
    BY <2>1, <2>2, <2>3
<1>6. Nested'
  BY <1>1, <1>5 DEF Nested
<1>7. QED
  BY <1>4, <1>6

\* A block or call ends: the target manager is that of the one around it.
LEMMA NestedLess ==
    ASSUME contexts \in Seq(Context), Nested, Len(contexts) > 0,
           contexts' = Front(contexts), manager' = Outer(Len(contexts))
    PROVE  Nested' /\ Routed'
<1> DEFINE n == Len(contexts) - 1
<1>1. /\ n \in Nat /\ Len(contexts) = n + 1 /\ Len(contexts') = n
      /\ \A i \in 1 .. n : contexts'[i] = contexts[i]
  BY FrontAndLast, LenIsNatural
<1> HIDE DEF n
<1>2. \A i \in 1 .. (n + 1) : Outer(i)' = Outer(i)
  <2>1. SUFFICES ASSUME NEW i \in 1 .. (n + 1) PROVE Outer(i)' = Outer(i)
    OBVIOUS
  <2>2. i = 1 \/ i - 1 \in 1 .. n
    BY <1>1
  <2>3. QED
    BY <1>1, <2>2 DEF Outer
<1>3. n + 1 \in 1 .. (n + 1) /\ 1 .. n \subseteq 1 .. (n + 1)
  BY <1>1
<1>4. Routed'
  BY <1>1, <1>2, <1>3 DEF Routed
<1>5. Nested'
  BY <1>1, <1>2, <1>3 DEF Nested
<1>6. QED
  BY <1>4, <1>5

LEMMA RoutesPreserved == RoutesInvariant /\ [Next]_vars => RoutesInvariant'
<1> SUFFICES ASSUME RoutesInvariant, [Next]_vars
             PROVE  broken' = FALSE => Nested' /\ Routed'
  BY TypedPreserved DEF RoutesInvariant
<1>0. /\ Typed /\ contexts \in Seq(Context)
      /\ broken = FALSE => Nested /\ Routed
      /\ manager \in Managers
  BY TypedParts DEF RoutesInvariant, Basic
<1>1. CASE /\ manager' = manager /\ contexts' = contexts /\ broken' = broken
  BY <1>0, <1>1 DEF Nested, Routed, Outer
<1>2. CASE Enter
  <2>1. /\ [kind |-> "block", bound |-> manager] \in Context
        /\ contexts' = Append(contexts, [kind |-> "block", bound |-> manager])
        /\ manager' = manager /\ broken' = broken
    BY <1>0, <1>2 DEF Enter, Context
  <2>2. QED
    BY <1>0, <2>1, NestedMore
<1>3. CASE Exit
  <2>1. /\ Len(contexts) > 0 /\ Last(contexts).kind = "block"
        /\ contexts' = Front(contexts) /\ manager' = manager /\ broken' = broken
    BY <1>3 DEF Exit, Depth
  <2>2. Len(contexts) \in 1 .. Len(contexts) /\ Last(contexts) = contexts[Len(contexts)]
    BY <1>0, <2>1, LenIsNatural DEF Last
  <2>3. ASSUME Nested, Routed PROVE manager = Outer(Len(contexts))
    <3>1. Len(contexts) + 1 # 1 /\ Len(contexts) + 1 - 1 = Len(contexts)
      BY <1>0, <2>1, LenIsNatural
    <3>2. manager = contexts[Len(contexts)].bound
      BY <2>3, <3>1 DEF Routed, Outer
    <3>3. QED
      BY <2>1, <2>2, <2>3, <3>2 DEF Nested
  <2>4. QED
    BY <1>0, <2>1, <2>3, NestedLess
<1>4. CASE Call
  <2>1. PICK fresh \in Managers :
          /\ manager' = fresh
          /\ contexts' = Append(contexts,
               [kind |-> "call", bound |-> fresh, original |-> manager,
                snapshots |-> Snapshots, added |-> Added])
    BY <1>4 DEF Call
  <2>2. [kind |-> "call", bound |-> fresh, original |-> manager,
         snapshots |-> Snapshots, added |-> Added] \in Context
    <3>1. Basic
      BY <1>0, TypedParts
    <3>2. Added \subseteq Databases
      BY <3>1, Loaded
    <3>3. QED
      BY <1>0, <3>1, <3>2, SnapshotsType DEF Context
  <2>3. broken' = broken
    BY <1>4 DEF Call
  <2>4. QED
    BY <1>0, <2>1, <2>2, <2>3, NestedMore
<1>5. CASE CallFails
  BY <1>5 DEF CallFails
<1>6. CASE Return
  <2>1. /\ Len(contexts) > 0 /\ Last(contexts).kind = "call"
        /\ contexts' = Front(contexts) /\ manager' = Last(contexts).original
        /\ broken' = broken
    BY <1>6 DEF Return, Depth
  <2>2. Len(contexts) \in 1 .. Len(contexts) /\ Last(contexts) = contexts[Len(contexts)]
    BY <1>0, <2>1, LenIsNatural DEF Last
  <2>3. Nested => manager' = Outer(Len(contexts))
    BY <2>1, <2>2 DEF Nested
  <2>4. QED
    BY <1>0, <2>1, <2>3, NestedLess
<1>7. QED
  <2>1. TargetStep \/ Tick \/ UNCHANGED vars
          => manager' = manager /\ contexts' = contexts /\ broken' = broken
    BY DEF TargetStep, Tick, vars, mock
  <2>2. (\E db \in CloudDatabases : AddCloudDatabase(db))
          => manager' = manager /\ contexts' = contexts /\ broken' = broken
    BY DEF AddCloudDatabase
  <2>3. (\E db \in VuMarkDatabases : AddVuMarkDatabase(db))
          => manager' = manager /\ contexts' = contexts /\ broken' = broken
    BY DEF AddVuMarkDatabase
  <2>4. QED
    BY <1>0, <1>1, <1>2, <1>3, <1>4, <1>5, <1>6, <2>1, <2>2, <2>3, StepCases

\* However blocks and calls are nested, requests are answered from the target
\* manager to which databases are added, and in the end that is the instance's
\* own: __enter__, __exit__ and the two halves of _fresh_state match.
THEOREM RoutesAlwaysFollow == Spec => []RoutesFollowState
<1>1. Init => RoutesInvariant
  <2>1. Init => Typed
    BY InitTyped
  <2>2. Init => Nested /\ Routed
    BY DEF Init, Nested, Routed, Outer
  <2>3. QED
    BY <2>1, <2>2 DEF RoutesInvariant
<1>2. RoutesInvariant => RoutesFollowState
  <2>1. SUFFICES ASSUME RoutesInvariant, broken = FALSE
                 PROVE  IF Depth > 0 THEN Last(contexts).bound = manager
                        ELSE manager = Own
    <3>1. RoutesInvariant => broken \in BOOLEAN
      BY TypedParts DEF RoutesInvariant, Basic
    <3>2. QED
      BY <3>1 DEF RoutesFollowState
  <2>2. Len(contexts) \in Nat /\ Routed
    BY <2>1, TypedParts, LenIsNatural DEF RoutesInvariant
  <2>3. CASE Len(contexts) > 0
    <3>1. Len(contexts) + 1 # 1 /\ Len(contexts) + 1 - 1 = Len(contexts)
      BY <2>2, <2>3
    <3>2. QED
      BY <2>2, <2>3, <3>1 DEF Routed, Outer, Depth, Last
  <2>4. CASE Len(contexts) = 0
    BY <2>2, <2>4 DEF Routed, Outer, Depth
  <2>5. QED
    BY <2>2, <2>3, <2>4
<1>3. QED
  BY <1>1, <1>2, RoutesPreserved, PTL DEF Spec

-----------------------------------------------------------------------------
\* What was added when a call began is held by the target manager it is bound
\* to, whether or not some other call failed to begin.
AddedAvailable ==
    \A c \in Elements(contexts) : c.kind = "call" => c.added \subseteq held[c.bound]

LEMMA AvailablePreserved ==
    Typed /\ AddedAvailable /\ [Next]_vars => AddedAvailable'
<1> SUFFICES ASSUME Typed, AddedAvailable, [Next]_vars PROVE AddedAvailable'
  OBVIOUS
<1>0. Basic /\ contexts \in Seq(Context)
  BY TypedParts
<1>1. \A c \in Elements(contexts) :
         c.bound \in Managers /\ c.bound \in Referenced(manager, contexts)
  BY <1>0, InElements, OfContext DEF Referenced
<1>2. CASE contexts' = contexts /\ \A m \in Managers : held[m] \subseteq held'[m]
  BY <1>1, <1>2 DEF AddedAvailable
<1>3. ASSUME NEW db \in Databases, Fits(db, held[manager]),
             held' = [held EXCEPT ![manager] = @ \cup {db}], contexts' = contexts
      PROVE  AddedAvailable'
  BY <1>2, <1>3, HeldMore
<1>4. CASE Enter
  <2>1. [kind |-> "block", bound |-> manager] \in Context
    BY <1>0 DEF Context, Basic
  <2>2. Elements(contexts') = Elements(contexts) \cup {[kind |-> "block", bound |-> manager]}
    BY <1>0, <1>4, <2>1, ElementsOfAppend DEF Enter
  <2>3. QED
    BY <1>4, <2>2 DEF Enter, AddedAvailable
<1>5. CASE Exit
  BY <1>0, <1>5, FrontAndLast DEF Exit, Depth, AddedAvailable
<1>6. CASE Call
  <2> DEFINE dbs == ToLoad(cloud_added, vumark_added)
             begun(m) == [kind |-> "call", bound |-> m, original |-> manager,
                          snapshots |-> Snapshots, added |-> Added]
  <2>1. PICK fresh \in Managers \ Referenced(manager, contexts) :
          /\ held' = [held EXCEPT ![fresh] = Elements(dbs)]
          /\ contexts' = Append(contexts, begun(fresh))
    BY <1>6 DEF Call
  <2>2. Elements(dbs) = Added /\ Added \subseteq Databases
    BY <1>0, Loaded
  <2>3. begun(fresh) \in Context
    BY <1>0, <2>2, SnapshotsType DEF Context, Basic
  <2>4. Elements(contexts') = Elements(contexts) \cup {begun(fresh)}
    BY <1>0, <2>1, <2>3, ElementsOfAppend
  <2> HIDE DEF dbs
  <2>5. /\ held'[fresh] = Added
        /\ \A m \in Managers \ {fresh} : held'[m] = held[m]
    BY <1>0, <2>1, <2>2 DEF Basic
  <2>6. \A c \in Elements(contexts) : c.kind = "call" => c.added \subseteq held'[c.bound]
    BY <1>1, <2>1, <2>5 DEF AddedAvailable
  <2>7. QED
    BY <2>4, <2>5, <2>6 DEF AddedAvailable
<1>7. CASE CallFails
  <2>1. PICK fresh \in Managers \ Referenced(manager, contexts) :
          \E loaded :
            held' = Kept([held EXCEPT ![fresh] = loaded], Referenced(fresh, contexts))
    BY <1>7 DEF CallFails
  <2>2. contexts' = contexts
    BY <1>7 DEF CallFails
  <2>3. \A c \in Elements(contexts) : c.bound \in Referenced(fresh, contexts)
    BY DEF Referenced
  <2>4. \A c \in Elements(contexts) : held'[c.bound] = held[c.bound]
    <3>1. PICK loaded :
            held' = Kept([held EXCEPT ![fresh] = loaded], Referenced(fresh, contexts))
      BY <2>1
    <3>2. QED
      BY <1>0, <1>1, <2>1, <2>3, <3>1 DEF Kept, Basic
  <2>5. QED
    BY <2>2, <2>4 DEF AddedAvailable
<1>8. CASE Return
  <2>1. Elements(contexts') \subseteq Elements(contexts)
    BY <1>0, <1>8, FrontAndLast DEF Return, Depth
  <2>2. \A c \in Elements(contexts') : c.bound \in Referenced(manager', contexts')
    BY DEF Referenced
  <2>3. \A c \in Elements(contexts') : held'[c.bound] = held[c.bound]
    BY <1>1, <1>8, <2>1, <2>2 DEF Return, Kept
  <2>4. QED
    BY <2>1, <2>3 DEF AddedAvailable
<1>9. QED
  <2>1. TargetStep \/ Tick \/ UNCHANGED vars => contexts' = contexts /\ held' = held
    BY DEF TargetStep, Tick, vars, mock
  <2>2. ASSUME NEW db \in CloudDatabases, AddCloudDatabase(db) PROVE AddedAvailable'
    BY <1>3, <2>2 DEF AddCloudDatabase, Databases
  <2>3. ASSUME NEW db \in VuMarkDatabases, AddVuMarkDatabase(db) PROVE AddedAvailable'
    BY <1>3, <2>3 DEF AddVuMarkDatabase, Databases
  <2>4. QED
    BY <1>2, <1>4, <1>5, <1>6, <1>7, <1>8, <2>1, <2>2, <2>3, StepCases

\* Every database that was in the instance when a call began can be reached as
\* long as the call runs: the loading in _fresh_state misses none, and no call
\* inside it takes one away.
THEOREM DatabasesStayAvailable == Spec => []DatabasesAvailable
<1>1. Init => Typed /\ AddedAvailable
  <2>1. Init => AddedAvailable
    BY DEF Init, AddedAvailable, Elements
  <2>2. QED
    BY <2>1, InitTyped
<1>2. AddedAvailable => DatabasesAvailable
  BY DEF AddedAvailable, DatabasesAvailable
<1>3. QED
  BY <1>1, <1>2, TypedPreserved, AvailablePreserved, PTL DEF Spec

-----------------------------------------------------------------------------
\* The targets of every database keep the rules, and so do those to be put back.
RulesInvariant ==
    /\ \A db \in CloudDatabases : Fine(targets[db], TargetQuota[db])
    /\ \A c \in Elements(contexts) : c.kind = "call" =>
          \A db \in DOMAIN c.snapshots : Fine(c.snapshots[db], TargetQuota[db])

LEMMA RulesPreserved == Typed /\ RulesInvariant /\ [Next]_vars => RulesInvariant'
<1> SUFFICES ASSUME Typed, RulesInvariant, [Next]_vars PROVE RulesInvariant'
  OBVIOUS
<1>0. Basic /\ contexts \in Seq(Context)
  BY TypedParts
<1>1. CASE targets' = targets /\ contexts' = contexts
  BY <1>1 DEF RulesInvariant
<1>2. CASE TargetStep
  <2>1. PICK db \in Reachable, changed \in SUBSET ImageTarget :
          /\ targets' = [targets EXCEPT ![db] = changed]
          /\ Fine(targets[db], TargetQuota[db]) => Fine(changed, TargetQuota[db])
    BY <1>2 DEF TargetStep
  <2>2. \A other \in CloudDatabases :
           targets'[other] = IF other = db THEN changed ELSE targets[other]
    BY <1>0, <2>1 DEF Basic
  <2>3. \A other \in CloudDatabases : Fine(targets'[other], TargetQuota[other])
    BY <2>1, <2>2 DEF RulesInvariant
  <2>4. contexts' = contexts
    BY <1>2 DEF TargetStep, mock
  <2>5. QED
    BY <2>3, <2>4 DEF RulesInvariant
<1>3. CASE Enter
  <2>1. [kind |-> "block", bound |-> manager] \in Context
    BY <1>0 DEF Context, Basic
  <2>2. Elements(contexts') = Elements(contexts) \cup {[kind |-> "block", bound |-> manager]}
    BY <1>0, <1>3, <2>1, ElementsOfAppend DEF Enter
  <2>3. QED
    BY <1>3, <2>2 DEF Enter, RulesInvariant
<1>4. CASE Exit
  BY <1>0, <1>4, FrontAndLast DEF Exit, Depth, RulesInvariant
<1>5. CASE Call
  <2> DEFINE begun(m) == [kind |-> "call", bound |-> m, original |-> manager,
                          snapshots |-> Snapshots, added |-> Added]
  <2>1. PICK fresh \in Managers : contexts' = Append(contexts, begun(fresh))
    BY <1>5 DEF Call
  <2>2. begun(fresh) \in Context
    BY <1>0, Loaded, SnapshotsType DEF Context, Basic
  <2>3. Elements(contexts') = Elements(contexts) \cup {begun(fresh)}
    BY <1>0, <2>1, <2>2, ElementsOfAppend
  <2>4. \A db \in DOMAIN Snapshots : Fine(Snapshots[db], TargetQuota[db])
    BY <1>0, Loaded DEF Snapshots, RulesInvariant
  <2>5. targets' = targets
    BY <1>5 DEF Call
  <2>6. QED
    BY <2>3, <2>4, <2>5 DEF RulesInvariant
<1>6. CASE Return
  <2>1. /\ Elements(contexts') \subseteq Elements(contexts)
        /\ Last(contexts) \in Elements(contexts) /\ Last(contexts).kind = "call"
        /\ targets' = PutBack(Last(contexts).snapshots)
    BY <1>0, <1>6, FrontAndLast DEF Return, Depth
  <2>2. \A db \in CloudDatabases : Fine(targets'[db], TargetQuota[db])
    BY <2>1 DEF PutBack, RulesInvariant
  <2>3. QED
    BY <2>1, <2>2 DEF RulesInvariant
<1>7. QED
  <2>1. (\E db \in CloudDatabases : AddCloudDatabase(db))
          \/ (\E db \in VuMarkDatabases : AddVuMarkDatabase(db))
          \/ CallFails \/ Tick \/ UNCHANGED vars
        => targets' = targets /\ contexts' = contexts
    BY DEF AddCloudDatabase, AddVuMarkDatabase, CallFails, Tick, vars, mock
  <2>2. QED
    BY <1>1, <1>2, <1>3, <1>4, <1>5, <1>6, <2>1, StepCases

\* No sequence of requests, blocks and calls gives a database more targets than
\* its quota or two of one name: the checks of one thread cannot be overtaken,
\* and what a call puts back kept the rules when it was saved.
THEOREM RulesStayKept == Spec => []RulesKept
<1>1. Init => RulesInvariant
  <2>1. ASSUME Init, NEW db \in CloudDatabases PROVE Fine(targets[db], TargetQuota[db])
    <3>1. NotDeleted(targets[db]) = {}
      BY <2>1 DEF Init, NotDeleted
    <3>2. TargetQuota[db] \in Nat
      BY MockAssumption
    <3>3. QED
      BY <3>1, <3>2, FS_EmptySet DEF Fine
  <2>2. Init => Elements(contexts) = {}
    BY DEF Init, Elements
  <2>3. QED
    BY <2>1, <2>2 DEF RulesInvariant
<1>2. RulesInvariant => RulesKept
  BY DEF RulesInvariant, RulesKept, Fine
<1>3. QED
  BY <1>1, <1>2, InitTyped, TypedPreserved, RulesPreserved, PTL DEF Spec

-----------------------------------------------------------------------------
\* The targets which a block or call puts back, as the refinement maps them.
SavedBy(c) == IF c.kind = "call" THEN c.snapshots ELSE [db \in {} |-> {}]

Saved == [i \in DOMAIN contexts |->
            IF contexts[i].kind = "call" THEN contexts[i].snapshots
            ELSE [db \in {} |-> {}]]

LEMMA SavedSequence ==
    ASSUME contexts \in Seq(Context)
    PROVE  /\ Saved \in Seq(Snapshot)
           /\ Len(Saved) = Len(contexts)
           /\ \A i \in 1 .. Len(contexts) : Saved[i] = SavedBy(contexts[i])
<1>1. \A i \in 1 .. Len(contexts) : SavedBy(contexts[i]) \in Snapshot
  <2>1. SUFFICES ASSUME NEW i \in 1 .. Len(contexts)
                 PROVE  SavedBy(contexts[i]) \in Snapshot
    OBVIOUS
  <2>2. contexts[i] \in Context
    OBVIOUS
  <2>3. [db \in {} |-> {}] \in [{} -> SUBSET ImageTarget] /\ {} \in SUBSET CloudDatabases
    OBVIOUS
  <2>4. [db \in {} |-> {}] \in Snapshot
    BY <2>3 DEF Snapshot
  <2>5. QED
    BY <2>2, <2>4, OfContext DEF SavedBy
<1>2. Len(contexts) \in Nat /\ DOMAIN contexts = 1 .. Len(contexts)
  OBVIOUS
<1>3. Saved = [i \in 1 .. Len(contexts) |-> SavedBy(contexts[i])]
  BY <1>2 DEF Saved, SavedBy
<1>4. QED
  BY <1>1, <1>2, <1>3

LEMMA SavedUnchanged == contexts' = contexts => Saved' = Saved
  BY DEF Saved

\* A block or call begins: one more is saved.
LEMMA SavedMore ==
    ASSUME contexts \in Seq(Context), NEW c \in Context,
           contexts' = Append(contexts, c)
    PROVE  Saved' = Append(Saved, SavedBy(c))
<1>0. PICK n \in Nat : n = Len(contexts)
  BY LenIsNatural
<1>1. /\ contexts' \in Seq(Context) /\ Len(contexts') = n + 1
      /\ contexts'[n + 1] = c /\ \A i \in 1 .. n : contexts'[i] = contexts[i]
  BY <1>0, ElementsOfAppend
<1>2. /\ Saved' \in Seq(Snapshot) /\ Len(Saved') = n + 1
      /\ \A i \in 1 .. (n + 1) : Saved'[i] = SavedBy(contexts'[i])
  <2>1. (contexts \in Seq(Context) => /\ Saved \in Seq(Snapshot)
                                      /\ Len(Saved) = Len(contexts)
                                      /\ \A i \in 1 .. Len(contexts) :
                                            Saved[i] = SavedBy(contexts[i]))'
    BY SavedSequence, PTL
  <2>2. QED
    BY <1>1, <2>1 DEF SavedBy
<1>3. /\ Saved \in Seq(Snapshot) /\ Len(Saved) = n
      /\ \A i \in 1 .. n : Saved[i] = SavedBy(contexts[i])
  BY <1>0, SavedSequence
<1>4. SavedBy(c) \in Snapshot
  <2>1. n + 1 \in 1 .. (n + 1)
    OBVIOUS
  <2>2. Saved'[n + 1] = SavedBy(c) /\ Saved'[n + 1] \in Snapshot
    BY <1>1, <1>2, <2>1
  <2>3. QED
    BY <2>2
<1>5. /\ Append(Saved, SavedBy(c)) \in Seq(Snapshot)
      /\ Len(Append(Saved, SavedBy(c))) = n + 1
      /\ Append(Saved, SavedBy(c))[n + 1] = SavedBy(c)
      /\ \A i \in 1 .. n : Append(Saved, SavedBy(c))[i] = Saved[i]
  BY <1>3, <1>4
<1>6. \A i \in 1 .. (n + 1) : Saved'[i] = Append(Saved, SavedBy(c))[i]
  <2>1. \A i \in 1 .. (n + 1) : i \in 1 .. n \/ i = n + 1
    OBVIOUS
  <2>2. 1 .. n \subseteq 1 .. (n + 1) /\ n + 1 \in 1 .. (n + 1)
    OBVIOUS
  <2>3. QED
    BY <1>1, <1>2, <1>3, <1>5, <2>1, <2>2
<1>7. QED
  BY <1>2, <1>5, <1>6

\* The innermost one ends.
LEMMA SavedLess ==
    ASSUME contexts \in Seq(Context), Len(contexts) > 0, contexts' = Front(contexts)
    PROVE  /\ Saved # <<>>
           /\ Saved[Len(Saved)] = SavedBy(Last(contexts))
           /\ Saved' = SubSeq(Saved, 1, Len(Saved) - 1)
<1>0. PICK n \in Nat : n = Len(contexts) - 1
  BY LenIsNatural
<1>1. /\ contexts' \in Seq(Context) /\ Len(contexts') = n
      /\ \A i \in 1 .. n : contexts'[i] = contexts[i]
      /\ Len(contexts) = n + 1
  BY <1>0, FrontAndLast, LenIsNatural
<1>2. /\ Saved' \in Seq(Snapshot) /\ Len(Saved') = n
      /\ \A i \in 1 .. n : Saved'[i] = SavedBy(contexts'[i])
  <2>1. (contexts \in Seq(Context) => /\ Saved \in Seq(Snapshot)
                                      /\ Len(Saved) = Len(contexts)
                                      /\ \A i \in 1 .. Len(contexts) :
                                            Saved[i] = SavedBy(contexts[i]))'
    BY SavedSequence, PTL
  <2>2. QED
    BY <1>1, <2>1 DEF SavedBy
<1>3. /\ Saved \in Seq(Snapshot) /\ Len(Saved) = n + 1
      /\ \A i \in 1 .. (n + 1) : Saved[i] = SavedBy(contexts[i])
  BY <1>1, SavedSequence
<1>4. Saved # <<>> /\ Saved[Len(Saved)] = SavedBy(Last(contexts))
  BY <1>1, <1>3 DEF Last
<1>5. /\ Front(Saved) \in Seq(Snapshot) /\ Len(Front(Saved)) = n
      /\ \A i \in 1 .. n : Front(Saved)[i] = Saved[i]
  <2>1. Len(Saved) > 0 /\ Len(Saved) - 1 = n
    BY <1>3
  <2>2. QED
    BY <1>3, <2>1, FrontAndLast
<1>6. 1 .. n \subseteq 1 .. (n + 1)
  OBVIOUS
<1>7. \A i \in 1 .. n : Saved'[i] = Front(Saved)[i]
  BY <1>1, <1>2, <1>3, <1>5, <1>6
<1>8. Saved' = Front(Saved)
  BY <1>2, <1>5, <1>7
<1>9. QED
  BY <1>4, <1>8 DEF Front

LEMMA ReachableAdded == Typed => Reachable \subseteq Elements(cloud_added)
<1> SUFFICES ASSUME Typed, Depth # 0
             PROVE  held[Last(contexts).bound] \cap CloudDatabases \subseteq Elements(cloud_added)
  BY DEF Reachable
<1>0. Basic /\ HeldAdded /\ contexts \in Seq(Context) /\ Len(contexts) > 0
  BY TypedParts, LenIsNatural DEF Depth
<1>1. Last(contexts).bound \in Managers
  BY <1>0, FrontAndLast, OfContext
<1>2. \A e \in Elements(vumark_added) : e \in VuMarkDatabases
  BY <1>0, InElements DEF Basic
<1>3. QED
  BY <1>0, <1>1, <1>2, MockAssumption DEF HeldAdded, Added

LEMMA WorldStep == Typed /\ [Next]_vars => [Worlds!Next]_(Worlds!worlds_vars)
<1> SUFFICES ASSUME Typed, [Next]_vars
             PROVE  Worlds!Next \/ UNCHANGED Worlds!worlds_vars
  OBVIOUS
<1> USE DEF Worlds!worlds_vars
<1>0. Basic /\ contexts \in Seq(Context)
  BY TypedParts
<1>1. CASE TargetStep
  <2>1. contexts' = contexts /\ cloud_added' = cloud_added
    BY <1>1 DEF TargetStep, mock
  <2>2. PICK db \in Elements(cloud_added) : \E changed :
          targets' = [targets EXCEPT ![db] = changed]
    BY <1>1, ReachableAdded DEF TargetStep
  <2>3. PICK changed : targets' = [targets EXCEPT ![db] = changed]
    BY <2>2
  <2>4. targets'[db] = changed
    BY <1>0, <2>3, Loaded DEF Basic
  <2>5. Worlds!Request
    BY <2>1, <2>3, <2>4, SavedUnchanged DEF Worlds!Request, Saved
  <2>6. QED
    BY <2>5 DEF Worlds!Next
<1>2. ASSUME NEW db \in CloudDatabases, AddCloudDatabase(db) PROVE Worlds!Next
  <2>1. Elements(cloud_added') = Elements(cloud_added) \cup {db}
    BY <1>0, <1>2, ElementsOfAppend DEF AddCloudDatabase, Basic
  <2>2. contexts' = contexts /\ targets' = targets
    BY <1>2 DEF AddCloudDatabase
  <2>3. QED
    BY <2>1, <2>2 DEF Worlds!Add, Worlds!Next
<1>3. CASE Enter
  <2>1. [kind |-> "block", bound |-> manager] \in Context
    BY <1>0 DEF Context, Basic
  <2>2. Saved' = Append(Saved, SavedBy([kind |-> "block", bound |-> manager]))
    BY <1>0, <1>3, <2>1, SavedMore DEF Enter
  <2>3. SavedBy([kind |-> "block", bound |-> manager]) = [db \in {} |-> targets[db]]
    BY DEF SavedBy
  <2>4. cloud_added' = cloud_added /\ targets' = targets
    BY <1>3 DEF Enter
  <2>5. Worlds!Begin
    BY <2>2, <2>3, <2>4 DEF Worlds!Begin, Saved
  <2>6. QED
    BY <2>5 DEF Worlds!Next
<1>4. CASE Exit
  <2>1. /\ Len(contexts) > 0 /\ contexts' = Front(contexts)
        /\ Last(contexts).kind = "block"
        /\ cloud_added' = cloud_added /\ targets' = targets
    BY <1>4 DEF Exit, Depth
  <2>2. /\ Saved # <<>> /\ Saved' = SubSeq(Saved, 1, Len(Saved) - 1)
        /\ Saved[Len(Saved)] = [db \in {} |-> {}]
    BY <1>0, <2>1, SavedLess DEF SavedBy
  <2>3. targets' = [db \in CloudDatabases |->
                      IF db \in DOMAIN Saved[Len(Saved)] THEN Saved[Len(Saved)][db]
                      ELSE targets[db]]
    BY <1>0, <2>1, <2>2 DEF Basic
  <2>4. Worlds!End
    BY <2>1, <2>2, <2>3 DEF Worlds!End, Saved
  <2>5. QED
    BY <2>4 DEF Worlds!Next
<1>5. CASE Call
  <2>1. PICK fresh \in Managers :
          contexts' = Append(contexts,
             [kind |-> "call", bound |-> fresh, original |-> manager,
              snapshots |-> Snapshots, added |-> Added])
    BY <1>5 DEF Call
  <2>2. [kind |-> "call", bound |-> fresh, original |-> manager,
         snapshots |-> Snapshots, added |-> Added] \in Context
    BY <1>0, Loaded, SnapshotsType DEF Context, Basic
  <2>3. Saved' = Append(Saved, Snapshots)
    BY <1>0, <2>1, <2>2, SavedMore DEF SavedBy
  <2>4. cloud_added' = cloud_added /\ targets' = targets
    BY <1>5 DEF Call
  <2>5. Worlds!Begin
    BY <2>3, <2>4 DEF Worlds!Begin, Saved, Snapshots
  <2>6. QED
    BY <2>5 DEF Worlds!Next
<1>6. CASE Return
  <2>1. /\ Len(contexts) > 0 /\ contexts' = Front(contexts)
        /\ Last(contexts).kind = "call"
        /\ cloud_added' = cloud_added
        /\ targets' = PutBack(Last(contexts).snapshots)
    BY <1>6 DEF Return, Depth
  <2>2. /\ Saved # <<>> /\ Saved' = SubSeq(Saved, 1, Len(Saved) - 1)
        /\ Saved[Len(Saved)] = Last(contexts).snapshots
    BY <1>0, <2>1, SavedLess DEF SavedBy
  <2>3. targets' = [db \in CloudDatabases |->
                      IF db \in DOMAIN Saved[Len(Saved)] THEN Saved[Len(Saved)][db]
                      ELSE targets[db]]
    BY <2>1, <2>2 DEF PutBack
  <2>4. Worlds!End
    BY <2>1, <2>2, <2>3 DEF Worlds!End, Saved
  <2>5. QED
    BY <2>4 DEF Worlds!Next
<1>7. QED
  <2>1. (\E db \in VuMarkDatabases : AddVuMarkDatabase(db)) \/ CallFails \/ Tick \/ UNCHANGED vars
          => /\ contexts' = contexts /\ cloud_added' = cloud_added /\ targets' = targets
    BY DEF AddVuMarkDatabase, CallFails, Tick, vars, mock
  <2>2. contexts' = contexts /\ cloud_added' = cloud_added /\ targets' = targets
          => UNCHANGED Worlds!worlds_vars
    OBVIOUS
  <2>3. QED
    BY <1>1, <1>2, <1>3, <1>4, <1>5, <1>6, <2>1, <2>2, StepCases

\* However target managers are replaced, a program sees a stack of worlds: a
\* decorated call ends with the targets its databases had when it began, and
\* a block leaves everything as it was left inside it.
THEOREM Refinement == Spec => ImplementsWorlds
<1>1. Init => Worlds!Init
  BY DEF Init, Worlds!Init, Elements
<1>2. QED
  BY <1>1, InitTyped, TypedPreserved, WorldStep, PTL DEF Spec, ImplementsWorlds, Worlds!Spec
=============================================================================
