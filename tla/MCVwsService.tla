---------------------------- MODULE MCVwsService ----------------------------
\* c1 and c2 have one name and different keys; c3 has another name, and where
\* KeptAccessKey is used the server access key of c1 with another secret key.
EXTENDS VwsService, TLC

CONSTANTS c1, c2, c3, a, b, sharp, flat

ReusedName == c1 :> "n1" @@ c2 :> "n1" @@ c3 :> "n3"
OwnKeys == c1 :> "k1" @@ c2 :> "k2" @@ c3 :> "k3"
KeptAccessKey == c1 :> "k1" @@ c2 :> "k2" @@ c3 :> "k1"

QuotaOne == [db \in CloudDatabases |-> 1]
QuotaOneOrZero == [db \in CloudDatabases |-> IF db = c1 THEN 1 ELSE 0]
QuotaTwoOrOne == [db \in CloudDatabases |-> IF db = c1 THEN 2 ELSE 1]

NoChange == [name |-> Absent, image_value |-> Absent, active_flag |-> Absent]
RenameToA == [NoChange EXCEPT !.name = a]
RenameToB == [NoChange EXCEPT !.name = b]
Blur == [NoChange EXCEPT !.image_value = flat]
Deactivate == [NoChange EXCEPT !.active_flag = FALSE]

Touching == {NoChange}
Editing == {RenameToA, RenameToB, Blur, Deactivate}

\* The VIEW of the largest run.  Nothing but the type invariant looks at the date
\* of an upload, so states which differ only in the upload dates are one.
Undated ==
    <<clock, databases, vumark_targets, issued, work, late, history,
      [db \in CloudDatabases |-> {[t EXCEPT !.upload_date = 0] : t \in targets[db]}]>>

Interchangeable == Permutations(Workers) \cup Permutations(TargetIds)
=============================================================================
