----------------------------- MODULE MCMockVws -----------------------------
\* c1 conflicts with v1, and every database with itself.
EXTENDS MockVws, TLC

CONSTANTS c1, c2, v1, a, b, sharp

MCConflicts == {<<db, db>> : db \in Databases} \cup {<<c1, v1>>, <<v1, c1>>}
MCQuota == [db \in CloudDatabases |-> IF db = c1 THEN 1 ELSE 2]
NoChange == [name |-> Absent, image_value |-> Absent, active_flag |-> Absent]
MCChanges == {[NoChange EXCEPT !.name = a]}

Interchangeable == Permutations(TargetIds) \cup Permutations(Managers \ {Own})
=============================================================================
