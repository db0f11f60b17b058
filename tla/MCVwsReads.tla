----------------------------- MODULE MCVwsReads -----------------------------
\* Of the databases that clients create and delete, each pair that conflicts
\* does so in one place: c1 and c2 share a client access key, c2 and c3 a
\* client secret key, c1 and v1 a server access key, c2 and v2 a server secret
\* key, v1 and v2 a name.  c1 and v3 share both their server keys, so that they
\* can take each other's place in front of the reader.
EXTENDS VwsReads, TLC

CONSTANTS c1, c2, c3, v1, v2, v3, sharp, flat

MCCloudDatabases == {c1, c2, c3}
MCVuMarkDatabases == {v1, v2, v3}
MCDatabaseName ==
    c1 :> "n1" @@ c2 :> "n2" @@ c3 :> "n5" @@ v1 :> "n3" @@ v2 :> "n3" @@ v3 :> "n4"
MCServerAccessKey ==
    c1 :> "a1" @@ c2 :> "a2" @@ c3 :> "a5" @@ v1 :> "a1" @@ v2 :> "a4" @@ v3 :> "a1"
MCServerSecretKey ==
    c1 :> "s1" @@ c2 :> "s2" @@ c3 :> "s5" @@ v1 :> "s3" @@ v2 :> "s2" @@ v3 :> "s1"
MCClientAccessKey == c1 :> "k1" @@ c2 :> "k1" @@ c3 :> "k3"
MCClientSecretKey == c1 :> "z1" @@ c2 :> "z2" @@ c3 :> "z2"

MCRating == sharp :> 3 @@ flat :> 1
MCIdRank == [id \in TargetIds |-> IF id = CHOOSE i \in TargetIds : TRUE THEN 1 ELSE 2]

NoChange == [name |-> Absent, image_value |-> Absent, active_flag |-> Absent]
Deactivate == [NoChange EXCEPT !.active_flag = FALSE]

\* Databases of both kinds come and go, or targets of c1 are read, or VuMark
\* targets while c1 and v3 take turns.
MCWorkloads ==
    {[databases |-> {c1, c2, c3, v1, v2}, images |-> {sharp},
      changes |-> {change \in Change : change.image_value # flat}, reads |-> {}],
     [databases |-> {c1}, images |-> {sharp}, changes |-> {Deactivate},
      reads |-> {"list", "record", "summary", "query"}],
     [databases |-> {c1}, images |-> {sharp}, changes |-> {},
      reads |-> {"duplicates"}],
     [databases |-> {c1}, images |-> {flat}, changes |-> {},
      reads |-> {"summary", "duplicates"}],
     [databases |-> {c1, v3}, images |-> {sharp}, changes |-> {},
      reads |-> {"list", "instance"}]}

\* Once the reader has its last copy, no change of the databases reaches it:
\* such changes commute with the rest of its steps, and are left to its pauses.
MCNext ==
    \/ place \notin {"look", "answer"} /\ ClientsChange
    \/ TimePasses
    \/ Read

MCSpec == ReadsInit /\ [][MCNext]_reads_vars
=============================================================================
