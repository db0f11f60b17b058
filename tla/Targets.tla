------------------------------ MODULE Targets ------------------------------
(***************************************************************************)
(* Image targets: mock_vws/target.py, the views of a database's targets in *)
(* mock_vws/database.py, and what the validators of both deployments       *)
(* decide on them.  Width, metadata and recognition counters are left out: *)
(* nothing in the code decides on them.                                    *)
(***************************************************************************)
EXTENDS Integers, FiniteSets

CONSTANTS
    TargetIds, Names,
    Images,          \* image contents
    GoodImages,      \* those whose colour bands vary enough to be rated
    ProcessingTime,  \* processing_time_seconds, in ticks
    Absent,          \* a field which a request body leaves out
    NoDate           \* None

ASSUME TargetsAssumption ==
    /\ GoodImages \subseteq Images
    /\ ProcessingTime \in Nat
    /\ NoDate \notin Nat
    /\ Absent \notin Names \cup Images \cup BOOLEAN

ImageTarget ==
    [target_id : TargetIds, name : Names, active_flag : BOOLEAN,
     image_value : Images, upload_date : Nat, last_modified_date : Nat,
     delete_date : Nat \cup {NoDate}]

\* The dates of a new target are read from the clock one after the other, in
\* the order of the fields, so it may be last modified before its upload.
NewTarget(id, name, image, modified, uploaded) ==
    [target_id |-> id, name |-> name, active_flag |-> TRUE, image_value |-> image,
     last_modified_date |-> modified, upload_date |-> uploaded,
     delete_date |-> NoDate]

Status(target, now) ==
    IF now - target.last_modified_date <= ProcessingTime THEN "processing"
    ELSE IF target.image_value \in GoodImages THEN "success" ELSE "failed"

NotDeleted(targets) == {t \in targets : t.delete_date = NoDate}

WithId(targets, id) == {t \in targets : t.target_id = id}

\* Two wrong ways to replace a target, for the mutants of TargetManager and
\* VwsService: forgetting to remove the old one, and finding it by its name.
ReplaceKeepingOld(targets, old, new) == targets \cup {new}

ReplaceByName(targets, old, new) ==
    {t \in targets : t.name # old.name} \cup {new}

\* copy.replace, and removing the old target before adding the new one.
Replace(targets, old, new) == (targets \ {old}) \cup {new}

\* request_json.get(field, target.field)
Given(value, current) == IF value = Absent THEN current ELSE value

\* What the body of an update may give.
Change == [name : Names \cup {Absent}, image_value : Images \cup {Absent},
           active_flag : BOOLEAN \cup {Absent}]

-----------------------------------------------------------------------------
SameName(targets, name) == {t \in NotDeleted(targets) : t.name = name}

\* Mutants: one target too many before the quota is reached, and names checked
\* for new targets only.
AddRefusalOneLater(targets, quota, name) ==
    IF Cardinality(NotDeleted(targets)) > quota THEN "TargetQuotaReached"
    ELSE IF SameName(targets, name) # {} THEN "TargetNameExist" ELSE ""

NameNeverRefused(targets, id, name) == ""

\* Why the validators of quota and names refuse a request; "" if they do not.
\* (matching_name_target,) = ... fails when two targets have the new name.
AddRefusal(targets, quota, name) ==
    IF Cardinality(NotDeleted(targets)) >= quota THEN "TargetQuotaReached"
    ELSE IF SameName(targets, name) # {} THEN "TargetNameExist" ELSE ""

NameRefusal(targets, id, name) ==
    IF name = Absent \/ SameName(targets, name) = {} THEN ""
    ELSE IF Cardinality(SameName(targets, name)) > 1 THEN "ServerError"
    ELSE IF WithId(SameName(targets, name), id) = {} THEN "TargetNameExist"
    ELSE ""
=============================================================================
