------------------------- MODULE ModelTargetStores -------------------------
(***************************************************************************)
(* Model Target datasets and OAuth2 client credentials: model_target.py,   *)
(* their dictionaries in the TargetManager class and the handlers of       *)
(* _flask_server/target_manager.py that change them.  A dictionary is a    *)
(* function which is None where it has no key.  Of a dataset's body        *)
(* nothing is kept, and of a credential's secret only whether a client     *)
(* presents it.                                                            *)
(***************************************************************************)
EXTENDS Integers, FiniteSets

CONSTANTS
    ClientIds,          \* the ids of credentials
    Uuids,              \* the ids of datasets
    ProcessingTime,     \* processing_time_seconds, in ticks
    GenerationFailure,  \* generation_failure is not None; FALSE in this app
    MaxClock,           \* bound on the clock
    None

Types == {"standard", "advanced"}
Scopes == {"all", "standard", "advanced", "clientcredentials"}

ASSUME StoresAssumption ==
    /\ IsFiniteSet(ClientIds)
    /\ ProcessingTime \in Nat /\ MaxClock \in Nat
    /\ GenerationFailure \in BOOLEAN

VARIABLES
    clock,
    credentials,  \* _oauth2_client_credentials: the scopes of each
    datasets      \* _model_target_datasets

stores == <<credentials, datasets>>

Dataset == [type : Types, created_at : Nat]

Present(dict) == {key \in DOMAIN dict : dict[key] # None}

\* Mutant: the creation date is not part of what is sent.
LoadedAnew(dataset, now) == [type |-> dataset.type, created_at |-> now]

\* from_dict of to_dict, as each copy of a dataset is made.
Loaded(dataset, now) ==
    [type |-> dataset.type, created_at |-> dataset.created_at]

DatasetStatus(dataset, now) ==
    IF now < dataset.created_at + ProcessingTime THEN "processing"
    ELSE IF GenerationFailure THEN "failed" ELSE "done"

-----------------------------------------------------------------------------
\* add_oauth2_client_credential adds a credential or replaces it.
PutCredential(id, scopes) ==
    /\ credentials' = [credentials EXCEPT ![id] = scopes]
    /\ UNCHANGED datasets

\* The handler looks the credential up in a copy and deletes it afterwards,
\* both without the lock: a KeyError when it has gone in between.
DeleteCredential(id) ==
    /\ credentials' = [credentials EXCEPT ![id] = None]
    /\ UNCHANGED datasets

AddDataset(uuid, dataset) ==
    /\ datasets' = [datasets EXCEPT ![uuid] = dataset]
    /\ UNCHANGED credentials

\* Lookup and removal under the lock: 404 and no change for an unknown uuid.
RemoveDataset(uuid) ==
    /\ datasets' = [datasets EXCEPT ![uuid] = None]
    /\ UNCHANGED credentials

TimePasses ==
    /\ clock < MaxClock
    /\ clock' = clock + 1
    /\ UNCHANGED stores

StoresInit ==
    /\ clock = 0
    /\ credentials = [id \in ClientIds |-> None]
    /\ datasets = [uuid \in Uuids |-> None]
=============================================================================
