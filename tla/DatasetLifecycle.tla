-------------------------- MODULE DatasetLifecycle --------------------------
(***************************************************************************)
(* What the Model Target Web API promises of a dataset: it comes to be     *)
(* once, at some moment of its processing, its processing ends once, and   *)
(* it goes once, for good, and only when a client which knows of it asked  *)
(* for that.  Nobody knows of a dataset that is not there.  Restarts and   *)
(* lost or late calls do not show.  ModelTargetService is shown to         *)
(* implement it.                                                           *)
(***************************************************************************)
CONSTANTS Uuids   \* the ids of datasets

VARIABLES
    phase,   \* of each dataset
    known,   \* the datasets clients know of
    asked    \* the datasets which clients asked to delete

vars == <<phase, known, asked>>

Stored == {"processing", "finished"}

Init ==
    /\ phase = [uuid \in Uuids |-> "absent"]
    /\ known = {} /\ asked = {}

\* Processing has begun before, when the dataset was asked for.
Create(uuid) ==
    /\ phase[uuid] = "absent"
    /\ \E p \in Stored : phase' = [phase EXCEPT ![uuid] = p]
    /\ UNCHANGED <<known, asked>>

\* The same time passes for all of them.
FinishProcessing ==
    /\ \E done \in SUBSET {uuid \in Uuids : phase[uuid] = "processing"} :
         phase' = [uuid \in Uuids |->
                     IF uuid \in done THEN "finished" ELSE phase[uuid]]
    /\ UNCHANGED <<known, asked>>

Tell(uuid) ==
    /\ phase[uuid] \in Stored
    /\ known' = known \cup {uuid}
    /\ UNCHANGED <<phase, asked>>

AskToDelete(uuid) ==
    /\ uuid \in known /\ phase[uuid] \in Stored
    /\ asked' = asked \cup {uuid}
    /\ UNCHANGED <<phase, known>>

Delete(uuid) ==
    /\ uuid \in asked /\ phase[uuid] \in Stored
    /\ phase' = [phase EXCEPT ![uuid] = "deleted"]
    /\ UNCHANGED <<known, asked>>

Next ==
    \/ \E uuid \in Uuids :
         Create(uuid) \/ Tell(uuid) \/ AskToDelete(uuid) \/ Delete(uuid)
    \/ FinishProcessing

Spec == Init /\ [][Next]_vars
=============================================================================
