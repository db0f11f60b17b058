----------------------------- MODULE MockWorlds -----------------------------
(***************************************************************************)
(* What MockVWS promises about targets, in the docstrings of decorators.py:*)
(* blocks share one world, and a decorated call changes a world of its own *)
(* which is discarded when it returns.  Databases added during a call are  *)
(* not part of what is put back: their targets outlive it.                 *)
(***************************************************************************)
EXTENDS Sequences, Integers

CONSTANT CloudDatabases

VARIABLES
    known,  \* the databases added so far
    world,  \* the targets of every database
    saved   \* of each running block and call, the targets it will put back

worlds_vars == <<known, world, saved>>

Request ==
    /\ \E db \in known : \E changed \in {world'[db]} :
          world' = [world EXCEPT ![db] = changed]
    /\ UNCHANGED <<known, saved>>

Add ==
    /\ \E db \in CloudDatabases : known' = known \cup {db}
    /\ UNCHANGED <<world, saved>>

\* A call saves all databases, a block none.
Begin ==
    /\ \E dbs \in {{}, known} :
          saved' = Append(saved, [db \in dbs |-> world[db]])
    /\ UNCHANGED <<known, world>>

End ==
    /\ saved # <<>>
    /\ LET last == saved[Len(saved)]
       IN  world' = [db \in CloudDatabases |->
                       IF db \in DOMAIN last THEN last[db] ELSE world[db]]
    /\ saved' = SubSeq(saved, 1, Len(saved) - 1)
    /\ UNCHANGED known

Init ==
    /\ known = {} /\ saved = <<>>
    /\ world = [db \in CloudDatabases |-> {}]

Next == Request \/ Add \/ Begin \/ End

Spec == Init /\ [][Next]_worlds_vars
=============================================================================
