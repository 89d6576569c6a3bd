----------------------------- MODULE MCPlanning ------------------------------
(***************************************************************************)
(* Instances of Planning for TLC.  The first state chooses what the        *)
(* requests work on, so that the rows that play no part stay few, and      *)
(* whether requests overlap.                                               *)
(***************************************************************************)
EXTENDS Planning

VARIABLES
    focus,      \* "tasks", "places" or "statuses"
    calm        \* requests are served one after the other

MCInit ==
    /\ Init
    /\ focus \in {"tasks", "places", "statuses"}
    /\ calm \in BOOLEAN

Only(f, S, none) == IF focus = f THEN S ELSE {none}

\* The rows requests ask for.
Asked ==
    [state : {"live"},
     parent : Only("tasks", Refs(Tasks), NoId),
     phase : Only("places", Refs(Phases), NoId),
     stage : Only("places", Refs(Stages), NoId),
     status : Only("statuses", Statuses, "backlog")]

MCNext ==
    /\ Asking(Asked)
    /\ focus # "places" => phases' = {}
    /\ focus # "statuses" => \A r \in Requests : call'[r].at # "adding"
    /\ LET made == Cardinality({t \in Tasks : item'[t].state # "none"})
       IN  (focus # "tasks" => made <= 1) /\ (~calm => made <= 2)
    /\ (focus = "tasks" \/ (focus = "places" /\ ~calm)) => \A n \in Notes : item'[n] = Blank
    /\ calm => Cardinality({r \in Requests : call'[r] # Idle}) <= 1
    /\ UNCHANGED <<focus, calm>>

MCSpec == MCInit /\ [][MCNext]_<<vars, focus, calm>>

=============================================================================
