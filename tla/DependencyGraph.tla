-------------------------- MODULE DependencyGraph ---------------------------
(***************************************************************************)
(* What services/entity_connection_service.py promises about the           *)
(* "depends_on" connections of one project: dependencies appear one at a   *)
(* time, each only if it closes no cycle, and disappear at any time.       *)
(***************************************************************************)
CONSTANT Tasks
VARIABLE edges      \* the pairs <<task, the task it depends on>>

Closed(E, C) == \A e \in E : e[1] \in C => e[2] \in C

\* The breadth-first walk from x meets y: every set that holds x and whatever
\* its members depend on holds y.
Reaches(E, x, y) == \A C \in SUBSET Tasks : x \in C /\ Closed(E, C) => y \in C

AcyclicEdges(E) == \A e \in E : ~Reaches(E, e[2], e[1])

Init == edges = {}

Add(s, t) ==
    /\ ~Reaches(edges, t, s)
    /\ edges' = edges \cup {<<s, t>>}

Remove(gone) == edges' = edges \ gone

Next ==
    \/ \E s, t \in Tasks : Add(s, t)
    \/ \E gone \in SUBSET edges : Remove(gone)

Spec == Init /\ [][Next]_edges

=============================================================================
