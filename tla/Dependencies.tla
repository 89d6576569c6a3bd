---------------------------- MODULE Dependencies ----------------------------
(***************************************************************************)
(* The connections between the planning entities of one project:           *)
(* services/entity_connection_service.py, and the deletion of an entity    *)
(* that takes its connections with it (task_service.delete_task and the    *)
(* same steps in the other services).                                      *)
(*                                                                         *)
(* A "depends_on" connection is created under the lock of the project row  *)
(* (lock_dependency_graph), which is taken before the graph is walked and  *)
(* kept until the commit; the apply handler of connection.create runs the  *)
(* same steps.  Other relations are validated without any lock.            *)
(* Endpoints are ids without a foreign key, so only the service relates a  *)
(* connection to the rows it names.                                        *)
(***************************************************************************)
EXTENDS Naturals

CONSTANTS
    Tasks,          \* ids of the entities; their order is the lexical one
    Requests,       \* requests served at the same time
    Relations,      \* relation types in use
    NoLink, NoTask, \* what a request that works on none has
    Engine          \* "sqlite" or "postgresql"

ASSUME TasksAssumption ==
    Tasks \subseteq Nat /\ NoTask \notin Tasks
ASSUME RelationsAssumption == Relations \subseteq {"depends_on", "related_to"}
ASSUME EngineAssumption == Engine \in {"sqlite", "postgresql"}

VARIABLES
    tasks,      \* the entities that exist
    links,      \* committed rows of entity_connection
    call        \* what each request is doing

vars == <<tasks, links, call>>

\* The connections a request may ask for, and the rows that are stored: one row
\* for a related_to, which has no direction.
Wanted == [rel : Relations, src : Tasks, dst : Tasks]
Links == {l \in Wanted : l.rel = "related_to" => l.src < l.dst}

\* "purging": the DELETE of the rows "gone" was issued, the commit was not.
Call == [at : {"idle", "locked", "writing", "purging"},
         link : Links \cup {NoLink}, task : Tasks \cup {NoTask},
         gone : SUBSET Links]

Idle == [at |-> "idle", link |-> NoLink, task |-> NoTask, gone |-> {}]

ASSUME NoLinkAssumption == NoLink \notin Links

\* A related_to is stored from the lower id to the higher.
Canonical(l) ==
    IF l.rel = "related_to" /\ l.dst < l.src
      THEN [l EXCEPT !.src = l.dst, !.dst = l.src]
      ELSE l

Edges(L) == {<<l.src, l.dst>> : l \in {m \in L : m.rel = "depends_on"}}

Graph == INSTANCE DependencyGraph WITH edges <- Edges(links)

TypeOK ==
    /\ tasks \subseteq Tasks
    /\ links \subseteq Links
    /\ call \in [Requests -> Call]

Init ==
    /\ tasks = Tasks
    /\ links = {}
    /\ call = [r \in Requests |-> Idle]

-----------------------------------------------------------------------------
\* Locks

\* Mutant: the lock is a SELECT ... FOR UPDATE, which SQLite ignores: the
\* transaction begins to write at the INSERT.
HoldsGraphForUpdate(s) ==
    /\ Engine = "postgresql"
    /\ \/ call[s].at = "locked"
       \/ call[s].at = "writing" /\ call[s].link.rel = "depends_on"

\* The project row, updated by lock_dependency_graph, until the commit.
HoldsGraph(s) ==
    \/ call[s].at = "locked"
    \/ call[s].at = "writing" /\ call[s].link.rel = "depends_on"

\* SQLite has one writer at a time; PostgreSQL's other locks are on rows that
\* nobody else writes.
WriterFree(r) ==
    Engine = "sqlite" =>
       \A s \in Requests \ {r} : ~HoldsGraph(s) /\ call[s].at # "purging"

-----------------------------------------------------------------------------
\* create_connection

\* Mutant: the walk starts from the wrong end.
ValidWrongWay(l) ==
    /\ {l.src, l.dst} \subseteq tasks
    /\ l.src # l.dst
    /\ l.rel = "depends_on" => ~Graph!Reaches(Edges(links), l.src, l.dst)
    /\ l \notin links

\* validate_connection_values
Valid(l) ==
    /\ {l.src, l.dst} \subseteq tasks
    /\ l.src # l.dst
    /\ l.rel = "depends_on" => ~Graph!Reaches(Edges(links), l.dst, l.src)
    /\ l \notin links

\* A dependency: the project row first.
LockGraph(r, l) ==
    /\ call[r] = Idle
    /\ l.rel = "depends_on"
    /\ WriterFree(r)
    /\ \A s \in Requests \ {r} : ~HoldsGraph(s)
    /\ call' = [call EXCEPT ![r] = [Idle EXCEPT !.at = "locked", !.link = l]]
    /\ UNCHANGED <<tasks, links>>

\* Then the validation, on what is committed now; a refusal rolls back.
Walk(r) ==
    /\ call[r].at = "locked"
    /\ call' = [call EXCEPT ![r] = IF Valid(@.link) THEN [@ EXCEPT !.at = "writing"]
                                                    ELSE Idle]
    /\ UNCHANGED <<tasks, links>>

\* Any other relation: only the validation.
Validate(r, l) ==
    /\ call[r] = Idle
    /\ l.rel # "depends_on"
    /\ Valid(Canonical(l))
    /\ call' = [call EXCEPT ![r] = [Idle EXCEPT !.at = "writing", !.link = Canonical(l)]]
    /\ UNCHANGED <<tasks, links>>

\* INSERT and commit, or the unique constraint refuses and the call rolls back
\* (which leaves links as they are).
Insert(r) ==
    /\ call[r].at = "writing"
    /\ WriterFree(r)
    /\ links' = links \cup {call[r].link}
    /\ call' = [call EXCEPT ![r] = Idle]
    /\ UNCHANGED tasks

-----------------------------------------------------------------------------
\* delete_connection, and delete_task with delete_for_entity

DeleteLink(l) ==
    /\ l \in links
    /\ \A r \in Requests : l \notin call[r].gone
    /\ Engine = "sqlite" =>
          \A r \in Requests : ~HoldsGraph(r) /\ call[r].at # "purging"
    /\ links' = links \ {l}
    /\ UNCHANGED <<tasks, call>>

\* Mutant: only the connections that start at the task are deleted.
TouchingAsSource(k) == {l \in links : l.src = k}

Touching(k) == {l \in links : k \in {l.src, l.dst}}

\* The DELETE of the task's connections opens the transaction.
Purge(r, k) ==
    /\ call[r] = Idle
    /\ k \in tasks
    /\ \A s \in Requests : call[s].task # k
    /\ WriterFree(r)
    /\ call' = [call EXCEPT ![r] = [Idle EXCEPT !.at = "purging", !.task = k,
                                                !.gone = Touching(k)]]
    /\ UNCHANGED <<tasks, links>>

\* The DELETE of the task, and the commit of both.
DeleteTask(r) ==
    /\ call[r].at = "purging"
    /\ tasks' = tasks \ {call[r].task}
    /\ links' = links \ call[r].gone
    /\ call' = [call EXCEPT ![r] = Idle]

-----------------------------------------------------------------------------
\* A request dies or times out: its transaction is rolled back.
Abort(r) ==
    /\ call[r] # Idle
    /\ call' = [call EXCEPT ![r] = Idle]
    /\ UNCHANGED <<tasks, links>>

Next ==
    \/ \E r \in Requests :
          \/ Walk(r) \/ Insert(r) \/ DeleteTask(r) \/ Abort(r)
          \/ \E l \in Wanted : LockGraph(r, l) \/ Validate(r, l)
          \/ \E k \in Tasks : Purge(r, k)
    \/ \E l \in links : DeleteLink(l)

Spec == Init /\ [][Next]_vars

-----------------------------------------------------------------------------
\* Properties

\* No task depends on itself through other tasks, however many requests add
\* dependencies at the same time (the lock of lock_dependency_graph, on both
\* databases).
Acyclic == Graph!AcyclicEdges(Edges(links))

\* Every dependency enters the graph at once and only if it closes no cycle
\* then, although the walk that decides it ran earlier.
ImplementsGraph == Graph!Spec

\* The tasks of every dependency exist.
DependenciesExist ==
    \A l \in links : l.rel = "depends_on" => {l.src, l.dst} \subseteq tasks

=============================================================================
