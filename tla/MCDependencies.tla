--------------------------- MODULE MCDependencies ---------------------------
(***************************************************************************)
(* A small instance of Dependencies on both databases: the extended module *)
(* runs on PostgreSQL (the value of Engine), Sqlite is the same module on  *)
(* SQLite, and the first state chooses between them.                       *)
(***************************************************************************)
EXTENDS Dependencies, TLC

VARIABLE engine     \* the database of this server

Sqlite == INSTANCE Dependencies WITH Engine <- "sqlite"

MCTasks == 1..3
Symmetry == Permutations(Requests)

MCInit == Init /\ engine \in {"sqlite", "postgresql"}
MCNext ==
    /\ \/ engine = "postgresql" /\ Next
       \/ engine = "sqlite" /\ Sqlite!Next
    /\ UNCHANGED engine
MCSpec == MCInit /\ [][MCNext]_<<vars, engine>>

\* On SQLite a dependency never names a task that no longer exists: the write
\* lock that orders the walks also keeps deletions out.  (On PostgreSQL a task
\* can be deleted between the check and the INSERT.)
DependenciesResolve == engine = "sqlite" => DependenciesExist

=============================================================================
