------------------------------- MODULE Copies --------------------------------
(***************************************************************************)
(* Copying a project: duplicate_project (services/project_service.py),     *)
(* export_project and import_project (services/export_service.py) around   *)
(* the one walk they share, copy_graph (services/project_graph.py).        *)
(*                                                                         *)
(* The walk reads one kind of rows after the other, parents before what    *)
(* points at them, and carries a reference over only if it has copied its  *)
(* target: an optional one becomes NULL, a row that is about a missing one *)
(* is left out.  Phases, tasks, checklist items and connections stand for  *)
(* the kinds there are: an optional reference, one to a row of the same    *)
(* kind, a row reached through its parent, and one about two others.       *)
(*                                                                         *)
(* People edit the project meanwhile.  On SQLite a duplicate has written   *)
(* its project before it reads, and the single writer keeps them out; an   *)
(* export writes nothing, and on PostgreSQL nothing keeps them out: each   *)
(* SELECT sees what was committed last.  A copied row keeps the name of    *)
(* its original here.                                                      *)
(***************************************************************************)
EXTENDS Naturals

CONSTANTS
    Phases, Tasks, Items, Connections,
    NoId, None, Gone,   \* no reference; not there yet; deleted
    Engine

VARIABLES
    row,        \* the rows of the project
    touched,    \* rows created or changed since the copy began
    op,         \* what is going on: "idle", "duplicate", "export", "import" or "given"
    at,         \* the kinds that were read
    file,       \* what the export has written
    copy        \* the rows of the new project

vars == <<row, touched, op, at, file, copy>>

Entities == Phases \cup Tasks
Ids == Entities \cup Items \cup Connections

\* "of": what the row is about; without it, the row is nothing.
Row == [phase : Phases \cup {NoId}, parent : Tasks \cup {NoId}, of : SUBSET Entities]

\* The rows a kind can have.
Shapes(x) ==
    [phase : IF x \in Tasks THEN Phases \cup {NoId} ELSE {NoId},
     parent : IF x \in Tasks THEN Tasks \cup {NoId} ELSE {NoId},
     of : IF x \in Items THEN {{t} : t \in Tasks}
          ELSE IF x \in Connections
            THEN {{a, b} : a \in Entities, b \in Entities} \ {{a} : a \in Entities}
          ELSE {{}}]

Graphs == [Ids -> Row \cup {None, Gone}]

Blank == [x \in Ids |-> None]

TypeOK ==
    /\ row \in Graphs /\ file \in Graphs /\ copy \in Graphs
    /\ touched \subseteq Ids
    /\ op \in {"idle", "duplicate", "export", "import", "given"}
    /\ at \in 0..4

In(g) == {x \in Ids : g[x] \notin {None, Gone}}

Refs(w) == {w.phase, w.parent} \ {NoId}

Init ==
    /\ row = Blank /\ file = Blank /\ copy = Blank
    /\ touched = {} /\ op = "idle" /\ at = 0

-----------------------------------------------------------------------------
\* People at work: each a transaction that keeps the references (see Planning).

\* May people write now?  (What they do after the last read is not in the copy.)
Unlocked ==
    /\ op \in {"idle", "export", "duplicate"} /\ at < 4
    /\ ~(Engine = "sqlite" /\ op = "duplicate")

Touch(S) == touched' = IF op = "idle" THEN {} ELSE touched \cup S

ParentOk(w) == w.parent # NoId => row[w.parent].parent = NoId

Create(x, w) ==
    /\ Unlocked /\ row[x] = None
    /\ w \in Shapes(x) /\ Refs(w) \cup w.of \subseteq In(row)
    /\ ParentOk(w)
    /\ row' = [row EXCEPT ![x] = w]
    /\ Touch({x})
    /\ UNCHANGED <<op, at, file, copy>>

\* A task moves to another phase, or under another task.
Move(t, w) ==
    /\ Unlocked /\ t \in In(row) \cap Tasks
    /\ w \in Shapes(t) /\ w # row[t] /\ Refs(w) \subseteq In(row)
    /\ w.parent # t /\ ParentOk(w)
    /\ row' = [row EXCEPT ![t] = w]
    /\ Touch({t})
    /\ UNCHANGED <<op, at, file, copy>>

\* What is about the row goes with it, what refers to it forgets it.
Without(x, w) ==
    [w EXCEPT !.phase = IF @ = x THEN NoId ELSE @,
              !.parent = IF @ = x THEN NoId ELSE @]
Delete(x) ==
    /\ Unlocked /\ x \in In(row)
    /\ LET left == [y \in Ids |->
                       IF y \notin In(row) THEN row[y]
                       ELSE IF y = x \/ x \in row[y].of THEN Gone
                       ELSE Without(x, row[y])]
       IN  /\ row' = left
           /\ Touch({y \in Ids : left[y] # row[y]})
    /\ UNCHANGED <<op, at, file, copy>>

\* purge_project
Purge ==
    /\ Unlocked
    /\ row' = [x \in Ids |-> Gone]
    /\ Touch(Ids)
    /\ UNCHANGED <<op, at, file, copy>>

-----------------------------------------------------------------------------
\* Mutant: tasks before phases.
KindsTasksFirst == <<Tasks, Phases, Items, Connections>>

\* ENTITIES
Kinds == <<Phases, Tasks, Items, Connections>>

\* duplicate_project has read and flushed the project; export_project has read it.
Begin(what) ==
    /\ op = "idle"
    /\ op' = what
    /\ UNCHANGED <<row, touched, at, file, copy>>

\* Somebody hands over a file; validate_import_payload looks at single rows only.
Given(f) ==
    /\ op = "idle"
    /\ op' = "given"
    /\ file' = f
    /\ UNCHANGED <<row, touched, at, copy>>

\* rows_of: checklist items are found through the tasks found before.
Read(g, found, K) ==
    {x \in In(g) \cap K : K = Items => g[x].of \subseteq found}

\* fk_remap, and the second pass for self_ref.
Remapped(w, found, read) ==
    [w EXCEPT !.phase = IF @ \in found THEN @ ELSE NoId,
              !.parent = IF @ \in read THEN @ ELSE NoId]

\* One kind of copy_graph: "done" is copied already, g is where the rows come from.
CopyKind(g, done, K) ==
    LET found == In(done)
        read == Read(g, found, K)
        kept == {x \in read : g[x].of \subseteq found}
    IN  [x \in Ids |-> IF x \in kept THEN Remapped(g[x], found, kept) ELSE done[x]]

CopyStep ==
    /\ op \in {"duplicate", "import", "given"} /\ at < 4
    /\ copy' = CopyKind(IF op = "duplicate" THEN row ELSE file, copy, Kinds[at + 1])
    /\ at' = at + 1
    /\ UNCHANGED <<row, touched, op, file>>

ExportStep ==
    /\ op = "export" /\ at < 4
    /\ LET read == Read(row, In(file), Kinds[at + 1])
       IN  file' = [x \in Ids |-> IF x \in read THEN row[x] ELSE file[x]]
    /\ at' = at + 1
    /\ UNCHANGED <<row, touched, op, copy>>

Import ==
    /\ op = "export" /\ at = 4
    /\ op' = "import" /\ at' = 0
    /\ UNCHANGED <<row, touched, file, copy>>

\* The request fails or dies; nothing of the new project was committed.
Abort ==
    /\ op # "idle" /\ at < 4
    /\ op' = "idle" /\ at' = 0
    /\ touched' = {} /\ file' = Blank /\ copy' = Blank
    /\ UNCHANGED row

Edit ==
    \/ \E x \in Ids : \E w \in Shapes(x) : Create(x, w)
    \/ \E t \in Tasks : \E w \in Shapes(t) : Move(t, w)
    \/ \E x \in Ids : Delete(x)
    \/ Purge

Work ==
    \/ Begin("duplicate") \/ Begin("export")
    \/ CopyStep \/ ExportStep \/ Import \/ Abort

Next == Edit \/ Work \/ \E f \in Graphs : Given(f)

Spec == Init /\ [][Next]_vars

-----------------------------------------------------------------------------
Copied == op \in {"duplicate", "import", "given"} /\ at = 4

\* A copy refers to nothing outside itself, whatever people or files did.
CopyIsClosed ==
    Copied => \A x \in In(copy) : Refs(copy[x]) \cup copy[x].of \subseteq In(copy)

\* Rows that nobody touched while they were read are in the copy just as they
\* are, with all they refer to; on SQLite, a duplicate has all of the rows.
UntouchedIsCopied ==
    Copied /\ op # "given" =>
       /\ \A x \in In(row) \ touched : copy[x] = row[x]
       /\ Engine = "sqlite" /\ op = "duplicate" => In(copy) = In(row) /\ touched = {}

=============================================================================
