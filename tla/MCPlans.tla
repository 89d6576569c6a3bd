------------------------------- MODULE MCPlans -------------------------------
(***************************************************************************)
(* The rows of a plan, side by side in one instance: the dependencies of   *)
(* tasks (MCDependencies), the rows that refer to each other (MCPlanning), *)
(* the order of rows (Ordering), the tree of todos (Todos), and a copy of  *)
(* them all (Copies, on both databases).  The first state chooses which of *)
(* them runs ("part"), and whether the requests of Ordering and Todos      *)
(* overlap ("calm"; MCPlanning has its own).                               *)
(***************************************************************************)
EXTENDS MCDependencies, Integers, FiniteSets

CONSTANTS
    Rows,       \* of Planning: tasks; of Todos: todos
    Notes, Phases, Stages, Keys,    \* see Planning
    NoId, Gone,
    Positioned, \* the rows that are ordered; their order breaks ties
    Numbers,    \* positions that callers give them
    Few, FewPhases, \* tasks and phases of the project that is copied
    NotYet

VARIABLES
    part,
    item, phases, stageOf, options, pcall, focus, pcalm,
    list, made, there, pos, want, byHand, ocall,
    parent, tcall,
    row, touched, op, at, file, copy,
    calm        \* one request at a time

P == INSTANCE MCPlanning WITH
        Tasks <- Rows, call <- pcall, calm <- pcalm
O == INSTANCE Ordering WITH Rows <- Positioned, call <- ocall
T == INSTANCE Todos WITH Todos <- Rows, Top <- NoId, call <- tcall
C == INSTANCE Copies WITH
        Phases <- FewPhases, Tasks <- Few, Items <- Notes, Connections <- Stages,
        None <- NotYet, Engine <- "postgresql"
CSqlite == INSTANCE Copies WITH
        Phases <- FewPhases, Tasks <- Few, Items <- Notes, Connections <- Stages,
        None <- NotYet, Engine <- "sqlite"

\* What the parts assume of their constants.
ASSUME RequestsAreFinite == IsFiniteSet(Requests)
ASSUME PlanAssumption == NoId \notin Rows \cup Phases \cup Stages
ASSUME OrderingAssumption == 
    Positioned \in SUBSET (Nat \ {0}) /\ IsFiniteSet(Positioned) /\ Numbers \in SUBSET Int
ASSUME TodosAssumption == NoId \notin Rows /\ Gone \notin Rows \cup {NoId}
ASSUME CopiesAssumption ==
    /\ NotYet \notin C!Row
    /\ Gone \notin C!Row
    /\ FewPhases \cap (Few \cup Notes \cup Stages) = {}
    /\ Few \cap (Notes \cup Stages) = {}
    /\ Notes \cap Stages = {}

planVars == <<item, phases, stageOf, options, pcall, focus, pcalm>>
orderVars == <<list, made, there, pos, want, byHand, ocall>>
todoVars == <<parent, tcall>>
copyVars == <<row, touched, op, at, file, copy>>

MCPositioned == 1..4
MCNumbers == {-1, 2}
PlansSymmetry == Permutations(Requests) \cup Permutations(Few)

\* A part that does not run has no state: its variables are 0.
NoPlan == item = 0 /\ phases = 0 /\ stageOf = 0 /\ options = 0 /\ pcall = 0 /\ focus = 0 /\ pcalm = 0
NoOrder ==
    list = 0 /\ made = 0 /\ there = 0 /\ pos = 0 /\ want = 0 /\ byHand = 0 /\ ocall = 0
NoTodos == parent = 0 /\ tcall = 0
NoCopies == row = 0 /\ touched = 0 /\ op = 0 /\ at = 0 /\ file = 0 /\ copy = 0

PlansInit ==
    /\ part \in {"dependencies", "planning", "ordering", "todos", "copies"}
    /\ MCInit
    /\ IF part = "planning" THEN P!MCInit ELSE NoPlan
    /\ IF part = "ordering" THEN O!Init ELSE NoOrder
    /\ IF part = "todos" THEN T!Init ELSE NoTodos
    /\ IF part = "copies" THEN C!Init ELSE NoCopies
    /\ calm \in BOOLEAN
    /\ part \notin {"ordering", "todos"} => calm
    /\ part \notin {"dependencies", "copies"} => engine = "sqlite"

OneOf(c, idle) == calm => Cardinality({r \in Requests : c[r] # idle}) <= 1

\* Files people hand over: rows of the right kinds that refer to anything.
Shape(K) == C!Shapes(CHOOSE x \in K : TRUE) \cup {NotYet}
Files ==
    {[x \in C!Ids |-> CASE x \in FewPhases -> f[1][x] [] x \in Notes -> f[2][x]
                        [] x \in Stages -> f[3][x] [] OTHER -> f[4][x]] :
        f \in [FewPhases -> Shape(FewPhases)] \X [Notes -> Shape(Notes)]
               \X [Stages -> Shape(Stages)] \X [Few -> Shape(Few)]}

\* Two rows change during a copy, or all are purged; an export reads alike on both
\* databases.
CopiesNext ==
    /\ \/ engine = "postgresql" /\ (C!Edit \/ C!Work)
       \/ engine = "sqlite" /\ (CSqlite!Edit \/ CSqlite!Work) /\ op' # "export"
       \/ row = C!Blank /\ engine = "sqlite" /\ \E f \in Files : C!Given(f)
    /\ Cardinality(touched') <= 2 \/ touched' = C!Ids

PlansNext ==
    /\ \/ /\ part = "dependencies" /\ MCNext
          /\ UNCHANGED <<planVars, orderVars, todoVars, copyVars>>
       \/ /\ part = "planning" /\ P!MCNext
          /\ UNCHANGED <<vars, engine, orderVars, todoVars, copyVars>>
       \/ /\ part = "ordering" /\ O!Next /\ OneOf(ocall', O!Idle)
          /\ ~calm => Cardinality(made') <= 2
          /\ UNCHANGED <<vars, engine, planVars, todoVars, copyVars>>
       \/ /\ part = "todos" /\ T!Next /\ OneOf(tcall', T!Idle)
          /\ ~calm => Cardinality(T!There') <= 2
          /\ UNCHANGED <<vars, engine, planVars, orderVars, copyVars>>
       \/ /\ part = "copies" /\ CopiesNext
          /\ UNCHANGED <<vars, engine, planVars, orderVars, todoVars>>
    /\ UNCHANGED <<part, calm>>

PlansSpec ==
    PlansInit /\ [][PlansNext]_<<part, calm, vars, engine, planVars, orderVars, todoVars,
                               copyVars>>

\* One request at a time, tasks form a forest, no row has a status that is not
\* defined, and nothing becomes undeletable (see Planning).
SerialPlanHolds ==
    part = "planning" =>
        P!TypeOK /\ (pcalm => P!TasksForest /\ P!StatusesDefined /\ P!DeletionsSucceed)

\* One request at a time, rows are listed in the order people gave them (see
\* Ordering).
SerialOrderIsAsAsked ==
    part = "ordering" => O!TypeOK /\ (calm => O!OrderIsAsAsked)

\* One request at a time, todos form a forest and a deletion takes a whole
\* subtree (see Todos).
SerialTodosStayTree ==
    [][part = "todos" => T!TypeOK' /\ (calm => T!TodosForest' /\ T!WholeSubtrees)]_todoVars

\* A copy refers to nothing outside itself, and has all that was left alone while
\* it was read (see Copies; each part on its database).
CopiesAreFaithful ==
    part = "copies" =>
        /\ C!TypeOK /\ C!CopyIsClosed
        /\ C!UntouchedIsCopied /\ (engine = "sqlite" => CSqlite!UntouchedIsCopied)

=============================================================================
