SPECIFICATION PlansSpec
CONSTANTS
    Tasks <- MCTasks
    Requests = {r1, r2}
    Relations = {"depends_on", "related_to"}
    NoLink = NoLink
    NoTask = NoTask
    Engine = "postgresql"
    Rows = {t1, t2, t3}
    Notes = {note}
    Phases = {phase1, phase2}
    Stages = {stage}
    Keys = {custom}
    NoId = NoId
    Gone = Gone
    Positioned <- MCPositioned
    Numbers <- MCNumbers
    Few = {k1, k2}
    FewPhases = {phase1}
    NotYet = NotYet
SYMMETRY PlansSymmetry
INVARIANTS Acyclic DependenciesResolve SerialPlanHolds SerialOrderIsAsAsked CopiesAreFaithful
PROPERTIES ImplementsGraph SerialTodosStayTree
CHECK_DEADLOCK FALSE
