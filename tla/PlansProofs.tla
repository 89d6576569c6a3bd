----------------------------- MODULE PlansProofs -----------------------------
(***************************************************************************)
(* Proofs about the parts of MCPlans, one after the other: dependencies    *)
(* of tasks, rows that refer to each other, copies, todos and the order of *)
(* rows.  Of each part an inductive invariant is proved of its own actions *)
(* first, then of PlansNext, in which the part runs or has no state.       *)
(* What a part promises to requests that do not overlap rests on one more  *)
(* fact, that at most one request is in the middle of something (...Alone, *)
(* of OneOf).                                                              *)
(***************************************************************************)
EXTENDS MCPlans, Sequences, FiniteSetTheorems, TLAPS

-----------------------------------------------------------------------------
\* Graphs.  A walk that fails to meet a node leaves a closed set that separates
\* the two: the proofs work on that set.

\* Taking edges away never makes a node reachable.
LEMMA FewerEdgesReachLess ==
    ASSUME NEW E, NEW F \in SUBSET E, NEW x, NEW y, Graph!Reaches(F, x, y)
    PROVE  Graph!Reaches(E, x, y)
BY DEF Graph!Reaches, Graph!Closed

LEMMA RemovalKeepsAcyclic ==
    ASSUME NEW E, NEW F \in SUBSET E, Graph!AcyclicEdges(E)
    PROVE  Graph!AcyclicEdges(F)
BY FewerEdgesReachLess DEF Graph!AcyclicEdges

\* What _would_create_dependency_cycle relies on: an edge whose target does not
\* reach its source closes no cycle.
LEMMA AdditionKeepsAcyclic ==
    ASSUME NEW E \in SUBSET (Tasks \X Tasks), Graph!AcyclicEdges(E),
           NEW s \in Tasks, NEW t \in Tasks, ~Graph!Reaches(E, t, s)
    PROVE  Graph!AcyclicEdges(E \cup {<<s, t>>})
<1> DEFINE F == E \cup {<<s, t>>}
<1>1. PICK W \in SUBSET Tasks : t \in W /\ Graph!Closed(E, W) /\ s \notin W
  BY DEF Graph!Reaches
<1>2. SUFFICES ASSUME NEW e \in F
               PROVE  ~Graph!Reaches(F, e[2], e[1])
  BY DEF Graph!AcyclicEdges
<1>3. CASE e = <<s, t>>
  <2>1. Graph!Closed(F, W)
    BY <1>1 DEF Graph!Closed
  <2> QED
    BY <1>1, <1>3, <2>1 DEF Graph!Reaches
<1>4. CASE e \in E
  <2>1. PICK D \in SUBSET Tasks : e[2] \in D /\ Graph!Closed(E, D) /\ e[1] \notin D
    BY <1>4 DEF Graph!AcyclicEdges, Graph!Reaches
  <2>2. CASE s \notin D
    <3>1. Graph!Closed(F, D)
      BY <2>1, <2>2 DEF Graph!Closed
    <3> QED
      BY <2>1, <3>1 DEF Graph!Reaches
  <2>3. CASE e[1] \notin W
    <3>1. Graph!Closed(F, W \cup D)
      BY <1>1, <2>1 DEF Graph!Closed
    <3> QED
      BY <1>1, <2>1, <2>3, <3>1 DEF Graph!Reaches
  <2>4. CASE e[1] \in W
    <3>1. e[2] \in W
      BY <1>1, <1>4, <2>4 DEF Graph!Closed
    <3>2. Graph!Closed(F, W \cap D)
      BY <1>1, <2>1 DEF Graph!Closed
    <3> QED
      BY <1>1, <2>1, <3>1, <3>2 DEF Graph!Reaches
  <2> QED
    BY <2>2, <2>3, <2>4
<1> QED
  BY <1>3, <1>4

LEMMA EdgesInTasks ==
    ASSUME NEW L \in SUBSET Links
    PROVE  Edges(L) \in SUBSET (Tasks \X Tasks)
BY DEF Edges, Links, Wanted

LEMMA EdgesGrow ==
    ASSUME NEW L, NEW l
    PROVE  /\ l.rel = "depends_on" =>
                Edges(L \cup {l}) = Edges(L) \cup {<<l.src, l.dst>>}
           /\ l.rel # "depends_on" => Edges(L \cup {l}) = Edges(L)
BY DEF Edges

LEMMA EdgesShrink ==
    ASSUME NEW L, NEW M \in SUBSET L
    PROVE  Edges(M) \in SUBSET Edges(L)
BY DEF Edges

-----------------------------------------------------------------------------
\* Types

\* A request that works on a connection has one.
LinkKnown == \A r \in Requests : call[r].at \in {"locked", "writing"} => call[r].link \in Links

\* normalize_connection_patch gives every pair of distinct endpoints a row that
\* the unique constraint can compare.
LEMMA CanonicalIsLink ==
    ASSUME NEW l \in Wanted, Canonical(l).src # Canonical(l).dst
    PROVE  Canonical(l) \in Links /\ Canonical(l).rel = l.rel
<1>1. l.src \in Nat /\ l.dst \in Nat /\ l.rel \in Relations
  BY TasksAssumption DEF Wanted
<1>2. CASE l.rel = "related_to" /\ l.dst < l.src
  <2>1. Canonical(l) = [rel |-> l.rel, src |-> l.dst, dst |-> l.src]
    BY <1>2 DEF Canonical, Wanted
  <2> QED
    BY <1>2, <2>1 DEF Links, Wanted
<1>3. CASE ~(l.rel = "related_to" /\ l.dst < l.src)
  <2>1. Canonical(l) = l
    BY <1>3 DEF Canonical
  <2>2. l.rel = "related_to" => l.src < l.dst
    BY <1>1, <1>3, <2>1
  <2> QED
    BY <2>1, <2>2 DEF Links
<1> QED
  BY <1>2, <1>3

LEMMA IdleIsCall == Idle \in Call
BY DEF Idle, Call

\* A request in the middle of a creation has the connection it creates.
LEMMA TypeInit == Init => TypeOK /\ LinkKnown
BY IdleIsCall DEF Init, TypeOK, LinkKnown, Idle

LEMMA TypeStep == TypeOK /\ LinkKnown /\ [Next]_vars => (TypeOK /\ LinkKnown)'
<1> SUFFICES ASSUME TypeOK, LinkKnown, [Next]_vars
             PROVE  TypeOK' /\ LinkKnown'
  OBVIOUS
<1> USE IdleIsCall DEF TypeOK, LinkKnown
<1>1. ASSUME NEW r \in Requests, Walk(r) PROVE TypeOK' /\ LinkKnown'
  BY <1>1 DEF Walk, Call, Idle
<1>2. ASSUME NEW r \in Requests, Insert(r) PROVE TypeOK' /\ LinkKnown'
  BY <1>2 DEF Insert, Idle
<1>3. ASSUME NEW r \in Requests, DeleteTask(r) PROVE TypeOK' /\ LinkKnown'
  BY <1>3 DEF DeleteTask, Idle
<1>4. ASSUME NEW r \in Requests, Abort(r) PROVE TypeOK' /\ LinkKnown'
  BY <1>4 DEF Abort, Idle
<1>5. ASSUME NEW r \in Requests, NEW l \in Wanted, LockGraph(r, l)
      PROVE  TypeOK' /\ LinkKnown'
  <2>1. l \in Links
    BY <1>5 DEF LockGraph, Links
  <2> QED
    BY <1>5, <2>1 DEF LockGraph, Call, Idle
<1>6. ASSUME NEW r \in Requests, NEW l \in Wanted, Validate(r, l)
      PROVE  TypeOK' /\ LinkKnown'
  <2>1. Canonical(l) \in Links
    BY <1>6, CanonicalIsLink DEF Validate, Valid
  <2> QED
    BY <1>6, <2>1 DEF Validate, Call, Idle
<1>7. ASSUME NEW r \in Requests, NEW k \in Tasks, Purge(r, k)
      PROVE  TypeOK' /\ LinkKnown'
  BY <1>7 DEF Purge, Call, Idle, Touching
<1>8. ASSUME NEW l \in links, DeleteLink(l) PROVE TypeOK' /\ LinkKnown'
  BY <1>8 DEF DeleteLink
<1>9. CASE UNCHANGED vars
  BY <1>9 DEF vars
<1> QED
  BY <1>1, <1>2, <1>3, <1>4, <1>5, <1>6, <1>7, <1>8, <1>9 DEF Next

\* Every state is of the declared types, and a request in the middle of a
\* creation has the connection it creates.
THEOREM TypeCorrect == Spec => [](TypeOK /\ LinkKnown)
BY TypeInit, TypeStep, PTL DEF Spec

-----------------------------------------------------------------------------
\* The lock

\* At most one request holds the project row.
OneHolder == \A r, s \in Requests : HoldsGraph(r) /\ HoldsGraph(s) => r = s

\* The answer of the walk stays true until the INSERT it was made for.
WalkStillTrue ==
    \A r \in Requests :
        call[r].at = "writing" /\ call[r].link.rel = "depends_on" =>
            ~Graph!Reaches(Edges(links), call[r].link.dst, call[r].link.src)

GraphInv == TypeOK /\ LinkKnown /\ OneHolder /\ WalkStillTrue

\* A step that only takes connections away and starts or advances no creation.
LEMMA RemovalKeepsGraphInv ==
    ASSUME OneHolder, WalkStillTrue, links' \subseteq links,
           \A r \in Requests : call'[r] = call[r] \/ call'[r].at \in {"idle", "purging"}
    PROVE  OneHolder' /\ WalkStillTrue'
<1>1. Edges(links') \in SUBSET Edges(links)
  BY EdgesShrink
<1> QED
  BY <1>1, FewerEdgesReachLess DEF OneHolder, WalkStillTrue, HoldsGraph

LEMMA GraphInvInit == Init => GraphInv
BY TypeInit DEF Init, GraphInv, OneHolder, WalkStillTrue, HoldsGraph, Idle

LEMMA LockStep ==
    TypeOK /\ LinkKnown /\ OneHolder /\ WalkStillTrue /\ [Next]_vars
        => OneHolder' /\ WalkStillTrue'
<1> SUFFICES ASSUME TypeOK, LinkKnown, OneHolder, WalkStillTrue, [Next]_vars
             PROVE  OneHolder' /\ WalkStillTrue'
  OBVIOUS
<1>1. ASSUME NEW r \in Requests, Walk(r) PROVE OneHolder' /\ WalkStillTrue'
  <2>1. /\ links' = links
        /\ call[r].at = "locked"
        /\ \A s \in Requests \ {r} : call'[s] = call[s]
        /\ \/ call'[r] = Idle
           \/ Valid(call[r].link) /\ call'[r] = [call[r] EXCEPT !.at = "writing"]
    BY <1>1 DEF Walk, TypeOK
  <2>2. call'[r].at = "writing" => Valid(call[r].link) /\ call'[r].link = call[r].link
    BY <2>1 DEF Idle, TypeOK, Call
  <2>3. OneHolder'
    BY <2>1 DEF OneHolder, HoldsGraph, Idle, TypeOK, Call
  <2>4. WalkStillTrue'
    BY <2>1, <2>2 DEF WalkStillTrue, Valid
  <2> QED
    BY <2>3, <2>4
<1>2. ASSUME NEW r \in Requests, Insert(r) PROVE OneHolder' /\ WalkStillTrue'
  <2>1. /\ links' = links \cup {call[r].link}
        /\ call[r].at = "writing"
        /\ call'[r] = Idle
        /\ \A s \in Requests \ {r} : call'[s] = call[s]
    BY <1>2 DEF Insert, TypeOK
  <2>2. OneHolder'
    BY <2>1 DEF OneHolder, HoldsGraph, Idle
  <2>3. ASSUME NEW s \in Requests, call'[s].at = "writing",
               call'[s].link.rel = "depends_on"
        PROVE  Edges(links') = Edges(links)
    <3>1. s # r /\ call'[s] = call[s]
      BY <2>1, <2>3 DEF Idle
    <3>2. call[r].link.rel # "depends_on"
      BY <2>1, <2>3, <3>1 DEF OneHolder, HoldsGraph
    <3> QED
      BY <2>1, <3>2, EdgesGrow
  <2>4. ASSUME NEW s \in Requests, call'[s].at = "writing",
               call'[s].link.rel = "depends_on"
        PROVE  ~Graph!Reaches(Edges(links'), call'[s].link.dst, call'[s].link.src)
    <3>1. call'[s] = call[s]
      BY <2>1, <2>4 DEF Idle
    <3>2. ~Graph!Reaches(Edges(links), call[s].link.dst, call[s].link.src)
      BY <2>4, <3>1 DEF WalkStillTrue
    <3> QED
      BY <2>3, <2>4, <3>1, <3>2
  <2>5. WalkStillTrue'
    BY <2>4 DEF WalkStillTrue
  <2> QED
    BY <2>2, <2>5
<1>3. ASSUME NEW r \in Requests, DeleteTask(r) PROVE OneHolder' /\ WalkStillTrue'
  BY <1>3, RemovalKeepsGraphInv DEF DeleteTask, TypeOK, Idle
<1>4. ASSUME NEW r \in Requests, Abort(r) PROVE OneHolder' /\ WalkStillTrue'
  BY <1>4, RemovalKeepsGraphInv DEF Abort, TypeOK, Idle
<1>5. ASSUME NEW r \in Requests, NEW l \in Wanted, LockGraph(r, l)
      PROVE  OneHolder' /\ WalkStillTrue'
  <2>1. /\ links' = links
        /\ call'[r].at = "locked"
        /\ \A s \in Requests \ {r} : call'[s] = call[s] /\ ~HoldsGraph(s)
    BY <1>5 DEF LockGraph, TypeOK, Idle
  <2> QED
    BY <2>1 DEF OneHolder, WalkStillTrue, HoldsGraph
<1>6. ASSUME NEW r \in Requests, NEW l \in Wanted, Validate(r, l)
      PROVE  OneHolder' /\ WalkStillTrue'
  <2>1. Canonical(l).rel # "depends_on"
    BY <1>6, CanonicalIsLink DEF Validate, Valid
  <2>2. /\ links' = links
        /\ call'[r].at = "writing"
        /\ call'[r].link.rel # "depends_on"
        /\ \A s \in Requests \ {r} : call'[s] = call[s]
    BY <1>6, <2>1 DEF Validate, TypeOK, Idle
  <2> QED
    BY <2>2 DEF OneHolder, WalkStillTrue, HoldsGraph
<1>7. ASSUME NEW r \in Requests, NEW k \in Tasks, Purge(r, k)
      PROVE  OneHolder' /\ WalkStillTrue'
  BY <1>7, RemovalKeepsGraphInv DEF Purge, TypeOK, Idle
<1>8. ASSUME NEW l \in links, DeleteLink(l) PROVE OneHolder' /\ WalkStillTrue'
  BY <1>8, RemovalKeepsGraphInv DEF DeleteLink
<1>9. CASE UNCHANGED vars
  BY <1>9 DEF vars, OneHolder, WalkStillTrue, HoldsGraph
<1> QED
  BY <1>1, <1>2, <1>3, <1>4, <1>5, <1>6, <1>7, <1>8, <1>9 DEF Next

LEMMA GraphInvStep == GraphInv /\ [Next]_vars => GraphInv'
BY TypeStep, LockStep DEF GraphInv

LEMMA GraphInvHolds == Spec => []GraphInv
BY GraphInvInit, GraphInvStep, PTL DEF Spec

-----------------------------------------------------------------------------
\* Refinement and acyclicity

\* What a step of the service does to the dependencies: nothing, an addition
\* that closes no cycle, or removals.
LEMMA StepOfGraph ==
    ASSUME GraphInv, [Next]_vars
    PROVE  \/ Edges(links') \in SUBSET Edges(links)
           \/ \E s, t \in Tasks :
                 /\ ~Graph!Reaches(Edges(links), t, s)
                 /\ Edges(links') = Edges(links) \cup {<<s, t>>}
<1>1. ASSUME NEW r \in Requests, Insert(r), call[r].link.rel = "depends_on"
      PROVE  \E s, t \in Tasks :
                 /\ ~Graph!Reaches(Edges(links), t, s)
                 /\ Edges(links') = Edges(links) \cup {<<s, t>>}
  <2>1. call[r].link.src \in Tasks /\ call[r].link.dst \in Tasks
    BY <1>1 DEF Insert, GraphInv, LinkKnown, Links, Wanted
  <2>2. ~Graph!Reaches(Edges(links), call[r].link.dst, call[r].link.src)
    BY <1>1 DEF Insert, GraphInv, WalkStillTrue
  <2>3. Edges(links') = Edges(links) \cup {<<call[r].link.src, call[r].link.dst>>}
    BY <1>1, EdgesGrow DEF Insert
  <2> QED
    BY <2>1, <2>2, <2>3
<1>2. ASSUME NEW r \in Requests, Insert(r), call[r].link.rel # "depends_on"
      PROVE  Edges(links') \in SUBSET Edges(links)
  BY <1>2, EdgesGrow DEF Insert
<1>3. ASSUME links' \subseteq links PROVE Edges(links') \in SUBSET Edges(links)
  BY <1>3, EdgesShrink
<1>4. \/ links' \subseteq links
      \/ \E r \in Requests : Insert(r)
  BY DEF Next, vars, Walk, DeleteTask, Abort, LockGraph, Validate, Purge, DeleteLink
<1> QED
  BY <1>1, <1>2, <1>3, <1>4

LEMMA AcyclicInit == Init => Acyclic
BY DEF Init, Acyclic, Edges, Graph!AcyclicEdges

LEMMA AcyclicStep == GraphInv /\ Acyclic /\ [Next]_vars => Acyclic'
<1> SUFFICES ASSUME GraphInv, Acyclic, [Next]_vars PROVE Acyclic'
  OBVIOUS
<1>1. Edges(links) \in SUBSET (Tasks \X Tasks)
  BY EdgesInTasks DEF GraphInv, TypeOK
<1> QED
  BY <1>1, StepOfGraph, RemovalKeepsAcyclic, AdditionKeepsAcyclic DEF Acyclic

\* No interleaving of creations and deletions ever leaves a cycle of
\* dependencies, on either database.
THEOREM AlwaysAcyclic == Spec => []Acyclic
BY AcyclicInit, AcyclicStep, GraphInvInit, GraphInvStep, PTL DEF Spec

LEMMA GraphInit == Init => Graph!Init
BY DEF Init, Graph!Init, Edges

LEMMA GraphStep == GraphInv /\ [Next]_vars => [Graph!Next]_(Edges(links))
<1> SUFFICES ASSUME GraphInv, [Next]_vars
             PROVE  Graph!Next \/ Edges(links') = Edges(links)
  BY DEF Edges
<1>1. ASSUME Edges(links') \in SUBSET Edges(links) PROVE Graph!Next
  <2>1. Graph!Remove(Edges(links) \ Edges(links'))
    BY <1>1 DEF Graph!Remove, Edges
  <2> QED
    BY <2>1 DEF Graph!Next
<1>2. ASSUME NEW s \in Tasks, NEW t \in Tasks, ~Graph!Reaches(Edges(links), t, s),
             Edges(links') = Edges(links) \cup {<<s, t>>}
      PROVE  Graph!Next
  <2>1. Graph!Add(s, t)
    BY <1>2 DEF Graph!Add, Edges
  <2> QED
    BY <2>1 DEF Graph!Next
<1> QED
  BY <1>1, <1>2, StepOfGraph

\* The walk under the lock and the INSERT after it are one step of the graph of
\* DependencyGraph.
THEOREM RefinesGraph == Spec => ImplementsGraph
BY GraphInit, GraphStep, GraphInvHolds, PTL DEF Spec, ImplementsGraph, Graph!Spec

-----------------------------------------------------------------------------
\* Both databases

\* SQLite only forbids steps that PostgreSQL allows.
LEMMA SqliteIsStricter == Sqlite!Next => Next
<1> USE EngineAssumption DEF Sqlite!WriterFree, WriterFree, Sqlite!HoldsGraph, HoldsGraph,
                             Sqlite!Idle, Idle
<1>1. ASSUME NEW r \in Requests, Sqlite!Insert(r) PROVE Insert(r)
  BY <1>1 DEF Sqlite!Insert, Insert
<1>2. ASSUME NEW r \in Requests, NEW l \in Wanted, Sqlite!LockGraph(r, l)
      PROVE  LockGraph(r, l)
  BY <1>2 DEF Sqlite!LockGraph, LockGraph
<1>3. ASSUME NEW r \in Requests, NEW k \in Tasks, Sqlite!Purge(r, k) PROVE Purge(r, k)
  BY <1>3 DEF Sqlite!Purge, Purge, Sqlite!Touching, Touching
<1>4. ASSUME NEW l \in links, Sqlite!DeleteLink(l) PROVE DeleteLink(l)
  BY <1>4 DEF Sqlite!DeleteLink, DeleteLink
<1>5. ASSUME NEW r \in Requests, Sqlite!Walk(r) PROVE Walk(r)
  BY <1>5 DEF Sqlite!Walk, Walk, Sqlite!Valid, Valid, Sqlite!Edges, Edges,
              Sqlite!Graph!Reaches, Graph!Reaches, Sqlite!Graph!Closed, Graph!Closed
<1>6. ASSUME NEW r \in Requests, NEW l \in Wanted, Sqlite!Validate(r, l)
      PROVE  Validate(r, l)
  BY <1>6 DEF Sqlite!Validate, Validate, Sqlite!Valid, Valid, Sqlite!Edges, Edges,
              Sqlite!Canonical, Canonical
<1>7. ASSUME NEW r \in Requests, Sqlite!DeleteTask(r) PROVE DeleteTask(r)
  BY <1>7 DEF Sqlite!DeleteTask, DeleteTask
<1>8. ASSUME NEW r \in Requests, Sqlite!Abort(r) PROVE Abort(r)
  BY <1>8 DEF Sqlite!Abort, Abort
<1>9. Sqlite!Wanted = Wanted
  BY DEF Sqlite!Wanted, Wanted
<1> QED
  BY <1>1, <1>2, <1>3, <1>4, <1>5, <1>6, <1>7, <1>8, <1>9 DEF Sqlite!Next, Next

plansVars == <<part, calm, vars, engine, planVars, orderVars, todoVars, copyVars>>

\* What PlansNext leaves to each part.
LEMMA PartSteps ==
    PlansNext =>
       /\ part' = part /\ calm' = calm
       /\ part = "dependencies" => MCNext
       /\ part # "dependencies" => UNCHANGED <<vars, engine>>
       /\ part = "planning" => P!MCNext
       /\ part # "planning" => UNCHANGED planVars
       /\ part = "ordering" => O!Next /\ OneOf(ocall', O!Idle)
       /\ part # "ordering" => UNCHANGED orderVars
       /\ part = "todos" => T!Next /\ OneOf(tcall', T!Idle)
       /\ part # "todos" => UNCHANGED todoVars
       /\ part = "copies" => CopiesNext
       /\ part # "copies" => UNCHANGED copyVars
BY DEF PlansNext

LEMMA DependencySteps == [PlansNext]_plansVars => [Next]_vars /\ engine' = engine
BY PartSteps, SqliteIsStricter DEF plansVars, MCNext

LEMMA GraphInvOfPlans == PlansSpec => [](GraphInv /\ Acyclic)
<1>1. PlansInit => GraphInv /\ Acyclic
  BY GraphInvInit, AcyclicInit DEF PlansInit, MCInit
<1>2. GraphInv /\ Acyclic /\ [PlansNext]_plansVars => GraphInv' /\ Acyclic'
  BY DependencySteps, GraphInvStep, AcyclicStep
<1> QED
  BY <1>1, <1>2, PTL DEF PlansSpec, plansVars

\* On SQLite the walk, the INSERT and the deletion of a task keep each other out.
Resolved ==
    engine = "sqlite" =>
       /\ DependenciesExist
       /\ \A r \in Requests :
             call[r].at = "writing" /\ call[r].link.rel = "depends_on" =>
                {call[r].link.src, call[r].link.dst} \subseteq tasks
       /\ \A r, s \in Requests : HoldsGraph(r) => call[s].at # "purging"
       /\ \A r \in Requests :
             call[r].at = "purging" => Touching(call[r].task) \subseteq call[r].gone

LEMMA ResolvedInit == MCInit => Resolved
BY DEF MCInit, Init, Resolved, DependenciesExist, HoldsGraph, Idle

LEMMA ResolvedStep ==
    ASSUME engine = "sqlite", TypeOK, LinkKnown, OneHolder, Resolved, engine' = engine,
           Sqlite!Next \/ UNCHANGED vars
    PROVE  Resolved'
<1> DEFINE Bound(r) == call[r].at = "writing" /\ call[r].link.rel = "depends_on" =>
                          {call[r].link.src, call[r].link.dst} \subseteq tasks
           Whole(r) == call[r].at = "purging" => Touching(call[r].task) \subseteq call[r].gone
<1>0. /\ call \in [Requests -> Call] /\ tasks \subseteq Tasks /\ links \subseteq Links
      /\ Sqlite!Idle = Idle /\ Idle.at = "idle"
  BY DEF TypeOK, Sqlite!Idle, Idle
<1> USE DEF Resolved, DependenciesExist
\* A request that becomes c, while tasks and links stay.
<1>1. ASSUME NEW r \in Requests, NEW c, call' = [call EXCEPT ![r] = c], tasks' = tasks,
             links' = links,
             c.at = "writing" /\ c.link.rel = "depends_on" =>
                HoldsGraph(r) /\ {c.link.src, c.link.dst} \subseteq tasks,
             c.at = "locked" => \A s \in Requests \ {r} : call[s].at # "purging",
             c.at = "purging" => /\ Touching(c.task) \subseteq c.gone
                                 /\ \A s \in Requests \ {r} : ~HoldsGraph(s)
      PROVE  Resolved'
  <2>1. call'[r] = c /\ \A s \in Requests \ {r} : call'[s] = call[s]
    BY <1>0, <1>1
  <2> QED
    BY <1>1, <2>1 DEF HoldsGraph, Touching
<1>2. ASSUME NEW r \in Requests, Sqlite!Walk(r) PROVE Resolved'
  <2> DEFINE c == [call[r] EXCEPT !.at = "writing"]
  <2>1. /\ call[r].at = "locked" /\ tasks' = tasks /\ links' = links /\ HoldsGraph(r)
        /\ call' = [call EXCEPT ![r] = Idle] \/ call' = [call EXCEPT ![r] = c]
        /\ call' = [call EXCEPT ![r] = c] =>
              call' = [call EXCEPT ![r] = Idle]
              \/ {call[r].link.src, call[r].link.dst} \subseteq tasks
    BY <1>0, <1>2 DEF Sqlite!Walk, Sqlite!Valid, HoldsGraph
  <2>2. c.at = "writing" /\ c.link = call[r].link
    BY <1>0 DEF Call
  <2> HIDE DEF c
  <2>3. CASE call' = [call EXCEPT ![r] = Idle]
    BY <1>0, <1>1, <2>1, <2>3
  <2>4. CASE call' # [call EXCEPT ![r] = Idle]
    BY <1>1, <2>1, <2>2, <2>4
  <2> QED
    BY <2>3, <2>4
<1>3. ASSUME NEW r \in Requests, Sqlite!Insert(r) PROVE Resolved'
  <2>1. /\ call[r].at = "writing" /\ links' = links \cup {call[r].link} /\ tasks' = tasks
        /\ call' = [call EXCEPT ![r] = Idle]
        /\ \A s \in Requests \ {r} : call[s].at # "purging"
    BY <1>0, <1>3 DEF Sqlite!Insert, Sqlite!WriterFree
  <2>2. call'[r] = Idle /\ \A s \in Requests \ {r} : call'[s] = call[s]
    BY <1>0, <2>1
  <2> QED
    BY <1>0, <2>1, <2>2 DEF HoldsGraph
<1>4. ASSUME NEW r \in Requests, Sqlite!DeleteTask(r) PROVE Resolved'
  <2>1. /\ call[r].at = "purging" /\ tasks' = tasks \ {call[r].task}
        /\ links' = links \ call[r].gone /\ call' = [call EXCEPT ![r] = Idle]
    BY <1>0, <1>4 DEF Sqlite!DeleteTask
  <2>2. call'[r] = Idle /\ \A s \in Requests \ {r} : call'[s] = call[s]
    BY <1>0, <2>1
  <2>3. \A s \in Requests : ~HoldsGraph(s)
    BY <2>1
  <2> QED
    BY <1>0, <2>1, <2>2, <2>3 DEF HoldsGraph, Touching
<1>5. ASSUME NEW r \in Requests, Sqlite!Abort(r) PROVE Resolved'
  BY <1>0, <1>1, <1>5 DEF Sqlite!Abort
<1>6. ASSUME NEW r \in Requests, NEW l, Sqlite!LockGraph(r, l) PROVE Resolved'
  BY <1>0, <1>1, <1>6 DEF Sqlite!LockGraph, Sqlite!WriterFree, Idle
<1>7. ASSUME NEW r \in Requests, NEW l \in Sqlite!Wanted, Sqlite!Validate(r, l) PROVE Resolved'
  <2>1. Sqlite!Canonical(l).rel = l.rel /\ l.rel # "depends_on"
    BY <1>7 DEF Sqlite!Validate, Sqlite!Canonical, Sqlite!Wanted
  <2> QED
    BY <1>0, <1>1, <1>7, <2>1 DEF Sqlite!Validate, Idle
<1>8. ASSUME NEW r \in Requests, NEW k, Sqlite!Purge(r, k) PROVE Resolved'
  BY <1>0, <1>1, <1>8 DEF Sqlite!Purge, Sqlite!WriterFree, Sqlite!HoldsGraph, HoldsGraph,
                          Sqlite!Touching, Touching, Idle
<1>9. ASSUME NEW l, Sqlite!DeleteLink(l) PROVE Resolved'
  BY <1>9 DEF Sqlite!DeleteLink, HoldsGraph, Touching
<1>10. CASE UNCHANGED vars
  BY <1>10 DEF vars, HoldsGraph, Touching
<1> QED
  BY <1>2, <1>3, <1>4, <1>5, <1>6, <1>7, <1>8, <1>9, <1>10 DEF Sqlite!Next

\* On SQLite no dependency names a task that is gone, whatever creations and
\* deletions overlap.
THEOREM DependenciesAreResolved == PlansSpec => []DependenciesResolve
<1>1. PlansInit => Resolved
  BY ResolvedInit DEF PlansInit
<1>2. GraphInv /\ Resolved /\ [PlansNext]_plansVars => Resolved'
  <2> SUFFICES ASSUME GraphInv, Resolved, [PlansNext]_plansVars PROVE Resolved'
    OBVIOUS
  <2>1. engine' = engine
    BY DependencySteps
  <2>2. engine = "sqlite" => Sqlite!Next \/ UNCHANGED vars
    BY PartSteps DEF MCNext, plansVars
  <2> QED
    BY <2>1, <2>2, ResolvedStep DEF GraphInv, Resolved
<1>3. Resolved => DependenciesResolve
  BY DEF Resolved, DependenciesResolve
<1> QED
  BY <1>1, <1>2, <1>3, GraphInvOfPlans, PTL DEF PlansSpec, plansVars

-----------------------------------------------------------------------------
\* Planning

\* What a request works on is of the kind it works on.
PlanIds ==
    \A r \in Requests :
       LET c == pcall[r] IN
       /\ c.at \in {"creating", "updating"} => c.id \in P!Items /\ c.new.state = "live"
       /\ c.at \in {"adding", "dropping"} => c.id \in P!Customs

PlanTyped == P!TypeOK /\ PlanIds

LEMMA PlanIdle ==
    /\ P!Idle \in P!Call /\ P!Idle.at = "idle" /\ P!Blank \in P!Row /\ NoId \in P!Refs(Rows)
    /\ NoId \in P!Refs(Phases) /\ NoId \in P!Refs(Stages)
BY DEF P!Idle, P!Call, P!Blank, P!Row, P!Refs, P!Statuses

LEMMA PlanTypedInit == P!Init => PlanTyped
BY PlanIdle DEF P!Init, PlanTyped, P!TypeOK, PlanIds

\* A request that becomes c.
LEMMA PlanCall ==
    ASSUME PlanTyped, NEW r \in Requests, NEW c \in P!Call, pcall' = [pcall EXCEPT ![r] = c],
           c.at \in {"creating", "updating"} => c.id \in P!Items /\ c.new.state = "live",
           c.at \in {"adding", "dropping"} => c.id \in P!Customs
    PROVE  pcall' \in [Requests -> P!Call] /\ PlanIds'
<1>1. /\ pcall' \in [Requests -> P!Call] /\ pcall'[r] = c
      /\ \A s \in Requests \ {r} : pcall'[s] = pcall[s]
  BY DEF PlanTyped, P!TypeOK
<1> QED
  BY <1>1 DEF PlanTyped, PlanIds

\* The update of a row that was read in another state writes only what it changes.
LEMMA PlanWritten ==
    ASSUME NEW w \in P!Row, NEW c \in P!Call
    PROVE  /\ P!Written(w, c) \in P!Row
           /\ w = c.old => P!Written(w, c) = c.new
           /\ c.new.state = "live" /\ w.state = "live" => P!Written(w, c).state = "live"
<1>1. c.new \in P!Row /\ c.old \in P!Row
  BY DEF P!Call
<1>2. P!Written(w, c) =
         [state |-> IF c.new.state # c.old.state THEN c.new.state ELSE w.state,
          parent |-> IF c.new.parent # c.old.parent THEN c.new.parent ELSE w.parent,
          phase |-> IF c.new.phase # c.old.phase THEN c.new.phase ELSE w.phase,
          stage |-> IF c.new.stage # c.old.stage THEN c.new.stage ELSE w.stage,
          status |-> IF c.new.status # c.old.status THEN c.new.status ELSE w.status]
  BY <1>1 DEF P!Written, P!Row
<1>3. /\ w.state \in {"none", "live", "gone"} /\ c.new.state \in {"none", "live", "gone"}
      /\ w.parent \in P!Refs(Rows) /\ c.new.parent \in P!Refs(Rows)
      /\ w.phase \in P!Refs(Phases) /\ c.new.phase \in P!Refs(Phases)
      /\ w.stage \in P!Refs(Stages) /\ c.new.stage \in P!Refs(Stages)
      /\ w.status \in P!Statuses /\ c.new.status \in P!Statuses
  BY <1>1 DEF P!Row
<1>4. P!Written(w, c) \in P!Row
  BY <1>2, <1>3 DEF P!Row
<1>5. ASSUME w = c.old PROVE P!Written(w, c) = c.new
  BY <1>1, <1>2, <1>5 DEF P!Row
<1> QED
  BY <1>2, <1>4, <1>5

LEMMA PlanTypedStep ==
    ASSUME PlanTyped, NEW X \in SUBSET {x \in P!Row : x.state = "live"},
           P!Asking(X) \/ UNCHANGED P!vars
    PROVE  PlanTyped'
<1>0. /\ item \in [P!Items -> P!Row] /\ phases \subseteq Phases /\ options \subseteq P!Customs
      /\ stageOf \in [Stages -> P!Refs(Phases)] /\ pcall \in [Requests -> P!Call]
  BY DEF PlanTyped, P!TypeOK
<1>1. ASSUME NEW r \in Requests, NEW c \in P!Call, pcall' = [pcall EXCEPT ![r] = c],
             UNCHANGED <<item, phases, stageOf, options>>,
             c.at \in {"creating", "updating"} => c.id \in P!Items /\ c.new.state = "live",
             c.at \in {"adding", "dropping"} => c.id \in P!Customs
      PROVE  PlanTyped'
  BY <1>0, <1>1, PlanCall DEF PlanTyped, P!TypeOK
<1>2. ASSUME NEW r \in Requests, P!End(r), item' \in [P!Items -> P!Row], phases' \subseteq Phases,
             stageOf' \in [Stages -> P!Refs(Phases)], options' \subseteq P!Customs
      PROVE  PlanTyped'
  BY <1>0, <1>2, PlanCall, PlanIdle DEF PlanTyped, P!TypeOK, P!End
<1>3. ASSUME NEW r \in Requests, NEW i \in P!Items, NEW x \in X, P!CreateTask(r, i, x)
      PROVE  PlanTyped'
  <2> DEFINE c == [P!Idle EXCEPT !.at = "creating", !.id = i, !.new = x]
  <2>1. c \in P!Call /\ c.at = "creating" /\ c.id = i /\ c.new = x
    BY PlanIdle DEF P!Call, P!Idle
  <2>2. pcall' = [pcall EXCEPT ![r] = c] /\ UNCHANGED <<item, phases, stageOf, options>>
    BY <1>3 DEF P!CreateTask
  <2> HIDE DEF c
  <2> QED
    BY <1>1, <2>1, <2>2
<1>4. ASSUME NEW r \in Requests, NEW i \in P!Items, NEW x \in X, P!UpdateTask(r, i, x)
      PROVE  PlanTyped'
  <2> DEFINE c == [P!Idle EXCEPT !.at = "updating", !.id = i, !.old = item[i], !.new = x]
  <2>1. c \in P!Call /\ c.at = "updating" /\ c.id = i /\ c.new = x
    BY <1>0, PlanIdle DEF P!Call, P!Idle
  <2>2. pcall' = [pcall EXCEPT ![r] = c] /\ UNCHANGED <<item, phases, stageOf, options>>
    BY <1>4 DEF P!UpdateTask
  <2> HIDE DEF c
  <2> QED
    BY <1>1, <2>1, <2>2
<1>5. ASSUME NEW r \in Requests, NEW i \in P!Items, P!DeleteRead(r, i) PROVE PlanTyped'
  <2> DEFINE c == [P!Idle EXCEPT !.at = "deleting", !.id = i, !.kids = P!Children(i)]
  <2>1. c \in P!Call /\ c.at = "deleting"
    BY PlanIdle DEF P!Call, P!Idle, P!Children, P!Live
  <2>2. pcall' = [pcall EXCEPT ![r] = c] /\ UNCHANGED <<item, phases, stageOf, options>>
    BY <1>5 DEF P!DeleteRead
  <2> HIDE DEF c
  <2> QED
    BY <1>1, <2>1, <2>2
<1>6. ASSUME NEW r \in Requests, NEW p \in Phases, P!ClearRead(r, p) PROVE PlanTyped'
  <2> DEFINE kids == {i \in P!Live : item[i].phase = p}
             c == [P!Idle EXCEPT !.at = "clearing", !.id = p, !.kids = kids,
                                 !.staged = {i \in kids : item[i].stage # NoId},
                                 !.gone = {s \in Stages : stageOf[s] = p}]
  <2>1. c \in P!Call /\ c.at = "clearing"
    BY PlanIdle DEF P!Call, P!Idle, P!Live
  <2>2. pcall' = [pcall EXCEPT ![r] = c] /\ UNCHANGED <<item, phases, stageOf, options>>
    BY <1>6 DEF P!ClearRead
  <2> HIDE DEF c
  <2> QED
    BY <1>1, <2>1, <2>2
<1>7. ASSUME NEW r \in Requests, NEW s \in Stages, NEW p \in Phases, P!StageRead(r, s, p)
      PROVE  PlanTyped'
  <2> DEFINE c == [P!Idle EXCEPT !.at = "staging", !.id = s, !.new = [P!Blank EXCEPT !.phase = p]]
  <2>1. [P!Blank EXCEPT !.phase = p] \in P!Row
    BY PlanIdle DEF P!Row, P!Blank, P!Refs
  <2>2. c \in P!Call /\ c.at = "staging"
    BY <2>1, PlanIdle DEF P!Call, P!Idle
  <2>3. pcall' = [pcall EXCEPT ![r] = c] /\ UNCHANGED <<item, phases, stageOf, options>>
    BY <1>7 DEF P!StageRead
  <2> HIDE DEF c
  <2> QED
    BY <1>1, <2>2, <2>3
<1>8. ASSUME NEW r \in Requests, NEW o \in P!Customs, P!OptionRead(r, o) \/ P!DropRead(r, o)
      PROVE  PlanTyped'
  <2>1. PICK a \in {"adding", "dropping"} : P!Begin(r, a, o)
    BY <1>8 DEF P!OptionRead, P!DropRead
  <2> DEFINE c == [P!Idle EXCEPT !.at = a, !.id = o]
  <2>2. c \in P!Call /\ c.at = a /\ c.id = o
    BY PlanIdle DEF P!Call, P!Idle
  <2>3. pcall' = [pcall EXCEPT ![r] = c] /\ UNCHANGED <<item, phases, stageOf, options>>
    BY <1>8, <2>1 DEF P!OptionRead, P!DropRead, P!Begin
  <2> HIDE DEF c
  <2> QED
    BY <1>1, <2>2, <2>3
<1>9. ASSUME NEW r \in Requests, P!CreateWrite(r) PROVE PlanTyped'
  <2>1. pcall[r].new \in P!Row
    BY <1>0 DEF P!Call
  <2> QED
    BY <1>0, <1>2, <1>9, <2>1 DEF P!CreateWrite
<1>10. ASSUME NEW r \in Requests, P!UpdateWrite(r) PROVE PlanTyped'
  <2>1. pcall[r].id \in P!Live => P!Written(item[pcall[r].id], pcall[r]) \in P!Row
    BY <1>0, PlanWritten DEF P!Live
  <2> QED
    BY <1>0, <1>2, <1>10, <2>1 DEF P!UpdateWrite
<1>11. ASSUME NEW r \in Requests, P!DeleteWrite(r) PROVE PlanTyped'
  <2>1. \A i \in P!Items : /\ [item[i] EXCEPT !.state = "gone"] \in P!Row
                           /\ [item[i] EXCEPT !.parent = NoId] \in P!Row
    BY <1>0, PlanIdle DEF P!Row
  <2>2. item' \in [P!Items -> P!Row]
    BY <1>0, <1>11, <2>1 DEF P!DeleteWrite
  <2> QED
    BY <1>0, <1>2, <1>11, <2>2 DEF P!DeleteWrite
<1>12. ASSUME NEW r \in Requests, P!ClearWrite(r) PROVE PlanTyped'
  <2>1. P!Cleared(pcall[r]) \in [P!Items -> P!Row]
    <3>1. ASSUME NEW i \in P!Items
          PROVE  [item[i] EXCEPT !.phase = IF i \in pcall[r].kids THEN NoId ELSE @,
                                 !.stage = IF i \in pcall[r].staged THEN NoId ELSE @] \in P!Row
      BY <1>0, PlanIdle DEF P!Row
    <3> QED
      BY <3>1 DEF P!Cleared
  <2>2. [s \in Stages |-> IF s \in pcall[r].gone THEN NoId ELSE stageOf[s]]
            \in [Stages -> P!Refs(Phases)]
    BY <1>0, PlanIdle
  <2> QED
    BY <1>0, <1>2, <1>12, <2>1, <2>2 DEF P!ClearWrite
<1>13. ASSUME NEW r \in Requests, P!StageWrite(r) PROVE PlanTyped'
  BY <1>0, <1>2, <1>13 DEF P!StageWrite, P!Refs
<1>14. ASSUME NEW r \in Requests, P!OptionWrite(r) \/ P!DropWrite(r) PROVE PlanTyped'
  BY <1>0, <1>2, <1>14 DEF P!OptionWrite, P!DropWrite, PlanTyped, PlanIds
<1>15. ASSUME NEW r \in Requests, P!Abort(r) PROVE PlanTyped'
  BY <1>0, <1>2, <1>15 DEF P!Abort
<1>16. ASSUME NEW p \in Phases, P!CreatePhase(p) PROVE PlanTyped'
  BY <1>0, <1>16 DEF P!CreatePhase, PlanTyped, P!TypeOK, PlanIds
<1>17. CASE UNCHANGED P!vars
  BY <1>0, <1>17 DEF P!vars, PlanTyped, P!TypeOK, PlanIds
<1> QED
  BY <1>3, <1>4, <1>5, <1>6, <1>7, <1>8, <1>9, <1>10, <1>11, <1>12, <1>13, <1>14, <1>15,
     <1>16, <1>17 DEF P!Asking, P!Items, P!CreateMilestone, P!UpdateMilestone

\* One request at a time: what the request has read is still so.
PlanAlone == \A r, s \in Requests : pcall[r] # P!Idle /\ pcall[s] # P!Idle => r = s

PlanFound(r) ==
    LET c == pcall[r] IN
    /\ c.at = "creating" => P!StatusOk(c.id, c.new) /\ P!ParentOk(c.id, c.new)
    /\ c.at = "updating" =>
          /\ c.id \in P!Live /\ c.old = item[c.id]
          /\ c.new.status # c.old.status => P!StatusOk(c.id, c.new)
          /\ c.new.parent # c.old.parent => P!ParentOk(c.id, c.new)
    /\ c.at = "deleting" => c.kids = P!Children(c.id)
    /\ c.at = "clearing" =>
          /\ c.id \in Phases
          /\ c.kids = {i \in P!Live : item[i].phase = c.id}
          /\ c.staged = {i \in c.kids : item[i].stage # NoId}
          /\ c.gone = {s \in Stages : stageOf[s] = c.id}
    /\ c.at = "dropping" => P!UsersOf(c.id) = {}

PlanSerial ==
    /\ PlanTyped /\ PlanAlone /\ P!StatusesDefined /\ P!TasksForest
    /\ \A r \in Requests : PlanFound(r)

LEMMA PlanSerialInit == P!Init => PlanSerial
<1> SUFFICES ASSUME P!Init PROVE PlanSerial
  OBVIOUS
<1>1. P!Live = {} /\ \A r \in Requests : pcall[r] = P!Idle
  BY DEF P!Init, P!Live, P!Blank
<1>2. PlanTyped /\ PlanAlone /\ P!StatusesDefined
  BY <1>1, PlanTypedInit DEF PlanAlone, P!StatusesDefined
<1>3. P!TasksForest
  BY <1>1 DEF P!TasksForest
<1>4. \A r \in Requests : PlanFound(r)
  BY <1>1, PlanIdle DEF PlanFound
<1> QED
  BY <1>2, <1>3, <1>4 DEF PlanSerial

\* What was read at first is what the foreign keys ask at the write.
LEMMA PlanDeletes == PlanSerial => P!DeletionsSucceed
<1> SUFFICES ASSUME PlanSerial, NEW r \in Requests
             PROVE  /\ pcall[r].at = "deleting" => P!Deletable(pcall[r])
                    /\ pcall[r].at = "clearing" =>
                           P!Clearable(pcall[r]) \/ P!Strays(pcall[r].id) # {}
  BY DEF P!DeletionsSucceed
<1>0. item \in [P!Items -> P!Row] /\ stageOf \in [Stages -> P!Refs(Phases)] /\ PlanFound(r)
  BY DEF PlanSerial, PlanTyped, P!TypeOK
<1>1. ASSUME pcall[r].at = "deleting" PROVE P!Deletable(pcall[r])
  BY <1>0, <1>1 DEF PlanFound, P!Deletable, P!Children
<1>2. ASSUME pcall[r].at = "clearing", P!Strays(pcall[r].id) = {} PROVE P!Clearable(pcall[r])
  <2> DEFINE c == pcall[r]
  <2>1. /\ c.id \in Phases /\ c.kids = {i \in P!Live : item[i].phase = c.id}
        /\ c.staged = {i \in c.kids : item[i].stage # NoId}
        /\ c.gone = {s \in Stages : stageOf[s] = c.id}
    BY <1>0, <1>2 DEF PlanFound
  <2> HIDE DEF c
  <2>2. ASSUME NEW i \in P!Live
        PROVE  P!Cleared(c)[i].phase # c.id /\ P!Cleared(c)[i].stage \notin c.gone
    <3>1. /\ P!Cleared(c)[i].phase = IF i \in c.kids THEN NoId ELSE item[i].phase
          /\ P!Cleared(c)[i].stage = IF i \in c.staged THEN NoId ELSE item[i].stage
      BY <1>0 DEF P!Cleared, P!Live, P!Row
    <3>2. NoId # c.id /\ NoId \notin c.gone
      BY <2>1, PlanAssumption
    <3>3. ~(item[i].stage # NoId /\ item[i].phase # c.id /\ stageOf[item[i].stage] = c.id)
      BY <1>2 DEF P!Strays, c
    <3> QED
      BY <2>1, <3>1, <3>2, <3>3
  <2> QED
    BY <2>1, <2>2 DEF P!Clearable, c
<1> QED
  BY <1>1, <1>2

\* A task goes under no task, or under one that has no parent itself.
LEMMA PlanForestKept ==
    ASSUME P!TasksForest,
           \A t \in P!Live' \cap Rows : t \in P!Live /\ item'[t].parent \in {item[t].parent, NoId}
    PROVE  P!TasksForest'
<1> SUFFICES ASSUME NEW S \in SUBSET (P!Live' \cap Rows), S # {}
             PROVE  \E t \in S : item'[t].parent \notin S
  BY DEF P!TasksForest
<1>0. \A t \in S : t \in P!Live \cap Rows
  OBVIOUS
<1>1. S \in (SUBSET (P!Live \cap Rows)) \ {{}}
  BY <1>0
<1>2. PICK t \in S : item[t].parent \notin S
  BY <1>1 DEF P!TasksForest
<1> QED
  BY <1>2, PlanAssumption

LEMMA PlanForestGrows ==
    ASSUME P!TasksForest, item \in [P!Items -> P!Row], NEW i \in P!Items, NEW x \in P!Row,
           item' = [item EXCEPT ![i] = x], P!ParentOk(i, x)
    PROVE  P!TasksForest'
<1> SUFFICES ASSUME NEW S \in SUBSET (P!Live' \cap Rows), S # {}
             PROVE  \E t \in S : item'[t].parent \notin S
  BY DEF P!TasksForest
<1>1. item'[i] = x /\ \A t \in P!Items \ {i} : item'[t] = item[t]
  OBVIOUS
<1>2. CASE i \notin S
  <2>0. \A t \in S : t \in P!Live \cap Rows
    BY <1>1, <1>2 DEF P!Live
  <2>1. S \in (SUBSET (P!Live \cap Rows)) \ {{}}
    BY <2>0
  <2>2. PICK t \in S : item[t].parent \notin S
    BY <2>1 DEF P!TasksForest
  <2> QED
    BY <1>1, <1>2, <2>1, <2>2 DEF P!Live
<1>3. CASE i \in S /\ x.parent \notin S
  BY <1>1, <1>3
<1>4. CASE i \in S /\ x.parent \in S
  <2>1. x.parent # NoId
    BY <1>4, PlanAssumption
  <2>2. x.parent \in P!Live \ {i} /\ item[x.parent].parent = NoId
    BY <2>1 DEF P!ParentOk
  <2> QED
    BY <1>1, <1>4, <2>2, PlanAssumption DEF P!Live
<1> QED
  BY <1>2, <1>3, <1>4

\* A request that reads, or that stops without a write.
LEMMA PlanQuiet ==
    ASSUME PlanSerial, PlanTyped', PlanAlone', UNCHANGED <<item, options, stageOf>>,
           \A r \in Requests : pcall'[r] = pcall[r] \/ PlanFound(r)'
    PROVE  PlanSerial'
<1>1. P!Live' = P!Live
  BY DEF P!Live
<1>2. P!StatusesDefined' /\ P!TasksForest'
  BY <1>1 DEF PlanSerial, P!StatusesDefined, P!TasksForest, P!StatusOk
<1>3. ASSUME NEW r \in Requests, pcall'[r] = pcall[r] PROVE PlanFound(r)'
  BY <1>1, <1>3 DEF PlanSerial, PlanFound, P!StatusOk, P!ParentOk, P!Children, P!UsersOf
<1> QED
  BY <1>2, <1>3 DEF PlanSerial

\* A request that is done with its write.
LEMMA PlanEnds ==
    ASSUME PlanSerial, PlanTyped', NEW r \in Requests, pcall[r] # P!Idle, P!End(r),
           P!StatusesDefined', P!TasksForest'
    PROVE  PlanSerial'
<1>1. \A s \in Requests : pcall'[s] = P!Idle
  BY DEF PlanSerial, PlanAlone, PlanTyped, P!TypeOK, P!End
<1>2. \A s \in Requests : PlanFound(s)'
  BY <1>1, PlanIdle DEF PlanFound
<1> QED
  BY <1>1, <1>2 DEF PlanSerial, PlanAlone

\* What one row becomes decides whether all have a status that is defined.
LEMMA PlanStatuses ==
    ASSUME P!StatusesDefined, options' = options,
           \A i \in P!Live' : \/ i \in P!Live /\ item'[i].status = item[i].status
                              \/ P!StatusOk(i, item'[i])
    PROVE  P!StatusesDefined'
BY DEF P!StatusesDefined, P!StatusOk

LEMMA PlanSerialStep ==
    ASSUME PlanSerial, PlanTyped', PlanAlone', NEW X \in SUBSET {x \in P!Row : x.state = "live"},
           P!Asking(X) \/ UNCHANGED P!vars
    PROVE  PlanSerial'
<1>0. /\ item \in [P!Items -> P!Row] /\ phases \subseteq Phases /\ options \subseteq P!Customs
      /\ stageOf \in [Stages -> P!Refs(Phases)] /\ pcall \in [Requests -> P!Call]
      /\ P!StatusesDefined /\ P!TasksForest /\ PlanIds /\ \A r \in Requests : PlanFound(r)
  BY DEF PlanSerial, PlanTyped, P!TypeOK
<1>1. ASSUME NEW r \in Requests, NEW c, pcall' = [pcall EXCEPT ![r] = c],
             UNCHANGED <<item, phases, stageOf, options>>, PlanFound(r)'
      PROVE  PlanSerial'
  <2>1. \A s \in Requests \ {r} : pcall'[s] = pcall[s]
    BY <1>0, <1>1
  <2> QED
    BY <1>1, <2>1, PlanQuiet
<1>2. ASSUME NEW r \in Requests, pcall[r] # P!Idle, P!End(r), P!StatusesDefined', P!TasksForest'
      PROVE  PlanSerial'
  BY <1>2, PlanEnds
<1>3. ASSUME NEW r \in Requests, NEW i \in P!Items, NEW x \in X, P!CreateTask(r, i, x)
      PROVE  PlanSerial'
  <2> DEFINE c == [P!Idle EXCEPT !.at = "creating", !.id = i, !.new = x]
  <2>1. c.at = "creating" /\ c.id = i /\ c.new = x
    BY DEF P!Idle
  <2>2. /\ pcall' = [pcall EXCEPT ![r] = c] /\ UNCHANGED <<item, phases, stageOf, options>>
        /\ P!StatusOk(i, x) /\ P!ParentOk(i, x)
    BY <1>3 DEF P!CreateTask
  <2> HIDE DEF c
  <2>3. pcall'[r] = c /\ P!Live' = P!Live
    BY <1>0, <2>2 DEF P!Live
  <2>4. PlanFound(r)'
    BY <2>1, <2>2, <2>3 DEF PlanFound, P!StatusOk, P!ParentOk
  <2> QED
    BY <1>1, <2>2, <2>4
<1>4. ASSUME NEW r \in Requests, NEW i \in P!Items, NEW x \in X, P!UpdateTask(r, i, x)
      PROVE  PlanSerial'
  <2> DEFINE c == [P!Idle EXCEPT !.at = "updating", !.id = i, !.old = item[i], !.new = x]
  <2>1. c.at = "updating" /\ c.id = i /\ c.new = x /\ c.old = item[i]
    BY DEF P!Idle
  <2>2. /\ pcall' = [pcall EXCEPT ![r] = c] /\ UNCHANGED <<item, phases, stageOf, options>>
        /\ i \in P!Live
        /\ x.status # item[i].status => P!StatusOk(i, x)
        /\ x.parent # item[i].parent => P!ParentOk(i, x)
    BY <1>4 DEF P!UpdateTask
  <2> HIDE DEF c
  <2>3. pcall'[r] = c /\ P!Live' = P!Live
    BY <1>0, <2>2 DEF P!Live
  <2>4. PlanFound(r)'
    BY <2>1, <2>2, <2>3 DEF PlanFound, P!StatusOk, P!ParentOk
  <2> QED
    BY <1>1, <2>2, <2>4
<1>5. ASSUME NEW r \in Requests, NEW i \in P!Items, P!DeleteRead(r, i) PROVE PlanSerial'
  <2> DEFINE c == [P!Idle EXCEPT !.at = "deleting", !.id = i, !.kids = P!Children(i)]
  <2>1. c.at = "deleting" /\ c.id = i /\ c.kids = P!Children(i)
    BY DEF P!Idle
  <2>2. /\ pcall' = [pcall EXCEPT ![r] = c] /\ UNCHANGED <<item, phases, stageOf, options>>
    BY <1>5 DEF P!DeleteRead
  <2> HIDE DEF c
  <2>3. pcall'[r] = c /\ P!Live' = P!Live
    BY <1>0, <2>2 DEF P!Live
  <2>4. PlanFound(r)'
    BY <2>1, <2>2, <2>3 DEF PlanFound, P!Children
  <2> QED
    BY <1>1, <2>2, <2>4
<1>6. ASSUME NEW r \in Requests, NEW p \in Phases, P!ClearRead(r, p) PROVE PlanSerial'
  <2> DEFINE kids == {i \in P!Live : item[i].phase = p}
             staged == {i \in kids : item[i].stage # NoId}
             gone == {s \in Stages : stageOf[s] = p}
             c == [P!Idle EXCEPT !.at = "clearing", !.id = p, !.kids = kids,
                                 !.staged = staged, !.gone = gone]
  <2>1. c.at = "clearing" /\ c.id = p /\ c.kids = kids /\ c.staged = staged /\ c.gone = gone
    BY DEF P!Idle
  <2>2. /\ pcall' = [pcall EXCEPT ![r] = c] /\ UNCHANGED <<item, phases, stageOf, options>>
    BY <1>6 DEF P!ClearRead
  <2> HIDE DEF c
  <2>3. pcall'[r] = c /\ P!Live' = P!Live
    BY <1>0, <2>2 DEF P!Live
  <2>4. PlanFound(r)'
    BY <2>1, <2>2, <2>3 DEF PlanFound
  <2> QED
    BY <1>1, <2>2, <2>4
<1>7. ASSUME NEW r \in Requests, NEW s \in Stages, NEW p \in Phases, P!StageRead(r, s, p)
      PROVE  PlanSerial'
  <2> DEFINE c == [P!Idle EXCEPT !.at = "staging", !.id = s, !.new = [P!Blank EXCEPT !.phase = p]]
  <2>1. c.at = "staging"
    BY DEF P!Idle
  <2>2. pcall' = [pcall EXCEPT ![r] = c] /\ UNCHANGED <<item, phases, stageOf, options>>
    BY <1>7 DEF P!StageRead
  <2> HIDE DEF c
  <2>3. pcall'[r] = c
    BY <1>0, <2>2
  <2>4. PlanFound(r)'
    BY <2>1, <2>3 DEF PlanFound
  <2> QED
    BY <1>1, <2>2, <2>4
<1>8. ASSUME NEW r \in Requests, NEW o \in P!Customs, P!OptionRead(r, o) \/ P!DropRead(r, o)
      PROVE  PlanSerial'
  <2>1. PICK a \in {"adding", "dropping"} : 
             P!Begin(r, a, o) /\ (a = "dropping" => P!UsersOf(o) = {})
    BY <1>8 DEF P!OptionRead, P!DropRead
  <2> DEFINE c == [P!Idle EXCEPT !.at = a, !.id = o]
  <2>2. c.at = a /\ c.id = o
    BY DEF P!Idle
  <2>3. pcall' = [pcall EXCEPT ![r] = c] /\ UNCHANGED <<item, phases, stageOf, options>>
    BY <1>8, <2>1 DEF P!OptionRead, P!DropRead, P!Begin
  <2> HIDE DEF c
  <2>4. pcall'[r] = c /\ P!Live' = P!Live
    BY <1>0, <2>3 DEF P!Live
  <2>5. PlanFound(r)'
    BY <2>1, <2>2, <2>3, <2>4 DEF PlanFound, P!UsersOf
  <2> QED
    BY <1>1, <2>3, <2>5
<1>9. ASSUME NEW r \in Requests, P!CreateWrite(r) PROVE PlanSerial'
  <2> DEFINE c == pcall[r]
  <2>1. /\ c.at = "creating" /\ c.new \in P!Row /\ c.id \in P!Items
        /\ P!StatusOk(c.id, c.new) /\ P!ParentOk(c.id, c.new)
    BY <1>0, <1>9 DEF P!CreateWrite, P!Call, PlanFound, PlanIds
  <2>2. P!End(r) /\ UNCHANGED <<phases, stageOf, options>> /\ c # P!Idle
    BY <1>9, <2>1, PlanIdle DEF P!CreateWrite
  <2>3. CASE item' = item
    <3>1. P!Live' = P!Live
      BY <2>3 DEF P!Live
    <3> QED
      BY <1>0, <1>2, <2>2, <2>3, <3>1, PlanStatuses, PlanForestKept
  <2>4. CASE item' = [item EXCEPT ![c.id] = c.new]
    <3> HIDE DEF c
    <3>1. \A i \in P!Items : item'[i] = IF i = c.id THEN c.new ELSE item[i]
      BY <1>0, <2>1, <2>4
    <3>2. \A i \in P!Live' : \/ i \in P!Live /\ item'[i].status = item[i].status
                             \/ P!StatusOk(i, item'[i])
      BY <2>1, <3>1 DEF P!Live
    <3>3. P!TasksForest'
      BY <1>0, <2>1, <2>4, PlanForestGrows
    <3> QED
      BY <1>0, <1>2, <2>2, <3>2, <3>3, PlanStatuses DEF c
  <2> QED
    BY <1>9, <2>3, <2>4 DEF P!CreateWrite
<1>10. ASSUME NEW r \in Requests, P!UpdateWrite(r) PROVE PlanSerial'
  <2> DEFINE c == pcall[r]
  <2>1. /\ c.at = "updating" /\ c \in P!Call /\ c.new \in P!Row
        /\ c.id \in P!Live /\ c.old = item[c.id]
        /\ c.new.status # c.old.status => P!StatusOk(c.id, c.new)
        /\ c.new.parent # c.old.parent => P!ParentOk(c.id, c.new)
    BY <1>0, <1>10 DEF P!UpdateWrite, P!Call, PlanFound
  <2>2. P!End(r) /\ UNCHANGED <<phases, stageOf, options>> /\ c # P!Idle
    BY <1>10, <2>1, PlanIdle DEF P!UpdateWrite
  <2>3. P!Written(item[c.id], c) = c.new
    BY <1>0, <2>1, PlanWritten DEF P!Live
  <2>4. item' = item \/ item' = [item EXCEPT ![c.id] = c.new]
    BY <1>10, <2>3 DEF P!UpdateWrite
  <2>5. CASE item' = item
    <3>1. P!Live' = P!Live
      BY <2>5 DEF P!Live
    <3> QED
      BY <1>0, <1>2, <2>2, <2>5, <3>1, PlanStatuses, PlanForestKept
  <2>6. CASE item' = [item EXCEPT ![c.id] = c.new]
    <3> HIDE DEF c
    <3>1. \A i \in P!Items : item'[i] = IF i = c.id THEN c.new ELSE item[i]
      BY <1>0, <2>1, <2>6
    <3>2. \A i \in P!Live' : \/ i \in P!Live /\ item'[i].status = item[i].status
                             \/ P!StatusOk(i, item'[i])
      BY <2>1, <3>1 DEF P!Live
    <3>3. CASE c.new.parent = c.old.parent
      <4>1. \A t \in P!Live' \cap Rows : t \in P!Live /\ item'[t].parent \in {item[t].parent, NoId}
        BY <2>1, <3>1, <3>3 DEF P!Live
      <4> QED
        BY <1>0, <1>2, <2>2, <3>2, <4>1, PlanStatuses, PlanForestKept DEF c
    <3>4. CASE c.new.parent # c.old.parent
      <4>1. P!TasksForest'
        BY <1>0, <2>1, <2>6, <3>4, PlanForestGrows DEF P!Live
      <4> QED
        BY <1>0, <1>2, <2>2, <3>2, <4>1, PlanStatuses DEF c
    <3> QED
      BY <3>3, <3>4
  <2> QED
    BY <2>4, <2>5, <2>6
<1>11. ASSUME NEW r \in Requests, P!DeleteWrite(r) PROVE PlanSerial'
  <2>1. P!End(r) /\ UNCHANGED <<phases, stageOf, options>> /\ pcall[r] # P!Idle
    BY <1>11, PlanIdle DEF P!DeleteWrite
  <2>2. \A i \in P!Items : /\ item'[i].status = item[i].status
                           /\ item'[i].parent \in {item[i].parent, NoId}
                           /\ item'[i].state \in {item[i].state, "gone"}
    BY <1>0, <1>11 DEF P!DeleteWrite, P!Row
  <2>3. \A i \in P!Live' : /\ i \in P!Live /\ item'[i].status = item[i].status
                           /\ item'[i].parent \in {item[i].parent, NoId}
    BY <2>2 DEF P!Live
  <2> QED
    BY <1>0, <1>2, <2>1, <2>3, PlanStatuses, PlanForestKept
<1>12. ASSUME NEW r \in Requests, P!ClearWrite(r) PROVE PlanSerial'
  <2>1. P!End(r) /\ UNCHANGED options /\ pcall[r] # P!Idle
    BY <1>12, PlanIdle DEF P!ClearWrite
  <2>2. \A i \in P!Items : /\ item'[i].status = item[i].status
                           /\ item'[i].parent = item[i].parent
                           /\ item'[i].state = item[i].state
    <3>1. \A i \in P!Items : /\ P!Cleared(pcall[r])[i].status = item[i].status
                             /\ P!Cleared(pcall[r])[i].parent = item[i].parent
                             /\ P!Cleared(pcall[r])[i].state = item[i].state
      <4> SUFFICES ASSUME NEW i \in P!Items
                   PROVE  /\ P!Cleared(pcall[r])[i].status = item[i].status
                          /\ P!Cleared(pcall[r])[i].parent = item[i].parent
                          /\ P!Cleared(pcall[r])[i].state = item[i].state
        OBVIOUS
      <4>1. item[i] \in P!Row
        BY <1>0
      <4> QED
        BY <4>1 DEF P!Cleared, P!Row
    <3>2. item' = item \/ item' = P!Cleared(pcall[r])
      BY <1>12 DEF P!ClearWrite
    <3> QED
      BY <3>1, <3>2
  <2>3. \A i \in P!Live' : /\ i \in P!Live /\ item'[i].status = item[i].status
                           /\ item'[i].parent \in {item[i].parent, NoId}
    BY <2>2 DEF P!Live
  <2> QED
    BY <1>0, <1>2, <2>1, <2>3, PlanStatuses, PlanForestKept
<1>13. ASSUME NEW r \in Requests,
              P!StageWrite(r) \/ P!OptionWrite(r) \/ P!DropWrite(r) \/ P!Abort(r)
       PROVE  PlanSerial'
  <2>1. P!End(r) /\ item' = item /\ pcall[r] # P!Idle
    BY <1>13, PlanIdle DEF P!StageWrite, P!OptionWrite, P!DropWrite, P!Abort
  <2>2. P!Live' = P!Live
    BY <2>1 DEF P!Live
  <2>3. P!TasksForest'
    BY <1>0, <2>1, <2>2, PlanForestKept
  <2>4. P!StatusesDefined'
    <3>1. CASE options \subseteq options'
      BY <1>0, <2>1, <2>2, <3>1 DEF P!StatusesDefined, P!StatusOk
    <3>2. CASE P!DropWrite(r)
      <4>1. P!UsersOf(pcall[r].id) = {} /\ options' = options \ {pcall[r].id}
        BY <1>0, <3>2 DEF P!DropWrite, PlanFound
      <4> QED
        BY <1>0, <2>1, <2>2, <4>1 DEF P!StatusesDefined, P!StatusOk, P!UsersOf
    <3> QED
      BY <1>13, <3>1, <3>2 DEF P!StageWrite, P!OptionWrite, P!Abort
  <2> QED
    BY <1>2, <2>1, <2>3, <2>4
<1>14. ASSUME NEW p \in Phases, P!CreatePhase(p) PROVE PlanSerial'
  BY <1>14, PlanQuiet DEF P!CreatePhase
<1>15. CASE UNCHANGED P!vars
  BY <1>15, PlanQuiet DEF P!vars
<1> QED
  BY <1>3, <1>4, <1>5, <1>6, <1>7, <1>8, <1>9, <1>10, <1>11, <1>12, <1>13, <1>14, <1>15
     DEF P!Asking, P!Items, P!CreateMilestone, P!UpdateMilestone

-----------------------------------------------------------------------------
\* The plan in MCPlans

LEMMA AtMostOne ==
    ASSUME NEW S, IsFiniteSet(S), Cardinality(S) <= 1
    PROVE  \A x, y \in S : x = y
<1> SUFFICES ASSUME NEW x \in S, NEW y \in S, x # y PROVE FALSE
  OBVIOUS
<1>1. IsFiniteSet({x}) /\ Cardinality({x}) = 1
  BY FS_Singleton
<1>2. Cardinality({x} \cup {y}) = 2
  BY <1>1, FS_AddElement
<1>3. Cardinality({x} \cup {y}) <= Cardinality(S) /\ Cardinality(S) \in Nat
  BY FS_Subset, FS_CardinalityType
<1> QED
  BY <1>2, <1>3

PlanRun == part = "planning" => PlanTyped /\ (pcalm => PlanSerial)

LEMMA PlanOneByOne == P!MCNext /\ pcalm => PlanAlone'
<1> SUFFICES ASSUME P!MCNext, pcalm PROVE PlanAlone'
  OBVIOUS
<1> DEFINE Busy == {r \in Requests : pcall'[r] # P!Idle}
<1>0. P!Cardinality(Busy) = Cardinality(Busy)
  BY DEF P!Cardinality, Cardinality
<1>1. IsFiniteSet(Busy) /\ Cardinality(Busy) <= 1
  BY <1>0, RequestsAreFinite, FS_Subset DEF P!MCNext
<1>2. \A r, s \in Busy : r = s
  BY <1>1, AtMostOne
<1> QED
  BY <1>2 DEF PlanAlone

LEMMA PlanRunStep == PlanRun /\ [PlansNext]_plansVars => PlanRun'
<1> SUFFICES ASSUME PlanRun, [PlansNext]_plansVars, part = "planning", part' = part PROVE PlanRun'
  BY PartSteps DEF PlanRun, plansVars
<1>1. CASE P!MCNext
  <2>1. P!Asking(P!Asked) /\ pcalm' = pcalm
    BY <1>1 DEF P!MCNext
  <2>2. P!Asked \in SUBSET {x \in P!Row : x.state = "live"}
    BY DEF P!Asked, P!Only, P!Row, P!Refs, P!Statuses
  <2>3. PlanTyped'
    BY <2>1, <2>2, PlanTypedStep DEF PlanRun
  <2>4. pcalm => PlanSerial'
    BY <1>1, <2>1, <2>2, <2>3, PlanOneByOne, PlanSerialStep DEF PlanRun
  <2> QED
    BY <2>1, <2>3, <2>4 DEF PlanRun
<1>2. CASE UNCHANGED planVars
  <2>1. UNCHANGED P!vars /\ pcalm' = pcalm
    BY <1>2 DEF planVars, P!vars
  <2>2. PlanTyped'
    BY <2>1, PlanTypedStep DEF PlanRun
  <2>3. pcalm => PlanAlone'
    BY <2>1 DEF PlanRun, PlanSerial, PlanAlone, P!vars
  <2> QED
    BY <2>1, <2>2, <2>3, PlanSerialStep DEF PlanRun
<1> QED
  BY <1>1, <1>2, PartSteps DEF plansVars

\* With one request at a time, some of which die, tasks form a forest, no row has a
\* status that is not defined and no foreign key refuses the deletion of a task
\* (_validate_parent_task, _usage_count, delete_task and delete_phase); types hold
\* however requests overlap.
THEOREM PlanHolds == PlansSpec => []SerialPlanHolds
<1>1. PlansInit => PlanRun
  BY PlanTypedInit, PlanSerialInit DEF PlansInit, PlanRun, P!MCInit
<1>2. PlanRun => SerialPlanHolds
  BY PlanDeletes DEF PlanRun, SerialPlanHolds, PlanTyped, PlanSerial
<1> QED
  BY <1>1, <1>2, PlanRunStep, PTL DEF PlansSpec, plansVars

-----------------------------------------------------------------------------
\* Copies

CopyClosed == \A x \in C!In(copy) : C!Refs(copy[x]) \cup copy[x].of \subseteq C!In(copy)

\* The rows of the project have the columns of their kind and refer to rows that
\* are there.
CopyRowsHold ==
    \A x \in C!In(row) : row[x] \in C!Shapes(x) /\ C!Refs(row[x]) \cup row[x].of \subseteq C!In(row)

LEMMA CopyShapes ==
    ASSUME NEW x \in C!Ids, NEW w \in C!Shapes(x)
    PROVE  /\ w \in C!Row
           /\ x \notin Few => w.phase = NoId /\ w.parent = NoId
           /\ x \in FewPhases \cup Few => w.of = {}
           /\ x \in Notes => w.of \subseteq Few
           /\ w.of \subseteq FewPhases \cup Few
BY CopiesAssumption DEF C!Shapes, C!Row, C!Entities

LEMMA CopyIn ==
    ASSUME NEW g \in C!Graphs
    PROVE  \A x \in C!Ids : (x \in C!In(g)) <=> g[x] \in C!Row
BY CopiesAssumption DEF C!Graphs, C!In

\* One kind of copy_graph adds rows whose references are copied with them.
LEMMA CopyKindCloses ==
    ASSUME NEW g \in C!Graphs, NEW done \in C!Graphs, NEW K,
           \A x \in C!In(done) : C!Refs(done[x]) \cup done[x].of \subseteq C!In(done)
    PROVE  LET new == C!CopyKind(g, done, K)
           IN  /\ new \in C!Graphs /\ C!In(done) \subseteq C!In(new)
               /\ \A x \in C!In(new) : C!Refs(new[x]) \cup new[x].of \subseteq C!In(new)
<1> DEFINE found == C!In(done)
           read == C!Read(g, found, K)
           kept == {x \in read : g[x].of \subseteq found}
           new == C!CopyKind(g, done, K)
<1>1. new = [x \in C!Ids |-> IF x \in kept THEN C!Remapped(g[x], found, kept) ELSE done[x]]
  BY DEF C!CopyKind
<1>2. kept \subseteq C!Ids /\ \A x \in kept : g[x] \in C!Row /\ g[x].of \subseteq found
  BY CopyIn DEF C!Read, C!In
<1> HIDE DEF kept, new, read
<1>3. ASSUME NEW x \in kept
      PROVE  LET w == C!Remapped(g[x], found, kept)
             IN  w \in C!Row /\ C!Refs(w) \cup w.of \subseteq found \cup kept
  <2>1. g[x] \in C!Row /\ g[x].of \subseteq found
    BY <1>2
  <2> HIDE DEF found
  <2> QED
    BY <2>1 DEF C!Remapped, C!Row, C!Refs
<1>4. new \in C!Graphs
  BY <1>1, <1>3 DEF C!Graphs
<1>5. C!In(new) = found \cup kept
  <2>1. \A x \in C!Ids : (x \in C!In(new)) <=> new[x] \in C!Row
    BY <1>4, CopyIn
  <2>2. \A x \in C!Ids : (x \in found) <=> done[x] \in C!Row
    BY CopyIn
  <2>3. C!In(new) \subseteq C!Ids /\ found \subseteq C!Ids
    BY DEF C!In
  <2> QED
    BY <1>1, <1>2, <1>3, <2>1, <2>2, <2>3
<1>6. ASSUME NEW x \in C!In(new) PROVE C!Refs(new[x]) \cup new[x].of \subseteq C!In(new)
  <2>1. CASE x \in kept
    BY <1>1, <1>2, <1>3, <1>5, <2>1
  <2>2. CASE x \notin kept
    <3>1. x \in C!Ids /\ new[x] = done[x] /\ x \in found
      BY <1>1, <1>5, <2>2 DEF C!In
    <3> QED
      BY <1>5, <3>1
  <2> QED
    BY <2>1, <2>2
<1> QED
  BY <1>4, <1>5, <1>6 DEF new

CopyBlank ==
    /\ op = "idle" => at = 0 /\ touched = {} /\ file = C!Blank /\ copy = C!Blank
    /\ op = "export" => copy = C!Blank

CopyInv == C!TypeOK /\ CopyClosed /\ CopyRowsHold /\ CopyBlank

LEMMA CopyBlankIn == C!Blank \in C!Graphs /\ C!In(C!Blank) = {}
BY DEF C!Blank, C!Graphs, C!In

LEMMA CopyInvInit == C!Init => CopyInv
BY CopyBlankIn DEF C!Init, CopyInv, C!TypeOK, CopyClosed, CopyRowsHold, CopyBlank

\* What a deletion does to the rows that stay.
LEMMA CopyWithout ==
    ASSUME NEW x \in C!Ids, NEW y \in C!Ids, NEW w \in C!Shapes(y)
    PROVE  /\ C!Without(x, w) \in C!Shapes(y) /\ C!Without(x, w).of = w.of
           /\ C!Refs(C!Without(x, w)) \subseteq C!Refs(w) \ {x}
<1> DEFINE A == IF y \in Few THEN FewPhases \cup {NoId} ELSE {NoId}
           B == IF y \in Few THEN Few \cup {NoId} ELSE {NoId}
           D == IF y \in Notes THEN {{t} : t \in Few}
                ELSE IF y \in Stages
                  THEN {{a, b} : a \in C!Entities, b \in C!Entities} \ {{a} : a \in C!Entities}
                ELSE {{}}
<1>1. w \in [phase : A, parent : B, of : D] /\ NoId \in A /\ NoId \in B
  BY DEF C!Shapes
<1>2. C!Shapes(y) = [phase : A, parent : B, of : D]
  BY DEF C!Shapes
<1> HIDE DEF A, B, D
<1>3. /\ C!Without(x, w) \in [phase : A, parent : B, of : D]
      /\ C!Without(x, w).phase = IF w.phase = x THEN NoId ELSE w.phase
      /\ C!Without(x, w).parent = IF w.parent = x THEN NoId ELSE w.parent
      /\ C!Without(x, w).of = w.of
  BY <1>1 DEF C!Without
<1> QED
  BY <1>2, <1>3 DEF C!Refs

\* People's writes keep the rows together, and "touched" knows which they are.
LEMMA CopyEdit ==
    ASSUME CopyInv, C!Edit
    PROVE  /\ C!Unlocked /\ UNCHANGED <<op, at, file, copy>>
           /\ row' \in C!Graphs /\ CopyRowsHold' /\ touched' \subseteq C!Ids
           /\ op = "idle" => touched' = {}
           /\ op # "idle" => \A x \in C!In(row') \ touched' :
                                x \in C!In(row) \ touched /\ row'[x] = row[x]
<1>0. /\ row \in C!Graphs /\ touched \subseteq C!Ids
      /\ \A x \in C!In(row) : x \in C!Ids /\ row[x] \in C!Shapes(x) /\ row[x] \in C!Row
                              /\ C!Refs(row[x]) \cup row[x].of \subseteq C!In(row)
  BY CopyIn DEF CopyInv, C!TypeOK, CopyRowsHold, C!In
\* One row becomes w.
<1>1. ASSUME NEW x \in C!Ids, NEW w \in C!Shapes(x), row' = [row EXCEPT ![x] = w],
             C!Refs(w) \cup w.of \subseteq C!In(row), C!Touch({x})
      PROVE  /\ row' \in C!Graphs /\ CopyRowsHold' /\ touched' \subseteq C!Ids
             /\ op = "idle" => touched' = {}
             /\ op # "idle" => \A y \in C!In(row') \ touched' :
                                  y \in C!In(row) \ touched /\ row'[y] = row[y]
  <2>1. w \in C!Row
    BY CopyShapes
  <2>2. row' \in C!Graphs /\ row'[x] = w /\ \A y \in C!Ids \ {x} : row'[y] = row[y]
    BY <1>0, <1>1, <2>1 DEF C!Graphs
  <2>3. C!In(row') = C!In(row) \cup {x}
    BY <2>1, <2>2, CopiesAssumption DEF C!In
  <2>4. CopyRowsHold'
    BY <1>0, <1>1, <2>2, <2>3 DEF CopyRowsHold
  <2>5. /\ op = "idle" => touched' = {}
        /\ op # "idle" => touched' = touched \cup {x}
    BY <1>1 DEF C!Touch
  <2> QED
    BY <1>0, <2>2, <2>3, <2>4, <2>5
<1>2. ASSUME NEW x \in C!Ids, NEW w \in C!Shapes(x), C!Create(x, w)
      PROVE  row' = [row EXCEPT ![x] = w] /\ C!Refs(w) \cup w.of \subseteq C!In(row) /\ C!Touch({x})
  BY <1>2 DEF C!Create
<1>3. ASSUME NEW t \in Few, NEW w \in C!Shapes(t), C!Move(t, w)
      PROVE  row' = [row EXCEPT ![t] = w] /\ C!Refs(w) \cup w.of \subseteq C!In(row) /\ C!Touch({t})
  <2>1. w.of = {}
    BY CopyShapes DEF C!Ids, C!Entities
  <2> QED
    BY <1>3, <2>1 DEF C!Move
<1>4. ASSUME NEW x \in C!Ids, C!Delete(x)
      PROVE  /\ row' \in C!Graphs /\ CopyRowsHold' /\ touched' \subseteq C!Ids
             /\ op = "idle" => touched' = {}
             /\ op # "idle" => \A y \in C!In(row') \ touched' :
                                  y \in C!In(row) \ touched /\ row'[y] = row[y]
  <2> DEFINE left == [y \in C!Ids |->
                        IF y \notin C!In(row) THEN row[y]
                        ELSE IF y = x \/ x \in row[y].of THEN Gone
                        ELSE C!Without(x, row[y])]
             gone == {y \in C!In(row) : y = x \/ x \in row[y].of}
  <2>1. row' = left /\ C!Touch({y \in C!Ids : left[y] # row[y]}) /\ x \in C!In(row)
    BY <1>4 DEF C!Delete
  <2>2. \A y \in C!In(row) \ gone : /\ left[y] = C!Without(x, row[y]) /\ left[y] \in C!Shapes(y)
                                    /\ left[y] \in C!Row /\ left[y].of = row[y].of
                                    /\ C!Refs(left[y]) \subseteq C!Refs(row[y]) \ {x}
    <3> SUFFICES ASSUME NEW y \in C!In(row) \ gone
                 PROVE  /\ left[y] = C!Without(x, row[y]) /\ left[y] \in C!Shapes(y)
                        /\ left[y] \in C!Row /\ left[y].of = row[y].of
                        /\ C!Refs(left[y]) \subseteq C!Refs(row[y]) \ {x}
      OBVIOUS
    <3>1. y \in C!Ids /\ row[y] \in C!Shapes(y) /\ left[y] = C!Without(x, row[y])
      BY <1>0
    <3>2. left[y] \in C!Shapes(y) /\ left[y].of = row[y].of
          /\ C!Refs(left[y]) \subseteq C!Refs(row[y]) \ {x}
      BY <3>1, CopyWithout
    <3> QED
      BY <3>1, <3>2, CopyShapes
  <2>3. \A y \in gone : left[y] = Gone
    BY <1>0
  <2>4. \A y \in C!Ids \ C!In(row) : left[y] = row[y] /\ row[y] \in {NotYet, Gone}
    BY DEF C!In
  <2>5. left \in C!Graphs
    <3>1. \A y \in C!Ids : left[y] \in C!Row \cup {NotYet, Gone}
      BY <2>2, <2>3, <2>4
    <3> QED
      BY <3>1 DEF C!Graphs
  <2>6. C!In(left) = C!In(row) \ gone
    <3>1. \A y \in C!Ids : (y \in C!In(left)) <=> left[y] \in C!Row
      BY <2>5, CopyIn
    <3> HIDE DEF left, gone
    <3> QED
      BY <1>0, <2>2, <2>3, <2>4, <3>1, CopiesAssumption DEF C!In
  <2>7. \A y \in C!In(row) \ gone : C!Refs(left[y]) \cup left[y].of \subseteq C!In(row) \ gone
    <3> SUFFICES ASSUME NEW y \in C!In(row) \ gone, NEW z \in C!Refs(left[y]) \cup left[y].of
                 PROVE  z \in C!In(row) \ gone
      OBVIOUS
    <3>1. z \in C!Refs(row[y]) \cup row[y].of /\ z # x
      BY <2>2 DEF gone
    <3>2. z \in C!In(row)
      BY <1>0, <3>1
    <3>3. z \in FewPhases \cup Few
      <4>1. row[y] \in C!Row /\ row[y].of \subseteq FewPhases \cup Few
        BY <1>0, CopyShapes
      <4> QED
        BY <3>1, <4>1 DEF C!Row, C!Refs
    <3>4. row[z].of = {}
      BY <1>0, <3>2, <3>3, CopyShapes
    <3> QED
      BY <3>1, <3>2, <3>4
  <2>8. CopyRowsHold'
    BY <2>1, <2>2, <2>6, <2>7 DEF CopyRowsHold
  <2>9. /\ op = "idle" => touched' = {}
        /\ op # "idle" => touched' = touched \cup {y \in C!Ids : row'[y] # row[y]}
    BY <2>1 DEF C!Touch
  <2>10. C!In(row') \subseteq C!In(row)
    BY <2>1, <2>6
  <2> HIDE DEF left
  <2> QED
    BY <1>0, <2>1, <2>5, <2>8, <2>9, <2>10
<1>5. ASSUME C!Purge
      PROVE  /\ row' \in C!Graphs /\ C!In(row') = {} /\ touched' \subseteq C!Ids
             /\ op = "idle" => touched' = {}
  <2>1. row' = [x \in C!Ids |-> Gone] /\ C!Touch(C!Ids)
    BY <1>5 DEF C!Purge
  <2> QED
    BY <1>0, <2>1 DEF C!Graphs, C!In, C!Touch
<1>6. ASSUME C!Purge PROVE CopyRowsHold'
  BY <1>5, <1>6 DEF CopyRowsHold
<1>7. C!Unlocked /\ UNCHANGED <<op, at, file, copy>>
  BY DEF C!Edit, C!Create, C!Move, C!Delete, C!Purge
<1> QED
  BY <1>1, <1>2, <1>3, <1>4, <1>5, <1>6, <1>7 DEF C!Edit, C!Ids, C!Entities

LEMMA CopyInvStep ==
    ASSUME CopyInv, NEW G \in SUBSET C!Graphs,
           C!Edit \/ C!Work \/ (\E f \in G : C!Given(f)) \/ UNCHANGED C!vars
    PROVE  CopyInv'
<1>0. /\ row \in C!Graphs /\ file \in C!Graphs /\ copy \in C!Graphs /\ touched \subseteq C!Ids
      /\ at \in 0..4 /\ CopyClosed /\ CopyRowsHold /\ CopyBlank
      /\ op \in {"idle", "duplicate", "export", "import", "given"}
  BY DEF CopyInv, C!TypeOK
<1>1. ASSUME UNCHANGED <<row, touched>>, file' \in C!Graphs, copy' \in C!Graphs, at' \in 0..4,
             op' \in {"idle", "duplicate", "export", "import", "given"}, CopyClosed', CopyBlank'
      PROVE  CopyInv'
  BY <1>0, <1>1 DEF CopyInv, C!TypeOK, CopyRowsHold
<1>2. ASSUME C!Edit PROVE CopyInv'
  BY <1>0, <1>2, CopyEdit DEF CopyInv, C!TypeOK, CopyClosed, CopyBlank
<1>3. ASSUME NEW what \in {"duplicate", "export"}, C!Begin(what) PROVE CopyInv'
  BY <1>0, <1>1, <1>3 DEF C!Begin, CopyClosed, CopyBlank
<1>4. ASSUME NEW f \in G, C!Given(f) PROVE CopyInv'
  BY <1>0, <1>1, <1>4 DEF C!Given, CopyClosed, CopyBlank
<1>5. ASSUME C!CopyStep PROVE CopyInv'
  <2>1. PICK g \in C!Graphs : \E K : copy' = C!CopyKind(g, copy, K)
    BY <1>0, <1>5 DEF C!CopyStep
  <2>2. copy' \in C!Graphs /\ CopyClosed'
    BY <1>0, <2>1, CopyKindCloses DEF CopyClosed
  <2> QED
    BY <1>0, <1>1, <1>5, <2>2 DEF C!CopyStep, CopyBlank
<1>6. ASSUME C!ExportStep PROVE CopyInv'
  <2>1. PICK K :
           file' = [x \in C!Ids |-> IF x \in C!Read(row, C!In(file), K) THEN row[x] ELSE file[x]]
    BY <1>6 DEF C!ExportStep
  <2>2. file' \in C!Graphs
    BY <1>0, <2>1 DEF C!Graphs
  <2> QED
    BY <1>0, <1>1, <1>6, <2>2 DEF C!ExportStep, CopyBlank, CopyClosed
<1>7. ASSUME C!Import PROVE CopyInv'
  BY <1>0, <1>1, <1>7 DEF C!Import, CopyBlank, CopyClosed
<1>8. ASSUME C!Abort PROVE CopyInv'
  BY <1>0, <1>8, CopyBlankIn DEF C!Abort, CopyInv, C!TypeOK, CopyBlank, CopyClosed, CopyRowsHold
<1>9. CASE UNCHANGED C!vars
  BY <1>0, <1>1, <1>9 DEF C!vars, CopyBlank, CopyClosed
<1> QED
  BY <1>2, <1>3, <1>4, <1>5, <1>6, <1>7, <1>8, <1>9 DEF C!Work

-----------------------------------------------------------------------------
\* The rows whose kinds were read, and where they go.
CopyDone ==
    {x \in C!Ids : \/ at >= 1 /\ x \in FewPhases
                   \/ at >= 2 /\ x \in Few
                   \/ at >= 3 /\ x \in Notes
                   \/ at >= 4 /\ x \in Stages}

CopyTarget == IF op = "export" THEN file ELSE copy

\* A row that nobody touched has been read as it is, after all it refers to.
CopyProgress ==
    op \in {"duplicate", "export", "import"} =>
       \A x \in C!In(row) \ touched :
          /\ (C!Refs(row[x]) \cup row[x].of) \cap CopyDone \subseteq C!In(CopyTarget)
          /\ x \in CopyDone => CopyTarget[x] = row[x]
          /\ op = "import" => file[x] = row[x] /\ C!Refs(row[x]) \cup row[x].of \subseteq C!In(file)

CopyShaped == op \in {"export", "import"} => \A x \in C!In(file) : file[x] \in C!Shapes(x)

CopyFaithful == CopyInv /\ CopyShaped /\ CopyProgress

\* What copy_graph reads of the kind number n from g, and copies of it.
CopyRead(g, done, n) == C!Read(g, C!In(done), C!Kinds[n + 1])
CopyKept(g, done, n) == {y \in CopyRead(g, done, n) : g[y].of \subseteq C!In(done)}

\* Reading the next kind from g: rows that refer to rows of g are copied as they are.
LEMMA CopyReads ==
    ASSUME NEW g \in C!Graphs, \A x \in C!In(g) : g[x] \in C!Shapes(x),
           NEW done \in C!Graphs, NEW n \in 0..3, NEW x \in C!In(g),
           C!Refs(g[x]) \cup g[x].of \subseteq C!In(g),
           \A y \in C!Refs(g[x]) \cup g[x].of :
              \/ n >= 1 /\ y \in FewPhases \cap C!In(done)
              \/ n < 1 /\ y \in FewPhases
              \/ n >= 2 /\ y \in Few \cap C!In(done)
              \/ n < 2 /\ y \in Few
    PROVE  /\ x \in C!Kinds[n + 1] =>
                /\ x \in CopyKept(g, done, n) /\ x \in CopyRead(g, done, n)
                /\ C!Remapped(g[x], C!In(done), CopyKept(g, done, n)) = g[x]
           /\ \A y \in (C!Refs(g[x]) \cup g[x].of) \cap C!Kinds[n + 1] :
                y \in CopyKept(g, done, n) /\ y \in CopyRead(g, done, n)
<1> DEFINE K == C!Kinds[n + 1]
           found == C!In(done)
           read == C!Read(g, found, K)
           kept == {y \in read : g[y].of \subseteq found}
<1>0. \A y \in C!In(g) : y \in C!Ids /\ g[y] \in C!Shapes(y) /\ g[y] \in C!Row
  BY CopyShapes DEF C!In
<1>1. \/ n = 0 /\ K = FewPhases
      \/ n = 1 /\ K = Few
      \/ n = 2 /\ K = Notes
      \/ n = 3 /\ K = Stages
  BY DEF C!Kinds
<1> HIDE DEF K, found
<1>2. ASSUME NEW y \in C!In(g) \cap K, K = FewPhases \/ K = Few PROVE y \in kept /\ y \in read
  <2>1. g[y].of = {} /\ K # Notes
    <3>1. g[y].of = {}
      BY <1>0, <1>2, CopyShapes
    <3>2. K # Notes
      BY <1>2, CopiesAssumption
    <3> QED
      BY <3>1, <3>2
  <2> QED
    BY <1>2, <2>1 DEF C!Read
<1>3. g[x].of \subseteq FewPhases \cup Few /\ C!Refs(g[x]) \subseteq FewPhases \cup Few
  BY <1>0, CopyShapes DEF C!Row, C!Refs
<1>4. \A y \in (C!Refs(g[x]) \cup g[x].of) \cap K : y \in kept /\ y \in read
  <2>1. \A y \in (C!Refs(g[x]) \cup g[x].of) \cap K : K = FewPhases \/ K = Few
    BY <1>1, <1>3, CopiesAssumption
  <2> QED
    BY <1>2, <2>1
<1>5. ASSUME x \in K PROVE x \in kept /\ x \in read
  <2>1. CASE K = FewPhases \/ K = Few
    BY <1>2, <1>5, <2>1
  <2>2. CASE n = 2 /\ K = Notes
    <3>1. g[x].of \subseteq Few
      BY <1>0, <1>5, <2>2, CopyShapes
    <3>2. g[x].of \subseteq found
      BY <2>2, <3>1, CopiesAssumption DEF found
    <3> QED
      BY <1>5, <3>2 DEF C!Read
  <2>3. CASE n = 3 /\ K = Stages
    <3>1. g[x].of \subseteq found
      BY <1>3, <2>3, CopiesAssumption DEF found
    <3> QED
      BY <1>5, <2>3, <3>1 DEF C!Read
  <2> QED
    BY <1>1, <2>1, <2>2, <2>3
<1>6. ASSUME x \in K PROVE C!Remapped(g[x], found, kept) = g[x]
  <2>1. g[x].phase \in found \/ g[x].phase = NoId
    <3>1. x \notin Few => g[x].phase = NoId
      BY <1>0, CopyShapes
    <3>2. ASSUME x \in Few, g[x].phase # NoId PROVE g[x].phase \in found
      <4>1. n = 1
        BY <1>1, <1>6, <3>2, CopiesAssumption
      <4>2. g[x].phase \in FewPhases /\ g[x].phase \in C!Refs(g[x])
        BY <1>0, <3>2 DEF C!Row, C!Refs
      <4> QED
        BY <4>1, <4>2, CopiesAssumption DEF found
    <3> QED
      BY <3>1, <3>2
  <2>2. g[x].parent \in kept \/ g[x].parent = NoId
    <3>1. x \notin Few => g[x].parent = NoId
      BY <1>0, CopyShapes
    <3>2. ASSUME x \in Few, g[x].parent # NoId PROVE g[x].parent \in kept
      <4>1. K = Few
        BY <1>1, <1>6, <3>2, CopiesAssumption
      <4>2. g[x].parent \in Few /\ g[x].parent \in C!Refs(g[x])
        BY <1>0, <3>2 DEF C!Row, C!Refs
      <4> QED
        BY <1>4, <4>1, <4>2
    <3> QED
      BY <3>1, <3>2
  <2> HIDE DEF kept
  <2> QED
    BY <1>0, <2>1, <2>2 DEF C!Remapped, C!Row
<1> QED
  BY <1>4, <1>5, <1>6 DEF K, found, CopyKept, CopyRead

\* How the set of rows that were read grows.
LEMMA CopyDoneGrows ==
    ASSUME at \in 0..3, at' = at + 1
    PROVE  CopyDone' = CopyDone \cup (C!Kinds[at + 1] \cap C!Ids)
<1>1. CASE at = 0
  BY <1>1 DEF CopyDone, C!Kinds
<1>2. CASE at = 1
  BY <1>2 DEF CopyDone, C!Kinds
<1>3. CASE at = 2
  BY <1>3 DEF CopyDone, C!Kinds
<1>4. CASE at = 3
  BY <1>4 DEF CopyDone, C!Kinds
<1> QED
  BY <1>1, <1>2, <1>3, <1>4

\* The rows that an untouched row refers to were read, if it was their turn.
LEMMA CopyBefore ==
    ASSUME CopyFaithful, op \in {"duplicate", "export", "import"}, at \in 0..3,
           NEW x \in C!In(row) \ touched
    PROVE  \A y \in C!Refs(row[x]) \cup row[x].of :
              \/ at >= 1 /\ y \in FewPhases \cap C!In(CopyTarget)
              \/ at < 1 /\ y \in FewPhases
              \/ at >= 2 /\ y \in Few \cap C!In(CopyTarget)
              \/ at < 2 /\ y \in Few
<1>1. x \in C!Ids /\ row[x] \in C!Shapes(x) /\ row[x] \in C!Row
  BY CopyShapes DEF CopyFaithful, CopyInv, CopyRowsHold, C!In
<1>2. C!Refs(row[x]) \cup row[x].of \subseteq FewPhases \cup Few
  BY <1>1, CopyShapes DEF C!Row, C!Refs
<1>3. (C!Refs(row[x]) \cup row[x].of) \cap CopyDone \subseteq C!In(CopyTarget)
  BY DEF CopyFaithful, CopyProgress
<1>4. at >= 1 => FewPhases \subseteq CopyDone
  BY DEF CopyDone, C!Ids, C!Entities
<1>5. at >= 2 => Few \subseteq CopyDone
  BY DEF CopyDone, C!Ids, C!Entities
<1> HIDE DEF CopyTarget
<1> QED
  BY <1>2, <1>3, <1>4, <1>5

LEMMA CopyFaithfulInit == C!Init => CopyFaithful
BY CopyInvInit DEF C!Init, CopyFaithful, CopyShaped, CopyProgress

\* A step of the walk over the rows of g.
LEMMA CopyAdvances ==
    ASSUME CopyFaithful, CopyInv', C!CopyStep, op \in {"duplicate", "import"}
    PROVE  CopyFaithful'
<1> DEFINE g == IF op = "duplicate" THEN row ELSE file
           K == C!Kinds[at + 1]
           found == C!In(copy)
           kept == CopyKept(g, copy, at)
<1>0. /\ row \in C!Graphs /\ file \in C!Graphs /\ copy \in C!Graphs
      /\ at \in 0..3 /\ copy' \in C!Graphs
      /\ \A x \in C!In(row) :
            row[x] \in C!Shapes(x) /\ C!Refs(row[x]) \cup row[x].of \subseteq C!In(row)
      /\ op = "import" => \A x \in C!In(file) : file[x] \in C!Shapes(x)
  BY DEF CopyFaithful, CopyInv, C!TypeOK, CopyRowsHold, CopyShaped, C!CopyStep
<1>1. /\ copy' = [x \in C!Ids |-> IF x \in kept THEN C!Remapped(g[x], found, kept) ELSE copy[x]]
      /\ at' = at + 1 /\ UNCHANGED <<row, touched, op, file>>
  BY DEF C!CopyStep, C!CopyKind, CopyKept, CopyRead
<1>2. C!In(copy) \subseteq C!In(copy')
  BY <1>0, <1>1, CopyKindCloses DEF C!CopyStep, CopyFaithful, CopyInv, CopyClosed
<1>3. CopyDone' = CopyDone \cup (K \cap C!Ids)
  BY <1>0, <1>1, CopyDoneGrows
<1>4. CopyTarget = copy /\ CopyTarget' = copy'
  BY <1>1 DEF CopyTarget
<1>5. CopyShaped'
  BY <1>1 DEF CopyFaithful, CopyShaped
<1>6. ASSUME NEW x \in C!In(row) \ touched
      PROVE  /\ (C!Refs(row[x]) \cup row[x].of) \cap CopyDone' \subseteq C!In(copy')
             /\ x \in CopyDone' => copy'[x] = row[x]
  <2>1. /\ (C!Refs(row[x]) \cup row[x].of) \cap CopyDone \subseteq C!In(copy)
        /\ x \in CopyDone => copy[x] = row[x]
        /\ op = "import" => file[x] = row[x] /\ C!Refs(row[x]) \cup row[x].of \subseteq C!In(file)
    BY <1>4 DEF CopyFaithful, CopyProgress
  <2>2. x \in C!Ids /\ row[x] \in C!Row
    BY <1>0, CopyIn DEF C!In
  <2>3. g[x] = row[x] /\ x \in C!In(g) /\ C!Refs(g[x]) \cup g[x].of \subseteq C!In(g)
    BY <1>0, <2>1, <2>2, CopyIn
  <2>4. g \in C!Graphs /\ \A y \in C!In(g) : g[y] \in C!Shapes(y)
    BY <1>0
  <2>5. \A y \in C!Refs(g[x]) \cup g[x].of :
              \/ at >= 1 /\ y \in FewPhases \cap C!In(copy)
              \/ at < 1 /\ y \in FewPhases
              \/ at >= 2 /\ y \in Few \cap C!In(copy)
              \/ at < 2 /\ y \in Few
    BY <1>0, <1>4, <2>3, CopyBefore
  <2>6. /\ x \in K => x \in kept /\ C!Remapped(g[x], found, kept) = g[x]
        /\ \A y \in (C!Refs(g[x]) \cup g[x].of) \cap K : y \in kept
    <3>1. at \in 0..3 /\ copy \in C!Graphs
      BY <1>0
    <3> HIDE DEF g
    <3> QED
      BY <2>3, <2>4, <2>5, <3>1, CopyReads
  <2>7. \A y \in kept : y \in C!In(copy')
    <3>1. \A y \in kept : y \in C!Ids /\ g[y] \in C!Row
      BY <2>4, CopyIn DEF CopyKept, CopyRead, C!Read, C!In
    <3> HIDE DEF g, kept, found
    <3>2. \A y \in kept : C!Remapped(g[y], found, kept) \in C!Row
      BY <3>1 DEF C!Remapped, C!Row
    <3> QED
      BY <1>0, <1>1, <3>1, <3>2, CopyIn
  <2> HIDE DEF g, kept, found, K
  <2>8. (C!Refs(row[x]) \cup row[x].of) \cap CopyDone' \subseteq C!In(copy')
    BY <1>2, <1>3, <2>1, <2>3, <2>6, <2>7
  <2>9. x \in CopyDone' => copy'[x] = row[x]
    <3>1. CASE x \in kept
      <4>1. x \in K
        BY <3>1 DEF kept, CopyKept, CopyRead, C!Read, K
      <4> QED
        BY <1>1, <2>2, <2>3, <2>6, <3>1, <4>1
    <3>2. CASE x \notin kept
      BY <1>1, <1>3, <2>1, <2>2, <2>6, <3>2
    <3> QED
      BY <3>1, <3>2
  <2> QED
    BY <2>8, <2>9
<1>7. CopyProgress'
  BY <1>1, <1>4, <1>6 DEF CopyProgress, CopyFaithful
<1> QED
  BY <1>5, <1>7 DEF CopyFaithful

LEMMA CopyExports ==
    ASSUME CopyFaithful, CopyInv', C!ExportStep
    PROVE  CopyFaithful'
<1> DEFINE K == C!Kinds[at + 1]
           read == CopyRead(row, file, at)
<1>0. /\ row \in C!Graphs /\ file \in C!Graphs /\ at \in 0..3 /\ file' \in C!Graphs /\ op = "export"
      /\ \A x \in C!In(row) :
            row[x] \in C!Shapes(x) /\ C!Refs(row[x]) \cup row[x].of \subseteq C!In(row)
      /\ \A x \in C!In(file) : file[x] \in C!Shapes(x)
  BY DEF CopyFaithful, CopyInv, C!TypeOK, CopyRowsHold, CopyShaped, C!ExportStep
<1>1. /\ file' = [x \in C!Ids |-> IF x \in read THEN row[x] ELSE file[x]]
      /\ at' = at + 1 /\ UNCHANGED <<row, touched, op, copy>>
  BY DEF C!ExportStep, CopyRead
<1>2. CopyTarget = file /\ CopyTarget' = file'
  BY <1>0, <1>1 DEF CopyTarget
<1>3. CopyDone' = CopyDone \cup (K \cap C!Ids)
  BY <1>0, <1>1, CopyDoneGrows
<1>4. read \subseteq C!In(row) \cap K
  BY DEF CopyRead, C!Read
<1>5. C!In(file') = C!In(file) \cup read
  <2>1. \A y \in read : y \in C!Ids /\ row[y] \in C!Row
    BY <1>0, <1>4, CopyIn DEF C!In
  <2> HIDE DEF read
  <2>2. C!In(file) \subseteq C!Ids /\ C!In(file') \subseteq C!Ids
    BY DEF C!In
  <2> QED
    BY <1>0, <1>1, <2>1, <2>2, CopyIn
<1>6. CopyShaped'
  <2>1. \A x \in C!In(file') : file'[x] \in C!Shapes(x)
    BY <1>0, <1>1, <1>4, <1>5 DEF C!In
  <2> QED
    BY <2>1 DEF CopyShaped
<1>7. ASSUME NEW x \in C!In(row) \ touched
      PROVE  /\ (C!Refs(row[x]) \cup row[x].of) \cap CopyDone' \subseteq C!In(file')
             /\ x \in CopyDone' => file'[x] = row[x]
  <2>1. /\ (C!Refs(row[x]) \cup row[x].of) \cap CopyDone \subseteq C!In(file)
        /\ x \in CopyDone => file[x] = row[x]
        /\ x \in C!Ids
    BY <1>0, <1>2 DEF CopyFaithful, CopyProgress, C!In
  <2>2. \A y \in C!Refs(row[x]) \cup row[x].of :
              \/ at >= 1 /\ y \in FewPhases \cap C!In(file)
              \/ at < 1 /\ y \in FewPhases
              \/ at >= 2 /\ y \in Few \cap C!In(file)
              \/ at < 2 /\ y \in Few
    BY <1>0, <1>2, CopyBefore
  <2>3. /\ x \in K => x \in read
        /\ \A y \in (C!Refs(row[x]) \cup row[x].of) \cap K : y \in read
    BY <1>0, <2>2, CopyReads
  <2> HIDE DEF read, K
  <2> QED
    BY <1>1, <1>3, <1>5, <2>1, <2>3
<1>8. CopyProgress'
  BY <1>0, <1>1, <1>2, <1>7 DEF CopyProgress
<1> QED
  BY <1>6, <1>8 DEF CopyFaithful

LEMMA CopyFaithfulStep ==
    ASSUME CopyFaithful, NEW G \in SUBSET C!Graphs,
           C!Edit \/ C!Work \/ (\E f \in G : C!Given(f)) \/ UNCHANGED C!vars
    PROVE  CopyFaithful'
<1>0. CopyInv' /\ CopyInv /\ CopyBlank /\ CopyRowsHold /\ CopyShaped /\ CopyProgress
      /\ at \in 0..4 /\ op \in {"idle", "duplicate", "export", "import", "given"}
  BY CopyInvStep DEF CopyFaithful, CopyInv, C!TypeOK
<1>1. ASSUME op' \in {"idle", "given"} PROVE CopyFaithful'
  BY <1>0, <1>1 DEF CopyFaithful, CopyShaped, CopyProgress
<1>2. ASSUME C!Edit PROVE CopyFaithful'
  <2>1. /\ UNCHANGED <<op, at, file, copy>> /\ op # "import"
        /\ op # "idle" => \A x \in C!In(row') \ touched' :
                             x \in C!In(row) \ touched /\ row'[x] = row[x]
    BY <1>0, <1>2, CopyEdit DEF C!Unlocked
  <2>2. CopyDone' = CopyDone /\ CopyTarget' = CopyTarget
    BY <2>1 DEF CopyDone, CopyTarget
  <2>3. CopyShaped'
    BY <1>0, <2>1 DEF CopyShaped
  <2>4. CopyProgress'
    BY <1>0, <2>1, <2>2 DEF CopyProgress
  <2> QED
    BY <1>0, <2>3, <2>4 DEF CopyFaithful
<1>3. ASSUME NEW what \in {"duplicate", "export"}, C!Begin(what) PROVE CopyFaithful'
  <2>1. /\ op' = what /\ at' = 0 /\ file' = C!Blank /\ UNCHANGED <<row, touched>>
    BY <1>0, <1>3 DEF C!Begin, CopyBlank
  <2>2. CopyShaped'
    BY <2>1, CopyBlankIn DEF CopyShaped
  <2>3. CopyDone' = {}
    BY <2>1 DEF CopyDone
  <2>4. CopyProgress'
    BY <2>1, <2>3 DEF CopyProgress
  <2> QED
    BY <1>0, <2>2, <2>4 DEF CopyFaithful
<1>4. ASSUME C!CopyStep PROVE CopyFaithful'
  BY <1>0, <1>1, <1>4, CopyAdvances DEF C!CopyStep
<1>5. ASSUME C!ExportStep PROVE CopyFaithful'
  BY <1>0, <1>5, CopyExports
<1>6. ASSUME C!Import PROVE CopyFaithful'
  <2>1. /\ op = "export" /\ at = 4 /\ op' = "import" /\ at' = 0 /\ UNCHANGED <<row, touched, file>>
    BY <1>6 DEF C!Import
  <2>2. CopyDone = C!Ids /\ CopyTarget = file /\ CopyDone' = {}
    BY <2>1 DEF CopyDone, CopyTarget, C!Ids, C!Entities
  <2>3. CopyShaped'
    BY <1>0, <2>1 DEF CopyShaped
  <2>4. ASSUME NEW x \in C!In(row) \ touched
        PROVE  file[x] = row[x] /\ C!Refs(row[x]) \cup row[x].of \subseteq C!In(file)
    <3>1. x \in C!Ids /\ C!Refs(row[x]) \cup row[x].of \subseteq C!Ids
      BY <1>0 DEF CopyRowsHold, C!In
    <3> QED
      BY <1>0, <2>1, <2>2, <3>1 DEF CopyProgress
  <2>5. CopyProgress'
    BY <2>1, <2>2, <2>4 DEF CopyProgress
  <2> QED
    BY <1>0, <2>3, <2>5 DEF CopyFaithful
<1>7. ASSUME C!Abort PROVE CopyFaithful'
  BY <1>1, <1>7 DEF C!Abort
<1>8. ASSUME NEW f \in G, C!Given(f) PROVE CopyFaithful'
  BY <1>1, <1>8 DEF C!Given
<1>9. CASE UNCHANGED C!vars
  <2>1. CopyDone' = CopyDone /\ CopyTarget' = CopyTarget
    BY <1>9 DEF C!vars, CopyDone, CopyTarget
  <2>2. CopyShaped' /\ CopyProgress'
    BY <1>0, <1>9, <2>1 DEF C!vars, CopyShaped, CopyProgress
  <2> QED
    BY <1>0, <2>2 DEF CopyFaithful
<1> QED
  BY <1>2, <1>3, <1>4, <1>5, <1>6, <1>7, <1>8, <1>9 DEF C!Work

LEMMA CopyAll ==
    ASSUME CopyFaithful, C!Copied, op # "given"
    PROVE  \A x \in C!In(row) \ touched : copy[x] = row[x]
<1>1. op \in {"duplicate", "import"} /\ at = 4
  BY DEF C!Copied
<1>2. CopyDone = C!Ids /\ CopyTarget = copy
  BY <1>1 DEF CopyDone, CopyTarget, C!Ids, C!Entities
<1> QED
  BY <1>1, <1>2 DEF CopyFaithful, CopyProgress, C!In

\* Nobody writes while a duplicate reads.
CopyLocked == op = "duplicate" => touched = {} /\ C!In(copy) \subseteq C!In(row)

LEMMA CopyLockedStep ==
    ASSUME CopyInv, CopyLocked, NEW G \in SUBSET C!Graphs,
           (C!Edit /\ op # "duplicate") \/ C!Work \/ (\E f \in G : C!Given(f)) \/ UNCHANGED C!vars
    PROVE  CopyLocked'
<1>0. row \in C!Graphs /\ copy \in C!Graphs /\ CopyBlank /\ CopyInv'
  BY CopyInvStep DEF CopyInv, C!TypeOK
<1>1. ASSUME C!Edit, op # "duplicate" PROVE CopyLocked'
  BY <1>1, CopyEdit DEF CopyLocked
<1>2. ASSUME NEW what, C!Begin(what) PROVE CopyLocked'
  BY <1>0, <1>2, CopyBlankIn DEF C!Begin, CopyLocked, CopyBlank
<1>3. ASSUME C!CopyStep, op = "duplicate" PROVE CopyLocked'
  <2>1. PICK kept \in SUBSET C!In(row) : \A x \in C!Ids \ kept : copy'[x] = copy[x]
    <3>1. {x \in C!Read(row, C!In(copy), C!Kinds[at + 1]) : row[x].of \subseteq C!In(copy)}
             \in SUBSET C!In(row)
      BY DEF C!Read
    <3> QED
      BY <1>3, <3>1 DEF C!CopyStep, C!CopyKind
  <2>2. C!In(copy') \subseteq C!In(row)
    BY <1>3, <2>1 DEF C!In, CopyLocked
  <2> QED
    BY <1>3, <2>2 DEF C!CopyStep, CopyLocked
<1>4. ASSUME op' # "duplicate" PROVE CopyLocked'
  BY <1>4 DEF CopyLocked
<1>5. CASE UNCHANGED C!vars
  BY <1>5 DEF C!vars, CopyLocked
<1> QED
  BY <1>1, <1>2, <1>3, <1>4, <1>5
     DEF C!Work, C!CopyStep, C!ExportStep, C!Import, C!Abort, C!Given

LEMMA CopyExact ==
    ASSUME CopyFaithful, CopyLocked, C!Copied, op = "duplicate"
    PROVE  C!In(copy) = C!In(row) /\ touched = {}
<1>1. touched = {} /\ C!In(copy) \subseteq C!In(row)
  BY DEF CopyLocked
<1>2. \A x \in C!In(row) : x \in C!Ids /\ copy[x] = row[x]
  BY <1>1, CopyAll DEF C!In
<1>3. row \in C!Graphs /\ copy \in C!Graphs
  BY DEF CopyFaithful, CopyInv, C!TypeOK
<1> QED
  BY <1>1, <1>2, <1>3, CopyIn

-----------------------------------------------------------------------------
\* The copies in MCPlans

LEMMA SqliteEditsLess ==
    CSqlite!Edit \/ CSqlite!Work => (C!Edit /\ op # "duplicate") \/ C!Work
<1> SUFFICES ASSUME CSqlite!Edit \/ CSqlite!Work
             PROVE  (C!Edit /\ op # "duplicate") \/ C!Work
  OBVIOUS
<1> USE DEF CSqlite!In, C!In, CSqlite!Ids, C!Ids, CSqlite!Entities, C!Entities, CSqlite!Refs,
            C!Refs, CSqlite!Touch, C!Touch, CSqlite!Unlocked, C!Unlocked
<1>1. ASSUME CSqlite!Edit PROVE C!Edit /\ op # "duplicate"
  <2> USE DEF CSqlite!Shapes, C!Shapes, CSqlite!ParentOk, C!ParentOk
  <2>1. ASSUME NEW x \in C!Ids, NEW w \in C!Shapes(x), CSqlite!Create(x, w)
        PROVE  C!Create(x, w) /\ op # "duplicate"
    BY <2>1 DEF CSqlite!Create, C!Create
  <2>2. ASSUME NEW x \in Few, NEW w \in C!Shapes(x), CSqlite!Move(x, w)
        PROVE  C!Move(x, w) /\ op # "duplicate"
    BY <2>2 DEF CSqlite!Move, C!Move
  <2>3. ASSUME NEW x \in C!Ids, CSqlite!Delete(x) PROVE C!Delete(x) /\ op # "duplicate"
    BY <2>3 DEF CSqlite!Delete, C!Delete, CSqlite!Without, C!Without
  <2>4. ASSUME CSqlite!Purge PROVE C!Purge /\ op # "duplicate"
    BY <2>4 DEF CSqlite!Purge, C!Purge
  <2> QED
    BY <1>1, <2>1, <2>2, <2>3, <2>4 DEF CSqlite!Edit, C!Edit
<1>2. ASSUME CSqlite!Work PROVE C!Work
  BY <1>2 DEF CSqlite!Work, C!Work, CSqlite!Begin, C!Begin, CSqlite!CopyStep, C!CopyStep,
              CSqlite!CopyKind, C!CopyKind, CSqlite!Kinds, C!Kinds, CSqlite!Read, C!Read,
              CSqlite!Remapped, C!Remapped, CSqlite!ExportStep, C!ExportStep,
              CSqlite!Import, C!Import, CSqlite!Abort, C!Abort, CSqlite!Blank, C!Blank
<1> QED
  BY <1>1, <1>2

\* The files people hand over have rows of the right kinds.
LEMMA FilesAreGraphs == Files \in SUBSET C!Graphs
<1> SUFFICES ASSUME NEW f \in [FewPhases -> Shape(FewPhases)] \X [Notes -> Shape(Notes)]
                               \X [Stages -> Shape(Stages)] \X [Few -> Shape(Few)],
                    NEW x \in C!Ids
             PROVE  (CASE x \in FewPhases -> f[1][x] [] x \in Notes -> f[2][x]
                       [] x \in Stages -> f[3][x] [] OTHER -> f[4][x])
                       \in C!Row \cup {NotYet, Gone}
  BY DEF Files, C!Graphs
<1>1. \A K : Shape(K) \subseteq C!Row \cup {NotYet}
  BY DEF Shape, C!Shapes, C!Row, C!Entities
<1>2. /\ x \in FewPhases => f[1][x] \in C!Row \cup {NotYet}
      /\ x \in Notes => f[2][x] \in C!Row \cup {NotYet}
      /\ x \in Stages => f[3][x] \in C!Row \cup {NotYet}
      /\ x \in Few => f[4][x] \in C!Row \cup {NotYet}
  BY <1>1
<1> QED
  BY <1>2 DEF C!Ids, C!Entities

CopiesRun == part = "copies" => CopyFaithful /\ (engine = "sqlite" => CopyLocked)

LEMMA CopiesRunStep == CopiesRun /\ [PlansNext]_plansVars => CopiesRun'
<1> SUFFICES ASSUME CopiesRun, [PlansNext]_plansVars, part = "copies", part' = part PROVE CopiesRun'
  BY PartSteps DEF CopiesRun, plansVars
<1>1. engine' = engine
  BY DependencySteps
<1>2. CopiesNext \/ UNCHANGED C!vars
  BY PartSteps DEF plansVars, copyVars, C!vars
<1>3. /\ C!Edit \/ C!Work \/ (\E f \in Files : C!Given(f)) \/ UNCHANGED C!vars
      /\ engine = "sqlite" =>
            (C!Edit /\ op # "duplicate") \/ C!Work \/ (\E f \in Files : C!Given(f))
             \/ UNCHANGED C!vars
  BY <1>2, SqliteEditsLess DEF CopiesNext
<1>4. CopyFaithful'
  BY <1>3, FilesAreGraphs, CopyFaithfulStep DEF CopiesRun
<1>5. engine = "sqlite" => CopyLocked'
  BY <1>3, FilesAreGraphs, CopyLockedStep DEF CopiesRun, CopyFaithful
<1> QED
  BY <1>1, <1>4, <1>5 DEF CopiesRun

\* Whatever people write and whatever files they hand over meanwhile: a copy refers to
\* nothing outside itself and has every row that nobody touched while it was read, just
\* as it is; on SQLite a duplicate has exactly the rows of its original (copy_graph).
THEOREM CopiesAreTrue == PlansSpec => []CopiesAreFaithful
<1>1. PlansInit => CopiesRun
  <2>1. C!Init => CopyLocked
    BY DEF C!Init, CopyLocked
  <2> QED
    BY <2>1, CopyFaithfulInit DEF PlansInit, CopiesRun
<1>2. CopiesRun => CopiesAreFaithful
  <2> SUFFICES ASSUME CopiesRun, part = "copies"
               PROVE  /\ C!TypeOK /\ C!CopyIsClosed /\ C!UntouchedIsCopied
                      /\ engine = "sqlite" => CSqlite!UntouchedIsCopied
    BY DEF CopiesAreFaithful
  <2>1. CopyFaithful /\ C!TypeOK /\ C!CopyIsClosed
    BY DEF CopiesRun, CopyFaithful, CopyInv, CopyClosed, C!CopyIsClosed
  <2>2. C!Copied /\ op # "given" => \A x \in C!In(row) \ touched : copy[x] = row[x]
    BY <2>1, CopyAll
  <2>3. engine = "sqlite" /\ C!Copied /\ op = "duplicate" =>
           C!In(copy) = C!In(row) /\ touched = {}
    BY <2>1, CopyExact DEF CopiesRun
  <2>4. /\ CSqlite!Copied <=> C!Copied
        /\ CSqlite!In(row) = C!In(row) /\ CSqlite!In(copy) = C!In(copy)
    BY DEF CSqlite!Copied, C!Copied, CSqlite!In, C!In, CSqlite!Ids, C!Ids,
           CSqlite!Entities, C!Entities
  <2> QED
    BY <2>1, <2>2, <2>3, <2>4 DEF C!UntouchedIsCopied, CSqlite!UntouchedIsCopied
<1> QED
  BY <1>1, <1>2, CopiesRunStep, PTL DEF PlansSpec, plansVars

-----------------------------------------------------------------------------
\* Todos

\* A request that works has a todo; parents of todos exist (the foreign key).
TodosInv ==
    /\ T!TypeOK
    /\ \A r \in Requests : tcall[r].at # "idle" => tcall[r].todo \in Rows
    /\ \A t \in T!There : parent[t] \in T!There \cup {NoId}

LEMMA TodosIdle == T!Idle \in T!Call /\ T!Idle.at = "idle"
BY DEF T!Idle, T!Call, T!Refs

LEMMA TodosInit == T!Init => TodosInv
BY TodosIdle DEF T!Init, TodosInv, T!TypeOK, T!There

\* A request that becomes c, without a write.
LEMMA TodosCall ==
    ASSUME TodosInv, NEW r \in Requests, NEW c \in T!Call, T!Becomes(r, c), parent' = parent,
           c.at # "idle" => c.todo \in Rows
    PROVE  TodosInv'
<1>1. T!There' = T!There
  BY DEF T!There
<1>2. /\ tcall' \in [Requests -> T!Call] /\ tcall'[r] = c
      /\ \A s \in Requests \ {r} : tcall'[s] = tcall[s]
  BY DEF TodosInv, T!TypeOK, T!Becomes
<1> QED
  BY <1>1, <1>2 DEF TodosInv, T!TypeOK

LEMMA TodosStep == TodosInv /\ [T!Next]_(T!vars) => TodosInv'
<1> SUFFICES ASSUME TodosInv, [T!Next]_(T!vars) PROVE TodosInv'
  OBVIOUS
<1>0. /\ parent \in [Rows -> T!Refs \cup {Gone}] /\ tcall \in [Requests -> T!Call]
      /\ T!There \subseteq Rows /\ NoId \in T!Refs /\ Rows \subseteq T!Refs
      /\ \A t \in T!There : parent[t] \in T!There \cup {NoId}
      /\ \A r \in Requests : tcall[r].at # "idle" => tcall[r].todo \in Rows
  BY DEF TodosInv, T!TypeOK, T!There, T!Refs
<1>1. ASSUME NEW r \in Requests, NEW t \in Rows, NEW p \in T!Refs, T!CreateRead(r, t, p)
      PROVE  TodosInv'
  <2> DEFINE c == [T!Idle EXCEPT !.at = "creating", !.todo = t, !.new = p]
  <2>1. c \in T!Call /\ c.todo = t /\ T!Becomes(r, c) /\ parent' = parent
    BY <1>1, TodosIdle DEF T!CreateRead, T!Idle, T!Call
  <2> QED
    BY <2>1, TodosCall
<1>2. ASSUME NEW r \in Requests, NEW t \in Rows, NEW p \in T!Refs, T!MoveRead(r, t, p)
      PROVE  TodosInv'
  <2> DEFINE c == [T!Idle EXCEPT !.at = IF p = NoId THEN "moving" ELSE "walking",
                                 !.todo = t, !.old = parent[t], !.new = p, !.cur = p]
  <2>1. parent[t] \in T!Refs
    BY <1>0, <1>2 DEF T!MoveRead, T!There
  <2>2. c \in T!Call /\ c.todo = t /\ T!Becomes(r, c) /\ parent' = parent
    BY <1>2, <2>1, TodosIdle DEF T!MoveRead, T!Idle, T!Call
  <2> QED
    BY <2>2, TodosCall
<1>3. ASSUME NEW r \in Requests, NEW t \in Rows, T!DeleteRead(r, t) PROVE TodosInv'
  <2> DEFINE c == [T!Idle EXCEPT !.at = "descending", !.todo = t, !.cur = t, !.seen = {t}]
  <2>1. c \in T!Call /\ c.todo = t /\ T!Becomes(r, c) /\ parent' = parent
    BY <1>0, <1>3, TodosIdle DEF T!DeleteRead, T!Idle, T!Call
  <2> QED
    BY <2>1, TodosCall
<1>4. ASSUME NEW r \in Requests, T!Walk(r) PROVE TodosInv'
  <2> DEFINE c == tcall[r]
             d == [c EXCEPT !.seen = @ \cup {c.cur},
                            !.cur = IF c.cur \in T!There THEN parent[c.cur] ELSE NoId]
  <2>1. c \in T!Call /\ c.at = "walking" /\ c.todo \in Rows /\ parent' = parent
    BY <1>0, <1>4 DEF T!Walk
  <2>2. CASE T!Becomes(r, T!Idle)
    BY <2>1, <2>2, TodosIdle, TodosCall
  <2>3. CASE T!Becomes(r, [c EXCEPT !.at = "moving"])
    <3>1. [c EXCEPT !.at = "moving"] \in T!Call /\ [c EXCEPT !.at = "moving"].todo = c.todo
      BY <2>1 DEF T!Call
    <3> QED
      BY <2>1, <2>3, <3>1, TodosCall
  <2>4. CASE c.cur \notin {c.todo, NoId} /\ T!Becomes(r, d)
    <3>1. c.cur \in Rows /\ (c.cur \in T!There => parent[c.cur] \in T!Refs)
      BY <1>0, <2>1, <2>4 DEF T!Call, T!Refs
    <3>2. d \in T!Call /\ d.todo = c.todo
      BY <1>0, <2>1, <3>1 DEF T!Call
    <3> QED
      BY <2>1, <2>4, <3>2, TodosCall
  <2> QED
    BY <1>4, <2>2, <2>3, <2>4 DEF T!Walk
<1>5. ASSUME NEW r \in Requests, T!Descend(r) PROVE TodosInv'
  <2> DEFINE c == tcall[r]
  <2>1. c \in T!Call /\ c.todo \in Rows /\ parent' = parent
    BY <1>0, <1>5 DEF T!Descend
  <2>2. \/ T!Becomes(r, [c EXCEPT !.at = "deleting"])
        \/ \E x \in Rows : T!Becomes(r, [c EXCEPT !.seen = @ \cup {x}])
    BY <1>0, <1>5 DEF T!Descend, T!Children
  <2>3. CASE T!Becomes(r, [c EXCEPT !.at = "deleting"])
    <3>1. [c EXCEPT !.at = "deleting"] \in T!Call /\ [c EXCEPT !.at = "deleting"].todo = c.todo
      BY <2>1 DEF T!Call
    <3> QED
      BY <2>1, <2>3, <3>1, TodosCall
  <2>4. ASSUME NEW x \in Rows, T!Becomes(r, [c EXCEPT !.seen = @ \cup {x}]) PROVE TodosInv'
    <3> DEFINE d == [c EXCEPT !.seen = @ \cup {x}]
    <3>1. d \in T!Call /\ d.todo = c.todo
      BY <2>1 DEF T!Call
    <3> QED
      BY <2>1, <2>4, <3>1, TodosCall
  <2> QED
    BY <2>2, <2>3, <2>4
<1>6. ASSUME NEW r \in Requests, T!DescendsForEver(r) \/ T!Abort(r) PROVE TodosInv'
  BY <1>6, TodosIdle, TodosCall DEF T!DescendsForEver, T!Abort
\* A todo of a request gets a parent.
<1>7. ASSUME NEW r \in Requests, T!Becomes(r, T!Idle),
             NEW t \in Rows, NEW p \in T!There \cup {NoId},
             parent' = [parent EXCEPT ![t] = p]
      PROVE  TodosInv'
  <2>1. parent' \in [Rows -> T!Refs \cup {Gone}] /\ tcall' \in [Requests -> T!Call]
    BY <1>0, <1>7, TodosIdle DEF T!Becomes
  <2>2. T!There' = T!There \cup {t}
    BY <1>0, <1>7, TodosAssumption DEF T!There
  <2>3. \A x \in T!There' : parent'[x] \in T!There' \cup {NoId}
    BY <1>0, <1>7, <2>2
  <2>4. \A s \in Requests : tcall'[s].at # "idle" => tcall'[s].todo \in Rows
    BY <1>0, <1>7, TodosIdle DEF T!Becomes
  <2> QED
    BY <2>1, <2>3, <2>4 DEF TodosInv, T!TypeOK
<1>8. ASSUME NEW r \in Requests, T!CreateWrite(r) \/ T!MoveWrite(r) PROVE TodosInv'
  <2>1. tcall[r].todo \in Rows /\ T!Becomes(r, T!Idle)
    BY <1>0, <1>8 DEF T!CreateWrite, T!MoveWrite
  <2>2. \/ parent' = parent
        \/ /\ tcall[r].new \in T!There \cup {NoId}
           /\ parent' = [parent EXCEPT ![tcall[r].todo] = tcall[r].new]
    BY <1>8 DEF T!CreateWrite, T!MoveWrite
  <2> QED
    BY <1>7, <2>1, <2>2, TodosIdle, TodosCall
<1>9. ASSUME NEW r \in Requests, T!DeleteWrite(r) PROVE TodosInv'
  <2> DEFINE seen == tcall[r].seen
  <2>1. T!Becomes(r, T!Idle)
    BY <1>9 DEF T!DeleteWrite
  <2>2. CASE parent' = parent
    BY <2>1, <2>2, TodosIdle, TodosCall
  <2>3. CASE /\ \A t \in T!There \ seen : parent[t] \notin seen
             /\ parent' = [t \in Rows |-> IF t \in seen THEN Gone ELSE parent[t]]
    <3> HIDE DEF seen
    <3>1. parent' \in [Rows -> T!Refs \cup {Gone}] /\ tcall' \in [Requests -> T!Call]
      BY <1>0, <2>1, <2>3, TodosIdle DEF T!Becomes
    <3>2. T!There' = T!There \ seen
      BY <1>0, <2>3 DEF T!There
    <3>3. \A x \in T!There' : parent'[x] \in T!There' \cup {NoId}
      BY <1>0, <2>3, <3>2
    <3>4. \A s \in Requests : tcall'[s].at # "idle" => tcall'[s].todo \in Rows
      BY <1>0, <2>1, TodosIdle DEF T!Becomes
    <3> QED
      BY <3>1, <3>3, <3>4 DEF TodosInv, T!TypeOK
  <2> QED
    BY <1>9, <2>2, <2>3 DEF T!DeleteWrite
<1>10. CASE UNCHANGED T!vars
  BY <1>10 DEF T!vars, TodosInv, T!TypeOK, T!There
<1> QED
  BY <1>1, <1>2, <1>3, <1>4, <1>5, <1>6, <1>8, <1>9, <1>10 DEF T!Next

-----------------------------------------------------------------------------
\* Todos, one request at a time

\* What a request knows of the tree between its steps.  A walk has passed rows whose
\* parents it has passed too, or is at; the descent has seen rows that are all below
\* the one that goes.
TodosKnown(c) ==
    /\ c.at = "creating" => parent[c.todo] = Gone
    /\ c.at = "walking" =>
          /\ c.todo \in T!There /\ c.new \in c.seen \cup {c.cur} /\ c.cur \in T!There \cup {NoId}
          /\ \A x \in c.seen : parent[x] \in c.seen \cup {c.cur}
    /\ c.at = "moving" =>
          /\ c.new \in c.seen \cup {NoId}
          /\ \A x \in c.seen : parent[x] \in c.seen \cup {NoId}
    /\ c.at \in {"walking", "moving"} => c.seen \subseteq T!There /\ c.todo \notin c.seen
    /\ c.at \in {"descending", "deleting"} =>
          /\ c.todo \in c.seen /\ c.seen \subseteq T!There
          /\ \A x \in c.seen \ {c.todo} : parent[x] \in c.seen
    /\ c.at = "deleting" => \A t \in c.seen : T!Children(t) \subseteq c.seen \ {c.todo}

TodosAlone == \A r, s \in Requests : tcall[r].at # "idle" /\ tcall[s].at # "idle" => r = s

TodosSerial ==
    /\ TodosInv /\ T!TodosForest /\ TodosAlone
    /\ \A r \in Requests : TodosKnown(tcall[r])

LEMMA TodosSerialInit == T!Init => TodosSerial
<1> SUFFICES ASSUME T!Init PROVE TodosSerial
  OBVIOUS
<1>1. T!There = {}
  BY DEF T!Init, T!There
<1>2. \A r \in Requests : tcall[r].at = "idle"
  BY TodosIdle DEF T!Init
<1> QED
  BY <1>1, <1>2, TodosInit DEF TodosSerial, T!TodosForest, TodosAlone, TodosKnown

LEMMA TodosLearn ==
    ASSUME TodosSerial, NEW r \in Requests, NEW c, T!Becomes(r, c), parent' = parent, TodosKnown(c)
    PROVE  (\A s \in Requests : TodosKnown(tcall[s]))' /\ T!TodosForest' /\ T!Removed = {}
<1>1. T!There' = T!There /\ \A t : T!Children(t)' = T!Children(t)
  BY DEF T!There, T!Children
<1>2. tcall'[r] = c /\ \A s \in Requests \ {r} : tcall'[s] = tcall[s]
  BY DEF TodosSerial, TodosInv, T!TypeOK, T!Becomes
<1>3. ASSUME NEW s \in Requests PROVE TodosKnown(tcall[s])'
  <2>1. tcall'[s] = c \/ tcall'[s] = tcall[s]
    BY <1>2
  <2>2. \A d : tcall'[s] = d /\ TodosKnown(d) => TodosKnown(tcall[s])'
    BY <1>1 DEF TodosKnown
  <2> QED
    BY <2>1, <2>2 DEF TodosSerial
<1> QED
  BY <1>1, <1>3 DEF TodosSerial, T!TodosForest, T!Removed, T!There

LEMMA TodosDone ==
    ASSUME TodosSerial, NEW r \in Requests, T!Becomes(r, T!Idle), tcall[r].at # "idle"
    PROVE  (\A s \in Requests : TodosKnown(tcall[s]))'
<1>1. \A s \in Requests : tcall'[s].at = "idle"
  BY TodosIdle DEF TodosSerial, TodosInv, T!TypeOK, T!Becomes, TodosAlone
<1> QED
  BY <1>1 DEF TodosKnown

\* A new row has nothing below it.
LEMMA TodosGrow ==
    ASSUME TodosSerial, NEW t \in Rows, parent[t] = Gone, NEW p \in T!There \cup {NoId},
           parent' = [parent EXCEPT ![t] = p]
    PROVE  T!TodosForest' /\ T!Removed = {}
<1>0. /\ parent \in [Rows -> T!Refs \cup {Gone}] /\ T!There \subseteq Rows /\ t \notin T!There
      /\ \A x \in T!There : parent[x] \in T!There \cup {NoId}
  BY DEF TodosSerial, TodosInv, T!TypeOK, T!There
<1>1. T!There' = T!There \cup {t} /\ parent'[t] = p /\ \A x \in T!There : parent'[x] = parent[x]
  BY <1>0, TodosAssumption DEF T!There
<1>2. ASSUME NEW S \in (SUBSET T!There') \ {{}} PROVE \E x \in S : parent'[x] \notin S
  <2>1. SUFFICES ASSUME \A x \in S : parent'[x] \in S PROVE FALSE
    OBVIOUS
  <2>2. \A x \in S \ {t} : parent[x] \in S \ {t}
    BY <1>0, <1>1, <2>1, TodosAssumption
  <2>3. S \ {t} = {}
    BY <1>1, <2>2 DEF TodosSerial, T!TodosForest
  <2>4. t \in S /\ p = t
    BY <1>1, <2>1, <2>3
  <2> QED
    BY <1>0, <2>4, TodosAssumption
<1>3. T!Removed = {}
  BY <1>0, <1>1 DEF T!Removed, T!There
<1> QED
  BY <1>2, <1>3 DEF T!TodosForest

\* The walk from the new parent never met the todo: it is not below itself.
LEMMA TodosMoved ==
    ASSUME TodosSerial, NEW t \in T!There, NEW A \in SUBSET T!There, t \notin A,
           NEW p \in A \cup {NoId}, \A x \in A : parent[x] \in A \cup {NoId},
           parent' = [parent EXCEPT ![t] = p]
    PROVE  T!TodosForest' /\ T!Removed = {}
<1>0. parent \in [Rows -> T!Refs \cup {Gone}] /\ T!There \subseteq Rows
  BY DEF TodosSerial, TodosInv, T!TypeOK, T!There
<1>1. p # Gone
  BY <1>0, TodosAssumption
<1>2. T!There' = T!There /\ parent'[t] = p /\ \A x \in T!There \ {t} : parent'[x] = parent[x]
  BY <1>0, <1>1 DEF T!There
<1>3. ASSUME NEW S \in (SUBSET T!There') \ {{}} PROVE \E x \in S : parent'[x] \notin S
  <2>1. SUFFICES ASSUME \A x \in S : parent'[x] \in S PROVE FALSE
    OBVIOUS
  <2>2. CASE t \notin S
    BY <1>2, <1>3, <2>1, <2>2 DEF TodosSerial, T!TodosForest
  <2>3. CASE t \in S
    <3>1. p \in S \cap A
      BY <1>0, <1>2, <2>1, <2>3, TodosAssumption
    <3>2. \A x \in S \cap A : parent[x] \in S \cap A
      BY <1>0, <1>2, <2>1, TodosAssumption
    <3> QED
      BY <3>1, <3>2 DEF TodosSerial, T!TodosForest
  <2> QED
    BY <2>2, <2>3
<1>4. T!Removed = {}
  BY <1>1, <1>2 DEF T!Removed, T!There
<1> QED
  BY <1>3, <1>4 DEF T!TodosForest

\* In a forest there is one set that has a row and all that is below it.
LEMMA TodosBelow ==
    ASSUME TodosSerial, NEW t \in T!There, NEW A \in SUBSET T!There, t \in A,
           \A x \in T!There \ {t} : x \in A <=> parent[x] \in A
    PROVE  A = T!Below(t)
<1> DEFINE Holds(S) == t \in S /\ \A x \in T!There \ {t} : x \in S <=> parent[x] \in S
           B == T!Below(t)
<1>1. B \in SUBSET T!There /\ Holds(B)
  BY DEF T!Below
<1>2. \A x \in (A \ B) \cup (B \ A) : parent[x] \in (A \ B) \cup (B \ A)
  BY <1>1
<1>3. (A \ B) \cup (B \ A) = {}
  <2> HIDE DEF B
  <2> QED
    BY <1>1, <1>2 DEF TodosSerial, T!TodosForest
<1> QED
  BY <1>3

LEMMA TodosSerialStep ==
    TodosSerial /\ [T!Next]_(T!vars) /\ TodosAlone' => TodosSerial' /\ T!WholeSubtrees
<1> SUFFICES ASSUME TodosSerial, [T!Next]_(T!vars), TodosAlone'
             PROVE  TodosSerial' /\ T!WholeSubtrees
  OBVIOUS
<1>0. /\ parent \in [Rows -> T!Refs \cup {Gone}] /\ tcall \in [Requests -> T!Call]
      /\ T!There \subseteq Rows /\ TodosInv'
      /\ \A t \in T!There : parent[t] \in T!There \cup {NoId}
      /\ \A r \in Requests : tcall[r].at # "idle" => tcall[r].todo \in Rows
      /\ \A r \in Requests : TodosKnown(tcall[r])
  BY TodosStep DEF TodosSerial, TodosInv, T!TypeOK, T!There
<1> DEFINE Goal == (\A s \in Requests : TodosKnown(tcall[s]))' /\ T!TodosForest' /\ T!WholeSubtrees
<1> SUFFICES Goal
  BY <1>0 DEF TodosSerial
<1>i. TodosKnown(T!Idle) /\ T!Idle.at = "idle"
  BY TodosIdle DEF TodosKnown
\* A step that only learns, and one that ends without a write.
<1>l. ASSUME NEW r \in Requests, NEW c, T!Becomes(r, c), parent' = parent, TodosKnown(c)
      PROVE  Goal
  BY <1>l, TodosLearn DEF T!WholeSubtrees
<1>e. ASSUME NEW r \in Requests, T!Becomes(r, T!Idle), parent' = parent PROVE Goal
  BY <1>e, <1>i, <1>l
\* A step that writes.
<1>w. ASSUME NEW r \in Requests, T!Becomes(r, T!Idle), tcall[r].at # "idle",
             T!TodosForest', T!Removed = {}
      PROVE  Goal
  BY <1>w, TodosDone DEF T!WholeSubtrees
<1>1. ASSUME NEW r \in Requests, NEW t \in Rows, NEW p \in T!Refs, T!CreateRead(r, t, p)
      PROVE  Goal
  <2> DEFINE c == [T!Idle EXCEPT !.at = "creating", !.todo = t, !.new = p]
  <2>1. T!Becomes(r, c) /\ parent' = parent /\ TodosKnown(c)
    BY <1>1 DEF T!CreateRead, TodosKnown, T!Idle
  <2> QED
    BY <2>1, <1>l
<1>2. ASSUME NEW r \in Requests, NEW t \in Rows, NEW p \in T!Refs, T!MoveRead(r, t, p)
      PROVE  Goal
  <2> DEFINE c == [T!Idle EXCEPT !.at = IF p = NoId THEN "moving" ELSE "walking",
                                 !.todo = t, !.old = parent[t], !.new = p, !.cur = p]
  <2>1. T!Becomes(r, c) /\ parent' = parent /\ t \in T!There /\ p \in T!There \cup {NoId}
    BY <1>2 DEF T!MoveRead
  <2>2. TodosKnown(c)
    BY <2>1 DEF TodosKnown, T!Idle
  <2> QED
    BY <2>1, <2>2, <1>l
<1>3. ASSUME NEW r \in Requests, NEW t \in Rows, T!DeleteRead(r, t) PROVE Goal
  <2> DEFINE c == [T!Idle EXCEPT !.at = "descending", !.todo = t, !.cur = t, !.seen = {t}]
  <2>1. T!Becomes(r, c) /\ parent' = parent /\ t \in T!There
    BY <1>3 DEF T!DeleteRead
  <2>2. TodosKnown(c)
    BY <2>1 DEF TodosKnown, T!Idle
  <2> QED
    BY <2>1, <2>2, <1>l
<1>4. ASSUME NEW r \in Requests, T!Walk(r) PROVE Goal
  <2> DEFINE c == tcall[r]
             d == [c EXCEPT !.seen = @ \cup {c.cur},
                            !.cur = IF c.cur \in T!There THEN parent[c.cur] ELSE NoId]
             m == [c EXCEPT !.at = "moving"]
  <2>1. c \in T!Call /\ c.at = "walking" /\ parent' = parent /\ TodosKnown(c)
    BY <1>0, <1>4 DEF T!Walk
  <2>2. CASE T!Becomes(r, T!Idle)
    BY <2>1, <2>2, <1>e
  <2>3. CASE c.cur \in {NoId} \cup c.seen /\ T!Becomes(r, m)
    <3>1. /\ m.at = "moving" /\ m.todo = c.todo /\ m.new = c.new /\ m.seen = c.seen
      BY <2>1 DEF T!Call
    <3>2. TodosKnown(m)
      BY <2>1, <2>3, <3>1 DEF TodosKnown
    <3> QED
      BY <2>1, <2>3, <3>2, <1>l
  <2>4. CASE c.cur \notin {c.todo, NoId} /\ T!Becomes(r, d)
    <3>1. c.cur \in T!There
      BY <2>1, <2>4 DEF TodosKnown
    <3>2. /\ d.at = "walking" /\ d.todo = c.todo /\ d.new = c.new
          /\ d.seen = c.seen \cup {c.cur} /\ d.cur = parent[c.cur]
      BY <2>1, <3>1 DEF T!Call
    <3>3. TodosKnown(d)
      BY <1>0, <2>1, <2>4, <3>1, <3>2 DEF TodosKnown
    <3> QED
      BY <2>1, <2>4, <3>3, <1>l
  <2> QED
    BY <1>4, <2>2, <2>3, <2>4 DEF T!Walk
<1>5. ASSUME NEW r \in Requests, T!Descend(r) PROVE Goal
  <2> DEFINE c == tcall[r]
             m == [c EXCEPT !.at = "deleting"]
  <2>1. c \in T!Call /\ c.at = "descending" /\ parent' = parent /\ TodosKnown(c)
    BY <1>0, <1>5 DEF T!Descend
  <2>2. CASE (\A t \in c.seen : T!Children(t) \subseteq c.seen \ {c.todo}) /\ T!Becomes(r, m)
    <3>1. m.at = "deleting" /\ m.todo = c.todo /\ m.seen = c.seen
      BY <2>1 DEF T!Call
    <3>2. TodosKnown(m)
      BY <2>1, <2>2, <3>1 DEF TodosKnown
    <3> QED
      BY <2>1, <2>2, <3>2, <1>l
  <2>3. ASSUME NEW t \in c.seen, NEW x \in T!Children(t) \ c.seen,
               T!Becomes(r, [c EXCEPT !.seen = @ \cup {x}])
        PROVE  Goal
    <3> DEFINE d == [c EXCEPT !.seen = @ \cup {x}]
    <3>1. d.at = "descending" /\ d.todo = c.todo /\ d.seen = c.seen \cup {x}
      BY <2>1 DEF T!Call
    <3>2. x \in T!There /\ parent[x] = t
      BY DEF T!Children
    <3>3. TodosKnown(d)
      BY <2>1, <3>1, <3>2 DEF TodosKnown
    <3> QED
      BY <2>1, <2>3, <3>3, <1>l
  <2> QED
    BY <1>5, <2>2, <2>3 DEF T!Descend
<1>6. ASSUME NEW r \in Requests, T!DescendsForEver(r) \/ T!Abort(r) PROVE Goal
  BY <1>6, <1>e DEF T!DescendsForEver, T!Abort
<1>7. ASSUME NEW r \in Requests, T!CreateWrite(r) PROVE Goal
  <2>1. /\ T!Becomes(r, T!Idle) /\ tcall[r].at = "creating" /\ tcall[r].todo \in Rows
        /\ parent[tcall[r].todo] = Gone
    BY <1>0, <1>7 DEF T!CreateWrite, TodosKnown
  <2>2. CASE parent' = parent
    BY <2>1, <2>2, <1>e
  <2>3. CASE /\ tcall[r].new \in T!There \cup {NoId}
             /\ parent' = [parent EXCEPT ![tcall[r].todo] = tcall[r].new]
    <3>1. T!TodosForest' /\ T!Removed = {}
      BY <2>1, <2>3, TodosGrow
    <3> QED
      BY <2>1, <3>1, <1>w
  <2> QED
    BY <1>7, <2>2, <2>3 DEF T!CreateWrite
<1>8. ASSUME NEW r \in Requests, T!MoveWrite(r) PROVE Goal
  <2>1. /\ T!Becomes(r, T!Idle) /\ tcall[r].at = "moving"
        /\ TodosKnown(tcall[r])
    BY <1>0, <1>8 DEF T!MoveWrite
  <2>2. CASE parent' = parent
    BY <2>1, <2>2, <1>e
  <2>3. CASE /\ tcall[r].todo \in T!There
             /\ parent' = [parent EXCEPT ![tcall[r].todo] = tcall[r].new]
    <3>1. T!TodosForest' /\ T!Removed = {}
      <4>1. /\ tcall[r].seen \in SUBSET T!There /\ tcall[r].todo \notin tcall[r].seen
            /\ tcall[r].new \in tcall[r].seen \cup {NoId}
            /\ \A x \in tcall[r].seen : parent[x] \in tcall[r].seen \cup {NoId}
        BY <2>1 DEF TodosKnown
      <4> QED
        BY <2>3, <4>1, TodosMoved
    <3> QED
      BY <2>1, <3>1, <1>w
  <2> QED
    BY <1>8, <2>2, <2>3 DEF T!MoveWrite
<1>9. ASSUME NEW r \in Requests, T!DeleteWrite(r) PROVE Goal
  <2> DEFINE c == tcall[r]
  <2>1. /\ T!Becomes(r, T!Idle) /\ c.at = "deleting" /\ TodosKnown(c)
    BY <1>0, <1>9 DEF T!DeleteWrite
  <2>2. CASE parent' = parent
    BY <2>1, <2>2, <1>e
  <2>3. CASE parent' = [t \in Rows |-> IF t \in c.seen THEN Gone ELSE parent[t]]
    <3>1. /\ c.todo \in c.seen /\ c.seen \in SUBSET T!There
          /\ \A x \in T!There \ {c.todo} : x \in c.seen <=> parent[x] \in c.seen
      BY <2>1 DEF TodosKnown, T!Children
    <3> HIDE DEF c
    <3>2. T!There' = T!There \ c.seen /\ \A x \in T!There' : parent'[x] = parent[x]
      BY <1>0, <2>3 DEF T!There
    <3>3. T!TodosForest'
      <4>1. \A S \in (SUBSET T!There') \ {{}} :
               S \in (SUBSET T!There) \ {{}} /\ \A x \in S : parent'[x] = parent[x]
        BY <3>2
      <4> QED
        BY <4>1 DEF TodosSerial, T!TodosForest
    <3>4. T!Removed = c.seen
      BY <1>0, <2>3, <3>1 DEF T!Removed, T!There
    <3>5. c.seen = T!Below(c.todo)
      BY <3>1, TodosBelow
    <3>6. T!WholeSubtrees
      BY <3>1, <3>4, <3>5 DEF T!WholeSubtrees
    <3> QED
      BY <2>1, <3>3, <3>6, TodosDone DEF c
  <2> QED
    BY <1>9, <2>2, <2>3 DEF T!DeleteWrite
<1>10. CASE UNCHANGED T!vars
  <2>1. \A r \in Requests : TodosKnown(tcall[r])'
    BY <1>0, <1>10 DEF T!vars, TodosKnown, T!There, T!Children
  <2> QED
    BY <1>10, <2>1 DEF T!vars, TodosSerial, T!TodosForest, T!There, T!WholeSubtrees, T!Removed
<1> QED
  BY <1>1, <1>2, <1>3, <1>4, <1>5, <1>6, <1>7, <1>8, <1>9, <1>10 DEF T!Next

-----------------------------------------------------------------------------
\* The todos in MCPlans

TodosRun == part = "todos" => TodosInv /\ (calm => TodosSerial)

LEMMA TodosOneByOne == OneOf(tcall', T!Idle) /\ calm => TodosAlone'
<1> SUFFICES ASSUME OneOf(tcall', T!Idle), calm PROVE TodosAlone'
  OBVIOUS
<1> DEFINE Busy == {r \in Requests : tcall'[r] # T!Idle}
<1>1. IsFiniteSet(Busy) /\ Cardinality(Busy) <= 1
  BY RequestsAreFinite, FS_Subset DEF OneOf
<1>2. \A r, s \in Busy : r = s
  BY <1>1, AtMostOne
<1> QED
  BY <1>2, TodosIdle DEF TodosAlone

LEMMA TodosRunStep ==
    TodosRun /\ [PlansNext]_plansVars =>
       TodosRun' /\ (part = "todos" /\ calm => T!WholeSubtrees)
<1> SUFFICES ASSUME TodosRun, [PlansNext]_plansVars, part = "todos", part' = part, calm' = calm
             PROVE  TodosRun' /\ (calm => T!WholeSubtrees)
  BY PartSteps DEF TodosRun, plansVars
<1>1. [T!Next]_(T!vars) /\ (OneOf(tcall', T!Idle) \/ tcall' = tcall)
  BY PartSteps DEF plansVars, todoVars, T!vars
<1>2. TodosInv'
  BY <1>1, TodosStep DEF TodosRun
<1>3. calm => TodosAlone'
  BY <1>1, TodosOneByOne DEF TodosRun, TodosSerial, TodosAlone
<1>4. calm => TodosSerial' /\ T!WholeSubtrees
  BY <1>1, <1>3, TodosSerialStep DEF TodosRun
<1> QED
  BY <1>2, <1>4 DEF TodosRun

\* With one request at a time, some of which die, no todo is below itself and a
\* deletion takes a todo with all that is below it, and nothing else (_would_cycle and
\* _delete_subtree); types hold however requests overlap.
THEOREM TodosStayTree == PlansSpec => SerialTodosStayTree
<1>1. PlansInit => TodosRun
  BY TodosInit, TodosSerialInit DEF PlansInit, TodosRun
<1>2. TodosRun /\ [PlansNext]_plansVars =>
         [part = "todos" => T!TypeOK' /\ (calm => T!TodosForest' /\ T!WholeSubtrees)]_todoVars
  <2> SUFFICES ASSUME TodosRun, [PlansNext]_plansVars, part = "todos"
               PROVE  \/ UNCHANGED todoVars
                      \/ T!TypeOK' /\ (calm => T!TodosForest' /\ T!WholeSubtrees)
    OBVIOUS
  <2>1. TodosRun' /\ (calm => T!WholeSubtrees) /\ part' = part /\ calm' = calm
    BY TodosRunStep, PartSteps DEF plansVars
  <2> QED
    BY <2>1 DEF TodosRun, TodosInv, TodosSerial
<1> QED
  BY <1>1, <1>2, TodosRunStep, PTL DEF PlansSpec, SerialTodosStayTree, plansVars

-----------------------------------------------------------------------------
\* The order of rows

\* A finite set of integers has a highest member.
LEMMA HighestThere ==
    ASSUME NEW S \in SUBSET Int, IsFiniteSet(S), S # {}
    PROVE  \E m \in S : \A x \in S : x <= m
<1> DEFINE Bad == {X \in FiniteSubsetsOf(S) : X # {} /\ ~ \E m \in X : \A x \in X : x <= m}
<1>1. ASSUME Bad # {} PROVE FALSE
  <2>1. PICK X \in Bad : \A Y \in Bad : <<Y, X>> \notin StrictSubsetOrdering(S)
    <3>1. Bad \subseteq FiniteSubsetsOf(S)
      OBVIOUS
    <3> HIDE DEF Bad
    <3> QED
      BY <1>1, <3>1, FS_StrictSubsetOrderingWellFounded, WFMin
  <2>2. X \in SUBSET S /\ IsFiniteSet(X) /\ X # {} /\ ~ \E m \in X : \A x \in X : x <= m
    BY DEF FiniteSubsetsOf
  <2>3. PICK x \in X : TRUE
    BY <2>2
  <2>4. X \ {x} \notin Bad
    BY <2>1, <2>2 DEF StrictSubsetOrdering
  <2>5. IsFiniteSet(X \ {x})
    BY <2>2, FS_RemoveElement
  <2>6. X \ {x} = {} \/ \E m \in X \ {x} : \A y \in X \ {x} : y <= m
    BY <2>2, <2>4, <2>5 DEF FiniteSubsetsOf
  <2> QED
    BY <2>2, <2>6
<1> QED
  BY <1>1, FS_Subset DEF FiniteSubsetsOf

LEMMA OrderCounts == \A S : O!Cardinality(S) = Cardinality(S)
BY DEF O!Cardinality, Cardinality

LEMMA OrderHighest ==
    ASSUME pos \in [Positioned -> Int], there \in SUBSET Positioned
    PROVE  O!Highest \in Int /\ \A i \in there : pos[i] <= O!Highest
<1>0. CASE there = {}
  BY <1>0 DEF O!Highest
<1>a. CASE there # {}
  <2> DEFINE S == {pos[i] : i \in there}
             f == [i \in there |-> pos[i]]
  <2>1. IsFiniteSet(there)
    BY OrderingAssumption, FS_Subset
  <2>2. f \in Surjection(there, S)
    BY DEF Surjection
  <2>3. IsFiniteSet(S) /\ S \in SUBSET Int /\ S # {}
    BY <1>a, <2>1, <2>2, FS_Surjection
  <2> HIDE DEF S
  <2>4. \E m \in S : \A x \in S : x <= m
    BY <2>3, HighestThere
  <2>5. \E m \in S : \A x \in S : m >= x
    BY <2>3, <2>4
  <2>6. O!Max(S) \in S /\ \A x \in S : O!Max(S) >= x
    BY <2>5 DEF O!Max
  <2> QED
    BY <1>a, <2>3, <2>6 DEF O!Highest, S
<1> QED
  BY <1>0, <1>a

LEMMA OrderNext ==
    ASSUME pos \in [Positioned -> Int], there \in SUBSET Positioned
    PROVE  /\ O!NextPos \in Int /\ Cardinality(there) \in Nat
           /\ list = "todos" => O!NextPos = Cardinality(there)
           /\ list = "plan" => \A i \in there : pos[i] < O!NextPos
<1>1. O!Highest \in Int /\ \A i \in there : pos[i] <= O!Highest
  BY OrderHighest
<1>2. Cardinality(there) \in Nat
  BY OrderingAssumption, FS_Subset, FS_CardinalityType, OrderCounts
<1> QED
  BY <1>1, <1>2, OrderCounts DEF O!NextPos

OrderTyped ==
    /\ O!TypeOK
    /\ \A r \in Requests :
          ocall[r].at \in {"appending", "inserting", "placing"} => ocall[r].row \in Positioned

LEMMA OrderIdle == O!Idle \in O!Call /\ O!Idle.at = "idle" /\ O!Idle.row = 0
<1>1. << >> \in Seq(Positioned)
  OBVIOUS
<1> QED
  BY <1>1 DEF O!Idle, O!Call

LEMMA OrderTypedInit == O!Init => OrderTyped
<1> SUFFICES ASSUME O!Init PROVE OrderTyped
  OBVIOUS
<1>1. ocall \in [Requests -> O!Call] /\ \A r \in Requests : ocall[r].at = "idle"
  BY OrderIdle DEF O!Init
<1>2. pos \in [Positioned -> Int] /\ made = {} /\ there = {} /\ want = {} /\ byHand = FALSE
  BY DEF O!Init
<1>3. O!TypeOK
  <2>1. want \in SUBSET (Positioned \X Positioned)
    BY <1>2
  <2> QED
    BY <1>1, <1>2, <2>1 DEF O!Init, O!TypeOK
<1> QED
  BY <1>1, <1>3 DEF OrderTyped

\* A list of rows that names each of them once.
LEMMA OrderIds ==
    ASSUME there \in SUBSET Positioned, NEW ids \in O!SetToSeqs(there)
    PROVE  /\ ids \in Seq(Positioned)
           /\ \A m, n \in DOMAIN ids : ids[m] = ids[n] => m = n
           /\ there = O!Range(ids)
<1> DEFINE n == Cardinality(there)
<1>0. O!Cardinality(there) = n
  BY OrderCounts
<1>1. IsFiniteSet(there) /\ n \in Nat
  BY OrderingAssumption, FS_Subset, FS_CardinalityType, OrderCounts
<1>2. ids \in [1..n -> there] /\ \A i, j \in 1..n : i # j => ids[i] # ids[j]
  BY <1>0 DEF O!SetToSeqs
<1>3. ids \in Seq(Positioned)
  BY <1>1, <1>2
<1>4. ids \in Injection(1..n, there)
  BY <1>2 DEF Injection, IsInjective
<1>5. Cardinality(1..n) = n
  BY <1>1, FS_Interval
<1>6. ids \in Surjection(1..n, there)
  BY <1>1, <1>4, <1>5, FS_Injection
<1>7. there = O!Range(ids)
  BY <1>2, <1>6 DEF Surjection, O!Range
<1> QED
  BY <1>2, <1>3, <1>7

LEMMA OrderPlace ==
    ASSUME NEW c \in O!Call, NEW i \in O!Range(c.ids)
    PROVE  \E n \in DOMAIN c.ids : c.ids[n] = i /\ O!Place(c, i) = n - 1 /\ O!Place(c, i) \in Nat
<1>1. c.ids \in Seq(Positioned) /\ DOMAIN c.ids \subseteq Nat \ {0}
  BY DEF O!Call
<1>2. \E n \in DOMAIN c.ids : c.ids[n] = i
  BY DEF O!Range
<1>3. \E n \in DOMAIN c.ids : c.ids[n] = i /\ O!Place(c, i) = n - 1
  BY <1>2 DEF O!Place
<1> QED
  BY <1>1, <1>3

LEMMA OrderTypedStep == OrderTyped /\ [O!Next]_(O!vars) => OrderTyped'
<1> SUFFICES ASSUME OrderTyped, [O!Next]_(O!vars) PROVE OrderTyped'
  OBVIOUS
<1>0. /\ list \in {"plan", "todos"} /\ pos \in [Positioned -> Int]
      /\ made \in SUBSET Positioned /\ there \in SUBSET made /\ byHand \in BOOLEAN
      /\ want \in SUBSET (Positioned \X Positioned)
      /\ ocall \in [Requests -> O!Call]
      /\ \A r \in Requests :
            ocall[r].at \in {"appending", "inserting", "placing"} => ocall[r].row \in Positioned
  BY DEF OrderTyped, O!TypeOK
\* A request that becomes c, while the rows keep their types.
<1>1. ASSUME NEW r \in Requests, NEW c \in O!Call, ocall' = [ocall EXCEPT ![r] = c],
             c.at \in {"appending", "inserting", "placing"} => c.row \in Positioned,
             list' = list, made' \in SUBSET Positioned, there' \in SUBSET made',
             pos' \in [Positioned -> Int], want' \in SUBSET (Positioned \X Positioned),
             byHand' \in BOOLEAN
      PROVE  OrderTyped'
  BY <1>0, <1>1 DEF OrderTyped, O!TypeOK
<1>2. ASSUME NEW r \in Requests, NEW i \in Positioned, O!CreateRead(r, i) PROVE OrderTyped'
  <2> DEFINE c(b, n) == [O!Idle EXCEPT !.at = b, !.row = i, !.next = n]
  <2>1. O!NextPos \in Int /\ Numbers \subseteq Int
    BY <1>0, OrderNext, OrderingAssumption
  <2>2. \A b \in {"appending", "inserting"}, n \in Int : c(b, n) \in O!Call /\ c(b, n).row = i
    BY OrderIdle DEF O!Idle, O!Call
  <2>3. PICK b \in {"appending", "inserting"}, n \in Int : ocall' = [ocall EXCEPT ![r] = c(b, n)]
    BY <1>2, <2>1 DEF O!CreateRead
  <2> DEFINE d == c(b, n)
  <2>4. d \in O!Call /\ d.row = i /\ ocall' = [ocall EXCEPT ![r] = d]
    BY <2>2, <2>3
  <2> HIDE DEF d
  <2> QED
    BY <1>0, <1>1, <1>2, <2>4 DEF O!CreateRead
<1>3. ASSUME NEW r \in Requests, NEW ids \in O!SetToSeqs(there), O!ReorderRead(r, ids)
      PROVE  OrderTyped'
  <2> DEFINE c == [O!Idle EXCEPT !.at = "reordering", !.ids = ids, !.read = pos]
  <2>1. ids \in Seq(Positioned)
    BY <1>0, OrderIds
  <2>2. c \in O!Call /\ c.at = "reordering"
    BY <1>0, <2>1, OrderIdle DEF O!Idle, O!Call
  <2> QED
    BY <1>0, <1>1, <1>3, <2>2 DEF O!ReorderRead
<1>p. ASSUME NEW r \in Requests, NEW i \in Positioned, NEW n \in Numbers, O!PlaceRead(r, i, n)
      PROVE  OrderTyped'
  <2> DEFINE c == [O!Idle EXCEPT !.at = "placing", !.row = i, !.next = n, !.read = pos]
  <2>1. n \in Int
    BY OrderingAssumption
  <2>2. c \in O!Call /\ c.row = i
    BY <1>0, <2>1, OrderIdle DEF O!Idle, O!Call
  <2> QED
    BY <1>0, <1>1, <1>p, <2>2 DEF O!PlaceRead
<1>4. ASSUME NEW r \in Requests, O!CreateWrite(r) PROVE OrderTyped'
  <2>1. ocall[r] \in O!Call /\ ocall[r].row \in Positioned /\ ocall[r].next \in Int
    BY <1>0, <1>4 DEF O!CreateWrite, O!Call
  <2>2. /\ made' \in SUBSET Positioned /\ there' \in SUBSET made' /\ pos' \in [Positioned -> Int]
    BY <1>0, <1>4, <2>1 DEF O!CreateWrite
  <2>3. want' \in SUBSET (Positioned \X Positioned)
    BY <1>0, <1>4, <2>1, <2>2 DEF O!CreateWrite, O!Around, O!Listed
  <2> QED
    BY <1>0, <1>1, <1>4, <2>2, <2>3, OrderIdle DEF O!CreateWrite
<1>q. ASSUME NEW r \in Requests, O!PlaceWrite(r) PROVE OrderTyped'
  <2>1. ocall[r] \in O!Call /\ ocall[r].next \in Int
    BY <1>0 DEF O!Call
  <2>2. pos' \in [Positioned -> Int] /\ byHand' \in BOOLEAN
    BY <1>0, <1>q, <2>1 DEF O!PlaceWrite
  <2>3. want' \in SUBSET (Positioned \X Positioned)
    BY <1>0, <1>q DEF O!PlaceWrite, O!Around, O!Others, O!Listed
  <2> QED
    BY <1>0, <1>1, <1>q, <2>2, <2>3, OrderIdle DEF O!PlaceWrite
<1>5. ASSUME NEW r \in Requests, O!ReorderWrite(r) PROVE OrderTyped'
  <2> DEFINE c == ocall[r]
  <2>1. c \in O!Call /\ \A i \in O!Moved(c) : O!Place(c, i) \in Int
    BY <1>0, OrderPlace DEF O!Moved
  <2> HIDE DEF c
  <2>2. pos' \in [Positioned -> Int] /\ want' \in SUBSET (Positioned \X Positioned)
    BY <1>0, <1>5, <2>1 DEF O!ReorderWrite, c
  <2> QED
    BY <1>0, <1>1, <1>5, <2>2, OrderIdle DEF O!ReorderWrite
<1>6. ASSUME NEW i \in Positioned, O!DeleteRow(i) PROVE OrderTyped'
  BY <1>0, <1>6 DEF O!DeleteRow, O!Others, OrderTyped, O!TypeOK
<1>7. ASSUME NEW r \in Requests, O!Abort(r) PROVE OrderTyped'
  BY <1>0, <1>1, <1>7, OrderIdle DEF O!Abort
<1>8. CASE UNCHANGED O!vars
  BY <1>8 DEF O!vars, OrderTyped, O!TypeOK
<1> QED
  BY <1>2, <1>3, <1>p, <1>4, <1>q, <1>5, <1>6, <1>7, <1>8 DEF O!Next
-----------------------------------------------------------------------------
\* The order of rows, one request at a time

\* The lists for which the order is promised.
OrderMeant == list = "plan" \/ (there = made /\ ~byHand)

\* What a request knows of the rows between its steps, of which some may be deleted.
OrderKnown(c) ==
    /\ c.at \in {"appending", "inserting"} => c.row \notin made
    /\ c.at = "appending" =>
          /\ OrderMeant => \A i \in there : pos[i] < c.next
          /\ OrderMeant /\ list = "todos" => c.next = Cardinality(there)
    /\ c.at = "inserting" => list = "plan"
    /\ c.at = "placing" /\ c.row \in there => pos[c.row] = c.read[c.row]
    /\ c.at = "reordering" =>
          /\ list = "plan" /\ there \subseteq O!Range(c.ids)
          /\ \A m, n \in DOMAIN c.ids : c.ids[m] = c.ids[n] => m = n
          /\ \A i \in there : pos[i] = c.read[i]

OrderAlone == \A r, s \in Requests : ocall[r].at # "idle" /\ ocall[s].at # "idle" => r = s

OrderSerial ==
    /\ OrderTyped /\ OrderAlone /\ O!OrderIsAsAsked
    /\ want \subseteq there \X there
    /\ OrderMeant /\ list = "todos" => \A i \in there : pos[i] < Cardinality(there)
    /\ \A r \in Requests : OrderKnown(ocall[r])

LEMMA OrderSerialInit == O!Init => OrderSerial
<1> SUFFICES ASSUME O!Init PROVE OrderSerial
  OBVIOUS
<1>1. there = {} /\ want = {}
  BY DEF O!Init
<1>2. \A r \in Requests : ocall[r].at = "idle"
  BY OrderIdle DEF O!Init
<1> QED
  BY <1>1, <1>2, OrderTypedInit
     DEF OrderSerial, OrderAlone, O!OrderIsAsAsked, O!Listed, OrderKnown

\* One row gets a position; the others stay where they are.
LEMMA OrderAround ==
    ASSUME NEW i, there' = there \cup {i}, \A j \in there \ {i} : pos'[j] = pos[j],
           O!Listed = want, want' = O!Others(i, want) \cup O!Around(i, O!Listed')
    PROVE  O!Listed' = want'
<1> DEFINE Now(j, k) == pos'[j] < pos'[k] \/ (pos'[j] = pos'[k] /\ j < k)
<1>1. \A j, k \in there \ {i} : Now(j, k) <=> O!Before(j, k)
  BY DEF O!Before
<1>2. O!Listed' = {q \in there' \X there' : Now(q[1], q[2])}
  BY DEF O!Listed, O!Before
<1>3. want = {q \in there \X there : O!Before(q[1], q[2])}
  BY DEF O!Listed
<1> HIDE DEF Now
<1> QED
  BY <1>1, <1>2, <1>3 DEF O!Others, O!Around

\* A request that learns; the rows stay.
LEMMA OrderLearn ==
    ASSUME OrderSerial, OrderTyped', OrderAlone', NEW r \in Requests, NEW c,
           ocall' = [ocall EXCEPT ![r] = c],
           UNCHANGED <<list, made, there, pos, want, byHand>>, OrderKnown(c)
    PROVE  OrderSerial'
<1>1. O!Listed' = O!Listed /\ OrderMeant' = OrderMeant
  BY DEF O!Listed, O!Before, OrderMeant
<1>2. ASSUME NEW s \in Requests PROVE OrderKnown(ocall[s])'
  <2>1. ocall'[s] = c \/ ocall'[s] = ocall[s]
    BY DEF OrderSerial, OrderTyped, O!TypeOK
  <2>2. \A d : ocall'[s] = d /\ OrderKnown(d) => OrderKnown(ocall[s])'
    BY <1>1 DEF OrderKnown
  <2> QED
    BY <2>1, <2>2 DEF OrderSerial
<1> QED
  BY <1>1, <1>2 DEF OrderSerial, O!OrderIsAsAsked, OrderMeant

\* A request that ends leaves nobody who knows something.
LEMMA OrderDone ==
    ASSUME OrderSerial, NEW r \in Requests, ocall[r].at # "idle",
           ocall' = [ocall EXCEPT ![r] = O!Idle]
    PROVE  \A s \in Requests : OrderKnown(ocall[s])'
<1>1. \A s \in Requests : ocall'[s].at = "idle"
  BY OrderIdle DEF OrderSerial, OrderTyped, O!TypeOK, OrderAlone
<1> QED
  BY <1>1 DEF OrderKnown

LEMMA OrderSerialStep ==
    OrderSerial /\ [O!Next]_(O!vars) /\ OrderAlone' => OrderSerial'
<1> SUFFICES ASSUME OrderSerial, [O!Next]_(O!vars), OrderAlone' PROVE OrderSerial'
  OBVIOUS
<1>0. /\ list \in {"plan", "todos"} /\ pos \in [Positioned -> Int] /\ byHand \in BOOLEAN
      /\ made \in SUBSET Positioned /\ there \in SUBSET made
      /\ want \in SUBSET (Positioned \X Positioned)
      /\ ocall \in [Requests -> O!Call] /\ Positioned \subseteq Int
      /\ \A r \in Requests :
            ocall[r].at \in {"appending", "inserting", "placing"} => ocall[r].row \in Positioned
      /\ \A r \in Requests : OrderKnown(ocall[r])
      /\ want \subseteq there \X there
      /\ OrderTyped' /\ IsFiniteSet(there)
  <2>1. OrderTyped'
    BY OrderTypedStep DEF OrderSerial
  <2>2. IsFiniteSet(there)
    BY OrderingAssumption, FS_Subset DEF OrderSerial, OrderTyped, O!TypeOK
  <2> QED
    BY <2>1, <2>2, OrderingAssumption DEF OrderSerial, OrderTyped, O!TypeOK
<1>i. OrderKnown(O!Idle)
  BY OrderIdle DEF OrderKnown
<1>2. ASSUME NEW r \in Requests, NEW i \in Positioned, O!CreateRead(r, i) PROVE OrderSerial'
  <2>1. i \notin made /\ UNCHANGED <<list, made, there, pos, want, byHand>>
    BY <1>2 DEF O!CreateRead
  <2>2. ASSUME NEW c, ocall' = [ocall EXCEPT ![r] = c], c.row = i,
               \/ c.at = "appending" /\ c.next = O!NextPos
               \/ c.at = "inserting" /\ list = "plan"
        PROVE  OrderSerial'
    <3>1. /\ list = "todos" => O!NextPos = Cardinality(there)
          /\ list = "plan" => \A j \in there : pos[j] < O!NextPos
      BY <1>0, OrderNext
    <3>2. OrderMeant /\ list = "todos" => \A j \in there : pos[j] < Cardinality(there)
      BY DEF OrderSerial
    <3>3. OrderKnown(c)
      BY <1>0, <2>1, <2>2, <3>1, <3>2 DEF OrderKnown
    <3> QED
      BY <1>0, <2>1, <2>2, <3>3, OrderLearn
  <2>3. CASE ocall' = [ocall EXCEPT ![r] = [O!Idle EXCEPT !.at = "appending", !.row = i,
                                                         !.next = O!NextPos]]
    <3> DEFINE c == [O!Idle EXCEPT !.at = "appending", !.row = i, !.next = O!NextPos]
    <3>1. c.at = "appending" /\ c.row = i /\ c.next = O!NextPos
      BY DEF O!Idle
    <3> QED
      BY <2>2, <2>3, <3>1
  <2>4. ASSUME list = "plan", NEW n \in Numbers,
               ocall' = [ocall EXCEPT ![r] = [O!Idle EXCEPT !.at = "inserting", !.row = i, !.next = n]]
        PROVE  OrderSerial'
    <3> DEFINE c == [O!Idle EXCEPT !.at = "inserting", !.row = i, !.next = n]
    <3>1. c.at = "inserting" /\ c.row = i
      BY DEF O!Idle
    <3> QED
      BY <2>2, <2>4, <3>1
  <2> QED
    BY <1>2, <2>3, <2>4 DEF O!CreateRead
<1>3. ASSUME NEW r \in Requests, NEW ids \in O!SetToSeqs(there), O!ReorderRead(r, ids)
      PROVE  OrderSerial'
  <2> DEFINE c == [O!Idle EXCEPT !.at = "reordering", !.ids = ids, !.read = pos]
  <2>1. c.at = "reordering" /\ c.ids = ids /\ c.read = pos
    BY DEF O!Idle
  <2>2. OrderKnown(c)
    BY <1>0, <1>3, <2>1, OrderIds DEF O!ReorderRead, OrderKnown
  <2> QED
    BY <1>0, <1>3, <2>2, OrderLearn DEF O!ReorderRead
<1>p. ASSUME NEW r \in Requests, NEW i \in Positioned, NEW n \in Numbers, O!PlaceRead(r, i, n)
      PROVE  OrderSerial'
  <2> DEFINE c == [O!Idle EXCEPT !.at = "placing", !.row = i, !.next = n, !.read = pos]
  <2>1. c.at = "placing" /\ c.row = i /\ c.read = pos
    BY DEF O!Idle
  <2>2. OrderKnown(c)
    BY <2>1 DEF OrderKnown
  <2> QED
    BY <1>0, <1>p, <2>2, OrderLearn DEF O!PlaceRead
<1>4. ASSUME NEW r \in Requests, O!CreateWrite(r) PROVE OrderSerial'
  <2> DEFINE i == ocall[r].row
             p == ocall[r].next
  <2>1. /\ ocall[r].at \in {"appending", "inserting"} /\ ocall' = [ocall EXCEPT ![r] = O!Idle]
        /\ UNCHANGED <<list, byHand>> /\ made' = made \cup {i} /\ there' = there \cup {i}
        /\ pos' = [pos EXCEPT ![i] = p]
        /\ want' = want \cup IF ocall[r].at = "appending" THEN there \X {i}
                                                        ELSE O!Around(i, O!Listed')
    BY <1>4 DEF O!CreateWrite
  <2>2. /\ i \in Positioned /\ i \notin made /\ p \in Int
        /\ ocall[r].at = "appending" =>
              /\ OrderMeant => \A j \in there : pos[j] < p
              /\ OrderMeant /\ list = "todos" => p = Cardinality(there)
        /\ ocall[r].at = "inserting" => list = "plan"
    BY <1>0, <2>1 DEF OrderKnown, O!Call
  <2> HIDE DEF i, p
  <2>3. /\ i \notin there /\ pos'[i] = p /\ \A j \in there : pos'[j] = pos[j]
        /\ OrderMeant' => OrderMeant
    BY <1>0, <2>1, <2>2 DEF OrderMeant
  <2>4. Cardinality(there') = Cardinality(there) + 1 /\ Cardinality(there) \in Nat
    BY <1>0, <2>1, <2>3, FS_AddElement, FS_CardinalityType
  <2>a. ASSUME ocall[r].at = "appending", OrderMeant' PROVE O!Listed' = want'
    <3>1. want = O!Listed /\ \A j \in there : pos[j] < p
      BY <2>2, <2>3, <2>a DEF OrderSerial, O!OrderIsAsAsked, OrderMeant
    <3> DEFINE Now(j, k) == pos'[j] < pos'[k] \/ (pos'[j] = pos'[k] /\ j < k)
    <3>2. there \subseteq Int /\ i \in Int /\ \A j \in there : pos'[j] \in Int
      BY <1>0, <2>2, <2>3
    <3>3. /\ \A j, k \in there : Now(j, k) <=> O!Before(j, k)
          /\ \A j \in there : Now(j, i) /\ ~Now(i, j)
          /\ ~Now(i, i)
      BY <2>2, <2>3, <3>1, <3>2 DEF O!Before
    <3>4. O!Listed' = {q \in there' \X there' : Now(q[1], q[2])}
      BY DEF O!Listed, O!Before
    <3>5. want' = want \cup (there \X {i})
      BY <2>1, <2>a
    <3> HIDE DEF Now
    <3> QED
      BY <2>1, <2>3, <3>1, <3>3, <3>4, <3>5 DEF O!Listed
  <2>b. ASSUME ocall[r].at = "inserting" PROVE O!Listed' = want'
    <3>1. list = "plan" /\ want = O!Listed
      BY <2>2, <2>b DEF OrderSerial, O!OrderIsAsAsked
    <3>2. want' = want \cup O!Around(i, O!Listed')
      BY <2>1, <2>b
    <3>3. O!Others(i, want) = want
      BY <1>0, <2>3 DEF O!Others
    <3> QED
      BY <2>1, <2>3, <3>1, <3>2, <3>3, OrderAround
  <2>5. OrderMeant' => O!Listed' = want'
    BY <2>1, <2>a, <2>b
  <2>6. OrderMeant' /\ list' = "todos" => \A j \in there' : pos'[j] < Cardinality(there')
    BY <1>0, <2>1, <2>2, <2>3, <2>4 DEF OrderSerial
  <2>7. want' \subseteq there' \X there'
    BY <1>0, <2>1, <2>3 DEF O!Around, O!Listed
  <2> QED
    BY <1>0, <2>1, <2>5, <2>6, <2>7, OrderDone DEF OrderSerial, O!OrderIsAsAsked, OrderMeant
<1>q. ASSUME NEW r \in Requests, O!PlaceWrite(r) PROVE OrderSerial'
  <2> DEFINE i == ocall[r].row
             p == ocall[r].next
  <2>1. /\ ocall[r].at = "placing" /\ ocall' = [ocall EXCEPT ![r] = O!Idle]
        /\ UNCHANGED <<list, made, there>> /\ p \in Int
    BY <1>0, <1>q DEF O!PlaceWrite, O!Call
  <2>2. CASE i \notin there
    BY <1>0, <1>i, <1>q, <2>1, <2>2, OrderLearn DEF O!PlaceWrite
  <2>3. CASE i \in there
    <3>1. /\ pos' = IF ocall[r].read[i] = p THEN pos ELSE [pos EXCEPT ![i] = p]
          /\ want' = O!Others(i, want) \cup O!Around(i, O!Listed')
          /\ byHand' = (byHand \/ list = "todos")
      BY <1>q, <2>3 DEF O!PlaceWrite
    <3> HIDE DEF i, p
    <3>2. there' = there \cup {i} /\ \A j \in there \ {i} : pos'[j] = pos[j]
      BY <1>0, <2>1, <2>3, <3>1
    <3>3. list # "plan" => ~OrderMeant'
      BY <1>0, <2>1, <3>1 DEF OrderMeant
    <3>4. list = "plan" => O!Listed' = want'
      BY <3>1, <3>2, OrderAround DEF OrderSerial, O!OrderIsAsAsked
    <3>5. want' \subseteq there' \X there'
      BY <1>0, <2>1, <3>1 DEF O!Others, O!Around, O!Listed
    <3> QED
      BY <1>0, <2>1, <3>3, <3>4, <3>5, OrderDone DEF OrderSerial, O!OrderIsAsAsked, OrderMeant
  <2> QED
    BY <2>2, <2>3
<1>5. ASSUME NEW r \in Requests, O!ReorderWrite(r) PROVE OrderSerial'
  <2> DEFINE c == ocall[r]
             known == there \cap O!Range(c.ids)
  <2>1. /\ c \in O!Call /\ c.at = "reordering" /\ ocall' = [ocall EXCEPT ![r] = O!Idle]
        /\ UNCHANGED <<list, made, there, byHand>> /\ list = "plan" /\ known = there
        /\ \A m, n \in DOMAIN c.ids : c.ids[m] = c.ids[n] => m = n
        /\ \A i \in there : pos[i] = c.read[i]
    BY <1>0, <1>5 DEF O!ReorderWrite, OrderKnown
  <2>2. CASE UNCHANGED <<pos, want>>
    BY <1>0, <1>i, <2>1, <2>2, OrderLearn
  <2>3. CASE /\ O!Moved(c) \subseteq there
             /\ pos' = [i \in Positioned |-> IF i \in O!Moved(c) THEN O!Place(c, i) ELSE pos[i]]
             /\ want' = {p \in known \X known : O!Place(c, p[1]) < O!Place(c, p[2])}
    <3>1. /\ \A i \in O!Range(c.ids) : O!Place(c, i) \in Nat
          /\ \A i, j \in O!Range(c.ids) : O!Place(c, i) = O!Place(c, j) => i = j
      <4> HIDE DEF c
      <4>1. ASSUME NEW i \in O!Range(c.ids), NEW j \in O!Range(c.ids), O!Place(c, i) = O!Place(c, j)
            PROVE  i = j
        <5>1. PICK m \in DOMAIN c.ids : c.ids[m] = i /\ O!Place(c, i) = m - 1
          BY <2>1, OrderPlace
        <5>2. PICK n \in DOMAIN c.ids : c.ids[n] = j /\ O!Place(c, j) = n - 1
          BY <2>1, OrderPlace
        <5>3. DOMAIN c.ids \subseteq Int
          BY <2>1 DEF O!Call
        <5>4. m \in Int /\ n \in Int /\ m - 1 = n - 1
          BY <4>1, <5>1, <5>2, <5>3
        <5>5. m = n
          BY <5>4
        <5> QED
          BY <5>1, <5>2, <5>5
      <4> QED
        BY <2>1, <4>1, OrderPlace
    <3> HIDE DEF c
    <3>2. O!Moved(c) \subseteq O!Range(c.ids) /\ there \subseteq O!Range(c.ids)
      BY <2>1 DEF O!Moved
    <3>3. \A i \in there : pos'[i] = O!Place(c, i)
      BY <1>0, <2>1, <2>3, <3>1, <3>2 DEF O!Moved
    <3>4. O!Listed' = want'
      <4>1. \A i, j \in there : O!Before(i, j)' <=> O!Place(c, i) < O!Place(c, j)
        BY <1>0, <3>1, <3>2, <3>3 DEF O!Before
      <4> QED
        BY <2>1, <2>3, <4>1 DEF O!Listed
    <3>5. want' \subseteq there' \X there' /\ list' # "todos"
      BY <2>1, <2>3
    <3> QED
      BY <1>0, <2>1, <3>4, <3>5, OrderDone DEF OrderSerial, O!OrderIsAsAsked, c
  <2> QED
    BY <1>5, <2>2, <2>3 DEF O!ReorderWrite
<1>6. ASSUME NEW i \in Positioned, O!DeleteRow(i) PROVE OrderSerial'
  <2>1. /\ i \in there /\ there' = there \ {i} /\ pos' = [pos EXCEPT ![i] = 0]
        /\ UNCHANGED <<list, made, byHand, ocall>>
        /\ want' = {p \in want : i \notin {p[1], p[2]}}
    BY <1>6 DEF O!DeleteRow, O!Others
  <2>2. /\ \A j \in Positioned \ {i} : pos'[j] = pos[j]
        /\ OrderMeant' => list = "plan"
    BY <1>0, <2>1 DEF OrderMeant
  <2>3. OrderMeant' => O!Listed' = want'
    <3>1. \A j, k \in there' : O!Before(j, k)' <=> O!Before(j, k)
      BY <1>0, <2>1, <2>2 DEF O!Before
    <3>2. list = "plan" => want = O!Listed
      BY DEF OrderSerial, O!OrderIsAsAsked
    <3> QED
      BY <2>1, <2>2, <3>1, <3>2 DEF O!Listed
  <2>4. ASSUME NEW r \in Requests PROVE OrderKnown(ocall[r])'
    <3>1. OrderKnown(ocall[r]) /\ ocall'[r] = ocall[r]
      BY <1>0, <2>1
    <3>2. OrderMeant' => OrderMeant /\ list # "todos"
      BY <2>2 DEF OrderMeant
    <3>3. \A j \in there' : j \in there /\ pos'[j] = pos[j]
      BY <1>0, <2>1, <2>2
    <3> QED
      BY <1>0, <2>1, <2>2, <3>1, <3>2, <3>3 DEF OrderKnown
  <2>5. want' \subseteq there' \X there'
    BY <1>0, <2>1
  <2>6. OrderMeant' => list' # "todos"
    BY <2>1, <2>2
  <2> QED
    BY <1>0, <2>3, <2>4, <2>5, <2>6 DEF OrderSerial, O!OrderIsAsAsked, OrderMeant
<1>7. ASSUME NEW r \in Requests, O!Abort(r) PROVE OrderSerial'
  BY <1>0, <1>i, <1>7, OrderLearn DEF O!Abort
<1>8. CASE UNCHANGED O!vars
  <2>1. O!Listed' = O!Listed /\ OrderMeant' = OrderMeant
    BY <1>8 DEF O!vars, O!Listed, O!Before, OrderMeant
  <2>2. \A r \in Requests : OrderKnown(ocall[r])'
    BY <1>0, <1>8, <2>1 DEF O!vars, OrderKnown
  <2> QED
    BY <1>0, <1>8, <2>1, <2>2 DEF O!vars, OrderSerial, O!OrderIsAsAsked, OrderMeant
<1> QED
  BY <1>2, <1>3, <1>p, <1>4, <1>q, <1>5, <1>6, <1>7, <1>8 DEF O!Next

-----------------------------------------------------------------------------
\* The order of rows in MCPlans

OrderRun == part = "ordering" => OrderTyped /\ (calm => OrderSerial)

LEMMA OrderOneByOne == OneOf(ocall', O!Idle) /\ calm => OrderAlone'
<1> SUFFICES ASSUME OneOf(ocall', O!Idle), calm PROVE OrderAlone'
  OBVIOUS
<1> DEFINE Busy == {r \in Requests : ocall'[r] # O!Idle}
<1>1. IsFiniteSet(Busy) /\ Cardinality(Busy) <= 1
  BY RequestsAreFinite, FS_Subset DEF OneOf
<1>2. \A r, s \in Busy : r = s
  BY <1>1, AtMostOne
<1> QED
  BY <1>2, OrderIdle DEF OrderAlone

LEMMA OrderRunStep == OrderRun /\ [PlansNext]_plansVars => OrderRun'
<1> SUFFICES ASSUME OrderRun, [PlansNext]_plansVars, part = "ordering", part' = part, calm' = calm
             PROVE  OrderRun'
  BY PartSteps DEF OrderRun, plansVars
<1>1. [O!Next]_(O!vars) /\ (OneOf(ocall', O!Idle) \/ ocall' = ocall)
  BY PartSteps DEF plansVars, orderVars, O!vars
<1>2. OrderTyped'
  BY <1>1, OrderTypedStep DEF OrderRun
<1>3. calm => OrderAlone'
  BY <1>1, OrderOneByOne DEF OrderRun, OrderSerial, OrderAlone
<1>4. calm => OrderSerial'
  BY <1>1, <1>3, OrderSerialStep DEF OrderRun
<1> QED
  BY <1>2, <1>4 DEF OrderRun

\* With one request at a time, some of which die, and deletions in between, a list shows
\* a row that was given a number where that number puts it, any other new row at its
\* end and the rest as it was last arranged (create_task, update_task and
\* apply_reorder; of todos, as long as none is deleted or given a number); types hold
\* however requests overlap.
THEOREM OrderStaysAsAsked == PlansSpec => []SerialOrderIsAsAsked
<1>1. PlansInit => OrderRun
  BY OrderTypedInit, OrderSerialInit DEF PlansInit, OrderRun
<1>2. OrderRun => SerialOrderIsAsAsked
  BY DEF OrderRun, OrderTyped, OrderSerial, SerialOrderIsAsAsked
<1> QED
  BY <1>1, <1>2, OrderRunStep, PTL DEF PlansSpec, plansVars

=============================================================================
