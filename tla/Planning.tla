------------------------------ MODULE Planning -------------------------------
(***************************************************************************)
(* The rows of a plan that refer to each other: tasks with their sub-tasks *)
(* (services/task_service.py), phases with their stages (phase_service,    *)
(* stage_service), milestones and the other rows that sit in a phase       *)
(* (milestone_service), and the custom statuses all of them may have       *)
(* (status_option_service).                                                *)
(*                                                                         *)
(* Every operation reads the rows its checks need, then writes and commits *)
(* in one transaction; foreign keys hold at the write.  The ORM writes the *)
(* columns that differ from what was read, and the update of a row that is *)
(* gone fails.                                                             *)
(***************************************************************************)
EXTENDS Naturals, FiniteSets

CONSTANTS
    Tasks,      \* ids of tasks
    Notes,      \* ids of milestones, which have a phase and a status only
    Phases, Stages,
    Keys,       \* keys of custom statuses
    Requests,   \* requests served at the same time
    NoId        \* a reference that is NULL

VARIABLES
    item,       \* rows of tasks and milestones
    phases,     \* the phases there are
    stageOf,    \* the phase of each stage, NoId for one that does not exist
    options,    \* rows of statusoption
    call        \* what each request is doing

vars == <<item, phases, stageOf, options, call>>

Items == Tasks \cup Notes
Refs(S) == S \cup {NoId}
Statuses == Keys \cup {"backlog"}        \* of the built-in ones, one will do

\* A custom status is of one kind of rows.
Customs == {"task", "milestone"} \X Keys
Kind(i) == IF i \in Tasks THEN "task" ELSE "milestone"

Row == [state : {"none", "live", "gone"}, parent : Refs(Tasks),
        phase : Refs(Phases), stage : Refs(Stages), status : Statuses]

Blank == [state |-> "none", parent |-> NoId, phase |-> NoId, stage |-> NoId,
          status |-> "backlog"]

\* "id" is what the request works on, "old" the row it has read and "new" the
\* one it wants; "kids" and "staged" are the rows a deletion has read, "gone" the
\* stages it will delete.
Call == [at : {"idle", "creating", "updating", "deleting", "clearing",
               "staging", "adding", "dropping"},
         id : Items \cup Phases \cup Stages \cup Customs \cup {NoId},
         old : Row, new : Row, kids : SUBSET Items, staged : SUBSET Items,
         gone : SUBSET Stages]

Idle == [at |-> "idle", id |-> NoId, old |-> Blank, new |-> Blank,
         kids |-> {}, staged |-> {}, gone |-> {}]

TypeOK ==
    /\ item \in [Items -> Row]
    /\ phases \subseteq Phases
    /\ stageOf \in [Stages -> Refs(Phases)]
    /\ options \subseteq Customs
    /\ call \in [Requests -> Call]

Init ==
    /\ item = [i \in Items |-> Blank]
    /\ phases = {}
    /\ stageOf = [s \in Stages |-> NoId]
    /\ options = {}
    /\ call = [r \in Requests |-> Idle]

Live == {i \in Items : item[i].state = "live"}
StagesLive == {s \in Stages : stageOf[s] # NoId}
Fresh(id) == \A r \in Requests : call[r].id # id

Begin(r, stage, id) == call[r] = Idle /\ call' = [call EXCEPT ![r] =
                           [Idle EXCEPT !.at = stage, !.id = id]]
End(r) == call' = [call EXCEPT ![r] = Idle]

-----------------------------------------------------------------------------
\* The checks of create_task and update_task.

\* _validate_parent_task: another task of the project, without a parent itself.
ParentOk(i, x) ==
    x.parent # NoId => /\ x.parent \in Live \ {i}
                       /\ item[x.parent].parent = NoId

PlaceOk(x) == x.phase \in Refs(phases) /\ x.stage \in Refs(StagesLive)

\* Asked only by update_task, of the row as it will be.
PairOk(x) == x.phase # NoId /\ x.stage # NoId => stageOf[x.stage] = x.phase

StatusOk(i, x) == x.status = "backlog" \/ <<Kind(i), x.status>> \in options

\* What the foreign keys ask of the row at its write.
KeysOk(x) ==
    /\ x.parent \in Refs(Live)
    /\ PlaceOk(x)

IsNote(x) == x.parent = NoId /\ x.stage = NoId

CreateTask(r, i, x) ==
    /\ item[i].state = "none" /\ Fresh(i)
    /\ StatusOk(i, x) /\ ParentOk(i, x) /\ PlaceOk(x)
    /\ call[r] = Idle
    /\ call' = [call EXCEPT ![r] = [Idle EXCEPT !.at = "creating", !.id = i, !.new = x]]
    /\ UNCHANGED <<item, phases, stageOf, options>>

CreateMilestone(r, i, x) == IsNote(x) /\ CreateTask(r, i, x)

CreateWrite(r) ==
    LET c == call[r] IN
    /\ c.at = "creating"
    /\ item' = IF KeysOk(c.new) THEN [item EXCEPT ![c.id] = c.new] ELSE item
    /\ End(r)
    /\ UNCHANGED <<phases, stageOf, options>>

\* A PATCH of the parent, of the place (phase, stage or both), or of the status.
Patched(old, x) ==
    \/ x = [old EXCEPT !.parent = x.parent]
    \/ x = [old EXCEPT !.phase = x.phase, !.stage = x.stage]
    \/ x = [old EXCEPT !.status = x.status]

UpdateTask(r, i, x) ==
    /\ i \in Live
    /\ Patched(item[i], x)
    /\ x.status # item[i].status => StatusOk(i, x)
    /\ x.parent # item[i].parent => ParentOk(i, x)
    /\ PlaceOk(x) /\ PairOk(x)
    /\ call[r] = Idle
    /\ call' = [call EXCEPT ![r] = [Idle EXCEPT !.at = "updating", !.id = i,
                                      !.old = item[i], !.new = x]]
    /\ UNCHANGED <<item, phases, stageOf, options>>

UpdateMilestone(r, i, x) == IsNote(x) /\ UpdateTask(r, i, x)

\* The row with the columns the request has changed.
Written(row, c) ==
    [f \in DOMAIN row |-> IF c.new[f] # c.old[f] THEN c.new[f] ELSE row[f]]

UpdateWrite(r) ==
    LET c == call[r]
        row == Written(item[c.id], c)
    IN  /\ c.at = "updating"
        /\ item' = IF c.id \in Live /\ KeysOk(row) THEN [item EXCEPT ![c.id] = row]
                                                   ELSE item
        /\ End(r)
        /\ UNCHANGED <<phases, stageOf, options>>

-----------------------------------------------------------------------------
\* Deletions

Children(i) == {k \in Live : item[k].parent = i}

\* delete_task reads the sub-tasks; a milestone has none.
DeleteRead(r, i) ==
    /\ i \in Live
    /\ call[r] = Idle
    /\ call' = [call EXCEPT ![r] = [Idle EXCEPT !.at = "deleting", !.id = i,
                                      !.kids = Children(i)]]
    /\ UNCHANGED <<item, phases, stageOf, options>>

\* Every row that was read must still be there, and none that refers to the
\* task may have come.
Deletable(c) ==
    /\ c.kids \subseteq Live
    /\ \A k \in Live \ c.kids : item[k].parent # c.id

\* The sub-tasks become top-level tasks.
DeleteWrite(r) ==
    LET c == call[r] IN
    /\ c.at = "deleting"
    /\ item' = IF Deletable(c)
                 THEN [i \in Items |->
                         IF i = c.id THEN [item[i] EXCEPT !.state = "gone"]
                         ELSE IF i \in c.kids THEN [item[i] EXCEPT !.parent = NoId]
                         ELSE item[i]]
                 ELSE item
    /\ End(r)
    /\ UNCHANGED <<phases, stageOf, options>>

\* delete_phase reads the rows in the phase and its stages.
ClearRead(r, p) ==
    LET kids == {i \in Live : item[i].phase = p} IN
    /\ p \in phases
    /\ call[r] = Idle
    /\ call' = [call EXCEPT ![r] =
           [Idle EXCEPT !.at = "clearing", !.id = p, !.kids = kids,
                        !.staged = {i \in kids : item[i].stage # NoId},
                        !.gone = {s \in Stages : stageOf[s] = p}]]
    /\ UNCHANGED <<item, phases, stageOf, options>>

\* The rows as the deletion of the phase leaves them.
Cleared(c) ==
    [i \in Items |->
       [item[i] EXCEPT !.phase = IF i \in c.kids THEN NoId ELSE @,
                       !.stage = IF i \in c.staged THEN NoId ELSE @]]

Clearable(c) ==
    /\ c.kids \subseteq Live
    /\ \A i \in Live : /\ Cleared(c)[i].phase # c.id
                       /\ Cleared(c)[i].stage \notin c.gone
    /\ \A s \in Stages \ c.gone : stageOf[s] # c.id

ClearWrite(r) ==
    LET c == call[r] IN
    /\ c.at = "clearing"
    /\ IF Clearable(c)
         THEN /\ item' = Cleared(c)
              /\ phases' = phases \ {c.id}
              /\ stageOf' = [s \in Stages |-> IF s \in c.gone THEN NoId ELSE stageOf[s]]
         ELSE UNCHANGED <<item, phases, stageOf>>
    /\ End(r)
    /\ UNCHANGED options

-----------------------------------------------------------------------------
\* Phases, stages and custom statuses

CreatePhase(p) ==
    /\ p \notin phases /\ Fresh(p)
    /\ phases' = phases \cup {p}
    /\ UNCHANGED <<item, stageOf, options, call>>

StageRead(r, s, p) ==
    /\ stageOf[s] = NoId /\ Fresh(s)
    /\ p \in phases
    /\ call[r] = Idle
    /\ call' = [call EXCEPT ![r] = [Idle EXCEPT !.at = "staging", !.id = s,
                                      !.new = [Blank EXCEPT !.phase = p]]]
    /\ UNCHANGED <<item, phases, stageOf, options>>

StageWrite(r) ==
    LET c == call[r] IN
    /\ c.at = "staging"
    /\ stageOf' = IF c.new.phase \in phases THEN [stageOf EXCEPT ![c.id] = c.new.phase]
                                            ELSE stageOf
    /\ End(r)
    /\ UNCHANGED <<item, phases, options>>

\* The key must be new when it is read, and the unique index asks again.
OptionRead(r, o) ==
    /\ o \notin options
    /\ Begin(r, "adding", o)
    /\ UNCHANGED <<item, phases, stageOf, options>>

OptionWrite(r) ==
    /\ call[r].at = "adding"
    /\ options' = options \cup {call[r].id}
    /\ End(r)
    /\ UNCHANGED <<item, phases, stageOf>>

\* Mutant: only tasks are asked whether they have the status.
UsersOfTasks(o) == {i \in Live \cap Tasks : item[i].status = o[2]}

\* _usage_count
UsersOf(o) == {i \in Live : <<Kind(i), item[i].status>> = o}

DropRead(r, o) ==
    /\ o \in options
    /\ UsersOf(o) = {}
    /\ Begin(r, "dropping", o)
    /\ UNCHANGED <<item, phases, stageOf, options>>

DropWrite(r) ==
    /\ call[r].at = "dropping"
    /\ options' = options \ {call[r].id}
    /\ End(r)
    /\ UNCHANGED <<item, phases, stageOf>>

Abort(r) ==
    /\ call[r] # Idle
    /\ End(r)
    /\ UNCHANGED <<item, phases, stageOf, options>>

-----------------------------------------------------------------------------
\* The steps of requests that ask for rows of the set X.
Asking(X) ==
    \/ \E r \in Requests :
          \/ \E i \in Tasks, x \in X : CreateTask(r, i, x) \/ UpdateTask(r, i, x)
          \/ \E i \in Notes, x \in X : CreateMilestone(r, i, x) \/ UpdateMilestone(r, i, x)
          \/ \E i \in Items : DeleteRead(r, i)
          \/ \E p \in Phases : ClearRead(r, p)
          \/ \E s \in Stages, p \in Phases : StageRead(r, s, p)
          \/ \E o \in Customs : OptionRead(r, o) \/ DropRead(r, o)
          \/ CreateWrite(r) \/ UpdateWrite(r) \/ DeleteWrite(r) \/ ClearWrite(r)
          \/ StageWrite(r) \/ OptionWrite(r) \/ DropWrite(r)
          \/ Abort(r)
    \/ \E p \in Phases : CreatePhase(p)

Next == Asking({x \in Row : x.state = "live"})

Spec == Init /\ [][Next]_vars

-----------------------------------------------------------------------------
\* Properties

\* No row has a status that is not defined (one request at a time: delete asks
\* all rows, create and update ask the options).
StatusesDefined == \A i \in Live : StatusOk(i, item[i])

\* No task is its own ancestor (one request at a time): a task moves only under
\* one that has no parent, so no circle is ever closed.
TasksForest ==
    \A S \in (SUBSET (Live \cap Tasks)) \ {{}} : \E t \in S : item[t].parent \notin S

\* A row with a stage of the phase that is not in the phase, which update_task
\* and create_task allow.
Strays(p) == {i \in Live : item[i].stage # NoId /\ item[i].phase # p
                             /\ stageOf[item[i].stage] = p}

\* Whatever calls came before, a task can be deleted, and a phase too unless a
\* row stands in one of its stages without standing in it (one request at a
\* time): no foreign key refuses the deletion.
DeletionsSucceed ==
    \A r \in Requests :
       /\ call[r].at = "deleting" => Deletable(call[r])
       /\ call[r].at = "clearing" => Clearable(call[r]) \/ Strays(call[r].id) # {}

=============================================================================
