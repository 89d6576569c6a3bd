------------------------------ MODULE Ordering -------------------------------
(***************************************************************************)
(* The order people give to rows of a plan: the column sort_order.  A      *)
(* creation sets it behind all others or to the caller's number            *)
(* (create_phase, create_stage, create_task), an update may set it to any  *)
(* number, and services/planning_reorder.py renumbers a whole list.  Lists *)
(* are read ORDER BY sort_order and an id.  Todos are numbered by their    *)
(* count and cannot be renumbered; checklist items, which are only created *)
(* and deleted, behave like a plan whose first number is 0.  Milestones,   *)
(* events, decisions, risks and documents start at 0 and are not meant.    *)
(***************************************************************************)
EXTENDS Integers, Sequences, FiniteSets, SequencesExt

CONSTANTS
    Rows,       \* ids; their order is the tie-break of the lists
    Numbers,    \* positions that callers give, of all integers
    Requests    \* requests served at the same time

VARIABLES
    list,       \* "plan" or "todos": how a creation finds its position
    made,       \* the rows that were ever created
    there,      \* the rows that are stored
    pos,        \* sort_order of each row
    want,       \* history: the order people asked for, as pairs (first, later)
    byHand,     \* history: somebody gave a todo a position
    call        \* what each request is doing

vars == <<list, made, there, pos, want, byHand, call>>

Call == [at : {"idle", "appending", "inserting", "placing", "reordering"}, row : Rows \cup {0},
         next : Int, ids : Seq(Rows), read : [Rows -> Int]]

Idle == [at |-> "idle", row |-> 0, next |-> 0, ids |-> << >>, read |-> [i \in Rows |-> 0]]

TypeOK ==
    /\ list \in {"plan", "todos"}
    /\ made \in SUBSET Rows /\ there \in SUBSET made
    /\ pos \in [Rows -> Int]
    /\ want \in SUBSET (Rows \X Rows)
    /\ byHand \in BOOLEAN
    /\ call \in [Requests -> Call]

Init ==
    /\ list \in {"plan", "todos"}
    /\ made = {} /\ there = {}
    /\ pos = [i \in Rows |-> 0]
    /\ want = {}
    /\ byHand = FALSE
    /\ call = [r \in Requests |-> Idle]

\* The lists: ORDER BY sort_order, id.
Before(i, j) == pos[i] < pos[j] \/ (pos[i] = pos[j] /\ i < j)
Listed == {p \in there \X there : Before(p[1], p[2])}

\* The pairs of an order that a row is in, and the other ones.
Around(i, order) == {p \in order : i \in {p[1], p[2]}}
Others(i, order) == {p \in order : i \notin {p[1], p[2]}}

-----------------------------------------------------------------------------
Highest == IF there = {} THEN 0 ELSE Max({pos[i] : i \in there})

\* (max or 0) + 1; for a todo the number of rows.
NextPos == IF list = "todos" THEN Cardinality(there) ELSE Highest + 1

\* A creation takes the next position, or the caller's, which todos do not have.
CreateRead(r, i) ==
    /\ call[r] = Idle
    /\ i \notin made
    /\ \A s \in Requests : call[s].row # i
    /\ \/ call' = [call EXCEPT ![r] = [Idle EXCEPT !.at = "appending", !.row = i, !.next = NextPos]]
       \/ /\ list = "plan"
          /\ \E n \in Numbers :
                call' = [call EXCEPT ![r] = [Idle EXCEPT !.at = "inserting", !.row = i, !.next = n]]
    /\ UNCHANGED <<list, made, there, pos, want, byHand>>

CreateWrite(r) ==
    LET c == call[r] IN
    /\ c.at \in {"appending", "inserting"}
    /\ made' = made \cup {c.row} /\ there' = there \cup {c.row}
    /\ pos' = [pos EXCEPT ![c.row] = c.next]
    /\ want' = want \cup IF c.at = "appending" THEN there \X {c.row} ELSE Around(c.row, Listed')
    /\ call' = [call EXCEPT ![r] = Idle]
    /\ UNCHANGED <<list, byHand>>

\* An update of one row gives it a position.
PlaceRead(r, i, n) ==
    /\ call[r] = Idle
    /\ i \in there
    /\ call' = [call EXCEPT ![r] = [Idle EXCEPT !.at = "placing", !.row = i, !.next = n,
                                      !.read = pos]]
    /\ UNCHANGED <<list, made, there, pos, want, byHand>>

\* A number that was read is not written; the update of a row that is gone fails.
PlaceWrite(r) ==
    LET c == call[r] IN
    /\ c.at = "placing"
    /\ UNCHANGED <<list, made, there>>
    /\ IF c.row \in there
         THEN /\ pos' = IF c.read[c.row] = c.next THEN pos ELSE [pos EXCEPT ![c.row] = c.next]
              /\ want' = Others(c.row, want) \cup Around(c.row, Listed')
              /\ byHand' = (byHand \/ list = "todos")
         ELSE UNCHANGED <<pos, want, byHand>>
    /\ call' = [call EXCEPT ![r] = Idle]

\* apply_reorder: the ids must be those of the rows that were read.  Todos have
\* no such call.
ReorderRead(r, ids) ==
    /\ list = "plan"
    /\ call[r] = Idle
    /\ call' = [call EXCEPT ![r] = [Idle EXCEPT !.at = "reordering", !.ids = ids,
                                      !.read = pos]]
    /\ UNCHANGED <<list, made, there, pos, want, byHand>>

Place(c, i) == (CHOOSE n \in DOMAIN c.ids : c.ids[n] = i) - 1

\* Mutant: the rows that keep their neighbour in front are not written.
MovedAgainstNeighbours(c) ==
    {i \in Range(c.ids) :
       Cardinality({j \in Range(c.ids) : c.read[j] < c.read[i]}) # Place(c, i)}

\* Rows that were read at their place are not written.
Moved(c) == {i \in Range(c.ids) : c.read[i] # Place(c, i)}

\* The update of a row that is gone fails.
ReorderWrite(r) ==
    LET c == call[r]
        known == there \cap Range(c.ids)
    IN
    /\ c.at = "reordering"
    /\ IF Moved(c) \subseteq there
         THEN /\ pos' = [i \in Rows |-> IF i \in Moved(c) THEN Place(c, i) ELSE pos[i]]
              /\ want' = {p \in known \X known : Place(c, p[1]) < Place(c, p[2])}
         ELSE UNCHANGED <<pos, want>>
    /\ call' = [call EXCEPT ![r] = Idle]
    /\ UNCHANGED <<list, made, there, byHand>>

DeleteRow(i) ==
    /\ i \in there
    /\ there' = there \ {i}
    /\ pos' = [pos EXCEPT ![i] = 0]
    /\ want' = Others(i, want)
    /\ UNCHANGED <<list, made, byHand, call>>

Abort(r) ==
    /\ call[r] # Idle
    /\ call' = [call EXCEPT ![r] = Idle]
    /\ UNCHANGED <<list, made, there, pos, want, byHand>>

Next ==
    \/ \E r \in Requests :
          \/ \E i \in Rows : CreateRead(r, i) \/ \E n \in Numbers : PlaceRead(r, i, n)
          \/ \E ids \in SetToSeqs(there) : ReorderRead(r, ids)
          \/ CreateWrite(r) \/ PlaceWrite(r) \/ ReorderWrite(r) \/ Abort(r)
    \/ \E i \in Rows : DeleteRow(i)

Spec == Init /\ [][Next]_vars

-----------------------------------------------------------------------------
\* The lists show the order people asked for, with one request at a time: a row that
\* was given a number stands where that number puts it, any other new row behind
\* all, and the rest as it was last arranged.  New todos are promised the last place
\* as long as none has been deleted or was given a number.
OrderIsAsAsked ==
    list = "plan" \/ (there = made /\ ~byHand) => Listed = want

=============================================================================
