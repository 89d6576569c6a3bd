-------------------------------- MODULE Todos --------------------------------
(***************************************************************************)
(* The tree of sidebar todos: services/todo_service.py.  A todo may be     *)
(* nested under any other that is not below it; a deletion takes along     *)
(* everything below.  Both walk the tree row by row before they write.     *)
(***************************************************************************)
EXTENDS Naturals, FiniteSets

CONSTANTS
    Todos,      \* ids
    Requests,   \* requests served at the same time
    Top,        \* the parent of a todo that has none
    Gone        \* "parent" of a todo that does not exist

VARIABLES
    parent,     \* parent_id of each todo
    call        \* what each request is doing

vars == <<parent, call>>

Refs == Todos \cup {Top}

\* "old" and "new" are the parent that was read and the one that is asked for,
\* "cur" the row the walk is at, "seen" the rows it has passed.
Call == [at : {"idle", "creating", "walking", "moving", "descending", "deleting"},
         todo : Todos \cup {Top}, old : Refs, new : Refs, cur : Refs,
         seen : SUBSET Todos]

Idle == [at |-> "idle", todo |-> Top, old |-> Top, new |-> Top, cur |-> Top, seen |-> {}]

TypeOK ==
    /\ parent \in [Todos -> Refs \cup {Gone}]
    /\ call \in [Requests -> Call]

Init ==
    /\ parent = [t \in Todos |-> Gone]
    /\ call = [r \in Requests |-> Idle]

There == {t \in Todos : parent[t] # Gone}

Becomes(r, c) == call' = [call EXCEPT ![r] = c]

-----------------------------------------------------------------------------
\* The parent must exist when it is read, and again at the INSERT (the foreign
\* key); a new id is nobody's parent.
CreateRead(r, t, p) ==
    /\ call[r] = Idle
    /\ parent[t] = Gone /\ \A s \in Requests : call[s].todo # t
    /\ p \in There \cup {Top}
    /\ Becomes(r, [Idle EXCEPT !.at = "creating", !.todo = t, !.new = p])
    /\ UNCHANGED parent

CreateWrite(r) ==
    LET c == call[r] IN
    /\ c.at = "creating"
    /\ parent' = IF c.new \in There \cup {Top} THEN [parent EXCEPT ![c.todo] = c.new]
                                               ELSE parent
    /\ Becomes(r, Idle)

\* update_todo with a parent_id: the todo and its parent-to-be are read.
MoveRead(r, t, p) ==
    /\ call[r] = Idle
    /\ t \in There /\ p \in There \cup {Top}
    /\ Becomes(r, [Idle EXCEPT !.at = IF p = Top THEN "moving" ELSE "walking",
                               !.todo = t, !.old = parent[t], !.new = p, !.cur = p])
    /\ UNCHANGED parent

\* Mutant: only the new parent and its own parent are looked at.
WalkTwice(r) ==
    LET c == call[r] IN
    /\ c.at = "walking"
    /\ Becomes(r,
         IF c.todo \in {c.cur, parent[c.cur]} THEN Idle ELSE [c EXCEPT !.at = "moving"])
    /\ UNCHANGED parent

\* One round of _would_cycle: the todo itself is found, the walk is at its end
\* (or in a circle it has been round), or it goes on to the next parent.
Walk(r) ==
    LET c == call[r] IN
    /\ c.at = "walking"
    /\ Becomes(r,
         IF c.cur = c.todo THEN Idle
         ELSE IF c.cur = Top \/ c.cur \in c.seen THEN [c EXCEPT !.at = "moving"]
         ELSE [c EXCEPT !.seen = @ \cup {c.cur},
                        !.cur = IF c.cur \in There THEN parent[c.cur] ELSE Top])
    /\ UNCHANGED parent

\* Only a parent that differs from the one read is written; the row and the
\* parent must still be there.
MoveWrite(r) ==
    LET c == call[r] IN
    /\ c.at = "moving"
    /\ parent' = IF c.new # c.old /\ c.todo \in There /\ c.new \in There \cup {Top}
                   THEN [parent EXCEPT ![c.todo] = c.new] ELSE parent
    /\ Becomes(r, Idle)

-----------------------------------------------------------------------------
Children(t) == {x \in There : parent[x] = t}

DeleteRead(r, t) ==
    /\ call[r] = Idle
    /\ t \in There
    /\ Becomes(r, [Idle EXCEPT !.at = "descending", !.todo = t, !.cur = t, !.seen = {t}])
    /\ UNCHANGED parent

\* _delete_subtree has looked at the rows "seen"; the next SELECT finds children
\* of one of them, or there are none left.
Descend(r) ==
    LET c == call[r] IN
    /\ c.at = "descending"
    /\ \/ \E t \in c.seen : \E x \in Children(t) \ c.seen :
             Becomes(r, [c EXCEPT !.seen = @ \cup {x}])
       \/ /\ \A t \in c.seen : Children(t) \subseteq c.seen \ {c.todo}
          /\ Becomes(r, [c EXCEPT !.at = "deleting"])
    /\ UNCHANGED parent

\* In a circle the recursion never comes back (RecursionError).
DescendsForEver(r) ==
    LET c == call[r] IN
    /\ c.at = "descending"
    /\ \E t \in c.seen : c.todo \in Children(t)
    /\ Becomes(r, Idle)
    /\ UNCHANGED parent

\* The rows go, the deepest first; a child that has come meanwhile forbids it.
DeleteWrite(r) ==
    LET c == call[r] IN
    /\ c.at = "deleting"
    /\ parent' = IF \A t \in There \ c.seen : parent[t] \notin c.seen
                   THEN [t \in Todos |-> IF t \in c.seen THEN Gone ELSE parent[t]]
                   ELSE parent
    /\ Becomes(r, Idle)

Abort(r) ==
    /\ call[r] # Idle
    /\ Becomes(r, Idle)
    /\ UNCHANGED parent

Next == \E r \in Requests :
    \/ \E t \in Todos, p \in Refs : CreateRead(r, t, p) \/ MoveRead(r, t, p)
    \/ \E t \in Todos : DeleteRead(r, t)
    \/ CreateWrite(r) \/ Walk(r) \/ MoveWrite(r)
    \/ Descend(r) \/ DescendsForEver(r) \/ DeleteWrite(r)
    \/ Abort(r)

Spec == Init /\ [][Next]_vars

-----------------------------------------------------------------------------
\* Properties

\* No todo is below itself (one request at a time): in every set of todos there
\* is one whose parent is outside.
TodosForest == \A S \in (SUBSET There) \ {{}} : \E t \in S : parent[t] \notin S

Below(t) ==
    CHOOSE S \in SUBSET There :
        /\ t \in S
        /\ \A x \in There \ {t} : x \in S <=> parent[x] \in S

\* What a deletion takes away is a todo and all that is below it (one request at
\* a time; rows only go by deletions).
Removed == {t \in There : parent'[t] = Gone}
WholeSubtrees == Removed # {} => \E t \in Removed : Removed = Below(t)

=============================================================================
