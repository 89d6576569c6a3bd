------------------------------ MODULE Members -------------------------------
(***************************************************************************)
(* Who belongs to one workspace and with which role:                       *)
(* api/v1/endpoints/members.py, workspaces.py and the membership part of   *)
(* services/auth_service.py.                                               *)
(*                                                                         *)
(* Every operation reads the roster, decides, and then writes one row; the *)
(* rows have no rule between them that the database knows, apart from one  *)
(* row per user, so the decision may be stale when the write commits.      *)
(***************************************************************************)
EXTENDS FiniteSets

CONSTANTS
    Users,      \* accounts
    Requests,   \* requests served at the same time
    NoUser      \* what a request that works on nobody has

VARIABLES
    created,    \* the workspace exists
    role,       \* the role of every user, "none" without a row
    call        \* what each request is doing

vars == <<created, role, call>>

\* "editor" stands for the viewers too: neither manages members.
Roles == {"owner", "editor"}

\* "by" acts on "who"; "to" is the role to give, "none" to remove.
Call == [at : {"idle", "adding", "changing"}, by : Users \cup {NoUser},
         who : Users \cup {NoUser}, to : Roles \cup {"none"}]

Idle == [at |-> "idle", by |-> NoUser, who |-> NoUser, to |-> "none"]

Roster == {u \in Users : role[u] # "none"}
Owners == {u \in Users : role[u] = "owner"}

TypeOK ==
    /\ created \in BOOLEAN
    /\ role \in [Users -> Roles \cup {"none"}]
    /\ call \in [Requests -> Call]

Init ==
    /\ created = FALSE
    /\ role = [u \in Users |-> "none"]
    /\ call = [r \in Requests |-> Idle]

-----------------------------------------------------------------------------
\* create_workspace commits the workspace, then makes its creator the owner.
CreateWorkspace(r, u) ==
    /\ call[r] = Idle
    /\ ~created
    /\ created' = TRUE
    /\ call' = [call EXCEPT ![r] = [at |-> "adding", by |-> u, who |-> u, to |-> "owner"]]
    /\ UNCHANGED role

\* Mutant: any member adds members.
AddReadByMember(r, u, t, to) ==
    /\ call[r] = Idle
    /\ created
    /\ IF Roster = {} THEN t = u /\ to = "owner" ELSE role[u] # "none"
    /\ call' = [call EXCEPT ![r] = [at |-> "adding", by |-> u, who |-> t, to |-> to]]
    /\ UNCHANGED <<created, role>>

\* add_member: an empty workspace is claimed by its first owner, any other is
\* in the hands of its owners.
AddRead(r, u, t, to) ==
    /\ call[r] = Idle
    /\ created
    /\ IF Roster = {} THEN t = u /\ to = "owner" ELSE role[u] = "owner"
    /\ call' = [call EXCEPT ![r] = [at |-> "adding", by |-> u, who |-> t, to |-> to]]
    /\ UNCHANGED <<created, role>>

\* One row per user and workspace: a second INSERT is refused.
AddInsert(r) ==
    /\ call[r].at = "adding"
    /\ role' = [role EXCEPT ![call[r].who] = IF @ = "none" THEN call[r].to ELSE @]
    /\ call' = [call EXCEPT ![r] = Idle]
    /\ UNCHANGED created

\* update_member_role and remove_member: only by an owner, and not against the
\* last owner.  (A role the member has already is not written.)
ChangeRead(r, u, t, to) ==
    /\ call[r] = Idle
    /\ role[u] = "owner"
    /\ role[t] \notin {"none", to}
    /\ role[t] = "owner" /\ to # "owner" => Cardinality(Owners) # 1
    /\ call' = [call EXCEPT ![r] = [at |-> "changing", by |-> u, who |-> t, to |-> to]]
    /\ UNCHANGED <<created, role>>

\* UPDATE or DELETE of the row that was read.  A request that is about to
\* change a row that is deleted here will find no row by its id and fail.
ChangeWrite(r) ==
    /\ call[r].at = "changing"
    /\ role' = [role EXCEPT ![call[r].who] = call[r].to]
    /\ call' = [s \in Requests |->
          IF s = r \/ (/\ call[r].to = "none"
                      /\ call[s].at = "changing"
                      /\ call[s].who = call[r].who)
            THEN Idle ELSE call[s]]
    /\ UNCHANGED created

\* The request dies before its write.
Abort(r) ==
    /\ call[r] # Idle
    /\ call' = [call EXCEPT ![r] = Idle]
    /\ UNCHANGED <<created, role>>

Next ==
    \E r \in Requests :
       \/ AddInsert(r) \/ ChangeWrite(r) \/ Abort(r)
       \/ \E u \in Users : CreateWorkspace(r, u)
       \/ \E u, t \in Users, to \in Roles : AddRead(r, u, t, to)
       \/ \E u, t \in Users, to \in Roles \cup {"none"} : ChangeRead(r, u, t, to)

Spec == Init /\ [][Next]_vars

-----------------------------------------------------------------------------
\* Properties

\* A workspace never loses its last owner, whatever its owners do to each other
\* (the guards of update_member_role and remove_member).
LastOwnerStays == [][Owners # {} => Owners' # {}]_vars

=============================================================================
