------------------------------ MODULE Accounts ------------------------------
(***************************************************************************)
(* Accounts and the server-admin flag: registration and the bootstrap      *)
(* claim (services/auth_service.py), and the operations that change who is *)
(* an active admin (services/admin_service.py).                            *)
(*                                                                         *)
(* The first account of a server becomes its admin: the INSERT of one      *)
(* fixed row of "setting" decides who is first.  The last active admin is  *)
(* never demoted or deactivated: the UPDATE is conditional on another one, *)
(* and on PostgreSQL all active admins are locked before it.  Both decide  *)
(* on rows that other requests change meanwhile.                           *)
(***************************************************************************)
EXTENDS Naturals, FiniteSets

CONSTANTS
    Users,          \* the accounts there can be, one per email address
    Requests,       \* requests served at the same time
    NoUser,         \* what a request that works on no account has
    FirstAdmins,    \* admins of the server at the beginning
    Ops,            \* operations in use
    Engine          \* "sqlite" or "postgresql"

ASSUME UsersAssumption == NoUser \notin Users /\ FirstAdmins \subseteq Users
ASSUME OpsAssumption ==
    Ops \subseteq {"register", "grant", "demote", "deactivate", "reactivate"}
ASSUME EngineAssumption == Engine \in {"sqlite", "postgresql"}

VARIABLES
    user,       \* the rows of appuser: exists, admin, active
    claimed,    \* the row of setting that marks the server as claimed exists
    call        \* what each request is doing

vars == <<user, claimed, call>>

User == [exists : BOOLEAN, admin : BOOLEAN, active : BOOLEAN]

\* "seen" is the row as the request read it; "won": this registration inserted
\* the claim; "rows": the accounts whose rows it has locked (PostgreSQL).
Call == [at : {"idle", "claiming", "creating", "guarded", "locked", "flipped", "plain"},
         op : Ops \cup {"none"}, who : Users \cup {NoUser}, seen : User,
         won : BOOLEAN, lost : BOOLEAN, rows : SUBSET Users]

NoAccount == [exists |-> FALSE, admin |-> FALSE, active |-> FALSE]

Idle == [at |-> "idle", op |-> "none", who |-> NoUser, seen |-> NoAccount,
         won |-> FALSE, lost |-> FALSE, rows |-> {}]

Existing == {u \in Users : user[u].exists}
ActiveAdmins == {u \in Users : user[u].admin /\ user[u].active}

TypeOK ==
    /\ user \in [Users -> User]
    /\ claimed \in BOOLEAN
    /\ call \in [Requests -> Call]

\* Any server whose admins were registered and promoted one after the other.
Init ==
    /\ user = [u \in Users |-> IF u \in FirstAdmins
                  THEN [exists |-> TRUE, admin |-> TRUE, active |-> TRUE]
                  ELSE NoAccount]
    /\ claimed = (FirstAdmins # {})
    /\ call = [r \in Requests |-> Idle]

-----------------------------------------------------------------------------
\* Locks

\* A transaction of SQLite that has written: a conditional UPDATE, or a claim
\* that was refused (its savepoint is undone, its transaction goes on).  The
\* claim that succeeds leaves none: see Claim.
Writing(s) == call[s].at = "flipped" \/ call[s].lost

WriterFree(r) == Engine = "sqlite" => \A s \in Requests \ {r} : ~Writing(s)

RowsFree(r, rows) == \A s \in Requests \ {r} : call[s].rows \cap rows = {}

-----------------------------------------------------------------------------
\* register_password_user, login_with_identity

\* The email has no account; is the server still empty?
RegisterRead(r, u) ==
    /\ call[r] = Idle
    /\ "register" \in Ops
    /\ u \notin Existing
    /\ call' = [call EXCEPT ![r] =
          [Idle EXCEPT !.at = IF Existing = {} THEN "claiming" ELSE "creating",
                       !.op = "register", !.who = u]]
    /\ UNCHANGED <<user, claimed>>

\* Mutant: whoever found the server empty becomes its admin.
ClaimByReading(r) ==
    /\ call[r].at = "claiming"
    /\ call' = [call EXCEPT ![r].at = "creating", ![r].won = TRUE]
    /\ UNCHANGED <<user, claimed>>

\* The INSERT of the claim in a SAVEPOINT.  On PostgreSQL it waits for another
\* one that is not committed.  On SQLite the driver opens no transaction for a
\* SAVEPOINT, so its RELEASE commits the claim at once.
Claim(r) ==
    /\ call[r].at = "claiming"
    /\ WriterFree(r)
    /\ Engine = "postgresql" => \A s \in Requests \ {r} : ~call[s].won
    /\ claimed' = (claimed \/ Engine = "sqlite")
    /\ call' = [call EXCEPT ![r] =
          [@ EXCEPT !.at = "creating", !.won = ~claimed, !.lost = claimed]]
    /\ UNCHANGED user

\* The INSERT of the account and the commit, or the email was taken meanwhile
\* and everything that is not committed is rolled back.
CreateAccount(r) ==
    /\ call[r].at = "creating"
    /\ WriterFree(r)
    /\ IF call[r].who \in Existing
         THEN UNCHANGED <<user, claimed>>
         ELSE /\ user' = [user EXCEPT ![call[r].who] =
                            [exists |-> TRUE, admin |-> call[r].won, active |-> TRUE]]
              /\ claimed' = (claimed \/ call[r].won)
    /\ call' = [call EXCEPT ![r] = Idle]

\* admin_service.create_user: never an admin, never the first account.
CreateUser(u) ==
    /\ "register" \in Ops
    /\ ActiveAdmins # {}
    /\ u \notin Existing
    /\ Engine = "sqlite" => \A s \in Requests : ~Writing(s)
    /\ user' = [user EXCEPT ![u] = [exists |-> TRUE, admin |-> FALSE, active |-> TRUE]]
    /\ UNCHANGED <<claimed, call>>

-----------------------------------------------------------------------------
\* set_active, set_admin

\* An active admin (or, for a grant, the operator's command line) names an
\* account; what the row says now decides which way the request goes.
ReadTarget(r, op, u) ==
    /\ call[r] = Idle
    /\ op \in Ops \ {"register"}
    /\ ActiveAdmins # {} \/ op = "grant"
    /\ u \in Existing
    /\ call' = [call EXCEPT ![r] =
          [Idle EXCEPT !.at = IF op \in {"demote", "deactivate"} /\ user[u].admin
                                THEN "guarded" ELSE "plain",
                       !.op = op, !.who = u, !.seen = user[u]]]
    /\ UNCHANGED <<user, claimed>>

\* Mutant: only the row of the account is locked.
LockTargetOnly(r) ==
    /\ Engine = "postgresql"
    /\ call[r].at = "guarded"
    /\ RowsFree(r, {call[r].who})
    /\ call' = [call EXCEPT ![r].at = "locked", ![r].rows = {call[r].who}]
    /\ UNCHANGED <<user, claimed>>

\* _lock_admin_set, in one ordered statement that waits for all of its rows.
LockAdmins(r) ==
    LET rows == {call[r].who} \cup ActiveAdmins
    IN  /\ Engine = "postgresql"
        /\ call[r].at = "guarded"
        /\ RowsFree(r, rows)
        /\ call' = [call EXCEPT ![r] = [@ EXCEPT !.at = "locked", !.rows = rows]]
        /\ UNCHANGED <<user, claimed>>

\* _demote_or_deactivate: the conditional UPDATE, not committed yet; a refusal
\* rolls back.
Flip(r) ==
    /\ call[r].at = IF Engine = "postgresql" THEN "locked" ELSE "guarded"
    /\ WriterFree(r)
    /\ call' = [call EXCEPT ![r] = IF ActiveAdmins \ {call[r].who} # {}
                                     THEN [@ EXCEPT !.at = "flipped"] ELSE Idle]
    /\ UNCHANGED <<user, claimed>>

CommitFlip(r) ==
    /\ call[r].at = "flipped"
    /\ user' = IF call[r].op = "demote"
                 THEN [user EXCEPT ![call[r].who].admin = FALSE]
                 ELSE [user EXCEPT ![call[r].who].active = FALSE]
    /\ call' = [call EXCEPT ![r] = Idle]
    /\ UNCHANGED claimed

\* The other branch: the object that was read is assigned to, and a column is
\* written only if that changes the value that was read.
Plain(r) ==
    LET u == call[r].who
        admin == call[r].op = "grant"
        active == call[r].op = "reactivate"
    IN  /\ call[r].at = "plain"
        /\ WriterFree(r)
        /\ RowsFree(r, {u})
        /\ user' = IF call[r].op \in {"grant", "demote"}
                     THEN IF call[r].seen.admin = admin THEN user
                                   ELSE [user EXCEPT ![u].admin = admin]
                     ELSE IF call[r].seen.active = active THEN user
                                   ELSE [user EXCEPT ![u].active = active]
        /\ call' = [call EXCEPT ![r] = Idle]
        /\ UNCHANGED claimed

-----------------------------------------------------------------------------
\* A request dies, or gives up waiting: what it has not committed is undone.
Abort(r) ==
    /\ call[r] # Idle
    /\ call' = [call EXCEPT ![r] = Idle]
    /\ UNCHANGED <<user, claimed>>

Step(r) ==
    \/ Claim(r) \/ CreateAccount(r)
    \/ LockAdmins(r) \/ Flip(r) \/ CommitFlip(r) \/ Plain(r)
    \/ Abort(r)

Next ==
    \/ \E r \in Requests :
          \/ Step(r)
          \/ \E u \in Users : RegisterRead(r, u)
          \/ \E u \in Users, op \in Ops : ReadTarget(r, op, u)
    \/ \E u \in Users : CreateUser(u)

Spec == Init /\ [][Next]_vars

-----------------------------------------------------------------------------
\* Properties

\* A server with accounts has an active admin, whoever registers, is demoted or
\* is deactivated at the same time (_claim_bootstrap_admin, _lock_admin_set and
\* _demote_or_deactivate).
ServerHasAdmin == Existing # {} => ActiveAdmins # {}

\* Of the registrations that race on an empty server at most one becomes admin
\* (where nobody is promoted afterwards).
OneBootstrap == Cardinality({u \in Users : user[u].admin}) <= 1

\* The claim is worth nothing without the account that made it: a server whose
\* registrations are over has an admin, unless nobody registered (the comment at
\* BOOTSTRAP_CLAIM_KEY: "in the same transaction as the winning account").
FirstAccountIsAdmin == (\A r \in Requests : call[r] = Idle) => ServerHasAdmin

=============================================================================
