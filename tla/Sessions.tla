------------------------------ MODULE Sessions ------------------------------
(***************************************************************************)
(* The password and the sessions of one account: login_with_password,      *)
(* change_password and logout (services/auth_service.py), reset_password   *)
(* and set_active (services/admin_service.py).  Accounts share none of     *)
(* these rows.                                                             *)
(*                                                                         *)
(* Verifying and hashing a password takes a tenth of a second, on purpose, *)
(* and lies between the read of the identity and the writes that follow    *)
(* from it.  Who replaces a password revokes the sessions it finds; who    *)
(* logs in stores a session on the strength of what it has verified.       *)
(***************************************************************************)
EXTENDS Naturals, FiniteSets

CONSTANTS
    Sessions,   \* rows of usersession there can be
    Requests,   \* requests served at the same time
    MaxEpoch    \* bound: the sessions of the account are revoked this often

VARIABLES
    active,     \* appuser.is_active
    identity,   \* the password identity, see Identity
    sess,       \* the rows of usersession
    epoch,      \* history: how often the sessions have been revoked
    call        \* what each request is doing

vars == <<active, identity, sess, epoch, call>>

\* Whether the password is one that an admin issued, and password_must_change.
Identity == [temp : BOOLEAN, mustChange : BOOLEAN]

\* "since" is the epoch whose password, of an active account, was verified for it.
Session == [state : {"none", "live", "over"}, since : Nat]

\* "own" is the session of the caller and "kill" the rows to revoke.
Call == [at : {"idle", "verified", "entering", "changing", "changed",
               "resetting", "reset", "deactivating"},
         own : SUBSET Sessions, kill : SUBSET Sessions, seen : Identity, since : Nat]

Chosen == [temp |-> FALSE, mustChange |-> FALSE]

Idle == [at |-> "idle", own |-> {}, kill |-> {}, seen |-> Chosen, since |-> 0]

Live == {t \in Sessions : sess[t].state = "live"}

TypeOK ==
    /\ active \in BOOLEAN
    /\ identity \in Identity
    /\ sess \in [Sessions -> Session]
    /\ epoch \in 0..MaxEpoch
    /\ call \in [Requests -> Call]

\* An account that has just chosen its password, and nobody signed in.
Init ==
    /\ active = TRUE
    /\ identity = Chosen
    /\ sess = [t \in Sessions |-> [state |-> "none", since |-> 0]]
    /\ epoch = 0
    /\ call = [r \in Requests |-> Idle]

-----------------------------------------------------------------------------
\* The row of the identity is locked from its UPDATE to the commit.
IdentityFree(r) == \A s \in Requests \ {r} : call[s].at \notin {"changed", "reset"}

Begin(r, at, own) ==
    /\ call[r] = Idle
    /\ call' = [call EXCEPT ![r] = [Idle EXCEPT !.at = at, !.own = own,
                                                !.seen = identity, !.since = epoch]]
    /\ UNCHANGED <<active, identity, sess, epoch>>

\* login_with_password: the identity is read and the password is verified.  (A
\* wrong password ends the request and changes nothing.)
LoginVerify(r) == Begin(r, "verified", {})

LoginActive(r) ==
    /\ call[r].at = "verified"
    /\ call' = [call EXCEPT ![r] = IF active THEN [@ EXCEPT !.at = "entering"] ELSE Idle]
    /\ UNCHANGED <<active, identity, sess, epoch>>

\* create_session and the commit.
LoginStore(r) ==
    /\ call[r].at = "entering"
    /\ \E t \in Sessions :
          /\ sess[t].state = "none"
          /\ sess' = [sess EXCEPT ![t] = [state |-> "live", since |-> call[r].since]]
    /\ call' = [call EXCEPT ![r] = Idle]
    /\ UNCHANGED <<active, identity, epoch>>

\* revoke_session, or the expiry of the session.
Logout(t) ==
    /\ t \in Live
    /\ sess' = [sess EXCEPT ![t].state = "over"]
    /\ UNCHANGED <<active, identity, epoch, call>>

-----------------------------------------------------------------------------
\* change_password, called by somebody signed in (resolve_user) who knows the
\* current password.
ChangeRead(r, t) == active /\ t \in Live /\ Begin(r, "changing", {t})

\* reset_password, called by an admin.
ResetRead(r) == Begin(r, "resetting", {})

\* Mutant: the sessions of the browser that calls are all kept.
WriteKeepingAll(r) ==
    /\ call[r].at \in {"changing", "resetting"}
    /\ IdentityFree(r)
    /\ call' = [call EXCEPT ![r] =
          [@ EXCEPT !.at = IF call[r].at = "changing" THEN "changed" ELSE "reset",
                    !.kill = IF call[r].own = {} THEN Live ELSE {}]]
    /\ UNCHANGED <<active, identity, sess, epoch>>

\* The SELECT of the sessions flushes the UPDATE of the identity, which waits
\* for its row; neither is committed yet.
Write(r) ==
    /\ call[r].at \in {"changing", "resetting"}
    /\ IdentityFree(r)
    /\ call' = [call EXCEPT ![r] =
          [@ EXCEPT !.at = IF call[r].at = "changing" THEN "changed" ELSE "reset",
                    !.kill = Live \ call[r].own]]
    /\ UNCHANGED <<active, identity, sess, epoch>>

Revoked(kill, kept) ==
    [t \in Sessions |->
        CASE t \in kill                                 -> [sess[t] EXCEPT !.state = "over"]
          [] t \in kept \ kill /\ sess[t].since = epoch -> [sess[t] EXCEPT !.since = epoch + 1]
          [] OTHER                                      -> sess[t]]

\* The commit.  The ORM writes a column only if it was assigned a value other
\* than the one that was read: the flag stays out of the UPDATE of a reset that
\* has read it set, and of a change that has read it clear.
Commit(r) ==
    LET flag == call[r].at = "reset"
    IN  /\ call[r].at \in {"changed", "reset"}
        /\ epoch < MaxEpoch
        /\ identity' = [temp |-> flag,
                        mustChange |-> IF call[r].seen.mustChange = flag
                                         THEN identity.mustChange ELSE flag]
        /\ sess' = Revoked(call[r].kill, call[r].own)
        /\ epoch' = epoch + 1
        /\ call' = [call EXCEPT ![r] = Idle]
        /\ UNCHANGED active

-----------------------------------------------------------------------------
\* set_active: the UPDATE of the account is flushed by the SELECT of its sessions.
DeactivateWrite(r) ==
    /\ active
    /\ call[r] = Idle
    /\ \A s \in Requests : call[s].at # "deactivating"
    /\ call' = [call EXCEPT ![r] = [Idle EXCEPT !.at = "deactivating", !.kill = Live]]
    /\ UNCHANGED <<active, identity, sess, epoch>>

DeactivateCommit(r) ==
    /\ call[r].at = "deactivating"
    /\ epoch < MaxEpoch
    /\ active' = FALSE
    /\ sess' = Revoked(call[r].kill, {})
    /\ epoch' = epoch + 1
    /\ call' = [call EXCEPT ![r] = Idle]
    /\ UNCHANGED identity

Reactivate ==
    /\ ~active
    /\ active' = TRUE
    /\ UNCHANGED <<identity, sess, epoch, call>>

\* The request dies; nothing it wrote was committed.
Abort(r) ==
    /\ call[r] # Idle
    /\ call' = [call EXCEPT ![r] = Idle]
    /\ UNCHANGED <<active, identity, sess, epoch>>

Next ==
    \/ \E r \in Requests :
          \/ LoginVerify(r) \/ LoginActive(r) \/ LoginStore(r)
          \/ ResetRead(r) \/ Write(r) \/ Commit(r)
          \/ DeactivateWrite(r) \/ DeactivateCommit(r) \/ Abort(r)
          \/ \E t \in Sessions : ChangeRead(r, t)
    \/ \E t \in Sessions : Logout(t)
    \/ Reactivate

Spec == Init /\ [][Next]_vars

-----------------------------------------------------------------------------
\* Properties

\* Nobody is signed in on the strength of a password that was replaced since, or
\* from before a deactivation: a reset and a deactivation revoke every session,
\* a change every one but the caller's (reset_password, set_active and
\* change_password).
SessionsAreCurrent == \A t \in Live : sess[t].since = epoch

\* The password an admin has issued must be changed (UserIdentity: "set on
\* admin-issued temp passwords; until the user rotates it (which clears the
\* flag), their sessions may only call the auth surface").
TempMustBeChanged == identity.temp => identity.mustChange

=============================================================================
