---------------------------- MODULE PeopleProofs ----------------------------
(***************************************************************************)
(* Proofs about the parts of MCPeople, for any accounts, requests, rows,   *)
(* folders and keys.  Accounts: the types, and that a server with accounts *)
(* keeps an active admin as long as nobody is promoted, on PostgreSQL from *)
(* an empty server on and on SQLite from the first admin on, and promotes  *)
(* one bootstrap admin.  Sessions, members and sign-ins: their properties  *)
(* hold in PeopleSpec, by the lemmas of SessionsProofs, MembersProofs and  *)
(* OAuthProofs about the same modules (SP, MP, OP).  Projects: rows stay   *)
(* with their projects, and roots apart with one request at a time.        *)
(* External API: slots, windows and the memory of the limiter are bounded, *)
(* and the LAN switch is true with one writer of settings at a time.       *)
(***************************************************************************)
EXTENDS MCPeople, FiniteSetTheorems, SequenceTheorems,
        WellFoundedInduction, TLAPS

-----------------------------------------------------------------------------
\* Types

LEMMA IdleIsCall == Idle \in Call
BY DEF Idle, Call, NoAccount, User

\* Who a request works on, once it works.
SomeUser == \A r \in Requests : call[r].at # "idle" => call[r].who \in Users

LEMMA TypeStep == TypeOK /\ SomeUser /\ [Next]_vars => (TypeOK /\ SomeUser)'
<1> SUFFICES ASSUME TypeOK, SomeUser, [Next]_vars PROVE TypeOK' /\ SomeUser'
  OBVIOUS
<1> USE IdleIsCall DEF TypeOK, SomeUser
<1>1. ASSUME NEW r \in Requests, Claim(r) PROVE TypeOK' /\ SomeUser'
  <2>1. (~claimed) \in BOOLEAN /\ (claimed \/ Engine = "sqlite") \in BOOLEAN
    OBVIOUS
  <2>2. [call[r] EXCEPT !.at = "creating", !.won = ~claimed, !.lost = claimed] \in Call
    BY <2>1 DEF Call
  <2> QED
    BY <1>1, <2>1, <2>2 DEF Claim
<1>2. ASSUME NEW r \in Requests, CreateAccount(r) PROVE TypeOK' /\ SomeUser'
  <2>1. call[r].won \in BOOLEAN /\ claimed \in BOOLEAN
    BY DEF Call
  <2>2. claimed' \in BOOLEAN
    BY <1>2, <2>1 DEF CreateAccount
  <2>3. [exists |-> TRUE, admin |-> call[r].won, active |-> TRUE] \in User
    BY <2>1 DEF User
  <2>4. user' \in [Users -> User]
    BY <1>2, <2>3 DEF CreateAccount
  <2> QED
    BY <1>2, <2>2, <2>4 DEF CreateAccount, Idle
<1>3. ASSUME NEW r \in Requests, LockAdmins(r) PROVE TypeOK' /\ SomeUser'
  <2>1. {call[r].who} \cup ActiveAdmins \in SUBSET Users
    BY <1>3 DEF LockAdmins, ActiveAdmins
  <2> QED
    BY <1>3, <2>1 DEF LockAdmins, Call
<1>4. ASSUME NEW r \in Requests, Flip(r) PROVE TypeOK' /\ SomeUser'
  BY <1>4 DEF Flip, Call, Idle
<1>5. ASSUME NEW r \in Requests, CommitFlip(r) PROVE TypeOK' /\ SomeUser'
  BY <1>5 DEF CommitFlip, User, Idle
<1>6. ASSUME NEW r \in Requests, Plain(r) PROVE TypeOK' /\ SomeUser'
  <2>1. user' \in [Users -> User]
    <3> DEFINE w == call[r].who
    <3>1. \A b \in BOOLEAN : /\ [user EXCEPT ![w].admin = b] \in [Users -> User]
                            /\ [user EXCEPT ![w].active = b] \in [Users -> User]
      BY DEF User
    <3>2. \/ user' = user
          \/ \E b \in BOOLEAN : \/ user' = [user EXCEPT ![w].admin = b]
                                \/ user' = [user EXCEPT ![w].active = b]
      BY <1>6 DEF Plain
    <3> QED
      BY <3>1, <3>2
  <2>2. call' = [call EXCEPT ![r] = Idle] /\ UNCHANGED claimed
    BY <1>6 DEF Plain
  <2> QED
    BY <2>1, <2>2 DEF Idle
<1>7. ASSUME NEW r \in Requests, Abort(r) PROVE TypeOK' /\ SomeUser'
  BY <1>7 DEF Abort, Idle
<1>8. ASSUME NEW r \in Requests, NEW u \in Users, RegisterRead(r, u)
      PROVE  TypeOK' /\ SomeUser'
  BY <1>8 DEF RegisterRead, Call, Idle
<1>9. ASSUME NEW r \in Requests, NEW u \in Users, NEW op \in Ops, ReadTarget(r, op, u)
      PROVE  TypeOK' /\ SomeUser'
  BY <1>9 DEF ReadTarget, Call, Idle
<1>10. ASSUME NEW u \in Users, CreateUser(u) PROVE TypeOK' /\ SomeUser'
  BY <1>10 DEF CreateUser, User
<1>11. CASE UNCHANGED vars
  BY <1>11 DEF vars
<1> QED
  BY <1>1, <1>2, <1>3, <1>4, <1>5, <1>6, <1>7, <1>8, <1>9, <1>10, <1>11 DEF Next, Step

LEMMA TypeInit == Init => TypeOK /\ SomeUser
BY IdleIsCall DEF Init, TypeOK, User, NoAccount, SomeUser, Idle

\* Every state is of the declared types, and every request in progress has an
\* account.
THEOREM TypeCorrect == Spec => [](TypeOK /\ SomeUser)
BY TypeInit, TypeStep, PTL DEF Spec

-----------------------------------------------------------------------------
\* The inductive invariant

Deciding(r) == call[r].at \in {"locked", "flipped"}

\* The rows of the accounts: an admin is an account, an account comes with the
\* claim, and there is an active admin.
Rows ==
    /\ \A u \in Users : user[u].admin => user[u].exists
    /\ claimed <=> Existing # {}
    /\ Engine = "sqlite" => claimed
    /\ ServerHasAdmin

\* The registrations: a claim that is not committed is the only one, and whoever
\* has none found or knows of an account.
Registrations ==
    \A r \in Requests :
       /\ call[r].won => /\ call[r].at = "creating" /\ ~claimed
                         /\ \A s \in Requests : call[s].won => s = r
       /\ call[r].at = "creating" /\ ~call[r].won => Existing # {}

\* The other branch never takes a flag away from an admin.
Plains ==
    \A r \in Requests :
       call[r].at = "plain" =>
          /\ call[r].op \in {"demote", "deactivate", "reactivate"}
          /\ call[r].op # "reactivate" => ~user[call[r].who].admin

\* Two requests never take the flag of two active admins at the same time: on
\* PostgreSQL each has locked both rows, on SQLite one of them writes.
Flips ==
    \A r \in Requests :
       /\ call[r].at \in {"guarded", "locked", "flipped", "plain"} =>
             call[r].who \in Existing
       /\ call[r].at = "flipped" => ActiveAdmins \ {call[r].who} # {}
       /\ \A s \in Requests \ {r} :
             Deciding(r) /\ Deciding(s) =>
                /\ Engine = "postgresql"
                /\ call[r].who # call[s].who
                /\ ~(call[r].who \in ActiveAdmins /\ call[s].who \in ActiveAdmins)

\* The locks they rest on.
Locks ==
    \A r \in Requests :
       /\ Deciding(r) /\ Engine = "postgresql" => call[r].who \in call[r].rows
       /\ call[r].at = "locked" => Engine = "postgresql"
       /\ \A s \in Requests \ {r} : call[r].rows \cap call[s].rows = {}

AdminInv == TypeOK /\ SomeUser /\ Rows /\ Registrations /\ Plains /\ Flips /\ Locks

\* Nobody is promoted, and on SQLite the server has its admin already.
Guarded == "grant" \notin Ops /\ (Engine = "postgresql" \/ FirstAdmins # {})

\* A step of one request that changes no row of appuser and starts no decision.
LEMMA QuietStep ==
    ASSUME AdminInv, NEW r \in Requests, user' = user, claimed' = claimed,
           \A s \in Requests \ {r} : call'[s] = call[s],
           call'[r] = Idle
    PROVE  Rows' /\ Registrations' /\ Plains' /\ Flips' /\ Locks'
<1>1. Existing' = Existing /\ ActiveAdmins' = ActiveAdmins
  BY DEF Existing, ActiveAdmins
<1>2. /\ call'[r].at = "idle" /\ ~call'[r].won /\ call'[r].rows = {}
  BY DEF Idle
<1>3. Rows'
  BY <1>1 DEF AdminInv, Rows, ServerHasAdmin
<1>4. Registrations'
  BY <1>1, <1>2 DEF AdminInv, Registrations
<1>5. Plains'
  BY <1>2 DEF AdminInv, Plains
<1>6. Flips'
  BY <1>1, <1>2 DEF AdminInv, Flips, Deciding
<1>7. Locks'
  BY <1>2 DEF AdminInv, Locks, Deciding
<1> QED
  BY <1>3, <1>4, <1>5, <1>6, <1>7

LEMMA InitAdminInv == Guarded /\ Init => Rows /\ Registrations /\ Plains /\ Flips /\ Locks
<1> SUFFICES ASSUME Guarded, Init
             PROVE  Rows /\ Registrations /\ Plains /\ Flips /\ Locks
  OBVIOUS
<1>1. \A u \in Users : /\ user[u].exists <=> u \in FirstAdmins
                       /\ user[u].admin <=> u \in FirstAdmins
                       /\ user[u].active <=> u \in FirstAdmins
  BY DEF Init, NoAccount
<1>2. Existing = FirstAdmins /\ ActiveAdmins = FirstAdmins
  BY <1>1, UsersAssumption DEF Existing, ActiveAdmins
<1>3. Rows
  BY <1>1, <1>2, EngineAssumption DEF Rows, ServerHasAdmin, Guarded, Init
<1>4. \A r \in Requests : /\ call[r].at = "idle" /\ ~call[r].won
                          /\ call[r].rows = {}
  BY DEF Init, Idle
<1> QED
  BY <1>3, <1>4 DEF Registrations, Plains, Flips, Locks, Deciding

LEMMA RegisterReadInv ==
    ASSUME AdminInv, NEW r \in Requests, NEW u \in Users, RegisterRead(r, u)
    PROVE  Rows' /\ Registrations' /\ Plains' /\ Flips' /\ Locks'
<1>1. Existing' = Existing /\ ActiveAdmins' = ActiveAdmins
  BY DEF Existing, ActiveAdmins, RegisterRead
<1>2. /\ \A s \in Requests \ {r} : call'[s] = call[s]
      /\ call'[r].at \in {"claiming", "creating"} /\ ~call'[r].won /\ call'[r].rows = {}
      /\ call'[r].at = "creating" => Existing # {}
  BY DEF RegisterRead, Idle, AdminInv, TypeOK
<1>3. Rows'
  BY <1>1 DEF AdminInv, Rows, ServerHasAdmin, RegisterRead
<1>4. Registrations'
  BY <1>1, <1>2 DEF AdminInv, Registrations, RegisterRead
<1>5. Plains'
  BY <1>2 DEF AdminInv, Plains, RegisterRead
<1>6. Flips'
  BY <1>1, <1>2 DEF AdminInv, Flips, Deciding
<1>7. Locks'
  BY <1>2 DEF AdminInv, Locks, Deciding
<1> QED
  BY <1>3, <1>4, <1>5, <1>6, <1>7

LEMMA ClaimInv ==
    ASSUME AdminInv, NEW r \in Requests, Claim(r)
    PROVE  Rows' /\ Registrations' /\ Plains' /\ Flips' /\ Locks'
<1>1. Existing' = Existing /\ ActiveAdmins' = ActiveAdmins
  BY DEF Existing, ActiveAdmins, Claim
<1>2. /\ \A s \in Requests \ {r} : call'[s] = call[s]
      /\ call'[r].at = "creating" /\ call'[r].rows = call[r].rows
      /\ call'[r].won = ~claimed
      /\ claimed' = claimed
  BY DEF Claim, AdminInv, TypeOK, Call, Rows
<1>3. Rows'
  BY <1>1, <1>2 DEF AdminInv, Rows, ServerHasAdmin, Claim
<1>4. \A s \in Requests \ {r} : ~claimed => ~call[s].won
  BY EngineAssumption DEF Claim, AdminInv, Rows
<1>5. Registrations'
  BY <1>1, <1>2, <1>4 DEF AdminInv, Registrations, Rows
<1>6. Plains'
  BY <1>2 DEF AdminInv, Plains, Claim
<1>7. Flips'
  BY <1>1, <1>2 DEF AdminInv, Flips, Deciding
<1>8. Locks'
  BY <1>2 DEF AdminInv, Locks, Deciding
<1> QED
  BY <1>3, <1>5, <1>6, <1>7, <1>8

LEMMA CreateAccountInv ==
    ASSUME AdminInv, NEW r \in Requests, CreateAccount(r)
    PROVE  Rows' /\ Registrations' /\ Plains' /\ Flips' /\ Locks'
<1>1. CASE call[r].who \in Existing
  BY <1>1, QuietStep DEF CreateAccount, AdminInv, TypeOK
<1>2. CASE call[r].who \notin Existing
  <2> DEFINE u == call[r].who
  <2>1. /\ u \in Users /\ ~user[u].exists /\ ~user[u].admin
        /\ call[r].at = "creating"
    BY <1>2 DEF CreateAccount, AdminInv, SomeUser, Existing, Rows
  <2>2. /\ \A v \in Users \ {u} : user'[v] = user[v]
        /\ user'[u] = [exists |-> TRUE, admin |-> call[r].won, active |-> TRUE]
        /\ claimed' = (claimed \/ call[r].won)
        /\ \A s \in Requests \ {r} : call'[s] = call[s]
        /\ call'[r] = Idle
    BY <1>2, <2>1 DEF CreateAccount, AdminInv, TypeOK
  <2> HIDE DEF u
  <2>3. Existing' = Existing \cup {u}
    BY <2>1, <2>2 DEF Existing
  <2>4. /\ call[r].won => ActiveAdmins' = ActiveAdmins \cup {u}
        /\ ~call[r].won => ActiveAdmins' = ActiveAdmins
    BY <2>1, <2>2 DEF ActiveAdmins
  <2>5. ~call[r].won => Existing # {}
    BY <2>1 DEF AdminInv, Registrations
  <2>6. Rows'
    <3>1. \A v \in Users : user'[v].admin => user'[v].exists
      BY <2>2 DEF AdminInv, Rows
    <3>2. claimed'
      BY <2>2, <2>5 DEF AdminInv, Rows
    <3>3. ActiveAdmins' # {}
      BY <2>4, <2>5 DEF AdminInv, Rows, ServerHasAdmin
    <3> QED
      BY <2>3, <3>1, <3>2, <3>3 DEF Rows, ServerHasAdmin
  <2>7. /\ call'[r].at = "idle" /\ ~call'[r].won /\ call'[r].rows = {}
    BY <2>2 DEF Idle
  <2>8. ASSUME NEW s \in Requests \ {r}, call[s].won
        PROVE  ~claimed'
    <3>1. ~claimed /\ ~call[r].won
      BY <2>8 DEF AdminInv, Registrations
    <3> QED
      BY <2>2, <3>1
  <2>9. Registrations'
    BY <2>2, <2>3, <2>7, <2>8 DEF AdminInv, Registrations
  <2>10. \A s \in Requests \ {r} :
            call[s].at \in {"guarded", "locked", "flipped", "plain"} => call[s].who # u
    BY <1>2 DEF AdminInv, Flips, u
  <2>11. Plains'
    BY <2>2, <2>7, <2>10 DEF AdminInv, Plains, SomeUser
  <2>12. Flips'
    BY <2>2, <2>3, <2>4, <2>7, <2>10 DEF AdminInv, Flips, Deciding
  <2>13. Locks'
    BY <2>2, <2>7 DEF AdminInv, Locks, Deciding
  <2> QED
    BY <2>6, <2>9, <2>11, <2>12, <2>13
<1> QED
  BY <1>1, <1>2

LEMMA CreateUserInv ==
    ASSUME AdminInv, NEW u \in Users, CreateUser(u)
    PROVE  Rows' /\ Registrations' /\ Plains' /\ Flips' /\ Locks'
<1>1. /\ \A v \in Users \ {u} : user'[v] = user[v]
      /\ user'[u] = [exists |-> TRUE, admin |-> FALSE, active |-> TRUE]
      /\ claimed' = claimed /\ call' = call
      /\ ActiveAdmins # {}
      /\ ~user[u].exists /\ ~user[u].admin
  BY DEF CreateUser, AdminInv, TypeOK, Existing, Rows
<1>2. Existing' = Existing \cup {u} /\ ActiveAdmins' = ActiveAdmins
  BY <1>1 DEF Existing, ActiveAdmins
<1>3. Existing # {}
  BY <1>1 DEF AdminInv, Rows, ActiveAdmins, Existing
<1>4. Rows'
  BY <1>1, <1>2, <1>3 DEF AdminInv, Rows, ServerHasAdmin
<1>5. Registrations'
  BY <1>1, <1>2 DEF AdminInv, Registrations
<1>6. Plains'
  BY <1>1 DEF AdminInv, Plains, SomeUser
<1>7. Flips'
  BY <1>1, <1>2 DEF AdminInv, Flips, Deciding
<1>8. Locks'
  BY <1>1 DEF AdminInv, Locks, Deciding
<1> QED
  BY <1>4, <1>5, <1>6, <1>7, <1>8

LEMMA ReadTargetInv ==
    ASSUME AdminInv, Guarded, NEW r \in Requests, NEW u \in Users, NEW op \in Ops,
           ReadTarget(r, op, u)
    PROVE  Rows' /\ Registrations' /\ Plains' /\ Flips' /\ Locks'
<1>1. Existing' = Existing /\ ActiveAdmins' = ActiveAdmins
  BY DEF Existing, ActiveAdmins, ReadTarget
<1>2. /\ \A s \in Requests \ {r} : call'[s] = call[s]
      /\ ~call'[r].won /\ call'[r].rows = {} /\ call'[r].who = u
      /\ call'[r].op = op
      /\ call'[r].at \in {"guarded", "plain"}
      /\ call'[r].at = "plain" => op \notin {"demote", "deactivate"} \/ ~user[u].admin
  BY DEF ReadTarget, Idle, AdminInv, TypeOK
<1>3. op \in {"demote", "deactivate", "reactivate"} /\ u \in Existing
  BY OpsAssumption DEF ReadTarget, Guarded
<1>4. Rows'
  BY <1>1 DEF AdminInv, Rows, ServerHasAdmin, ReadTarget
<1>5. Registrations'
  BY <1>1, <1>2 DEF AdminInv, Registrations, ReadTarget
<1>6. Plains'
  BY <1>2, <1>3 DEF AdminInv, Plains, ReadTarget
<1>7. Flips'
  BY <1>1, <1>2, <1>3 DEF AdminInv, Flips, Deciding
<1>8. Locks'
  BY <1>2 DEF AdminInv, Locks, Deciding
<1> QED
  BY <1>4, <1>5, <1>6, <1>7, <1>8

LEMMA LockAdminsInv ==
    ASSUME AdminInv, NEW r \in Requests, LockAdmins(r)
    PROVE  Rows' /\ Registrations' /\ Plains' /\ Flips' /\ Locks'
<1>1. Existing' = Existing /\ ActiveAdmins' = ActiveAdmins
  BY DEF Existing, ActiveAdmins, LockAdmins
<1>2. /\ \A s \in Requests \ {r} : call'[s] = call[s]
      /\ call'[r].at = "locked" /\ call'[r].who = call[r].who
      /\ call'[r].won = call[r].won
      /\ call'[r].rows = {call[r].who} \cup ActiveAdmins
      /\ call[r].at = "guarded" /\ Engine = "postgresql"
  BY DEF LockAdmins, AdminInv, TypeOK, Call
<1>3. \A s \in Requests \ {r} : call[s].rows \cap ({call[r].who} \cup ActiveAdmins) = {}
  BY DEF LockAdmins, RowsFree
<1>4. \A s \in Requests \ {r} :
         Deciding(s) => call[s].who # call[r].who /\ call[s].who \notin ActiveAdmins
  BY <1>2, <1>3 DEF AdminInv, Locks
<1>5. Rows'
  BY <1>1 DEF AdminInv, Rows, ServerHasAdmin, LockAdmins
<1>6. Registrations'
  BY <1>1, <1>2 DEF AdminInv, Registrations, LockAdmins
<1>7. Plains'
  BY <1>2 DEF AdminInv, Plains, LockAdmins
<1>8. Flips'
  BY <1>1, <1>2, <1>4 DEF AdminInv, Flips, Deciding
<1>9. Locks'
  BY <1>2, <1>3 DEF AdminInv, Locks, Deciding
<1> QED
  BY <1>5, <1>6, <1>7, <1>8, <1>9

LEMMA FlipInv ==
    ASSUME AdminInv, NEW r \in Requests, Flip(r)
    PROVE  Rows' /\ Registrations' /\ Plains' /\ Flips' /\ Locks'
<1>1. CASE ActiveAdmins \ {call[r].who} = {}
  BY <1>1, QuietStep DEF Flip, AdminInv, TypeOK
<1>2. CASE ActiveAdmins \ {call[r].who} # {}
  <2>1. Existing' = Existing /\ ActiveAdmins' = ActiveAdmins
    BY DEF Existing, ActiveAdmins, Flip
  <2>2. /\ \A s \in Requests \ {r} : call'[s] = call[s]
        /\ call'[r].at = "flipped" /\ call'[r].who = call[r].who
        /\ call'[r].won = call[r].won
        /\ call'[r].rows = call[r].rows
        /\ call[r].at = IF Engine = "postgresql" THEN "locked" ELSE "guarded"
    BY <1>2 DEF Flip, AdminInv, TypeOK, Call
  <2>3. Engine # "postgresql" => \A s \in Requests \ {r} : ~Deciding(s)
    BY EngineAssumption DEF Flip, WriterFree, Writing, Deciding, AdminInv, Locks
  <2>4. Rows'
    BY <2>1 DEF AdminInv, Rows, ServerHasAdmin, Flip
  <2>5. Registrations'
    BY <2>1, <2>2 DEF AdminInv, Registrations, Flip
  <2>6. Plains'
    BY <2>2 DEF AdminInv, Plains, Flip
  <2>7. Flips'
    BY <1>2, <2>1, <2>2, <2>3 DEF AdminInv, Flips, Deciding
  <2>8. Locks'
    BY <2>2 DEF AdminInv, Locks, Deciding
  <2> QED
    BY <2>4, <2>5, <2>6, <2>7, <2>8
<1> QED
  BY <1>1, <1>2

LEMMA CommitFlipInv ==
    ASSUME AdminInv, NEW r \in Requests, CommitFlip(r)
    PROVE  Rows' /\ Registrations' /\ Plains' /\ Flips' /\ Locks'
<1> DEFINE u == call[r].who
<1>1. /\ u \in Existing /\ u \in Users
      /\ ActiveAdmins \ {u} # {}
      /\ call[r].at = "flipped"
  BY DEF CommitFlip, AdminInv, Flips, Existing
<1>2. /\ \A v \in Users \ {u} : user'[v] = user[v]
      /\ user'[u].exists = user[u].exists
      /\ user'[u].admin => user[u].admin
      /\ ~user'[u].admin \/ ~user'[u].active
      /\ claimed' = claimed
      /\ \A s \in Requests \ {r} : call'[s] = call[s]
      /\ call'[r] = Idle
  BY <1>1 DEF CommitFlip, AdminInv, TypeOK, User
<1>3. Existing' = Existing /\ ActiveAdmins' = ActiveAdmins \ {u}
  BY <1>1, <1>2 DEF Existing, ActiveAdmins
<1>4. /\ call'[r].at = "idle" /\ ~call'[r].won /\ call'[r].rows = {}
  BY <1>2 DEF Idle
<1>5. Rows'
  BY <1>1, <1>2, <1>3 DEF AdminInv, Rows, ServerHasAdmin
<1>6. Registrations'
  BY <1>2, <1>3, <1>4 DEF AdminInv, Registrations
<1>7. Plains'
  BY <1>2, <1>4 DEF AdminInv, Plains, SomeUser
<1>8. ASSUME NEW s \in Requests \ {r}, call[s].at = "flipped"
      PROVE  (ActiveAdmins \ {u}) \ {call[s].who} # {}
  <2>1. u # call[s].who /\ ~(u \in ActiveAdmins /\ call[s].who \in ActiveAdmins)
    BY <1>1, <1>8 DEF AdminInv, Flips, Deciding
  <2>2. ActiveAdmins \ {call[s].who} # {}
    BY <1>8 DEF AdminInv, Flips
  <2> QED
    BY <1>1, <2>1, <2>2
<1>9. Flips'
  BY <1>2, <1>3, <1>4, <1>8 DEF AdminInv, Flips, Deciding
<1>10. Locks'
  BY <1>2, <1>4 DEF AdminInv, Locks, Deciding
<1> QED
  BY <1>5, <1>6, <1>7, <1>9, <1>10

LEMMA PlainInv ==
    ASSUME AdminInv, NEW r \in Requests, Plain(r)
    PROVE  Rows' /\ Registrations' /\ Plains' /\ Flips' /\ Locks'
<1> DEFINE u == call[r].who
<1>1. /\ u \in Existing /\ u \in Users
      /\ call[r].at = "plain"
      /\ call[r].op \in {"demote", "deactivate", "reactivate"}
      /\ call[r].op # "reactivate" => ~user[u].admin
  BY DEF Plain, AdminInv, Flips, Plains, Existing
<1>2. /\ claimed' = claimed
      /\ \A s \in Requests \ {r} : call'[s] = call[s]
      /\ call'[r] = Idle
  BY DEF Plain, AdminInv, TypeOK
<1>3. /\ \A v \in Users \ {u} : user'[v] = user[v]
      /\ user'[u].exists = user[u].exists
      /\ user'[u].admin = user[u].admin
      /\ user[u].admin /\ user[u].active => user'[u].active
  <2>1. CASE call[r].op = "reactivate"
    BY <1>1, <2>1 DEF Plain, AdminInv, TypeOK, User
  <2>2. CASE call[r].op = "demote"
    BY <1>1, <2>2 DEF Plain, AdminInv, TypeOK, User
  <2>3. CASE call[r].op = "deactivate"
    BY <1>1, <2>3 DEF Plain, AdminInv, TypeOK, User
  <2> QED
    BY <1>1, <2>1, <2>2, <2>3
<1>4. /\ Existing' = Existing
      /\ ActiveAdmins \subseteq ActiveAdmins'
      /\ ActiveAdmins' \subseteq ActiveAdmins \cup {u}
  BY <1>1, <1>3 DEF Existing, ActiveAdmins
<1>5. /\ call'[r].at = "idle" /\ ~call'[r].won /\ call'[r].rows = {}
  BY <1>2 DEF Idle
<1>6. Rows'
  BY <1>2, <1>3, <1>4 DEF AdminInv, Rows, ServerHasAdmin
<1>7. Registrations'
  BY <1>2, <1>4, <1>5 DEF AdminInv, Registrations
<1>8. Plains'
  BY <1>2, <1>3, <1>5 DEF AdminInv, Plains, SomeUser
<1>9. \A s \in Requests \ {r} : Deciding(s) /\ Engine = "postgresql" => call[s].who # u
  BY DEF Plain, RowsFree, AdminInv, Locks
<1>10. Flips'
  BY <1>2, <1>4, <1>5, <1>9 DEF AdminInv, Flips, Deciding
<1>11. Locks'
  BY <1>2, <1>5 DEF AdminInv, Locks, Deciding
<1> QED
  BY <1>6, <1>7, <1>8, <1>10, <1>11

LEMMA AdminInvHolds == ASSUME Guarded PROVE Spec => []AdminInv
<1>1. AdminInv /\ [Next]_vars => Rows' /\ Registrations' /\ Plains' /\ Flips' /\ Locks'
  <2> SUFFICES ASSUME AdminInv, [Next]_vars
               PROVE  Rows' /\ Registrations' /\ Plains' /\ Flips' /\ Locks'
    OBVIOUS
  <2>1. ASSUME NEW r \in Requests, Abort(r)
        PROVE  Rows' /\ Registrations' /\ Plains' /\ Flips' /\ Locks'
    BY <2>1, QuietStep DEF Abort, AdminInv, TypeOK
  <2>2. CASE UNCHANGED vars
    <3>1. /\ Existing' = Existing /\ ActiveAdmins' = ActiveAdmins
          /\ call' = call /\ user' = user /\ claimed' = claimed
      BY <2>2 DEF vars, Existing, ActiveAdmins
    <3> QED
      BY <3>1 DEF AdminInv, Rows, ServerHasAdmin, Registrations, Plains, Flips, Locks, Deciding
  <2> QED
    BY <2>1, <2>2, RegisterReadInv, ClaimInv, CreateAccountInv, CreateUserInv, ReadTargetInv,
       LockAdminsInv, FlipInv, CommitFlipInv, PlainInv DEF Next, Step
<1> QED
  BY <1>1, InitAdminInv, TypeCorrect, PTL DEF Spec, AdminInv

\* However many demotions, deactivations, registrations and crashes interleave,
\* a server with accounts keeps an active admin.
THEOREM ServerKeepsAdmin == ASSUME Guarded PROVE Spec => []ServerHasAdmin
<1>1. AdminInv => ServerHasAdmin
  BY DEF AdminInv, Rows
<1> QED
  BY <1>1, AdminInvHolds, PTL

-----------------------------------------------------------------------------
\* An empty server: who becomes admin

\* There is at most one admin; a claim that is won and not yet used is the only
\* one, and finds none; no admin without the claim.  On PostgreSQL the claim is
\* committed with the account, on SQLite before it.
Bootstrap ==
    /\ \A u, v \in Users : user[u].admin /\ user[v].admin => u = v
    /\ \A u \in Users : user[u].admin => claimed
    /\ \A r \in Requests : call[r].won =>
          /\ call[r].at = "creating"
          /\ \A u \in Users : ~user[u].admin
          /\ \A s \in Requests : call[s].won => s = r
          /\ claimed <=> Engine = "sqlite"

\* A step that makes nobody admin and wins no claim.
LEMMA NobodyPromoted ==
    ASSUME Bootstrap, claimed => claimed', NEW r \in Requests,
           \A u \in Users : user'[u].admin => user[u].admin,
           \A s \in Requests \ {r} : call'[s] = call[s],
           call'[r].won => call[r].won /\ call'[r].at = call[r].at,
           claimed' = claimed
    PROVE  Bootstrap'
BY DEF Bootstrap

LEMMA BootstrapStep ==
    ASSUME "grant" \notin Ops
    PROVE  TypeOK /\ SomeUser /\ Bootstrap /\ [Next]_vars => Bootstrap'
<1> SUFFICES ASSUME TypeOK, SomeUser, Bootstrap, [Next]_vars PROVE Bootstrap'
  OBVIOUS
<1>1. ~Idle.won
  BY DEF Idle
<1>2. ASSUME NEW r \in Requests, call' = [call EXCEPT ![r] = Idle], claimed' = claimed,
             \A u \in Users : user'[u].admin => user[u].admin
      PROVE  Bootstrap'
  BY <1>1, <1>2, NobodyPromoted DEF TypeOK
<1>3. ASSUME NEW r \in Requests, Claim(r) PROVE Bootstrap'
  <2>1. /\ \A s \in Requests \ {r} : call'[s] = call[s]
        /\ call'[r].at = "creating" /\ call'[r].won = ~claimed /\ ~call[r].won
        /\ claimed' = (claimed \/ Engine = "sqlite") /\ user' = user
    BY <1>3 DEF Claim, TypeOK, Call, Bootstrap
  <2>2. CASE claimed
    BY <2>1, <2>2 DEF Bootstrap
  <2>3. CASE ~claimed
    <3>1. \A s \in Requests \ {r} : ~call[s].won
      BY <1>3, <2>3, EngineAssumption DEF Claim, Bootstrap
    <3> QED
      BY <2>1, <2>3, <3>1 DEF Bootstrap
  <2> QED
    BY <2>2, <2>3
<1>4. ASSUME NEW r \in Requests, CreateAccount(r) PROVE Bootstrap'
  <2>1. CASE call[r].who \in Existing
    BY <1>2, <1>4, <2>1 DEF CreateAccount
  <2>2. CASE call[r].who \notin Existing
    <3> DEFINE u == call[r].who
    <3>1. /\ u \in Users /\ call' = [call EXCEPT ![r] = Idle]
          /\ claimed' = (claimed \/ call[r].won)
          /\ \A v \in Users : user'[v].admin <=> IF v = u THEN call[r].won ELSE user[v].admin
      BY <1>4, <2>2 DEF CreateAccount, TypeOK, SomeUser
    <3>2. CASE call[r].won
      <4>1. \A s \in Requests : ~call'[s].won
        BY <1>1, <3>1, <3>2 DEF Bootstrap, TypeOK
      <4> QED
        BY <3>1, <3>2, <4>1 DEF Bootstrap
    <3>3. CASE ~call[r].won
      BY <1>2, <3>1, <3>3 DEF TypeOK
    <3> QED
      BY <3>2, <3>3
  <2> QED
    BY <2>1, <2>2
<1>5. ASSUME NEW r \in Requests, LockAdmins(r) \/ Flip(r) PROVE Bootstrap'
  <2>1. /\ \A s \in Requests \ {r} : call'[s] = call[s]
        /\ call[r].at # "creating"
        /\ user' = user /\ claimed' = claimed
        /\ call'[r].won => call[r].won
    <3>1. CASE LockAdmins(r)
      BY <3>1 DEF LockAdmins, TypeOK, Call
    <3>2. CASE Flip(r)
      BY <1>1, <3>2 DEF Flip, TypeOK, Call
    <3> QED
      BY <1>5, <3>1, <3>2
  <2> QED
    BY <2>1 DEF Bootstrap
<1>6. ASSUME NEW r \in Requests, CommitFlip(r) PROVE Bootstrap'
  BY <1>2, <1>6 DEF CommitFlip, TypeOK, User
<1>7. ASSUME NEW r \in Requests, Plain(r), call[r].op # "grant" PROVE Bootstrap'
  <2>1. \A v \in Users : user'[v].admin => user[v].admin
    BY <1>7 DEF Plain, TypeOK, User
  <2> QED
    BY <1>2, <1>7, <2>1 DEF Plain
<1>8. ASSUME NEW r \in Requests, Abort(r) PROVE Bootstrap'
  BY <1>2, <1>8 DEF Abort
<1>9. ASSUME NEW r \in Requests, NEW u \in Users, RegisterRead(r, u) PROVE Bootstrap'
  BY <1>9, NobodyPromoted DEF RegisterRead, Idle, TypeOK
<1>10. ASSUME NEW r \in Requests, NEW u \in Users, NEW op \in Ops, ReadTarget(r, op, u)
       PROVE  Bootstrap'
  BY <1>10, NobodyPromoted DEF ReadTarget, Idle, TypeOK
<1>11. ASSUME NEW u \in Users, CreateUser(u) PROVE Bootstrap'
  BY <1>11 DEF CreateUser, TypeOK, User, Bootstrap
<1>12. CASE UNCHANGED vars
  BY <1>12 DEF vars, Bootstrap
<1>13. \A r \in Requests : call[r].op # "grant"
  BY DEF TypeOK, Call
<1> QED
  BY <1>3, <1>4, <1>5, <1>6, <1>7, <1>8, <1>9, <1>10, <1>11, <1>12, <1>13 DEF Next, Step

-----------------------------------------------------------------------------
\* The proofs of the parts, for the parts as MCPeople runs them.  SP, MP and OP are
\* the modules S, M and O with their proofs: the same definitions, twice named.

SP == INSTANCE SessionsProofs WITH Requests <- Pair, Sessions <- SessionRows, call <- scall
MP == INSTANCE MembersProofs WITH Requests <- Pair, call <- mcall
OP == INSTANCE OAuthProofs WITH Users <- FirstAdmins, Requests <- Pair,
                                None <- NoUser, call <- ocall

LEMMA SameSessions ==
    /\ S!Init <=> SP!Init
    /\ S!Next <=> SP!Next
    /\ S!TypeOK <=> SP!TypeOK
    /\ S!SessionsAreCurrent <=> SP!SessionsAreCurrent
    /\ S!TempMustBeChanged <=> SP!TempMustBeChanged
    /\ S!Idle = SP!Idle
<1> USE DEF S!vars, SP!vars, S!Identity, SP!Identity, S!Session, SP!Session, S!Call,
            SP!Call, S!Chosen, SP!Chosen, S!Idle, SP!Idle, S!Live, SP!Live, S!TypeOK,
            SP!TypeOK, S!Init, SP!Init, S!IdentityFree, SP!IdentityFree, S!Begin,
            SP!Begin, S!LoginVerify, SP!LoginVerify, S!LoginActive, SP!LoginActive,
            S!LoginStore, SP!LoginStore, S!Logout, SP!Logout, S!ChangeRead,
            SP!ChangeRead, S!ResetRead, SP!ResetRead, S!WriteKeepingAll,
            SP!WriteKeepingAll, S!Write, SP!Write, S!Revoked, SP!Revoked, S!Commit,
            SP!Commit, S!DeactivateWrite, SP!DeactivateWrite, S!DeactivateCommit,
            SP!DeactivateCommit, S!Reactivate, SP!Reactivate, S!Abort, SP!Abort, S!Next,
            SP!Next, S!SessionsAreCurrent, SP!SessionsAreCurrent, S!TempMustBeChanged,
            SP!TempMustBeChanged
<1>1. S!Init <=> SP!Init
  OBVIOUS
<1>2. S!Next <=> SP!Next
  OBVIOUS
<1>3. S!TypeOK <=> SP!TypeOK
  OBVIOUS
<1>4. S!SessionsAreCurrent <=> SP!SessionsAreCurrent
  OBVIOUS
<1>5. S!TempMustBeChanged <=> SP!TempMustBeChanged
  OBVIOUS
<1>6. S!Idle = SP!Idle
  OBVIOUS
<1> HIDE DEF S!Init, SP!Init, S!Next, SP!Next
<1> QED
  BY <1>1, <1>2, <1>3, <1>4, <1>5, <1>6

LEMMA SameMembers ==
    /\ M!Init <=> MP!Init
    /\ M!Next <=> MP!Next
    /\ M!TypeOK <=> MP!TypeOK
    /\ M!Idle = MP!Idle
    /\ M!Roster = MP!Roster /\ M!Owners = MP!Owners
<1> USE DEF M!vars, MP!vars, M!Roles, MP!Roles, M!Call, MP!Call, M!Idle, MP!Idle,
            M!Roster, MP!Roster, M!Owners, MP!Owners, M!TypeOK, MP!TypeOK, M!Init,
            MP!Init, M!CreateWorkspace, MP!CreateWorkspace, M!AddReadByMember,
            MP!AddReadByMember, M!AddRead, MP!AddRead, M!AddInsert, MP!AddInsert,
            M!ChangeRead, MP!ChangeRead, M!ChangeWrite, MP!ChangeWrite, M!Abort,
            MP!Abort, M!Next, MP!Next
<1>1. M!Init <=> MP!Init
  OBVIOUS
<1>2. M!Next <=> MP!Next
  BY DEF M!Cardinality, MP!Cardinality
<1>3. M!TypeOK <=> MP!TypeOK
  OBVIOUS
<1>4. M!Idle = MP!Idle
  OBVIOUS
<1>5. M!Roster = MP!Roster
  OBVIOUS
<1>6. M!Owners = MP!Owners
  OBVIOUS
<1> HIDE DEF M!Init, MP!Init, M!Next, MP!Next
<1> QED
  BY <1>1, <1>2, <1>3, <1>4, <1>5, <1>6

LEMMA SameOAuth ==
    /\ O!Init <=> OP!Init
    /\ O!Next <=> OP!Next
    /\ O!TypeOK <=> OP!TypeOK
    /\ O!FlowsEndOnce <=> OP!FlowsEndOnce
    /\ O!LinkedOnRequest <=> OP!LinkedOnRequest
<1> USE DEF O!vars, OP!vars, O!Subjects, OP!Subjects, O!Txn, OP!Txn, O!Unused, OP!Unused,
            O!Call, OP!Call, O!Idle, OP!Idle, O!TypeOK, OP!TypeOK, O!Init, OP!Init,
            O!Start, OP!Start, O!Expire, OP!Expire, O!SignIn, OP!SignIn, O!Received,
            OP!Received, O!Claim, OP!Claim, O!Consume, OP!Consume, O!Answered,
            OP!Answered, O!Refused, OP!Refused, O!Continued, OP!Continued, O!LinkRead,
            OP!LinkRead, O!LinkWrite, OP!LinkWrite, O!LoginReadByEmail,
            OP!LoginReadByEmail, O!LoginRead, OP!LoginRead, O!LoginCreate,
            OP!LoginCreate, O!Register, OP!Register, O!Abort, OP!Abort, O!Next, OP!Next,
            O!FlowsEndOnce, OP!FlowsEndOnce, O!LinkedOnRequest, OP!LinkedOnRequest
<1>1. O!Init <=> OP!Init
  OBVIOUS
<1>2. O!Next <=> OP!Next
  OBVIOUS
<1>3. O!TypeOK <=> OP!TypeOK
  OBVIOUS
<1>4. O!FlowsEndOnce <=> OP!FlowsEndOnce
  OBVIOUS
<1>5. O!LinkedOnRequest <=> OP!LinkedOnRequest
  OBVIOUS
<1> HIDE DEF O!Init, OP!Init, O!Next, OP!Next
<1> QED
  BY <1>1, <1>2, <1>3, <1>4, <1>5

LEMMA AtMostOne ==
    ASSUME NEW T, IsFiniteSet(T), Cardinality(T) <= 1
    PROVE  \A x, y \in T : x = y
<1> SUFFICES ASSUME NEW x \in T, NEW y \in T, x # y PROVE FALSE
  OBVIOUS
<1>1. IsFiniteSet({x}) /\ Cardinality({x}) = 1
  BY FS_Singleton
<1>2. Cardinality({x} \cup {y}) = 2
  BY <1>1, FS_AddElement
<1>3. Cardinality({x} \cup {y}) <= Cardinality(T) /\ Cardinality(T) \in Nat
  BY FS_Subset, FS_CardinalityType
<1> QED
  BY <1>2, <1>3

\* What PeopleNext leaves to each part.
LEMMA PartSteps ==
    PeopleNext =>
       /\ part' = part
       /\ part = "accounts" => MCNext
       /\ part # "accounts" => UNCHANGED accountVars
       /\ part = "members" => M!MCNext
       /\ part # "members" => UNCHANGED memberVars
       /\ part = "sessions" => SessionsNext
       /\ part = "oauth" => O!Next
       /\ part = "projects" => ProjectsNext
       /\ part = "external" => ExternalNext
BY DEF PeopleNext

peopleVars == <<part, accountVars, memberVars, sessionVars, oauthVars, projectVars, externalVars>>

-----------------------------------------------------------------------------
\* Sessions

SessionsInv ==
    part = "sessions" => SP!TypeInv /\ sserial \in BOOLEAN /\ (sserial => SP!SerialInv)

LEMMA SessionsAlone ==
    ASSUME SessionsNext, sserial PROVE SP!Alone'
<1> DEFINE Busy == {r \in Pair : scall'[r] # S!Idle}
<1>1. IsFiniteSet(Busy) /\ Cardinality(Busy) <= 1
  BY PartsAssumption, FS_Subset DEF SessionsNext
<1>2. \A r, s \in Busy : r = s
  BY <1>1, AtMostOne
<1> QED
  BY <1>2, SameSessions DEF SP!Alone, SP!Idle

\* Of the accounts whose requests are served one after the other, also when they die
\* in the middle, nobody is signed in on a replaced password or from before a
\* deactivation, and an issued password must be changed, in every run of MCPeople.
THEOREM SessionsOfPeople == PeopleSpec => []SerialSessionsAreCurrent
<1>1. PeopleInit => SessionsInv
  <2> SUFFICES ASSUME PeopleInit, part = "sessions" PROVE SessionsInv
    BY DEF SessionsInv
  <2>1. SP!Init /\ sserial \in BOOLEAN
    BY SameSessions DEF PeopleInit
  <2> QED
    BY <2>1, PartsAssumption, SP!TypeInit, SP!SerialInit DEF SessionsInv
<1>2. SessionsInv /\ [PeopleNext]_peopleVars => SessionsInv'
  <2> SUFFICES ASSUME SessionsInv, [PeopleNext]_peopleVars, part' = "sessions"
               PROVE  SessionsInv'
    BY DEF SessionsInv
  <2>1. CASE UNCHANGED peopleVars
    <3>1. UNCHANGED <<part, sserial, active, identity, sess, epoch, scall>>
      BY <2>1 DEF peopleVars, sessionVars
    <3>2. [FALSE]_SP!vars
      BY <3>1 DEF SP!vars
    <3>3. SP!TypeInv'
      BY <3>1, <3>2, PartsAssumption, SP!TypeStep DEF SessionsInv
    <3> QED
      BY <3>1, <3>2, <3>3, PartsAssumption, SP!SerialStep DEF SessionsInv
  <2>2. CASE PeopleNext
    <3>1. part = "sessions" /\ SessionsNext
      BY <2>2, PartSteps
    <3>2. SP!Next /\ sserial' = sserial
      BY <3>1, SameSessions DEF SessionsNext
    <3>3. SP!TypeInv'
      BY <3>1, <3>2, PartsAssumption, SP!TypeStep DEF SessionsInv
    <3>4. sserial => SP!SerialInv'
      BY <3>1, <3>2, <3>3, SessionsAlone, PartsAssumption, SP!SerialStep DEF SessionsInv
    <3> QED
      BY <3>1, <3>2, <3>3, <3>4 DEF SessionsInv
  <2> QED
    BY <2>1, <2>2
<1>3. SessionsInv => SerialSessionsAreCurrent
  BY SameSessions DEF SessionsInv, SerialSessionsAreCurrent, SP!SerialInv, SP!TypeInv
<1> QED
  BY <1>1, <1>2, <1>3, PTL DEF PeopleSpec, peopleVars

-----------------------------------------------------------------------------
\* Signing in through a provider

FlowsInv == part = "oauth" => OP!FlowInv /\ OP!AskedInv

\* However often, and from wherever, callbacks come, overlap and die: a flow ends
\* once, in the browser and in the account it began in, in every run of MCPeople.
THEOREM FlowsOfPeople == PeopleSpec => []FlowsEndWhereTheyBegan
<1>1. PeopleInit => FlowsInv
  BY SameOAuth, OP!FlowInit, OP!AskedInit DEF PeopleInit, FlowsInv
<1>2. FlowsInv /\ [PeopleNext]_peopleVars => FlowsInv'
  <2> SUFFICES ASSUME FlowsInv, [PeopleNext]_peopleVars, part' = "oauth" PROVE FlowsInv'
    BY DEF FlowsInv
  <2>1. part = "oauth" /\ [OP!Next]_OP!vars
    <3>1. CASE UNCHANGED peopleVars
      BY <3>1 DEF peopleVars, oauthVars, OP!vars
    <3>2. CASE PeopleNext
      BY <3>2, PartSteps, SameOAuth
    <3> QED
      BY <3>1, <3>2
  <2>2. OP!TypeInv'
    BY <2>1, OP!TypeStep DEF FlowsInv, OP!FlowInv
  <2> QED
    BY <2>1, <2>2, OP!FlowStep, OP!AskedStep DEF FlowsInv
<1>3. FlowsInv => FlowsEndWhereTheyBegan
  BY SameOAuth DEF FlowsInv, FlowsEndWhereTheyBegan, OP!FlowInv, OP!AskedInv, OP!TypeInv
<1> QED
  BY <1>1, <1>2, <1>3, PTL DEF PeopleSpec, peopleVars

-----------------------------------------------------------------------------
\* The members of a workspace

MembersInv == MP!TypeInv /\ mserial \in BOOLEAN /\ (mserial => MP!SerialInv)

LEMMA MembersAlone ==
    ASSUME M!MCNext, mserial PROVE MP!Alone'
<1> DEFINE Busy == {r \in Pair : mcall'[r] # M!Idle}
<1>1. M!Cardinality(Busy) = Cardinality(Busy)
  BY DEF M!Cardinality, Cardinality
<1>2. IsFiniteSet(Busy) /\ Cardinality(Busy) <= 1
  BY <1>1, PartsAssumption, FS_Subset DEF M!MCNext
<1>3. \A r, s \in Busy : r = s
  BY <1>2, AtMostOne
<1> QED
  BY <1>3, SameMembers DEF MP!Alone, MP!Idle

\* What SerialOwnersDecide says of a step.
OwnersDecide ==
    mserial => (M!Roster' # {} => M!Owners' # {}) /\
               \A t \in M!Roster' \ M!Roster : M!Roster # {} =>
                  \E r \in Pair : mcall[r].who = t /\ mcall[r].by \in M!Owners

LEMMA MembersStep ==
    MembersInv /\ [PeopleNext]_peopleVars =>
       MembersInv' /\ [M!TypeOK']_memberVars /\ [OwnersDecide]_M!vars
<1> SUFFICES ASSUME MembersInv, [PeopleNext]_peopleVars
             PROVE  MembersInv' /\ M!TypeOK' /\ [OwnersDecide]_M!vars
  OBVIOUS
<1>0. MP!TypeInv' => M!TypeOK'
  BY DEF MP!TypeInv, M!TypeOK, MP!TypeOK, M!Roles, MP!Roles, M!Call, MP!Call
<1>1. CASE M!MCNext
  <2>1. MP!Next /\ mserial' = mserial
    BY <1>1, SameMembers DEF M!MCNext
  <2>2. MP!TypeInv'
    BY <2>1, MP!TypeStep DEF MembersInv
  <2>3. mserial => MP!SerialInv' /\ (MP!LetIn \/ UNCHANGED MP!vars)
    BY <1>1, <2>1, <2>2, MembersAlone, MP!SerialStep DEF MembersInv
  <2>4. [OwnersDecide]_M!vars
    BY <2>3, SameMembers
       DEF OwnersDecide, M!vars, MP!vars, MP!LetIn, MP!SerialInv, MP!HasOwner,
           M!Roster, MP!Roster, M!Owners, MP!Owners
  <2> QED
    BY <1>0, <2>1, <2>2, <2>3, <2>4 DEF MembersInv
<1>2. CASE UNCHANGED memberVars
  <2>1. [FALSE]_MP!vars /\ mserial' = mserial
    BY <1>2 DEF memberVars, MP!vars
  <2>2. MP!TypeInv'
    BY <2>1, MP!TypeStep DEF MembersInv
  <2>3. mserial => MP!SerialInv'
    BY <2>1, <2>2, MP!SerialStep DEF MembersInv
  <2>4. UNCHANGED M!vars
    BY <1>2 DEF memberVars, M!vars
  <2> QED
    BY <1>0, <2>1, <2>2, <2>3, <2>4 DEF MembersInv
<1> QED
  BY <1>1, <1>2, PartSteps DEF peopleVars, memberVars

\* Requests about members served one after the other, some of which die: a
\* workspace with members has an owner, and nobody enters it other than through
\* one, in every run of MCPeople.
THEOREM MembersOfPeople == PeopleSpec => SerialOwnersDecide
<1>1. PeopleInit => MembersInv
  BY SameMembers, MP!TypeInit, MP!SerialInit DEF PeopleInit, M!MCInit, MembersInv
<1>2. PeopleSpec => [][M!TypeOK']_memberVars /\ [][OwnersDecide]_M!vars
  BY <1>1, MembersStep, PTL DEF PeopleSpec, peopleVars
<1> QED
  BY <1>2, PTL DEF SerialOwnersDecide, M!SerialOwnersDecide, OwnersDecide

-----------------------------------------------------------------------------
\* The first admin of a server

BootstrapInv == server = "empty postgresql" => TypeOK /\ SomeUser /\ Bootstrap

\* Registrations that race on an empty server, win the claim, find their email taken
\* or die: at most one of them becomes admin, in every run of MCPeople in which
\* nobody is promoted (_claim_bootstrap_admin).
THEOREM BootstrapOfPeople ==
    ASSUME "grant" \notin Ops PROVE PeopleSpec => []OneBootstrapWhenEmpty
<1>1. PeopleInit => BootstrapInv
  <2> SUFFICES ASSUME MCInit, server = "empty postgresql" PROVE TypeOK /\ SomeUser /\ Bootstrap
    BY DEF PeopleInit, BootstrapInv
  <2>1. /\ user = [u \in Users |-> NoAccount] /\ claimed = FALSE
        /\ call = [r \in Requests |-> Idle]
    BY DEF MCInit, Empty!Init, Empty!NoAccount, NoAccount, Empty!Idle, Idle
  <2>2. TypeOK /\ SomeUser
    BY <2>1, IdleIsCall DEF TypeOK, User, NoAccount, SomeUser, Idle
  <2>3. Bootstrap
    BY <2>1 DEF Bootstrap, NoAccount, Idle
  <2> QED
    BY <2>2, <2>3
<1>2. BootstrapInv /\ [PeopleNext]_peopleVars => BootstrapInv'
  <2> SUFFICES ASSUME BootstrapInv, [PeopleNext]_peopleVars, server' = "empty postgresql"
               PROVE  BootstrapInv'
    BY DEF BootstrapInv
  <2>1. server = "empty postgresql" /\ [Next]_vars
    <3>1. CASE UNCHANGED accountVars
      BY <3>1 DEF accountVars
    <3>2. CASE MCNext
      BY <3>2 DEF MCNext
    <3> QED
      BY <3>1, <3>2, PartSteps DEF peopleVars
  <2> QED
    BY <2>1, TypeStep, BootstrapStep DEF BootstrapInv
<1>3. BootstrapInv => OneBootstrapWhenEmpty
  <2> SUFFICES ASSUME Bootstrap PROVE OneBootstrap
    BY DEF BootstrapInv, OneBootstrapWhenEmpty
  <2> DEFINE A == {u \in Users : user[u].admin}
  <2>1. A = {} \/ \E u \in A : A = {u}
    BY DEF Bootstrap
  <2>2. Cardinality(A) \in {0, 1}
    BY <2>1, FS_EmptySet, FS_Singleton
  <2> QED
    BY <2>2 DEF OneBootstrap
<1> QED
  BY <1>1, <1>2, <1>3, PTL DEF PeopleSpec, peopleVars

-----------------------------------------------------------------------------
\* Projects

\* A request that works has a project; one that creates has an id that is not in use,
\* for itself.
ProjectsUnderway ==
    \A r \in Pair :
       /\ pcall[r].at # "idle" => pcall[r].id \in Ids
       /\ pcall[r].at \in {"creating", "copying"} =>
             /\ pcall[r].slug \in P!Slugs
             /\ project[pcall[r].id] = NoUser
             /\ \A s \in Pair \ {r} : pcall[s].id # pcall[r].id

ProjectsInv == P!TypeOK /\ ProjectsUnderway /\ P!RowsBelong

LEMMA ProjectsIdle == P!Idle \in P!Call /\ P!Idle.at = "idle" /\ P!Idle.id = NoUser /\ P!Idle.rows = {}
BY DEF P!Idle, P!Call

LEMMA ProjectsInit == P!Init => ProjectsInv
BY ProjectsIdle
   DEF P!Init, ProjectsInv, P!TypeOK, ProjectsUnderway, P!RowsBelong, P!There

\* A request that goes on, without a write.
LEMMA ProjectsQuiet ==
    ASSUME ProjectsInv, NEW r \in Pair, NEW c \in P!Call, P!Goto(r, c),
           project' = project, rowOf' = rowOf, c.at # "idle" => c.id \in Ids,
           c.at \in {"creating", "copying"} =>
              /\ c.slug \in P!Slugs
              /\ project[c.id] = NoUser /\ \A s \in Pair \ {r} : pcall[s].id # c.id,
           c.id = pcall[r].id \/ c.id = NoUser \/ c.id \in P!There
              \/ \A s \in Pair \ {r} : pcall[s].id # c.id
    PROVE  ProjectsInv'
<1>1. pcall \in [Pair -> P!Call] /\ pcall' = [pcall EXCEPT ![r] = c]
  BY DEF ProjectsInv, P!TypeOK, P!Goto
<1>2. pcall' \in [Pair -> P!Call] /\ pcall'[r] = c /\ \A s \in Pair \ {r} : pcall'[s] = pcall[s]
  BY <1>1
<1>3. P!There' = P!There
  BY DEF P!There
<1>4. ASSUME NEW s \in Pair \ {r}, pcall[s].at \in {"creating", "copying"}
      PROVE  c.id # pcall[s].id
  <2>1. project[pcall[s].id] = NoUser /\ pcall[s].id # pcall[r].id /\ pcall[s].id \in Ids
    BY <1>4 DEF ProjectsInv, ProjectsUnderway
  <2> QED
    BY <1>4, <2>1, ProjectsAssumption DEF P!There
<1>5. ProjectsUnderway'
  BY <1>2, <1>4 DEF ProjectsInv, ProjectsUnderway
<1> QED
  BY <1>2, <1>3, <1>5 DEF ProjectsInv, P!TypeOK, P!RowsBelong

LEMMA ProjectsIdleAgain ==
    ASSUME ProjectsInv, NEW r \in Pair, P!Goto(r, P!Idle), UNCHANGED <<project, rowOf>>
    PROVE  ProjectsInv'
BY ProjectsIdle, ProjectsQuiet

\* A request that writes the row of its project p and ends.
LEMMA ProjectsWrite ==
    ASSUME ProjectsInv, NEW r \in Pair, P!Goto(r, P!Idle), rowOf' = rowOf,
           NEW x \in P!Project, project' = [project EXCEPT ![pcall[r].id] = x],
           pcall[r].id \in Ids, project[pcall[r].id] # Gone,
           \A s \in Pair \ {r} : pcall[s].at \in {"creating", "copying"} => pcall[s].id # pcall[r].id,
           \A q \in P!There \ {pcall[r].id} : project[q].slug # x.slug
    PROVE  ProjectsInv'
<1> DEFINE p == pcall[r].id
<1>1. /\ pcall \in [Pair -> P!Call] /\ project \in [Ids -> P!Project \cup {NoUser, Gone}]
      /\ rowOf \in [Kids -> Ids \cup {NoUser, Gone}] /\ p \in Ids
  BY DEF ProjectsInv, P!TypeOK
<1>2. /\ pcall' \in [Pair -> P!Call] /\ pcall'[r] = P!Idle
      /\ \A s \in Pair \ {r} : pcall'[s] = pcall[s]
  BY <1>1, ProjectsIdle DEF P!Goto
<1>3. /\ project' \in [Ids -> P!Project \cup {NoUser, Gone}]
      /\ project'[p] = x /\ \A q \in Ids \ {p} : project'[q] = project[q]
  BY <1>1
<1>4. P!There' = P!There \cup {p}
  BY <1>1, <1>3, ProjectsAssumption DEF P!There
<1> HIDE DEF p
<1>5. P!RowsBelong'
  <2>1. \A k \in Kids : rowOf'[k] \notin {NoUser, Gone} => rowOf'[k] \in P!There'
    BY <1>4 DEF ProjectsInv, P!RowsBelong
  <2>2. ASSUME NEW q \in P!There', NEW o \in P!There', project'[q].slug = project'[o].slug
        PROVE  q = o
    BY <1>3, <1>4, <2>2 DEF ProjectsInv, P!RowsBelong, P!There, p
  <2> QED
    BY <2>1, <2>2 DEF P!RowsBelong
<1>6. ProjectsUnderway'
  BY <1>2, <1>3, ProjectsIdle, ProjectsAssumption DEF ProjectsInv, ProjectsUnderway, p
<1> QED
  BY <1>1, <1>2, <1>3, <1>5, <1>6 DEF ProjectsInv, P!TypeOK

LEMMA ProjectsInserted ==
    ASSUME ProjectsInv, NEW r \in Pair, pcall[r].at \in {"creating", "copying"}, P!Inserted(r)
    PROVE  ProjectsInv'
<1>1. /\ P!Goto(r, P!Idle) /\ rowOf' = rowOf /\ pcall[r].id \in Ids /\ pcall[r].slug \in P!Slugs
      /\ project[pcall[r].id] = NoUser /\ \A s \in Pair \ {r} : pcall[s].id # pcall[r].id
      /\ pcall[r].folder \in Folders \cup {NoUser}
  BY DEF P!Inserted, ProjectsInv, ProjectsUnderway, P!TypeOK, P!Call
<1>2. CASE P!SlugFree(pcall[r].slug)
  <2> DEFINE x == [slug |-> pcall[r].slug, folder |-> pcall[r].folder, archived |-> FALSE]
  <2>1. x \in P!Project /\ project' = [project EXCEPT ![pcall[r].id] = x] /\ x.slug = pcall[r].slug
    BY <1>1, <1>2 DEF P!Inserted, P!Project
  <2> HIDE DEF x
  <2> QED
    <3>1. project[pcall[r].id] # Gone
      BY <1>1, ProjectsAssumption
    <3>2. \A q \in P!There \ {pcall[r].id} : project[q].slug # x.slug
      BY <1>2, <2>1 DEF P!SlugFree
    <3> QED
      BY <1>1, <2>1, <3>1, <3>2, ProjectsWrite
<1>3. CASE ~P!SlugFree(pcall[r].slug)
  BY <1>1, <1>3, ProjectsIdleAgain DEF P!Inserted
<1> QED
  BY <1>2, <1>3

\* A request that changes a project that is there, in its folder or its archiving.
LEMMA ProjectsChanged ==
    ASSUME ProjectsInv, NEW r \in Pair, P!Goto(r, P!Idle), rowOf' = rowOf,
           pcall[r].id \in P!There, NEW x \in P!Project, x.slug = project[pcall[r].id].slug,
           project' = [project EXCEPT ![pcall[r].id] = x]
    PROVE  ProjectsInv'
<1>1. pcall[r].id \in Ids /\ project[pcall[r].id] \notin {NoUser, Gone}
  BY DEF P!There
<1>2. \A s \in Pair \ {r} : pcall[s].at \in {"creating", "copying"} => pcall[s].id # pcall[r].id
  BY <1>1 DEF ProjectsInv, ProjectsUnderway
<1>3. \A q \in P!There \ {pcall[r].id} : project[q].slug # x.slug
  BY DEF ProjectsInv, P!RowsBelong
<1> QED
  BY <1>1, <1>2, <1>3, ProjectsWrite

LEMMA AppendToOne == ASSUME NEW b, NEW n PROVE Append(<<b>>, n) = <<b, n>>
<1>1. <<b>> \in Seq({b, n}) /\ <<b, n>> \in Seq({b, n}) /\ n \in {b, n}
  OBVIOUS
<1>2. Append(<<b>>, n) \in Seq({b, n}) /\ Len(Append(<<b>>, n)) = 2
  BY <1>1, AppendProperties
<1>3. \A i \in 1..2 : Append(<<b>>, n)[i] = <<b, n>>[i]
  BY <1>1, AppendProperties
<1> QED
  BY <1>1, <1>2, <1>3, SeqEqual

LEMMA CutIsASlug ==
    ASSUME NEW p \in P!There, P!TypeOK, Len(project[p].slug) = 1, NEW n \in 1..MaxCopies
    PROVE  P!Cut(Append(project[p].slug, n)) \in P!Slugs
<1>1. project[p].slug \in P!Slugs
  BY DEF P!TypeOK, P!There, P!Project
<1>2. PICK b \in Bases : project[p].slug = <<b>>
  <2>1. \A b \in Bases, m \in 1..MaxCopies : Len(<<b, m>>) # 1
    OBVIOUS
  <2> QED
    BY <1>1, <2>1 DEF P!Slugs
<1>3. P!Cut(<<b, n>>) \in {<<b>>, <<b, n>>}
  <2>1. <<b, n>>[1] = b
    OBVIOUS
  <2> QED
    BY <2>1, Zenon DEF P!Cut
<1>4. <<b>> \in P!Slugs /\ <<b, n>> \in P!Slugs
  BY DEF P!Slugs
<1>5. Append(project[p].slug, n) = <<b, n>>
  BY <1>2, AppendToOne
<1> QED
  BY <1>3, <1>4, <1>5

LEMMA ProjectsStep == ProjectsInv /\ [P!Next]_(P!vars) => ProjectsInv'
<1> SUFFICES ASSUME ProjectsInv, [P!Next]_(P!vars) PROVE ProjectsInv'
  OBVIOUS
<1>0. /\ project \in [Ids -> P!Project \cup {NoUser, Gone}]
      /\ rowOf \in [Kids -> Ids \cup {NoUser, Gone}] /\ pcall \in [Pair -> P!Call]
  BY DEF ProjectsInv, P!TypeOK
<1>1. ASSUME NEW r \in Pair, NEW p \in Ids, NEW s \in {<<b>> : b \in Bases},
             NEW f \in Folders \cup {NoUser}, P!CreateRead(r, p, s, f)
      PROVE  ProjectsInv'
  <2> DEFINE c == [P!Idle EXCEPT !.at = "creating", !.id = p, !.slug = s, !.folder = f]
  <2>1. s \in P!Slugs
    BY DEF P!Slugs
  <2>2. c \in P!Call /\ c.id = p /\ c.slug = s /\ P!Goto(r, c)
    BY <1>1, <2>1, ProjectsIdle DEF P!CreateRead, P!Call, P!Idle
  <2> HIDE DEF c
  <2> QED
    BY <1>1, <2>1, <2>2, ProjectsQuiet DEF P!CreateRead
<1>2. ASSUME NEW r \in Pair, P!CreateWrite(r) \/ P!CopyWrite(r) PROVE ProjectsInv'
  BY <1>2, ProjectsInserted DEF P!CreateWrite, P!CopyWrite
<1>3. ASSUME NEW r \in Pair, NEW p \in Ids, NEW f \in Folders \cup {NoUser},
             NEW titled \in BOOLEAN, P!MoveRead(r, p, f, titled)
      PROVE  ProjectsInv'
  <2> DEFINE c == [P!Idle EXCEPT !.at = "moving", !.id = p, !.folder = f, !.holds = titled]
  <2>1. c \in P!Call /\ c.id = p /\ c.at = "moving" /\ P!Goto(r, c)
    BY <1>3, ProjectsIdle DEF P!MoveRead, P!Call, P!Idle
  <2> HIDE DEF c
  <2> QED
    BY <1>3, <2>1, ProjectsQuiet DEF P!MoveRead
<1>4. ASSUME NEW r \in Pair, P!MoveWrite(r) PROVE ProjectsInv'
  <2>1. CASE pcall[r].id \in P!There
    <3> DEFINE x == [project[pcall[r].id] EXCEPT !.folder = pcall[r].folder]
    <3>1. project[pcall[r].id] \in P!Project
      BY <1>0, <2>1 DEF P!There
    <3>2. pcall[r].folder \in Folders \cup {NoUser}
      BY <1>0 DEF P!Call
    <3>3. x \in P!Project /\ x.slug = project[pcall[r].id].slug
      BY <3>1, <3>2 DEF P!Project
    <3>4. project' = [project EXCEPT ![pcall[r].id] = x]
      BY <1>4, <2>1 DEF P!MoveWrite
    <3> HIDE DEF x
    <3> QED
      BY <1>4, <2>1, <3>3, <3>4, ProjectsChanged DEF P!MoveWrite
  <2> QED
    BY <1>4, <2>1, ProjectsIdleAgain DEF P!MoveWrite
<1>5. ASSUME NEW r \in Pair, NEW p \in Ids, NEW on \in BOOLEAN, P!ArchiveRead(r, p, on)
      PROVE  ProjectsInv'
  <2> DEFINE c == [P!Idle EXCEPT !.at = "archiving", !.id = p, !.archive = on,
                               !.was = project[p].archived]
  <2>1. project[p].archived \in BOOLEAN
    BY <1>0, <1>5 DEF P!ArchiveRead, P!There, P!Project
  <2>2. c \in P!Call /\ c.id = p /\ c.at = "archiving" /\ P!Goto(r, c)
    BY <1>5, <2>1, ProjectsIdle DEF P!ArchiveRead, P!Call, P!Idle
  <2> HIDE DEF c
  <2> QED
    BY <1>5, <2>2, ProjectsQuiet DEF P!ArchiveRead
<1>6. ASSUME NEW r \in Pair, P!ArchiveWrite(r) PROVE ProjectsInv'
  <2>1. CASE pcall[r].id \in P!There /\ (pcall[r].archive \/ pcall[r].was)
    <3> DEFINE x == [project[pcall[r].id] EXCEPT !.archived = pcall[r].archive]
    <3>1. project[pcall[r].id] \in P!Project
      BY <1>0, <2>1 DEF P!There
    <3>2. pcall[r].archive \in BOOLEAN
      BY <1>0 DEF P!Call
    <3>3. x \in P!Project /\ x.slug = project[pcall[r].id].slug
      BY <3>1, <3>2 DEF P!Project
    <3>4. project' = [project EXCEPT ![pcall[r].id] = x]
      BY <1>6, <2>1 DEF P!ArchiveWrite
    <3> HIDE DEF x
    <3> QED
      BY <1>6, <2>1, <3>3, <3>4, ProjectsChanged DEF P!ArchiveWrite
  <2> QED
    BY <1>6, <2>1, ProjectsIdleAgain DEF P!ArchiveWrite
<1>7. ASSUME NEW r \in Pair, NEW p \in Ids, NEW new \in Ids, P!CopyRead(r, p, new)
      PROVE  ProjectsInv'
  <2>1. PICK n \in 1..MaxCopies :
           P!Goto(r, [P!Idle EXCEPT !.at = "copying", !.id = new,
                                !.slug = P!Cut(Append(project[p].slug, n))])
    BY <1>7 DEF P!CopyRead
  <2> DEFINE s == P!Cut(Append(project[p].slug, n))
             c == [P!Idle EXCEPT !.at = "copying", !.id = new, !.slug = s]
  <2>2. s \in P!Slugs
    BY <1>7, CutIsASlug DEF P!CopyRead, ProjectsInv
  <2> HIDE DEF s
  <2>3. c \in P!Call /\ c.id = new /\ c.slug = s
    BY <2>2, ProjectsIdle DEF P!Call, P!Idle
  <2>4. P!Goto(r, c)
    BY <2>1 DEF s
  <2> HIDE DEF c
  <2> QED
    BY <1>7, <2>2, <2>3, <2>4, ProjectsQuiet DEF P!CopyRead
<1>8. ASSUME NEW r \in Pair, NEW p \in Ids, P!PurgeRead(r, p) PROVE ProjectsInv'
  <2> DEFINE c == [P!Idle EXCEPT !.at = "purging", !.id = p]
  <2>1. c \in P!Call /\ c.id = p /\ c.at = "purging" /\ P!Goto(r, c)
    BY <1>8, ProjectsIdle DEF P!PurgeRead, P!Call, P!Idle
  <2> HIDE DEF c
  <2> QED
    BY <1>8, <2>1, ProjectsQuiet DEF P!PurgeRead
<1>9. ASSUME NEW r \in Pair, P!PurgeRows(r) PROVE ProjectsInv'
  <2> DEFINE c == [pcall[r] EXCEPT !.at = "purged", !.holds = TRUE, !.rows = P!RowsOf(pcall[r].id)]
  <2>1. P!RowsOf(pcall[r].id) \subseteq Kids /\ pcall[r].id \in Ids
    BY <1>9 DEF P!RowsOf, P!PurgeRows, ProjectsInv, ProjectsUnderway
  <2>2. c \in P!Call /\ c.id = pcall[r].id /\ c.at = "purged" /\ P!Goto(r, c)
    BY <1>0, <1>9, <2>1 DEF P!PurgeRows, P!Call
  <2> HIDE DEF c
  <2> QED
    BY <1>9, <2>1, <2>2, ProjectsQuiet DEF P!PurgeRows
<1>10. ASSUME NEW r \in Pair, P!PurgeCommit(r) PROVE ProjectsInv'
  <2> DEFINE p == pcall[r].id
  <2>1. CASE P!RowsOf(p) \subseteq pcall[r].rows
    <3>1. /\ pcall[r].at = "purged" /\ p \in Ids
          /\ project' = [project EXCEPT ![p] = Gone]
          /\ rowOf' = [k \in Kids |-> IF k \in pcall[r].rows THEN Gone ELSE rowOf[k]]
          /\ P!Goto(r, P!Idle)
      BY <1>10, <2>1 DEF P!PurgeCommit, ProjectsInv, ProjectsUnderway
    <3> HIDE DEF p
    <3>2. /\ project' \in [Ids -> P!Project \cup {NoUser, Gone}]
          /\ project'[p] = Gone /\ \A q \in Ids \ {p} : project'[q] = project[q]
          /\ P!There' = P!There \ {p}
      BY <1>0, <3>1 DEF P!There
    <3>3. /\ pcall' \in [Pair -> P!Call] /\ pcall'[r] = P!Idle
          /\ \A s \in Pair \ {r} : pcall'[s] = pcall[s]
      BY <1>0, <3>1, ProjectsIdle DEF P!Goto
    <3>4. P!RowsBelong'
      <4>1. \A k \in Kids : rowOf'[k] \notin {NoUser, Gone} => rowOf'[k] = rowOf[k] /\ rowOf[k] # p
        BY <2>1, <3>1 DEF P!RowsOf, p
      <4>2. \A k \in Kids : rowOf'[k] \notin {NoUser, Gone} => rowOf'[k] \in P!There'
        BY <3>2, <4>1 DEF ProjectsInv, P!RowsBelong
      <4>3. \A q \in P!There' : q \in P!There /\ project'[q] = project[q]
        BY <3>2 DEF P!There
      <4>4. \A q, o \in P!There' : project'[q].slug = project'[o].slug => q = o
        BY <4>3 DEF ProjectsInv, P!RowsBelong
      <4> QED
        BY <4>2, <4>4 DEF P!RowsBelong
    <3>5. \A s \in Pair \ {r} : pcall[s].at \in {"creating", "copying"} => pcall[s].id # p
      BY <3>1 DEF ProjectsInv, ProjectsUnderway, p
    <3>6. ProjectsUnderway'
      BY <3>2, <3>3, <3>5, ProjectsIdle, ProjectsAssumption DEF ProjectsInv, ProjectsUnderway
    <3>7. rowOf' \in [Kids -> Ids \cup {NoUser, Gone}]
      BY <1>0, <3>1
    <3> QED
      BY <3>2, <3>3, <3>4, <3>6, <3>7 DEF ProjectsInv, P!TypeOK
  <2> QED
    BY <1>10, <2>1, ProjectsIdleAgain DEF P!PurgeCommit
<1>11. ASSUME NEW k \in Kids, NEW p \in Ids, P!AddRow(k, p) PROVE ProjectsInv'
  <2>1. /\ rowOf' = [rowOf EXCEPT ![k] = p] /\ project' = project /\ pcall' = pcall /\ p \in P!There
    BY <1>11 DEF P!AddRow
  <2>2. P!There' = P!There
    BY <2>1 DEF P!There
  <2> QED
    BY <1>0, <2>1, <2>2 DEF ProjectsInv, P!TypeOK, P!RowsBelong, ProjectsUnderway
<1>12. ASSUME NEW r \in Pair, P!Abort(r) PROVE ProjectsInv'
  BY <1>12, ProjectsIdleAgain DEF P!Abort
<1>13. CASE UNCHANGED P!vars
  <2>1. P!There' = P!There
    BY <1>13 DEF P!vars, P!There
  <2> QED
    BY <1>13, <2>1 DEF P!vars, ProjectsInv, P!TypeOK, P!RowsBelong, ProjectsUnderway
<1> QED
  BY <1>1, <1>2, <1>3, <1>4, <1>5, <1>6, <1>7, <1>8, <1>9, <1>10, <1>11, <1>12, <1>13
     DEF P!Next, P!Work
\* One request at a time.

ProjectsAlone == \A r, s \in Pair : pcall[r] # P!Idle /\ pcall[s] # P!Idle => r = s

\* What the only request in progress has found is still so.
FoundIsSo(r) ==
    /\ pcall[r].at \in {"creating", "moving", "copying"} => P!RootOk(pcall[r].id, pcall[r].folder)
    /\ pcall[r].at \in {"purging", "purged"} /\ pcall[r].id \in P!There => project[pcall[r].id].archived

ProjectsSerial ==
    /\ ProjectsInv /\ ProjectsAlone /\ P!RootsAreApart /\ P!CopiesAreNamed
    /\ \A r \in Pair : FoundIsSo(r)

\* A step of a request that writes nothing.
LEMMA ProjectsSerialQuiet ==
    ASSUME ProjectsSerial, ProjectsInv', ProjectsAlone', project' = project,
           NEW r \in Pair, \A s \in Pair \ {r} : pcall'[s] = pcall[s],
           FoundIsSo(r)', pcall'[r].at = "copying" /\ pcall'[r].slug[1] \notin Long =>
                        P!SlugFree(pcall'[r].slug)
    PROVE  ProjectsSerial' /\ P!ArchivedFirst
<1>1. P!There' = P!There
  BY DEF P!There
<1>2. \A s : P!SlugFree(s)' <=> P!SlugFree(s)
  BY <1>1 DEF P!SlugFree
<1>3. \A s \in Pair \ {r} : FoundIsSo(s)'
  BY <1>1 DEF ProjectsSerial, FoundIsSo, P!RootOk
<1>4. P!RootsAreApart'
  BY <1>1 DEF ProjectsSerial, P!RootsAreApart
<1>5. P!CopiesAreNamed'
  BY <1>1 DEF ProjectsSerial, P!CopiesAreNamed, P!SlugFree
<1>6. P!ArchivedFirst
  BY DEF P!ArchivedFirst, P!There
<1> QED
  BY <1>3, <1>4, <1>5, <1>6 DEF ProjectsSerial

\* A step that ends the only request.
LEMMA ProjectsSerialEnd ==
    ASSUME ProjectsSerial, ProjectsInv', NEW r \in Pair, pcall[r] # P!Idle, P!Goto(r, P!Idle),
           P!RootsAreApart'
    PROVE  ProjectsSerial'
<1>1. \A s \in Pair : pcall'[s] = P!Idle
  BY DEF ProjectsSerial, ProjectsAlone, ProjectsInv, P!TypeOK, P!Goto
<1>2. ProjectsAlone'
  BY <1>1 DEF ProjectsAlone
<1>3. P!CopiesAreNamed' /\ \A s \in Pair : FoundIsSo(s)'
  BY <1>1, ProjectsIdle DEF P!CopiesAreNamed, FoundIsSo
<1> QED
  BY <1>2, <1>3 DEF ProjectsSerial

LEMMA ProjectsSerialInit == P!Init => ProjectsSerial
BY ProjectsInit, ProjectsIdle
   DEF P!Init, ProjectsSerial, ProjectsAlone, P!RootsAreApart, P!CopiesAreNamed, FoundIsSo, P!There

\* Roots that were checked are apart after they are written.
LEMMA RootsStayApart ==
    ASSUME ProjectsSerial, NEW p \in Ids, NEW x \in P!Project, project' = [project EXCEPT ![p] = x],
           P!RootOk(p, x.folder)
    PROVE  P!RootsAreApart'
<1>1. project'[p] = x /\ \A q \in Ids \ {p} : project'[q] = project[q]
  BY DEF ProjectsSerial, ProjectsInv, P!TypeOK
<1>2. P!There' \subseteq P!There \cup {p} /\ P!There' \subseteq Ids
  BY <1>1 DEF P!There
<1> SUFFICES ASSUME NEW q \in P!There', NEW o \in P!There', q # o,
                    project'[q].folder # NoUser, project'[o].folder # NoUser
             PROVE  ~ (<<project'[q].folder, project'[o].folder>> \in Within)
  BY DEF P!RootsAreApart
<1>3. CASE q = p
  BY <1>1, <1>2, <1>3 DEF P!RootOk, P!Overlaps
<1>4. CASE o = p
  BY <1>1, <1>2, <1>4 DEF P!RootOk, P!Overlaps
<1>5. CASE q # p /\ o # p
  BY <1>1, <1>2, <1>5 DEF ProjectsSerial, P!RootsAreApart
<1> QED
  BY <1>3, <1>4, <1>5

LEMMA ProjectsSerialStep ==
    ProjectsSerial /\ ProjectsInv' /\ [P!Next /\ ProjectsAlone']_(P!vars) =>
       ProjectsSerial' /\ P!ArchivedFirst
<1> SUFFICES ASSUME ProjectsSerial, ProjectsInv', [P!Next /\ ProjectsAlone']_(P!vars)
             PROVE  ProjectsSerial' /\ P!ArchivedFirst
  OBVIOUS
<1>0. /\ project \in [Ids -> P!Project \cup {NoUser, Gone}] /\ pcall \in [Pair -> P!Call]
      /\ P!Idle.at = "idle"
  BY ProjectsIdle DEF ProjectsSerial, ProjectsInv, P!TypeOK
<1>1. ASSUME UNCHANGED <<project, pcall>> PROVE ProjectsSerial' /\ P!ArchivedFirst
  BY <1>1 DEF ProjectsSerial, ProjectsAlone, P!RootsAreApart, P!CopiesAreNamed, FoundIsSo, P!There,
              P!RootOk, P!SlugFree, P!ArchivedFirst
<1>2. ASSUME NEW r \in Pair, ProjectsAlone', P!Work(r) PROVE ProjectsSerial' /\ P!ArchivedFirst
  <2>1. ASSUME NEW c, pcall' = [pcall EXCEPT ![r] = c], project' = project,
               c.at \in {"creating", "moving", "copying"} => P!RootOk(c.id, c.folder),
               c.at \in {"purging", "purged"} /\ c.id \in P!There => project[c.id].archived,
               c.at = "copying" /\ c.slug[1] \notin Long => P!SlugFree(c.slug)
        PROVE  ProjectsSerial' /\ P!ArchivedFirst
    <3>1. pcall'[r] = c /\ \A s \in Pair \ {r} : pcall'[s] = pcall[s]
      BY <1>0, <2>1
    <3>2. P!There' = P!There
      BY <2>1 DEF P!There
    <3>3. FoundIsSo(r)'
      BY <2>1, <3>1, <3>2 DEF FoundIsSo, P!RootOk
    <3> QED
      BY <1>2, <2>1, <3>1, <3>3, ProjectsSerialQuiet
  <2>2. ASSUME P!Goto(r, P!Idle), project' = project PROVE ProjectsSerial' /\ P!ArchivedFirst
    BY <1>0, <2>1, <2>2 DEF P!Goto
  <2>3. ASSUME NEW x \in P!Project, project' = [project EXCEPT ![pcall[r].id] = x],
               pcall[r].id \in Ids, P!RootOk(pcall[r].id, x.folder), P!Goto(r, P!Idle), pcall[r] # P!Idle
        PROVE  ProjectsSerial' /\ P!ArchivedFirst
    <3>1. ProjectsSerial'
      BY <2>3, RootsStayApart, ProjectsSerialEnd
    <3>2. P!ArchivedFirst
      BY <1>0, <2>3, ProjectsAssumption DEF P!ArchivedFirst, P!There
    <3> QED
      BY <3>1, <3>2
  <2>4. ASSUME NEW p \in Ids, NEW s \in {<<b>> : b \in Bases}, NEW f \in Folders \cup {NoUser},
               P!CreateRead(r, p, s, f)
        PROVE  ProjectsSerial' /\ P!ArchivedFirst
    BY <2>1, <2>4 DEF P!CreateRead, P!Goto, P!Idle
  <2>5. ASSUME NEW p \in Ids, NEW f \in Folders \cup {NoUser}, NEW titled \in BOOLEAN,
               P!MoveRead(r, p, f, titled)
        PROVE  ProjectsSerial' /\ P!ArchivedFirst
    BY <2>1, <2>5 DEF P!MoveRead, P!Goto, P!Idle
  <2>6. ASSUME NEW p \in Ids, NEW on \in BOOLEAN, P!ArchiveRead(r, p, on)
        PROVE  ProjectsSerial' /\ P!ArchivedFirst
    BY <2>1, <2>6 DEF P!ArchiveRead, P!Goto, P!Idle
  <2>7. ASSUME NEW p \in Ids, NEW new \in Ids, P!CopyRead(r, p, new)
        PROVE  ProjectsSerial' /\ P!ArchivedFirst
    <3>1. PICK n \in 1..MaxCopies :
             /\ P!SlugFree(Append(project[p].slug, n))
             /\ pcall' = [pcall EXCEPT ![r] = [P!Idle EXCEPT !.at = "copying", !.id = new,
                                             !.slug = P!Cut(Append(project[p].slug, n))]]
      BY <2>7 DEF P!CopyRead, P!FirstFree, P!Goto
    <3> DEFINE s == Append(project[p].slug, n)
               c == [P!Idle EXCEPT !.at = "copying", !.id = new, !.slug = P!Cut(s)]
    <3>2. P!Cut(s)[1] \notin Long => P!Cut(s) = s
      BY DEF P!Cut
    <3>3. c.at = "copying" /\ c.slug = P!Cut(s) /\ c.folder = NoUser /\ c.id = new
      BY DEF P!Idle
    <3>4. P!SlugFree(s) /\ pcall' = [pcall EXCEPT ![r] = c] /\ project' = project
      BY <2>7, <3>1 DEF P!CopyRead
    <3> HIDE DEF s, c
    <3> QED
      BY <2>1, <3>2, <3>3, <3>4 DEF P!RootOk
  <2>8. ASSUME NEW p \in Ids, P!PurgeRead(r, p) PROVE ProjectsSerial' /\ P!ArchivedFirst
    BY <2>1, <2>8 DEF P!PurgeRead, P!Goto, P!Idle
  <2>9. ASSUME P!PurgeRows(r) PROVE ProjectsSerial' /\ P!ArchivedFirst
    <3> DEFINE c == [pcall[r] EXCEPT !.at = "purged", !.holds = TRUE, !.rows = P!RowsOf(pcall[r].id)]
    <3>1. c.at = "purged" /\ c.id = pcall[r].id /\ pcall' = [pcall EXCEPT ![r] = c] /\ project' = project
      BY <1>0, <2>9 DEF P!PurgeRows, P!Goto, P!Call
    <3>2. pcall[r].id \in P!There => project[pcall[r].id].archived
      BY <2>9 DEF P!PurgeRows, ProjectsSerial, FoundIsSo
    <3> HIDE DEF c
    <3> QED
      BY <2>1, <3>1, <3>2
  <2>10. ASSUME P!Inserted(r), pcall[r].at \in {"creating", "copying"}
         PROVE  ProjectsSerial' /\ P!ArchivedFirst
    <3>1. CASE P!SlugFree(pcall[r].slug)
      <4> DEFINE x == [slug |-> pcall[r].slug, folder |-> pcall[r].folder, archived |-> FALSE]
      <4>1. x \in P!Project /\ x.folder = pcall[r].folder /\ pcall[r].id \in Ids
        BY <1>0, <2>10 DEF P!Project, P!Call, ProjectsSerial, ProjectsInv, ProjectsUnderway
      <4>2. project' = [project EXCEPT ![pcall[r].id] = x] /\ P!Goto(r, P!Idle)
        BY <2>10, <3>1 DEF P!Inserted
      <4> HIDE DEF x
      <4>3. P!RootOk(pcall[r].id, x.folder)
        BY <2>10, <4>1 DEF ProjectsSerial, FoundIsSo
      <4> QED
        BY <1>0, <2>3, <2>10, <4>1, <4>2, <4>3
    <3> QED
      BY <2>2, <2>10, <3>1 DEF P!Inserted
  <2>11. ASSUME P!MoveWrite(r) PROVE ProjectsSerial' /\ P!ArchivedFirst
    <3>1. CASE pcall[r].id \in P!There
      <4> DEFINE x == [project[pcall[r].id] EXCEPT !.folder = pcall[r].folder]
      <4>1. project[pcall[r].id] \in P!Project /\ pcall[r].id \in Ids
        BY <1>0, <3>1 DEF P!There
      <4>2. x \in P!Project /\ x.folder = pcall[r].folder
        BY <1>0, <4>1 DEF P!Project, P!Call
      <4>3. project' = [project EXCEPT ![pcall[r].id] = x] /\ P!Goto(r, P!Idle)
        BY <2>11, <3>1 DEF P!MoveWrite
      <4> HIDE DEF x
      <4>4. P!RootOk(pcall[r].id, x.folder) /\ pcall[r] # P!Idle
        BY <1>0, <2>11, <4>2 DEF P!MoveWrite, ProjectsSerial, FoundIsSo
      <4> QED
        BY <2>3, <4>1, <4>2, <4>3, <4>4
    <3> QED
      BY <2>2, <2>11, <3>1 DEF P!MoveWrite
  <2>12. ASSUME P!ArchiveWrite(r) PROVE ProjectsSerial' /\ P!ArchivedFirst
    <3>1. CASE pcall[r].id \in P!There /\ (pcall[r].archive \/ pcall[r].was)
      <4> DEFINE x == [project[pcall[r].id] EXCEPT !.archived = pcall[r].archive]
      <4>1. project[pcall[r].id] \in P!Project /\ pcall[r].id \in Ids /\ pcall[r] # P!Idle
        BY <1>0, <2>12, <3>1 DEF P!There, P!ArchiveWrite
      <4>2. x \in P!Project /\ x.folder = project[pcall[r].id].folder
        BY <1>0, <4>1 DEF P!Project, P!Call
      <4>3. project' = [project EXCEPT ![pcall[r].id] = x] /\ P!Goto(r, P!Idle)
        BY <2>12, <3>1 DEF P!ArchiveWrite
      <4> HIDE DEF x
      <4>4. P!RootOk(pcall[r].id, x.folder)
        BY <3>1, <4>2 DEF ProjectsSerial, P!RootsAreApart, P!RootOk, P!Overlaps
      <4> QED
        BY <2>3, <4>1, <4>2, <4>3, <4>4
    <3> QED
      BY <2>2, <2>12, <3>1 DEF P!ArchiveWrite
  <2>13. ASSUME P!PurgeCommit(r) PROVE ProjectsSerial' /\ P!ArchivedFirst
    <3>1. CASE P!RowsOf(pcall[r].id) \subseteq pcall[r].rows
      <4> DEFINE p == pcall[r].id
      <4>1. /\ pcall[r].at = "purged" /\ p \in Ids /\ P!Goto(r, P!Idle) /\ pcall[r] # P!Idle
            /\ project' = [project EXCEPT ![p] = Gone]
        BY <1>0, <2>13, <3>1 DEF P!PurgeCommit, ProjectsSerial, ProjectsInv, ProjectsUnderway
      <4>2. p \in P!There => project[p].archived
        BY <4>1 DEF ProjectsSerial, FoundIsSo
      <4> HIDE DEF p
      <4>3. P!There' \subseteq P!There /\ \A q \in P!There' : project'[q] = project[q]
        BY <1>0, <4>1 DEF P!There
      <4>4. P!RootsAreApart'
        BY <4>3 DEF ProjectsSerial, P!RootsAreApart
      <4>5. P!ArchivedFirst
        BY <1>0, <4>1, <4>2 DEF P!ArchivedFirst, P!There
      <4> QED
        BY <4>1, <4>4, <4>5, ProjectsSerialEnd
    <3> QED
      BY <2>2, <2>13, <3>1 DEF P!PurgeCommit
  <2>14. ASSUME P!Abort(r) PROVE ProjectsSerial' /\ P!ArchivedFirst
    BY <2>2, <2>14 DEF P!Abort
  <2> QED
    BY <1>2, <2>4, <2>5, <2>6, <2>7, <2>8, <2>9, <2>10, <2>11, <2>12, <2>13, <2>14
       DEF P!Work, P!CreateWrite, P!CopyWrite
<1> QED
  BY <1>1, <1>2 DEF P!Next, P!AddRow, P!vars

\* Requests that create, move, copy, archive and purge projects overlap and die as
\* they like: rows belong to projects that are there, and slugs are unique.
THEOREM RowsStayWithProjects == P!Spec => []P!RowsBelong
<1>1. ProjectsInv => P!RowsBelong
  BY DEF ProjectsInv
<1> QED
  BY <1>1, ProjectsInit, ProjectsStep, PTL DEF P!Spec

ProjectsRun == part = "projects" => ProjectsInv /\ (pcalm => ProjectsSerial)

\* What ProjectsStaySound says of a step.
ProjectsSound ==
    part = "projects" =>
       /\ P!TypeOK' /\ P!RowsBelong'
       /\ pcalm => P!RootsAreApart' /\ P!CopiesAreNamed' /\ P!ArchivedFirst

LEMMA ProjectsOneByOne ==
    ASSUME ProjectsNext, pcalm PROVE ProjectsAlone'
<1> DEFINE Busy == {r \in Pair : pcall'[r] # P!Idle}
<1>1. IsFiniteSet(Busy) /\ Cardinality(Busy) <= 1
  BY PartsAssumption, FS_Subset DEF ProjectsNext
<1>2. \A r, s \in Busy : r = s
  BY <1>1, AtMostOne
<1> QED
  BY <1>2 DEF ProjectsAlone

LEMMA ProjectsRunStep ==
    ProjectsRun /\ [PeopleNext]_peopleVars => ProjectsRun' /\ ProjectsSound
<1> SUFFICES ASSUME ProjectsRun, [PeopleNext]_peopleVars, part = "projects", part' = part
             PROVE  ProjectsRun' /\ ProjectsSound
  BY PartSteps DEF ProjectsRun, ProjectsSound, peopleVars
<1>1. CASE ProjectsNext
  <2>1. P!Next /\ pcalm' = pcalm
    BY <1>1 DEF ProjectsNext
  <2>2. ProjectsInv'
    BY <2>1, ProjectsStep DEF ProjectsRun
  <2>3. pcalm => ProjectsSerial' /\ P!ArchivedFirst
    BY <1>1, <2>1, <2>2, ProjectsOneByOne, ProjectsSerialStep DEF ProjectsRun
  <2> QED
    BY <2>1, <2>2, <2>3 DEF ProjectsRun, ProjectsSound, ProjectsInv, ProjectsSerial
<1>2. CASE UNCHANGED projectVars
  <2>1. UNCHANGED P!vars /\ pcalm' = pcalm
    BY <1>2 DEF projectVars, P!vars
  <2>2. ProjectsInv'
    BY <2>1, ProjectsStep DEF ProjectsRun
  <2>3. pcalm => ProjectsSerial' /\ P!ArchivedFirst
    BY <2>1, <2>2, ProjectsSerialStep DEF ProjectsRun
  <2> QED
    BY <2>1, <2>2, <2>3 DEF ProjectsRun, ProjectsSound, ProjectsInv, ProjectsSerial
<1> QED
  BY <1>1, <1>2, PartSteps DEF peopleVars

\* The same in every run of MCPeople; and with one request at a time, some of which
\* die, roots do not overlap, duplicates are not refused for their slug, and only
\* archived projects are purged (_assert_no_overlap, _unique_slug, purge_project).
THEOREM ProjectsOfPeople == PeopleSpec => ProjectsStaySound
<1>1. PeopleInit => ProjectsRun
  BY ProjectsInit, ProjectsSerialInit DEF PeopleInit, ProjectsRun
<1>2. PeopleSpec => [][ProjectsSound]_projectVars
  BY <1>1, ProjectsRunStep, PTL DEF PeopleSpec, peopleVars
<1> QED
  BY <1>2, PTL DEF ProjectsStaySound, ProjectsSound

-----------------------------------------------------------------------------
\* External API: the order of the keys

\* R puts the elements of E one after the other.
InOrder(E, R) ==
    /\ R \subseteq E \X E
    /\ \A x, y \in E : <<x, y>> \in R <=> x # y /\ <<y, x>> \notin R
    /\ \A x, y, z \in E : <<x, y>> \in R /\ <<y, z>> \in R => <<x, z>> \in R

LEMMA LeastIs ==
    ASSUME NEW E \in SUBSET Nat, E # {}
    PROVE  \E x \in E : \A y \in E : x <= y
<1>1. PICK x \in E : \A y \in E : <<y, x>> \notin OpToRel(<, Nat)
  BY WFMin, NatLessThanWellFounded, Zenon
<1>2. \A y \in E : ~(y < x)
  BY <1>1 DEF OpToRel
<1> QED
  BY <1>2

LEMMA OldestIs ==
    ASSUME NEW E, IsFiniteSet(E), E # {}, NEW T, E \subseteq T, NEW R, InOrder(T, R)
    PROVE  \E x \in E : \A y \in E : <<y, x>> \notin R
<1> DEFINE Before(x) == {y \in E : <<y, x>> \in R}
           Numbers == {Cardinality(Before(x)) : x \in E}
<1>1. \A x \in E : IsFiniteSet(Before(x)) /\ Cardinality(Before(x)) \in Nat
  BY FS_Subset, FS_CardinalityType
<1>2. Numbers \in SUBSET Nat /\ Numbers # {}
  BY <1>1
<1>3. PICK n \in Numbers : \A m \in Numbers : n <= m
  <2> HIDE DEF Numbers
  <2> QED
    BY <1>2, LeastIs
<1>4. PICK x \in E : n = Cardinality(Before(x))
  OBVIOUS
<1>5. ASSUME NEW y \in E, <<y, x>> \in R PROVE FALSE
  <2>1. Before(y) \subseteq Before(x) /\ y \in Before(x) /\ y \notin Before(y)
    BY <1>5 DEF InOrder
  <2>2. Before(y) # Before(x)
    BY <2>1
  <2>3. Cardinality(Before(y)) < Cardinality(Before(x))
    <3> HIDE DEF Before
    <3> QED
      BY <1>1, <2>1, <2>2, FS_Subset
  <2>4. Cardinality(Before(x)) <= Cardinality(Before(y))
    BY <1>3, <1>4
  <2> QED
    BY <1>1, <2>3, <2>4
<1> QED
  BY <1>5

LEMMA OrderAfter ==
    ASSUME NEW T, NEW R, InOrder(T, R), NEW kept, kept \subseteq T, NEW k, k \notin kept
    PROVE  InOrder(kept \cup {k}, (R \cap (kept \X kept)) \cup (kept \X {k}))
<1> DEFINE Q == (R \cap (kept \X kept)) \cup (kept \X {k})
<1>1. \A x, y \in kept : <<x, y>> \in Q <=> <<x, y>> \in R
  OBVIOUS
<1>2. \A x \in kept : <<x, k>> \in Q /\ <<k, x>> \notin Q
  OBVIOUS
<1>3. <<k, k>> \notin Q /\ Q \subseteq (kept \cup {k}) \X (kept \cup {k})
  OBVIOUS
<1> HIDE DEF Q
<1>4. \A x, y \in kept \cup {k} : <<x, y>> \in Q <=> x # y /\ <<y, x>> \notin Q
  BY <1>1, <1>2, <1>3 DEF InOrder
<1>5. ASSUME NEW x \in kept \cup {k}, NEW y \in kept \cup {k}, NEW z \in kept \cup {k},
             <<x, y>> \in Q, <<y, z>> \in Q
      PROVE  <<x, z>> \in Q
  <2>1. x # k /\ y # k
    BY <1>2, <1>3, <1>5
  <2> QED
    BY <1>1, <1>2, <1>5, <2>1 DEF InOrder
<1> QED
  BY <1>3, <1>4, <1>5 DEF InOrder, Q

\* A key too many: the oldest is forgotten.
LEMMA OneIsForgotten ==
    ASSUME NEW T, IsFiniteSet(T), NEW R, InOrder(T, R), Cardinality(T) <= MaxTracked, NEW k,
           NEW kept,
           kept = IF Cardinality(T \ {k}) >= MaxTracked
                  THEN (T \ {k}) \ {x \in T \ {k} : \A y \in T \ {k} : <<y, x>> \notin R}
                  ELSE T \ {k}
    PROVE  IsFiniteSet(kept \cup {k}) /\ Cardinality(kept \cup {k}) <= MaxTracked
<1> DEFINE others == T \ {k}
<1>0. MaxTracked \in Nat /\ MaxTracked # 0
  BY ExternalAssumption
<1>1. /\ IsFiniteSet(others) /\ Cardinality(others) \in Nat
      /\ Cardinality(others) <= Cardinality(T) /\ Cardinality(T) \in Nat
  BY FS_Subset, FS_CardinalityType
<1>2. /\ kept \subseteq others /\ IsFiniteSet(kept) /\ k \notin kept
      /\ Cardinality(kept) <= Cardinality(others) /\ Cardinality(kept) \in Nat
  <2>1. kept \subseteq others /\ k \notin kept
    OBVIOUS
  <2> HIDE DEF others
  <2> QED
    BY <1>1, <2>1, FS_Subset, FS_CardinalityType
<1>3. Cardinality(kept) < MaxTracked
  <2>1. CASE Cardinality(others) >= MaxTracked
    <3>1. others # {}
      BY <1>0, <2>1, FS_EmptySet
    <3>2. PICK x \in others : \A y \in others : <<y, x>> \notin R
      <4>1. others \subseteq T
        OBVIOUS
      <4> HIDE DEF others
      <4> QED
        BY <1>1, <3>1, <4>1, OldestIs
    <3>3. x \notin kept
      BY <2>1, <3>2
    <3>4. Cardinality(kept) < Cardinality(others)
      <4>1. kept # others
        BY <3>2, <3>3
      <4> HIDE DEF others
      <4>2. Cardinality(kept) # Cardinality(others)
        BY <1>1, <1>2, <4>1, FS_Subset, Zenon
      <4> QED
        BY <1>1, <1>2, <4>2
    <3> QED
      BY <1>0, <1>1, <1>2, <3>4
  <2>2. CASE ~(Cardinality(others) >= MaxTracked)
    BY <1>0, <1>1, <1>2, <2>2
  <2> QED
    BY <2>1, <2>2
<1>4. IsFiniteSet(kept \cup {k}) /\ Cardinality(kept \cup {k}) = Cardinality(kept) + 1
  BY <1>2, FS_AddElement
<1> QED
  BY <1>0, <1>2, <1>3, <1>4

-----------------------------------------------------------------------------
\* External API: the hits of a key

\* p are hits of windows the last of which began at s and has c of them: those are
\* near s, those of the window before are before s, all others a window before s.
HitsAre(p, s, c) ==
    /\ c <= Len(p)
    /\ \A i \in 1..Len(p) :
          /\ i + c > Len(p) => s <= p[i] + MaxWait /\ p[i] < s + Window
          /\ i + c <= Len(p) => p[i] < s
          /\ i + c + Limit <= Len(p) => p[i] + Window < s

LEMMA HitCounted ==
    ASSUME NEW p \in Seq(Nat), NEW s \in Nat, NEW c \in 1..Limit, NEW t \in Nat, HitsAre(p, s, c),
           c < Limit, t < s + Window, s <= t + MaxWait
    PROVE  HitsAre(Append(p, t), s, c + 1)
<1>0. Limit \in Nat /\ Window \in Nat /\ MaxWait \in Nat
  BY ExternalAssumption
<1> DEFINE q == Append(p, t)
<1>1. /\ Len(q) = Len(p) + 1 /\ Len(p) \in Nat /\ q[Len(p) + 1] = t
      /\ \A i \in 1..Len(p) : q[i] = p[i] /\ p[i] \in Nat
  OBVIOUS
<1> HIDE DEF q
<1> SUFFICES HitsAre(q, s, c + 1)
  BY DEF q
<1>2. ASSUME NEW i \in 1..Len(p)
      PROVE  /\ i + (c + 1) > Len(q) => s <= q[i] + MaxWait /\ q[i] < s + Window
             /\ i + (c + 1) <= Len(q) => q[i] < s
             /\ i + (c + 1) + Limit <= Len(q) => q[i] + Window < s
  <2>1. /\ i + c > Len(p) => s <= p[i] + MaxWait /\ p[i] < s + Window
        /\ i + c <= Len(p) => p[i] < s
        /\ i + c + Limit <= Len(p) => p[i] + Window < s
    BY DEF HitsAre
  <2>2. q[i] = p[i]
    BY <1>1
  <2>3. c \in Nat /\ i \in Nat
    BY <1>0
  <2>4. i + (c + 1) > Len(q) <=> i + c > Len(p)
    BY <1>1, <2>3
  <2>5. i + (c + 1) <= Len(q) <=> i + c <= Len(p)
    BY <1>1, <2>3
  <2>6. i + (c + 1) + Limit <= Len(q) <=> i + c + Limit <= Len(p)
    BY <1>0, <1>1, <2>3
  <2> QED
    BY <2>1, <2>2, <2>4, <2>5, <2>6
<1> QED
  BY <1>0, <1>1, <1>2 DEF HitsAre

LEMMA HitOpens ==
    ASSUME NEW p \in Seq(Nat), NEW s \in Nat, NEW c \in 1..Limit, NEW t \in Nat,
           p = <<>> \/ (HitsAre(p, s, c) /\ t >= s + Window)
    PROVE  HitsAre(Append(p, t), t, 1)
<1>0. Limit \in Nat /\ Limit # 0 /\ Window \in Nat /\ Window # 0 /\ MaxWait \in Nat
  BY ExternalAssumption
<1> DEFINE q == Append(p, t)
<1>1. /\ Len(q) = Len(p) + 1 /\ Len(p) \in Nat /\ q[Len(p) + 1] = t
      /\ \A i \in 1..Len(p) : q[i] = p[i] /\ p[i] \in Nat
  OBVIOUS
<1> HIDE DEF q
<1> SUFFICES HitsAre(q, t, 1)
  BY DEF q
<1>2. ASSUME NEW i \in 1..Len(p)
      PROVE  /\ i + 1 > Len(q) => t <= q[i] + MaxWait /\ q[i] < t + Window
             /\ i + 1 <= Len(q) => q[i] < t
             /\ i + 1 + Limit <= Len(q) => q[i] + Window < t
  <2>1. HitsAre(p, s, c) /\ t >= s + Window
    OBVIOUS
  <2>2. /\ i + c > Len(p) => p[i] < s + Window
        /\ i + c <= Len(p) => p[i] < s
    BY <2>1 DEF HitsAre
  <2>3. c \in Nat /\ c <= Limit /\ i \in Nat /\ p[i] \in Nat /\ i <= Len(p)
    BY <1>0, <1>1
  <2>4. p[i] < t
    BY <1>0, <1>1, <2>1, <2>2, <2>3
  <2>5. i + 1 + Limit <= Len(q) => i + c <= Len(p)
    BY <1>0, <1>1, <2>3
  <2>6. i + 1 + Limit <= Len(q) => p[i] + Window < t
    BY <1>0, <1>1, <2>1, <2>2, <2>3, <2>5
  <2>7. i + 1 <= Len(q) /\ q[i] = p[i]
    BY <1>1, <2>3
  <2> QED
    BY <1>1, <2>3, <2>4, <2>6, <2>7
<1> QED
  BY <1>0, <1>1, <1>2 DEF HitsAre

LEMMA HitForgotten ==
    ASSUME NEW p \in Seq(Nat), NEW s \in Nat, NEW c \in 1..Limit, HitsAre(p, s, c),
           Len(p) > 2 * Limit + 1
    PROVE  HitsAre(Tail(p), s, c)
<1>0. Limit \in Nat /\ Limit # 0 /\ Window \in Nat /\ Window # 0 /\ MaxWait \in Nat
  BY ExternalAssumption
<1>1. Len(p) \in Nat /\ Len(Tail(p)) = Len(p) - 1
  BY <1>0
<1>2. ASSUME NEW i \in 1..Len(Tail(p)) PROVE Tail(p)[i] = p[i + 1] /\ i + 1 \in 1..Len(p)
  <2>1. p # <<>>
    BY <1>0, <1>1
  <2> QED
    BY <1>0, <1>1, <2>1
<1> DEFINE q == Tail(p)
<1> HIDE DEF q
<1>3. ASSUME NEW i \in 1..Len(q)
      PROVE  /\ i + c > Len(q) => s <= q[i] + MaxWait /\ q[i] < s + Window
             /\ i + c <= Len(q) => q[i] < s
             /\ i + c + Limit <= Len(q) => q[i] + Window < s
  <2>1. q[i] = p[i + 1] /\ i + 1 \in 1..Len(p) /\ Len(q) = Len(p) - 1
    BY <1>1, <1>2 DEF q
  <2>2. /\ (i + 1) + c > Len(p) => s <= p[i + 1] + MaxWait /\ p[i + 1] < s + Window
        /\ (i + 1) + c <= Len(p) => p[i + 1] < s
        /\ (i + 1) + c + Limit <= Len(p) => p[i + 1] + Window < s
    BY <2>1 DEF HitsAre
  <2>3. c \in Nat /\ i \in Nat /\ Limit \in Nat /\ Len(p) \in Nat /\ Len(q) = Len(p) - 1
    BY <1>0, <1>1, <2>1
  <2>4. i + c > Len(q) <=> (i + 1) + c > Len(p)
    BY <2>3
  <2>5. i + c <= Len(q) <=> (i + 1) + c <= Len(p)
    BY <2>3
  <2>6. i + c + Limit <= Len(q) <=> (i + 1) + c + Limit <= Len(p)
    BY <2>3
  <2>7. i + c > Len(q) => s <= q[i] + MaxWait /\ q[i] < s + Window
    BY <2>1, <2>2, <2>4, Zenon
  <2>8. i + c <= Len(q) => q[i] < s
    BY <2>1, <2>2, <2>5, Zenon
  <2>9. i + c + Limit <= Len(q) => q[i] + Window < s
    BY <2>1, <2>2, <2>6, Zenon
  <2> QED
    BY <2>7, <2>8, <2>9
<1>4. c <= Len(q)
  BY <1>0, <1>1 DEF q
<1> QED
  BY <1>3, <1>4 DEF HitsAre, q

\* What window k and passed k of the limiter are to each other.
WindowIs(p, w) ==
    IF w = NoUser THEN p = <<>>
    ELSE w.start <= now /\ Len(p) <= 2 * Limit + 1 /\ HitsAre(p, w.start, w.count)

-----------------------------------------------------------------------------
\* External API: the state

\* Who asks, once its key is known.
ExternalKeyed ==
    \A r \in Pair :
        xcall[r].at \in {"verifying", "known", "counted", "working"} => xcall[r].key \in Keys

\* The requests that work for key k.
Working(k) == {r \in Pair : xcall[r].at = "working" /\ xcall[r].key = k}

ExternalInv ==
    /\ X!TypeOK /\ ExternalKeyed /\ InOrder(X!Tracked, order)
    /\ X!SlotsAreReturned /\ X!KeysAreForgotten
    /\ \A k \in Keys : WindowIs(passed[k], window[k])

LEMMA ExternalIdle == X!Idle \in X!Call /\ X!Idle.at = "idle" /\ X!New \in X!Row
<1>1. 0 \in 0..(MaxClock + Life)
  BY ExternalAssumption
<1> QED
  BY <1>1 DEF X!Idle, X!New, X!Call, X!Row, X!Times

LEMMA ExternalCounts == \A T : X!Cardinality(T) = Cardinality(T)
BY DEF X!Cardinality, Cardinality

\* Without a request and without a window, nothing is held or remembered.
LEMMA NobodyWorks ==
    ASSUME X!Tracked = {}, 
           \A k \in Keys : Working(k) = {} /\ inflight[k] = 0 /\ leaked[k] = 0
    PROVE  X!SlotsAreReturned /\ X!KeysAreForgotten
<1>1. X!Cardinality({}) = 0 /\ 0 <= MaxTracked
  BY ExternalCounts, FS_EmptySet, ExternalAssumption
<1> QED
  BY <1>1 DEF X!SlotsAreReturned, X!KeysAreForgotten, Working

LEMMA WiderSeq == ASSUME NEW A, NEW B, A \subseteq B, NEW p \in Seq(A) PROVE p \in Seq(B)
<1>1. Len(p) \in Nat /\ p \in [1..Len(p) -> A]
  BY LenProperties
<1>2. p \in [1..Len(p) -> B]
  BY <1>1
<1> QED
  BY <1>1, <1>2, SeqDef

LEMMA ExternalInit == X!Init => ExternalInv
<1> SUFFICES ASSUME X!Init PROVE ExternalInv
  OBVIOUS
<1>1. X!Tracked = {} /\ order = {} /\ \A k \in Keys : Working(k) = {}
  BY ExternalIdle DEF X!Init, X!Tracked, Working
<1>2. X!TypeOK
  BY <1>1, ExternalIdle, ExternalAssumption DEF X!Init, X!TypeOK, X!Times
<1>3. X!SlotsAreReturned /\ X!KeysAreForgotten
  BY <1>1, NobodyWorks DEF X!Init
<1>4. ExternalKeyed /\ InOrder(X!Tracked, order)
  BY <1>1, ExternalIdle DEF X!Init, ExternalKeyed, InOrder
<1>5. \A k \in Keys : WindowIs(passed[k], window[k])
  BY DEF X!Init, WindowIs
<1> QED
  BY <1>2, <1>3, <1>4, <1>5 DEF ExternalInv

LEMMA ExternalRestart == ExternalInv /\ X!Restart => ExternalInv'
<1> SUFFICES ASSUME ExternalInv, X!Restart PROVE ExternalInv'
  OBVIOUS
<1>1. X!Tracked' = {} /\ order' = {} /\ \A k \in Keys : Working(k)' = {}
  BY ExternalIdle DEF X!Restart, X!Tracked, Working
<1>2. X!TypeOK'
  BY <1>1, ExternalIdle, ExternalAssumption DEF ExternalInv, X!Restart, X!TypeOK, X!Times
<1>3. X!SlotsAreReturned' /\ X!KeysAreForgotten'
  <2>1. X!Cardinality({}) = 0 /\ 0 <= MaxTracked
    BY ExternalCounts, FS_EmptySet, ExternalAssumption
  <2>2. \A k \in Keys : inflight'[k] = 0 /\ leaked'[k] = 0
    BY DEF X!Restart
  <2>3. \A k \in Keys : X!Cardinality(Working(k)') = 0
    BY <1>1, <2>1
  <2> QED
    BY <1>1, <2>1, <2>2, <2>3 DEF X!SlotsAreReturned, X!KeysAreForgotten, Working
<1>4. ExternalKeyed' /\ InOrder(X!Tracked, order)'
  BY <1>1, ExternalIdle DEF X!Restart, ExternalKeyed, InOrder
<1>5. \A k \in Keys : WindowIs(passed[k], window[k])'
  BY DEF X!Restart, WindowIs
<1> QED
  BY <1>2, <1>3, <1>4, <1>5 DEF ExternalInv

\* A request that goes on, and holds no slot before or after.
LEMMA ExternalGoto ==
    ASSUME ExternalInv, NEW r \in Pair, NEW c \in X!Call, X!Goto(r, c),
           xcall[r].at # "working", c.at # "working",
           c.at \in {"verifying", "known", "counted"} => c.key \in Keys
    PROVE  /\ xcall' \in [Pair -> X!Call] /\ ExternalKeyed'
           /\ \A k \in Keys : Working(k)' = Working(k)
<1>1. xcall \in [Pair -> X!Call] /\ xcall' = [xcall EXCEPT ![r] = c]
  BY DEF ExternalInv, X!TypeOK, X!Goto
<1>2. xcall' \in [Pair -> X!Call] /\ xcall'[r] = c /\ \A s \in Pair \ {r} : xcall'[s] = xcall[s]
  BY <1>1
<1>3. ExternalKeyed'
  BY <1>2 DEF ExternalInv, ExternalKeyed
<1>4. \A k \in Keys : Working(k)' = Working(k)
  BY <1>2 DEF Working
<1> QED
  BY <1>2, <1>3, <1>4

\* What is not the limiter's.
LEMMA ExternalQuiet ==
    ASSUME ExternalInv, xcall' \in [Pair -> X!Call], ExternalKeyed',
           \A k \in Keys : Working(k)' = Working(k),
           row' \in [Keys -> X!Row], apiOn' \in BOOLEAN, lan' \in BOOLEAN, mirror' \in BOOLEAN,
           UNCHANGED <<now, window, order, inflight, leaked, passed>>
    PROVE  ExternalInv'
<1>1. X!Tracked' = X!Tracked
  BY DEF X!Tracked
<1>2. X!TypeOK'
  BY <1>1 DEF ExternalInv, X!TypeOK
<1>3. X!SlotsAreReturned'
  BY DEF ExternalInv, X!SlotsAreReturned, Working
<1>4. X!KeysAreForgotten' /\ InOrder(X!Tracked, order)'
  BY <1>1 DEF ExternalInv, X!KeysAreForgotten, InOrder
<1>5. \A k \in Keys : WindowIs(passed[k], window[k])'
  BY DEF ExternalInv, WindowIs, HitsAre
<1> QED
  BY <1>2, <1>3, <1>4, <1>5 DEF ExternalInv

LEMMA ExternalMoves ==
    ASSUME ExternalInv, NEW r \in Pair, NEW c \in X!Call, X!Goto(r, c),
           xcall[r].at # "working", c.at # "working",
           c.at \in {"verifying", "known", "counted"} => c.key \in Keys,
           row' \in [Keys -> X!Row], apiOn' \in BOOLEAN, lan' \in BOOLEAN, mirror' \in BOOLEAN,
           UNCHANGED <<now, window, order, inflight, leaked, passed>>
    PROVE  ExternalInv'
BY ExternalGoto, ExternalQuiet, Zenon

-----------------------------------------------------------------------------
\* External API: the limiter

LEMMA CountedIsSound ==
    ASSUME ExternalInv, NEW k \in Keys, NEW t \in X!Read, X!Room(k, t), X!Counted(k, t), now' = now
    PROVE  /\ window' \in [Keys -> X!Hits \cup {NoUser}] /\ passed' \in [Keys -> Seq(X!Times)]
           /\ InOrder(X!Tracked, order)' /\ X!KeysAreForgotten'
           /\ \A x \in Keys : WindowIs(passed[x], window[x])'
<1> DEFINE others == X!Tracked \ {k}
           oldest == {x \in others : \A y \in others : <<y, x>> \notin order}
           kept == IF X!Cardinality(others) >= MaxTracked THEN others \ oldest ELSE others
           hits == IF X!Fresh(k, t) THEN [start |-> t, count |-> 1]
                                    ELSE [window[k] EXCEPT !.count = @ + 1]
           times == Append(passed[k], t)
           cut == IF Len(times) > 2 * Limit + 1 THEN Tail(times) ELSE times
<1>0. /\ Limit \in Nat /\ Limit # 0 /\ Window \in Nat /\ Window # 0 /\ MaxWait \in Nat
      /\ MaxClock \in Nat
  BY ExternalAssumption
<1>1. /\ window \in [Keys -> X!Hits \cup {NoUser}] /\ passed \in [Keys -> Seq(X!Times)]
      /\ now \in X!Times /\ t \in X!Times /\ t <= now /\ now <= t + MaxWait
      /\ \A x \in Keys : WindowIs(passed[x], window[x])
  BY DEF ExternalInv, X!TypeOK, X!Read
<1>2. /\ order' = (order \cap (kept \X kept)) \cup (kept \X {k})
      /\ window' = [x \in Keys |-> IF x = k THEN hits
                                   ELSE IF x \in kept THEN window[x] ELSE NoUser]
      /\ passed' = [x \in Keys |-> IF x = k THEN cut
                                   ELSE IF x \in kept THEN passed[x] ELSE <<>>]
  BY DEF X!Counted
<1>3. kept \subseteq X!Tracked /\ k \notin kept /\ X!Tracked \subseteq Keys
  BY DEF X!Tracked
<1>4. hits \in X!Hits /\ hits # NoUser
  <2>1. CASE X!Fresh(k, t)
    BY <1>0, <1>1, <2>1, ExternalAssumption DEF X!Hits
  <2>2. CASE ~X!Fresh(k, t)
    <3>1. window[k] \in X!Hits /\ window[k].count < Limit
      BY <1>1, <2>2 DEF X!Fresh, X!Room
    <3>2. window[k].count + 1 \in 1..Limit
      BY <1>0, <3>1 DEF X!Hits
    <3>3. hits \in X!Hits
      BY <2>2, <3>1, <3>2 DEF X!Hits
    <3> QED
      BY <3>3, ExternalAssumption
  <2> QED
    BY <2>1, <2>2
<1>5. WindowIs(cut, hits) /\ cut \in Seq(X!Times)
  <2> DEFINE p == passed[k]
  <2>1. p \in Seq(X!Times) /\ p \in Seq(Nat) /\ times \in Seq(X!Times) /\ times \in Seq(Nat)
        /\ Len(times) = Len(p) + 1 /\ Len(p) \in Nat
    <3>1. p \in Seq(X!Times) /\ Len(p) \in Nat
      BY <1>1
    <3>2. X!Times \subseteq Nat
      BY DEF X!Times
    <3>3. p \in Seq(Nat)
      BY <3>1, <3>2, WiderSeq
    <3> QED
      BY <1>1, <3>1, <3>2, <3>3
  <2>2. p = <<>> \/ Len(p) <= 2 * Limit + 1
    BY <1>1 DEF WindowIs
  <2>3. Len(times) <= 2 * Limit + 2
    BY <1>0, <2>1, <2>2
  <2>4. HitsAre(times, hits.start, hits.count) /\ hits.start <= now
    <3>1. CASE X!Fresh(k, t)
      <4>1. hits.start = t /\ hits.count = 1 /\ t \in Nat
        BY <1>1, <3>1 DEF X!Times
      <4>2. CASE window[k] = NoUser
        <5>1. p = <<>>
          BY <1>1, <4>2 DEF WindowIs
        <5>2. 1 \in 1..Limit
          BY <1>0
        <5> HIDE DEF p
        <5>3. HitsAre(Append(p, t), t, 1)
          BY <2>1, <4>1, <5>1, <5>2, HitOpens
        <5> QED
          BY <1>1, <4>1, <5>3 DEF p
      <4>3. CASE window[k] # NoUser
        <5>1. window[k] \in X!Hits /\ t >= window[k].start + Window
          BY <1>1, <3>1, <4>3 DEF X!Fresh
        <5>2. HitsAre(p, window[k].start, window[k].count)
          BY <1>1, <4>3 DEF WindowIs
        <5>3. window[k].start \in Nat /\ window[k].count \in 1..Limit
          BY <5>1 DEF X!Hits, X!Times
        <5> HIDE DEF p
        <5>4. HitsAre(Append(p, t), t, 1)
          BY <2>1, <4>1, <5>1, <5>2, <5>3, HitOpens
        <5> QED
          BY <1>1, <4>1, <5>4 DEF p
      <4> QED
        BY <4>2, <4>3
    <3>2. CASE ~X!Fresh(k, t)
      <4>1. /\ window[k] # NoUser /\ window[k] \in X!Hits /\ window[k].count < Limit
            /\ ~(t >= window[k].start + Window)
        BY <1>1, <3>2 DEF X!Fresh, X!Room
      <4>2. HitsAre(p, window[k].start, window[k].count) /\ window[k].start <= now
        BY <1>1, <4>1 DEF WindowIs
      <4>3. /\ window[k].start \in Nat /\ window[k].count \in 1..Limit
            /\ t \in Nat /\ now \in Nat
        BY <1>1, <4>1 DEF X!Hits, X!Times
      <4>4. hits.start = window[k].start /\ hits.count = window[k].count + 1
        BY <3>2, <4>1 DEF X!Hits
      <4>5. t < window[k].start + Window /\ window[k].start <= t + MaxWait
        BY <1>0, <1>1, <4>1, <4>2, <4>3
      <4> HIDE DEF p, hits
      <4>6. HitsAre(Append(p, t), window[k].start, window[k].count + 1)
        BY <2>1, <4>1, <4>2, <4>3, <4>5, HitCounted
      <4> QED
        BY <4>2, <4>4, <4>6 DEF p
    <3> QED
      BY <3>1, <3>2
  <2>5. hits.start \in Nat /\ hits.count \in 1..Limit
    BY <1>4 DEF X!Hits, X!Times
  <2>6. CASE Len(times) > 2 * Limit + 1
    <3>1. cut = Tail(times)
      BY <2>6
    <3>a. times # <<>>
      <4> HIDE DEF times
      <4> QED
        BY <1>0, <2>1, <2>6
    <3>2. Len(cut) = Len(times) - 1 /\ cut \in Seq(X!Times)
      <4> HIDE DEF times, cut
      <4> QED
        BY <2>1, <3>1, <3>a
    <3>3. HitsAre(cut, hits.start, hits.count)
      <4> HIDE DEF times, hits, cut
      <4> QED
        BY <2>1, <2>4, <2>5, <2>6, <3>1, HitForgotten
    <3> HIDE DEF times, hits, cut
    <3> QED
      BY <1>0, <1>4, <2>1, <2>3, <2>4, <3>2, <3>3 DEF WindowIs
  <2>7. CASE ~(Len(times) > 2 * Limit + 1)
    <3>1. cut = times
      BY <2>7
    <3> HIDE DEF times, hits, cut
    <3> QED
      BY <1>0, <1>4, <2>1, <2>4, <2>7, <3>1 DEF WindowIs
  <2> QED
    BY <2>6, <2>7
<1>6. InOrder(kept \cup {k}, order') /\ IsFiniteSet(kept \cup {k})
      /\ Cardinality(kept \cup {k}) <= MaxTracked
  <2>1. InOrder(X!Tracked, order) /\ Cardinality(X!Tracked) <= MaxTracked
    BY ExternalCounts DEF ExternalInv, X!KeysAreForgotten
  <2>2. IsFiniteSet(X!Tracked)
    BY <1>3, FS_Subset, ExternalAssumption
  <2>3. IsFiniteSet(kept \cup {k}) /\ Cardinality(kept \cup {k}) <= MaxTracked
    BY <2>1, <2>2, ExternalCounts, OneIsForgotten
  <2> HIDE DEF kept
  <2> QED
    BY <1>2, <1>3, <2>1, <2>3, OrderAfter
<1> HIDE DEF kept, hits, cut
<1>7. X!Tracked' = kept \cup {k}
  <2>1. \A x \in Keys : window'[x] # NoUser <=> x \in kept \cup {k}
    BY <1>2, <1>3, <1>4 DEF X!Tracked
  <2> QED
    BY <1>3, <2>1 DEF X!Tracked
<1>8. window' \in [Keys -> X!Hits \cup {NoUser}] /\ passed' \in [Keys -> Seq(X!Times)]
  <2> DEFINE Q == Seq(X!Times)
  <2>1. <<>> \in Q /\ cut \in Q /\ passed \in [Keys -> Q]
    BY <1>1, <1>5
  <2> HIDE DEF Q
  <2>2. passed' \in [Keys -> Q]
    BY <1>2, <2>1
  <2> QED
    BY <1>1, <1>2, <1>4, <2>2 DEF Q
<1>9. \A x \in Keys : WindowIs(passed[x], window[x])'
  <2> SUFFICES ASSUME NEW x \in Keys PROVE WindowIs(passed'[x], window'[x])
    BY DEF WindowIs, HitsAre
  <2>1. CASE x = k
    BY <1>2, <1>5, <2>1
  <2>2. CASE x # k /\ x \in kept
    BY <1>1, <1>2, <2>2
  <2>3. CASE x # k /\ x \notin kept
    BY <1>2, <2>3 DEF WindowIs
  <2> QED
    BY <2>1, <2>2, <2>3
<1> QED
  BY <1>6, <1>7, <1>8, <1>9, ExternalCounts DEF X!KeysAreForgotten

-----------------------------------------------------------------------------
\* External API: the steps

\* The slots of a key, as a sum.
LEMMA HeldSlots ==
    ASSUME ExternalInv, NEW k \in Keys
    PROVE  /\ IsFiniteSet(Working(k)) /\ Cardinality(Working(k)) \in Nat
           /\ inflight[k] = Cardinality(Working(k)) + leaked[k]
           /\ inflight[k] \in 0..Slots /\ leaked[k] \in Nat
<1>1. IsFiniteSet(Working(k)) /\ Cardinality(Working(k)) \in Nat
  BY PartsAssumption, FS_Subset, FS_CardinalityType DEF Working
<1>2. inflight[k] \in 0..Slots /\ leaked[k] \in Nat
  BY DEF ExternalInv, X!TypeOK
<1>3. inflight[k] = X!Cardinality(Working(k)) + leaked[k]
  BY DEF ExternalInv, X!SlotsAreReturned, Working
<1> QED
  BY <1>1, <1>2, <1>3, ExternalCounts

LEMMA AcquireIsSound == ASSUME ExternalInv, NEW r \in Pair, X!Acquire(r) PROVE ExternalInv'
<1>0. PICK k \in Keys : k = xcall[r].key
  BY DEF ExternalInv, ExternalKeyed, X!Acquire
<1>1. /\ xcall \in [Pair -> X!Call] /\ inflight \in [Keys -> 0..Slots] /\ k = xcall[r].key
      /\ xcall[r].at = "counted" /\ Slots \in Nat
  BY <1>0, ExternalAssumption DEF ExternalInv, X!TypeOK, X!Acquire
<1>2. CASE inflight[k] < Slots
  <2> DEFINE c == [xcall[r] EXCEPT !.at = "working"]
  <2>1. /\ inflight' = [inflight EXCEPT ![k] = inflight[k] + 1] /\ X!Goto(r, c)
        /\ UNCHANGED <<now, row, apiOn, lan, mirror, window, order, leaked, passed>>
    BY <1>1, <1>2 DEF X!Acquire
  <2>2. c \in X!Call /\ c.at = "working" /\ c.key = k
    BY <1>1 DEF X!Call
  <2> HIDE DEF c
  <2>3. /\ xcall' \in [Pair -> X!Call] /\ xcall'[r] = c
        /\ \A s \in Pair \ {r} : xcall'[s] = xcall[s]
    BY <1>1, <2>1, <2>2 DEF X!Goto
  <2>4. /\ inflight' \in [Keys -> 0..Slots] /\ inflight'[k] = inflight[k] + 1
        /\ \A x \in Keys \ {k} : inflight'[x] = inflight[x]
    <3>1. inflight[k] + 1 \in 0..Slots
      BY <1>1, <1>2
    <3> QED
      BY <1>1, <2>1, <3>1
  <2>5. Working(k)' = Working(k) \cup {r} /\ r \notin Working(k)
    BY <1>1, <2>2, <2>3 DEF Working
  <2>6. \A x \in Keys \ {k} : Working(x)' = Working(x)
    BY <1>1, <2>2, <2>3 DEF Working
  <2>7. Cardinality(Working(k)') + leaked[k] = inflight[k] + 1
    <3>1. Cardinality(Working(k) \cup {r}) = Cardinality(Working(k)) + 1
      BY <2>5, HeldSlots, FS_AddElement
    <3> QED
      BY <2>5, <3>1, HeldSlots
  <2>8. X!SlotsAreReturned'
    <3> SUFFICES ASSUME NEW x \in Keys PROVE inflight'[x] = Cardinality(Working(x)') + leaked'[x]
      BY ExternalCounts DEF X!SlotsAreReturned, Working
    <3>1. CASE x = k
      BY <2>1, <2>4, <2>7, <3>1
    <3>2. CASE x # k
      BY <2>1, <2>4, <2>6, <3>2, HeldSlots
    <3> QED
      BY <3>1, <3>2
  <2>9. X!Tracked' = X!Tracked /\ ExternalKeyed'
    BY <1>1, <2>1, <2>2, <2>3 DEF X!Tracked, ExternalInv, ExternalKeyed
  <2>10. X!TypeOK'
    BY <2>1, <2>3, <2>4, <2>9 DEF ExternalInv, X!TypeOK
  <2>11. X!KeysAreForgotten' /\ InOrder(X!Tracked, order)'
    BY <2>1, <2>9 DEF ExternalInv, X!KeysAreForgotten, InOrder
  <2>12. \A x \in Keys : WindowIs(passed[x], window[x])'
    BY <2>1 DEF ExternalInv, WindowIs, HitsAre
  <2> QED
    BY <2>8, <2>9, <2>10, <2>11, <2>12 DEF ExternalInv
<1>3. CASE ~(inflight[k] < Slots)
  BY <1>1, <1>3, ExternalIdle, ExternalMoves DEF X!Acquire, ExternalInv, X!TypeOK
<1> QED
  BY <1>2, <1>3

\* A request ends and its slot is free again, or its slot is never freed.
LEMMA EndIsSound ==
    ASSUME ExternalInv, NEW r \in Pair, xcall[r].at = "working", X!Goto(r, X!Idle),
           inflight' \in [Keys -> 0..Slots], leaked' \in [Keys -> Nat],
           \A x \in Keys : IF x = xcall[r].key
                           THEN inflight'[x] + 1 - leaked'[x] = inflight[x] - leaked[x]
                           ELSE inflight'[x] = inflight[x] /\ leaked'[x] = leaked[x],
           UNCHANGED <<now, row, apiOn, lan, mirror, window, order, passed>>
    PROVE  ExternalInv'
<1>0. PICK k \in Keys : k = xcall[r].key
  BY DEF ExternalInv, ExternalKeyed
<1>1. xcall \in [Pair -> X!Call] /\ k = xcall[r].key
  BY <1>0 DEF ExternalInv, X!TypeOK
<1>2. /\ xcall' \in [Pair -> X!Call] /\ xcall'[r] = X!Idle
      /\ \A s \in Pair \ {r} : xcall'[s] = xcall[s]
  BY <1>1, ExternalIdle DEF X!Goto
<1>3. Working(k)' = Working(k) \ {r} /\ r \in Working(k)
  BY <1>1, <1>2, ExternalIdle DEF Working
<1>4. \A x \in Keys \ {k} : Working(x)' = Working(x)
  BY <1>1, <1>2, ExternalIdle DEF Working
<1>5. Cardinality(Working(k)') = Cardinality(Working(k)) - 1
  BY <1>3, HeldSlots, FS_RemoveElement
<1>6. \A x \in Keys : inflight'[x] \in Int /\ leaked'[x] \in Int
  OBVIOUS
<1>7. X!SlotsAreReturned'
  <2> SUFFICES ASSUME NEW x \in Keys PROVE inflight'[x] = Cardinality(Working(x)') + leaked'[x]
    BY ExternalCounts DEF X!SlotsAreReturned, Working
  <2>1. CASE x = k
    <3>1. inflight'[x] + 1 - leaked'[x] = inflight[x] - leaked[x]
      BY <1>1, <2>1
    <3> QED
      BY <1>5, <1>6, <2>1, <3>1, HeldSlots
  <2>2. CASE x # k
    <3>1. inflight'[x] = inflight[x] /\ leaked'[x] = leaked[x]
      BY <1>1, <2>2
    <3> QED
      BY <1>4, <2>2, <3>1, HeldSlots
  <2> QED
    BY <2>1, <2>2
<1>8. X!Tracked' = X!Tracked /\ ExternalKeyed'
  BY <1>1, <1>2, ExternalIdle DEF X!Tracked, ExternalInv, ExternalKeyed
<1>9. X!TypeOK'
  BY <1>2, <1>8 DEF ExternalInv, X!TypeOK
<1>10. X!KeysAreForgotten' /\ InOrder(X!Tracked, order)'
  BY <1>8 DEF ExternalInv, X!KeysAreForgotten, InOrder
<1>11. \A x \in Keys : WindowIs(passed[x], window[x])'
  BY DEF ExternalInv, WindowIs, HitsAre
<1> QED
  BY <1>7, <1>8, <1>9, <1>10, <1>11 DEF ExternalInv

LEMMA ReleaseIsSound == ASSUME ExternalInv, NEW r \in Pair, X!Release(r) PROVE ExternalInv'
<1> DEFINE k == xcall[r].key
<1>1. /\ k \in Keys /\ xcall[r].at = "working" /\ X!Goto(r, X!Idle)
      /\ inflight' = [inflight EXCEPT ![k] = IF inflight[k] <= 1 THEN 0 ELSE inflight[k] - 1]
      /\ UNCHANGED <<now, row, apiOn, lan, mirror, window, order, leaked, passed>>
  BY DEF ExternalInv, ExternalKeyed, X!Release
<1>2. inflight \in [Keys -> 0..Slots] /\ leaked \in [Keys -> Nat]
  BY DEF ExternalInv, X!TypeOK
<1>3. inflight[k] >= 1
  <2>1. r \in Working(k) /\ xcall[r].key \in Keys
    BY <1>1 DEF Working
  <2>2. Cardinality(Working(k)) # 0
    BY <1>1, <2>1, HeldSlots, FS_EmptySet
  <2> QED
    BY <1>1, <2>2, HeldSlots
<1> HIDE DEF k
<1>4. /\ inflight' \in [Keys -> 0..Slots] /\ inflight'[k] = inflight[k] - 1
      /\ \A x \in Keys \ {k} : inflight'[x] = inflight[x]
  <2>1. inflight[k] \in 0..Slots /\ Slots \in Nat
    BY <1>1, <1>2, ExternalAssumption
  <2>2. (IF inflight[k] <= 1 THEN 0 ELSE inflight[k] - 1) = inflight[k] - 1
    BY <1>3, <2>1
  <2>3. inflight[k] - 1 \in 0..Slots
    BY <1>3, <2>1
  <2> QED
    BY <1>1, <1>2, <2>2, <2>3
<1>5. \A x \in Keys : inflight[x] \in Int /\ leaked[x] \in Int
  BY <1>2
<1>6. \A x \in Keys : IF x = k THEN inflight'[x] + 1 - leaked'[x] = inflight[x] - leaked[x]
                       ELSE inflight'[x] = inflight[x] /\ leaked'[x] = leaked[x]
  BY <1>1, <1>4, <1>5
<1> QED
  BY <1>1, <1>2, <1>4, <1>6, EndIsSound DEF k

LEMMA LeakIsSound == ASSUME ExternalInv, NEW r \in Pair, X!Leak(r) PROVE ExternalInv'
<1> DEFINE k == xcall[r].key
<1>1. /\ k \in Keys /\ xcall[r].at = "working" /\ X!Goto(r, X!Idle)
      /\ leaked' = [leaked EXCEPT ![k] = leaked[k] + 1]
      /\ UNCHANGED <<now, row, apiOn, lan, mirror, window, order, inflight, passed>>
  BY DEF ExternalInv, ExternalKeyed, X!Leak
<1>2. inflight \in [Keys -> 0..Slots] /\ leaked \in [Keys -> Nat]
  BY DEF ExternalInv, X!TypeOK
<1> HIDE DEF k
<1>3. /\ leaked' \in [Keys -> Nat] /\ leaked'[k] = leaked[k] + 1
      /\ \A x \in Keys \ {k} : leaked'[x] = leaked[x]
  BY <1>1, <1>2
<1>4. \A x \in Keys : inflight[x] \in Int /\ leaked[x] \in Int
  BY <1>2
<1>5. \A x \in Keys : IF x = k THEN inflight'[x] + 1 - leaked'[x] = inflight[x] - leaked[x]
                       ELSE inflight'[x] = inflight[x] /\ leaked'[x] = leaked[x]
  BY <1>1, <1>3, <1>4
<1> QED
  BY <1>1, <1>2, <1>3, <1>5, EndIsSound DEF k

LEMMA HitIsSound == ASSUME ExternalInv, NEW r \in Pair, X!Hit(r) PROVE ExternalInv'
<1> DEFINE k == xcall[r].key
<1>1. /\ xcall \in [Pair -> X!Call] /\ k \in Keys /\ xcall[r].at = "known"
      /\ UNCHANGED <<now, row, apiOn, lan, mirror, inflight, leaked>>
  BY DEF ExternalInv, X!TypeOK, ExternalKeyed, X!Hit
<1>2. CASE X!Goto(r, X!Idle) /\ UNCHANGED <<window, order, passed>>
  BY <1>1, <1>2, ExternalIdle, ExternalMoves DEF ExternalInv, X!TypeOK
<1>3. CASE ~(X!Goto(r, X!Idle) /\ UNCHANGED <<window, order, passed>>)
  <2> DEFINE c == [xcall[r] EXCEPT !.at = "counted"]
  <2>1. PICK t \in X!Read : X!Room(k, t) /\ X!Counted(k, t) /\ X!Goto(r, c)
    BY <1>3 DEF X!Hit
  <2>2. c \in X!Call /\ c.at = "counted" /\ c.key = k
    BY <1>1 DEF X!Call
  <2> HIDE DEF c, k
  <2>3. /\ xcall' \in [Pair -> X!Call] /\ ExternalKeyed'
        /\ \A x \in Keys : Working(x)' = Working(x)
    BY <1>1, <2>1, <2>2, ExternalGoto, Zenon
  <2>4. /\ window' \in [Keys -> X!Hits \cup {NoUser}] /\ passed' \in [Keys -> Seq(X!Times)]
        /\ InOrder(X!Tracked, order)' /\ X!KeysAreForgotten'
        /\ \A x \in Keys : WindowIs(passed[x], window[x])'
    BY <1>1, <2>1, CountedIsSound
  <2>5. X!TypeOK'
    BY <1>1, <2>3, <2>4 DEF ExternalInv, X!TypeOK, InOrder
  <2>6. X!SlotsAreReturned'
    BY <1>1, <2>3 DEF ExternalInv, X!SlotsAreReturned, Working
  <2> QED
    BY <2>3, <2>4, <2>5, <2>6 DEF ExternalInv
<1> QED
  BY <1>2, <1>3

LEMMA TouchedIsRow ==
    ASSUME ExternalInv, NEW k \in Keys, NEW x
    PROVE  X!Touched(k, x) \in X!Row /\ X!Touched(k, x).state = row[k].state
<1>1. row[k] \in X!Row /\ now \in X!Times
  BY DEF ExternalInv, X!TypeOK
<1> QED
  BY <1>1 DEF X!Touched, X!Row

LEMMA ExternalStep == ExternalInv /\ [X!Next]_(X!vars) => ExternalInv' /\ X!RevokedForGood
<1> SUFFICES ASSUME ExternalInv, [X!Next]_(X!vars) PROVE ExternalInv' /\ X!RevokedForGood
  OBVIOUS
<1>0. /\ now \in X!Times /\ row \in [Keys -> X!Row] /\ xcall \in [Pair -> X!Call]
      /\ apiOn \in BOOLEAN /\ lan \in BOOLEAN /\ mirror \in BOOLEAN
  BY DEF ExternalInv, X!TypeOK
<1>a. row' = row => X!RevokedForGood
  BY DEF X!RevokedForGood
<1>1. ASSUME NEW r \in Pair, NEW k \in Keys, X!Arrive(r, k)
      PROVE  ExternalInv' /\ X!RevokedForGood
  <2> DEFINE c == [X!Idle EXCEPT !.at = "verifying", !.key = k, !.row = row[k]]
  <2>1. c \in X!Call /\ c.at = "verifying" /\ c.key = k
    BY <1>0, ExternalIdle DEF X!Call, X!Idle
  <2>2. /\ X!Goto(r, c) /\ xcall[r].at = "idle"
        /\ UNCHANGED <<now, row, apiOn, lan, mirror, window, order, inflight, leaked, passed>>
    BY <1>1, ExternalIdle DEF X!Arrive, X!memory
  <2> HIDE DEF c
  <2> QED
    BY <1>0, <1>a, <2>1, <2>2, ExternalMoves
<1>2. ASSUME NEW r \in Pair, X!Authenticate(r) PROVE ExternalInv' /\ X!RevokedForGood
  <2> DEFINE k == xcall[r].key
             c == [X!Idle EXCEPT !.at = "known", !.key = k]
  <2>1. /\ xcall[r].at = "verifying" /\ k \in Keys
        /\ UNCHANGED <<now, apiOn, lan, mirror, window, order, inflight, leaked, passed>>
    BY <1>2 DEF X!Authenticate, X!memory, ExternalInv, ExternalKeyed
  <2>2. CASE X!Goto(r, X!Idle) /\ row' = row
    BY <1>0, <1>a, <2>1, <2>2, ExternalIdle, ExternalMoves
  <2>3. CASE ~(X!Goto(r, X!Idle) /\ row' = row)
    <3>1. row' = [row EXCEPT ![k] = X!Touched(k, xcall[r].row)] /\ X!Goto(r, c)
      BY <1>2, <2>3 DEF X!Authenticate
    <3>2. c \in X!Call /\ c.at = "known" /\ c.key = k
      BY <2>1, ExternalIdle DEF X!Call, X!Idle
    <3> HIDE DEF c, k
    <3>3. X!Touched(k, xcall[r].row) \in X!Row /\ X!Touched(k, xcall[r].row).state = row[k].state
      BY <2>1, TouchedIsRow
    <3>4. row' \in [Keys -> X!Row] /\ \A x \in Keys : row'[x].state = row[x].state
      BY <1>0, <3>1, <3>3
    <3> QED
      BY <1>0, <2>1, <3>1, <3>2, <3>4, ExternalMoves DEF X!RevokedForGood
  <2> QED
    BY <2>2, <2>3
<1>3. ASSUME NEW r \in Pair, X!Hit(r) PROVE ExternalInv' /\ X!RevokedForGood
  BY <1>3, <1>a, HitIsSound DEF X!Hit
<1>4. ASSUME NEW r \in Pair, X!Acquire(r) PROVE ExternalInv' /\ X!RevokedForGood
  BY <1>4, <1>a, AcquireIsSound DEF X!Acquire
<1>5. ASSUME NEW r \in Pair, X!Release(r) PROVE ExternalInv' /\ X!RevokedForGood
  BY <1>5, <1>a, ReleaseIsSound DEF X!Release
<1>16. ASSUME NEW r \in Pair, X!Leak(r) PROVE ExternalInv' /\ X!RevokedForGood
  BY <1>16, <1>a, LeakIsSound DEF X!Leak
<1>6. ASSUME NEW k \in Keys, NEW x \in X!Row, row' = [row EXCEPT ![k] = x],
             row[k].state = "revoked" => x.state = "revoked",
             UNCHANGED <<now, apiOn, lan, mirror, window, order, inflight, leaked, xcall, passed>>
      PROVE  ExternalInv' /\ X!RevokedForGood
  <2>1. row' \in [Keys -> X!Row] /\ X!RevokedForGood
    BY <1>0, <1>6 DEF X!RevokedForGood
  <2>2. ExternalKeyed' /\ \A y \in Keys : Working(y)' = Working(y)
    BY <1>6 DEF ExternalInv, ExternalKeyed, Working
  <2> QED
    BY <1>0, <1>6, <2>1, <2>2, ExternalQuiet
<1>7. ASSUME NEW k \in Keys, X!Issue(k) PROVE ExternalInv' /\ X!RevokedForGood
  <2> DEFINE x == [state |-> "live", expires |-> now + Life, used |-> NoUser]
  <2>1. now + Life \in 0..(MaxClock + Life)
    BY <1>0, ExternalAssumption DEF X!Times
  <2>2. x \in X!Row
    BY <2>1 DEF X!Row
  <2>3. row' = [row EXCEPT ![k] = x] /\ row[k].state = "new"
    BY <1>7 DEF X!Issue, X!New
  <2> HIDE DEF x
  <2> QED
    BY <1>6, <1>7, <2>2, <2>3 DEF X!Issue, X!memory
<1>8. ASSUME NEW k \in Keys, X!Revoke(k) PROVE ExternalInv' /\ X!RevokedForGood
  <2> DEFINE x == [row[k] EXCEPT !.state = "revoked"]
  <2>1. x \in X!Row /\ x.state = "revoked"
    BY <1>0 DEF X!Row
  <2>2. row' = [row EXCEPT ![k] = x]
    BY <1>8 DEF X!Revoke
  <2> HIDE DEF x
  <2> QED
    BY <1>6, <1>8, <2>1, <2>2 DEF X!Revoke, X!memory
<1>9. ASSUME NEW r \in Pair, NEW a \in BOOLEAN, NEW l \in BOOLEAN, X!SaveSettings(r, a, l)
      PROVE  ExternalInv' /\ X!RevokedForGood
  <2> DEFINE c == [X!Idle EXCEPT !.at = "saved"]
  <2>1. c \in X!Call /\ c.at = "saved"
    BY ExternalIdle DEF X!Call, X!Idle
  <2>2. /\ X!Goto(r, c) /\ xcall[r].at = "idle" /\ apiOn' \in BOOLEAN /\ lan' \in BOOLEAN
        /\ UNCHANGED <<now, row, mirror, window, order, inflight, leaked, passed>>
    BY <1>9, ExternalIdle DEF X!SaveSettings, X!memory
  <2> HIDE DEF c
  <2> QED
    BY <1>0, <1>a, <2>1, <2>2, ExternalMoves
<1>10. ASSUME NEW r \in Pair, X!ReadSwitch(r) PROVE ExternalInv' /\ X!RevokedForGood
  <2> DEFINE c == [X!Idle EXCEPT !.at = "mirroring", !.lan = lan]
  <2>1. c \in X!Call /\ c.at = "mirroring"
    BY <1>0, ExternalIdle DEF X!Call, X!Idle
  <2>2. /\ X!Goto(r, c) /\ xcall[r].at = "saved"
        /\ UNCHANGED <<now, row, apiOn, lan, mirror, window, order, inflight, leaked, passed>>
    BY <1>10 DEF X!ReadSwitch, X!memory
  <2> HIDE DEF c
  <2> QED
    BY <1>0, <1>a, <2>1, <2>2, ExternalMoves
<1>11. ASSUME NEW r \in Pair, X!SetMirror(r) PROVE ExternalInv' /\ X!RevokedForGood
  <2>1. xcall[r].lan \in BOOLEAN
    BY <1>0 DEF X!Call
  <2>2. /\ X!Goto(r, X!Idle) /\ xcall[r].at = "mirroring" /\ mirror' = xcall[r].lan
        /\ UNCHANGED <<now, row, apiOn, lan, window, order, inflight, leaked, passed>>
    BY <1>11 DEF X!SetMirror
  <2> QED
    BY <1>0, <1>a, <2>1, <2>2, ExternalIdle, ExternalMoves
<1>12. ASSUME NEW r \in Pair, X!Abort(r) PROVE ExternalInv' /\ X!RevokedForGood
  <2>1. /\ X!Goto(r, X!Idle) /\ xcall[r].at # "working"
        /\ UNCHANGED <<now, row, apiOn, lan, mirror, window, order, inflight, leaked, passed>>
    BY <1>12 DEF X!Abort, X!memory
  <2> QED
    BY <1>0, <1>a, <2>1, ExternalIdle, ExternalMoves
<1>13. CASE X!Restart
  BY <1>13, <1>a, ExternalRestart DEF X!Restart
<1>14. CASE X!Tick
  <2>1. /\ now' \in X!Times /\ now <= now' /\ now \in Nat /\ now' \in Nat
        /\ UNCHANGED <<row, apiOn, lan, mirror, window, order, inflight, leaked, xcall, passed>>
    BY <1>0, <1>14, ExternalAssumption DEF X!Tick, X!Times, X!memory
  <2>2. X!Tracked' = X!Tracked /\ ExternalKeyed'
    BY <2>1 DEF X!Tracked, ExternalInv, ExternalKeyed
  <2>3. X!TypeOK'
    BY <2>1, <2>2 DEF ExternalInv, X!TypeOK
  <2>4. X!KeysAreForgotten' /\ InOrder(X!Tracked, order)' /\ X!SlotsAreReturned'
    BY <2>1, <2>2 DEF ExternalInv, X!KeysAreForgotten, InOrder, X!SlotsAreReturned
  <2>5. ASSUME NEW x \in Keys PROVE WindowIs(passed[x], window[x])'
    <3>1. WindowIs(passed[x], window[x]) /\ (window[x] # NoUser => window[x].start \in Nat)
      BY DEF ExternalInv, X!TypeOK, X!Hits, X!Times
    <3> QED
      BY <2>1, <3>1 DEF WindowIs, HitsAre
  <2> QED
    BY <1>a, <2>1, <2>2, <2>3, <2>4, <2>5 DEF ExternalInv
<1>15. CASE UNCHANGED X!vars
  <2>1. /\ xcall' = xcall /\ row' = row
        /\ UNCHANGED <<now, apiOn, lan, mirror, window, order, inflight, leaked, passed>>
    BY <1>15 DEF X!vars
  <2>2. ExternalKeyed' /\ \A y \in Keys : Working(y)' = Working(y)
    BY <2>1 DEF ExternalInv, ExternalKeyed, Working
  <2> QED
    BY <1>0, <1>a, <2>1, <2>2, ExternalQuiet
<1> QED
  BY <1>1, <1>2, <1>3, <1>4, <1>5, <1>7, <1>8, <1>9, <1>10, <1>11, <1>12, <1>13, <1>14, <1>15, <1>16
     DEF X!Next, X!Work

LEMMA HoldsTheRate == ExternalInv => X!RateHolds
<1> SUFFICES ASSUME ExternalInv, NEW k \in Keys, Len(passed[k]) > 2 * Limit
             PROVE  passed[k][2 * Limit + 1] + MaxWait > passed[k][1] + Window
  BY DEF X!RateHolds
<1> DEFINE p == passed[k]
           w == window[k]
<1>0. /\ Limit \in Nat /\ Limit # 0 /\ Window \in Nat /\ MaxWait \in Nat
  BY ExternalAssumption
<1>1. /\ p \in Seq(X!Times) /\ WindowIs(p, w) /\ w \in X!Hits \cup {NoUser} /\ Len(p) \in Nat
  BY DEF ExternalInv, X!TypeOK
<1>2. w # NoUser /\ Len(p) = 2 * Limit + 1 /\ HitsAre(p, w.start, w.count)
  BY <1>0, <1>1 DEF WindowIs
<1>3. w.count \in Nat /\ w.count # 0 /\ w.count <= Limit /\ w.start \in Nat
  BY <1>0, <1>1, <1>2 DEF X!Hits, X!Times
<1>4. p[1] \in Nat /\ p[Len(p)] \in Nat /\ 1 \in 1..Len(p) /\ Len(p) \in 1..Len(p)
  <2>1. 1 \in 1..Len(p) /\ Len(p) \in 1..Len(p)
    BY <1>0, <1>1, <1>2
  <2>2. p[1] \in X!Times /\ p[Len(p)] \in X!Times
    BY <1>1, <2>1
  <2> QED
    BY <2>1, <2>2 DEF X!Times
<1> HIDE DEF p, w
<1>5. w.start <= p[Len(p)] + MaxWait
  BY <1>0, <1>1, <1>2, <1>3, <1>4 DEF HitsAre
<1>6. p[1] + Window < w.start
  <2>1. 1 + w.count + Limit <= Len(p)
    BY <1>0, <1>2, <1>3
  <2> QED
    BY <1>2, <1>4, <2>1 DEF HitsAre
<1>7. p[Len(p)] + MaxWait > p[1] + Window
  BY <1>0, <1>3, <1>4, <1>5, <1>6
<1> QED
  BY <1>2, <1>7 DEF p

-----------------------------------------------------------------------------
\* External API: the switch in memory, with one writer at a time

MirrorInv ==
    /\ X!MirrorIsTrue
    /\ \A r, s \in Writers : r = s
    /\ \A r \in Pair : xcall[r].at = "mirroring" => xcall[r].lan = lan

LEMMA MirrorInit == X!Init => MirrorInv
BY ExternalIdle DEF X!Init, MirrorInv, X!MirrorIsTrue, Writers

\* A step that neither begins nor ends the writing of settings.
LEMMA MirrorQuiet ==
    ASSUME MirrorInv, UNCHANGED <<lan, mirror>>,
           \A r \in Pair : xcall'[r] = xcall[r]
                           \/ /\ xcall[r].at \notin {"saved", "mirroring"}
                              /\ xcall'[r].at \notin {"saved", "mirroring"}
    PROVE  MirrorInv'
BY DEF MirrorInv, X!MirrorIsTrue, Writers

LEMMA MirrorStep ==
    ASSUME ExternalInv, MirrorInv, X!Next, \A r, s \in Writers' : r = s,
           \A r \in Pair : xcall[r].at = "saved" => xcall'[r] # X!Idle \/ mirror' = lan'
    PROVE  MirrorInv'
<1>0. xcall \in [Pair -> X!Call]
  BY DEF ExternalInv, X!TypeOK
<1>1. ASSUME NEW r \in Pair, NEW c \in X!Call, X!Goto(r, c), UNCHANGED <<lan, mirror>>,
             xcall[r].at \notin {"saved", "mirroring"}, c.at \notin {"saved", "mirroring"}
      PROVE  MirrorInv'
  <2>1. xcall'[r] = c /\ \A s \in Pair \ {r} : xcall'[s] = xcall[s]
    BY <1>0, <1>1 DEF X!Goto
  <2> QED
    BY <1>1, <2>1, MirrorQuiet
<1>2. ASSUME NEW r \in Pair, NEW k \in Keys, X!Arrive(r, k) PROVE MirrorInv'
  <2> DEFINE c == [X!Idle EXCEPT !.at = "verifying", !.key = k, !.row = row[k]]
  <2>1. c \in X!Call /\ c.at = "verifying"
    BY ExternalIdle DEF X!Call, X!Idle, ExternalInv, X!TypeOK
  <2>2. X!Goto(r, c) /\ xcall[r].at = "idle" /\ UNCHANGED <<lan, mirror>>
    BY <1>2, ExternalIdle DEF X!Arrive, X!memory
  <2> HIDE DEF c
  <2> QED
    BY <1>1, <2>1, <2>2
<1>3. ASSUME NEW r \in Pair, X!Authenticate(r) PROVE MirrorInv'
  <2> DEFINE c == [X!Idle EXCEPT !.at = "known", !.key = xcall[r].key]
  <2>1. c \in X!Call /\ c.at = "known"
    BY <1>0, <1>3, ExternalIdle DEF X!Call, X!Idle
  <2>2. /\ X!Goto(r, c) \/ X!Goto(r, X!Idle)
        /\ xcall[r].at = "verifying" /\ UNCHANGED <<lan, mirror>>
    BY <1>3 DEF X!Authenticate, X!memory
  <2> HIDE DEF c
  <2> QED
    BY <1>1, <2>1, <2>2, ExternalIdle
<1>4. ASSUME NEW r \in Pair, X!Hit(r) \/ X!Acquire(r) PROVE MirrorInv'
  <2> DEFINE c == [xcall[r] EXCEPT !.at = "counted"]
             d == [xcall[r] EXCEPT !.at = "working"]
  <2>1. c \in X!Call /\ c.at = "counted" /\ d \in X!Call /\ d.at = "working"
    BY <1>0 DEF X!Call
  <2>2. /\ X!Goto(r, c) \/ X!Goto(r, d) \/ X!Goto(r, X!Idle)
        /\ xcall[r].at \in {"known", "counted"} /\ UNCHANGED <<lan, mirror>>
    BY <1>4 DEF X!Hit, X!Acquire
  <2> HIDE DEF c, d
  <2> QED
    BY <1>1, <2>1, <2>2, ExternalIdle
<1>5. ASSUME NEW r \in Pair, X!Release(r) \/ X!Leak(r) PROVE MirrorInv'
  BY <1>1, <1>5, ExternalIdle DEF X!Release, X!Leak
<1>6. ASSUME NEW r \in Pair, NEW a \in BOOLEAN, NEW l \in BOOLEAN, X!SaveSettings(r, a, l)
      PROVE  MirrorInv'
  <2> DEFINE c == [X!Idle EXCEPT !.at = "saved"]
  <2>1. c.at = "saved" /\ X!Goto(r, c)
    BY <1>6 DEF X!SaveSettings, X!Idle
  <2> HIDE DEF c
  <2>2. xcall'[r] = c /\ r \in Writers'
    BY <1>0, <2>1 DEF X!Goto, Writers
  <2>3. \A s \in Pair : xcall'[s].at = "mirroring" => FALSE
    BY <2>1, <2>2 DEF Writers
  <2> QED
    BY <2>1, <2>2, <2>3 DEF MirrorInv, X!MirrorIsTrue, Writers
<1>7. ASSUME NEW r \in Pair, X!ReadSwitch(r) PROVE MirrorInv'
  <2> DEFINE c == [X!Idle EXCEPT !.at = "mirroring", !.lan = lan]
  <2>1. c.at = "mirroring" /\ c.lan = lan /\ X!Goto(r, c) /\ lan' = lan
    BY <1>7 DEF X!ReadSwitch, X!Idle
  <2> HIDE DEF c
  <2>2. xcall'[r] = c /\ \A s \in Pair \ {r} : xcall'[s] = xcall[s]
    BY <1>0, <2>1 DEF X!Goto
  <2> QED
    BY <2>1, <2>2 DEF MirrorInv, X!MirrorIsTrue, Writers
<1>8. ASSUME NEW r \in Pair, X!SetMirror(r) PROVE MirrorInv'
  <2>1. mirror' = lan /\ lan' = lan /\ X!Goto(r, X!Idle)
    BY <1>8 DEF X!SetMirror, MirrorInv
  <2>2. xcall'[r] = X!Idle /\ \A s \in Pair \ {r} : xcall'[s] = xcall[s]
    BY <1>0, <2>1 DEF X!Goto
  <2> QED
    BY <2>1, <2>2, ExternalIdle DEF MirrorInv, X!MirrorIsTrue, Writers
<1>9. ASSUME NEW r \in Pair, X!Abort(r) PROVE MirrorInv'
  <2>1. /\ X!Goto(r, X!Idle) /\ UNCHANGED <<lan, mirror>>
        /\ xcall[r].at \in {"verifying", "known", "counted", "saved"}
    BY <1>9 DEF X!Abort, X!memory
  <2>2. CASE xcall[r].at = "saved"
    <3>1. xcall'[r] = X!Idle /\ \A s \in Pair \ {r} : xcall'[s] = xcall[s]
      BY <1>0, <2>1 DEF X!Goto
    <3>2. mirror' = lan'
      BY <2>2, <3>1
    <3> QED
      BY <2>1, <3>1, <3>2, ExternalIdle DEF MirrorInv, X!MirrorIsTrue, Writers
  <2>3. CASE xcall[r].at # "saved"
    BY <1>1, <2>1, <2>3, ExternalIdle
  <2> QED
    BY <2>2, <2>3
<1>10. ASSUME NEW k \in Keys, X!Issue(k) \/ X!Revoke(k) PROVE MirrorInv'
  BY <1>10, MirrorQuiet DEF X!Issue, X!Revoke, X!memory
<1>11. CASE X!Restart
  BY <1>11, ExternalIdle DEF X!Restart, MirrorInv, X!MirrorIsTrue, Writers
<1>12. CASE X!Tick
  BY <1>12, MirrorQuiet DEF X!Tick, X!memory
<1> QED
  BY <1>2, <1>3, <1>4, <1>5, <1>6, <1>7, <1>8, <1>9, <1>10, <1>11, <1>12 DEF X!Next, X!Work

\* However people issue and revoke keys and write settings, and programs ask and end:
\* slots are held by the requests that work and, until a restart, by the proposals the
\* database failed, and by nobody else (acquire, release), of a key no more hits than
\* two windows' are let through in the time of one, less the wait for the lock, and
\* the limiter knows a bounded number of keys (_hit, _evict).
THEOREM KeysAreBounded ==
    X!Spec => [](X!TypeOK /\ X!SlotsAreReturned /\ X!RateHolds /\ X!KeysAreForgotten)
<1>1. ExternalInv => X!TypeOK /\ X!SlotsAreReturned /\ X!RateHolds /\ X!KeysAreForgotten
  BY HoldsTheRate DEF ExternalInv
<1> QED
  BY <1>1, ExternalInit, ExternalStep, PTL DEF X!Spec

ExternalRun == part = "external" => ExternalInv /\ (xcalm => MirrorInv)

\* What AccessIsBounded says of a step.
AccessStep ==
    part = "external" =>
       /\ X!TypeOK' /\ X!SlotsAreReturned' /\ X!RateHolds' /\ X!KeysAreForgotten'
       /\ X!RevokedForGood
       /\ xcalm => X!MirrorIsTrue'

LEMMA HoldsTheRateNext == ExternalInv' => X!RateHolds'
BY HoldsTheRate, PTL

LEMMA ExternalRunStep ==
    ExternalRun /\ [PeopleNext]_peopleVars =>
        /\ ExternalRun'
        /\ part = "external" => X!RevokedForGood /\ ExternalInv' /\ (xcalm => MirrorInv')
<1> SUFFICES ASSUME ExternalRun, [PeopleNext]_peopleVars, part = "external", part' = part
             PROVE  ExternalRun' /\ X!RevokedForGood /\ ExternalInv' /\ (xcalm => MirrorInv')
  BY PartSteps DEF ExternalRun, peopleVars
<1>1. CASE ExternalNext
  <2>1. X!Next /\ xcalm' = xcalm
    BY <1>1 DEF ExternalNext
  <2>2. ExternalInv' /\ X!RevokedForGood
    BY <2>1, ExternalStep DEF ExternalRun
  <2>3. ASSUME xcalm PROVE MirrorInv'
    <3>1. IsFiniteSet(Writers') /\ Cardinality(Writers') <= 1
      BY <1>1, <2>3, PartsAssumption, FS_Subset DEF ExternalNext, Writers
    <3>2. \A r, s \in Writers' : r = s
      BY <3>1, AtMostOne
    <3> QED
      BY <1>1, <2>1, <2>3, <3>2, MirrorStep DEF ExternalRun, ExternalNext
  <2> QED
    BY <2>1, <2>2, <2>3 DEF ExternalRun
<1>2. CASE UNCHANGED externalVars
  <2>1. UNCHANGED X!vars /\ xcalm' = xcalm
    BY <1>2 DEF externalVars, X!vars
  <2>2. ExternalInv' /\ X!RevokedForGood
    BY <2>1, ExternalStep DEF ExternalRun
  <2>3. xcalm => MirrorInv'
    <3>1. xcall' = xcall /\ lan' = lan /\ mirror' = mirror
      BY <2>1 DEF X!vars
    <3> QED
      BY <3>1, MirrorQuiet DEF ExternalRun
  <2> QED
    BY <2>1, <2>2, <2>3 DEF ExternalRun
<1> QED
  BY <1>1, <1>2, PartSteps DEF peopleVars

\* In every run of MCPeople: keys are bounded as above, a revoked key stays revoked
\* (_touch_last_used), and the copy of the LAN switch in memory is true, if settings
\* are written one after the other (refresh_lan_switch).
THEOREM AccessOfPeople == PeopleSpec => AccessIsBounded
<1>1. PeopleInit => ExternalRun
  BY ExternalInit, MirrorInit DEF PeopleInit, ExternalRun
<1>2. PeopleSpec => [][AccessStep]_externalVars
  <2>1. ExternalRun /\ [PeopleNext]_peopleVars => [AccessStep]_externalVars
    BY ExternalRunStep, HoldsTheRateNext
       DEF AccessStep, ExternalInv, MirrorInv
  <2> QED
    BY <1>1, <2>1, ExternalRunStep, PTL DEF PeopleSpec, peopleVars
<1> QED
  BY <1>2, PTL DEF AccessIsBounded, AccessStep

=============================================================================
