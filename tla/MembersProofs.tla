---------------------------- MODULE MembersProofs ----------------------------
(***************************************************************************)
(* Proofs about Members, for any users and requests: the types, and that   *)
(* of requests served one after the other, some of which die on the way, a *)
(* workspace with members keeps an owner and only an owner lets others in. *)
(* (The run MembersLastOwner shows that requests that overlap do not.)     *)
(***************************************************************************)
EXTENDS Members, FiniteSetTheorems, TLAPS

-----------------------------------------------------------------------------
\* Types

LEMMA IdleIsCall == Idle \in Call /\ Idle.at = "idle"
BY DEF Idle, Call

\* A request in progress works for somebody on somebody, and who adds gives a role.
Underway(c) ==
    c # Idle => /\ c.at # "idle" /\ c.by \in Users /\ c.who \in Users
                /\ c.at = "adding" => c.to \in Roles

TypeInv == TypeOK /\ \A r \in Requests : Underway(call[r])

LEMMA TypeStep == TypeInv /\ [Next]_vars => TypeInv'
<1> SUFFICES ASSUME TypeInv, [Next]_vars PROVE TypeInv'
  OBVIOUS
<1>1. /\ created \in BOOLEAN /\ role \in [Users -> Roles \cup {"none"}]
      /\ call \in [Requests -> Call] /\ \A r \in Requests : Underway(call[r])
  BY DEF TypeInv, TypeOK
<1>2. ASSUME NEW r \in Requests, NEW c \in Call, Underway(c), call' = [call EXCEPT ![r] = c]
      PROVE  call' \in [Requests -> Call] /\ \A s \in Requests : Underway(call'[s])
  BY <1>1, <1>2
<1>3. Idle \in Call /\ Underway(Idle) /\ Idle.at = "idle"
  BY IdleIsCall DEF Underway
<1>4. ASSUME NEW r \in Requests, NEW u \in Users, NEW t \in Users,
             NEW at \in {"adding", "changing"}, NEW to \in Roles \cup {"none"},
             at = "adding" => to \in Roles,
             call' = [call EXCEPT ![r] = [at |-> at, by |-> u, who |-> t, to |-> to]],
             created' \in BOOLEAN, role' = role
      PROVE  TypeInv'
  <2> DEFINE c == [at |-> at, by |-> u, who |-> t, to |-> to]
  <2>1. c \in Call /\ Underway(c)
    BY <1>4 DEF Call, Underway
  <2>2. call' = [call EXCEPT ![r] = c]
    BY <1>4
  <2> HIDE DEF c
  <2> QED
    BY <1>1, <1>2, <1>4, <2>1, <2>2 DEF TypeInv, TypeOK
<1>5. ASSUME NEW r \in Requests, NEW u \in Users, CreateWorkspace(r, u) PROVE TypeInv'
  BY <1>4, <1>5 DEF CreateWorkspace, Roles
<1>6. ASSUME NEW r \in Requests, NEW u \in Users, NEW t \in Users, NEW to \in Roles,
             AddRead(r, u, t, to)
      PROVE  TypeInv'
  BY <1>1, <1>4, <1>6 DEF AddRead
<1>7. ASSUME NEW r \in Requests, NEW u \in Users, NEW t \in Users, NEW to \in Roles \cup {"none"},
             ChangeRead(r, u, t, to)
      PROVE  TypeInv'
  BY <1>1, <1>4, <1>7 DEF ChangeRead
<1>8. ASSUME NEW r \in Requests, AddInsert(r) PROVE TypeInv'
  <2>1. call[r].who \in Users /\ call[r].to \in Roles
    BY <1>1, <1>3, <1>8 DEF AddInsert, Underway
  <2>2. role' \in [Users -> Roles \cup {"none"}]
    BY <1>1, <1>8, <2>1 DEF AddInsert
  <2> QED
    BY <1>1, <1>2, <1>3, <1>8, <2>2 DEF AddInsert, TypeInv, TypeOK
<1>9. ASSUME NEW r \in Requests, ChangeWrite(r) PROVE TypeInv'
  <2>1. call[r].who \in Users /\ call[r].to \in Roles \cup {"none"}
    BY <1>1, <1>3, <1>9 DEF ChangeWrite, Underway, Call
  <2>2. role' \in [Users -> Roles \cup {"none"}]
    BY <1>1, <1>9, <2>1 DEF ChangeWrite
  <2>3. call' \in [Requests -> Call] /\ \A s \in Requests : Underway(call'[s])
    BY <1>1, <1>3, <1>9 DEF ChangeWrite
  <2> QED
    BY <1>1, <1>9, <2>2, <2>3 DEF ChangeWrite, TypeInv, TypeOK
<1>10. ASSUME NEW r \in Requests, Abort(r) PROVE TypeInv'
  BY <1>1, <1>2, <1>3, <1>10 DEF Abort, TypeInv, TypeOK
<1>11. CASE UNCHANGED vars
  BY <1>11 DEF vars, TypeInv, TypeOK
<1> QED
  BY <1>5, <1>6, <1>7, <1>8, <1>9, <1>10, <1>11 DEF Next

LEMMA TypeInit == Init => TypeInv
BY IdleIsCall DEF Init, TypeInv, TypeOK, Underway

\* Every state is of the declared types, and every request in progress works for
\* somebody on somebody.
THEOREM TypeCorrect == Spec => []TypeInv
BY TypeInit, TypeStep, PTL DEF Spec

-----------------------------------------------------------------------------
\* One request at a time

Alone == \A r, s \in Requests : call[r] # Idle /\ call[s] # Idle => r = s

SerialSpec == Init /\ [][Next /\ Alone']_vars

\* What the only request in progress has read of the roster is still so.
Entitled(c) ==
    /\ c.at = "adding" => IF Roster = {} THEN c.to = "owner" ELSE c.by \in Owners
    /\ c.at = "changing" =>
          /\ c.by \in Owners /\ c.who \in Roster
          /\ c.who \in Owners /\ c.to # "owner" => Owners \ {c.who} # {}

\* A workspace that does not exist has no members, and nobody works on it.
Unborn == ~created => Roster = {} /\ \A r \in Requests : call[r] = Idle

HasOwner == Roster # {} => Owners # {}

SerialInv ==
    /\ TypeInv /\ Alone /\ Unborn /\ HasOwner
    /\ \A r \in Requests : Entitled(call[r])

\* Somebody who enters a workspace that has members is let in by an owner.
LetIn ==
    \A t \in Roster' \ Roster : Roster # {} =>
        \E r \in Requests : call[r].who = t /\ call[r].by \in Owners

\* An owner who is not the only one leaves another.
LEMMA NotTheLast ==
    ASSUME NEW t \in Owners, Cardinality(Owners) # 1
    PROVE  Owners \ {t} # {}
<1> SUFFICES ASSUME Owners = {t} PROVE FALSE
  OBVIOUS
<1>1. Cardinality({t}) = 1
  BY FS_Singleton
<1> QED
  BY <1>1

LEMMA SerialStep ==
    SerialInv /\ TypeInv' /\ [Next /\ Alone']_vars => SerialInv' /\ (LetIn \/ UNCHANGED vars)
<1> SUFFICES ASSUME SerialInv, TypeInv', Next /\ Alone' PROVE SerialInv' /\ LetIn
  <2>1. CASE UNCHANGED vars
    BY <2>1 DEF vars, SerialInv, Alone, Unborn, HasOwner, Entitled, Roster, Owners
  <2> QED
    BY <2>1
<1>1. /\ role \in [Users -> Roles \cup {"none"}] /\ call \in [Requests -> Call]
      /\ \A r \in Requests : Underway(call[r]) /\ Entitled(call[r])
  BY DEF SerialInv, TypeInv, TypeOK
<1>2. Idle.at = "idle" /\ \A c : c = Idle => Entitled(c)
  BY IdleIsCall DEF Entitled
<1>3. ASSUME role' = role, created => created', NEW r \in Requests,
             \A s \in Requests \ {r} : call'[s] = call[s], Entitled(call'[r]),
             created' \/ call'[r] = Idle
      PROVE  SerialInv' /\ LetIn
  <2>1. Roster' = Roster /\ Owners' = Owners
    BY <1>3 DEF Roster, Owners
  <2>2. \A s \in Requests : Entitled(call[s])' <=> Entitled(call'[s])
    BY <2>1 DEF Entitled
  <2>3. \A s \in Requests : Entitled(call[s])'
    BY <1>1, <1>3, <2>2
  <2>4. Unborn'
    BY <1>3, <2>1 DEF SerialInv, Unborn
  <2> QED
    BY <2>1, <2>3, <2>4 DEF SerialInv, HasOwner, LetIn
<1>4. ASSUME NEW r \in Requests, NEW u \in Users, CreateWorkspace(r, u)
      PROVE  SerialInv' /\ LetIn
  <2>1. Roster = {} /\ created' /\ role' = role
    BY <1>4 DEF CreateWorkspace, SerialInv, Unborn
  <2>2. call' = [call EXCEPT ![r] = [at |-> "adding", by |-> u, who |-> u, to |-> "owner"]]
    BY <1>4 DEF CreateWorkspace
  <2>3. Entitled(call'[r])
    BY <1>1, <2>1, <2>2 DEF Entitled
  <2> QED
    BY <1>1, <1>3, <2>1, <2>2, <2>3
<1>5. ASSUME NEW r \in Requests, NEW u \in Users, NEW t \in Users, NEW to \in Roles,
             AddRead(r, u, t, to)
      PROVE  SerialInv' /\ LetIn
  <2>1. call' = [call EXCEPT ![r] = [at |-> "adding", by |-> u, who |-> t, to |-> to]]
    BY <1>5 DEF AddRead
  <2>2. Entitled(call'[r])
    BY <1>1, <1>5, <2>1 DEF AddRead, Entitled, Owners
  <2> QED
    BY <1>1, <1>3, <1>5, <2>1, <2>2 DEF AddRead
<1>6. ASSUME NEW r \in Requests, NEW u \in Users, NEW t \in Users, NEW to \in Roles \cup {"none"},
             ChangeRead(r, u, t, to)
      PROVE  SerialInv' /\ LetIn
  <2>1. /\ call' = [call EXCEPT ![r] = [at |-> "changing", by |-> u, who |-> t, to |-> to]]
        /\ UNCHANGED <<created, role>>
        /\ u \in Owners /\ t \in Roster
        /\ t \in Owners /\ to # "owner" => Cardinality(Owners) # 1
    BY <1>6 DEF ChangeRead, Owners, Roster
  <2>2. t \in Owners /\ to # "owner" => Owners \ {t} # {}
    BY <2>1, NotTheLast
  <2>3. Entitled(call'[r])
    BY <1>1, <2>1, <2>2 DEF Entitled
  <2>4. created
    BY <2>1 DEF SerialInv, Unborn
  <2> QED
    BY <1>1, <1>3, <2>1, <2>3, <2>4
<1>7. ASSUME NEW r \in Requests, Abort(r) PROVE SerialInv' /\ LetIn
  <2>1. call' = [call EXCEPT ![r] = Idle] /\ UNCHANGED <<created, role>>
    BY <1>7 DEF Abort
  <2> QED
    BY <1>1, <1>2, <1>3, <2>1
<1>8. ASSUME NEW r \in Requests, call[r] # Idle, call'[r] = Idle,
             \A s \in Requests \ {r} : call'[s] \in {call[s], Idle}, created' = created, HasOwner'
      PROVE  SerialInv'
  <2>1. \A s \in Requests : call'[s] = Idle
    BY <1>8 DEF SerialInv, Alone
  <2>2. \A s \in Requests : Entitled(call[s])'
    BY <2>1, IdleIsCall DEF Entitled
  <2>3. created
    BY <1>8 DEF SerialInv, Unborn
  <2> QED
    BY <1>8, <2>1, <2>2, <2>3 DEF SerialInv, Unborn
<1>9. ASSUME NEW r \in Requests, AddInsert(r) PROVE SerialInv' /\ LetIn
  <2> DEFINE t == call[r].who
  <2>1. /\ call[r].at = "adding" /\ call[r] # Idle /\ t \in Users /\ call[r].to \in Roles
        /\ call' = [call EXCEPT ![r] = Idle] /\ created' = created
    BY <1>1, <1>2, <1>9 DEF AddInsert, Underway
  <2>2. \A u \in Users : role'[u] = IF u = t /\ role[t] = "none" THEN call[r].to ELSE role[u]
    BY <1>1, <1>9, <2>1 DEF AddInsert
  <2>3. Owners \subseteq Owners' /\ Roster' \subseteq Roster \cup {t}
    BY <2>2 DEF Owners, Roster
  <2>4. IF Roster = {} THEN call[r].to = "owner" ELSE call[r].by \in Owners
    BY <1>1, <2>1 DEF Entitled
  <2>5. HasOwner'
    <3>1. CASE Roster = {}
      <4>1. role[t] = "none"
        BY <2>1, <3>1 DEF Roster
      <4> QED
        BY <2>1, <2>2, <2>4, <3>1, <4>1 DEF HasOwner, Owners
    <3>2. CASE Roster # {}
      BY <2>3, <2>4, <3>2 DEF HasOwner
    <3> QED
      BY <3>1, <3>2
  <2>6. SerialInv'
    BY <1>1, <1>8, <2>1, <2>5
  <2>7. LetIn
    BY <2>3, <2>4 DEF LetIn
  <2> QED
    BY <2>6, <2>7
<1>10. ASSUME NEW r \in Requests, ChangeWrite(r) PROVE SerialInv' /\ LetIn
  <2> DEFINE t == call[r].who
  <2>1. /\ call[r].at = "changing" /\ call[r] # Idle /\ t \in Users /\ created' = created
        /\ call'[r] = Idle /\ \A s \in Requests \ {r} : call'[s] \in {call[s], Idle}
    BY <1>1, <1>2, <1>10 DEF ChangeWrite, Underway
  <2>2. \A u \in Users : role'[u] = IF u = t THEN call[r].to ELSE role[u]
    BY <1>1, <1>10, <2>1 DEF ChangeWrite
  <2>3. /\ call[r].by \in Owners /\ t \in Roster
        /\ t \in Owners /\ call[r].to # "owner" => Owners \ {t} # {}
    BY <1>1, <2>1 DEF Entitled
  <2>4. Owners \ {t} \subseteq Owners' /\ Roster' \subseteq Roster
    BY <2>2, <2>3 DEF Owners, Roster
  <2>5. Owners' # {}
    <3>1. CASE call[r].to = "owner"
      BY <2>1, <2>2, <3>1 DEF Owners
    <3>2. CASE call[r].to # "owner"
      BY <2>3, <2>4, <3>2
    <3> QED
      BY <3>1, <3>2
  <2>6. SerialInv'
    BY <1>8, <2>1, <2>5 DEF HasOwner
  <2>7. LetIn
    BY <2>4 DEF LetIn
  <2> QED
    BY <2>6, <2>7
<1> QED
  BY <1>4, <1>5, <1>6, <1>7, <1>9, <1>10 DEF Next

LEMMA SerialInit == Init => SerialInv
<1> SUFFICES ASSUME Init PROVE SerialInv
  OBVIOUS
<1>1. Roster = {} /\ \A r \in Requests : call[r] = Idle
  BY DEF Init, Roster
<1> QED
  BY <1>1, TypeInit, IdleIsCall DEF SerialInv, Alone, Unborn, HasOwner, Entitled

\* Requests served one after the other, some of which die, also between a
\* workspace and its owner: a workspace with members has an owner, and nobody
\* enters it other than through one (members.py, create_workspace).
THEOREM SerialOwners == SerialSpec => []HasOwner /\ [][LetIn]_vars
<1>1. SerialInv /\ [Next /\ Alone']_vars => SerialInv' /\ [LetIn]_vars
  <2>1. [Next /\ Alone']_vars => [Next]_vars
    OBVIOUS
  <2> QED
    BY <2>1, TypeStep, SerialStep DEF SerialInv
<1>2. SerialInv => HasOwner
  BY DEF SerialInv
<1> QED
  BY <1>1, <1>2, SerialInit, PTL DEF SerialSpec

=============================================================================
