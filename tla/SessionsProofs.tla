--------------------------- MODULE SessionsProofs ---------------------------
(***************************************************************************)
(* Proofs about Sessions, for any sessions and requests: the types, and    *)
(* that of requests served one after the other, some of which die on the   *)
(* way, nobody stays signed in on a password that was replaced, and an     *)
(* issued password stays one that must be changed.  (The runs show what    *)
(* requests that overlap do to this.)                                      *)
(***************************************************************************)
EXTENDS Sessions, TLAPS

-----------------------------------------------------------------------------
\* Types

LEMMA IdleIsCall == Idle \in Call /\ Idle.at = "idle"
BY DEF Idle, Call, Chosen, Identity

\* A request in progress has a stage.
Begun == \A r \in Requests : call[r] # Idle => call[r].at # "idle"

TypeInv == TypeOK /\ Begun

LEMMA CallsMove ==
    ASSUME NEW r \in Requests, NEW c \in Call, call \in [Requests -> Call], Begun,
           c # Idle => c.at # "idle", call' = [call EXCEPT ![r] = c]
    PROVE  call' \in [Requests -> Call] /\ Begun'
BY DEF Begun

\* The records that Begin, DeactivateWrite, Write and LoginActive give to a request.
Started(at, own) == [Idle EXCEPT !.at = at, !.own = own, !.seen = identity, !.since = epoch]
Deactivating == [Idle EXCEPT !.at = "deactivating", !.kill = Live]
Flushed(r, at) == [call[r] EXCEPT !.at = at, !.kill = Live \ call[r].own]
Entering(r) == [call[r] EXCEPT !.at = "entering"]

LEMMA StartedOk ==
    ASSUME TypeOK, MaxEpoch \in Nat, NEW own \in SUBSET Sessions,
           NEW at \in {"verified", "changing", "resetting"}
    PROVE  /\ Started(at, own) \in Call
           /\ Started(at, own).at = at /\ Started(at, own).own = own
           /\ Started(at, own).seen = identity /\ Started(at, own).since = epoch
<1>1. Idle \in Call /\ epoch \in Nat /\ identity \in Identity
  BY IdleIsCall DEF TypeOK
<1> QED
  BY <1>1 DEF Started, Call, Idle

LEMMA DeactivatingOk ==
    ASSUME TypeOK
    PROVE  Deactivating \in Call /\ Deactivating.at = "deactivating" /\ Deactivating.kill = Live
<1>1. Idle \in Call /\ Live \subseteq Sessions
  BY IdleIsCall DEF Live
<1> QED
  BY <1>1 DEF Deactivating, Call, Idle

LEMMA FlushedOk ==
    ASSUME TypeOK, NEW r \in Requests, NEW at \in {"changed", "reset"}
    PROVE  /\ Flushed(r, at) \in Call
           /\ Flushed(r, at).at = at /\ Flushed(r, at).own = call[r].own
           /\ Flushed(r, at).kill = Live \ call[r].own
           /\ Flushed(r, at).seen = call[r].seen /\ Flushed(r, at).since = call[r].since
<1>1. call[r] \in Call /\ Live \ call[r].own \in SUBSET Sessions
  BY DEF TypeOK, Live
<1> QED
  BY <1>1 DEF Flushed, Call

LEMMA EnteringOk ==
    ASSUME TypeOK, NEW r \in Requests
    PROVE  /\ Entering(r) \in Call /\ Entering(r).at = "entering"
           /\ Entering(r).seen = call[r].seen /\ Entering(r).since = call[r].since
<1>1. call[r] \in Call
  BY DEF TypeOK
<1> QED
  BY <1>1 DEF Entering, Call

\* A revocation ends what it is to end, keeps what it is to keep up to date, and
\* brings nothing to life.
LEMMA Revocation ==
    ASSUME TypeOK, NEW kill \in SUBSET Sessions, NEW kept \in SUBSET Sessions,
           sess' = Revoked(kill, kept), MaxEpoch \in Nat
    PROVE  /\ sess' \in [Sessions -> Session]
           /\ Live' \subseteq Live \ kill
           /\ \A t \in Live' : sess'[t].since = IF t \in kept /\ sess[t].since = epoch
                                                  THEN epoch + 1 ELSE sess[t].since
<1>1. sess \in [Sessions -> Session] /\ epoch \in Nat
  BY DEF TypeOK
<1>2. ASSUME NEW t \in Sessions
      PROVE  /\ sess'[t] \in Session
             /\ t \in Live' => /\ t \in Live \ kill
                               /\ sess'[t].since = IF t \in kept /\ sess[t].since = epoch
                                                     THEN epoch + 1 ELSE sess[t].since
  <2>1. CASE t \in kill
    <3>1. sess'[t] = [sess[t] EXCEPT !.state = "over"]
      BY <2>1 DEF Revoked
    <3> QED
      BY <1>1, <3>1 DEF Session, Live
  <2>2. CASE t \notin kill /\ t \in kept /\ sess[t].since = epoch
    <3>1. sess'[t] = [sess[t] EXCEPT !.since = epoch + 1]
      BY <2>2 DEF Revoked
    <3> QED
      BY <1>1, <2>2, <3>1 DEF Session, Live
  <2>3. CASE t \notin kill /\ ~(t \in kept /\ sess[t].since = epoch)
    <3>1. sess'[t] = sess[t]
      BY <2>3 DEF Revoked
    <3> QED
      BY <1>1, <2>3, <3>1 DEF Live
  <2> QED
    BY <2>1, <2>2, <2>3
<1>3. sess' = [t \in Sessions |-> sess'[t]]
  BY DEF Revoked
<1> QED
  BY <1>2, <1>3 DEF Live

LEMMA TypeStep ==
    ASSUME MaxEpoch \in Nat
    PROVE  TypeInv /\ [Next]_vars => TypeInv'
<1> SUFFICES ASSUME TypeInv, [Next]_vars PROVE TypeInv'
  OBVIOUS
<1>1. /\ TypeOK /\ Begun /\ Idle \in Call /\ Idle.at = "idle" /\ Live \subseteq Sessions
      /\ active \in BOOLEAN /\ identity \in Identity /\ sess \in [Sessions -> Session]
      /\ epoch \in 0..MaxEpoch /\ call \in [Requests -> Call]
  BY IdleIsCall DEF TypeInv, TypeOK, Live
<1> USE DEF TypeInv
<1>2. ASSUME NEW r \in Requests, NEW at \in {"verified", "changing", "resetting"},
             NEW own \in SUBSET Sessions, Begin(r, at, own)
      PROVE  TypeInv'
  <2>1. Started(at, own) \in Call /\ Started(at, own).at = at
    BY <1>1, StartedOk
  <2>2. call' = [call EXCEPT ![r] = Started(at, own)] /\ UNCHANGED <<active, identity, sess, epoch>>
    BY <1>2 DEF Begin, Started
  <2> QED
    BY <1>1, <2>1, <2>2, CallsMove DEF TypeOK
<1>3. ASSUME NEW r \in Requests, LoginActive(r) PROVE TypeInv'
  <2>1. Entering(r) \in Call /\ Entering(r).at = "entering"
    BY <1>1, EnteringOk
  <2>2. call' = [call EXCEPT ![r] = Entering(r)] \/ call' = [call EXCEPT ![r] = Idle]
    BY <1>3 DEF LoginActive, Entering
  <2> QED
    BY <1>1, <1>3, <2>1, <2>2, CallsMove DEF LoginActive, TypeOK
<1>4. ASSUME NEW r \in Requests, LoginStore(r) PROVE TypeInv'
  <2>1. call[r].since \in Nat
    BY <1>1 DEF Call
  <2>2. PICK t \in Sessions : sess' = [sess EXCEPT ![t] = [state |-> "live", since |-> call[r].since]]
    BY <1>4 DEF LoginStore
  <2>3. sess' \in [Sessions -> Session]
    BY <1>1, <2>1, <2>2 DEF Session
  <2> QED
    BY <1>1, <1>4, <2>3, CallsMove DEF LoginStore, TypeOK
<1>5. ASSUME NEW r \in Requests, Write(r) PROVE TypeInv'
  <2> DEFINE at == IF call[r].at = "changing" THEN "changed" ELSE "reset"
  <2>1. at \in {"changed", "reset"}
    OBVIOUS
  <2>2. Flushed(r, at) \in Call /\ Flushed(r, at).at = at
    BY <1>1, <2>1, FlushedOk
  <2>3. call' = [call EXCEPT ![r] = Flushed(r, at)]
    BY <1>5 DEF Write, Flushed
  <2> HIDE DEF at
  <2> QED
    BY <1>1, <1>5, <2>1, <2>2, <2>3, CallsMove DEF Write, TypeOK
<1>6. ASSUME NEW r \in Requests, Commit(r) PROVE TypeInv'
  <2>1. call[r].kill \in SUBSET Sessions /\ call[r].own \in SUBSET Sessions
    BY <1>1 DEF Call
  <2>2. sess' \in [Sessions -> Session]
    BY <1>1, <1>6, <2>1, Revocation DEF Commit
  <2>3. epoch' \in 0..MaxEpoch
    BY <1>1, <1>6 DEF Commit
  <2>4. identity' \in Identity
    <3>1. (call[r].at = "reset") \in BOOLEAN /\ identity.mustChange \in BOOLEAN
      BY <1>1 DEF Identity
    <3> QED
      BY <1>6, <3>1 DEF Commit, Identity
  <2> QED
    BY <1>1, <1>6, <2>2, <2>3, <2>4, CallsMove DEF Commit, TypeOK
<1>7. ASSUME NEW r \in Requests, DeactivateWrite(r) PROVE TypeInv'
  <2>1. Deactivating \in Call /\ Deactivating.at = "deactivating"
    BY <1>1, DeactivatingOk
  <2>2. call' = [call EXCEPT ![r] = Deactivating]
    BY <1>7 DEF DeactivateWrite, Deactivating
  <2> QED
    BY <1>1, <1>7, <2>1, <2>2, CallsMove DEF DeactivateWrite, TypeOK
<1>8. ASSUME NEW r \in Requests, DeactivateCommit(r) PROVE TypeInv'
  <2>1. call[r].kill \in SUBSET Sessions /\ {} \in SUBSET Sessions
    BY <1>1 DEF Call
  <2>2. sess' \in [Sessions -> Session]
    BY <1>1, <1>8, <2>1, Revocation DEF DeactivateCommit
  <2>3. epoch' \in 0..MaxEpoch
    BY <1>1, <1>8 DEF DeactivateCommit
  <2> QED
    BY <1>1, <1>8, <2>2, <2>3, CallsMove DEF DeactivateCommit, TypeOK
<1>9. ASSUME NEW r \in Requests, Abort(r) PROVE TypeInv'
  BY <1>1, <1>9, CallsMove DEF Abort, TypeOK
<1>10. ASSUME NEW t \in Sessions, Logout(t) PROVE TypeInv'
  <2>1. sess' \in [Sessions -> Session]
    BY <1>1, <1>10 DEF Logout, Session
  <2> QED
    BY <1>1, <1>10, <2>1 DEF Logout, TypeOK, Begun
<1>11. CASE Reactivate \/ UNCHANGED vars
  BY <1>1, <1>11 DEF Reactivate, vars, TypeOK, Begun
<1>12. ASSUME NEW r \in Requests, NEW t \in Sessions, ChangeRead(r, t) PROVE TypeInv'
  BY <1>2, <1>12 DEF ChangeRead
<1> QED
  BY <1>2, <1>3, <1>4, <1>5, <1>6, <1>7, <1>8, <1>9, <1>10, <1>11, <1>12
     DEF Next, LoginVerify, ResetRead

LEMMA TypeInit == ASSUME MaxEpoch \in Nat PROVE Init => TypeInv
BY IdleIsCall DEF Init, TypeInv, TypeOK, Begun, Chosen, Identity, Session

\* Every state is of the declared types, and every request in progress has a stage.
THEOREM TypeCorrect == ASSUME MaxEpoch \in Nat PROVE Spec => []TypeInv
BY TypeInit, TypeStep, PTL DEF Spec

-----------------------------------------------------------------------------
\* One request at a time

Alone == \A r, s \in Requests : call[r] # Idle /\ call[s] # Idle => r = s

SerialSpec == Init /\ [][Next /\ Alone']_vars

\* The only request in progress has read the password of now, and revokes every
\* session it does not keep.  (Sessions may end under it.)
Fresh(r) ==
    /\ call[r].at \in {"verified", "entering", "changing", "resetting", "changed", "reset"} =>
          call[r].seen = identity /\ call[r].since = epoch
    /\ call[r].at \in {"changed", "reset"} => Live \ call[r].own \subseteq call[r].kill
    /\ call[r].at = "deactivating" => Live \subseteq call[r].kill

SerialInv ==
    /\ TypeInv /\ Alone
    /\ \A r \in Requests : Fresh(r)
    /\ SessionsAreCurrent /\ TempMustBeChanged

\* Nobody works but the request that works.
LEMMA OthersIdle ==
    ASSUME SerialInv, NEW r \in Requests, call[r] # Idle
    PROVE  \A s \in Requests \ {r} : call[s] = Idle
BY DEF SerialInv, Alone

LEMMA IdleIsFresh ==
    ASSUME call \in [Requests -> Call], NEW r \in Requests, call' = [call EXCEPT ![r] = Idle],
           \A s \in Requests \ {r} : call[s] = Idle
    PROVE  \A s \in Requests : Fresh(s)'
<1>1. \A s \in Requests : call'[s] = Idle
  OBVIOUS
<1> QED
  BY <1>1, IdleIsCall DEF Fresh

\* A step that changes neither the password nor brings a session to life leaves
\* every request fresh but the one that makes it.
LEMMA QuietStep ==
    ASSUME SerialInv, TypeInv', Alone', NEW r \in Requests,
           \A s \in Requests \ {r} : call'[s] = call[s], Fresh(r)',
           UNCHANGED <<identity, sess, epoch>>
    PROVE  SerialInv'
<1>1. Live' = Live
  BY DEF Live
<1>2. \A s \in Requests \ {r} : Fresh(s)'
  BY <1>1 DEF SerialInv, Fresh
<1>3. SessionsAreCurrent' /\ TempMustBeChanged'
  BY <1>1 DEF SerialInv, SessionsAreCurrent, TempMustBeChanged
<1> QED
  BY <1>2, <1>3 DEF SerialInv

LEMMA SerialStep ==
    ASSUME MaxEpoch \in Nat
    PROVE  SerialInv /\ TypeInv' /\ [Next /\ Alone']_vars => SerialInv'
<1> SUFFICES ASSUME SerialInv, TypeInv', Next /\ Alone' PROVE SerialInv'
  <2>1. CASE UNCHANGED vars
    <3>1. Live' = Live
      BY <2>1 DEF vars, Live
    <3> QED
      BY <2>1, <3>1 DEF vars, SerialInv, Alone, Fresh, SessionsAreCurrent, TempMustBeChanged
  <2> QED
    BY <2>1
<1>1. /\ TypeOK /\ Begun /\ Idle.at = "idle" /\ epoch \in Nat
      /\ sess \in [Sessions -> Session] /\ call \in [Requests -> Call]
  BY IdleIsCall DEF SerialInv, TypeInv, TypeOK
<1>2. ASSUME NEW r \in Requests, NEW at \in {"verified", "changing", "resetting"},
             NEW own \in SUBSET Sessions, Begin(r, at, own)
      PROVE  SerialInv'
  <2>1. call' = [call EXCEPT ![r] = Started(at, own)] /\ UNCHANGED <<identity, sess, epoch>>
    BY <1>2 DEF Begin, Started
  <2>2. Fresh(r)'
    BY <1>1, <2>1, StartedOk DEF Fresh
  <2> QED
    BY <1>1, <2>1, <2>2, QuietStep
<1>3. ASSUME NEW r \in Requests, LoginActive(r) PROVE SerialInv'
  <2>1. CASE active
    <3>1. call' = [call EXCEPT ![r] = Entering(r)] /\ UNCHANGED <<identity, sess, epoch>>
      BY <1>3, <2>1 DEF LoginActive, Entering
    <3>2. call[r].at = "verified" /\ Fresh(r)
      BY <1>3 DEF LoginActive, SerialInv
    <3>3. Fresh(r)'
      BY <1>1, <3>1, <3>2, EnteringOk DEF Fresh
    <3> QED
      BY <1>1, <3>1, <3>3, QuietStep
  <2>2. CASE ~active
    <3>1. call' = [call EXCEPT ![r] = Idle] /\ UNCHANGED <<identity, sess, epoch>>
      BY <1>3, <2>2 DEF LoginActive
    <3>2. Fresh(r)'
      BY <1>1, <3>1 DEF Fresh
    <3> QED
      BY <1>1, <3>1, <3>2, QuietStep
  <2> QED
    BY <2>1, <2>2
<1>4. ASSUME NEW r \in Requests, LoginStore(r) PROVE SerialInv'
  <2>1. call[r].at = "entering" /\ call' = [call EXCEPT ![r] = Idle] /\ UNCHANGED <<identity, epoch>>
    BY <1>4 DEF LoginStore
  <2>2. call[r].since = epoch
    BY <2>1 DEF SerialInv, Fresh
  <2>3. PICK t \in Sessions : sess' = [sess EXCEPT ![t] = [state |-> "live", since |-> epoch]]
    BY <1>4, <2>2 DEF LoginStore
  <2>4. \A s \in Requests : Fresh(s)'
    BY <1>1, <2>1, OthersIdle, IdleIsFresh
  <2>5. SessionsAreCurrent'
    BY <1>1, <2>1, <2>3 DEF SerialInv, SessionsAreCurrent, Live
  <2> QED
    BY <2>1, <2>4, <2>5 DEF SerialInv, TempMustBeChanged
<1>5. ASSUME NEW r \in Requests, Write(r) PROVE SerialInv'
  <2> DEFINE at == IF call[r].at = "changing" THEN "changed" ELSE "reset"
  <2>1. at \in {"changed", "reset"}
    OBVIOUS
  <2>2. call' = [call EXCEPT ![r] = Flushed(r, at)] /\ UNCHANGED <<identity, sess, epoch>>
    BY <1>5 DEF Write, Flushed
  <2>3. call[r].seen = identity /\ call[r].since = epoch
    BY <1>5 DEF Write, SerialInv, Fresh
  <2> HIDE DEF at
  <2>4. /\ call'[r].at = at /\ call'[r].seen = identity' /\ call'[r].since = epoch'
        /\ call'[r].kill = Live \ call'[r].own
    BY <1>1, <2>1, <2>2, <2>3, FlushedOk
  <2>5. Live' = Live
    BY <2>2 DEF Live
  <2>6. Fresh(r)'
    BY <2>1, <2>4, <2>5 DEF Fresh
  <2> QED
    BY <1>1, <2>2, <2>6, QuietStep
<1>6. ASSUME NEW r \in Requests, Commit(r) PROVE SerialInv'
  <2>1. /\ call[r].at \in {"changed", "reset"} /\ call' = [call EXCEPT ![r] = Idle]
        /\ epoch' = epoch + 1 /\ sess' = Revoked(call[r].kill, call[r].own)
    BY <1>6 DEF Commit
  <2>2. /\ call[r].seen = identity /\ Live \ call[r].own \subseteq call[r].kill
        /\ call[r].kill \in SUBSET Sessions /\ call[r].own \in SUBSET Sessions
    BY <1>1, <2>1 DEF SerialInv, Fresh, Call
  <2>3. \A s \in Requests : Fresh(s)'
    BY <1>1, <2>1, OthersIdle, IdleIsFresh
  <2>4. SessionsAreCurrent'
    <3>1. /\ Live' \subseteq Live \ call[r].kill
          /\ \A t \in Live' : sess'[t].since = IF t \in call[r].own /\ sess[t].since = epoch
                                                 THEN epoch + 1 ELSE sess[t].since
      BY <1>1, <2>1, <2>2, Revocation
    <3>2. \A t \in Live' : t \in call[r].own /\ sess[t].since = epoch
      BY <2>2, <3>1 DEF SerialInv, SessionsAreCurrent
    <3> QED
      BY <2>1, <3>1, <3>2 DEF SessionsAreCurrent
  <2>5. TempMustBeChanged'
    BY <1>6, <2>2 DEF Commit, TempMustBeChanged
  <2> QED
    BY <2>3, <2>4, <2>5 DEF SerialInv
<1>7. ASSUME NEW r \in Requests, DeactivateWrite(r) PROVE SerialInv'
  <2>1. call' = [call EXCEPT ![r] = Deactivating] /\ UNCHANGED <<identity, sess, epoch>>
    BY <1>7 DEF DeactivateWrite, Deactivating
  <2>2. Live' = Live
    BY <2>1 DEF Live
  <2>3. Fresh(r)'
    BY <1>1, <2>1, <2>2, DeactivatingOk DEF Fresh
  <2> QED
    BY <1>1, <2>1, <2>3, QuietStep
<1>8. ASSUME NEW r \in Requests, DeactivateCommit(r) PROVE SerialInv'
  <2>1. /\ call[r].at = "deactivating" /\ call' = [call EXCEPT ![r] = Idle]
        /\ identity' = identity /\ sess' = Revoked(call[r].kill, {})
    BY <1>8 DEF DeactivateCommit
  <2>2. Live \subseteq call[r].kill /\ call[r].kill \in SUBSET Sessions /\ {} \in SUBSET Sessions
    BY <1>1, <2>1 DEF SerialInv, Fresh, Call
  <2>3. \A s \in Requests : Fresh(s)'
    BY <1>1, <2>1, OthersIdle, IdleIsFresh
  <2>4. Live' = {}
    BY <1>1, <2>1, <2>2, Revocation
  <2> QED
    BY <2>1, <2>3, <2>4 DEF SerialInv, SessionsAreCurrent, TempMustBeChanged
<1>9. ASSUME NEW r \in Requests, Abort(r) PROVE SerialInv'
  <2>1. call' = [call EXCEPT ![r] = Idle] /\ UNCHANGED <<identity, sess, epoch>>
    BY <1>9 DEF Abort
  <2>2. Fresh(r)'
    BY <1>1, <2>1 DEF Fresh
  <2> QED
    BY <1>1, <2>1, <2>2, QuietStep
<1>10. ASSUME NEW t \in Sessions, Logout(t) PROVE SerialInv'
  <2>1. /\ sess' = [sess EXCEPT ![t].state = "over"] /\ UNCHANGED <<identity, epoch, call>>
    BY <1>10 DEF Logout
  <2>2. Live' \subseteq Live /\ \A u \in Live' : sess'[u] = sess[u]
    BY <1>1, <2>1 DEF Live, Session
  <2>3. \A r \in Requests : Fresh(r)'
    BY <2>1, <2>2 DEF SerialInv, Fresh
  <2> QED
    BY <2>1, <2>2, <2>3 DEF SerialInv, SessionsAreCurrent, TempMustBeChanged
<1>11. ASSUME Reactivate PROVE SerialInv'
  <2>1. Live' = Live
    BY <1>11 DEF Reactivate, Live
  <2> QED
    BY <1>11, <2>1 DEF Reactivate, SerialInv, Fresh, SessionsAreCurrent, TempMustBeChanged
<1>12. ASSUME NEW r \in Requests, NEW t \in Sessions, ChangeRead(r, t) PROVE SerialInv'
  BY <1>2, <1>12 DEF ChangeRead
<1> QED
  BY <1>2, <1>3, <1>4, <1>5, <1>6, <1>7, <1>8, <1>9, <1>10, <1>11, <1>12
     DEF Next, LoginVerify, ResetRead

LEMMA SerialInit == ASSUME MaxEpoch \in Nat PROVE Init => SerialInv
<1> SUFFICES ASSUME Init PROVE SerialInv
  OBVIOUS
<1>1. TypeInv
  BY TypeInit
<1>2. Live = {} /\ \A r \in Requests : call[r] = Idle
  BY DEF Init, Live
<1> QED
  BY <1>1, <1>2, IdleIsCall
     DEF Init, SerialInv, Alone, Fresh, SessionsAreCurrent, TempMustBeChanged, Chosen

\* Requests served one after the other, some of which die: nobody stays signed in
\* on a password that was replaced or from before a deactivation, and an issued
\* password must be changed (reset_password, change_password, set_active).
THEOREM SerialSessions ==
    ASSUME MaxEpoch \in Nat
    PROVE  SerialSpec => [](SessionsAreCurrent /\ TempMustBeChanged)
<1>1. SerialInv /\ [Next /\ Alone']_vars => SerialInv'
  <2>1. [Next /\ Alone']_vars => [Next]_vars
    OBVIOUS
  <2> QED
    BY <2>1, TypeStep, SerialStep DEF SerialInv
<1>2. SerialInv => SessionsAreCurrent /\ TempMustBeChanged
  BY DEF SerialInv
<1> QED
  BY <1>1, <1>2, SerialInit, PTL DEF SerialSpec

=============================================================================
