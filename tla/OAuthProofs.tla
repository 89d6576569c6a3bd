----------------------------- MODULE OAuthProofs -----------------------------
(***************************************************************************)
(* Proofs about OAuth, for any accounts, browsers, transactions and        *)
(* callbacks served at the same time: the types, that a transaction lets   *)
(* one callback through, of the browser that started it, and that an       *)
(* identity is linked only to an account that asked for it.                *)
(***************************************************************************)
EXTENDS OAuth, TLAPS

-----------------------------------------------------------------------------
\* Types

LEMMA IdleIsCall == Idle \in Call
BY DEF Idle, Call

LEMMA UnusedIsTxn == Unused \in Txn
BY DEF Unused, Txn

\* A transaction moves on.
LEMMA Moved ==
    ASSUME tx \in [Txns -> Txn], NEW t \in Txns, NEW st \in {"open", "claimed", "consumed"},
           tx' = [tx EXCEPT ![t].state = st]
    PROVE  /\ tx' \in [Txns -> Txn]
           /\ tx'[t].state = st /\ tx'[t].from = tx[t].from
           /\ \A u \in Txns \ {t} : tx'[u] = tx[u]
<1> DEFINE x == [tx[t] EXCEPT !.state = st]
<1>1. tx[t] \in Txn
  OBVIOUS
<1>2. x \in Txn /\ x.state = st /\ x.from = tx[t].from
  BY <1>1 DEF Txn
<1>3. tx' = [tx EXCEPT ![t] = x]
  OBVIOUS
<1> HIDE DEF x
<1> QED
  BY <1>2, <1>3

\* A callback in progress has its browser and its transaction, and past the answer
\* of the provider the subject.
Underway(c) ==
    c # Idle => /\ c.at # "idle" /\ c.in \in Browsers /\ c.tx \in Txns
                /\ c.at \in {"creating", "linking"} => c.who \in Users

TypeInv == TypeOK /\ \A r \in Requests : Underway(call[r])

LEMMA ReceivedOk ==
    ASSUME TypeOK, NEW b \in Browsers, NEW t \in Txns
    PROVE  /\ Received(b, t) \in Call /\ Received(b, t).at = "claimed"
           /\ Received(b, t).in = b /\ Received(b, t).binder = cookie[b]
           /\ Received(b, t).tx = t
BY DEF TypeOK, Received, Idle, Call

LEMMA TypeStep == TypeInv /\ [Next]_vars => TypeInv'
<1> SUFFICES ASSUME TypeInv, [Next]_vars PROVE TypeInv'
  OBVIOUS
<1> USE DEF TypeInv
<1>1. Idle \in Call
  BY IdleIsCall
<1>2. ASSUME NEW r \in Requests, NEW c \in Call, Underway(c), call' = [call EXCEPT ![r] = c]
      PROVE  call' \in [Requests -> Call] /\ \A s \in Requests : Underway(call'[s])
  BY <1>2 DEF TypeOK
<1>3. Underway(Idle)
  BY DEF Underway
<1>4. ASSUME NEW b \in Browsers, NEW t \in Txns, NEW kind \in {"login", "link"}, Start(b, t, kind)
      PROVE  TypeInv'
  <2> DEFINE new == [state |-> "open", kind |-> kind,
                     by |-> IF kind = "link" THEN signedIn[b] ELSE None, from |-> b]
  <2>1. signedIn[b] \in Users \cup {None} /\ (kind = "link" => signedIn[b] \in Users)
    BY <1>4 DEF TypeOK, Start
  <2>2. new \in Txn
    BY <2>1 DEF Txn
  <2>3. tx' = [tx EXCEPT ![t] = new] /\ cookie' = [cookie EXCEPT ![b] = t]
    BY <1>4 DEF Start
  <2> HIDE DEF new
  <2> QED
    BY <1>4, <2>1, <2>2, <2>3 DEF Start, TypeOK
<1>5. ASSUME NEW t \in Txns, Expire(t) PROVE TypeInv'
  <2>1. tx' \in [Txns -> Txn]
    BY <1>5, Moved DEF Expire, TypeOK
  <2> QED
    BY <1>5, <2>1 DEF Expire, TypeOK
<1>6. ASSUME NEW b \in Browsers, NEW u \in Users \cup {None}, SignIn(b, u) PROVE TypeInv'
  BY <1>6 DEF SignIn, TypeOK
<1>7. ASSUME NEW u \in Users, Register(u) PROVE TypeInv'
  BY <1>7 DEF Register, TypeOK
<1>8. ASSUME NEW r \in Requests, NEW b \in Browsers, NEW t \in Txns, Claim(r, b, t)
      PROVE  TypeInv'
  <2>1. Received(b, t) \in Call /\ Underway(Received(b, t))
    BY ReceivedOk DEF Underway
  <2>2. tx' \in [Txns -> Txn]
    BY <1>8, Moved DEF Claim, TypeOK
  <2> QED
    BY <1>2, <1>8, <2>1, <2>2 DEF Claim, TypeOK
<1>9. ASSUME NEW r \in Requests, Consume(r) PROVE TypeInv'
  <2> DEFINE c == [call[r] EXCEPT !.at = "exchanging"]
  <2>1. call[r] \in Call /\ call[r].in \in Browsers /\ call[r].tx \in Txns
    BY <1>9 DEF Consume, TypeOK, Underway, Idle
  <2>2. c \in Call /\ Underway(c)
    BY <2>1 DEF Call, Underway
  <2>3. tx' \in [Txns -> Txn]
    BY <1>9, <2>1, Moved DEF Consume, TypeOK
  <2>4. served' \in [Txns -> Seq(Browsers)]
    <3>1. served[call[r].tx] \in Seq(Browsers)
      BY <2>1 DEF TypeOK
    <3>2. Append(served[call[r].tx], call[r].in) \in Seq(Browsers)
      BY <2>1, <3>1
    <3>3. \/ served' = served
          \/ served' = [served EXCEPT ![call[r].tx] = Append(served[call[r].tx], call[r].in)]
      BY <1>9 DEF Consume
    <3> QED
      BY <2>1, <3>2, <3>3 DEF TypeOK
  <2>5. call' = [call EXCEPT ![r] = c] \/ call' = [call EXCEPT ![r] = Idle]
    BY <1>9 DEF Consume, TypeOK
  <2> HIDE DEF c
  <2> QED
    BY <1>1, <1>2, <1>3, <1>9, <2>2, <2>3, <2>4, <2>5 DEF Consume, TypeOK
<1>10. ASSUME NEW r \in Requests, NEW u \in Users, call[r] # Idle, Answered(r, u)
       PROVE  /\ cookie' \in [Browsers -> Txns \cup {None}]
              /\ signedIn' \in [Browsers -> Users \cup {None}]
              /\ call' \in [Requests -> Call] /\ \A s \in Requests : Underway(call'[s])
  <2>1. call[r].in \in Browsers
    BY <1>10 DEF Underway
  <2> QED
    BY <1>1, <1>2, <1>3, <1>10, <2>1 DEF Answered, TypeOK
<1>11. ASSUME NEW r \in Requests, Refused(r)
       PROVE  /\ cookie' = cookie /\ signedIn' = signedIn
              /\ call' \in [Requests -> Call] /\ \A s \in Requests : Underway(call'[s])
  BY <1>1, <1>2, <1>3, <1>11 DEF Refused
<1>12. ASSUME NEW r \in Requests, NEW s \in Users, NEW at \in {"creating", "linking"},
              call[r] # Idle, Continued(r, at, s)
       PROVE  /\ cookie' = cookie /\ signedIn' = signedIn
              /\ call' \in [Requests -> Call] /\ \A q \in Requests : Underway(call'[q])
  <2> DEFINE c == [call[r] EXCEPT !.at = at, !.who = s]
  <2>1. call[r] \in Call /\ call[r].in \in Browsers /\ call[r].tx \in Txns
    BY <1>12 DEF TypeOK, Underway
  <2>2. c \in Call /\ Underway(c)
    BY <2>1 DEF Call, Underway
  <2>3. call' = [call EXCEPT ![r] = c]
    BY <1>12 DEF Continued, TypeOK
  <2> HIDE DEF c
  <2> QED
    BY <1>2, <1>12, <2>2, <2>3 DEF Continued
<1>13. ASSUME NEW r \in Requests, NEW s \in Subjects, LinkRead(r, s) PROVE TypeInv'
  <2>1. call[r] # Idle
    BY <1>13 DEF LinkRead, Idle
  <2>2. s \in Users /\ owner[s] \in Users \cup {None} /\ call[r] \in Call
    BY DEF Subjects, TypeOK
  <2>3. CASE Answered(r, call[r].as) /\ call[r].as \in Users
    BY <1>10, <1>13, <2>1, <2>3 DEF LinkRead, TypeOK
  <2>4. CASE Refused(r)
    BY <1>11, <1>13, <2>4 DEF LinkRead, TypeOK
  <2>5. CASE Continued(r, "linking", s)
    BY <1>12, <1>13, <2>1, <2>2, <2>5 DEF LinkRead, TypeOK
  <2>6. tx[call[r].tx].kind = "link" => tx[call[r].tx].by \in Users \cup {None}
    BY <2>1 DEF Underway, TypeOK, Txn
  <2>7. CASE Answered(r, call[r].as) /\ call[r].as = None
    <3>1. None \in Users \cup {None} /\ call[r].in \in Browsers
      BY <2>1 DEF Underway
    <3>2. /\ cookie' \in [Browsers -> Txns \cup {None}]
          /\ signedIn' \in [Browsers -> Users \cup {None}]
          /\ call' = [call EXCEPT ![r] = Idle]
      BY <2>7, <3>1 DEF Answered, TypeOK
    <3> QED
      BY <1>1, <1>2, <1>3, <1>13, <3>2 DEF LinkRead, TypeOK
  <2> QED
    BY <1>13, <2>2, <2>3, <2>4, <2>5, <2>7 DEF LinkRead, Call
<1>14. ASSUME NEW r \in Requests, LinkWrite(r) PROVE TypeInv'
  <2>1. call[r] # Idle /\ call[r].who \in Users /\ call[r] \in Call
    BY <1>14 DEF LinkWrite, Idle, Underway, TypeOK
  <2>2. call[r].as \in Users \cup {None} /\ call[r].in \in Browsers
    BY <2>1 DEF Call, Underway
  <2>3. CASE Refused(r) /\ UNCHANGED owner
    BY <1>11, <1>14, <2>3 DEF LinkWrite, TypeOK
  <2>4. CASE owner' = [owner EXCEPT ![call[r].who] = call[r].as] /\ Answered(r, call[r].as)
    <3>1. owner' \in [Subjects -> Users \cup {None}]
      BY <2>2, <2>4 DEF TypeOK
    <3>2. /\ cookie' \in [Browsers -> Txns \cup {None}]
          /\ signedIn' \in [Browsers -> Users \cup {None}]
          /\ call' = [call EXCEPT ![r] = Idle]
      BY <2>2, <2>4 DEF Answered, TypeOK
    <3> QED
      BY <1>1, <1>2, <1>3, <1>14, <3>1, <3>2 DEF LinkWrite, TypeOK
  <2> QED
    BY <1>14, <2>3, <2>4 DEF LinkWrite
<1>15. ASSUME NEW r \in Requests, NEW s \in Subjects, LoginRead(r, s) PROVE TypeInv'
  <2>1. call[r] # Idle
    BY <1>15 DEF LoginRead, Idle
  <2>2. s \in Users /\ owner[s] \in Users \cup {None}
    BY DEF Subjects, TypeOK
  <2>3. CASE Answered(r, owner[s]) /\ owner[s] # None
    BY <1>10, <1>15, <2>1, <2>2, <2>3 DEF LoginRead, TypeOK
  <2>4. CASE Refused(r)
    BY <1>11, <1>15, <2>4 DEF LoginRead, TypeOK
  <2>5. CASE Continued(r, "creating", s)
    BY <1>12, <1>15, <2>1, <2>2, <2>5 DEF LoginRead, TypeOK
  <2> QED
    BY <1>15, <2>3, <2>4, <2>5 DEF LoginRead
<1>16. ASSUME NEW r \in Requests, LoginCreate(r) PROVE TypeInv'
  <2>1. call[r] # Idle /\ call[r].who \in Users
    BY <1>16 DEF LoginCreate, Idle, Underway
  <2>2. CASE Refused(r) /\ UNCHANGED <<exists, owner, asked>>
    BY <1>11, <1>16, <2>2 DEF LoginCreate, TypeOK
  <2>3. CASE /\ exists' = exists \cup {call[r].who} /\ asked' = asked \cup {call[r].who}
             /\ owner' = [owner EXCEPT ![call[r].who] = call[r].who]
             /\ Answered(r, call[r].who)
    <3>1. /\ exists' \subseteq Users /\ asked' \subseteq Users
          /\ owner' \in [Subjects -> Users \cup {None}]
      BY <2>1, <2>3 DEF TypeOK
    <3> QED
      BY <1>10, <1>16, <2>1, <2>3, <3>1 DEF LoginCreate, TypeOK
  <2> QED
    BY <1>16, <2>2, <2>3 DEF LoginCreate
<1>17. ASSUME NEW r \in Requests, Abort(r) PROVE TypeInv'
  <2>1. call[r].tx \in Txns
    BY <1>17 DEF Abort, Underway
  <2>2. tx' \in [Txns -> Txn]
    <3>1. CASE call[r].at = "claimed"
      <4>1. tx' = [tx EXCEPT ![call[r].tx].state = "open"]
        BY <1>17, <3>1 DEF Abort
      <4> QED
        BY <2>1, <4>1, Moved DEF TypeOK
    <3>2. CASE call[r].at # "claimed"
      BY <1>17, <3>2 DEF Abort, TypeOK
    <3> QED
      BY <3>1, <3>2
  <2> QED
    BY <1>1, <1>2, <1>3, <1>17, <2>2 DEF Abort, TypeOK
<1>18. CASE UNCHANGED vars
  BY <1>18 DEF vars, TypeOK
<1> QED
  BY <1>4, <1>5, <1>6, <1>7, <1>8, <1>9, <1>13, <1>14, <1>15, <1>16, <1>17, <1>18 DEF Next

LEMMA TypeInit == Init => TypeInv
BY IdleIsCall, UnusedIsTxn DEF Init, TypeInv, TypeOK, Underway

\* Every state is of the declared types, and every callback in progress belongs
\* to a browser and a transaction.
THEOREM TypeCorrect == Spec => []TypeInv
BY TypeInit, TypeStep, PTL DEF Spec

-----------------------------------------------------------------------------
\* One callback per transaction

\* A transaction that is open has let nobody through; a claim is held by one
\* callback; and who holds the cookie of a transaction has started it, in the
\* cookie of the browser now or in the one a callback was sent with.
FlowInv ==
    /\ TypeInv
    /\ \A t \in Txns : tx[t].state # "consumed" => served[t] = <<>>
    /\ \A r \in Requests : call[r].at = "claimed" => tx[call[r].tx].state = "claimed"
    /\ \A r, s \in Requests :
          call[r].at = "claimed" /\ call[s].at = "claimed" /\ call[r].tx = call[s].tx => r = s
    /\ \A b \in Browsers : cookie[b] # None =>
          tx[cookie[b]].from = b /\ tx[cookie[b]].state # "unused"
    /\ \A r \in Requests : call[r].at = "claimed" /\ call[r].binder = call[r].tx =>
          tx[call[r].tx].from = call[r].in
    /\ FlowsEndOnce

\* The calls that are claimed after a step were so before, and say the same.
OldClaims ==
    \A r \in Requests : call'[r].at = "claimed" => call'[r] = call[r]

LEMMA QuietFlow ==
    ASSUME FlowInv, TypeInv', OldClaims, served' = served, tx' = tx,
           \A b \in Browsers : cookie'[b] \in {cookie[b], None}
    PROVE  FlowInv'
BY DEF FlowInv, OldClaims, FlowsEndOnce

LEMMA FlowStep == FlowInv /\ TypeInv' /\ [Next]_vars => FlowInv'
<1> SUFFICES ASSUME FlowInv, TypeInv', [Next]_vars PROVE FlowInv'
  OBVIOUS
<1>1. /\ tx \in [Txns -> Txn] /\ cookie \in [Browsers -> Txns \cup {None}]
      /\ served \in [Txns -> Seq(Browsers)] /\ call \in [Requests -> Call]
      /\ \A r \in Requests : Underway(call[r])
  BY DEF FlowInv, TypeInv, TypeOK
<1>2. Idle.at = "idle"
  BY DEF Idle
<1>3. ASSUME NEW b \in Browsers, NEW t \in Txns, NEW kind \in {"login", "link"}, Start(b, t, kind)
      PROVE  FlowInv'
  <2>1. /\ tx[t].state = "unused" /\ served' = served /\ call' = call
        /\ cookie' = [cookie EXCEPT ![b] = t]
    BY <1>3 DEF Start, Unused
  <2>2. tx'[t].state = "open" /\ tx'[t].from = b /\ \A u \in Txns \ {t} : tx'[u] = tx[u]
    BY <1>1, <1>3 DEF Start
  <2>3. \A r \in Requests : call[r].at = "claimed" => call[r].tx \in Txns \ {t}
    BY <1>1, <1>2, <2>1 DEF FlowInv, Underway
  <2>4. \A a \in Browsers : cookie'[a] # None =>
           tx'[cookie'[a]].from = a /\ tx'[cookie'[a]].state # "unused"
    BY <1>1, <2>1, <2>2 DEF FlowInv
  <2>5. \A u \in Txns : served[u] \in {<<>>, <<tx'[u].from>>}
    BY <2>1, <2>2 DEF FlowInv, FlowsEndOnce
  <2>6. \A u \in Txns : tx'[u].state # "consumed" => served'[u] = <<>>
    BY <2>1, <2>2 DEF FlowInv
  <2>7. \A r \in Requests : call'[r].at = "claimed" =>
           /\ tx'[call'[r].tx].state = "claimed"
           /\ call'[r].binder = call'[r].tx => tx'[call'[r].tx].from = call'[r].in
    BY <2>1, <2>2, <2>3 DEF FlowInv
  <2>8. \A r, s \in Requests :
           call'[r].at = "claimed" /\ call'[s].at = "claimed" /\ call'[r].tx = call'[s].tx => r = s
    BY <2>1 DEF FlowInv
  <2> QED
    BY <2>1, <2>4, <2>5, <2>6, <2>7, <2>8 DEF FlowInv, FlowsEndOnce
<1>4. ASSUME NEW t \in Txns, Expire(t) PROVE FlowInv'
  <2>1. tx[t].state = "open" /\ served' = served /\ call' = call /\ cookie' = cookie
    BY <1>4 DEF Expire
  <2>2. /\ tx'[t].state = "consumed" /\ tx'[t].from = tx[t].from
        /\ \A u \in Txns \ {t} : tx'[u] = tx[u]
    BY <1>1, <1>4, Moved DEF Expire
  <2>3. \A r \in Requests : call[r].at = "claimed" => call[r].tx \in Txns \ {t}
    BY <1>1, <1>2, <2>1 DEF FlowInv, Underway
  <2>4. FlowsEndOnce' /\ \A u \in Txns : tx'[u].state # "consumed" => served'[u] = <<>>
    BY <2>1, <2>2 DEF FlowInv, FlowsEndOnce
  <2>5. \A b \in Browsers : cookie'[b] # None =>
           tx'[cookie'[b]].from = b /\ tx'[cookie'[b]].state # "unused"
    <3> SUFFICES ASSUME NEW b \in Browsers, cookie[b] # None
                 PROVE  tx'[cookie[b]].from = b /\ tx'[cookie[b]].state # "unused"
      BY <2>1
    <3>1. cookie[b] \in Txns /\ tx[cookie[b]].from = b /\ tx[cookie[b]].state # "unused"
      BY <1>1 DEF FlowInv
    <3> QED
      BY <2>2, <3>1
  <2>6. \A r \in Requests : call'[r].at = "claimed" =>
           /\ tx'[call'[r].tx].state = "claimed"
           /\ call'[r].binder = call'[r].tx => tx'[call'[r].tx].from = call'[r].in
    BY <2>1, <2>2, <2>3 DEF FlowInv
  <2>7. \A r, s \in Requests :
           call'[r].at = "claimed" /\ call'[s].at = "claimed" /\ call'[r].tx = call'[s].tx => r = s
    BY <2>1 DEF FlowInv
  <2> QED
    BY <2>4, <2>5, <2>6, <2>7 DEF FlowInv
<1>5. ASSUME NEW r \in Requests, NEW b \in Browsers, NEW t \in Txns, Claim(r, b, t)
      PROVE  FlowInv'
  <2>1. /\ tx[t].state = "open" /\ served' = served /\ cookie' = cookie /\ cookie[b] # None
        /\ call' = [call EXCEPT ![r] = Received(b, t)]
    BY <1>5 DEF Claim
  <2>2. /\ tx'[t].state = "claimed" /\ tx'[t].from = tx[t].from
        /\ \A u \in Txns \ {t} : tx'[u] = tx[u]
    BY <1>1, <1>5, Moved DEF Claim
  <2>3. /\ call'[r].at = "claimed" /\ call'[r].tx = t /\ call'[r].in = b
        /\ call'[r].binder = cookie[b]
    BY <1>1, <2>1, ReceivedOk DEF FlowInv, TypeInv
  <2>4. \A s \in Requests \ {r} :
           call'[s] = call[s] /\ (call[s].at = "claimed" => call[s].tx \in Txns \ {t})
    BY <1>1, <1>2, <2>1 DEF FlowInv, Underway
  <2>5. cookie[b] = t => tx[t].from = b
    BY <2>1 DEF FlowInv
  <2>6. \A u \in Txns : tx'[u].state # "consumed" => served'[u] = <<>>
    BY <2>1, <2>2 DEF FlowInv
  <2>7. \A a \in Browsers : cookie'[a] # None =>
           tx'[cookie'[a]].from = a /\ tx'[cookie'[a]].state # "unused"
    BY <1>1, <2>1, <2>2 DEF FlowInv
  <2>8. ASSUME NEW s \in Requests, call'[s].at = "claimed"
        PROVE  /\ tx'[call'[s].tx].state = "claimed"
               /\ call'[s].binder = call'[s].tx => tx'[call'[s].tx].from = call'[s].in
               /\ s # r => call'[s].tx # t
    <3>1. CASE s = r
      BY <2>2, <2>3, <2>5, <3>1
    <3>2. CASE s # r
      <4>1. call'[s] = call[s] /\ call[s].at = "claimed" /\ tx'[call[s].tx] = tx[call[s].tx]
        BY <2>2, <2>4, <2>8, <3>2
      <4>2. call[s].tx \in Txns \ {t}
        BY <2>4, <3>2, <4>1
      <4> QED
        BY <4>1, <4>2 DEF FlowInv
    <3> QED
      BY <3>1, <3>2
  <2>9. ASSUME NEW q \in Requests, NEW s \in Requests, call'[q].at = "claimed",
               call'[s].at = "claimed", call'[q].tx = call'[s].tx
        PROVE  q = s
    <3>1. CASE q = r \/ s = r
      BY <2>3, <2>8, <2>9, <3>1
    <3>2. CASE q # r /\ s # r
      <4>1. call'[q] = call[q] /\ call'[s] = call[s]
        BY <2>4, <3>2
      <4> QED
        BY <2>9, <4>1 DEF FlowInv
    <3> QED
      BY <3>1, <3>2
  <2>10. FlowsEndOnce'
    BY <2>1, <2>2 DEF FlowInv, FlowsEndOnce
  <2> QED
    BY <2>6, <2>7, <2>8, <2>9, <2>10 DEF FlowInv
<1>6. ASSUME NEW r \in Requests, Consume(r) PROVE FlowInv'
  <2> DEFINE t == call[r].tx
  <2>1. call[r].at = "claimed" /\ t \in Txns /\ call[r].in \in Browsers /\ cookie' = cookie
    BY <1>1, <1>2, <1>6 DEF Consume, Underway
  <2>2. tx[t].state = "claimed" /\ served[t] = <<>>
    BY <2>1 DEF FlowInv
  <2>3. /\ tx'[t].state = "consumed" /\ tx'[t].from = tx[t].from
        /\ \A u \in Txns \ {t} : tx'[u] = tx[u]
    BY <1>1, <1>6, <2>1, Moved DEF Consume
  <2>4. \A s \in Requests : call'[s].at = "claimed" =>
           s # r /\ call'[s] = call[s] /\ call[s].tx \in Txns \ {t}
    <3>1. call'[r].at # "claimed" /\ \A s \in Requests \ {r} : call'[s] = call[s]
      BY <1>1, <1>2, <1>6 DEF Consume, Call
    <3>2. \A s \in Requests \ {r} : call[s].at = "claimed" => call[s].tx \in Txns \ {t}
      BY <1>1, <1>2, <2>1 DEF FlowInv, Underway
    <3> QED
      BY <3>1, <3>2
  <2>5. served'[t] \in {<<>>, <<tx[t].from>>}
    <3>1. CASE call[r].binder = t
      <4>1. served'[t] = Append(<<>>, call[r].in)
        BY <1>1, <1>6, <2>1, <2>2, <3>1 DEF Consume
      <4>2. Append(<<>>, call[r].in) = <<call[r].in>>
        OBVIOUS
      <4> QED
        BY <2>1, <3>1, <4>1, <4>2 DEF FlowInv
    <3>2. CASE call[r].binder # t
      BY <1>6, <2>2, <3>2 DEF Consume
    <3> QED
      BY <3>1, <3>2
  <2>6. \A u \in Txns \ {t} : served'[u] = served[u]
    BY <1>1, <1>6 DEF Consume
  <2>7. FlowsEndOnce'
    BY <2>3, <2>5, <2>6 DEF FlowInv, FlowsEndOnce
  <2>8. \A u \in Txns : tx'[u].state # "consumed" => served'[u] = <<>>
    BY <2>3, <2>6 DEF FlowInv
  <2>9. \A a \in Browsers : cookie'[a] # None =>
           tx'[cookie'[a]].from = a /\ tx'[cookie'[a]].state # "unused"
    BY <1>1, <2>1, <2>3 DEF FlowInv
  <2>10. \A s \in Requests : call'[s].at = "claimed" =>
            /\ tx'[call'[s].tx].state = "claimed"
            /\ call'[s].binder = call'[s].tx => tx'[call'[s].tx].from = call'[s].in
    BY <2>3, <2>4 DEF FlowInv
  <2>11. \A q, s \in Requests :
            call'[q].at = "claimed" /\ call'[s].at = "claimed" /\ call'[q].tx = call'[s].tx => q = s
    BY <2>4 DEF FlowInv
  <2> QED
    BY <2>7, <2>8, <2>9, <2>10, <2>11 DEF FlowInv
<1>7. ASSUME NEW r \in Requests, Abort(r) PROVE FlowInv'
  <2> DEFINE t == call[r].tx
  <2>1. /\ t \in Txns /\ cookie' = cookie /\ served' = served /\ call' = [call EXCEPT ![r] = Idle]
    BY <1>1, <1>7 DEF Abort, Underway
  <2>2. CASE call[r].at # "claimed"
    <3>1. OldClaims
      BY <1>1, <1>2, <2>1 DEF OldClaims
    <3> QED
      BY <1>7, <2>1, <2>2, <3>1, QuietFlow DEF Abort
  <2>3. CASE call[r].at = "claimed"
    <3>1. /\ tx'[t].state = "open" /\ tx'[t].from = tx[t].from
          /\ \A u \in Txns \ {t} : tx'[u] = tx[u]
      BY <1>1, <1>7, <2>1, <2>3, Moved DEF Abort
    <3>2. \A s \in Requests : call'[s].at = "claimed" =>
             s # r /\ call'[s] = call[s] /\ call[s].tx \in Txns \ {t}
      BY <1>1, <1>2, <2>1, <2>3 DEF FlowInv, Underway
    <3>3. tx[t].state = "claimed" /\ served[t] = <<>>
      BY <2>1, <2>3 DEF FlowInv
    <3>4. ASSUME NEW a \in Browsers, cookie'[a] # None
          PROVE  tx'[cookie'[a]].from = a /\ tx'[cookie'[a]].state # "unused"
      <4>1. cookie[a] \in Txns /\ tx[cookie[a]].from = a /\ tx[cookie[a]].state # "unused"
        BY <1>1, <2>1, <3>4 DEF FlowInv
      <4> QED
        BY <2>1, <3>1, <4>1
    <3>5. FlowsEndOnce' /\ \A u \in Txns : tx'[u].state # "consumed" => served'[u] = <<>>
      BY <2>1, <3>1, <3>3 DEF FlowInv, FlowsEndOnce
    <3>6. \A s \in Requests : call'[s].at = "claimed" =>
             /\ tx'[call'[s].tx].state = "claimed"
             /\ call'[s].binder = call'[s].tx => tx'[call'[s].tx].from = call'[s].in
      BY <3>1, <3>2 DEF FlowInv
    <3>7. \A q, s \in Requests :
             call'[q].at = "claimed" /\ call'[s].at = "claimed" /\ call'[q].tx = call'[s].tx => q = s
      BY <3>2 DEF FlowInv
    <3> QED
      BY <3>4, <3>5, <3>6, <3>7 DEF FlowInv
  <2> QED
    BY <2>2, <2>3
<1>8. ASSUME NEW r \in Requests, NEW u, Answered(r, u), served' = served, tx' = tx PROVE FlowInv'
  <2>1. OldClaims /\ \A b \in Browsers : cookie'[b] \in {cookie[b], None}
    BY <1>1, <1>2, <1>8 DEF Answered, OldClaims
  <2> QED
    BY <1>8, <2>1, QuietFlow
<1>9. ASSUME NEW r \in Requests, Refused(r), served' = served, tx' = tx PROVE FlowInv'
  BY <1>1, <1>2, <1>9, QuietFlow DEF Refused, OldClaims
<1>10. ASSUME NEW r \in Requests, NEW at \in {"creating", "linking"}, NEW s,
              Continued(r, at, s), served' = served, tx' = tx
       PROVE  FlowInv'
  <2>1. OldClaims
    BY <1>1, <1>10 DEF Continued, OldClaims, Call
  <2> QED
    BY <1>10, <2>1, QuietFlow DEF Continued
<1>11. ASSUME NEW r \in Requests, NEW s \in Subjects, LinkRead(r, s) \/ LoginRead(r, s)
       PROVE  FlowInv'
  BY <1>8, <1>9, <1>10, <1>11 DEF LinkRead, LoginRead
<1>12. ASSUME NEW r \in Requests, LinkWrite(r) \/ LoginCreate(r) PROVE FlowInv'
  BY <1>8, <1>9, <1>12 DEF LinkWrite, LoginCreate
<1>13. ASSUME UNCHANGED <<tx, served, cookie, call>> PROVE FlowInv'
  BY <1>13, QuietFlow DEF OldClaims
<1> QED
  BY <1>3, <1>4, <1>5, <1>6, <1>7, <1>11, <1>12, <1>13 DEF Next, SignIn, Register, vars

LEMMA FlowInit == Init => FlowInv
BY TypeInit DEF Init, Idle, Unused, FlowInv, FlowsEndOnce

\* However often, and from wherever, the callbacks of a transaction come, overlap
\* and die: it lets one through, of the browser that started it
\* (consume_transaction, the binder cookie of oauth_start).
THEOREM OneCallback == Spec => []FlowsEndOnce
<1>1. FlowInv /\ [Next]_vars => FlowInv'
  BY TypeStep, FlowStep DEF FlowInv
<1>2. FlowInv => FlowsEndOnce
  BY DEF FlowInv
<1> QED
  BY <1>1, <1>2, FlowInit, PTL DEF Spec

-----------------------------------------------------------------------------
\* Identities

\* A transaction for a link names an account that asked, and a callback that is
\* about to link works for one.
AskedInv ==
    /\ TypeInv
    /\ \A t \in Txns : tx[t].kind = "link" => tx[t].by \in asked
    /\ \A r \in Requests : call[r].at = "linking" => call[r].as \in asked
    /\ LinkedOnRequest

LEMMA AskedStep == AskedInv /\ TypeInv' /\ [Next]_vars => AskedInv'
<1> SUFFICES ASSUME AskedInv, TypeInv', [Next]_vars PROVE AskedInv'
  OBVIOUS
<1>1. /\ tx \in [Txns -> Txn] /\ owner \in [Subjects -> Users \cup {None}]
      /\ call \in [Requests -> Call] /\ \A r \in Requests : Underway(call[r])
  BY DEF AskedInv, TypeInv, TypeOK
<1>2. Idle.at = "idle"
  BY DEF Idle
<1> DEFINE Kinds == \A t \in Txns : tx'[t].kind = tx[t].kind /\ tx'[t].by = tx[t].by
           Links == \A r \in Requests : call'[r].at = "linking" =>
                       call'[r].as \in asked \/ call'[r] = call[r]
           Owned == \A s \in Subjects : owner'[s] # None => owner'[s] \in asked' \/ owner'[s] = owner[s]
<1>3. ASSUME Kinds, Links, Owned, asked \subseteq asked' PROVE AskedInv'
  BY <1>3 DEF AskedInv, LinkedOnRequest
<1>4. ASSUME NEW b \in Browsers, NEW t \in Txns, NEW kind \in {"login", "link"}, Start(b, t, kind)
      PROVE  AskedInv'
  <2>1. asked \subseteq asked' /\ owner' = owner /\ call' = call
    BY <1>4 DEF Start
  <2>2. /\ tx'[t].kind = "link" => tx'[t].by \in asked'
        /\ \A u \in Txns \ {t} : tx'[u] = tx[u]
    BY <1>1, <1>4 DEF Start
  <2> QED
    BY <2>1, <2>2 DEF AskedInv, LinkedOnRequest
<1>5. ASSUME NEW t \in Txns, Expire(t) PROVE AskedInv'
  <2>1. Kinds
    BY <1>1, <1>5 DEF Expire, Txn
  <2> QED
    BY <1>3, <1>5, <2>1 DEF Expire
<1>6. ASSUME NEW r \in Requests, NEW b \in Browsers, NEW t \in Txns, Claim(r, b, t)
      PROVE  AskedInv'
  <2>1. Kinds
    BY <1>1, <1>6 DEF Claim, Txn
  <2>2. Links
    BY <1>1, <1>6, ReceivedOk DEF Claim, AskedInv, TypeInv
  <2> QED
    BY <1>3, <1>6, <2>1, <2>2 DEF Claim
<1>7. ASSUME NEW r \in Requests, Consume(r) PROVE AskedInv'
  <2>1. Kinds
    BY <1>1, <1>7 DEF Consume, Txn
  <2>2. Links
    BY <1>1, <1>2, <1>7 DEF Consume, Call
  <2> QED
    BY <1>3, <1>7, <2>1, <2>2 DEF Consume
<1>8. ASSUME NEW r \in Requests, Abort(r) PROVE AskedInv'
  <2>1. Kinds
    <3>1. \A x \in Txn, st \in {"open"} : [x EXCEPT !.state = st].kind = x.kind
                                      /\ [x EXCEPT !.state = st].by = x.by
      BY DEF Txn
    <3> QED
      BY <1>1, <1>8, <3>1 DEF Abort
  <2>2. Links
    BY <1>1, <1>2, <1>8 DEF Abort
  <2> QED
    BY <1>3, <1>8, <2>1, <2>2 DEF Abort
<1>9. ASSUME NEW r \in Requests, NEW s \in Subjects, LinkRead(r, s) PROVE AskedInv'
  <2>1. call[r].tx \in Txns /\ tx[call[r].tx].by \in asked
    BY <1>1, <1>2, <1>9 DEF LinkRead, Underway, AskedInv
  <2>2. Links
    <3>1. CASE Continued(r, "linking", s)
      <4>1. call[r].as \in asked
        BY <1>1, <1>9, <2>1, <3>1 DEF LinkRead, Continued, Refused, Answered, Idle
      <4> QED
        BY <1>1, <3>1, <4>1 DEF Continued, Call
    <3>2. CASE Answered(r, call[r].as) \/ Refused(r)
      BY <1>1, <1>2, <3>2 DEF Answered, Refused
    <3> QED
      BY <1>9, <3>1, <3>2 DEF LinkRead
  <2> QED
    BY <1>3, <1>9, <2>2 DEF LinkRead
<1>10. ASSUME NEW r \in Requests, LinkWrite(r) PROVE AskedInv'
  <2>1. Links
    BY <1>1, <1>2, <1>10 DEF LinkWrite, Answered, Refused
  <2>2. Owned
    BY <1>1, <1>10 DEF LinkWrite, AskedInv
  <2> QED
    BY <1>3, <1>10, <2>1, <2>2 DEF LinkWrite
<1>11. ASSUME NEW r \in Requests, NEW s \in Subjects, LoginRead(r, s) PROVE AskedInv'
  <2>1. Links
    BY <1>1, <1>2, <1>11 DEF LoginRead, Answered, Refused, Continued, Call
  <2> QED
    BY <1>3, <1>11, <2>1 DEF LoginRead
<1>12. ASSUME NEW r \in Requests, LoginCreate(r) PROVE AskedInv'
  <2>1. Links
    BY <1>1, <1>2, <1>12 DEF LoginCreate, Answered, Refused
  <2>2. Owned /\ asked \subseteq asked'
    BY <1>1, <1>12 DEF LoginCreate
  <2> QED
    BY <1>3, <1>12, <2>1, <2>2 DEF LoginCreate
<1>13. ASSUME UNCHANGED <<tx, call, owner, asked>> PROVE AskedInv'
  BY <1>3, <1>13
<1> QED
  BY <1>4, <1>5, <1>6, <1>7, <1>8, <1>9, <1>10, <1>11, <1>12, <1>13
     DEF Next, SignIn, Register, vars

LEMMA AskedInit == Init => AskedInv
BY TypeInit DEF Init, Idle, Unused, AskedInv, LinkedOnRequest

\* An identity of a provider belongs to nobody who has not asked for it while
\* signed in or come in through it, however accounts, emails and sessions change
\* between the start of a flow and its end (login_with_identity, link_identity).
THEOREM LinksAreAsked == Spec => []LinkedOnRequest
<1>1. AskedInv /\ [Next]_vars => AskedInv'
  BY TypeStep, AskedStep DEF AskedInv
<1>2. AskedInv => LinkedOnRequest
  BY DEF AskedInv
<1> QED
  BY <1>1, <1>2, AskedInit, PTL DEF Spec

=============================================================================
