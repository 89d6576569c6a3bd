-------------------------------- MODULE OAuth --------------------------------
(***************************************************************************)
(* Signing in through a provider and linking a provider to an account:     *)
(* services/oauth.py, the OAuth endpoints of api/v1/endpoints/auth.py, and *)
(* login_with_identity and link_identity of services/auth_service.py.      *)
(*                                                                         *)
(* A flow starts in one browser, passes through the provider and comes     *)
(* back as a callback: once, several times (a reload, a second tab), from  *)
(* another browser, after somebody else has signed in there, or never.     *)
(* Bound to the flow are a row of oauthtransaction and the cookie of the   *)
(* browser that started it.                                                *)
(***************************************************************************)
EXTENDS Sequences

CONSTANTS
    Users,      \* accounts; each has one email address
    Browsers,
    Txns,       \* rows of oauthtransaction there can be
    Requests,   \* callbacks served at the same time
    None        \* nobody, nothing

VARIABLES
    exists,     \* the accounts there are
    owner,      \* useridentity: the account a provider's subject is linked to
    signedIn,   \* the account of the session cookie of each browser
    cookie,     \* the transaction of the binder cookie of each browser
    tx,         \* the rows of oauthtransaction
    served,     \* history: the browsers whose callbacks a transaction has let through
    asked,      \* history: the accounts that asked for a link, or that a login created
    call        \* what each callback is doing

vars == <<exists, owner, signedIn, cookie, tx, served, asked, call>>

\* The provider knows the same people, by their subjects and by their verified
\* email addresses.
Subjects == Users

Txn == [state : {"unused", "open", "claimed", "consumed"}, kind : {"login", "link"},
        by : Users \cup {None}, from : Browsers \cup {None}]

Unused == [state |-> "unused", kind |-> "login", by |-> None, from |-> None]

\* A callback: its browser with the cookies it sent (the binder, and whose
\* session), its transaction, and the subject the provider names.
Call == [at : {"idle", "claimed", "exchanging", "creating", "linking"},
         in : Browsers \cup {None}, binder : Txns \cup {None}, as : Users \cup {None},
         tx : Txns \cup {None}, who : Users \cup {None}]

Idle == [at |-> "idle", in |-> None, binder |-> None, as |-> None, tx |-> None, who |-> None]

TypeOK ==
    /\ exists \subseteq Users
    /\ owner \in [Subjects -> Users \cup {None}]
    /\ signedIn \in [Browsers -> Users \cup {None}]
    /\ cookie \in [Browsers -> Txns \cup {None}]
    /\ tx \in [Txns -> Txn]
    /\ served \in [Txns -> Seq(Browsers)]
    /\ asked \subseteq Users
    /\ call \in [Requests -> Call]

\* Accounts that sign in with a password; no provider is linked yet.
Init ==
    /\ exists \in SUBSET Users
    /\ owner = [s \in Subjects |-> None]
    /\ signedIn = [b \in Browsers |-> None]
    /\ cookie = [b \in Browsers |-> None]
    /\ tx = [t \in Txns |-> Unused]
    /\ served = [t \in Txns |-> <<>>]
    /\ asked = {}
    /\ call = [r \in Requests |-> Idle]

-----------------------------------------------------------------------------
\* oauth_start and oauth_link_start: the transaction is committed and the binder
\* goes into the cookie of the browser.
Start(b, t, kind) ==
    /\ tx[t] = Unused
    /\ kind = "link" => signedIn[b] # None
    /\ tx' = [tx EXCEPT ![t] = [state |-> "open", kind |-> kind,
                                by |-> IF kind = "link" THEN signedIn[b] ELSE None,
                                from |-> b]]
    /\ cookie' = [cookie EXCEPT ![b] = t]
    /\ asked' = IF kind = "link" THEN asked \cup {signedIn[b]} ELSE asked
    /\ UNCHANGED <<exists, owner, signedIn, served, call>>

\* The transaction expires: purge_expired_transactions, or the test on expires_at.
Expire(t) ==
    /\ tx[t].state = "open"
    /\ tx' = [tx EXCEPT ![t].state = "consumed"]
    /\ UNCHANGED <<exists, owner, signedIn, cookie, served, asked, call>>

\* Somebody signs in with a password, or out, in a browser.
SignIn(b, u) ==
    /\ u \in exists \cup {None}
    /\ signedIn' = [signedIn EXCEPT ![b] = u]
    /\ UNCHANGED <<exists, owner, cookie, tx, served, asked, call>>

-----------------------------------------------------------------------------
Received(b, t) == [Idle EXCEPT !.at = "claimed", !.in = b, !.binder = cookie[b],
                               !.as = signedIn[b], !.tx = t]

\* The conditional UPDATE of consume_transaction finds the row not consumed.  A
\* callback without a binder does not get here; with any other answer it ends.
\* Another UPDATE of the row waits until this one is committed or undone.
Claim(r, b, t) ==
    /\ call[r] = Idle
    /\ cookie[b] # None
    /\ tx[t].state = "open"
    /\ tx' = [tx EXCEPT ![t].state = "claimed"]
    /\ call' = [call EXCEPT ![r] = Received(b, t)]
    /\ UNCHANGED <<exists, owner, signedIn, cookie, served, asked>>

\* The rest of consume_transaction and the commit: the transaction is used up
\* also by a callback of another browser, which goes no further.
Consume(r) ==
    LET c == call[r] IN
    /\ c.at = "claimed"
    /\ tx' = [tx EXCEPT ![c.tx].state = "consumed"]
    /\ IF c.binder = c.tx
         THEN /\ served' = [served EXCEPT ![c.tx] = Append(@, c.in)]
              /\ call' = [call EXCEPT ![r].at = "exchanging"]
         ELSE /\ call' = [call EXCEPT ![r] = Idle]
              /\ UNCHANGED served
    /\ UNCHANGED <<exists, owner, signedIn, cookie, asked>>

\* The answer of a callback that succeeds: the binder cookie is deleted, also if
\* it belongs to a newer flow by now, and the browser is signed in.
Answered(r, u) ==
    /\ cookie' = [cookie EXCEPT ![call[r].in] = None]
    /\ signedIn' = [signedIn EXCEPT ![call[r].in] = u]
    /\ call' = [call EXCEPT ![r] = Idle]

\* The callback ends with an error.
Refused(r) ==
    /\ call' = [call EXCEPT ![r] = Idle]
    /\ UNCHANGED <<cookie, signedIn>>

Continued(r, at, s) ==
    /\ call' = [call EXCEPT ![r].at = at, ![r].who = s]
    /\ UNCHANGED <<cookie, signedIn>>

\* The provider names s.  For a link, the account that asked for it must be the
\* one signed in where the callback comes from, and the subject be nobody's.
LinkRead(r, s) ==
    LET c == call[r] IN
    /\ c.at = "exchanging"
    /\ tx[c.tx].kind = "link"
    /\ IF c.as # tx[c.tx].by \/ owner[s] \notin {None, c.as} THEN Refused(r)
       ELSE IF owner[s] = c.as THEN Answered(r, c.as)
       ELSE Continued(r, "linking", s)
    /\ UNCHANGED <<exists, owner, tx, served, asked>>

\* The INSERT of the identity: a subject that was linked meanwhile refuses it.
LinkWrite(r) ==
    LET c == call[r] IN
    /\ c.at = "linking"
    /\ IF owner[c.who] = None
         THEN owner' = [owner EXCEPT ![c.who] = c.as] /\ Answered(r, c.as)
         ELSE Refused(r) /\ UNCHANGED owner
    /\ UNCHANGED <<exists, tx, served, asked>>

\* Mutant: an account with that email takes the identity.
LoginReadByEmail(r, s) ==
    LET to == IF owner[s] = None /\ s \in exists THEN s ELSE owner[s] IN
    /\ call[r].at = "exchanging"
    /\ tx[call[r].tx].kind = "login"
    /\ owner' = [owner EXCEPT ![s] = to]
    /\ IF to # None THEN Answered(r, to) ELSE Continued(r, "creating", s)
    /\ UNCHANGED <<exists, tx, served, asked>>

\* For a login, the account of the subject is signed in; an account that only
\* has the same email is left alone, and otherwise one is created.
LoginRead(r, s) ==
    /\ call[r].at = "exchanging"
    /\ tx[call[r].tx].kind = "login"
    /\ IF owner[s] # None THEN Answered(r, owner[s])
       ELSE IF s \in exists THEN Refused(r)
       ELSE Continued(r, "creating", s)
    /\ UNCHANGED <<exists, owner, tx, served, asked>>

\* The INSERTs of the account and of its identity: either may be there by now,
\* and then neither is done.
LoginCreate(r) ==
    LET s == call[r].who IN
    /\ call[r].at = "creating"
    /\ IF s \notin exists /\ owner[s] = None
         THEN /\ exists' = exists \cup {s}
              /\ owner' = [owner EXCEPT ![s] = s]
              /\ asked' = asked \cup {s}
              /\ Answered(r, s)
         ELSE Refused(r) /\ UNCHANGED <<exists, owner, asked>>
    /\ UNCHANGED <<tx, served>>

\* Somebody registers with a password.
Register(u) ==
    /\ u \notin exists
    /\ exists' = exists \cup {u}
    /\ UNCHANGED <<owner, signedIn, cookie, tx, served, asked, call>>

\* The callback dies: a claim that is not committed is undone.
Abort(r) ==
    LET c == call[r] IN
    /\ c # Idle
    /\ tx' = IF c.at = "claimed" THEN [tx EXCEPT ![c.tx].state = "open"] ELSE tx
    /\ call' = [call EXCEPT ![r] = Idle]
    /\ UNCHANGED <<exists, owner, signedIn, cookie, served, asked>>

Next ==
    \/ \E b \in Browsers, t \in Txns, kind \in {"login", "link"} : Start(b, t, kind)
    \/ \E t \in Txns : Expire(t)
    \/ \E b \in Browsers, u \in Users \cup {None} : SignIn(b, u)
    \/ \E u \in Users : Register(u)
    \/ \E r \in Requests :
          \/ \E b \in Browsers, t \in Txns : Claim(r, b, t)
          \/ Consume(r) \/ LinkWrite(r) \/ LoginCreate(r) \/ Abort(r)
          \/ \E s \in Subjects : LinkRead(r, s) \/ LoginRead(r, s)

Spec == Init /\ [][Next]_vars

-----------------------------------------------------------------------------
\* Properties

\* A transaction lets one callback through, and only one of the browser that
\* started it, however often and from wherever it is called (consume_transaction:
\* "exactly one caller ever sees the row").
FlowsEndOnce ==
    \A t \in Txns : served[t] \in {<<>>, <<tx[t].from>>}

\* A provider's account is linked to nobody who has not asked for it while signed
\* in, however accounts, emails and sessions change between the start of a flow
\* and its callback (login_with_identity: an email match links nothing; the
\* callback: "a link started in one account cannot land in another").
LinkedOnRequest ==
    \A s \in Subjects : owner[s] # None => owner[s] \in asked
=============================================================================
