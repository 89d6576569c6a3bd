------------------------------- MODULE Presence ------------------------------
(***************************************************************************)
(* Who has a document open, and who edits it (services/presence_service):  *)
(* heartbeats, leaving, snapshots, and the three ways to be forgotten, by  *)
(* the clock, by the cap on users and by the cap on documents.  Each       *)
(* method runs under the store's lock and is one step; it reads the clock  *)
(* before it waits for the lock, so that its time may be late.             *)
(***************************************************************************)
EXTENDS Naturals, FiniteSets, Sequences, SequencesExt

CONSTANTS
    Docs, Users,
    Ttl, MaxDocs, MaxUsers,
    MaxClock, MaxSeq,   \* bounds on the time and on the claims
    MaxWait             \* bound on the wait for the lock

VARIABLES
    store,      \* the entries of each document; without entries it is not stored
    order,      \* the stored documents, the one beaten last at the end
    seq,        \* _claim_seq
    now

vars == <<store, order, seq, now>>

\* "claim": claim_seq, 0 for none, as it is for a viewer.
Entry == [claim : 0..MaxSeq, seen : 0..MaxClock]
None == [claim |-> 0, seen |-> MaxClock + 1]

TypeOK ==
    /\ store \in [Docs -> [Users -> Entry \cup {None}]]
    /\ order \in Seq(Docs) /\ IsInjective(order)
    /\ seq \in 0..MaxSeq /\ now \in 0..MaxClock

Empty == [u \in Users |-> None]
Init == store = [d \in Docs |-> Empty] /\ order = <<>> /\ seq = 0 /\ now = 0

Open(users) == {u \in Users : users[u] # None}
Stale(e, t) == e # None /\ t >= e.seen + Ttl

\* _prune
Pruned(users, t) == [u \in Users |-> IF Stale(users[u], t) THEN None ELSE users[u]]

\* The times a method may have read.
Times == {t \in 0..now : now <= t + MaxWait}

\* The documents of o that are kept, in their order.
Among(o, kept) ==
    LET upTo[n \in 0..Len(o)] ==
            IF n = 0 THEN <<>>
            ELSE IF o[n] \in kept THEN Append(upTo[n - 1], o[n]) ELSE upTo[n - 1]
    IN  upTo[Len(o)]

\* A document nobody has open is not stored.
Stored(s, o) == Among(o, {d \in Docs : Open(s[d]) # {}})

\* The store s, used last in the order o, without what is empty and what is too much.
Becomes(s, o) ==
    LET kept == Stored(s, o)
        out == Len(kept) - MaxDocs
        last == IF out > 0 THEN SubSeq(kept, out + 1, Len(kept)) ELSE kept
    IN  /\ order' = last
        /\ store' = [d \in Docs |-> IF d \in Range(last) THEN s[d] ELSE Empty]

\* Mutant: every heartbeat of an editor is a fresh claim.
ClaimAnew(e, editing) == IF editing THEN seq + 1 ELSE 0

\* The claim after a heartbeat: a fresh one starts now, a viewer has none.
Claim(e, editing) ==
    IF ~editing THEN 0 ELSE IF e.claim # 0 THEN e.claim ELSE seq + 1

\* Full: the user seen longest ago makes room.
Admitting(users, u) ==
    IF users[u] # None \/ Cardinality(Open(users)) < MaxUsers THEN {users}
    ELSE {[users EXCEPT ![v] = None] :
             v \in {w \in Open(users) : \A x \in Open(users) : users[w].seen <= users[x].seen}}

Heartbeat(d, u, editing, t) ==
    /\ LET c == Claim(store[d][u], editing)
       IN  /\ c <= MaxSeq
           /\ seq' = IF c > seq THEN c ELSE seq
           /\ \E users \in Admitting(store[d], u) :
                 LET beaten == Pruned([users EXCEPT ![u] = [claim |-> c, seen |-> t]], t)
                 IN  Becomes([store EXCEPT ![d] = beaten],
                             Append(Among(order, Docs \ {d}), d))
    /\ UNCHANGED now

Leave(d, u) ==
    /\ store[d][u] # None
    /\ Becomes([store EXCEPT ![d][u] = None], order)
    /\ UNCHANGED <<seq, now>>

\* snapshot: looking also forgets.
Snapshot(d, t) ==
    /\ \E u \in Users : Stale(store[d][u], t)
    /\ Becomes([store EXCEPT ![d] = Pruned(@, t)], order)
    /\ UNCHANGED <<seq, now>>

Tick == now < MaxClock /\ now' = now + 1 /\ UNCHANGED <<store, order, seq>>

Next ==
    \/ \E d \in Docs, u \in Users, editing \in BOOLEAN, t \in Times : Heartbeat(d, u, editing, t)
    \/ \E d \in Docs, u \in Users : Leave(d, u)
    \/ \E d \in Docs, t \in Times : Snapshot(d, t)
    \/ Tick

Spec == Init /\ [][Next]_vars

-----------------------------------------------------------------------------
Claims(users) == {u \in Open(users) : users[u].claim # 0}

\* editor_user_id
Editor(users) ==
    {u \in Claims(users) : \A v \in Claims(users) : users[u].claim <= users[v].claim}

\* Beaten since u was on d: other users of d (the newest one counts, however late
\* its time), other documents.
UsersSince(d, u) ==
    {v \in Users \ {u} : /\ store'[d][v] # None
                         /\ store[d][v] = None \/ store'[d][v].seen >= store[d][u].seen}
DocsSince(d) == {e \in Docs \ {d} : Open(store'[e]) # {}}

\* A document has one editor at most, and nobody takes the place of one who is
\* there: it ends when the editor leaves, stops editing or is silent for the time
\* to live, or when as many others as the caps allow were there after it ("first
\* writer wins").
EditorsAreSafe ==
    \A d \in Docs :
        /\ Cardinality(Editor(store'[d])) <= 1
        /\ \A u \in Editor(store[d]) \ Editor(store'[d]) :
              \/ store'[d][u] = None /\ store'[d] = [store[d] EXCEPT ![u] = None] \* left
              \/ store'[d][u] # None /\ store'[d][u].claim = 0
              \/ Stale(store[d][u], now)
              \/ Cardinality(UsersSince(d, u)) >= MaxUsers
              \/ Cardinality(DocsSince(d)) >= MaxDocs

=============================================================================
