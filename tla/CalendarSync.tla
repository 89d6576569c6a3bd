---------------------------- MODULE CalendarSync -----------------------------
(***************************************************************************)
(* One project's events and one calendar of a provider:                    *)
(* services/calendar_sync_service.py.                                      *)
(*                                                                         *)
(* A synchronisation creates, one by one, the events the provider does not *)
(* have, asks for what has changed there since the last time, takes that   *)
(* over, and commits everything, with the provider's token, at the end.    *)
(* If the provider fails, the row of the connection is set to "error" and  *)
(* committed - in the same session, with the uids it holds.  Recurring     *)
(* events are never pushed and have no part here.                          *)
(*                                                                         *)
(* The provider is external.  It counts its changes; the count is the      *)
(* event's etag and, for a whole list, the token.                          *)
(***************************************************************************)
EXTENDS Naturals, FiniteSets

CONSTANTS
    Requests,   \* requests served at the same time
    MaxRow,     \* bound: local events there have been
    MaxUid,     \* bound: remote events there have been
    MaxClock    \* bound: changes at the provider

VARIABLES
    remote, clock,      \* the provider's events and its count of changes
    local,              \* CalendarEvent
    token,              \* CalendarConnection.sync_token, 0 for none
    call,               \* what each request is doing
    dropped, unlisted   \* history: the uids whose row a person has deleted, and
                        \* those whose deletion no answer has told

vars == <<remote, clock, local, token, call, dropped, unlisted>>

Rows == 1..MaxRow
Uids == 1..MaxUid
Clocks == 0..MaxClock

\* "from" is the row an event was pushed from, 0 if it was made at the provider.
Remote == [state : {"none", "live", "gone"}, etag : Clocks, from : Rows \cup {0}]
Row == [state : {"none", "here", "gone"}, uid : Uids \cup {0}, etag : Clocks]
NoRow == [state |-> "none", uid |-> 0, etag |-> 0]

\* "given" is what the pushes have put into the session, "base" the token it has
\* read, "got" and "next" the provider's answer, "found" the rows of its uids.
Given == [uid : Uids \cup {0}, etag : Clocks]
Nothing == [uid |-> 0, etag |-> 0]
Call == [at : {"idle", "pushing", "listing", "applying", "saving"},
         todo : SUBSET Rows, given : [Rows -> Given], base : Clocks,
         got : SUBSET [uid : Uids, etag : Clocks, gone : BOOLEAN], next : Clocks,
         found : [Uids -> Rows \cup {0}], writes : BOOLEAN]
Idle == [at |-> "idle", todo |-> {}, given |-> [x \in Rows |-> Nothing], base |-> 0,
         got |-> {}, next |-> 0, found |-> [u \in Uids |-> 0], writes |-> FALSE]

TypeOK ==
    /\ remote \in [Uids -> Remote] /\ clock \in Clocks
    /\ local \in [Rows -> Row]
    /\ token \in Clocks
    /\ call \in [Requests -> Call]
    /\ dropped \subseteq Uids /\ unlisted \subseteq Uids

Init ==
    /\ remote = [u \in Uids |-> [state |-> "none", etag |-> 0, from |-> 0]]
    /\ clock = 0
    /\ local = [x \in Rows |-> NoRow]
    /\ token = 0
    /\ call = [r \in Requests |-> Idle]
    /\ dropped = {} /\ unlisted = {}

Here == {x \in Rows : local[x].state = "here"}
Unused == {x \in Rows : local[x].state = "none"}
First(S) == CHOOSE x \in S : \A y \in S : x <= y
Becomes(r, c) == call' = [call EXCEPT ![r] = c]
WriterFree(r) == \A q \in Requests \ {r} : ~call[q].writes

-----------------------------------------------------------------------------
\* The provider

\* A change of one event; "from" stays what it was.
Changed(u, state) ==
    /\ clock < MaxClock
    /\ clock' = clock + 1
    /\ remote' = [remote EXCEPT ![u].state = state, ![u].etag = clock + 1]

Free == {u \in Uids : remote[u].state = "none"}

ProviderChanges ==
    /\ \/ Free # {} /\ Changed(First(Free), "live")
       \/ \E u \in Uids, state \in {"live", "gone"} :
             remote[u].state = "live" /\ Changed(u, state)
    /\ UNCHANGED <<local, token, call, dropped, unlisted>>

\* list_events: everything, or what has changed since the token.
Answer(since) ==
    {[uid |-> u, etag |-> remote[u].etag, gone |-> remote[u].state = "gone"] :
        u \in {v \in Uids : IF since = 0 THEN remote[v].state = "live"
                                         ELSE remote[v].etag > since}}

-----------------------------------------------------------------------------
\* People

CreateEvent ==
    /\ Unused # {}
    /\ local' = [local EXCEPT ![First(Unused)].state = "here"]
    /\ UNCHANGED <<remote, clock, token, call, dropped, unlisted>>

DeleteEvent(x) ==
    /\ x \in Here /\ \A r \in Requests : ~call[r].writes
    /\ local' = [local EXCEPT ![x] = [NoRow EXCEPT !.state = "gone"]]
    /\ dropped' = dropped \cup ({local[x].uid} \ {0})
    /\ UNCHANGED <<remote, clock, token, call, unlisted>>

-----------------------------------------------------------------------------
\* sync_connection

\* The connection is read and its access token renewed, the events of _push read.
Begin(r) ==
    /\ call[r] = Idle
    /\ Becomes(r, [Idle EXCEPT !.at = "pushing", !.base = token,
                               !.todo = {x \in Here : local[x].uid = 0}])
    /\ UNCHANGED <<remote, clock, local, token, dropped, unlisted>>

\* create_event, one event after the other.
Push(r) ==
    LET c == call[r] x == First(c.todo) u == First(Free) IN
    /\ c.at = "pushing" /\ c.todo # {}
    /\ Free # {} /\ clock < MaxClock
    /\ clock' = clock + 1
    /\ remote' = [remote EXCEPT ![u] = [state |-> "live", etag |-> clock + 1, from |-> x]]
    /\ Becomes(r, [c EXCEPT !.todo = @ \ {x},
                            !.given[x] = [uid |-> u, etag |-> clock + 1]])
    /\ UNCHANGED <<local, token, dropped, unlisted>>

\* list_events; an answer that is an error reads like one without events and
\* without a token.
List(r) ==
    LET c == call[r] IN
    /\ c.at = "pushing" /\ c.todo = {}
    /\ \/ /\ Becomes(r, [c EXCEPT !.at = "applying", !.got = Answer(c.base), !.next = clock])
          /\ unlisted' = IF c.base # 0 THEN unlisted
                          ELSE unlisted \cup {u \in Uids : remote[u].state = "gone"}
       \/ /\ c.base # 0
          /\ Becomes(r, [c EXCEPT !.at = "applying"])
          /\ UNCHANGED unlisted
    /\ UNCHANGED <<remote, clock, local, token, dropped>>

\* The rows as the session sees them: its own uids on top of what is committed.
Seen(c) == [x \in Rows |-> IF c.given[x].uid # 0 THEN c.given[x].uid ELSE local[x].uid]
Writes(c) == \E x \in Rows : c.given[x].uid # 0
Storable(c) == \A x \in Rows : c.given[x].uid # 0 => x \in Here

Found(c, u) ==
    LET S == {x \in Here : Seen(c)[x] = u} IN IF S = {} THEN 0 ELSE First(S)

Pushed(c, x) ==
    IF c.given[x].uid = 0 THEN local[x]
    ELSE [local[x] EXCEPT !.uid = c.given[x].uid, !.etag = c.given[x].etag]

\* An event the provider has not changed since its row was written.
Unchanged(c, g) ==
    LET x == Found(c, g.uid) IN ~g.gone /\ x # 0 /\ Pushed(c, x).etag = g.etag

\* _apply_remote looks its rows up; the first of these SELECTs flushes the uids,
\* which takes the write lock and fails if an event is gone.
Apply(r) ==
    LET c == call[r] IN
    /\ c.at = "applying"
    /\ Writes(c) => WriterFree(r) /\ Storable(c)
    /\ Becomes(r, [c EXCEPT !.at = "saving", !.writes = Writes(c),
                            !.found = [u \in Uids |-> Found(c, u)],
                            !.got = {g \in @ : ~Unchanged(c, g)}])
    /\ UNCHANGED <<remote, clock, local, token, dropped, unlisted>>

\* What _apply_remote makes of a row: the provider wins.
Taken(c, x) ==
    LET G == {g \in c.got : c.found[g.uid] = x} IN
    CASE G = {} -> Pushed(c, x)
      [] \E g \in G : g.gone -> [NoRow EXCEPT !.state = "gone"]
      [] OTHER -> [Pushed(c, x) EXCEPT !.etag = (CHOOSE g \in G : TRUE).etag]

New(c) == {g \in c.got : c.found[g.uid] = 0 /\ ~g.gone}

\* The rest of the flushes and the commit; a row that is gone can be deleted
\* again, not updated.
Save(r) ==
    LET c == call[r] IN
    /\ c.at = "saving"
    /\ WriterFree(r) /\ Storable(c)
    /\ \A g \in c.got : ~g.gone /\ c.found[g.uid] # 0 => c.found[g.uid] \in Here
    /\ \E f \in [New(c) -> Unused] :
          /\ \A g, h \in New(c) : f[g] = f[h] => g = h
          /\ \A g \in New(c), x \in Unused : x < f[g] => \E h \in New(c) : f[h] = x
          /\ \A g, h \in New(c) : g.uid < h.uid => f[g] < f[h]
          /\ local' = [x \in Rows |->
                IF \E g \in New(c) : f[g] = x
                  THEN LET g == CHOOSE g \in New(c) : f[g] = x
                       IN  [state |-> "here", uid |-> g.uid, etag |-> g.etag]
                  ELSE Taken(c, x)]
    /\ token' = IF c.next = c.base THEN token ELSE c.next
    /\ Becomes(r, Idle)
    /\ UNCHANGED <<remote, clock, dropped, unlisted>>

\* Mutant: a failure rolls everything back before the status is set.
FailClean(r) ==
    /\ call[r].at = "pushing"
    /\ Becomes(r, Idle)
    /\ UNCHANGED <<remote, clock, local, token, dropped, unlisted>>

\* The provider raises: set_status commits what the session holds.
Fail(r) ==
    LET c == call[r] IN
    /\ c.at = "pushing"
    /\ Writes(c) => WriterFree(r) /\ Storable(c)
    /\ local' = [x \in Rows |-> Pushed(c, x)]
    /\ Becomes(r, Idle)
    /\ UNCHANGED <<remote, clock, token, dropped, unlisted>>

\* The database fails, or the process ends: nothing is committed.
Abort(r) ==
    /\ call[r] # Idle
    /\ Becomes(r, Idle)
    /\ UNCHANGED <<remote, clock, local, token, dropped, unlisted>>

Work(r) == Begin(r) \/ Push(r) \/ List(r) \/ Apply(r) \/ Save(r) \/ Fail(r)

Next ==
    \/ ProviderChanges \/ CreateEvent
    \/ \E x \in Rows : DeleteEvent(x)
    \/ \E r \in Requests : Work(r) \/ Abort(r)

Spec == Init /\ [][Next]_vars

-----------------------------------------------------------------------------
\* Properties

\* No event is on either side twice: a synchronisation that stopped at any event
\* because the provider failed does not make the next one push what it had pushed,
\* and what was pushed does not come back as a second row (one request at a time).
NoDuplicates ==
    /\ \A x, y \in Here : local[x].uid = local[y].uid /\ local[x].uid # 0 => x = y
    /\ \A u, v \in Uids : remote[u].from = remote[v].from /\ remote[u].from # 0 => u = v
    /\ \A x \in Here : local[x].uid # 0 =>
          remote[local[x].uid].from \in {0, x} \cup (Rows \ Here)

\* The token never runs ahead of the rows: a change the provider counted up to it
\* is in the rows, whatever overlaps or fails - unless a person has deleted the
\* row, or the event was deleted before a list that was asked for without a token,
\* which tells no deletions.
TokenTellsTruth ==
    \A u \in Uids : remote[u].etag <= token =>
        /\ remote[u].state = "live" =>
              u \in dropped \/ \E x \in Here : local[x].uid = u /\ local[x].etag = remote[u].etag
        /\ remote[u].state = "gone" => u \in unlisted \/ \A x \in Here : local[x].uid # u

=============================================================================
