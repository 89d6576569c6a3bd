----------------------------- MODULE ExternalApi -----------------------------
(***************************************************************************)
(* The way of a request of a program into the server (api/external/auth.py *)
(* and mcp/http_transport.py): its key is verified, the time of its use is *)
(* noted in the row, the limiter counts it (core/rate_limit.py), and it    *)
(* holds one of the key's slots until it ends.  Meanwhile people issue and *)
(* revoke keys and write the settings, of which the server keeps one in    *)
(* memory (services/settings_service.py).  A restart forgets what is in    *)
(* memory.                                                                 *)
(***************************************************************************)
EXTENDS Naturals, FiniteSets, Sequences

CONSTANTS
    Keys,       \* ApiClient rows
    Requests,   \* threads of the server
    Never,
    Limit, Window,      \* hits of a key per window
    Slots,              \* MAX_CONCURRENCY_PER_KEY
    MaxTracked,         \* MAX_TRACKED_KEYS
    Life,               \* how long a key is valid
    MaxClock, MaxWait   \* bounds on the time, and on the wait for the limiter's lock

VARIABLES
    now,
    row,        \* the rows of the keys
    active, lan,    \* the switches external_api_active and lan_mode_active
    mirror,     \* _lan_switch_cache
    window,     \* _read: of each key, the start of its window and the hits in it
    order,      \* which of two keys that have one was hit before the other
    inflight,   \* _concurrency
    leaked,     \* history: of each key, the slots this process will not get back
    call,
    passed      \* of each key, the times of the last hits that were let through

vars == <<now, row, active, lan, mirror, window, order, inflight, leaked, call, passed>>
memory == <<mirror, window, order, inflight, leaked, passed>>

Times == 0..MaxClock
Row == [state : {"new", "live", "revoked"}, expires : 0..(MaxClock + Life),
        used : Times \cup {Never}]
Hits == [start : Times, count : 1..Limit]
Call == [at : {"idle", "verifying", "known", "counted", "working", "saved", "mirroring"},
         key : Keys \cup {Never}, row : Row, lan : BOOLEAN]

New == [state |-> "new", expires |-> 0, used |-> Never]
Idle == [at |-> "idle", key |-> Never, row |-> New, lan |-> FALSE]

\* The keys the limiter knows.
Tracked == {k \in Keys : window[k] # Never}

TypeOK ==
    /\ now \in Times /\ row \in [Keys -> Row]
    /\ {active, lan, mirror} \subseteq BOOLEAN
    /\ window \in [Keys -> Hits \cup {Never}]
    /\ order \subseteq Tracked \X Tracked
    /\ \A x, y \in Tracked : <<x, y>> \in order <=> x # y /\ <<y, x>> \notin order
    /\ inflight \in [Keys -> 0..Slots] /\ leaked \in [Keys -> Nat]
    /\ call \in [Requests -> Call]
    /\ passed \in [Keys -> Seq(Times)]

Init ==
    /\ now = 0 /\ row = [k \in Keys |-> New]
    /\ active = TRUE /\ lan \in BOOLEAN /\ mirror = lan
    /\ window = [k \in Keys |-> Never] /\ order = {}
    /\ inflight = [k \in Keys |-> 0] /\ leaked = [k \in Keys |-> 0]
    /\ call = [r \in Requests |-> Idle]
    /\ passed = [k \in Keys |-> <<>>]

Goto(r, c) == call' = [call EXCEPT ![r] = c]

-----------------------------------------------------------------------------
\* A request of a program.

\* _authenticate reads the switch and the row; then the secret is verified.
Arrive(r, k) ==
    /\ call[r] = Idle /\ active /\ row[k].state # "new"
    /\ Goto(r, [Idle EXCEPT !.at = "verifying", !.key = k, !.row = row[k]])
    /\ UNCHANGED <<now, row, active, lan, memory>>

Valid(x) == x.state = "live" /\ now < x.expires

\* Mutant: the use is noted by writing back the row as it was read.
TouchedWhole(k, x) == [x EXCEPT !.used = now]

\* _touch_last_used writes one column, and not twice in a window's time.
Touched(k, x) ==
    IF x.used = Never \/ now >= x.used + Window THEN [row[k] EXCEPT !.used = now] ELSE row[k]

Authenticate(r) ==
    LET c == call[r] IN
    /\ c.at = "verifying"
    /\ IF Valid(c.row)
       THEN /\ row' = [row EXCEPT ![c.key] = Touched(c.key, c.row)]
            /\ Goto(r, [Idle EXCEPT !.at = "known", !.key = c.key])
       ELSE Goto(r, Idle) /\ UNCHANGED row
    /\ UNCHANGED <<now, active, lan, memory>>

\* The times a call of the limiter may have read before it had the lock.
Read == {t \in Times : t <= now /\ now <= t + MaxWait}

Fresh(k, t) == window[k] = Never \/ t >= window[k].start + Window
Room(k, t) == Fresh(k, t) \/ window[k].count < Limit

\* _hit, for a key that has hits left: a key too many forgets the one hit longest ago.
Counted(k, t) ==
    LET others == Tracked \ {k}
        oldest == {x \in others : \A y \in others : <<y, x>> \notin order}
        kept == IF Cardinality(others) >= MaxTracked THEN others \ oldest ELSE others
        hits == IF Fresh(k, t) THEN [start |-> t, count |-> 1]
                               ELSE [window[k] EXCEPT !.count = @ + 1]
        times == Append(passed[k], t)
        after(f, new, none) ==
            [x \in Keys |-> IF x = k THEN new ELSE IF x \in kept THEN f[x] ELSE none]
    IN  /\ order' = (order \cap (kept \X kept)) \cup (kept \X {k})
        /\ window' = after(window, hits, Never)
        /\ passed' = after(passed, IF Len(times) > 2 * Limit + 1 THEN Tail(times) ELSE times, <<>>)

Hit(r) ==
    LET c == call[r] IN
    /\ c.at = "known"
    /\ \E t \in Read :
          IF Room(c.key, t) THEN Counted(c.key, t) /\ Goto(r, [c EXCEPT !.at = "counted"])
                            ELSE Goto(r, Idle) /\ UNCHANGED <<window, order, passed>>
    /\ UNCHANGED <<now, row, active, lan, mirror, inflight, leaked>>

\* acquire
Acquire(r) ==
    LET c == call[r] IN
    /\ c.at = "counted"
    /\ IF inflight[c.key] < Slots
       THEN /\ inflight' = [inflight EXCEPT ![c.key] = @ + 1]
            /\ Goto(r, [c EXCEPT !.at = "working"])
       ELSE Goto(r, Idle) /\ UNCHANGED inflight
    /\ UNCHANGED <<now, row, active, lan, mirror, window, order, leaked, passed>>

\* release, whether the request succeeded or raised; its session still knows the key.
Release(r) ==
    LET k == call[r].key IN
    /\ call[r].at = "working"
    /\ inflight' = [inflight EXCEPT ![k] = IF @ <= 1 THEN 0 ELSE @ - 1]
    /\ Goto(r, Idle)
    /\ UNCHANGED <<now, row, active, lan, mirror, window, order, leaked, passed>>

\* The database fails while a proposal is stored, and nobody rolls back: the key can
\* no longer be read from the row, and the error of reading it is swallowed.
Leak(r) ==
    /\ call[r].at = "working"
    /\ leaked' = [leaked EXCEPT ![call[r].key] = @ + 1]
    /\ Goto(r, Idle)
    /\ UNCHANGED <<now, row, active, lan, mirror, window, order, inflight, passed>>

-----------------------------------------------------------------------------
\* What people do.

\* create_client
Issue(k) ==
    /\ row[k] = New
    /\ row' = [row EXCEPT ![k] = [state |-> "live", expires |-> now + Life, used |-> Never]]
    /\ UNCHANGED <<now, active, lan, call, memory>>

\* revoke_client
Revoke(k) ==
    /\ row[k].state = "live"
    /\ row' = [row EXCEPT ![k].state = "revoked"]
    /\ UNCHANGED <<now, active, lan, call, memory>>

\* write_settings, until its commit.
SaveSettings(r, a, l) ==
    /\ call[r] = Idle
    /\ active' = a /\ lan' = l
    /\ Goto(r, [Idle EXCEPT !.at = "saved"])
    /\ UNCHANGED <<now, row, memory>>

\* refresh_lan_switch reads the switch again and then assigns it.
ReadSwitch(r) ==
    /\ call[r].at = "saved"
    /\ Goto(r, [Idle EXCEPT !.at = "mirroring", !.lan = lan])
    /\ UNCHANGED <<now, row, active, lan, memory>>

SetMirror(r) ==
    /\ call[r].at = "mirroring"
    /\ mirror' = call[r].lan
    /\ Goto(r, Idle)
    /\ UNCHANGED <<now, row, active, lan, window, order, inflight, leaked, passed>>

-----------------------------------------------------------------------------
\* A request that holds no slot raises.
Abort(r) ==
    /\ call[r].at \in {"verifying", "known", "counted", "saved"}
    /\ Goto(r, Idle)
    /\ UNCHANGED <<now, row, active, lan, memory>>

\* create_app reads the switch.
Restart ==
    /\ mirror' = lan
    /\ window' = [k \in Keys |-> Never] /\ order' = {}
    /\ inflight' = [k \in Keys |-> 0] /\ leaked' = [k \in Keys |-> 0]
    /\ call' = [r \in Requests |-> Idle]
    /\ passed' = [k \in Keys |-> <<>>]
    /\ UNCHANGED <<now, row, active, lan>>

Tick == now < MaxClock /\ now' = now + 1 /\ UNCHANGED <<row, active, lan, call, memory>>

Work(r) ==
    \/ Authenticate(r) \/ Hit(r) \/ Acquire(r) \/ Release(r) \/ Leak(r)
    \/ ReadSwitch(r) \/ SetMirror(r) \/ Abort(r)

Next ==
    \/ \E r \in Requests, k \in Keys : Arrive(r, k)
    \/ \E r \in Requests, a, l \in BOOLEAN : SaveSettings(r, a, l)
    \/ \E r \in Requests : Work(r)
    \/ \E k \in Keys : Issue(k) \/ Revoke(k)
    \/ Restart \/ Tick

Spec == Init /\ [][Next]_vars

-----------------------------------------------------------------------------
\* Slots are held by the requests that work and by nobody else, but for one for each
\* proposal since the start that the database has failed: that one stays taken until
\* a restart (limiter.release of require_external_propose, in try .. pass).
SlotsAreReturned ==
    \A k \in Keys :
        inflight[k] =
            Cardinality({r \in Requests : call[r].at = "working" /\ call[r].key = k}) + leaked[k]

\* In the time of a window, less the wait for the lock, no more than two windows' hits
\* of a key are let through, unless the limiter has forgotten the key.
RateHolds ==
    \A k \in Keys :
        Len(passed[k]) > 2 * Limit => passed[k][2 * Limit + 1] + MaxWait > passed[k][1] + Window

\* The limiter knows no more keys than it may.
KeysAreForgotten == Cardinality(Tracked) <= MaxTracked

\* A revocation is for good, whatever else is written to the row meanwhile.
RevokedForGood == \A k \in Keys : row[k].state = "revoked" => row'[k].state = "revoked"

\* Where settings are written one at a time, the copy in memory is the switch
\* whenever nobody writes them.
MirrorIsTrue == (\A r \in Requests : call[r].at \notin {"saved", "mirroring"}) => mirror = lan

=============================================================================
