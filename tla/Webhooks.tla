------------------------------ MODULE Webhooks -------------------------------
(***************************************************************************)
(* Outbound webhooks: services/webhook_service.py.                         *)
(*                                                                         *)
(* A listener of the session collects the AuditEvents a commit is about to *)
(* write (_collect_events, before_commit) and another one sends them       *)
(* around when it has committed (_fire_events, after_commit): one row of   *)
(* webhookdelivery per enabled subscription, committed, and a job for the  *)
(* pool.  A worker of the pool reads the row and its subscription, POSTs,  *)
(* and writes the outcome and the failure count it computed from what it   *)
(* read before the POST.  The queue of the pool is in memory.              *)
(***************************************************************************)
EXTENDS Naturals, Sequences, FiniteSets

CONSTANTS
    Changes,    \* requests that change a project and write one eligible AuditEvent
    Purges,     \* those of them that purge it
    Others,     \* requests that send a row again or send a test
    Subs,       \* ids of subscriptions
    Wanted,     \* the changes that match the filters of a subscription (_matches)
    Workers,    \* threads of the pool
    Threshold,  \* _FAILURE_THRESHOLD
    MaxFaults   \* bound: requests cut short, jobs that raise, restarts

VARIABLES
    sub,        \* row of each subscription
    rows,       \* rows of webhookdelivery, in the order of their INSERTs
    call,       \* what each request is doing; a request is served once
    committed,  \* the changes whose transaction has committed
    due,        \* history: the subscriptions enabled when a change committed
    queue,      \* row numbers submitted to the pool
    worker,     \* what each thread of the pool is doing
    answers,    \* history: the answers the receiver gave to each delivery
    bad,        \* history: failures recorded for each subscription
    streak,     \* history: those of them since the last success
    lost,       \* history: rows that were pending when their request or job died
    faults      \* how often something was cut short

requestVars == <<call, committed, due>>
history == <<answers, bad, streak, lost>>
poolVars == <<queue, worker, history, faults>>
vars == <<sub, rows, requestVars, poolVars>>

-----------------------------------------------------------------------------
Calls == Changes \cup Others

Sub == [state : {"absent", "enabled", "disabled", "deleted"}, failures : Nat]

Delivery == [sub : Subs, event : Calls, attempt : Nat,
             status : {"pending", "delivered", "failed"}]

\* "rest" are the subscriptions a dispatch has still to look at, "row" is the
\* delivery it is about to submit.
Call == [at : {"new", "open", "flushed", "committed", "dispatching",
               "submitting", "done", "cut"},
         rest : SUBSET Subs, row : Nat]

\* "failures" and "enabled" are the columns a worker read before its POST.
Job == [at : {"idle", "posting", "answered"}, row : Nat,
        failures : Nat, enabled : BOOLEAN, answer : {"ok", "bad"}]

Free == [at |-> "idle", row |-> 0, failures |-> 0, enabled |-> FALSE, answer |-> "bad"]

TypeOK ==
    /\ sub \in [Subs -> Sub]
    /\ rows \in Seq(Delivery)
    /\ call \in [Calls -> Call]
    /\ committed \subseteq Changes
    /\ due \in [Changes -> SUBSET Subs]
    /\ queue \in Seq(DOMAIN rows)
    /\ worker \in [Workers -> Job]
    /\ \A w \in Workers : worker[w].at # "idle" => worker[w].row \in DOMAIN rows
    /\ answers \in Seq(Seq({"ok", "bad"})) /\ Len(answers) = Len(rows)
    /\ bad \in [Subs -> Nat] /\ streak \in [Subs -> Nat]
    /\ lost \subseteq DOMAIN rows
    /\ faults \in 0..MaxFaults

Init ==
    /\ sub = [s \in Subs |-> [state |-> "absent", failures |-> 0]]
    /\ rows = << >>
    /\ call = [r \in Calls |-> [at |-> "new", rest |-> {}, row |-> 0]]
    /\ committed = {}
    /\ due = [c \in Changes |-> {}]
    /\ queue = << >>
    /\ worker = [w \in Workers |-> Free]
    /\ answers = << >>
    /\ bad = [s \in Subs |-> 0]
    /\ streak = [s \in Subs |-> 0]
    /\ lost = {}
    /\ faults = 0

Enabled == {s \in Subs : sub[s].state = "enabled"}

Pending == {i \in DOMAIN rows : rows[i].status = "pending"}

Goto(r, stage) == call' = [call EXCEPT ![r].at = stage]

-----------------------------------------------------------------------------
\* A change and the listeners of its session.

\* The service has changed rows and added the AuditEvent to the session.
Write(c) ==
    /\ call[c].at = "new"
    /\ Goto(c, "open")
    /\ UNCHANGED <<sub, rows, committed, due, poolVars>>

\* purge_project deletes rows after it has added the event; the first DELETE
\* flushes the session, and the event is no longer in session.new.
Flush(c) ==
    /\ call[c].at = "open"
    /\ c \in Purges
    /\ Goto(c, "flushed")
    /\ UNCHANGED <<sub, rows, committed, due, poolVars>>

\* Mutant: the events are sent around before the commit, which may still fail.
CommitAfterFiring(c) ==
    /\ call[c].at = IF c \in Purges THEN "flushed" ELSE "open"
    /\ committed' = IF call[c].at = "open" THEN committed ELSE committed \cup {c}
    /\ due' = [due EXCEPT ![c] = Enabled]
    /\ Goto(c, IF call[c].at = "open" THEN "committed" ELSE "done")
    /\ UNCHANGED <<sub, rows, poolVars>>

\* _collect_events takes what is in session.new; the transaction commits; with
\* nothing collected _fire_events returns.
Commit(c) ==
    /\ call[c].at = IF c \in Purges THEN "flushed" ELSE "open"
    /\ committed' = committed \cup {c}
    /\ due' = [due EXCEPT ![c] = Enabled]
    /\ Goto(c, IF call[c].at = "open" THEN "committed" ELSE "done")
    /\ UNCHANGED <<sub, rows, poolVars>>

\* _dispatch selects the enabled subscriptions of the workspace.
ReadSubs(c) ==
    /\ call[c].at = "committed"
    /\ call' = [call EXCEPT ![c].at = "dispatching", ![c].rest = Enabled]
    /\ UNCHANGED <<sub, rows, committed, due, poolVars>>

\* Something is cut short.
Fault == faults < MaxFaults /\ faults' = faults + 1

Inserted(s, e, n) ==
    /\ rows' = Append(rows, [sub |-> s, event |-> e, attempt |-> n, status |-> "pending"])
    /\ answers' = Append(answers, << >>)

\* The next subscription of the loop.  Deleted meanwhile, it makes the refresh
\* or the INSERT raise, and _fire_events drops the rest; one that does not match
\* is skipped; for the others a row is inserted and committed.
Queue(c, s) ==
    /\ call[c].at = "dispatching"
    /\ s \in call[c].rest
    /\ IF sub[s].state = "deleted"
         THEN Goto(c, "cut") /\ UNCHANGED <<rows, answers>>
         ELSE IF c \in Wanted[s]
         THEN /\ Inserted(s, c, 1)
              /\ call' = [call EXCEPT ![c].at = "submitting",
                                      ![c].rest = @ \ {s}, ![c].row = Len(rows) + 1]
         ELSE call' = [call EXCEPT ![c].rest = @ \ {s}] /\ UNCHANGED <<rows, answers>>
    /\ UNCHANGED <<sub, committed, due, queue, worker, bad, streak, lost, faults>>

\* The loop is over.
Dispatched(c) ==
    /\ call[c].at = "dispatching"
    /\ call[c].rest = {}
    /\ Goto(c, "done")
    /\ UNCHANGED <<sub, rows, committed, due, poolVars>>

\* _submit, the end of _queue_delivery.
Submit(r) ==
    /\ call[r].at = "submitting"
    /\ queue' = Append(queue, call[r].row)
    /\ Goto(r, IF r \in Changes THEN "dispatching" ELSE "done")
    /\ UNCHANGED <<sub, rows, committed, due, worker, history, faults>>

\* The request is cut short: the commit fails, the database cannot be had, the
\* dispatch raises (which _fire_events swallows).
Abort(r) ==
    /\ call[r].at \in {"open", "flushed", "committed", "dispatching", "submitting"}
    /\ Goto(r, "cut")
    /\ Fault
    /\ lost' = IF call[r].at = "submitting" THEN lost \cup {call[r].row} ELSE lost
    /\ UNCHANGED <<sub, rows, committed, due, queue, worker, answers, bad, streak>>

-----------------------------------------------------------------------------
\* Requests of an owner.

CreateSubscription(s) ==
    /\ sub[s].state = "absent"
    /\ sub' = [sub EXCEPT ![s].state = "enabled"]
    /\ UNCHANGED <<rows, requestVars, poolVars>>

\* A row of webhookdelivery that refers to the subscription makes the DELETE
\* fail: the foreign key has no ON DELETE.
DeleteSubscription(s) ==
    /\ sub[s].state \in {"enabled", "disabled"}
    /\ \A i \in DOMAIN rows : rows[i].sub # s
    /\ sub' = [sub EXCEPT ![s].state = "deleted"]
    /\ UNCHANGED <<rows, requestVars, poolVars>>

\* A new row with the body of an old one, for a disabled subscription too.
Redeliver(r, i) ==
    /\ call[r].at = "new"
    /\ Inserted(rows[i].sub, rows[i].event, rows[i].attempt + 1)
    /\ call' = [call EXCEPT ![r].at = "submitting", ![r].row = Len(rows) + 1]
    /\ UNCHANGED <<sub, committed, due, queue, worker, bad, streak, lost, faults>>

SendTest(r, s) ==
    /\ call[r].at = "new"
    /\ sub[s].state \in {"enabled", "disabled"}
    /\ Inserted(s, r, 1)
    /\ call' = [call EXCEPT ![r].at = "submitting", ![r].row = Len(rows) + 1]
    /\ UNCHANGED <<sub, committed, due, queue, worker, bad, streak, lost, faults>>

-----------------------------------------------------------------------------
\* _deliver

SubOf(w) == rows[worker[w].row].sub

\* A free worker takes the oldest job and reads the delivery and its
\* subscription (which the foreign key keeps).
Take(w) ==
    /\ worker[w].at = "idle"
    /\ queue # << >>
    /\ queue' = Tail(queue)
    /\ LET s == rows[Head(queue)].sub IN
       worker' = [worker EXCEPT ![w] =
           [at |-> "posting", row |-> Head(queue), failures |-> sub[s].failures,
            enabled |-> sub[s].state = "enabled", answer |-> "bad"]]
    /\ UNCHANGED <<sub, rows, requestVars, history, faults>>

\* The secret cannot be decrypted (another key): no POST, no failure counted.
CannotDecrypt(w) ==
    /\ worker[w].at = "posting"
    /\ rows' = [rows EXCEPT ![worker[w].row].status = "failed"]
    /\ worker' = [worker EXCEPT ![w] = Free]
    /\ UNCHANGED <<sub, requestVars, queue, history, faults>>

\* The POST: "ok" is a status 200 to 299; "bad" any other, a network error, a
\* timeout, or a target that has become private.
Post(w) ==
    /\ worker[w].at = "posting"
    /\ \E a \in {"ok", "bad"} :
          /\ worker' = [worker EXCEPT ![w].at = "answered", ![w].answer = a]
          /\ answers' = [answers EXCEPT ![worker[w].row] = Append(@, a)]
    /\ UNCHANGED <<sub, rows, requestVars, queue, bad, streak, lost, faults>>

\* Mutant: a success does not end the streak.
CountedForEver(s, j) ==
    IF j.answer = "ok" THEN sub[s]
    ELSE [state |-> IF j.failures + 1 >= Threshold /\ j.enabled
                      THEN "disabled" ELSE sub[s].state,
          failures |-> j.failures + 1]

\* The subscription after the UPDATE of the columns the worker changed: those
\* whose value differs from what it read before the POST.
Counted(s, j) ==
    IF j.answer = "ok"
      THEN IF j.failures = 0 THEN sub[s] ELSE [sub[s] EXCEPT !.failures = 0]
      ELSE [state |-> IF j.failures + 1 >= Threshold /\ j.enabled
                        THEN "disabled" ELSE sub[s].state,
            failures |-> j.failures + 1]

Remember(s, answer) ==
    /\ bad' = IF answer = "ok" THEN bad ELSE [bad EXCEPT ![s] = @ + 1]
    /\ streak' = [streak EXCEPT ![s] = IF answer = "ok" THEN 0 ELSE @ + 1]

\* Mutant: a failure is not written to the delivery.
RecordSuccessOnly(w) ==
    LET s == SubOf(w) j == worker[w] IN
    /\ j.at = "answered"
    /\ rows' = [rows EXCEPT ![j.row].status = IF j.answer = "ok" THEN "delivered" ELSE @]
    /\ sub' = [sub EXCEPT ![s] = Counted(s, j)]
    /\ Remember(s, j.answer)
    /\ worker' = [worker EXCEPT ![w] = Free]
    /\ UNCHANGED <<requestVars, queue, answers, lost, faults>>

\* The outcome of the delivery and the count, in one commit.
Record(w) ==
    LET s == SubOf(w) j == worker[w] IN
    /\ j.at = "answered"
    /\ rows' = [rows EXCEPT ![j.row].status =
                   IF j.answer = "ok" THEN "delivered" ELSE "failed"]
    /\ sub' = [sub EXCEPT ![s] = Counted(s, j)]
    /\ Remember(s, j.answer)
    /\ worker' = [worker EXCEPT ![w] = Free]
    /\ UNCHANGED <<requestVars, queue, answers, lost, faults>>

\* The job raises (the database cannot be had): nobody looks at its future.
JobRaises(w) ==
    /\ worker[w].at # "idle"
    /\ Fault
    /\ worker' = [worker EXCEPT ![w] = Free]
    /\ lost' = lost \cup {worker[w].row}
    /\ UNCHANGED <<sub, rows, requestVars, queue, answers, bad, streak>>

\* The process ends and is started again: requests, queue and jobs are gone.
Restart ==
    /\ Fault
    /\ call' = [r \in Calls |->
                   IF call[r].at \in {"new", "done"} THEN call[r]
                   ELSE [call[r] EXCEPT !.at = "cut"]]
    /\ queue' = << >>
    /\ worker' = [w \in Workers |-> Free]
    /\ lost' = Pending
    /\ UNCHANGED <<sub, rows, committed, due, answers, bad, streak>>

-----------------------------------------------------------------------------
ChangeStep(c) ==
    \/ Flush(c) \/ Commit(c) \/ ReadSubs(c) \/ Dispatched(c) \/ Submit(c)
    \/ \E s \in Subs : Queue(c, s)

WorkerStep(w) == Take(w) \/ Post(w) \/ Record(w)

Next ==
    \/ \E c \in Changes : Write(c) \/ ChangeStep(c) \/ Abort(c)
    \/ \E r \in Others :
          \/ \E i \in DOMAIN rows : Redeliver(r, i)
          \/ \E s \in Subs : SendTest(r, s)
          \/ Submit(r) \/ Abort(r)
    \/ \E s \in Subs : CreateSubscription(s) \/ DeleteSubscription(s)
    \/ \E w \in Workers : WorkerStep(w) \/ CannotDecrypt(w) \/ JobRaises(w)
    \/ Restart

Spec == Init /\ [][Next]_vars

\* The threads that serve requests and those of the pool keep running; a POST
\* ends, by its timeout if by nothing else.
Fairness ==
    /\ \A c \in Changes : WF_vars(ChangeStep(c))
    /\ \A r \in Others : WF_vars(Submit(r))
    /\ \A w \in Workers : WF_vars(WorkerStep(w))

-----------------------------------------------------------------------------
\* Properties

\* What is sent around has happened, and is sent once: a delivery is of a
\* committed change (or a test); a subscription gets one first attempt of it;
\* no row is POSTed twice, and "delivered" is what the receiver answered.
OutboxTellsTruth ==
    /\ \A i \in DOMAIN rows : rows[i].event \in Changes => rows[i].event \in committed
    /\ \A i, j \in DOMAIN rows :
          /\ i # j /\ rows[i].attempt = 1 /\ rows[j].attempt = 1
          => <<rows[i].sub, rows[i].event>> # <<rows[j].sub, rows[j].event>>
    /\ \A i \in DOMAIN rows :
          /\ Len(answers[i]) <= 1
          /\ rows[i].status = "delivered" => answers[i] = <<"ok">>

\* However workers overlap, the count never exceeds the failures there were, so
\* a subscription is disabled only after as many as the threshold.
CountsFailures ==
    \A s \in Subs :
       /\ sub[s].failures <= bad[s]
       /\ sub[s].state = "disabled" => bad[s] >= Threshold

\* Changes whose listener has run to its end.
Fired == {c \in committed : call[c].at = "done"}

Reached(c, s) == \E i \in DOMAIN rows : rows[i].sub = s /\ rows[i].event = c

\* A committed change that is no purge gets a delivery for every matching
\* subscription that was enabled at its commit and still is.
FiredReachesAll ==
    \A c \in Fired \ Purges : \A s \in due[c] \cap Enabled :
       c \in Wanted[s] => Reached(c, s)

\* Every delivery gets an outcome, unless the request that queues it or the job
\* that makes it dies.
DeliveriesAreSettled == (Pending \ lost # {}) ~> (Pending \subseteq lost)

=============================================================================
