------------------------------ MODULE MCPostgres -----------------------------
(***************************************************************************)
(* The instances whose liveness is checked, side by side: the approval     *)
(* engine on PostgreSQL, where calls wait for the locks of rows            *)
(* (MCApprovals), and the outbound webhooks with their pool (Webhooks).    *)
(* The first state chooses which of them runs ("part"; the variables of    *)
(* the other keep their initial values), which requests are made and which *)
(* subscriptions ("made"), and whether the pool works on one delivery at a *)
(* time ("lone").                                                          *)
(***************************************************************************)
EXTENDS MCApprovals

CONSTANTS
    change1, change2, purge, other1, other2,    \* the requests of the webhooks
    sub1, sub2,                                 \* their subscriptions
    Changes, Purges, Others, Subs, Wanted,      \* see Webhooks
    Workers, Threshold, MaxFaults,
    Menu        \* sets of requests and subscriptions a behaviour may make

ASSUME HooksAssumption ==
    /\ Changes \cap Others = {} /\ Purges \subseteq Changes
    /\ Threshold \in Nat /\ MaxFaults \in Nat
    /\ IsFiniteSet(Workers)

VARIABLES
    part,
    sub,
    sent,       \* the rows of webhookdelivery
    wcall, committed, due, queue, worker,
    answers, bad, streak, lost, faults,
    made,       \* the requests and subscriptions that are made
    lone        \* the workers of the pool never overlap

MCWanted == [s \in Subs |-> IF s = sub1 THEN Changes ELSE {change1}]

MCMenu == {{change1, sub1, sub2}, {change2, other1, sub1}, {purge, sub1}, {other1, other2, sub1}}

W == INSTANCE Webhooks WITH rows <- sent, call <- wcall

hookVars == <<sub, sent, wcall, committed, due, queue, worker,
              answers, bad, streak, lost, faults, made, lone>>

HooksNext ==
    /\ W!Next
    /\ \A r \in W!Calls \ made : wcall'[r].at = "new"
    /\ \A s \in Subs \ made : sub'[s].state = "absent"
    /\ lone => Cardinality({w \in Workers : worker'[w].at # "idle"}) <= 1
    /\ UNCHANGED <<made, lone>>

LiveInit ==
    /\ Init /\ W!Init /\ lone \in BOOLEAN
    /\ \/ part = "approvals" /\ made = {} /\ lone
       \/ part = "webhooks" /\ made \in Menu

LiveNext ==
    /\ \/ part = "approvals" /\ Next /\ UNCHANGED hookVars
       \/ part = "webhooks" /\ HooksNext /\ UNCHANGED vars
    /\ UNCHANGED part

\* The fairness of both parts: it asks nothing of the part that keeps its initial
\* values, where no call and no delivery is under way.
LiveSpec ==
    /\ LiveInit /\ [][LiveNext]_<<part, vars, hookVars>>
    /\ \A r \in Requests : WF_vars(Step(r))
    /\ W!Fairness

\* What is sent around has happened and is sent once, to every subscription that
\* wants it, and the rows of the outbox keep their types (see OutboxTellsTruth,
\* FiredReachesAll and TypeOK of Webhooks).
OutboxIsTrueAndComplete == W!TypeOK /\ W!OutboxTellsTruth /\ W!FiredReachesAll

\* A subscription is disabled only after Threshold failures (see CountsFailures of
\* Webhooks); with one delivery at a time, the failure count is the number of
\* failures since the last success: "auto-disabled after too many consecutive
\* failures".
DisabledAfterFailures ==
    /\ W!CountsFailures
    /\ lone => \A s \in Subs : sub[s].failures = streak[s]

\* Every delivery gets an outcome, unless the request that queues it or the job
\* that makes it dies (see Webhooks).
DeliveriesAreSettled == W!DeliveriesAreSettled

=============================================================================
