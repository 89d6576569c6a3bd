----------------------------- MODULE Approvals ------------------------------
(***************************************************************************)
(* The approval engine: services/approval_service.py with the policy       *)
(* binding, the apply handlers and the transactions they run in.           *)
(*                                                                         *)
(* An agent PROPOSES a change (create_proposal); a human approves, rejects *)
(* or invalidates it; an approved one is APPLIED to the canonical tables.  *)
(* Each call is one request served by a thread of the API's thread pool    *)
(* (proposals also come from the MCP process): it reads the approval row   *)
(* outside any transaction, decides, and writes later.  The stages of a    *)
(* call (variable call) are the points where another request may run.      *)
(*                                                                         *)
(* Only apply() holds a transaction open across steps: it claims the row   *)
(* with a compare-and-swap, revalidates the target under a row lock,       *)
(* mutates it and commits.  The other writes are one transaction each,     *)
(* taken at commit.  What an open transaction has not committed is not in  *)
(* status/trail/ver: nobody else can read it.                              *)
(***************************************************************************)
EXTENDS Naturals, Sequences, FiniteSets

CONSTANTS
    Requests,       \* calls ever served; each one is served once
    Proposals,      \* approval row ids
    Creates,        \* the proposals of a *.create action; the rest update
    Preexisting,    \* rows an earlier run of the program left pending
    Targets,        \* canonical rows: updated ones, and parents of created ones
    TargetOf,       \* the row p updates, or the parent its creation refers to
    KeyOf,          \* idempotency key of p
    NoKey,          \* the key of a local proposal: NULL, never deduplicated
    NoProposal,     \* the "proposal" of a call that has not started
    Engine,         \* the database: "sqlite" or "postgresql"
    Serial,         \* TRUE: a request starts only when no other one runs
    MaxVer          \* bound on the saves a human makes of one target

ASSUME SetsAssumption ==
    /\ Creates \subseteq Proposals
    /\ Preexisting \subseteq Proposals
    /\ NoProposal \notin Proposals
    /\ TargetOf \in [Proposals -> Targets]

\* sha256 over origin, actor, project, action, target and checksum: equal keys
\* mean the same change of the same row.
ASSUME KeyAssumption ==
    /\ DOMAIN KeyOf = Proposals
    /\ \A p, q \in Proposals :
          KeyOf[p] = KeyOf[q] /\ KeyOf[p] # NoKey
             => TargetOf[p] = TargetOf[q] /\ (p \in Creates <=> q \in Creates)

ASSUME PreexistingAssumption ==
    \A p, q \in Preexisting : KeyOf[p] = KeyOf[q] /\ KeyOf[p] # NoKey => p = q

ASSUME EngineAssumption == Engine \in {"sqlite", "postgresql"}
ASSUME SerialAssumption == Serial \in BOOLEAN
ASSUME MaxVerAssumption == MaxVer \in Nat

VARIABLES
    status,     \* committed life-cycle state of each approval row
    base,       \* base_target_fingerprint of the row: a version of its target
    trail,      \* its AuditEvents, each named by the status it reports
    aged,       \* proposals older than APPROVAL_TTL_HOURS
    ver,        \* fingerprint of each target: a new one at every save
    live,       \* the targets that still exist
    done,       \* mutations of canonical data made for each proposal
    call        \* what each request is doing

rows == <<status, base, trail>>
world == <<aged, ver, live, done>>
vars == <<status, base, trail, aged, ver, live, done, call>>

-----------------------------------------------------------------------------
Statuses == {"absent", "pending", "approved", "applying", "failed",
             "applied", "rejected", "expired", "invalidated"}

\* _ACTIVE_STATUSES: the ones covered by the partial unique index.
ActiveStatuses == {"pending", "approved", "applying", "failed"}

\* Mutant: apply() forgets that a proposal must have been reviewed.
ApplicableUnreviewed == {"pending", "approved", "failed"}

\* apply() starts from, and its compare-and-swap demands, one of these.
Applicable == {"approved", "failed"}

Stages == {"new", "inserting", "checking", "writing", "claiming", "claimed",
           "mutating", "rolledBack", "noting", "finished"}

\* A call works for proposal p; "writing" is about to set status "to".
Call == [at : Stages, p : Proposals \cup {NoProposal}, to : Statuses]

At(stage, p, to) == [at |-> stage, p |-> p, to |-> to]

InTx(r) == call[r].at \in {"claimed", "mutating"}

SameKey(p, q) == KeyOf[p] = KeyOf[q] /\ KeyOf[p] # NoKey

\* An open transaction of s makes other writers of row p wait.  SQLite has one
\* writer at a time; PostgreSQL locks the claimed row, and an index entry with
\* the same key waits for the transaction that is changing the other one.
HoldsRow(s, p) ==
    /\ InTx(s)
    /\ \/ Engine = "sqlite"
       \/ call[s].p = p
       \/ SameKey(call[s].p, p)

\* Mutant: the revalidation of apply() does not lock the target row.
HoldsTargetUnlocked(s, t) == Engine = "sqlite" /\ InTx(s)

\* Mutant: approve() locks the target too, and keeps it while it waits for its
\* own row.
HoldsTargetInApprove(s, t) ==
    \/ Engine = "sqlite" /\ InTx(s)
    \/ /\ \/ call[s].at = "mutating"
          \/ call[s].at = "writing" /\ call[s].to = "approved"
       /\ call[s].p \notin Creates
       /\ TargetOf[call[s].p] = t

\* The same of target t: SQLite's single writer, or the FOR UPDATE lock that
\* apply's revalidation takes on the row an update changes.
HoldsTarget(s, t) ==
    \/ Engine = "sqlite" /\ InTx(s)
    \/ /\ call[s].at = "mutating"
       /\ call[s].p \notin Creates
       /\ TargetOf[call[s].p] = t

RowFree(r, p) == \A s \in Requests \ {r} : ~HoldsRow(s, p)
TargetFree(r, t) == \A s \in Requests \ {r} : ~HoldsTarget(s, t)

\* Mutant: a failed row, which apply() can retry, frees its key.
KeyTakenUnlessFailed(p) ==
    \E q \in Proposals \ {p} :
       SameKey(p, q) /\ status[q] \in ActiveStatuses \ {"failed"}

\* The unique index refuses a second active row with p's key.
KeyTaken(p) ==
    \E q \in Proposals \ {p} : SameKey(p, q) /\ status[q] \in ActiveStatuses

\* Mutant: the fingerprint is not compared.
FreshIfAlive(p) == TargetOf[p] \in live

\* _revalidate finds nothing stale: the parent a creation refers to exists;
\* the row an update changes exists and still has the proposal's fingerprint.
Fresh(p) ==
    /\ TargetOf[p] \in live
    /\ p \notin Creates => ver[TargetOf[p]] = base[p]

TypeOK ==
    /\ status \in [Proposals -> Statuses]
    /\ base \in [Proposals -> Nat]
    /\ trail \in [Proposals -> Seq(Statuses)]
    /\ aged \subseteq Proposals
    /\ ver \in [Targets -> Nat]
    /\ live \subseteq Targets
    /\ done \in [Proposals -> Nat]
    /\ call \in [Requests -> Call]
    /\ \A r \in Requests : call[r].at # "new" => call[r].p \in Proposals

Init ==
    /\ status = [p \in Proposals |->
                    IF p \in Preexisting THEN "pending" ELSE "absent"]
    /\ base = [p \in Proposals |-> 0]
    /\ trail = [p \in Proposals |->
                    IF p \in Preexisting THEN <<"pending">> ELSE << >>]
    /\ aged = {}
    /\ ver = [t \in Targets |-> 0]
    /\ live = Targets
    /\ done = [p \in Proposals |-> 0]
    /\ call = [r \in Requests |-> At("new", NoProposal, "absent")]

-----------------------------------------------------------------------------
\* Steps shared by the handlers.

\* A request arrives.
Arrives(r) ==
    /\ call[r].at = "new"
    /\ Serial => \A s \in Requests : call[s].at \in {"new", "finished"}

Goto(r, stage, to) == call' = [call EXCEPT ![r] = At(stage, @.p, to)]

Finish(r) == Goto(r, "finished", "absent")

\* Mutant: the name of the event goes into the status column.
RecordEventName(p, to) ==
    /\ status' = [status EXCEPT ![p] = IF to = "approved" THEN "proposal_approved" ELSE to]
    /\ trail' = [trail EXCEPT ![p] = Append(@, to)]

\* Row p gets status "to" and the AuditEvent of that transition, in one commit.
Record(p, to) ==
    /\ status' = [status EXCEPT ![p] = to]
    /\ trail' = [trail EXCEPT ![p] = Append(@, to)]

-----------------------------------------------------------------------------
\* create_proposal

\* Validates the target and looks the key up.  An active row with the key is
\* returned as it is (the call ends having written nothing).
CreateRead(r, p) ==
    /\ Arrives(r)
    /\ status[p] = "absent"
    /\ \A s \in Requests : call[s].p # p
    /\ TargetOf[p] \in live
    /\ ~KeyTaken(p)
    /\ base' = [base EXCEPT ![p] = IF p \in Creates THEN 0 ELSE ver[TargetOf[p]]]
    /\ call' = [call EXCEPT ![r] = At("inserting", p, "pending")]
    /\ UNCHANGED <<status, trail, world>>

\* INSERT, audit, commit.
CreateCommit(r) ==
    LET p == call[r].p IN
    /\ call[r].at = "inserting"
    /\ RowFree(r, p)
    /\ ~KeyTaken(p)
    /\ Record(p, "pending")
    /\ Finish(r)
    /\ UNCHANGED <<base, world>>

\* The unique index refuses the INSERT: rollback, and the row that won is
\* returned (or the error is raised again if it is already decided).
CreateLoses(r) ==
    /\ call[r].at = "inserting"
    /\ RowFree(r, call[r].p)
    /\ KeyTaken(call[r].p)
    /\ Finish(r)
    /\ UNCHANGED <<rows, world>>

-----------------------------------------------------------------------------
\* approve, reject, invalidate, expire_sweep: read, decide, write.

Decide(r, p, stage, to) ==
    /\ call' = [call EXCEPT ![r] = At(stage, p, to)]
    /\ UNCHANGED <<rows, world>>

ApproveRead(r, p) ==
    /\ Arrives(r)
    /\ status[p] = "pending"
    /\ IF p \in aged THEN Decide(r, p, "writing", "expired")
                     ELSE Decide(r, p, "checking", "absent")

\* _revalidate, without a lock on the target.
ApproveRevalidate(r) ==
    LET p == call[r].p IN
    /\ call[r].at = "checking"
    /\ Decide(r, p, "writing", IF Fresh(p) THEN "approved" ELSE "invalidated")

RejectRead(r, p) ==
    /\ Arrives(r)
    /\ status[p] \in {"pending", "approved"}
    /\ Decide(r, p, "writing", "rejected")

\* Mutant: any decided proposal can be invalidated.
InvalidateReadAny(r, p) ==
    /\ Arrives(r)
    /\ status[p] \notin {"absent", "rejected"}
    /\ Decide(r, p, "writing", "invalidated")

InvalidateRead(r, p) ==
    /\ Arrives(r)
    /\ status[p] \in {"pending", "approved", "failed"}
    /\ Decide(r, p, "writing", "invalidated")

\* One row of a sweep (several rows are several such calls).
SweepRead(r, p) ==
    /\ Arrives(r)
    /\ status[p] \in {"pending", "approved"}
    /\ p \in aged
    /\ Decide(r, p, "writing", "expired")

\* UPDATE ... WHERE id = p: whatever the row's status has become meanwhile.
DecisionCommit(r) ==
    LET p == call[r].p
        to == call[r].to
    IN  /\ call[r].at = "writing"
        /\ RowFree(r, p)
        /\ ~(to \in ActiveStatuses /\ KeyTaken(p))
        /\ Record(p, to)
        /\ Finish(r)
        /\ UNCHANGED <<base, world>>

\* The UPDATE would activate a second row with the key: IntegrityError, 500.
DecisionRefused(r) ==
    /\ call[r].at = "writing"
    /\ RowFree(r, call[r].p)
    /\ call[r].to \in ActiveStatuses
    /\ KeyTaken(call[r].p)
    /\ Finish(r)
    /\ UNCHANGED <<rows, world>>

-----------------------------------------------------------------------------
\* apply

ApplyRead(r, p) ==
    /\ Arrives(r)
    /\ status[p] \in Applicable
    /\ IF p \in aged THEN Decide(r, p, "writing", "expired")
                     ELSE Decide(r, p, "claiming", "absent")

\* Mutant: the claim is committed before the proposal is revalidated.
ApplyClaimCommitted(r) ==
    /\ call[r].at = "claiming"
    /\ RowFree(r, call[r].p)
    /\ status[call[r].p] \in Applicable
    /\ status' = [status EXCEPT ![call[r].p] = "applying"]
    /\ Goto(r, "claimed", "applying")
    /\ UNCHANGED <<base, trail, world>>

\* The compare-and-swap approved|failed -> applying opens the transaction, or
\* finds that somebody else moved the row (409).
ApplyClaim(r) ==
    /\ call[r].at = "claiming"
    /\ RowFree(r, call[r].p)
    /\ IF status[call[r].p] \in Applicable
         THEN Goto(r, "claimed", "applying")
         ELSE Finish(r)
    /\ UNCHANGED <<rows, world>>

\* _revalidate(lock_target=True): a stale proposal is invalidated.
ApplyRevalidate(r) ==
    LET p == call[r].p IN
    /\ call[r].at = "claimed"
    /\ p \notin Creates => TargetFree(r, TargetOf[p])
    /\ IF Fresh(p)
         THEN Goto(r, "mutating", "applied") /\ UNCHANGED rows
         ELSE Record(p, "invalidated") /\ Finish(r) /\ UNCHANGED base
    /\ UNCHANGED world

\* The handler's mutation, the status and the AuditEvent, in one commit.  A
\* created row has a foreign key on its parent, which must still exist.
ApplyCommit(r) ==
    LET p == call[r].p
        t == TargetOf[p]
    IN  /\ call[r].at = "mutating"
        /\ t \in live
        /\ Record(p, "applied")
        /\ done' = [done EXCEPT ![p] = @ + 1]
        /\ ver' = IF p \in Creates THEN ver ELSE [ver EXCEPT ![t] = @ + 1]
        /\ Finish(r)
        /\ UNCHANGED <<base, aged, live>>

\* Mutant: the partial mutation is not rolled back.
ApplyRaiseKeepsMutation(r) ==
    /\ call[r].at = "mutating"
    /\ done' = [done EXCEPT ![call[r].p] = @ + 1]
    /\ Goto(r, "rolledBack", "absent")
    /\ UNCHANGED <<rows, aged, ver, live>>

\* The handler raises (a custom status was deleted, a parent is gone, ...):
\* everything is rolled back, the claim included.
ApplyRaise(r) ==
    /\ call[r].at = "mutating"
    /\ Goto(r, "rolledBack", "absent")
    /\ UNCHANGED <<rows, world>>

\* The row is read again to be marked "failed".  The ORM writes the column only
\* if it differs from what was read.
ApplyReread(r) ==
    /\ call[r].at = "rolledBack"
    /\ Decide(r, call[r].p,
              IF status[call[r].p] = "failed" THEN "noting" ELSE "writing",
              "failed")

\* Only the AuditEvent and the reason are written.
ApplyNote(r) ==
    LET p == call[r].p IN
    /\ call[r].at = "noting"
    /\ RowFree(r, p)
    /\ trail' = [trail EXCEPT ![p] = Append(@, "failed")]
    /\ Finish(r)
    /\ UNCHANGED <<status, base, world>>

-----------------------------------------------------------------------------
\* The rest of the system.

\* The process is killed, the lock is not had within busy_timeout, ...: the
\* request ends and an open transaction is rolled back.
Abort(r) ==
    /\ call[r].at \notin {"new", "finished"}
    /\ Finish(r)
    /\ UNCHANGED <<rows, world>>

\* A human saves a target: its updated_at, hence its fingerprint, is new.
HumanEdit(t) ==
    /\ t \in live
    /\ ver[t] < MaxVer
    /\ \A s \in Requests : ~HoldsTarget(s, t)
    /\ ver' = [ver EXCEPT ![t] = @ + 1]
    /\ UNCHANGED <<rows, aged, live, done, call>>

HumanDelete(t) ==
    /\ t \in live
    /\ \A s \in Requests : ~HoldsTarget(s, t)
    /\ live' = live \ {t}
    /\ UNCHANGED <<rows, aged, ver, done, call>>

\* 24 hours pass.
Age(p) ==
    /\ status[p] # "absent"
    /\ p \notin aged
    /\ aged' = aged \cup {p}
    /\ UNCHANGED <<rows, ver, live, done, call>>

Step(r) ==
    \/ CreateCommit(r) \/ CreateLoses(r)
    \/ ApproveRevalidate(r)
    \/ DecisionCommit(r) \/ DecisionRefused(r)
    \/ ApplyClaim(r) \/ ApplyRevalidate(r) \/ ApplyCommit(r) \/ ApplyRaise(r)
    \/ ApplyReread(r) \/ ApplyNote(r)

Start(r, p) ==
    \/ CreateRead(r, p)
    \/ ApproveRead(r, p) \/ RejectRead(r, p) \/ InvalidateRead(r, p)
    \/ SweepRead(r, p) \/ ApplyRead(r, p)

Next ==
    \/ \E r \in Requests : Step(r) \/ Abort(r)
    \/ \E r \in Requests, p \in Proposals : Start(r, p)
    \/ \E t \in Targets : HumanEdit(t) \/ HumanDelete(t)
    \/ \E p \in Proposals : Age(p)

Spec == Init /\ [][Next]_vars

\* A thread that serves a request keeps running, and a lock that is released is
\* eventually had.  Nothing forces calls to arrive, humans to act or a process
\* to die.
FairSpec == Spec /\ \A r \in Requests : WF_vars(Step(r))

-----------------------------------------------------------------------------
\* Properties

\* The canonical mutation and the "proposal_applied" AuditEvent are atomic: as
\* many of the one as of the other, whatever raises, dies or races (the single
\* commit of apply()).
AppliedEvents(p) == {i \in DOMAIN trail[p] : trail[p][i] = "applied"}

MutationsAreAudited == \A p \in Proposals : done[p] = Cardinality(AppliedEvents(p))

\* The gate: no change reaches canonical data unless a human approved that very
\* proposal before, however the calls on it interleave.
ApprovedBefore(p, n) == \E i \in 1..n : trail[p][i] = "approved"

AppliedOnlyIfApproved ==
    \A p \in Proposals : \A i \in AppliedEvents(p) : ApprovedBefore(p, i - 1)

\* An update proposal changes its target at most once, even when stale calls
\* bring the row back to "approved" or "failed" after it was applied: the
\* fingerprint then refuses it.
UpdatesApplyAtMostOnce == \A p \in Proposals \ Creates : done[p] <= 1

\* An approved update never overwrites an edit made after it was proposed: the
\* target has the version the proposal was made against when it is mutated.
NoEditOverwritten ==
    [][\A p \in Proposals \ Creates :
          done'[p] # done[p] => ver[TargetOf[p]] = base[p] /\ TargetOf[p] \in live
      ]_<<done, ver>>

\* Two proposals with the same idempotency key are never active together, also
\* when a stale call re-activates one.
OneActivePerKey ==
    \A p, q \in Proposals :
       /\ p # q /\ SameKey(p, q)
       /\ status[p] \in ActiveStatuses
       => status[q] \notin ActiveStatuses

\* No row is ever left in "applying", which no call accepts and which blocks its
\* key for ever: the claim is undone when the request dies.
NoStrandedClaim == \A p \in Proposals : status[p] # "applying"

\* The trail tells the row's present state (one request at a time).
TrailTellsStatus ==
    \A p \in Proposals :
       status[p] = IF trail[p] = << >> THEN "absent" ELSE trail[p][Len(trail[p])]

\* One request at a time, the engine is the contract of its docstring.
Contract == INSTANCE ApprovalContract
ImplementsContract == Contract!Spec

\* Every call ends: no lock is waited for in a circle or left behind.
CallsEnd ==
    \A r \in Requests :
       call[r].at \notin {"new", "finished"} ~> call[r].at = "finished"

\* apply()'s docstring: "Atomically apply an approved (or retryable failed)
\* proposal exactly once".
AppliedExactlyOnce == \A p \in Proposals : done[p] <= 1

=============================================================================
