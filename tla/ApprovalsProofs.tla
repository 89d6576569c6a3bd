--------------------------- MODULE ApprovalsProofs ---------------------------
(***************************************************************************)
(* Proofs about Approvals, for every set of requests, proposals and        *)
(* targets, on both databases, serial or not; and about the webhooks that  *)
(* MCPostgres composes with it, for every set of requests, subscriptions   *)
(* and filters, every pool and every number of faults.                     *)
(***************************************************************************)
EXTENDS MCPostgres, MCGate, FiniteSetTheorems, SequenceTheorems, TLAPS

USE SetsAssumption DEF SetsAssumption

-----------------------------------------------------------------------------
(***************************************************************************)
(* Typing                                                                  *)
(***************************************************************************)

CallsTyped ==
    /\ call \in [Requests -> Call]
    /\ \A r \in Requests : call[r].at # "new" => call[r].p \in Proposals

RowsTyped ==
    /\ status \in [Proposals -> Statuses]
    /\ trail \in [Proposals -> Seq(Statuses)]

\* Moving a call to another stage for a proposal keeps the calls well formed.
LEMMA MoveTyped ==
    ASSUME CallsTyped,
           NEW r \in Requests, NEW stage \in Stages,
           NEW p \in Proposals, NEW to \in Statuses,
           call' = [call EXCEPT ![r] = At(stage, p, to)]
    PROVE  CallsTyped'
<1>1. At(stage, p, to) \in Call /\ At(stage, p, to).p \in Proposals
  BY DEF At, Call
<1>2. \A s \in Requests : call'[s] = IF s = r THEN At(stage, p, to) ELSE call[s]
  BY DEF CallsTyped
<1> QED
  BY <1>1, <1>2 DEF CallsTyped

\* A started call works for a proposal, and Goto keeps it.
LEMMA GotoTyped ==
    ASSUME CallsTyped,
           NEW r \in Requests, call[r].at # "new",
           NEW stage \in Stages, NEW to \in Statuses, Goto(r, stage, to)
    PROVE  CallsTyped' /\ call[r].p \in Proposals
<1>1. call[r].p \in Proposals
  BY DEF CallsTyped
<1> QED
  BY <1>1, MoveTyped DEF Goto

LEMMA FinishTyped ==
    ASSUME CallsTyped, NEW r \in Requests, call[r].at # "new", Finish(r)
    PROVE  CallsTyped' /\ call[r].p \in Proposals
BY GotoTyped DEF Finish, Stages, Statuses

LEMMA DecideTyped ==
    ASSUME TypeOK, NEW r \in Requests, NEW p \in Proposals,
           NEW stage \in Stages, NEW to \in Statuses, Decide(r, p, stage, to)
    PROVE  TypeOK'
BY MoveTyped DEF Decide, TypeOK, CallsTyped, rows, world

\* Writing a row keeps the rows well formed.
LEMMA RecordTyped ==
    ASSUME RowsTyped, NEW p \in Proposals, NEW to \in Statuses, Record(p, to)
    PROVE  RowsTyped'
<1>1. Append(trail[p], to) \in Seq(Statuses)
  BY DEF RowsTyped
<1> QED
  BY <1>1 DEF RowsTyped, Record

\* Every variable keeps its type: the rows, the trails and the calls of the
\* engine are well formed in every reachable state.
THEOREM TypeCorrect == Spec => []TypeOK
<1>1. Init => TypeOK
  <2> SUFFICES ASSUME Init PROVE TypeOK
    OBVIOUS
  <2>1. <<"pending">> \in Seq(Statuses) /\ << >> \in Seq(Statuses)
    BY DEF Statuses
  <2>2. trail \in [Proposals -> Seq(Statuses)] /\ status \in [Proposals -> Statuses]
    BY <2>1 DEF Init, Statuses
  <2>3. call \in [Requests -> Call] /\ \A r \in Requests : call[r].at = "new"
    BY DEF Init, Call, At, Stages, Statuses
  <2> QED
    BY <2>2, <2>3 DEF Init, TypeOK
<1>2. TypeOK /\ [Next]_vars => TypeOK'
  <2> SUFFICES ASSUME TypeOK, [Next]_vars PROVE TypeOK'
    OBVIOUS
  <2> USE DEF rows, world
  <2>a. CallsTyped /\ RowsTyped
    BY DEF TypeOK, CallsTyped, RowsTyped
  <2>b. ASSUME CallsTyped', RowsTyped', UNCHANGED <<base, world>> PROVE TypeOK'
    BY <2>b DEF TypeOK, CallsTyped, RowsTyped
  <2> USE DEF Applicable
  <2>c. /\ {"absent", "pending", "approved", "applying", "failed", "applied",
            "rejected", "expired", "invalidated"} = Statuses
        /\ {"inserting", "checking", "writing", "claiming", "claimed", "mutating",
            "rolledBack", "noting", "finished"} \subseteq Stages
    BY DEF Statuses, Stages
  <2>1. ASSUME NEW r \in Requests, Step(r) PROVE TypeOK'
    <3> DEFINE p == call[r].p
    <3>a. call[r].at # "new"
      BY <2>1 DEF Step, CreateCommit, CreateLoses, ApproveRevalidate,
                  DecisionCommit, DecisionRefused, ApplyClaim, ApplyRevalidate,
                  ApplyCommit, ApplyRaise, ApplyReread, ApplyNote
    <3>b. p \in Proposals /\ call[r].to \in Statuses
      BY <3>a DEF TypeOK, Call
    <3>1. CASE CreateCommit(r)
      BY <3>1, <2>a, <2>b, <2>c, <3>a, <3>b, FinishTyped, RecordTyped DEF CreateCommit
    <3>2. CASE CreateLoses(r)
      BY <3>2, <2>a, <2>b, <3>a, FinishTyped DEF CreateLoses, RowsTyped
    <3>3. CASE ApproveRevalidate(r)
      BY <3>3, <2>c, <3>b, DecideTyped DEF ApproveRevalidate
    <3>4. CASE DecisionCommit(r)
      BY <3>4, <2>a, <2>b, <3>a, <3>b, FinishTyped, RecordTyped DEF DecisionCommit
    <3>5. CASE DecisionRefused(r)
      BY <3>5, <2>a, <2>b, <3>a, FinishTyped DEF DecisionRefused, RowsTyped
    <3>6. CASE ApplyClaim(r)
      BY <3>6, <2>a, <2>b, <2>c, <3>a, FinishTyped, GotoTyped
         DEF ApplyClaim, RowsTyped
    <3>7. CASE ApplyRevalidate(r)
      <4>1. CASE Fresh(p)
        BY <3>7, <4>1, <2>a, <2>b, <2>c, <3>a, GotoTyped
           DEF ApplyRevalidate, RowsTyped
      <4>2. CASE ~Fresh(p)
        BY <3>7, <4>2, <2>a, <2>b, <2>c, <3>a, <3>b, FinishTyped, RecordTyped
           DEF ApplyRevalidate
      <4> QED
        BY <4>1, <4>2
    <3>8. CASE ApplyCommit(r)
      <4>1. CallsTyped' /\ RowsTyped'
        BY <3>8, <2>a, <2>c, <3>a, <3>b, FinishTyped, RecordTyped DEF ApplyCommit
      <4>2. ver' \in [Targets -> Nat] /\ done' \in [Proposals -> Nat]
        BY <3>8, <3>b DEF ApplyCommit, TypeOK
      <4> QED
        BY <3>8, <4>1, <4>2 DEF ApplyCommit, TypeOK, CallsTyped, RowsTyped
    <3>9. CASE ApplyRaise(r)
      BY <3>9, <2>a, <2>b, <2>c, <3>a, GotoTyped DEF ApplyRaise, RowsTyped
    <3>10. CASE ApplyReread(r)
      BY <3>10, <2>c, <3>b, DecideTyped DEF ApplyReread
    <3>11. CASE ApplyNote(r)
      <4>1. CallsTyped' /\ Append(trail[p], "failed") \in Seq(Statuses)
        BY <3>11, <2>a, <2>c, <3>a, <3>b, FinishTyped DEF ApplyNote, RowsTyped
      <4>2. RowsTyped'
        BY <3>11, <2>a, <3>b, <4>1 DEF ApplyNote, RowsTyped
      <4> QED
        BY <3>11, <2>b, <4>1, <4>2 DEF ApplyNote
    <3> QED
      BY <2>1, <3>1, <3>2, <3>3, <3>4, <3>5, <3>6, <3>7, <3>8, <3>9, <3>10,
         <3>11 DEF Step
  <2>2. ASSUME NEW r \in Requests, NEW p \in Proposals, Start(r, p) PROVE TypeOK'
    <3>1. CASE CreateRead(r, p)
      <4>1. CallsTyped'
        BY <3>1, <2>a, <2>c, MoveTyped DEF CreateRead
      <4>2. (IF p \in Creates THEN 0 ELSE ver[TargetOf[p]]) \in Nat
        BY DEF TypeOK
      <4> QED
        BY <3>1, <4>1, <4>2 DEF CreateRead, TypeOK, CallsTyped
    <3>2. CASE ~CreateRead(r, p)
      <4>1. \E stage \in Stages, to \in Statuses : Decide(r, p, stage, to)
        BY <2>2, <3>2, <2>c DEF Start, ApproveRead, RejectRead, InvalidateRead,
                                SweepRead, ApplyRead
      <4> QED
        BY <4>1, DecideTyped
    <3> QED
      BY <3>1, <3>2
  <2>3. ASSUME NEW r \in Requests, Abort(r) PROVE TypeOK'
    BY <2>3, <2>a, <2>b, FinishTyped DEF Abort, RowsTyped
  <2>4. ASSUME NEW t \in Targets, HumanEdit(t) PROVE TypeOK'
    <3>1. ver' \in [Targets -> Nat]
      BY <2>4 DEF HumanEdit, TypeOK
    <3> QED
      BY <2>4, <3>1 DEF HumanEdit, TypeOK
  <2>5. ASSUME NEW t \in Targets, HumanDelete(t) PROVE TypeOK'
    BY <2>5 DEF HumanDelete, TypeOK
  <2>6. ASSUME NEW p \in Proposals, Age(p) PROVE TypeOK'
    BY <2>6 DEF Age, TypeOK
  <2>7. CASE UNCHANGED vars
    BY <2>7 DEF vars, TypeOK
  <2> QED
    BY <2>1, <2>2, <2>3, <2>4, <2>5, <2>6, <2>7 DEF Next
<1> QED
  BY <1>1, <1>2, PTL DEF Spec

-----------------------------------------------------------------------------
(***************************************************************************)
(* The gate: what a row, its trail and the canonical data say of each      *)
(* other.  A trail only grows, so "was approved once" is never lost; every *)
(* way into "approved", "failed" or "applied" comes from a call that saw   *)
(* it, and only the commit of apply() writes "applied".                    *)
(***************************************************************************)

Approved(p) == \E i \in DOMAIN trail[p] : trail[p][i] = "approved"

\* r has won the compare-and-swap on its row, and may have rolled back since.
HasClaimed(r) ==
    \/ call[r].at \in {"claimed", "mutating", "rolledBack", "noting"}
    \/ call[r].at = "writing" /\ call[r].to = "failed"

Decisions == {"approved", "rejected", "expired", "invalidated"}

GateInv ==
    /\ \A r \in Requests :
          call[r].at = "writing" => call[r].to \in Decisions \cup {"failed"}
    /\ NoStrandedClaim
    /\ \A p \in Proposals :
          status[p] \in {"approved", "failed", "applied"} => Approved(p)
    /\ \A r \in Requests : HasClaimed(r) => Approved(call[r].p)
    /\ AppliedOnlyIfApproved
    /\ MutationsAreAudited

\* What a step may do to a row: nothing, or one of the commits of the engine.
Untouched(p) ==
    status'[p] = status[p] /\ trail'[p] = trail[p] /\ done'[p] = done[p]

Recorded(p, to) ==
    status'[p] = to /\ trail'[p] = Append(trail[p], to) /\ done'[p] = done[p]

FailureNoted(p) ==
    /\ status'[p] \in {"failed", status[p]}
    /\ trail'[p] = Append(trail[p], "failed")
    /\ done'[p] = done[p]
    /\ \E r \in Requests : HasClaimed(r) /\ call[r].p = p

Applied(p) ==
    /\ status'[p] = "applied"
    /\ trail'[p] = Append(trail[p], "applied")
    /\ done'[p] = done[p] + 1
    /\ \E r \in Requests : call[r].at = "mutating" /\ call[r].p = p

LEMMA RowSteps ==
    ASSUME TypeOK, GateInv, [Next]_vars, NEW p \in Proposals
    PROVE  \/ Untouched(p)
           \/ \E to \in Decisions \cup {"pending"} : Recorded(p, to)
           \/ FailureNoted(p)
           \/ Applied(p)
<1> USE DEF rows, world, Untouched
<1>1. ASSUME NEW r \in Requests, Step(r)
      PROVE  \/ Untouched(p)
             \/ \E to \in Decisions \cup {"pending"} : Recorded(p, to)
             \/ FailureNoted(p)
             \/ Applied(p)
  <2>a. call[r].at # "new" => call[r].p \in Proposals
    BY DEF TypeOK
  <2>b. ASSUME NEW q \in Proposals, NEW to, Record(q, to), UNCHANGED done
        PROVE  Untouched(p) \/ (p = q /\ Recorded(p, to))
    BY <2>b DEF Record, Recorded, TypeOK
  <2>1. CASE CreateCommit(r)
    BY <2>1, <2>a, <2>b DEF CreateCommit
  <2>2. CASE DecisionCommit(r)
    <3>1. call[r].to \in Decisions \cup {"failed"} /\ call[r].p \in Proposals
      BY <2>2, <2>a DEF DecisionCommit, GateInv
    <3>2. CASE call[r].to \in Decisions
      BY <2>2, <2>b, <3>1, <3>2 DEF DecisionCommit
    <3>3. CASE call[r].to = "failed"
      <4>1. HasClaimed(r)
        BY <2>2, <3>3 DEF DecisionCommit, HasClaimed
      <4> QED
        BY <2>2, <2>b, <3>1, <3>3, <4>1
           DEF DecisionCommit, FailureNoted, Recorded
    <3> QED
      BY <3>1, <3>2, <3>3
  <2>3. CASE ApplyRevalidate(r)
    <3>1. CASE Fresh(call[r].p)
      BY <2>3, <3>1 DEF ApplyRevalidate
    <3>2. CASE ~Fresh(call[r].p)
      BY <2>3, <2>a, <2>b, <3>2 DEF ApplyRevalidate, Decisions
    <3> QED
      BY <3>1, <3>2
  <2>4. CASE ApplyCommit(r)
    BY <2>4, <2>a DEF ApplyCommit, Record, Applied, TypeOK
  <2>5. CASE ApplyNote(r)
    <3>1. HasClaimed(r) /\ call[r].p \in Proposals
      BY <2>5, <2>a DEF ApplyNote, HasClaimed
    <3> QED
      BY <2>5, <3>1 DEF ApplyNote, FailureNoted, TypeOK
  <2>6. CASE \/ CreateLoses(r) \/ ApproveRevalidate(r) \/ DecisionRefused(r)
             \/ ApplyClaim(r) \/ ApplyRaise(r) \/ ApplyReread(r)
    BY <2>6 DEF CreateLoses, ApproveRevalidate, DecisionRefused, ApplyClaim,
                ApplyRaise, ApplyReread, Decide
  <2> QED
    BY <1>1, <2>1, <2>2, <2>3, <2>4, <2>5, <2>6 DEF Step
<1>2. ASSUME NEW r \in Requests, NEW q \in Proposals, Start(r, q) PROVE Untouched(p)
  BY <1>2 DEF Start, CreateRead, ApproveRead, RejectRead, InvalidateRead,
              SweepRead, ApplyRead, Decide
<1>3. CASE UNCHANGED <<status, trail, done>>
  BY <1>3
<1> QED
  BY <1>1, <1>2, <1>3
     DEF Next, vars, Abort, HumanEdit, HumanDelete, Age

\* A claim is won on a row that is approved or failed, and nothing but the end
\* of the request takes it away.
LEMMA ClaimSteps ==
    ASSUME TypeOK, GateInv, [Next]_vars, NEW r \in Requests
    PROVE  /\ HasClaimed(r)' =>
                 /\ call'[r].p = call[r].p
                 /\ call[r].p \in Proposals
                 /\ \/ HasClaimed(r)
                    \/ status[call[r].p] \in {"approved", "failed"}
           /\ call'[r].at = "writing" => call'[r].to \in Decisions \cup {"failed"}
<1> USE DEF HasClaimed, At, Decisions, Applicable
<1>a. call \in [Requests -> Call]
  BY DEF TypeOK
<1>b. call[r].at = "writing" => call[r].to \in Decisions \cup {"failed"}
  BY DEF GateInv
<1>c. call[r].at # "new" => call[r].p \in Proposals
  BY DEF TypeOK
<1>1. ASSUME NEW s \in Requests, Step(s), s # r PROVE call'[r] = call[r]
  BY <1>1, <1>a
     DEF Step, CreateCommit, CreateLoses, ApproveRevalidate, DecisionCommit,
         DecisionRefused, ApplyClaim, ApplyRevalidate, ApplyCommit, ApplyRaise,
         ApplyReread, ApplyNote, Finish, Goto, Decide
<1>2. ASSUME NEW s \in Requests, NEW q \in Proposals, Start(s, q), s # r
      PROVE  call'[r] = call[r]
  BY <1>2, <1>a DEF Start, CreateRead, ApproveRead, RejectRead, InvalidateRead,
                    SweepRead, ApplyRead, Decide
<1>3. CASE call'[r] = call[r]
  BY <1>b, <1>c, <1>3
<1>4. CASE Finish(r)
  BY <1>4, <1>a DEF Finish, Goto
<1>5. CASE Step(r) /\ ~Finish(r)
  <2>1. CASE ApproveRevalidate(r)
    BY <2>1, <1>a DEF ApproveRevalidate, Decide
  <2>2. CASE ApplyClaim(r)
    BY <2>2, <1>a, <1>c, <1>5 DEF ApplyClaim, Goto
  <2>3. CASE ApplyRevalidate(r)
    BY <2>3, <1>a, <1>c, <1>5 DEF ApplyRevalidate, Goto
  <2>4. CASE ApplyRaise(r)
    BY <2>4, <1>a, <1>c DEF ApplyRaise, Goto
  <2>5. CASE ApplyReread(r)
    BY <2>5, <1>a, <1>c DEF ApplyReread, Decide
  <2> QED
    BY <1>5, <2>1, <2>2, <2>3, <2>4, <2>5
       DEF Step, CreateCommit, CreateLoses, DecisionCommit, DecisionRefused,
           ApplyCommit, ApplyNote
<1>6. ASSUME NEW q \in Proposals, Start(r, q)
      PROVE  ~HasClaimed(r)' /\ (call'[r].at = "writing" => call'[r].to \in Decisions)
  BY <1>6, <1>a DEF Start, CreateRead, ApproveRead, RejectRead, InvalidateRead,
                    SweepRead, ApplyRead, Decide
<1>7. ASSUME NEW s \in Requests, Abort(s), s # r PROVE call'[r] = call[r]
  BY <1>7, <1>a DEF Abort, Finish, Goto
<1> QED
  <2>1. ASSUME NEW s \in Requests, Step(s) \/ Abort(s)
        PROVE  call'[r] = call[r] \/ Finish(r) \/ (Step(r) /\ ~Finish(r))
    BY <2>1, <1>1, <1>7 DEF Abort
  <2>2. CASE \/ \E t \in Targets : HumanEdit(t) \/ HumanDelete(t)
             \/ \E q \in Proposals : Age(q)
             \/ UNCHANGED vars
    BY <2>2, <1>3 DEF HumanEdit, HumanDelete, Age, vars
  <2>3. ASSUME NEW s \in Requests, NEW q \in Proposals, Start(s, q)
        PROVE  call'[r] = call[r] \/ Start(r, q)
    BY <2>3, <1>2
  <2> QED
    BY <2>1, <2>2, <2>3, <1>3, <1>4, <1>5, <1>6 DEF Next

\* The positions of the "applied" events after an append.
LEMMA AppliedAfterAppend ==
    ASSUME NEW p \in Proposals, trail[p] \in Seq(Statuses),
           NEW e \in Statuses, trail'[p] = Append(trail[p], e)
    PROVE  /\ AppliedEvents(p)' =
                 IF e = "applied" THEN AppliedEvents(p) \cup {Len(trail[p]) + 1}
                                  ELSE AppliedEvents(p)
           /\ Len(trail[p]) + 1 \notin AppliedEvents(p)
           /\ IsFiniteSet(AppliedEvents(p))
           /\ Approved(p) \/ e = "approved" => Approved(p)'
<1> DEFINE n == Len(trail[p])
<1>1. n \in Nat /\ DOMAIN trail[p] = 1..n /\ Len(trail'[p]) = n + 1
  OBVIOUS
<1>2. DOMAIN trail'[p] = 1..(n + 1) /\ trail'[p][n + 1] = e
  OBVIOUS
<1>3. \A i \in 1..n : trail'[p][i] = trail[p][i]
  OBVIOUS
<1>4. AppliedEvents(p)' = {i \in 1..(n + 1) : trail'[p][i] = "applied"}
  BY <1>2 DEF AppliedEvents
<1>5. AppliedEvents(p) = {i \in 1..n : trail[p][i] = "applied"}
  BY <1>1 DEF AppliedEvents
<1>6. IsFiniteSet(AppliedEvents(p))
  <2>1. AppliedEvents(p) \in SUBSET (1..n) /\ IsFiniteSet(1..n)
    BY <1>1, <1>5, FS_Interval
  <2> QED
    BY <2>1, FS_Subset
<1>7. 1..(n + 1) = (1..n) \cup {n + 1} /\ n + 1 \notin 1..n
  BY <1>1
<1>8. Approved(p) \/ e = "approved" => Approved(p)'
  BY <1>1, <1>2, <1>3, <1>7 DEF Approved
<1> HIDE DEF n
<1>9. AppliedEvents(p)' = IF e = "applied" THEN AppliedEvents(p) \cup {n + 1}
                                            ELSE AppliedEvents(p)
  BY <1>2, <1>3, <1>4, <1>5, <1>7
<1> QED
  BY <1>5, <1>6, <1>7, <1>8, <1>9 DEF n

LEMMA GateStep == TypeOK /\ TypeOK' /\ GateInv /\ [Next]_vars => GateInv'
<1> SUFFICES ASSUME TypeOK, TypeOK', GateInv, [Next]_vars PROVE GateInv'
  OBVIOUS
<1> USE DEF Untouched, Recorded, FailureNoted, Applied, Decisions
<1>a. \A p \in Proposals : trail[p] \in Seq(Statuses) /\ done[p] \in Nat
  BY DEF TypeOK
<1>b. {"pending", "approved", "rejected", "expired", "invalidated", "failed",
       "applied"} \subseteq Statuses
  BY DEF Statuses
<1>1. ASSUME NEW p \in Proposals
      PROVE  /\ Approved(p) => Approved(p)'
             /\ status'[p] \in {"approved", "failed", "applied"} => Approved(p)'
             /\ status'[p] # "applying"
             /\ \A i \in AppliedEvents(p)' : ApprovedBefore(p, i - 1)'
             /\ done'[p] = Cardinality(AppliedEvents(p)')
  <2>a. /\ status[p] # "applying"
        /\ status[p] \in {"approved", "failed", "applied"} => Approved(p)
        /\ \A i \in AppliedEvents(p) : ApprovedBefore(p, i - 1)
        /\ done[p] = Cardinality(AppliedEvents(p))
    BY DEF GateInv, NoStrandedClaim, AppliedOnlyIfApproved, MutationsAreAudited
  <2>1. CASE Untouched(p)
    BY <2>1, <2>a DEF Approved, AppliedEvents, ApprovedBefore
  <2>b. ASSUME NEW e \in Statuses, trail'[p] = Append(trail[p], e)
        PROVE  \A i \in AppliedEvents(p) : ApprovedBefore(p, i - 1)'
    <3>1. \A i \in DOMAIN trail[p] : trail'[p][i] = trail[p][i]
      BY <1>a, <2>b
    <3>2. \A i \in AppliedEvents(p) : 1..(i - 1) \subseteq DOMAIN trail[p]
      BY <1>a DEF AppliedEvents
    <3> QED
      BY <2>a, <3>1, <3>2 DEF ApprovedBefore
  <2>2. ASSUME NEW to \in Decisions \cup {"pending"}, Recorded(p, to)
        PROVE  <1>1!2
    <3>1. AppliedEvents(p)' = AppliedEvents(p) /\ (Approved(p) \/ to = "approved" => Approved(p)')
      BY <2>2, <1>a, <1>b, AppliedAfterAppend
    <3> QED
      BY <2>2, <2>a, <2>b, <3>1, <1>b
  <2>3. CASE FailureNoted(p)
    <3>1. AppliedEvents(p)' = AppliedEvents(p) /\ (Approved(p) => Approved(p)')
      BY <2>3, <1>a, <1>b, AppliedAfterAppend
    <3>2. Approved(p)
      BY <2>3 DEF GateInv
    <3> QED
      BY <2>3, <2>a, <2>b, <3>1, <3>2, <1>b
  <2>4. CASE Applied(p)
    <3>1. /\ AppliedEvents(p)' = AppliedEvents(p) \cup {Len(trail[p]) + 1}
          /\ Len(trail[p]) + 1 \notin AppliedEvents(p)
          /\ IsFiniteSet(AppliedEvents(p))
          /\ Approved(p) => Approved(p)'
      BY <2>4, <1>a, <1>b, AppliedAfterAppend
    <3>2. Approved(p)
      BY <2>4 DEF GateInv, HasClaimed
    <3>3. Cardinality(AppliedEvents(p)') = Cardinality(AppliedEvents(p)) + 1
      BY <3>1, FS_AddElement
    <3>4. \A i : i = Len(trail[p]) + 1 => ApprovedBefore(p, i - 1)'
      <4>1. Len(trail[p]) + 1 - 1 = Len(trail[p]) /\ DOMAIN trail[p] = 1..Len(trail[p])
        BY <1>a
      <4>2. \A i \in DOMAIN trail[p] : trail'[p][i] = trail[p][i]
        BY <1>a, <2>4
      <4> QED
        BY <3>2, <4>1, <4>2 DEF Approved, ApprovedBefore
    <3> QED
      BY <2>4, <2>a, <2>b, <3>1, <3>2, <3>3, <3>4, <1>b
  <2> QED
    BY <2>1, <2>2, <2>3, <2>4, RowSteps
<1>2. \A r \in Requests : HasClaimed(r)' => Approved(call[r].p)' /\ call'[r].p = call[r].p
  <2> SUFFICES ASSUME NEW r \in Requests, HasClaimed(r)'
               PROVE  Approved(call[r].p)' /\ call'[r].p = call[r].p
    OBVIOUS
  <2>1. /\ call'[r].p = call[r].p /\ call[r].p \in Proposals
        /\ HasClaimed(r) \/ status[call[r].p] \in {"approved", "failed"}
    BY ClaimSteps
  <2>2. Approved(call[r].p)
    BY <2>1 DEF GateInv
  <2> QED
    BY <2>1, <2>2, <1>1
<1> QED
  BY <1>1, <1>2, ClaimSteps
     DEF GateInv, NoStrandedClaim, AppliedOnlyIfApproved, MutationsAreAudited

LEMMA GateInvariant == Spec => [](TypeOK /\ GateInv)
<1>1. Init => GateInv
  <2> SUFFICES ASSUME Init PROVE GateInv
    OBVIOUS
  <2>1. \A p \in Proposals : AppliedEvents(p) = {}
    BY DEF Init, AppliedEvents
  <2>2. \A p \in Proposals : status[p] \in {"pending", "absent"} /\ done[p] = 0
    BY DEF Init
  <2>3. \A r \in Requests : call[r].at = "new"
    BY DEF Init, At
  <2> QED
    BY <2>1, <2>2, <2>3, FS_EmptySet
       DEF GateInv, HasClaimed, NoStrandedClaim, AppliedOnlyIfApproved,
           MutationsAreAudited
<1> QED
  BY <1>1, TypeCorrect, GateStep, PTL DEF Spec

\* No change reaches canonical data before a human approved that proposal,
\* however many requests race (approve, apply).
THEOREM Gate == Spec => []AppliedOnlyIfApproved
<1>1. GateInv => AppliedOnlyIfApproved
  BY DEF GateInv
<1> QED
  BY <1>1, GateInvariant, PTL

\* Canonical mutations and "proposal_applied" events correspond one to one
\* (the single commit of apply).
THEOREM Audit == Spec => []MutationsAreAudited
<1>1. GateInv => MutationsAreAudited
  BY DEF GateInv
<1> QED
  BY <1>1, GateInvariant, PTL

\* No committed row is ever "applying", whatever request dies when.
THEOREM ClaimsUndone == Spec => []NoStrandedClaim
<1>1. GateInv => NoStrandedClaim
  BY DEF GateInv
<1> QED
  BY <1>1, GateInvariant, PTL

-----------------------------------------------------------------------------
(***************************************************************************)
(* Updates.  A revalidated update holds the lock of its target until the   *)
(* transaction ends, so the target keeps the proposal's fingerprint, and   *)
(* an update that was applied has left an older fingerprint behind.        *)
(***************************************************************************)

Updates == Proposals \ Creates

Updating(r) == call[r].at = "mutating" /\ call[r].p \in Updates

FreshInv ==
    /\ \A r \in Requests : Updating(r) =>
          /\ ver[TargetOf[call[r].p]] = base[call[r].p]
          /\ TargetOf[call[r].p] \in live
    /\ \A r, s \in Requests :
          Updating(r) /\ Updating(s) /\ TargetOf[call[r].p] = TargetOf[call[s].p]
             => r = s
    /\ \A p \in Proposals : status[p] = "absent" => done[p] = 0
    /\ \A p \in Updates : done[p] # 0 => done[p] = 1 /\ base[p] < ver[TargetOf[p]]

\* Only a revalidation makes a call "mutating": the target was free and fresh.
LEMMA MutatingSteps ==
    ASSUME TypeOK, [Next]_vars, NEW r \in Requests, Updating(r)'
    PROVE  /\ call'[r].p = call[r].p
           /\ \/ Updating(r) /\ call'[r] = call[r]
              \/ /\ TargetFree(r, TargetOf[call[r].p])
                 /\ Fresh(call[r].p)
                 /\ UNCHANGED <<base, ver, live>>
                 /\ \A s \in Requests \ {r} : call'[s] = call[s]
<1> USE DEF Updating, At, Finish, Goto, Decide, rows, world
<1>a. call \in [Requests -> Call] /\ call[r].p = call[r].p
  BY DEF TypeOK
<1>1. ASSUME NEW s \in Requests, Step(s), ~ApplyRevalidate(s)
      PROVE  call'[r] = call[r] \/ call'[r].at # "mutating"
  BY <1>1, <1>a
     DEF Step, CreateCommit, CreateLoses, ApproveRevalidate, DecisionCommit,
         DecisionRefused, ApplyClaim, ApplyCommit, ApplyRaise, ApplyReread, ApplyNote
<1>2. ASSUME NEW s \in Requests, NEW q \in Proposals, Start(s, q)
      PROVE  call'[r] = call[r] \/ call'[r].at # "mutating"
  BY <1>2, <1>a DEF Start, CreateRead, ApproveRead, RejectRead, InvalidateRead,
                    SweepRead, ApplyRead
<1>3. ASSUME NEW s \in Requests, ApplyRevalidate(s)
      PROVE  \/ call'[r] = call[r] \/ call'[r].at # "mutating"
             \/ /\ call'[r].p = call[r].p
                /\ call[r].p \notin Creates => TargetFree(r, TargetOf[call[r].p])
                /\ Fresh(call[r].p)
                /\ UNCHANGED <<base, ver, live>>
                /\ \A q \in Requests \ {r} : call'[q] = call[q]
  <2>1. CASE s # r
    BY <1>3, <1>a, <2>1 DEF ApplyRevalidate
  <2>2. CASE s = r /\ Fresh(call[r].p)
    BY <1>3, <1>a, <2>2 DEF ApplyRevalidate
  <2>3. CASE s = r /\ ~Fresh(call[r].p)
    BY <1>3, <1>a, <2>3 DEF ApplyRevalidate
  <2> QED
    BY <2>1, <2>2, <2>3
<1>4. ASSUME NEW s \in Requests, Abort(s)
      PROVE  call'[r] = call[r] \/ call'[r].at # "mutating"
  BY <1>4, <1>a DEF Abort
<1>5. CASE \/ \E t \in Targets : HumanEdit(t) \/ HumanDelete(t)
           \/ \E q \in Proposals : Age(q)
           \/ UNCHANGED vars
  BY <1>5 DEF HumanEdit, HumanDelete, Age, vars
<1>6. call'[r].at = "mutating" /\ call'[r].p \notin Creates
  BY DEF Updates
<1> QED
  BY <1>1, <1>2, <1>3, <1>4, <1>5, <1>6 DEF Next, Updates

\* What a step may do to a target: nothing, a human's save or deletion, which
\* wait for its lock, or the commit of an update.
HumanStep(t) ==
    (\A s \in Requests : ~HoldsTarget(s, t)) /\ UNCHANGED <<base, done, call>>

UpdateStep(r, t) ==
    /\ Updating(r) /\ TargetOf[call[r].p] = t /\ call'[r].at # "mutating"
    /\ ver'[t] = ver[t] + 1
    /\ done' = [done EXCEPT ![call[r].p] = @ + 1]
    /\ UNCHANGED <<base, live>>

LEMMA TargetSteps ==
    ASSUME TypeOK, [Next]_vars, NEW t \in Targets
    PROVE  /\ \/ ver'[t] = ver[t] /\ (t \in live => t \in live')
              \/ HumanStep(t)
              \/ \E r \in Requests : UpdateStep(r, t)
           /\ ver'[t] \in {ver[t], ver[t] + 1}
<1> USE DEF rows, world, TypeOK
<1>1. ASSUME NEW r \in Requests, Step(r), ~ApplyCommit(r)
      PROVE  UNCHANGED <<ver, live>>
  BY <1>1 DEF Step, CreateCommit, CreateLoses, ApproveRevalidate, DecisionCommit,
              DecisionRefused, ApplyClaim, ApplyRevalidate, ApplyRaise,
              ApplyReread, ApplyNote, Decide
<1>2. ASSUME NEW r \in Requests, ApplyCommit(r)
      PROVE  \/ ver'[t] = ver[t] /\ live' = live
             \/ UpdateStep(r, t) /\ ver'[t] = ver[t] + 1
  <2>1. CASE call[r].p \in Creates
    BY <1>2, <2>1 DEF ApplyCommit
  <2>2. CASE call[r].p \notin Creates
    <3>1. call[r].p \in Updates
      BY <1>2, <2>2 DEF ApplyCommit, Updates
    <3>2. call'[r].at # "mutating"
      BY <1>2 DEF ApplyCommit, Finish, Goto, At
    <3> QED
      BY <1>2, <2>2, <3>1, <3>2 DEF ApplyCommit, Updating, UpdateStep
  <2> QED
    BY <2>1, <2>2
<1>3. ASSUME NEW r \in Requests, NEW q \in Proposals, Start(r, q)
      PROVE  UNCHANGED <<ver, live>>
  BY <1>3 DEF Start, CreateRead, ApproveRead, RejectRead, InvalidateRead,
              SweepRead, ApplyRead, Decide
<1>4. ASSUME NEW u \in Targets, HumanEdit(u)
      PROVE  \/ ver'[t] = ver[t] /\ live' = live
             \/ HumanStep(t) /\ ver'[t] = ver[t] + 1
  <2>1. CASE u = t
    BY <1>4, <2>1 DEF HumanEdit, HumanStep
  <2>2. CASE u # t
    BY <1>4, <2>2 DEF HumanEdit
  <2> QED
    BY <2>1, <2>2
<1>5. ASSUME NEW u \in Targets, HumanDelete(u)
      PROVE  ver' = ver /\ ((t \in live => t \in live') \/ HumanStep(t))
  BY <1>5 DEF HumanDelete, HumanStep
<1>6. CASE UNCHANGED <<ver, live>>
  BY <1>6
<1> QED
  BY <1>1, <1>2, <1>3, <1>4, <1>5, <1>6 DEF Next, vars, Abort, Age

\* A row's fingerprint is set before the row exists, while no other call works
\* on it; and an update is made by the commit of a mutating call.
LEMMA BaseSteps ==
    ASSUME TypeOK, [Next]_vars, NEW p \in Updates
    PROVE  /\ \/ base'[p] = base[p]
              \/ status[p] = "absent" /\ done' = done /\ \A s \in Requests : call[s].p # p
           /\ \/ done'[p] = done[p]
              \/ \E r \in Requests : UpdateStep(r, TargetOf[p]) /\ call[r].p = p
<1> USE DEF rows, world, TypeOK, Updates
<1>1. ASSUME NEW r \in Requests, Step(r), ~ApplyCommit(r)
      PROVE  UNCHANGED <<base, done>>
  BY <1>1 DEF Step, CreateCommit, CreateLoses, ApproveRevalidate, DecisionCommit,
              DecisionRefused, ApplyClaim, ApplyRevalidate, ApplyRaise,
              ApplyReread, ApplyNote, Decide
<1>2. ASSUME NEW r \in Requests, ApplyCommit(r)
      PROVE  base' = base /\ (done'[p] = done[p]
                                \/ (UpdateStep(r, TargetOf[p]) /\ call[r].p = p))
  <2>1. base' = base /\ call[r].at = "mutating" /\ call[r].p \in Proposals
    BY <1>2 DEF ApplyCommit
  <2>2. CASE call[r].p # p
    BY <1>2, <2>2 DEF ApplyCommit
  <2>3. CASE call[r].p = p
    <3>1. call'[r].at # "mutating"
      BY <1>2 DEF ApplyCommit, Finish, Goto, At
    <3>2. ver' = [ver EXCEPT ![TargetOf[p]] = @ + 1]
      BY <1>2, <2>3 DEF ApplyCommit
    <3> QED
      BY <1>2, <2>1, <2>3, <3>1, <3>2 DEF ApplyCommit, UpdateStep, Updating
  <2> QED
    BY <2>1, <2>2, <2>3
<1>3. ASSUME NEW r \in Requests, NEW q \in Proposals, Start(r, q)
      PROVE  /\ done' = done
             /\ \/ base'[p] = base[p]
                \/ status[p] = "absent" /\ \A s \in Requests : call[s].p # p
  <2>1. CASE CreateRead(r, q)
    BY <2>1 DEF CreateRead
  <2>2. CASE ~CreateRead(r, q)
    BY <1>3, <2>2 DEF Start, ApproveRead, RejectRead, InvalidateRead, SweepRead,
                      ApplyRead, Decide
  <2> QED
    BY <2>1, <2>2
<1>4. CASE UNCHANGED <<base, done>>
  BY <1>4
<1> QED
  BY <1>1, <1>2, <1>3, <1>4 DEF Next, vars, Abort, HumanEdit, HumanDelete, Age

LEMMA FreshStep == TypeOK /\ TypeOK' /\ GateInv /\ FreshInv /\ [Next]_vars => FreshInv'
<1> SUFFICES ASSUME TypeOK, TypeOK', GateInv, FreshInv, [Next]_vars PROVE FreshInv'
  OBVIOUS
<1>a. \A r \in Requests : Updating(r) =>
         /\ call[r].p \in Updates /\ TargetOf[call[r].p] \in Targets
         /\ HoldsTarget(r, TargetOf[call[r].p])
  BY DEF Updating, Updates, HoldsTarget
<1>1. ASSUME NEW r \in Requests, Updating(r)'
      PROVE  /\ ver'[TargetOf[call'[r].p]] = base'[call'[r].p]
             /\ TargetOf[call'[r].p] \in live'
  <2> DEFINE p == call[r].p
             t == TargetOf[call[r].p]
  <2>1. call'[r].p = p /\ p \in Updates
    BY <1>1, MutatingSteps DEF Updating
  <2>2. CASE Updating(r) /\ call'[r] = call[r]
    <3>1. ver[t] = base[p] /\ t \in live /\ t \in Targets
      BY <1>a, <2>2 DEF FreshInv
    <3>2. base'[p] = base[p]
      BY <2>1, BaseSteps
    <3>3. ~HumanStep(t)
      BY <1>a, <2>2 DEF HumanStep
    <3>4. ASSUME NEW s \in Requests, UpdateStep(s, t) PROVE FALSE
      <4>1. s = r
        BY <2>2, <3>4 DEF UpdateStep, FreshInv
      <4> QED
        BY <1>1, <3>4, <4>1 DEF UpdateStep, Updating
    <3>5. ver'[t] = ver[t] /\ t \in live'
      BY <3>1, <3>3, <3>4, TargetSteps
    <3> QED
      BY <2>1, <3>1, <3>2, <3>5
  <2>3. CASE Fresh(p) /\ UNCHANGED <<base, ver, live>>
    BY <2>1, <2>3 DEF Fresh, Updates
  <2> QED
    BY <1>1, <2>2, <2>3, MutatingSteps
<1>2. ASSUME NEW r \in Requests, NEW s \in Requests, Updating(r)', Updating(s)',
             TargetOf[call'[r].p] = TargetOf[call'[s].p]
      PROVE  r = s
  <2>1. call'[r].p = call[r].p /\ call'[s].p = call[s].p
    BY <1>2, MutatingSteps
  <2>2. CASE Updating(r) /\ Updating(s)
    BY <1>2, <2>1, <2>2 DEF FreshInv
  <2>3. ASSUME NEW u \in Requests, NEW v \in Requests, u # v,
               TargetFree(u, TargetOf[call[u].p]),
               call'[v] = call[v], Updating(v)',
               TargetOf[call[u].p] = TargetOf[call[v].p]
        PROVE  FALSE
    <3>1. Updating(v)
      BY <2>3 DEF Updating
    <3> QED
      BY <2>3, <3>1, <1>a DEF TargetFree
  <2>4. CASE ~Updating(r) \/ ~Updating(s)
    BY <1>2, <2>1, <2>3, <2>4, MutatingSteps
  <2> QED
    BY <2>2, <2>4
<1>3. ASSUME NEW p \in Proposals, status'[p] = "absent" PROVE done'[p] = 0
  <2>1. status[p] = "absent" /\ done'[p] = done[p]
    BY <1>3, RowSteps DEF Untouched, Recorded, FailureNoted, Applied, Decisions
  <2> QED
    BY <2>1 DEF FreshInv
<1>4. ASSUME NEW p \in Updates, done'[p] # 0
      PROVE  done'[p] = 1 /\ base'[p] < ver'[TargetOf[p]]
  <2> DEFINE t == TargetOf[p]
  <2>a. /\ p \in Proposals /\ t \in Targets
        /\ ver[t] \in Nat /\ ver'[t] \in Nat /\ base[p] \in Nat /\ done[p] \in Nat
    BY DEF TypeOK, Updates
  <2>1. CASE done'[p] = done[p]
    <3>1. done[p] = 1 /\ base[p] < ver[t] /\ status[p] # "absent"
      BY <1>4, <2>1, <2>a DEF FreshInv
    <3>2. base'[p] = base[p] /\ ver'[t] \in {ver[t], ver[t] + 1}
      BY <2>a, <3>1, BaseSteps, TargetSteps
    <3> QED
      BY <2>1, <2>a, <3>1, <3>2
  <2>2. ASSUME NEW r \in Requests, UpdateStep(r, t), call[r].p = p
        PROVE  done'[p] = 1 /\ base'[p] < ver'[t]
    <3>1. ver[t] = base[p]
      BY <2>2 DEF UpdateStep, FreshInv
    <3>2. done[p] = 0
      BY <2>a, <3>1 DEF FreshInv
    <3>3. done'[p] = done[p] + 1 /\ ver'[t] = ver[t] + 1 /\ base'[p] = base[p]
      BY <2>2, <2>a DEF UpdateStep, TypeOK
    <3> QED
      BY <2>a, <3>1, <3>2, <3>3
  <2> QED
    BY <2>1, <2>2, BaseSteps
<1> QED
  BY <1>1, <1>2, <1>3, <1>4 DEF FreshInv

LEMMA FreshInvariant == Spec => [](TypeOK /\ GateInv /\ FreshInv)
<1>1. Init => FreshInv
  BY DEF Init, FreshInv, Updating, Updates, At
<1> QED
  BY <1>1, GateInvariant, FreshStep, PTL DEF Spec

\* An update proposal is made on its target at most once, however often stale
\* calls bring its row back to an applicable state (apply, approve).
THEOREM UpdatesOnce == Spec => []UpdatesApplyAtMostOnce
<1>1. TypeOK /\ FreshInv => UpdatesApplyAtMostOnce
  <2> SUFFICES ASSUME FreshInv, NEW p \in Updates PROVE done[p] <= 1
    BY DEF UpdatesApplyAtMostOnce, Updates
  <2>1. done[p] = 0 \/ done[p] = 1
    BY DEF FreshInv
  <2> QED
    BY <2>1
<1> QED
  BY <1>1, FreshInvariant, PTL

\* An approved update is never made over an edit it did not see: the lock taken
\* by the revalidation is held until the commit (apply, _revalidate).
THEOREM EditsSurvive == Spec => NoEditOverwritten
<1>1. TypeOK /\ FreshInv /\ [Next]_vars =>
         [\A p \in Proposals \ Creates :
             done'[p] # done[p] => ver[TargetOf[p]] = base[p] /\ TargetOf[p] \in live
         ]_<<done, ver>>
  <2> SUFFICES ASSUME TypeOK, FreshInv, [Next]_vars, NEW p \in Updates, done'[p] # done[p]
               PROVE  ver[TargetOf[p]] = base[p] /\ TargetOf[p] \in live
    BY DEF Updates
  <2>1. PICK r \in Requests : UpdateStep(r, TargetOf[p]) /\ call[r].p = p
    BY BaseSteps
  <2> QED
    BY <2>1 DEF UpdateStep, FreshInv
<1> QED
  BY <1>1, FreshInvariant, PTL DEF Spec, NoEditOverwritten

-----------------------------------------------------------------------------
(***************************************************************************)
(* Idempotency keys                                                        *)
(***************************************************************************)

LEMMA KeyStep == TypeOK /\ OneActivePerKey /\ [Next]_vars => OneActivePerKey'
<1> SUFFICES ASSUME TypeOK, OneActivePerKey, [Next]_vars PROVE OneActivePerKey'
  OBVIOUS
<1> USE DEF rows, world
<1>1. ASSUME NEW p \in Proposals, NEW to \in Statuses, status' = [status EXCEPT ![p] = to],
             to \in ActiveStatuses => ~KeyTaken(p)
      PROVE  OneActivePerKey'
  BY <1>1 DEF TypeOK, OneActivePerKey, KeyTaken, SameKey
<1>2. CASE status' = status
  BY <1>2 DEF OneActivePerKey
<1>3. ASSUME NEW r \in Requests, Step(r) PROVE OneActivePerKey'
  <2>a. /\ call[r].at # "new" => call[r].p \in Proposals
        /\ call[r].to \in Statuses
    BY DEF TypeOK, Call
  <2>b. {"pending", "applied", "invalidated"} \subseteq Statuses
        /\ {"applied", "invalidated"} \cap ActiveStatuses = {}
    BY DEF Statuses, ActiveStatuses
  <2>1. CASE CreateCommit(r)
    BY <1>1, <2>1, <2>a, <2>b DEF CreateCommit, Record
  <2>2. CASE DecisionCommit(r)
    BY <1>1, <2>2, <2>a DEF DecisionCommit, Record
  <2>3. CASE ApplyRevalidate(r)
    BY <1>1, <1>2, <2>3, <2>a, <2>b DEF ApplyRevalidate, Record
  <2>4. CASE ApplyCommit(r)
    BY <1>1, <2>4, <2>a, <2>b DEF ApplyCommit, Record
  <2> QED
    BY <1>2, <1>3, <2>1, <2>2, <2>3, <2>4
       DEF Step, CreateLoses, ApproveRevalidate, DecisionRefused, ApplyClaim,
           ApplyRaise, ApplyReread, ApplyNote, Decide
<1> QED
  BY <1>2, <1>3 DEF Next, vars, Start, Abort, HumanEdit, HumanDelete, Age, CreateRead,
     ApproveRead, RejectRead, InvalidateRead, SweepRead, ApplyRead, Decide

\* Two proposals of the same change are never active together, whoever races to
\* create or to re-activate them (create_proposal and the partial unique index).
THEOREM KeysUnique == Spec => []OneActivePerKey
<1>1. Init => OneActivePerKey
  BY PreexistingAssumption
     DEF Init, OneActivePerKey, SameKey, ActiveStatuses, PreexistingAssumption
<1> QED
  BY <1>1, TypeCorrect, KeyStep, PTL DEF Spec

-----------------------------------------------------------------------------
(***************************************************************************)
(* Locks: a request waits only for one that is further in its transaction, *)
(* and the last stage of a transaction waits for nobody.                   *)
(***************************************************************************)

Running(r) == call[r].at \notin {"new", "finished"}

\* What the next step of r needs: the row of its proposal, or a lock on the
\* target that its proposal updates.
WritesRow(r) == call[r].at \in {"inserting", "writing", "claiming", "noting"}
LocksTarget(r) == call[r].at = "claimed" /\ call[r].p \notin Creates

WaitsFor(r, s) ==
    /\ s # r
    /\ \/ WritesRow(r) /\ HoldsRow(s, call[r].p)
       \/ LocksTarget(r) /\ HoldsTarget(s, TargetOf[call[r].p])

\* A running request steps once what it needs is free: the guards of the actions
\* of Step ask for nothing else that the stage of the request does not decide.
CanStep(r) ==
    /\ Running(r)
    /\ WritesRow(r) => RowFree(r, call[r].p)
    /\ LocksTarget(r) => TargetFree(r, TargetOf[call[r].p])

\* The stages in which a request has something locked, in their order.
Locked(r) == CASE call[r].at = "claimed" -> 1
               [] call[r].at = "mutating" -> 2
               [] OTHER -> 0

\* Whoever is waited for has locked more than who waits, so that no requests wait
\* in a circle; and when any request is under way, one that is can go on: it, the
\* one it waits for, or the one that one waits for (the claim and the FOR UPDATE of
\* apply, beside the other writers of the row and of its key).
NoCircularWait ==
    /\ \A r, s \in Requests : WaitsFor(r, s) => Locked(r) < Locked(s)
    /\ \A r \in Requests : Running(r) =>
          \/ CanStep(r)
          \/ \E s \in Requests : /\ WaitsFor(r, s)
                                 /\ \/ CanStep(s)
                                    \/ \E u \in Requests : WaitsFor(s, u) /\ CanStep(u)

\* SQLite has one transaction that has written at a time.
OneWriter == Engine = "sqlite" => \A r, s \in Requests : InTx(r) /\ InTx(s) => r = s

\* Every step of a request asks for what CanStep says.
LEMMA StepsAskForLocks == ASSUME NEW r \in Requests, Step(r) PROVE CanStep(r)
BY DEF Step, CreateCommit, CreateLoses, ApproveRevalidate, DecisionCommit,
       DecisionRefused, ApplyClaim, ApplyRevalidate, ApplyCommit, ApplyRaise,
       ApplyReread, ApplyNote, CanStep, Running, WritesRow, LocksTarget

\* Only the claim begins a transaction, when no other one has written.
LEMMA OneWriterStep == TypeOK /\ OneWriter /\ [Next]_vars => OneWriter'
<1> SUFFICES ASSUME TypeOK, OneWriter, [Next]_vars, Engine = "sqlite" PROVE OneWriter'
  BY DEF OneWriter
<1> USE DEF InTx
<1> DEFINE Outside == Stages \ {"claimed", "mutating"}
<1>1. ASSUME NEW r \in Requests, NEW stage \in Outside, NEW p, NEW to,
             call' = [call EXCEPT ![r] = At(stage, p, to)]
      PROVE  OneWriter'
  <2>1. \A s \in Requests : call'[s].at = IF s = r THEN stage ELSE call[s].at
    BY <1>1 DEF TypeOK, At
  <2> QED
    BY <2>1 DEF OneWriter
<1>2. ASSUME NEW r \in Requests, Finish(r) PROVE OneWriter'
  BY <1>1, <1>2 DEF Finish, Goto, Stages
<1>3. ASSUME NEW r \in Requests, Step(r) PROVE OneWriter'
  <2>1. CASE ApplyClaim(r)
    <3>1. \A s \in Requests \ {r} : ~InTx(s)
      BY <2>1 DEF ApplyClaim, RowFree, HoldsRow
    <3>2. \A s \in Requests \ {r} : call'[s] = call[s]
      BY <2>1 DEF TypeOK, ApplyClaim, Finish, Goto
    <3> QED
      BY <3>1, <3>2 DEF OneWriter
  <2>2. CASE ApplyRevalidate(r)
    <3>1. \A s \in Requests \ {r} : call'[s] = call[s]
      BY <2>2 DEF TypeOK, ApplyRevalidate, Finish, Goto
    <3> QED
      BY <2>2, <3>1 DEF ApplyRevalidate, OneWriter
  <2>3. CASE ApproveRevalidate(r) \/ ApplyReread(r)
    <3>1. \E stage \in {"writing", "noting"} : \E to :
             call' = [call EXCEPT ![r] = At(stage, call[r].p, to)]
      BY <2>3 DEF ApproveRevalidate, ApplyReread, Decide
    <3> QED
      BY <1>1, <3>1 DEF Stages
  <2>4. CASE ApplyRaise(r)
    BY <1>1, <2>4 DEF ApplyRaise, Goto, Stages
  <2> QED
    BY <1>2, <1>3, <2>1, <2>2, <2>3, <2>4
       DEF Step, CreateCommit, CreateLoses, DecisionCommit, DecisionRefused,
           ApplyCommit, ApplyNote
<1>4. ASSUME NEW r \in Requests, NEW p \in Proposals, Start(r, p) PROVE OneWriter'
  <2>1. \E stage \in {"inserting", "checking", "writing", "claiming"} : \E to :
           call' = [call EXCEPT ![r] = At(stage, p, to)]
    BY <1>4 DEF Start, CreateRead, ApproveRead, RejectRead, InvalidateRead, SweepRead,
                ApplyRead, Decide
  <2> QED
    BY <1>1, <2>1 DEF Stages
<1>5. CASE UNCHANGED call
  BY <1>5 DEF OneWriter
<1> QED
  BY <1>2, <1>3, <1>4, <1>5 DEF Next, vars, Abort, HumanEdit, HumanDelete, Age

\* Who is waited for has a transaction; who has one waits, if at all, for the lock
\* of a target, and on PostgreSQL.
LEMMA LockOrder == ASSUME OneWriter PROVE NoCircularWait
<1>1. \A r, s \in Requests : WaitsFor(r, s) => InTx(s) /\ ~(call[r].at = "mutating")
  BY DEF WaitsFor, WritesRow, LocksTarget, HoldsRow, HoldsTarget, InTx
<1>2. ASSUME NEW r \in Requests, NEW s \in Requests, WaitsFor(r, s), call[r].at = "claimed"
      PROVE  call[s].at = "mutating"
  <2>1. s # r /\ HoldsTarget(s, TargetOf[call[r].p])
    BY <1>2 DEF WaitsFor, WritesRow
  <2>2. ~(Engine = "sqlite" /\ InTx(s))
    BY <1>2, <2>1 DEF OneWriter, InTx
  <2> QED
    BY <2>1, <2>2 DEF HoldsTarget
<1>3. ASSUME NEW r \in Requests, NEW s \in Requests, WaitsFor(r, s)
      PROVE  Locked(r) < Locked(s)
  <2>1. CASE call[r].at = "claimed"
    BY <1>2, <1>3, <2>1 DEF Locked
  <2>2. CASE call[r].at # "claimed"
    <3>1. Locked(r) = 0
      BY <1>1, <1>3, <2>2 DEF Locked
    <3>2. Locked(s) \in {1, 2}
      BY <1>1, <1>3 DEF Locked, InTx
    <3> QED
      BY <3>1, <3>2
  <2> QED
    BY <2>1, <2>2
<1>4. ASSUME NEW r \in Requests, Running(r), ~CanStep(r)
      PROVE  \E s \in Requests : WaitsFor(r, s)
  BY <1>4 DEF CanStep, WaitsFor, RowFree, TargetFree
<1>5. ASSUME NEW s \in Requests, InTx(s)
      PROVE  \/ CanStep(s)
             \/ \E u \in Requests : WaitsFor(s, u) /\ CanStep(u)
  <2>1. CASE call[s].at = "mutating"
    BY <2>1 DEF CanStep, Running, WritesRow, LocksTarget
  <2>2. CASE call[s].at = "claimed" /\ ~CanStep(s)
    <3>1. PICK u \in Requests : WaitsFor(s, u)
      BY <1>4, <2>2 DEF Running
    <3>2. call[u].at = "mutating"
      BY <1>2, <2>2, <3>1
    <3>3. CanStep(u)
      BY <3>2 DEF CanStep, Running, WritesRow, LocksTarget
    <3> QED
      BY <3>1, <3>3
  <2> QED
    BY <1>5, <2>1, <2>2 DEF InTx
<1>6. ASSUME NEW r \in Requests, Running(r), ~CanStep(r)
      PROVE  \E s \in Requests : /\ WaitsFor(r, s)
                                 /\ \/ CanStep(s)
                                    \/ \E u \in Requests : WaitsFor(s, u) /\ CanStep(u)
  <2>1. PICK s \in Requests : WaitsFor(r, s)
    BY <1>4, <1>6
  <2> QED
    BY <1>1, <1>5, <2>1
<1> QED
  BY <1>3, <1>6 DEF NoCircularWait

\* The locks of the engine are never waited for in a circle, on either database
\* and for any number of requests; SQLite's single writer is why the claimed row
\* and the target cannot be waited for at once there.
THEOREM LocksAreOrdered == Spec => []NoCircularWait
<1>1. Init => OneWriter
  BY DEF Init, OneWriter, InTx, At
<1> QED
  BY <1>1, TypeCorrect, OneWriterStep, LockOrder, PTL DEF Spec

-----------------------------------------------------------------------------
(***************************************************************************)
(* One request at a time, the engine implements ApprovalContract: what a   *)
(* call read is then still so when it writes.                              *)
(***************************************************************************)

\* The states from which the life cycle allows a decision.
Sources(to) ==
    {s \in {"pending", "approved", "failed"} :
        \/ to = "approved" /\ s = "pending"
        \/ to = "rejected" /\ s # "failed"
        \/ to = "failed" /\ s = "approved"
        \/ to \in {"invalidated", "expired"}}

SerialInv ==
    /\ \A r, s \in Requests : Running(r) /\ Running(s) => r = s
    /\ \A r \in Requests :
          /\ call[r].at = "inserting" => status[call[r].p] = "absent"
          /\ call[r].at = "checking" => status[call[r].p] = "pending"
          /\ call[r].at = "writing" => status[call[r].p] \in Sources(call[r].to)
          /\ call[r].at \in {"claiming", "claimed", "mutating", "rolledBack"}
                => status[call[r].p] \in {"approved", "failed"}
          /\ call[r].at = "noting" => status[call[r].p] = "failed"

\* A step of the engine in which no request starts while another one runs.
LoneStart(r, p) == Start(r, p) /\ \A s \in Requests : ~Running(s)
LoneNext ==
    \/ \E r \in Requests : Step(r) \/ Abort(r)
    \/ \E r \in Requests, p \in Proposals : LoneStart(r, p)
    \/ \E t \in Targets : HumanEdit(t) \/ HumanDelete(t)
    \/ \E p \in Proposals : Age(p)

LEMMA SerialIsLone == ASSUME Serial PROVE Next => LoneNext
<1>1. ASSUME NEW r \in Requests, NEW p \in Proposals, Start(r, p) PROVE LoneStart(r, p)
  BY <1>1 DEF Start, Arrives, CreateRead, ApproveRead, RejectRead,
              InvalidateRead, SweepRead, ApplyRead, LoneStart, Running
<1> QED
  BY <1>1 DEF Next, LoneNext

LEMMA SerialStep ==
    ASSUME TypeOK, SerialInv, [LoneNext]_vars
    PROVE  SerialInv'
<1> USE DEF rows, world, At, Running, Applicable
<1>a. call \in [Requests -> Call] /\ status \in [Proposals -> Statuses]
  BY DEF TypeOK
<1>1. ASSUME NEW r \in Requests, Step(r) \/ Abort(r), Finish(r) PROVE SerialInv'
  <2>1. Running(r)
    BY <1>1 DEF Step, Abort, CreateCommit, CreateLoses, ApproveRevalidate,
                DecisionCommit, DecisionRefused, ApplyClaim, ApplyRevalidate,
                ApplyCommit, ApplyRaise, ApplyReread, ApplyNote
  <2>2. \A s \in Requests : ~Running(s)' /\ (s # r => call'[s] = call[s] /\ ~Running(s))
    BY <1>1, <1>a, <2>1 DEF Finish, Goto, SerialInv
  <2> QED
    BY <2>2 DEF SerialInv
<1>2. ASSUME NEW r \in Requests, Step(r), ~Finish(r) PROVE SerialInv'
  <2>1. \/ ApproveRevalidate(r) \/ ApplyClaim(r) \/ ApplyRevalidate(r)
        \/ ApplyRaise(r) \/ ApplyReread(r)
    BY <1>2 DEF Step, CreateCommit, CreateLoses, DecisionCommit, DecisionRefused,
                ApplyCommit, ApplyNote
  <2>2. status' = status /\ Running(r)
    BY <1>2, <2>1 DEF ApproveRevalidate, ApplyClaim, ApplyRevalidate, ApplyRaise,
                      ApplyReread, Decide
  <2>3. \A s \in Requests \ {r} : call'[s] = call[s] /\ ~Running(s)
    BY <1>a, <2>1, <2>2, <1>2
       DEF ApproveRevalidate, ApplyClaim, ApplyRevalidate, ApplyRaise,
           ApplyReread, Decide, Goto, SerialInv
  <2>4. /\ call'[r].at = "inserting" => status'[call'[r].p] = "absent"
        /\ call'[r].at = "checking" => status'[call'[r].p] = "pending"
        /\ call'[r].at = "writing" => status'[call'[r].p] \in Sources(call'[r].to)
        /\ call'[r].at \in {"claiming", "claimed", "mutating", "rolledBack"}
              => status'[call'[r].p] \in {"approved", "failed"}
        /\ call'[r].at = "noting" => status'[call'[r].p] = "failed"
    <3>1. CASE ApproveRevalidate(r)
      BY <3>1, <1>a, <2>2 DEF ApproveRevalidate, Decide, SerialInv, Sources
    <3>2. CASE ApplyClaim(r)
      BY <3>2, <1>a, <1>2, <2>2 DEF ApplyClaim, Goto, SerialInv
    <3>3. CASE ApplyRevalidate(r)
      BY <3>3, <1>a, <1>2, <2>2 DEF ApplyRevalidate, Goto, SerialInv
    <3>4. CASE ApplyRaise(r)
      BY <3>4, <1>a, <2>2 DEF ApplyRaise, Goto, SerialInv
    <3>5. CASE ApplyReread(r)
      BY <3>5, <1>a, <2>2 DEF ApplyReread, Decide, SerialInv, Sources
    <3> QED
      BY <2>1, <3>1, <3>2, <3>3, <3>4, <3>5
  <2> QED
    BY <2>2, <2>3, <2>4 DEF SerialInv
<1>3. ASSUME NEW r \in Requests, NEW p \in Proposals, LoneStart(r, p) PROVE SerialInv'
  <2>0. Start(r, p)
    BY <1>3 DEF LoneStart
  <2>1. \A s \in Requests : ~Running(s)
    BY <1>3 DEF LoneStart
  <2>2. status' = status
    BY <2>0 DEF Start, CreateRead, ApproveRead, RejectRead, InvalidateRead,
                SweepRead, ApplyRead, Decide
  <2>3. \A s \in Requests \ {r} : call'[s] = call[s]
    BY <2>0, <1>a DEF Start, CreateRead, ApproveRead, RejectRead, InvalidateRead,
                      SweepRead, ApplyRead, Decide
  <2>4. /\ call'[r].at = "inserting" => status'[call'[r].p] = "absent"
        /\ call'[r].at = "checking" => status'[call'[r].p] = "pending"
        /\ call'[r].at = "writing" => status'[call'[r].p] \in Sources(call'[r].to)
        /\ call'[r].at \in {"claiming", "claimed", "mutating", "rolledBack"}
              => status'[call'[r].p] \in {"approved", "failed"}
        /\ call'[r].at = "noting" => status'[call'[r].p] = "failed"
    BY <2>0, <1>a, <2>2 DEF Start, CreateRead, ApproveRead, RejectRead,
       InvalidateRead, SweepRead, ApplyRead, Decide, Sources
  <2> QED
    BY <2>1, <2>2, <2>3, <2>4 DEF SerialInv
<1>4. CASE UNCHANGED <<status, call>>
  BY <1>4 DEF SerialInv
<1> QED
  BY <1>1, <1>2, <1>3, <1>4 DEF LoneNext, vars, HumanEdit, HumanDelete, Age, Abort

LEMMA SerialSimulation ==
    ASSUME TypeOK, GateInv, SerialInv, [LoneNext]_vars
    PROVE  Contract!Next \/ UNCHANGED Contract!vars
<1> USE DEF rows, world, Contract!vars, Contract!Next, Contract!Move
<1>1. ASSUME NEW r \in Requests, Step(r) PROVE Contract!Next \/ UNCHANGED Contract!vars
  <2>a. call[r].at # "new" => call[r].p \in Proposals
    BY DEF TypeOK
  <2>1. CASE CreateCommit(r)
    BY <2>1, <2>a DEF CreateCommit, Record, SerialInv, Contract!Propose
  <2>2. CASE DecisionCommit(r)
    <3>1. /\ call[r].to \in Decisions \cup {"failed"} /\ call[r].p \in Proposals
          /\ status[call[r].p] \in Sources(call[r].to)
      BY <2>2, <2>a DEF DecisionCommit, GateInv, SerialInv
    <3>2. status' = [status EXCEPT ![call[r].p] = call[r].to] /\ done' = done
      BY <2>2 DEF DecisionCommit, Record
    <3> QED
      BY <3>1, <3>2 DEF Decisions, Sources, Contract!Approve, Contract!Reject,
         Contract!Invalidate, Contract!Expire, Contract!Fail
  <2>3. CASE ApplyRevalidate(r)
    BY <2>3, <2>a DEF ApplyRevalidate, Record, SerialInv, Contract!Invalidate
  <2>4. CASE ApplyCommit(r)
    BY <2>4, <2>a DEF ApplyCommit, Record, SerialInv, Contract!Apply
  <2> QED
    BY <1>1, <2>1, <2>2, <2>3, <2>4
       DEF Step, CreateLoses, ApproveRevalidate, DecisionRefused, ApplyClaim,
           ApplyRaise, ApplyReread, ApplyNote, Decide
<1> QED
  BY <1>1 DEF LoneNext, LoneStart, vars, Start, Abort, HumanEdit, HumanDelete, Age,
     CreateRead, ApproveRead, RejectRead, InvalidateRead, SweepRead, ApplyRead, Decide

\* The life cycle and the one-time apply of the docstrings, for requests served
\* one at a time: every step of the engine is a step of the contract or none.
THEOREM SerialImplementsContract == ASSUME Serial PROVE Spec => ImplementsContract
<1>1. Init => Contract!Init /\ SerialInv
  BY DEF Init, Contract!Init, SerialInv, Running, At
<1>2. Spec => []SerialInv
  <2>1. TypeOK /\ SerialInv /\ [Next]_vars => SerialInv'
    BY SerialStep, SerialIsLone
  <2> QED
    BY <1>1, <2>1, TypeCorrect, PTL DEF Spec
<1>3. TypeOK /\ GateInv /\ SerialInv /\ [Next]_vars => [Contract!Next]_(Contract!vars)
  BY SerialSimulation, SerialIsLone
<1> QED
  BY <1>1, <1>2, <1>3, GateInvariant, PTL DEF Spec, ImplementsContract, Contract!Spec

\* The contract mutates at most once per proposal, so a serial engine does too.
THEOREM SerialExactlyOnce == ASSUME Serial PROVE Spec => []AppliedExactlyOnce
<1> DEFINE Once == \A p \in Proposals :
                     done[p] = IF status[p] = "applied" THEN 1 ELSE 0
<1>1. Contract!Init => Once
  BY DEF Contract!Init
<1>2. TypeOK /\ Once /\ [Contract!Next]_(Contract!vars) => Once'
  <2> SUFFICES ASSUME TypeOK, Once, [Contract!Next]_(Contract!vars) PROVE Once'
    OBVIOUS
  <2>1. ASSUME NEW p \in Proposals, NEW from, NEW to,
               "applied" \notin from, to # "applied", Contract!Move(p, from, to)
        PROVE  Once'
    BY <2>1 DEF Contract!Move, TypeOK
  <2>2. ASSUME NEW p \in Proposals, Contract!Apply(p) PROVE Once'
    BY <2>2 DEF Contract!Apply, TypeOK
  <2> QED
    BY <2>1, <2>2 DEF Contract!Next, Contract!vars, Contract!Propose,
       Contract!Approve, Contract!Reject, Contract!Invalidate,
       Contract!Expire, Contract!Fail
<1>3. Once => AppliedExactlyOnce
  BY DEF AppliedExactlyOnce
<1> QED
  BY <1>1, <1>2, <1>3, TypeCorrect, SerialImplementsContract, PTL
     DEF ImplementsContract, Contract!Spec

\* The trail of a proposal tells the state of its row.
LEMMA TrailStep ==
    ASSUME TypeOK, SerialInv, TrailTellsStatus, [LoneNext]_vars
    PROVE  TrailTellsStatus'
<1>1. ASSUME NEW p \in Proposals, NEW to \in Statuses,
             status' = [status EXCEPT ![p] = to],
             trail' = [trail EXCEPT ![p] = Append(@, to)]
      PROVE  TrailTellsStatus'
  <2>1. /\ trail'[p] # << >> /\ trail'[p][Len(trail'[p])] = to /\ status'[p] = to
        /\ \A q \in Proposals \ {p} : status'[q] = status[q] /\ trail'[q] = trail[q]
    <3>1. trail[p] \in Seq(Statuses) /\ trail'[p] = Append(trail[p], to)
      BY <1>1 DEF TypeOK
    <3>2. /\ trail'[p] # << >> /\ trail'[p][Len(trail'[p])] = to
      BY <3>1, AppendProperties, EmptySeq
    <3> QED
      BY <1>1, <3>2 DEF TypeOK
  <2> QED
    BY <2>1 DEF TrailTellsStatus
<1>2. CASE UNCHANGED <<status, trail>>
  BY <1>2 DEF TrailTellsStatus
<1>3. ASSUME NEW r \in Requests, Step(r) PROVE TrailTellsStatus'
  <2>1. call[r].at # "new" => call[r].p \in Proposals /\ call[r].to \in Statuses
    BY DEF TypeOK, Call
  <2>2. CASE CreateCommit(r) \/ DecisionCommit(r) \/ ApplyCommit(r)
    BY <1>1, <2>1, <2>2 DEF CreateCommit, DecisionCommit, ApplyCommit, Record, Statuses
  <2>3. CASE ApplyRevalidate(r)
    BY <1>1, <1>2, <2>1, <2>3 DEF ApplyRevalidate, Record, rows, Statuses
  <2>4. CASE ApplyNote(r)
    <3>1. status[call[r].p] = "failed" /\ call[r].p \in Proposals
      BY <2>1, <2>4 DEF ApplyNote, SerialInv
    <3>2. status' = [status EXCEPT ![call[r].p] = "failed"]
      BY <2>4, <3>1 DEF ApplyNote, TypeOK
    <3> QED
      BY <1>1, <2>4, <3>1, <3>2 DEF ApplyNote, Statuses
  <2> QED
    BY <1>2, <1>3, <2>2, <2>3, <2>4
       DEF Step, CreateLoses, ApproveRevalidate, DecisionRefused, ApplyClaim,
           ApplyRaise, ApplyReread, Decide, rows
<1> QED
  BY <1>2, <1>3 DEF LoneNext, LoneStart, vars, rows, Start, Abort, HumanEdit, HumanDelete, Age,
     CreateRead, ApproveRead, RejectRead, InvalidateRead, SweepRead, ApplyRead, Decide

\* The instance with Serial <- TRUE takes the same steps, but for its arrivals.
LEMMA OneIsLone == One!Next => LoneNext /\ Next
<1>1. ASSUME NEW r \in Requests PROVE One!Step(r) => Step(r)
  BY DEF One!Step, Step, One!CreateCommit, CreateCommit, One!CreateLoses, CreateLoses,
         One!ApproveRevalidate, ApproveRevalidate, One!DecisionCommit, DecisionCommit,
         One!DecisionRefused, DecisionRefused, One!ApplyClaim, ApplyClaim,
         One!ApplyRevalidate, ApplyRevalidate, One!ApplyCommit, ApplyCommit,
         One!ApplyRaise, ApplyRaise, One!ApplyReread, ApplyReread, One!ApplyNote, ApplyNote,
         One!RowFree, RowFree, One!TargetFree, TargetFree, One!HoldsRow, HoldsRow,
         One!HoldsTarget, HoldsTarget, One!InTx, InTx, One!SameKey, SameKey,
         One!KeyTaken, KeyTaken, One!Fresh, Fresh, One!Record, Record, One!Decide, Decide,
         One!Finish, Finish, One!Goto, Goto, One!At, At, One!rows, rows, One!world, world,
         One!ActiveStatuses, ActiveStatuses, One!Applicable, Applicable
<1>2. ASSUME NEW r \in Requests PROVE One!Abort(r) => Abort(r)
  BY DEF One!Abort, Abort, One!Finish, Finish, One!Goto, Goto, One!At, At,
         One!rows, rows, One!world, world
<1>3. ASSUME NEW r \in Requests, NEW p \in Proposals
      PROVE  One!Start(r, p) => LoneStart(r, p)
  BY DEF One!Start, Start, LoneStart, Running, One!Arrives, Arrives,
         One!CreateRead, CreateRead, One!ApproveRead, ApproveRead, One!RejectRead, RejectRead,
         One!InvalidateRead, InvalidateRead, One!SweepRead, SweepRead, One!ApplyRead, ApplyRead,
         One!KeyTaken, KeyTaken, One!SameKey, SameKey, One!Decide, Decide, One!At, At,
         One!rows, rows, One!world, world,
         One!ActiveStatuses, ActiveStatuses, One!Applicable, Applicable
<1>4. ASSUME NEW t \in Targets
      PROVE  One!HumanEdit(t) \/ One!HumanDelete(t) => HumanEdit(t) \/ HumanDelete(t)
  BY DEF One!HumanEdit, HumanEdit, One!HumanDelete, HumanDelete, One!HoldsTarget, HoldsTarget,
         One!InTx, InTx, One!rows, rows
<1>5. ASSUME NEW p \in Proposals PROVE One!Age(p) => Age(p)
  BY DEF One!Age, Age, One!rows, rows
<1> QED
  BY <1>1, <1>2, <1>3, <1>4, <1>5 DEF One!Next, LoneNext, LoneStart, Next

\* However the first state chooses, what the gate does is what the engine does.
THEOREM GateOfEngine == GateSpec => Spec
<1>1. [GateNext]_<<vars, serial>> => [Next]_vars
  BY OneIsLone DEF GateNext
<1>2. GateInit => Init
  BY DEF GateInit
<1> QED
  BY <1>1, <1>2, PTL DEF GateSpec, Spec

\* With one call at a time, a step of the engine is a step of its contract, and
\* the trail of audit events of a proposal ends with the state of its row.
THEOREM SerialEngine == GateSpec => SerialImplementation
<1> DEFINE Inv == serial => SerialInv /\ TrailTellsStatus
<1>1. GateInit => Contract!Init /\ Inv
  <2>1. Init => TrailTellsStatus
    BY DEF Init, TrailTellsStatus
  <2> QED
    BY <2>1 DEF GateInit, Init, Contract!Init, SerialInv, Running, At
<1>2. TypeOK /\ Inv /\ [GateNext]_<<vars, serial>> => Inv'
  <2> SUFFICES ASSUME TypeOK, Inv, [GateNext]_<<vars, serial>>, serial' PROVE Inv'
    OBVIOUS
  <2>1. serial /\ [LoneNext]_vars
    BY OneIsLone DEF GateNext
  <2> QED
    BY <2>1, SerialStep, TrailStep
<1>3. TypeOK /\ GateInv /\ Inv /\ [GateNext]_<<vars, serial>>
         => [serial => Contract!Next]_(Contract!vars)
  <2> SUFFICES ASSUME TypeOK, GateInv, Inv, [GateNext]_<<vars, serial>>, serial
               PROVE  Contract!Next \/ UNCHANGED Contract!vars
    OBVIOUS
  <2>1. [LoneNext]_vars
    BY OneIsLone DEF GateNext
  <2> QED
    BY <2>1, SerialSimulation
<1>4. Inv => (serial => TrailTellsStatus)
  OBVIOUS
<1> HIDE DEF Inv
<1> QED
  BY <1>1, <1>2, <1>3, <1>4, GateOfEngine, GateInvariant, PTL DEF GateSpec, SerialImplementation

HIDE SetsAssumption DEF SetsAssumption

-----------------------------------------------------------------------------
(***************************************************************************)
(* The outbound webhooks                                                   *)
(***************************************************************************)

\* The threads that have a job, and the requests about to submit one.
HookBusy == {w \in Workers : worker[w].at # "idle"}
HookSubmits == {r \in W!Calls : wcall[r].at = "submitting"}

\* A delivery that is still to be POSTed, or is being, is in one place.
HookPlaces ==
    /\ \A r \in HookSubmits :
          /\ wcall[r].row \in DOMAIN sent /\ answers[wcall[r].row] = << >>
          /\ \A q \in HookSubmits : wcall[q].row = wcall[r].row => q = r
          /\ \A k \in DOMAIN queue : queue[k] # wcall[r].row
          /\ \A w \in HookBusy : worker[w].row # wcall[r].row
    /\ \A k \in DOMAIN queue :
          /\ answers[queue[k]] = << >>
          /\ \A l \in DOMAIN queue : queue[l] = queue[k] => l = k
          /\ \A w \in HookBusy : worker[w].row # queue[k]
    /\ \A w \in HookBusy :
          /\ \A v \in HookBusy : worker[v].row = worker[w].row => v = w
          /\ worker[w].at = "posting" => answers[worker[w].row] = << >>
          /\ worker[w].at = "answered" => answers[worker[w].row] = <<worker[w].answer>>

\* What is sent around is of changes that have committed, and is not sent yet to
\* those who are still in the loop.
HookCall(r) ==
    /\ wcall[r].at \in {"new", "open", "flushed", "committed"} =>
          \A i \in DOMAIN sent : sent[i].event # r
    /\ r \in Changes /\ wcall[r].at \in {"committed", "dispatching", "submitting"} =>
          /\ r \in committed
          /\ \A i \in DOMAIN sent : sent[i].event = r /\ sent[i].attempt = 1 =>
                sent[i].sub \notin wcall[r].rest
    /\ r \in Changes \ Purges => \A s \in due[r] \cap W!Enabled : r \in Wanted[s] =>
          /\ wcall[r].at \in {"dispatching", "submitting"} => s \in wcall[r].rest \/ W!Reached(r, s)
          /\ wcall[r].at = "done" => W!Reached(r, s)

HookCalls ==
    /\ \A i \in DOMAIN sent : sent[i].attempt # 0
    /\ \A c \in Changes : \A s \in due[c] : sub[s].state # "absent"
    /\ \A r \in W!Calls : HookCall(r)

HookCounts ==
    /\ W!CountsFailures
    /\ \A w \in HookBusy : worker[w].failures <= bad[W!SubOf(w)]

HookInv == W!TypeOK /\ W!OutboxTellsTruth /\ HookPlaces /\ HookCalls /\ HookCounts

\* One delivery at a time, the count is the streak.
HookOne == \A v, w \in HookBusy : v = w

HookLone ==
    /\ HookOne
    /\ \A s \in Subs : sub[s].failures = streak[s]
    /\ \A w \in HookBusy : worker[w].failures = sub[W!SubOf(w)].failures

LEMMA HookTypes ==
    ASSUME W!TypeOK
    PROVE  /\ DOMAIN sent = 1..Len(sent) /\ Len(sent) \in Nat /\ DOMAIN answers = DOMAIN sent
           /\ \A i \in DOMAIN sent :
                 /\ sent[i] \in W!Delivery /\ sent[i].sub \in Subs /\ sent[i].event \in W!Calls
                 /\ sent[i].attempt \in Nat
                 /\ answers[i] \in Seq({"ok", "bad"})
           /\ DOMAIN queue = 1..Len(queue) /\ Len(queue) \in Nat
           /\ \A k \in DOMAIN queue : queue[k] \in DOMAIN sent
           /\ \A r \in W!Calls : wcall[r] \in W!Call /\ wcall[r].rest \subseteq Subs
           /\ \A w \in Workers :
                 /\ worker[w] \in W!Job /\ worker[w].failures \in Nat
                 /\ worker[w].enabled \in BOOLEAN /\ worker[w].row \in Nat
                 /\ worker[w].at # "idle" => /\ worker[w].row \in DOMAIN sent
                                             /\ W!SubOf(w) \in Subs
           /\ \A s \in Subs : sub[s] \in W!Sub /\ sub[s].failures \in Nat
                              /\ bad[s] \in Nat /\ streak[s] \in Nat
           /\ faults \in Nat
<1>1. /\ DOMAIN sent = 1..Len(sent) /\ Len(sent) \in Nat
      /\ \A i \in DOMAIN sent : sent[i] \in W!Delivery
  BY LenProperties, ElementOfSeq DEF W!TypeOK
<1>2. /\ DOMAIN answers = 1..Len(answers) /\ Len(answers) = Len(sent)
      /\ \A i \in DOMAIN answers : answers[i] \in Seq({"ok", "bad"})
  BY LenProperties, ElementOfSeq DEF W!TypeOK
<1>3. /\ DOMAIN queue = 1..Len(queue) /\ Len(queue) \in Nat
      /\ \A k \in DOMAIN queue : queue[k] \in DOMAIN sent
  BY LenProperties, ElementOfSeq DEF W!TypeOK
<1>4. /\ \A i \in DOMAIN sent :
            /\ sent[i].sub \in Subs /\ sent[i].event \in W!Calls /\ sent[i].attempt \in Nat
      /\ \A r \in W!Calls : wcall[r] \in W!Call /\ wcall[r].rest \subseteq Subs
  BY <1>1 DEF W!TypeOK, W!Delivery, W!Call
<1>5. \A w \in Workers :
         /\ worker[w] \in W!Job /\ worker[w].failures \in Nat
         /\ worker[w].enabled \in BOOLEAN /\ worker[w].row \in Nat
         /\ worker[w].at # "idle" => worker[w].row \in DOMAIN sent /\ W!SubOf(w) \in Subs
  BY <1>1, <1>4 DEF W!TypeOK, W!Job, W!SubOf
<1>6. /\ \A s \in Subs : sub[s] \in W!Sub /\ sub[s].failures \in Nat
                         /\ bad[s] \in Nat /\ streak[s] \in Nat
      /\ faults \in Nat
  BY HooksAssumption DEF W!TypeOK, W!Sub
<1> QED
  BY <1>1, <1>2, <1>3, <1>4, <1>5, <1>6

LEMMA HookInit == W!Init => HookInv /\ W!FiredReachesAll /\ HookLone
<1> SUFFICES ASSUME W!Init PROVE HookInv /\ W!FiredReachesAll /\ HookLone
  OBVIOUS
<1>1. /\ DOMAIN sent = {} /\ DOMAIN queue = {} /\ DOMAIN answers = {}
      /\ \A w \in Workers : worker[w] = W!Free
      /\ \A r \in W!Calls : wcall[r] = [at |-> "new", rest |-> {}, row |-> 0]
      /\ \A c \in Changes : due[c] = {}
      /\ \A s \in Subs : sub[s] = [state |-> "absent", failures |-> 0]
                         /\ bad[s] = 0 /\ streak[s] = 0
      /\ committed = {}
  BY DEF W!Init
<1>2. W!Free.at = "idle" /\ W!Free \in W!Job
  BY DEF W!Free, W!Job
<1>3. W!TypeOK
  <2>1. << >> \in Seq(W!Delivery) /\ << >> \in Seq(Seq({"ok", "bad"})) /\ Len(<< >>) = 0
    BY EmptySeq
  <2>2. << >> \in Seq({})
    BY EmptySeq
  <2>3. /\ [at |-> "new", rest |-> {}, row |-> 0] \in W!Call
        /\ [state |-> "absent", failures |-> 0] \in W!Sub
    BY DEF W!Call, W!Sub
  <2> QED
    BY <1>1, <1>2, <2>1, <2>2, <2>3, HooksAssumption DEF W!Init, W!TypeOK
<1>4. HookBusy = {} /\ HookSubmits = {}
  BY <1>1, <1>2 DEF HookBusy, HookSubmits
<1>5. W!OutboxTellsTruth /\ HookPlaces
  BY <1>1, <1>4 DEF W!OutboxTellsTruth, HookPlaces
<1>6. HookCalls /\ W!FiredReachesAll
  BY <1>1 DEF HookCalls, HookCall, W!FiredReachesAll, W!Fired
<1>7. HookCounts /\ HookLone
  BY <1>1, <1>4 DEF HookCounts, W!CountsFailures, HookLone, HookOne
<1> QED
  BY <1>3, <1>5, <1>6, <1>7 DEF HookInv

\* What is left to show when one request goes on and nothing else happens.
LEMMA HookCallGoes ==
    ASSUME HookInv, NEW r \in W!Calls, NEW c \in W!Call,
           wcall' = [wcall EXCEPT ![r] = c], c.at # "submitting",
           UNCHANGED <<sub, sent, answers, queue, worker, bad, streak>>,
           committed \subseteq committed', committed' \subseteq Changes,
           due' \in [Changes -> SUBSET Subs], lost' \subseteq DOMAIN sent,
           faults' \in 0..MaxFaults,
           \A d \in Changes : \A s \in due'[d] : sub[s].state # "absent",
           \A q \in Changes \ {r} : due'[q] = due[q],
           HookCall(r)'
    PROVE  HookInv'
<1>1. /\ wcall' \in [W!Calls -> W!Call] /\ wcall'[r] = c
      /\ \A q \in W!Calls \ {r} : wcall'[q] = wcall[q]
  BY DEF HookInv, W!TypeOK
<1>2. W!TypeOK'
  BY <1>1 DEF HookInv, W!TypeOK
<1>3. W!OutboxTellsTruth'
  BY DEF HookInv, W!OutboxTellsTruth
<1>4. HookPlaces'
  <2>1. HookSubmits' \subseteq HookSubmits /\ \A q \in HookSubmits' : wcall'[q] = wcall[q]
    BY <1>1 DEF HookSubmits
  <2>2. HookPlaces /\ HookBusy' = HookBusy
    BY DEF HookInv, HookBusy
  <2>3. ASSUME NEW q \in HookSubmits'
        PROVE  (/\ wcall[q].row \in DOMAIN sent /\ answers[wcall[q].row] = << >>
                /\ \A p \in HookSubmits : wcall[p].row = wcall[q].row => p = q
                /\ \A k \in DOMAIN queue : queue[k] # wcall[q].row
                /\ \A w \in HookBusy : worker[w].row # wcall[q].row)'
    BY <2>1, <2>2, <2>3 DEF HookPlaces
  <2>4. (\A k \in DOMAIN queue :
            /\ answers[queue[k]] = << >>
            /\ \A l \in DOMAIN queue : queue[l] = queue[k] => l = k
            /\ \A w \in HookBusy : worker[w].row # queue[k])'
    BY <2>2 DEF HookPlaces
  <2>5. (\A w \in HookBusy :
            /\ \A v \in HookBusy : worker[v].row = worker[w].row => v = w
            /\ worker[w].at = "posting" => answers[worker[w].row] = << >>
            /\ worker[w].at = "answered" => answers[worker[w].row] = <<worker[w].answer>>)'
    BY <2>2 DEF HookPlaces
  <2> QED
    BY <2>3, <2>4, <2>5, Zenon DEF HookPlaces
<1>5. HookCounts'
  BY DEF HookInv, HookCounts, W!CountsFailures, HookBusy, W!SubOf
<1>6. \A q \in W!Calls \ {r} : HookCall(q)'
  BY <1>1 DEF HookInv, HookCalls, HookCall, W!Reached, W!Enabled
<1> QED
  BY <1>2, <1>3, <1>4, <1>5, <1>6 DEF HookInv, HookCalls

HookStages ==
    {"new", "open", "flushed", "committed", "dispatching", "submitting", "done", "cut"}

LEMMA HookStage ==
    ASSUME NEW c \in W!Call, NEW stage \in HookStages
    PROVE  \E d \in W!Call : /\ d = [c EXCEPT !.at = stage]
                             /\ d.at = stage /\ d.rest = c.rest /\ d.row = c.row
<1> DEFINE a == [c EXCEPT !.at = stage]
<1>1. a \in W!Call /\ a.at = stage /\ a.rest = c.rest /\ a.row = c.row
  BY DEF W!Call, HookStages
<1> QED
  BY <1>1

HookLooped(c, stage, rest) == [c EXCEPT !.at = stage, !.rest = rest]

LEMMA HookLoop ==
    ASSUME NEW c \in W!Call, NEW stage \in HookStages, NEW rest \in SUBSET Subs
    PROVE  \E d \in W!Call : /\ d = HookLooped(c, stage, rest)
                             /\ d.at = stage /\ d.rest = rest /\ d.row = c.row
<1> DEFINE a == [c EXCEPT !.at = stage]
           b == [a EXCEPT !.rest = rest]
<1>1. a \in W!Call /\ a.at = stage /\ a.rest = c.rest /\ a.row = c.row
  BY DEF W!Call, HookStages
<1>2. b \in W!Call /\ b.at = stage /\ b.rest = rest /\ b.row = c.row
  <2> HIDE DEF a
  <2> QED
    BY <1>1 DEF W!Call
<1>3. b = HookLooped(c, stage, rest)
  BY DEF HookLooped
<1> HIDE DEF a, b
<1> QED
  BY <1>2, <1>3

HookSending(c, rest, n) == [c EXCEPT !.at = "submitting", !.rest = rest, !.row = n]

LEMMA HookSends ==
    ASSUME NEW c \in W!Call, NEW rest \in SUBSET Subs, NEW n \in Nat
    PROVE  \E d \in W!Call :
              /\ d = HookSending(c, rest, n)
              /\ d.at = "submitting" /\ d.rest = rest /\ d.row = n
<1> DEFINE a == [c EXCEPT !.at = "submitting"]
           b == [a EXCEPT !.rest = rest]
           d == [b EXCEPT !.row = n]
<1>1. a \in W!Call /\ a.at = "submitting"
  BY DEF W!Call
<1>2. b \in W!Call /\ b.at = "submitting" /\ b.rest = rest
  <2> HIDE DEF a
  <2> QED
    BY <1>1 DEF W!Call
<1>3. d \in W!Call /\ d.at = "submitting" /\ d.rest = rest /\ d.row = n
  <2> HIDE DEF b
  <2> QED
    BY <1>2 DEF W!Call
<1>4. d = HookSending(c, rest, n)
  BY DEF HookSending
<1> HIDE DEF a, b, d
<1> QED
  BY <1>3, <1>4

LEMMA HookGoto ==
    ASSUME W!TypeOK, NEW r \in W!Calls, NEW stage \in HookStages, W!Goto(r, stage)
    PROVE  \E c \in W!Call : /\ c.at = stage /\ c.rest = wcall[r].rest /\ c.row = wcall[r].row
                             /\ wcall' = [wcall EXCEPT ![r] = c] /\ wcall'[r] = c
                             /\ \A q \in W!Calls \ {r} : wcall'[q] = wcall[q]
<1>0. wcall[r] \in W!Call
  BY HookTypes
<1>1. PICK c \in W!Call : /\ c = [wcall[r] EXCEPT !.at = stage]
                          /\ c.at = stage /\ c.rest = wcall[r].rest /\ c.row = wcall[r].row
  BY <1>0, HookStage
<1>2. wcall' = [wcall EXCEPT ![r] = c]
  BY <1>1 DEF W!Goto, W!TypeOK
<1> QED
  BY <1>1, <1>2 DEF W!TypeOK

LEMMA HookChanges ==
    ASSUME HookInv, NEW c \in Changes,
           W!Write(c) \/ W!Flush(c) \/ W!Commit(c) \/ W!ReadSubs(c) \/ W!Dispatched(c)
    PROVE  HookInv'
<1>0. W!TypeOK /\ HookCalls /\ c \in W!Calls /\ HookCall(c)
      /\ UNCHANGED <<sub, sent, answers, queue, worker, bad, streak, lost, faults>>
  BY DEF HookInv, HookCalls, W!Calls, W!Write, W!Flush, W!Commit, W!ReadSubs, W!Dispatched,
         W!poolVars, W!history
<1>1. CASE W!Write(c) \/ W!Flush(c)
  <2>1. PICK stage \in {"open", "flushed"} :
           /\ W!Goto(c, stage) /\ wcall[c].at \in {"new", "open"}
           /\ UNCHANGED <<committed, due>>
    BY <1>1 DEF W!Write, W!Flush
  <2>2. PICK d \in W!Call : d.at = stage /\ wcall' = [wcall EXCEPT ![c] = d] /\ wcall'[c] = d
    <3>1. stage \in HookStages
      BY DEF HookStages
    <3> QED
      BY <1>0, <2>1, <3>1, HookGoto
  <2>4. HookCall(c)'
    BY <1>0, <2>1, <2>2 DEF HookCall
  <2> QED
    BY <1>0, <2>1, <2>2, <2>4, HookCallGoes DEF HookCalls, W!TypeOK
<1>2. CASE W!Commit(c)
  <2>1. PICK stage \in {"committed", "done"} :
           /\ W!Goto(c, stage) /\ wcall[c].at \in {"open", "flushed"}
           /\ stage = "done" => c \in Purges
           /\ committed' = committed \cup {c} /\ due' = [due EXCEPT ![c] = W!Enabled]
    BY <1>2 DEF W!Commit
  <2>2. PICK d \in W!Call : d.at = stage /\ wcall' = [wcall EXCEPT ![c] = d] /\ wcall'[c] = d
    <3>1. stage \in HookStages
      BY DEF HookStages
    <3> QED
      BY <1>0, <2>1, <3>1, HookGoto
  <2>4. HookCall(c)'
    BY <1>0, <2>1, <2>2 DEF HookCall
  <2>5. /\ due' \in [Changes -> SUBSET Subs] /\ due'[c] = W!Enabled
        /\ \A q \in Changes \ {c} : due'[q] = due[q]
    BY <1>0, <2>1 DEF W!TypeOK, W!Enabled
  <2>6. \A q \in Changes : \A s \in due'[q] : sub[s].state # "absent"
    BY <1>0, <2>5 DEF HookCalls, W!Enabled
  <2> QED
    BY <1>0, <2>1, <2>2, <2>4, <2>5, <2>6, HookCallGoes DEF W!TypeOK
<1>3. CASE W!ReadSubs(c)
  <2>1. wcall' = [wcall EXCEPT ![c].at = "dispatching", ![c].rest = W!Enabled]
        /\ wcall[c].at = "committed" /\ UNCHANGED <<committed, due>>
    BY <1>3 DEF W!ReadSubs
  <2>2. PICK d \in W!Call : d.at = "dispatching" /\ d.rest = W!Enabled
                            /\ wcall' = [wcall EXCEPT ![c] = d]
    <3>1. W!Enabled \in SUBSET Subs /\ "dispatching" \in HookStages /\ wcall[c] \in W!Call
      BY <1>0, HookTypes DEF W!Enabled, HookStages
    <3>2. PICK d \in W!Call : /\ d = HookLooped(wcall[c], "dispatching", W!Enabled)
                              /\ d.at = "dispatching" /\ d.rest = W!Enabled
                              /\ d.row = wcall[c].row
      BY <3>1, HookLoop
    <3>3. wcall' = [wcall EXCEPT ![c] = d]
      BY <1>0, <2>1, <3>2 DEF W!TypeOK, HookLooped
    <3> QED
      BY <3>2, <3>3
  <2>3. wcall'[c] = d
    BY <1>0, <2>2 DEF W!TypeOK
  <2>4. HookCall(c)'
    BY <1>0, <2>1, <2>2, <2>3 DEF HookCall, W!Enabled
  <2> QED
    BY <1>0, <2>1, <2>2, <2>4, HookCallGoes DEF HookCalls, W!TypeOK
<1>4. CASE W!Dispatched(c)
  <2>1. W!Goto(c, "done") /\ wcall[c].at = "dispatching" /\ wcall[c].rest = {}
        /\ UNCHANGED <<committed, due>>
    BY <1>4 DEF W!Dispatched
  <2>2. PICK d \in W!Call : d.at = "done" /\ wcall' = [wcall EXCEPT ![c] = d] /\ wcall'[c] = d
    <3>1. "done" \in HookStages
      BY DEF HookStages
    <3> QED
      BY <1>0, <2>1, <3>1, HookGoto
  <2>4. HookCall(c)'
    BY <1>0, <2>1, <2>2 DEF HookCall, W!Enabled, W!Reached
  <2> QED
    BY <1>0, <2>1, <2>2, <2>4, HookCallGoes DEF HookCalls, W!TypeOK
<1> QED
  BY <1>1, <1>2, <1>3, <1>4

LEMMA HookAborts ==
    ASSUME HookInv, NEW r \in W!Calls, W!Abort(r)
    PROVE  HookInv'
<1>0. W!TypeOK /\ HookCalls /\ UNCHANGED <<sub, sent, answers, queue, worker, bad, streak,
                                           committed, due>>
      /\ W!Goto(r, "cut")
  BY DEF HookInv, W!Abort
<1>1. PICK d \in W!Call : d.at = "cut" /\ wcall' = [wcall EXCEPT ![r] = d] /\ wcall'[r] = d
  <2>1. "cut" \in HookStages
    BY DEF HookStages
  <2> QED
    BY <1>0, <2>1, HookGoto
<1>3. HookCall(r)'
  BY <1>1 DEF HookCall
<1>4. lost' \subseteq DOMAIN sent
  BY DEF W!Abort, HookInv, W!TypeOK, HookPlaces, HookSubmits
<1>5. faults' \in 0..MaxFaults
  BY HookTypes, HooksAssumption DEF W!Abort, W!Fault, HookInv, W!TypeOK
<1> QED
  BY <1>0, <1>1, <1>3, <1>4, <1>5, HookCallGoes DEF HookCalls, W!TypeOK

\* What an INSERT makes of the rows and of the history of their answers.
LEMMA HookAppends ==
    ASSUME W!TypeOK, NEW s \in Subs, NEW e \in W!Calls, NEW n \in Nat, W!Inserted(s, e, n)
    PROVE  /\ sent' \in Seq(W!Delivery) /\ answers' \in Seq(Seq({"ok", "bad"}))
           /\ Len(sent') = Len(sent) + 1 /\ Len(answers') = Len(sent')
           /\ DOMAIN sent' = DOMAIN sent \cup {Len(sent) + 1} /\ Len(sent) + 1 \notin DOMAIN sent
           /\ \A i \in DOMAIN sent : sent'[i] = sent[i] /\ answers'[i] = answers[i]
           /\ sent'[Len(sent) + 1].sub = s /\ sent'[Len(sent) + 1].event = e
           /\ sent'[Len(sent) + 1].attempt = n /\ sent'[Len(sent) + 1].status = "pending"
           /\ answers'[Len(sent) + 1] = << >>
<1> DEFINE row == [sub |-> s, event |-> e, attempt |-> n, status |-> "pending"]
<1>1. row \in W!Delivery /\ row.sub = s /\ row.event = e /\ row.attempt = n
      /\ row.status = "pending"
  BY DEF W!Delivery
<1>2. << >> \in Seq({"ok", "bad"})
  BY EmptySeq
<1>3. sent' = Append(sent, row) /\ answers' = Append(answers, << >>)
  BY DEF W!Inserted
<1> HIDE DEF row
<1>4. /\ sent' \in Seq(W!Delivery) /\ Len(sent') = Len(sent) + 1
      /\ sent'[Len(sent) + 1] = row /\ \A i \in 1..Len(sent) : sent'[i] = sent[i]
  BY <1>1, <1>3, AppendProperties DEF W!TypeOK
<1>5. /\ answers' \in Seq(Seq({"ok", "bad"})) /\ Len(answers') = Len(answers) + 1
      /\ answers'[Len(answers) + 1] = << >>
      /\ \A i \in 1..Len(answers) : answers'[i] = answers[i]
  <2> DEFINE S == Seq({"ok", "bad"})
  <2>1. answers \in Seq(S) /\ << >> \in S
    BY <1>2 DEF W!TypeOK
  <2> HIDE DEF S
  <2>2. /\ answers' \in Seq(S) /\ Len(answers') = Len(answers) + 1
        /\ answers'[Len(answers) + 1] = << >>
        /\ \A i \in 1..Len(answers) : answers'[i] = answers[i]
    BY <2>1, <1>3, AppendProperties
  <2> QED
    BY <2>2 DEF S
<1>6. /\ DOMAIN sent = 1..Len(sent) /\ DOMAIN sent' = 1..(Len(sent) + 1) /\ Len(sent) \in Nat
      /\ Len(answers) = Len(sent)
  BY <1>4, LenProperties DEF W!TypeOK
<1>7. /\ DOMAIN sent' = DOMAIN sent \cup {Len(sent) + 1} /\ Len(sent) + 1 \notin DOMAIN sent
  BY <1>6
<1> QED
  BY <1>1, <1>4, <1>5, <1>6, <1>7

\* What is sent has happened, a first attempt is of the request itself and is the
\* only one, and what is sent again has been sent.
HookMaySend(r, s, e, n) ==
    /\ e \in Changes => e \in committed
    /\ n = 1 => /\ e = r
                /\ \A i \in DOMAIN sent :
                      ~(sent[i].sub = s /\ sent[i].event = e /\ sent[i].attempt = 1)
    /\ e # r => \E i \in DOMAIN sent : sent[i].event = e

\* What is left to show when a request inserts a row it will submit.
LEMMA HookInserts ==
    ASSUME HookInv, NEW r \in W!Calls, NEW s \in Subs, NEW e \in W!Calls, NEW n \in Nat \ {0},
           NEW d \in W!Call, d.at = "submitting", d.row = Len(sent) + 1,
           W!Inserted(s, e, n), wcall' = [wcall EXCEPT ![r] = d],
           UNCHANGED <<sub, committed, due, queue, worker, bad, streak, lost, faults>>,
           HookMaySend(r, s, e, n), HookCall(r)'
    PROVE  HookInv'
<1> DEFINE new == Len(sent) + 1
<1>1. W!TypeOK /\ W!OutboxTellsTruth /\ HookPlaces /\ HookCalls /\ HookCounts
  BY DEF HookInv
<1>0. /\ sent' \in Seq(W!Delivery) /\ answers' \in Seq(Seq({"ok", "bad"}))
      /\ Len(answers') = Len(sent')
  BY <1>1, HookAppends
<1>2. /\ DOMAIN sent' = DOMAIN sent \cup {new} /\ new \notin DOMAIN sent
      /\ \A i \in DOMAIN sent : sent'[i] = sent[i] /\ answers'[i] = answers[i]
      /\ sent'[new].sub = s /\ sent'[new].event = e
      /\ sent'[new].attempt = n /\ sent'[new].status = "pending"
      /\ answers'[new] = << >>
  BY <1>1, HookAppends
<1>3. /\ wcall' \in [W!Calls -> W!Call] /\ wcall'[r] = d
      /\ \A q \in W!Calls \ {r} : wcall'[q] = wcall[q]
  BY <1>1 DEF W!TypeOK
<1>4. d.row = new
  OBVIOUS
<1> HIDE DEF new
<1>5. W!TypeOK'
  <2>1. queue' \in Seq(DOMAIN sent')
    BY <1>1, <1>2, SeqMonotonic DEF W!TypeOK
  <2> QED
    BY <1>0, <1>1, <1>2, <1>3, <2>1 DEF W!TypeOK
<1>6. W!OutboxTellsTruth'
  <2>1. \A i \in DOMAIN sent' : sent'[i].event \in Changes => sent'[i].event \in committed'
    BY <1>1, <1>2 DEF W!OutboxTellsTruth, HookMaySend
  <2>2. ASSUME NEW i \in DOMAIN sent', NEW j \in DOMAIN sent', i # j,
               sent'[i].attempt = 1, sent'[j].attempt = 1
        PROVE  <<sent'[i].sub, sent'[i].event>> # <<sent'[j].sub, sent'[j].event>>
    <3>1. CASE i \in DOMAIN sent /\ j \in DOMAIN sent
      BY <1>1, <1>2, <2>2, <3>1 DEF W!OutboxTellsTruth
    <3>2. CASE i = new
      BY <1>2, <2>2, <3>2 DEF HookMaySend
    <3>3. CASE j = new
      BY <1>2, <2>2, <3>3 DEF HookMaySend
    <3> QED
      BY <1>2, <3>1, <3>2, <3>3
  <2>3. \A i \in DOMAIN sent' : /\ Len(answers'[i]) <= 1
                                /\ sent'[i].status = "delivered" => answers'[i] = <<"ok">>
    <3>1. Len(<< >>) = 0
      BY EmptySeq
    <3> QED
      BY <1>1, <1>2, <3>1 DEF W!OutboxTellsTruth
  <2> QED
    BY <2>1, <2>2, <2>3 DEF W!OutboxTellsTruth
<1>7. HookPlaces'
  <2>0. /\ HookSubmits' \subseteq HookSubmits \cup {r} /\ HookBusy' = HookBusy
        /\ \A q \in HookSubmits' \ {r} : wcall'[q] = wcall[q]
        /\ \A k \in DOMAIN queue : queue[k] \in DOMAIN sent
        /\ \A w \in HookBusy : worker[w].row \in DOMAIN sent
    BY <1>1, <1>3, HookTypes DEF HookSubmits, HookBusy
  <2>1. ASSUME NEW q \in HookSubmits'
        PROVE  /\ wcall'[q].row \in DOMAIN sent' /\ answers'[wcall'[q].row] = << >>
               /\ \A p \in HookSubmits' : wcall'[p].row = wcall'[q].row => p = q
               /\ \A k \in DOMAIN queue : queue[k] # wcall'[q].row
               /\ \A w \in HookBusy : worker[w].row # wcall'[q].row
    <3>1. CASE q = r
      BY <1>1, <1>2, <1>3, <1>4, <2>0, <3>1 DEF HookPlaces
    <3>2. CASE q # r
      BY <1>1, <1>2, <1>3, <1>4, <2>0, <3>2 DEF HookPlaces
    <3> QED
      BY <3>1, <3>2
  <2>2. ASSUME NEW k \in DOMAIN queue
        PROVE  /\ answers'[queue[k]] = << >>
               /\ \A l \in DOMAIN queue : queue[l] = queue[k] => l = k
               /\ \A w \in HookBusy : worker[w].row # queue[k]
    BY <1>1, <1>2, <2>0 DEF HookPlaces
  <2>3. ASSUME NEW w \in HookBusy
        PROVE  /\ \A v \in HookBusy : worker[v].row = worker[w].row => v = w
               /\ worker[w].at = "posting" => answers'[worker[w].row] = << >>
               /\ worker[w].at = "answered" => answers'[worker[w].row] = <<worker[w].answer>>
    <3>1. answers'[worker[w].row] = answers[worker[w].row]
      BY <1>2, <2>0
    <3> QED
      BY <1>1, <3>1 DEF HookPlaces
  <2>4. ASSUME NEW q \in HookSubmits'
        PROVE  (/\ wcall[q].row \in DOMAIN sent /\ answers[wcall[q].row] = << >>
                /\ \A p \in HookSubmits : wcall[p].row = wcall[q].row => p = q
                /\ \A k \in DOMAIN queue : queue[k] # wcall[q].row
                /\ \A w \in HookBusy : worker[w].row # wcall[q].row)'
    BY <2>0, <2>1, <2>4
  <2>5. (\A k \in DOMAIN queue :
            /\ answers[queue[k]] = << >>
            /\ \A l \in DOMAIN queue : queue[l] = queue[k] => l = k
            /\ \A w \in HookBusy : worker[w].row # queue[k])'
    BY <2>0, <2>2
  <2>6. (\A w \in HookBusy :
            /\ \A v \in HookBusy : worker[v].row = worker[w].row => v = w
            /\ worker[w].at = "posting" => answers[worker[w].row] = << >>
            /\ worker[w].at = "answered" => answers[worker[w].row] = <<worker[w].answer>>)'
    BY <2>0, <2>3
  <2> QED
    BY <2>4, <2>5, <2>6, Zenon DEF HookPlaces
<1>8. \A i \in DOMAIN sent' : sent'[i].attempt # 0
  BY <1>1, <1>2 DEF HookCalls
<1>9. ASSUME NEW q \in W!Calls \ {r} PROVE HookCall(q)'
  <2>1. HookCall(q) /\ wcall'[q] = wcall[q] /\ W!Enabled' = W!Enabled
    BY <1>1, <1>3 DEF HookCalls, W!Enabled
  <2>2. wcall[q].at \in {"new", "open", "flushed", "committed"} =>
           \A i \in DOMAIN sent' : sent'[i].event # q
    BY <1>2, <2>1 DEF HookCall, HookMaySend
  <2>3. q \in Changes /\ wcall[q].at \in {"committed", "dispatching", "submitting"} =>
           /\ q \in committed
           /\ \A i \in DOMAIN sent' : sent'[i].event = q /\ sent'[i].attempt = 1 =>
                 sent'[i].sub \notin wcall[q].rest
    BY <1>2, <2>1 DEF HookCall, HookMaySend
  <2>4. \A t \in Subs : W!Reached(q, t) => W!Reached(q, t)'
    BY <1>2 DEF W!Reached
  <2> QED
    BY <1>1, <2>1, <2>2, <2>3, <2>4 DEF HookCall, W!TypeOK
<1>10. HookCalls'
  BY <1>1, <1>8, <1>9 DEF HookCalls
<1>11. HookCounts'
  <2>1. \A w \in HookBusy : W!SubOf(w)' = W!SubOf(w)
    BY <1>1, <1>2, HookTypes DEF W!SubOf, HookBusy
  <2> QED
    BY <1>1, <2>1 DEF HookCounts, W!CountsFailures, HookBusy
<1> QED
  BY <1>5, <1>6, <1>7, <1>10, <1>11 DEF HookInv

\* The next subscription of the loop that is skipped.
LEMMA HookSkips ==
    ASSUME NEW c \in W!Call, NEW rest \in SUBSET Subs
    PROVE  \E d \in W!Call : /\ d = [c EXCEPT !.rest = rest]
                             /\ d.at = c.at /\ d.rest = rest /\ d.row = c.row
<1> DEFINE d == [c EXCEPT !.rest = rest]
<1>1. d \in W!Call /\ d.at = c.at /\ d.rest = rest /\ d.row = c.row
  BY DEF W!Call
<1> QED
  BY <1>1

HookSent(c, n) == [c EXCEPT !.at = "submitting", !.row = n]

LEMMA HookSentOn ==
    ASSUME NEW c \in W!Call, NEW n \in Nat
    PROVE  \E d \in W!Call : d = HookSent(c, n) /\ d.at = "submitting" /\ d.row = n
<1> DEFINE a == [c EXCEPT !.at = "submitting"]
           d == [a EXCEPT !.row = n]
<1>1. a \in W!Call /\ a.at = "submitting"
  BY DEF W!Call
<1>2. d \in W!Call /\ d.at = "submitting" /\ d.row = n
  <2> HIDE DEF a
  <2> QED
    BY <1>1 DEF W!Call
<1>3. d = HookSent(c, n)
  BY DEF HookSent
<1> HIDE DEF a, d
<1> QED
  BY <1>2, <1>3

LEMMA HookQueues ==
    ASSUME HookInv, NEW c \in Changes, NEW s \in Subs, W!Queue(c, s)
    PROVE  HookInv'
<1>0. /\ W!TypeOK /\ HookCalls /\ c \in W!Calls /\ HookCall(c) /\ wcall[c] \in W!Call
      /\ wcall[c].at = "dispatching" /\ s \in wcall[c].rest /\ wcall[c].rest \subseteq Subs
      /\ UNCHANGED <<sub, committed, due, queue, worker, bad, streak, lost, faults>>
  <2>1. W!TypeOK /\ HookCalls /\ c \in W!Calls /\ HookCall(c)
    BY DEF HookInv, HookCalls, W!Calls
  <2> QED
    BY <2>1, HookTypes DEF W!Queue
<1>1. CASE sub[s].state = "deleted"
  <2>1. W!Goto(c, "cut") /\ UNCHANGED <<sent, answers>>
    BY <1>1 DEF W!Queue
  <2>2. PICK d \in W!Call : d.at = "cut" /\ wcall' = [wcall EXCEPT ![c] = d] /\ wcall'[c] = d
    <3>1. "cut" \in HookStages
      BY DEF HookStages
    <3> QED
      BY <1>0, <2>1, <3>1, HookGoto
  <2>3. HookCall(c)'
    BY <2>2 DEF HookCall
  <2> QED
    BY <1>0, <2>1, <2>2, <2>3, HookCallGoes DEF HookCalls, W!TypeOK
<1>2. CASE sub[s].state # "deleted" /\ c \in Wanted[s]
  <2>1. /\ W!Inserted(s, c, 1)
        /\ wcall' = [wcall EXCEPT ![c].at = "submitting",
                                  ![c].rest = @ \ {s}, ![c].row = Len(sent) + 1]
    BY <1>2 DEF W!Queue
  <2>2. PICK d \in W!Call :
           /\ wcall' = [wcall EXCEPT ![c] = d]
           /\ d.at = "submitting" /\ d.rest = wcall[c].rest \ {s} /\ d.row = Len(sent) + 1
    <3>1. wcall[c].rest \ {s} \in SUBSET Subs /\ Len(sent) + 1 \in Nat
      BY <1>0, HookTypes
    <3>2. PICK d \in W!Call :
             /\ d = HookSending(wcall[c], wcall[c].rest \ {s}, Len(sent) + 1)
             /\ d.at = "submitting" /\ d.rest = wcall[c].rest \ {s} /\ d.row = Len(sent) + 1
      BY <1>0, <3>1, HookSends
    <3>3. wcall' = [wcall EXCEPT ![c] = d]
      BY <1>0, <2>1, <3>2 DEF W!TypeOK, HookSending
    <3> QED
      BY <3>2, <3>3
  <2>3. wcall'[c] = d
    BY <1>0, <2>2 DEF W!TypeOK
  <2>4. /\ DOMAIN sent' = DOMAIN sent \cup {Len(sent) + 1}
        /\ \A i \in DOMAIN sent : sent'[i] = sent[i]
        /\ sent'[Len(sent) + 1].sub = s /\ sent'[Len(sent) + 1].event = c
    BY <1>0, <2>1, HookAppends
  <2>5. HookCall(c)'
    <3>1. c \in committed' /\ d.rest \subseteq wcall[c].rest /\ s \notin d.rest
      BY <1>0, <2>2 DEF HookCall
    <3>2. \A i \in DOMAIN sent' : sent'[i].event = c /\ sent'[i].attempt = 1 =>
             sent'[i].sub \notin d.rest
      BY <1>0, <2>4, <3>1 DEF HookCall
    <3>3. W!Reached(c, s)'
      BY <2>4 DEF W!Reached
    <3>4. \A t \in Subs : W!Reached(c, t) => W!Reached(c, t)'
      BY <2>4 DEF W!Reached
    <3>5. c \in Changes \ Purges => \A t \in (due[c] \cap W!Enabled)' : c \in Wanted[t] =>
             t \in d.rest \/ W!Reached(c, t)'
      BY <1>0, <2>2, <3>3, <3>4 DEF HookCall, W!Enabled
    <3> QED
      BY <2>2, <2>3, <3>1, <3>2, <3>5 DEF HookCall
  <2>6. \A i \in DOMAIN sent :
           ~(sent[i].sub = s /\ sent[i].event = c /\ sent[i].attempt = 1)
    BY <1>0 DEF HookCall
  <2>7. HookMaySend(c, s, c, 1) /\ 1 \in Nat \ {0}
    BY <1>0, <2>6 DEF HookCall, HookMaySend
  <2> QED
    BY <1>0, <2>1, <2>2, <2>5, <2>7, HookInserts
<1>3. CASE sub[s].state # "deleted" /\ c \notin Wanted[s]
  <2>1. wcall' = [wcall EXCEPT ![c].rest = @ \ {s}] /\ UNCHANGED <<sent, answers>>
    BY <1>3 DEF W!Queue
  <2>2. PICK d \in W!Call : /\ wcall' = [wcall EXCEPT ![c] = d]
                            /\ d.at = "dispatching" /\ d.rest = wcall[c].rest \ {s}
    <3>1. wcall[c].rest \ {s} \in SUBSET Subs
      BY <1>0
    <3>2. PICK d \in W!Call : /\ d = [wcall[c] EXCEPT !.rest = wcall[c].rest \ {s}]
                              /\ d.at = wcall[c].at /\ d.rest = wcall[c].rest \ {s}
                              /\ d.row = wcall[c].row
      BY <1>0, <3>1, HookSkips
    <3>3. wcall' = [wcall EXCEPT ![c] = d]
      BY <1>0, <2>1, <3>2 DEF W!TypeOK
    <3> QED
      BY <1>0, <3>2, <3>3
  <2>3. wcall'[c] = d
    BY <1>0, <2>2 DEF W!TypeOK
  <2>4. HookCall(c)'
    BY <1>0, <1>3, <2>1, <2>2, <2>3 DEF HookCall, W!Enabled, W!Reached
  <2> QED
    BY <1>0, <2>1, <2>2, <2>4, HookCallGoes DEF HookCalls, W!TypeOK
<1> QED
  BY <1>1, <1>2, <1>3

LEMMA HookSendsAgain ==
    ASSUME HookInv, NEW r \in Others,
           (\E i \in DOMAIN sent : W!Redeliver(r, i)) \/ (\E s \in Subs : W!SendTest(r, s))
    PROVE  HookInv'
<1>0. /\ W!TypeOK /\ HookCalls /\ r \in W!Calls /\ r \notin Changes /\ HookCall(r)
      /\ W!OutboxTellsTruth
  BY HooksAssumption DEF HookInv, HookCalls, W!Calls
<1>1. PICK s \in Subs, e \in W!Calls, n \in Nat \ {0} :
         W!Inserted(s, e, n) /\ HookMaySend(r, s, e, n)
  <2>1. ASSUME NEW i \in DOMAIN sent, W!Redeliver(r, i)
        PROVE  /\ W!Inserted(sent[i].sub, sent[i].event, sent[i].attempt + 1)
               /\ sent[i].sub \in Subs /\ sent[i].event \in W!Calls
               /\ sent[i].attempt + 1 \in Nat \ {0} /\ sent[i].attempt + 1 # 1
               /\ sent[i].event \in Changes => sent[i].event \in committed
    <3>1. sent[i].attempt \in Nat /\ sent[i].attempt # 0
      BY <1>0, HookTypes DEF HookCalls
    <3> QED
      BY <1>0, <2>1, <3>1, HookTypes DEF W!Redeliver, W!OutboxTellsTruth
  <2>2. ASSUME NEW s \in Subs, W!SendTest(r, s)
        PROVE  /\ W!Inserted(s, r, 1)
               /\ \A i \in DOMAIN sent : sent[i].event # r
    BY <1>0, <2>2 DEF W!SendTest, HookCall
  <2>3. CASE \E i \in DOMAIN sent : W!Redeliver(r, i)
    <3>1. PICK i \in DOMAIN sent : W!Redeliver(r, i)
      BY <2>3
    <3>2. HookMaySend(r, sent[i].sub, sent[i].event, sent[i].attempt + 1)
      BY <2>1, <3>1 DEF HookMaySend
    <3> QED
      BY <2>1, <3>1, <3>2
  <2>4. CASE \E s \in Subs : W!SendTest(r, s)
    <3>1. PICK s \in Subs : W!SendTest(r, s)
      BY <2>4
    <3>2. HookMaySend(r, s, r, 1) /\ 1 \in Nat \ {0}
      BY <1>0, <2>2, <3>1 DEF HookMaySend
    <3> QED
      BY <1>0, <2>2, <3>1, <3>2
  <2> QED
    BY <2>3, <2>4
<1>2. /\ wcall' = [wcall EXCEPT ![r].at = "submitting", ![r].row = Len(sent) + 1]
      /\ UNCHANGED <<sub, committed, due, queue, worker, bad, streak, lost, faults>>
  BY DEF W!Redeliver, W!SendTest
<1>3. PICK d \in W!Call : /\ wcall' = [wcall EXCEPT ![r] = d]
                          /\ d.at = "submitting" /\ d.row = Len(sent) + 1
  <2>1. wcall[r] \in W!Call /\ Len(sent) + 1 \in Nat
    BY <1>0, HookTypes
  <2>2. PICK d \in W!Call : /\ d = HookSent(wcall[r], Len(sent) + 1)
                            /\ d.at = "submitting" /\ d.row = Len(sent) + 1
    BY <2>1, HookSentOn
  <2>3. wcall' = [wcall EXCEPT ![r] = d]
    BY <1>0, <1>2, <2>2 DEF W!TypeOK, HookSent
  <2> QED
    BY <2>2, <2>3
<1>4. wcall'[r] = d
  BY <1>0, <1>3 DEF W!TypeOK
<1>5. HookCall(r)'
  BY <1>0, <1>3, <1>4 DEF HookCall
<1> QED
  BY <1>0, <1>1, <1>2, <1>3, <1>5, HookInserts

LEMMA HookSubmitted ==
    ASSUME HookInv, NEW r \in W!Calls, W!Submit(r)
    PROVE  HookInv'
<1> DEFINE row == wcall[r].row
           new == Len(queue) + 1
<1>1. /\ W!TypeOK /\ W!OutboxTellsTruth /\ HookPlaces /\ HookCalls /\ HookCounts
      /\ r \in HookSubmits /\ HookCall(r)
      /\ UNCHANGED <<sub, sent, committed, due, worker, answers, bad, streak, lost, faults>>
  BY DEF HookInv, HookCalls, W!Submit, HookSubmits, W!history
<1>2. PICK d \in W!Call : /\ d.at \in {"dispatching", "done"} /\ d.rest = wcall[r].rest
                          /\ d.at = "done" => r \notin Changes
                          /\ wcall' = [wcall EXCEPT ![r] = d] /\ wcall'[r] = d
                          /\ \A q \in W!Calls \ {r} : wcall'[q] = wcall[q]
  <2>1. PICK stage \in {"dispatching", "done"} :
           W!Goto(r, stage) /\ (stage = "done" => r \notin Changes)
    BY DEF W!Submit
  <2>2. stage \in HookStages
    BY DEF HookStages
  <2> QED
    BY <1>1, <2>1, <2>2, HookGoto
<1>3. row \in DOMAIN sent
  BY <1>1 DEF HookPlaces
<1> HIDE DEF row
<1>4. /\ queue' \in Seq(DOMAIN sent)
      /\ DOMAIN queue' = DOMAIN queue \cup {new} /\ new \notin DOMAIN queue
      /\ queue'[new] = row /\ \A k \in DOMAIN queue : queue'[k] = queue[k]
  <2>1. queue' = Append(queue, row)
    BY DEF W!Submit, row
  <2>2. /\ queue' \in Seq(DOMAIN sent) /\ Len(queue') = Len(queue) + 1
        /\ queue'[Len(queue) + 1] = row /\ \A k \in 1..Len(queue) : queue'[k] = queue[k]
    BY <1>1, <1>3, <2>1, AppendProperties DEF W!TypeOK
  <2>3. /\ DOMAIN queue = 1..Len(queue) /\ DOMAIN queue' = 1..(Len(queue) + 1)
        /\ Len(queue) \in Nat
    BY <1>1, <2>2, LenProperties DEF W!TypeOK
  <2> QED
    BY <2>2, <2>3
<1> HIDE DEF new
<1>5. W!TypeOK'
  BY <1>1, <1>2, <1>4 DEF W!TypeOK
<1>6. W!OutboxTellsTruth'
  BY <1>1 DEF W!OutboxTellsTruth
<1>7. HookPlaces'
  <2>1. /\ HookSubmits' = HookSubmits \ {r} /\ HookBusy' = HookBusy
        /\ \A q \in HookSubmits' : wcall'[q] = wcall[q]
    BY <1>1, <1>2 DEF HookSubmits, HookBusy
  <2>2. /\ answers[row] = << >>
        /\ \A q \in HookSubmits' : wcall[q].row # row
        /\ \A k \in DOMAIN queue : queue[k] # row
        /\ \A w \in HookBusy : worker[w].row # row
    BY <1>1, <2>1 DEF HookPlaces, row
  <2>3. ASSUME NEW q \in HookSubmits'
        PROVE  /\ wcall'[q].row \in DOMAIN sent' /\ answers'[wcall'[q].row] = << >>
               /\ \A p \in HookSubmits' : wcall'[p].row = wcall'[q].row => p = q
               /\ \A k \in DOMAIN queue' : queue'[k] # wcall'[q].row
               /\ \A w \in HookBusy : worker[w].row # wcall'[q].row
    BY <1>1, <1>4, <2>1, <2>2 DEF HookPlaces
  <2>4. ASSUME NEW k \in DOMAIN queue'
        PROVE  /\ answers'[queue'[k]] = << >>
               /\ \A l \in DOMAIN queue' : queue'[l] = queue'[k] => l = k
               /\ \A w \in HookBusy : worker[w].row # queue'[k]
    BY <1>1, <1>4, <2>2 DEF HookPlaces
  <2>5. ASSUME NEW w \in HookBusy
        PROVE  /\ \A v \in HookBusy : worker[v].row = worker[w].row => v = w
               /\ worker[w].at = "posting" => answers'[worker[w].row] = << >>
               /\ worker[w].at = "answered" => answers'[worker[w].row] = <<worker[w].answer>>
    BY <1>1 DEF HookPlaces
  <2> QED
    BY <1>1, <2>1, <2>3, <2>4, <2>5 DEF HookPlaces
<1>8. \A q \in W!Calls : HookCall(q)'
  <2>1. HookCall(r)'
    BY <1>1, <1>2 DEF HookCall, HookSubmits, W!Enabled, W!Reached
  <2>2. \A q \in W!Calls \ {r} : HookCall(q)'
    BY <1>1, <1>2 DEF HookCalls, HookCall, W!Reached, W!Enabled
  <2> QED
    BY <2>1, <2>2
<1>9. HookCalls'
  BY <1>1, <1>8 DEF HookCalls
<1>10. HookCounts'
  BY <1>1 DEF HookCounts, W!CountsFailures, HookBusy, W!SubOf
<1> QED
  BY <1>5, <1>6, <1>7, <1>9, <1>10 DEF HookInv

\* The loops of the requests see of the rows what an outcome does not change.
LEMMA HookCallsOfRows ==
    ASSUME HookCalls, DOMAIN sent' = DOMAIN sent, UNCHANGED <<wcall, committed, due>>,
           \A i \in DOMAIN sent : /\ sent'[i].sub = sent[i].sub /\ sent'[i].event = sent[i].event
                                  /\ sent'[i].attempt = sent[i].attempt,
           \A c \in Changes : \A s \in due[c] : /\ sub'[s].state # "absent"
                                                /\ s \in W!Enabled' => s \in W!Enabled
    PROVE  HookCalls'
<1>1. \A s, r : W!Reached(r, s)' = W!Reached(r, s)
  BY DEF W!Reached
<1>2. ASSUME NEW r \in W!Calls PROVE HookCall(r)'
  <2>1. HookCall(r)
    BY DEF HookCalls
  <2>2. r \in Changes \ Purges => \A s \in due[r] \cap W!Enabled' : r \in Wanted[s] =>
           /\ wcall[r].at \in {"dispatching", "submitting"} =>
                 s \in wcall[r].rest \/ W!Reached(r, s)'
           /\ wcall[r].at = "done" => W!Reached(r, s)'
    BY <1>1, <2>1 DEF HookCall
  <2> QED
    BY <2>1, <2>2 DEF HookCall
<1> QED
  BY <1>2 DEF HookCalls

LEMMA HookOwner ==
    ASSUME HookInv, NEW s \in Subs, W!CreateSubscription(s) \/ W!DeleteSubscription(s)
    PROVE  HookInv'
<1>1. /\ W!TypeOK /\ W!OutboxTellsTruth /\ HookPlaces /\ HookCalls /\ HookCounts
      /\ sub[s] \in W!Sub
      /\ UNCHANGED <<sent, wcall, committed, due, queue, worker, answers, bad, streak,
                     lost, faults>>
  BY HookTypes
  DEF HookInv, W!CreateSubscription, W!DeleteSubscription, W!requestVars, W!poolVars, W!history
<1>2. PICK state \in {"enabled", "deleted"} :
         /\ sub' = [sub EXCEPT ![s].state = state]
         /\ state = "enabled" => sub[s].state = "absent"
  BY DEF W!CreateSubscription, W!DeleteSubscription
<1>3. PICK t \in W!Sub : /\ t = [sub[s] EXCEPT !.state = state]
                         /\ t.state = state /\ t.failures = sub[s].failures
  <2> DEFINE t == [sub[s] EXCEPT !.state = state]
  <2>1. t \in W!Sub /\ t.state = state /\ t.failures = sub[s].failures
    BY <1>1 DEF W!Sub
  <2> QED
    BY <2>1
<1>4. /\ sub' \in [Subs -> W!Sub] /\ sub'[s] = t
      /\ \A u \in Subs \ {s} : sub'[u] = sub[u]
  BY <1>1, <1>2, <1>3 DEF W!TypeOK
<1>5. \A u \in Subs : sub'[u].failures = sub[u].failures
  BY <1>3, <1>4
<1>6. W!TypeOK' /\ W!OutboxTellsTruth' /\ HookPlaces'
  <2>1. W!TypeOK'
    BY <1>1, <1>4 DEF W!TypeOK
  <2>2. W!OutboxTellsTruth'
    BY <1>1 DEF W!OutboxTellsTruth
  <2> QED
    BY <1>1, <2>1, <2>2 DEF HookPlaces, HookSubmits, HookBusy
<1>7. HookCounts'
  BY <1>1, <1>2, <1>3, <1>4, <1>5 DEF HookCounts, W!CountsFailures, HookBusy, W!SubOf
<1>8. HookCalls'
  <2>1. \A c \in Changes : \A u \in due[c] : /\ sub'[u].state # "absent"
                                             /\ u \in W!Enabled' => u \in W!Enabled
    BY <1>1, <1>2, <1>3, <1>4 DEF HookCalls, W!TypeOK, W!Enabled
  <2>2. /\ DOMAIN sent' = DOMAIN sent /\ UNCHANGED <<wcall, committed, due>>
        /\ \A i \in DOMAIN sent : /\ sent'[i].sub = sent[i].sub /\ sent'[i].event = sent[i].event
                                  /\ sent'[i].attempt = sent[i].attempt
    BY <1>1
  <2> QED
    BY <1>1, <2>1, <2>2, HookCallsOfRows
<1> QED
  BY <1>6, <1>7, <1>8 DEF HookInv

\* What a worker that ends leaves of the places.
LEMMA HookFrees ==
    ASSUME W!TypeOK, NEW w \in Workers, worker' = [worker EXCEPT ![w] = W!Free]
    PROVE  /\ worker' \in [Workers -> W!Job] /\ worker'[w].at = "idle"
           /\ HookBusy' = HookBusy \ {w} /\ \A v \in HookBusy' : worker'[v] = worker[v]
<1>1. W!Free \in W!Job /\ W!Free.at = "idle"
  BY DEF W!Free, W!Job
<1>2. worker' \in [Workers -> W!Job] /\ worker'[w] = W!Free
      /\ \A v \in Workers \ {w} : worker'[v] = worker[v]
  BY <1>1 DEF W!TypeOK
<1> QED
  BY <1>1, <1>2 DEF HookBusy

\* What an outcome changes of the rows.
LEMMA HookMarks ==
    ASSUME W!TypeOK, NEW n \in DOMAIN sent, NEW outcome \in {"delivered", "failed"},
           sent' = [sent EXCEPT ![n].status = outcome]
    PROVE  /\ sent' \in Seq(W!Delivery) /\ DOMAIN sent' = DOMAIN sent /\ Len(sent') = Len(sent)
           /\ sent'[n].status = outcome
           /\ \A i \in DOMAIN sent :
                 /\ sent'[i].sub = sent[i].sub /\ sent'[i].event = sent[i].event
                 /\ sent'[i].attempt = sent[i].attempt
                 /\ i # n => sent'[i] = sent[i]
<1>1. /\ DOMAIN sent = 1..Len(sent) /\ Len(sent) \in Nat
      /\ sent[n] \in W!Delivery
  BY HookTypes
<1>2. PICK row \in W!Delivery :
         /\ row = [sent[n] EXCEPT !.status = outcome]
         /\ row.status = outcome /\ row.sub = sent[n].sub /\ row.event = sent[n].event
         /\ row.attempt = sent[n].attempt
  BY <1>1 DEF W!Delivery
<1>3. sent' = [sent EXCEPT ![n] = row]
  BY <1>1, <1>2
<1>4. /\ sent' \in Seq(W!Delivery) /\ Len(sent') = Len(sent)
      /\ \A i \in 1..Len(sent) : sent'[i] = IF i = n THEN row ELSE sent[i]
  <2>1. sent' \in [1..Len(sent) -> W!Delivery]
    BY <1>1, <1>3, LenProperties DEF W!TypeOK
  <2>2. sent' \in Seq(W!Delivery)
    BY <1>1, <2>1, SeqDef
  <2>3. 1..Len(sent') = 1..Len(sent) /\ Len(sent') \in Nat
    BY <2>1, <2>2, LenProperties
  <2>4. Len(sent') = Len(sent)
    BY <1>1, <2>3
  <2> QED
    BY <1>1, <1>3, <2>2, <2>4
<1>5. DOMAIN sent' = 1..Len(sent)
  BY <1>1, <1>3
<1> QED
  BY <1>1, <1>2, <1>4, <1>5

LEMMA HookTakes ==
    ASSUME HookInv, NEW w \in Workers, W!Take(w)
    PROVE  /\ HookInv'
           /\ HookBusy' = HookBusy \cup {w} /\ w \notin HookBusy
           /\ \A v \in HookBusy : worker'[v] = worker[v]
           /\ worker'[w].failures = sub[W!SubOf(w)'].failures
<1> DEFINE row == Head(queue)
           s == sent[row].sub
           job == [at |-> "posting", row |-> row, failures |-> sub[s].failures,
                   enabled |-> sub[s].state = "enabled", answer |-> "bad"]
<1>1. /\ W!TypeOK /\ W!OutboxTellsTruth /\ HookPlaces /\ HookCalls /\ HookCounts
      /\ worker[w].at = "idle" /\ queue # << >>
      /\ UNCHANGED <<sub, sent, wcall, committed, due, answers, bad, streak, lost, faults>>
      /\ worker' = [worker EXCEPT ![w] = job]
  BY DEF HookInv, W!Take, W!requestVars, W!history
<1>2. /\ row = queue[1] /\ 1 \in DOMAIN queue /\ row \in DOMAIN sent
      /\ queue' \in Seq(DOMAIN sent)
      /\ \A k \in DOMAIN queue' : k + 1 \in DOMAIN queue /\ k \in Nat
                                  /\ queue'[k] = queue[k + 1]
  <2>1. /\ queue' = Tail(queue) /\ DOMAIN queue = 1..Len(queue) /\ Len(queue) \in Nat \ {0}
        /\ queue \in Seq(DOMAIN sent)
    BY <1>1, EmptySeq, LenProperties DEF W!Take, W!TypeOK
  <2>2. /\ row \in DOMAIN sent /\ queue' \in Seq(DOMAIN sent)
        /\ Len(queue') = Len(queue) - 1
        /\ \A k \in 1..Len(queue') : queue'[k] = queue[k + 1]
    BY <1>1, <2>1, HeadTailProperties
  <2>3. DOMAIN queue' = 1..Len(queue')
    BY <2>2, LenProperties
  <2>4. row = queue[1]
    BY <2>1
  <2> QED
    BY <2>1, <2>2, <2>3, <2>4
<1> HIDE DEF row
<1>3. s \in Subs /\ sub[s] \in W!Sub /\ sub[s].failures \in Nat /\ sub[s].failures <= bad[s]
  BY <1>1, <1>2, HookTypes DEF HookCounts, W!CountsFailures
<1>4. job \in W!Job /\ job.at = "posting" /\ job.row = row /\ job.failures = sub[s].failures
  <2>1. row \in Nat
    BY <1>1, <1>2, HookTypes
  <2>2. (sub[s].state = "enabled") \in BOOLEAN
    OBVIOUS
  <2> QED
    BY <1>3, <2>1, <2>2 DEF W!Job
<1> HIDE DEF job
<1>5. /\ worker' \in [Workers -> W!Job] /\ worker'[w] = job
      /\ \A v \in Workers \ {w} : worker'[v] = worker[v]
  BY <1>1, <1>4 DEF W!TypeOK
<1>6. /\ HookBusy' = HookBusy \cup {w} /\ w \notin HookBusy
      /\ \A v \in HookBusy : v # w /\ worker'[v] = worker[v]
      /\ HookSubmits' = HookSubmits
  BY <1>1, <1>4, <1>5 DEF HookBusy, HookSubmits
<1>7. W!TypeOK'
  BY <1>1, <1>2, <1>4, <1>5 DEF W!TypeOK
<1>8. W!OutboxTellsTruth'
  BY <1>1 DEF W!OutboxTellsTruth
<1>9. HookPlaces'
  <2>1. /\ answers[row] = << >>
        /\ \A k \in DOMAIN queue' : queue'[k] # row
        /\ \A v \in HookBusy : worker[v].row # row
        /\ \A q \in HookSubmits : wcall[q].row # row
    BY <1>1, <1>2 DEF HookPlaces
  <2>2. ASSUME NEW q \in HookSubmits
        PROVE  /\ wcall[q].row \in DOMAIN sent' /\ answers'[wcall[q].row] = << >>
               /\ \A p \in HookSubmits : wcall[p].row = wcall[q].row => p = q
               /\ \A k \in DOMAIN queue' : queue'[k] # wcall[q].row
               /\ \A v \in HookBusy' : worker'[v].row # wcall[q].row
    BY <1>1, <1>2, <1>4, <1>5, <1>6, <2>1 DEF HookPlaces
  <2>3. ASSUME NEW k \in DOMAIN queue'
        PROVE  /\ answers'[queue'[k]] = << >>
               /\ \A l \in DOMAIN queue' : queue'[l] = queue'[k] => l = k
               /\ \A v \in HookBusy' : worker'[v].row # queue'[k]
    <3>1. \A l \in DOMAIN queue' : queue'[l] = queue'[k] => l = k
      <4>1. SUFFICES ASSUME NEW l \in DOMAIN queue', queue'[l] = queue'[k] PROVE l = k
        OBVIOUS
      <4>2. l + 1 = k + 1
        BY <1>1, <1>2, <4>1 DEF HookPlaces
      <4> QED
        BY <1>2, <4>2
    <3>2. /\ answers'[queue'[k]] = << >>
          /\ \A v \in HookBusy' : worker'[v].row # queue'[k]
      BY <1>1, <1>2, <1>4, <1>5, <1>6, <2>1 DEF HookPlaces
    <3> QED
      BY <3>1, <3>2
  <2>4. ASSUME NEW v \in HookBusy'
        PROVE  /\ \A u \in HookBusy' : worker'[u].row = worker'[v].row => u = v
               /\ worker'[v].at = "posting" => answers'[worker'[v].row] = << >>
               /\ worker'[v].at = "answered" =>
                     answers'[worker'[v].row] = <<worker'[v].answer>>
    <3>1. CASE v = w
      <4>1. worker'[v].row = row /\ worker'[v].at = "posting" /\ answers'[row] = << >>
        BY <1>1, <1>4, <1>5, <2>1, <3>1
      <4>2. ASSUME NEW u \in HookBusy', worker'[u].row = row PROVE u = w
        BY <1>6, <2>1, <4>2
      <4> QED
        BY <3>1, <4>1, <4>2
    <3>2. CASE v # w
      <4>1. v \in HookBusy /\ worker'[v] = worker[v]
        BY <1>6, <3>2
      <4>2. ASSUME NEW u \in HookBusy', worker'[u].row = worker[v].row PROVE u = v
        <5>1. u # w
          BY <1>4, <1>5, <2>1, <4>1, <4>2
        <5>2. u \in HookBusy /\ worker'[u] = worker[u]
          BY <1>6, <5>1
        <5> QED
          BY <1>1, <4>1, <4>2, <5>2 DEF HookPlaces
      <4>3. /\ worker[v].at = "posting" => answers'[worker[v].row] = << >>
            /\ worker[v].at = "answered" => answers'[worker[v].row] = <<worker[v].answer>>
        BY <1>1, <4>1 DEF HookPlaces
      <4> QED
        BY <4>1, <4>2, <4>3
    <3> QED
      BY <3>1, <3>2
  <2> QED
    BY <1>1, <1>6, <2>2, <2>3, <2>4 DEF HookPlaces
<1>10. HookCalls'
  BY <1>1 DEF HookCalls, HookCall, W!Reached, W!Enabled
<1>11. HookCounts'
  <2>1. W!SubOf(w)' = s /\ \A v \in HookBusy : W!SubOf(v)' = W!SubOf(v)
    BY <1>1, <1>4, <1>5, <1>6 DEF W!SubOf
  <2>2. W!CountsFailures'
    BY <1>1 DEF HookCounts, W!CountsFailures
  <2> QED
    BY <1>1, <1>3, <1>4, <1>5, <1>6, <2>1, <2>2 DEF HookCounts
<1>12. worker'[w].failures = sub[W!SubOf(w)'].failures
  BY <1>1, <1>4, <1>5 DEF W!SubOf
<1> QED
  BY <1>6, <1>7, <1>8, <1>9, <1>10, <1>11, <1>12 DEF HookInv

\* A worker that ends frees its place, whatever the outcome.
LEMMA HookPlacesFreed ==
    ASSUME HookInv, NEW w \in Workers, worker' = [worker EXCEPT ![w] = W!Free],
           UNCHANGED <<wcall, queue, answers>>, DOMAIN sent' = DOMAIN sent
    PROVE  HookPlaces'
<1>1. W!TypeOK /\ HookPlaces
  BY DEF HookInv
<1>2. /\ HookBusy' \subseteq HookBusy /\ \A v \in HookBusy' : worker'[v] = worker[v]
      /\ HookSubmits' = HookSubmits
  BY <1>1, HookFrees DEF HookSubmits
<1>3. ASSUME NEW q \in HookSubmits
      PROVE  /\ wcall[q].row \in DOMAIN sent /\ answers[wcall[q].row] = << >>
             /\ \A p \in HookSubmits : wcall[p].row = wcall[q].row => p = q
             /\ \A k \in DOMAIN queue : queue[k] # wcall[q].row
             /\ \A v \in HookBusy' : worker'[v].row # wcall[q].row
  BY <1>1, <1>2 DEF HookPlaces
<1>4. ASSUME NEW k \in DOMAIN queue
      PROVE  /\ answers[queue[k]] = << >>
             /\ \A l \in DOMAIN queue : queue[l] = queue[k] => l = k
             /\ \A v \in HookBusy' : worker'[v].row # queue[k]
  BY <1>1, <1>2 DEF HookPlaces
<1>5. ASSUME NEW v \in HookBusy'
      PROVE  /\ \A u \in HookBusy' : worker'[u].row = worker'[v].row => u = v
             /\ worker'[v].at = "posting" => answers[worker'[v].row] = << >>
             /\ worker'[v].at = "answered" => answers[worker'[v].row] = <<worker'[v].answer>>
  BY <1>1, <1>2 DEF HookPlaces
<1> QED
  BY <1>2, <1>3, <1>4, <1>5 DEF HookPlaces

LEMMA HookPosts ==
    ASSUME HookInv, NEW w \in Workers, W!Post(w)
    PROVE  /\ HookInv'
           /\ HookBusy' = HookBusy
           /\ \A v \in HookBusy : /\ worker'[v].failures = worker[v].failures
                                  /\ W!SubOf(v)' = W!SubOf(v)
<1> DEFINE row == worker[w].row
<1>1. /\ W!TypeOK /\ W!OutboxTellsTruth /\ HookPlaces /\ HookCalls /\ HookCounts
      /\ w \in HookBusy /\ worker[w].at = "posting" /\ worker[w] \in W!Job
      /\ UNCHANGED <<sub, sent, wcall, committed, due, queue, bad, streak, lost, faults>>
  BY HookTypes DEF HookInv, W!Post, HookBusy, W!requestVars
<1>2. PICK a \in {"ok", "bad"} :
         /\ worker' = [worker EXCEPT ![w].at = "answered", ![w].answer = a]
         /\ answers' = [answers EXCEPT ![row] = Append(@, a)]
  BY DEF W!Post
<1>3. /\ row \in DOMAIN sent /\ DOMAIN answers = DOMAIN sent /\ answers[row] = << >>
  BY <1>1, HookTypes DEF HookPlaces, HookBusy
<1> HIDE DEF row
<1>4. PICK j \in W!Job :
         /\ worker' = [worker EXCEPT ![w] = j]
         /\ j.at = "answered" /\ j.answer = a /\ j.row = row
         /\ j.failures = worker[w].failures
  <2> DEFINE b == [worker[w] EXCEPT !.at = "answered"]
             j == [b EXCEPT !.answer = a]
  <2>1. /\ b \in W!Job /\ b.at = "answered" /\ b.row = row
        /\ b.failures = worker[w].failures
    BY <1>1 DEF W!Job, row
  <2>2. /\ j \in W!Job /\ j.at = "answered" /\ j.answer = a /\ j.row = row
        /\ j.failures = worker[w].failures
    <3> HIDE DEF b
    <3> QED
      BY <2>1 DEF W!Job
  <2>3. worker' = [worker EXCEPT ![w] = j]
    BY <1>1, <1>2 DEF W!TypeOK
  <2> HIDE DEF b, j
  <2> QED
    BY <2>2, <2>3
<1>5. /\ worker' \in [Workers -> W!Job] /\ worker'[w] = j
      /\ \A v \in Workers \ {w} : worker'[v] = worker[v]
  BY <1>1, <1>4 DEF W!TypeOK
<1>6. /\ answers' \in Seq(Seq({"ok", "bad"})) /\ Len(answers') = Len(sent)
      /\ answers'[row] = <<a>> /\ Len(answers'[row]) = 1
      /\ \A i \in DOMAIN sent : i # row => answers'[i] = answers[i]
  <2> DEFINE S == Seq({"ok", "bad"})
             one == Append(<< >>, a)
  <2>1. one = <<a>> /\ one \in S /\ Len(one) = 1
    OBVIOUS
  <2>2. answers \in Seq(S) /\ DOMAIN answers = 1..Len(answers) /\ Len(answers) = Len(sent)
        /\ Len(answers) \in Nat
    BY <1>1, LenProperties DEF W!TypeOK
  <2>3. answers' = [answers EXCEPT ![row] = one]
    BY <1>2, <1>3
  <2> HIDE DEF S, one
  <2>4. answers' \in [1..Len(answers) -> S]
    BY <2>1, <2>2, <2>3, <1>3, LenProperties
  <2>5. answers' \in Seq(S)
    BY <2>2, <2>4, SeqDef
  <2>6. 1..Len(answers') = 1..Len(answers) /\ Len(answers') \in Nat
    BY <2>4, <2>5, LenProperties
  <2>7. Len(answers') = Len(answers)
    BY <2>2, <2>6
  <2>8. answers' \in Seq(Seq({"ok", "bad"}))
    BY <2>5 DEF S
  <2> QED
    BY <1>3, <2>1, <2>2, <2>3, <2>7, <2>8
<1>7. /\ HookBusy' = HookBusy /\ HookSubmits' = HookSubmits
      /\ \A v \in HookBusy : /\ worker'[v].failures = worker[v].failures
                             /\ worker'[v].row = worker[v].row
                             /\ v # w => worker'[v] = worker[v]
                             /\ W!SubOf(v)' = W!SubOf(v)
  BY <1>1, <1>4, <1>5 DEF HookBusy, HookSubmits, W!SubOf, row
<1>8. W!TypeOK'
  <2>1. \A v \in Workers : worker'[v].at # "idle" => worker'[v].row \in DOMAIN sent
    BY <1>1, <1>3, <1>4, <1>5 DEF W!TypeOK
  <2> QED
    BY <1>1, <1>5, <1>6, <2>1 DEF W!TypeOK
<1>9. W!OutboxTellsTruth'
  <2>1. sent[row].status # "delivered"
    <3>1. answers[row] # <<"ok">>
      BY <1>3
    <3> QED
      BY <1>1, <1>3, <3>1 DEF W!OutboxTellsTruth
  <2>2. ASSUME NEW i \in DOMAIN sent
        PROVE  /\ Len(answers'[i]) <= 1
               /\ sent[i].status = "delivered" => answers'[i] = <<"ok">>
    <3>1. CASE i = row
      <4>1. answers'[row] = <<a>> /\ Len(answers'[row]) <= 1
        BY <1>6
      <4> QED
        BY <2>1, <3>1, <4>1
    <3>2. CASE i # row
      <4>1. answers'[i] = answers[i]
        BY <1>6, <3>2
      <4> QED
        BY <1>1, <4>1 DEF W!OutboxTellsTruth
    <3> QED
      BY <3>1, <3>2
  <2> QED
    BY <1>1, <2>2 DEF W!OutboxTellsTruth
<1>10. HookPlaces'
  <2>1. /\ \A q \in HookSubmits : wcall[q].row # row
        /\ \A k \in DOMAIN queue : queue[k] # row
        /\ \A v \in HookBusy : v # w => worker[v].row # row
    BY <1>1 DEF HookPlaces, row
  <2>2. ASSUME NEW q \in HookSubmits
        PROVE  /\ wcall[q].row \in DOMAIN sent /\ answers'[wcall[q].row] = << >>
               /\ \A p \in HookSubmits : wcall[p].row = wcall[q].row => p = q
               /\ \A k \in DOMAIN queue : queue[k] # wcall[q].row
               /\ \A v \in HookBusy : worker'[v].row # wcall[q].row
    BY <1>1, <1>6, <1>7, <2>1 DEF HookPlaces
  <2>3. ASSUME NEW k \in DOMAIN queue
        PROVE  /\ answers'[queue[k]] = << >>
               /\ \A l \in DOMAIN queue : queue[l] = queue[k] => l = k
               /\ \A v \in HookBusy : worker'[v].row # queue[k]
    <3>1. queue[k] \in DOMAIN sent
      BY <1>1, HookTypes
    <3>2. answers'[queue[k]] = answers[queue[k]]
      BY <1>6, <2>1, <3>1
    <3> QED
      BY <1>1, <1>7, <2>1, <3>2 DEF HookPlaces
  <2>4. ASSUME NEW v \in HookBusy
        PROVE  /\ \A u \in HookBusy : worker'[u].row = worker'[v].row => u = v
               /\ worker'[v].at = "posting" => answers'[worker'[v].row] = << >>
               /\ worker'[v].at = "answered" =>
                     answers'[worker'[v].row] = <<worker'[v].answer>>
    <3>1. \A u \in HookBusy : worker'[u].row = worker'[v].row => u = v
      BY <1>1, <1>7 DEF HookPlaces
    <3>2. CASE v = w
      BY <1>4, <1>5, <1>6, <3>1, <3>2
    <3>3. CASE v # w
      <4>1. worker[v].row \in DOMAIN sent
        BY <1>1, HookTypes DEF HookBusy
      <4>2. worker'[v] = worker[v] /\ answers'[worker[v].row] = answers[worker[v].row]
        BY <1>6, <1>7, <2>1, <3>3, <4>1
      <4> QED
        BY <1>1, <3>1, <4>2 DEF HookPlaces
    <3> QED
      BY <3>2, <3>3
  <2> QED
    BY <1>1, <1>7, <2>2, <2>3, <2>4 DEF HookPlaces
<1>11. HookCalls'
  BY <1>1 DEF HookCalls, HookCall, W!Reached, W!Enabled
<1>12. HookCounts'
  <2>1. W!CountsFailures'
    BY <1>1 DEF HookCounts, W!CountsFailures
  <2> QED
    BY <1>1, <1>7, <2>1 DEF HookCounts
<1> QED
  BY <1>7, <1>8, <1>9, <1>10, <1>11, <1>12 DEF HookInv

LEMMA HookCannot ==
    ASSUME HookInv, NEW w \in Workers, W!CannotDecrypt(w)
    PROVE  /\ HookInv'
           /\ HookBusy' = HookBusy \ {w} /\ \A v \in HookBusy' : worker'[v] = worker[v]
           /\ \A v \in HookBusy' : W!SubOf(v)' = W!SubOf(v)
<1>1. /\ W!TypeOK /\ W!OutboxTellsTruth /\ HookPlaces /\ HookCalls /\ HookCounts
      /\ worker[w].at = "posting" /\ worker[w].row \in DOMAIN sent
      /\ worker' = [worker EXCEPT ![w] = W!Free]
      /\ sent' = [sent EXCEPT ![worker[w].row].status = "failed"]
      /\ UNCHANGED <<sub, wcall, committed, due, queue, answers, bad, streak, lost, faults>>
  BY HookTypes DEF HookInv, W!CannotDecrypt, W!requestVars, W!history
<1>2. /\ sent' \in Seq(W!Delivery) /\ DOMAIN sent' = DOMAIN sent /\ Len(sent') = Len(sent)
      /\ sent'[worker[w].row].status = "failed"
      /\ \A i \in DOMAIN sent :
            /\ sent'[i].sub = sent[i].sub /\ sent'[i].event = sent[i].event
            /\ sent'[i].attempt = sent[i].attempt
            /\ i # worker[w].row => sent'[i] = sent[i]
  BY <1>1, HookMarks
<1>3. /\ worker' \in [Workers -> W!Job] /\ worker'[w].at = "idle"
      /\ HookBusy' = HookBusy \ {w} /\ \A v \in HookBusy' : worker'[v] = worker[v]
  BY <1>1, HookFrees
<1>4. \A v \in HookBusy' : W!SubOf(v)' = W!SubOf(v)
  <2>1. \A v \in HookBusy' : worker[v].row \in DOMAIN sent
    BY <1>1, <1>3, HookTypes DEF HookBusy
  <2> QED
    BY <1>2, <1>3, <2>1 DEF W!SubOf
<1>5. W!TypeOK'
  <2>1. \A v \in Workers : worker'[v].at # "idle" => worker'[v].row \in DOMAIN sent
    BY <1>1, <1>3 DEF W!TypeOK, HookBusy
  <2> QED
    BY <1>1, <1>2, <1>3, <2>1 DEF W!TypeOK
<1>6. W!OutboxTellsTruth'
  <2>1. \A i \in DOMAIN sent : sent'[i].status = "delivered" => sent[i].status = "delivered"
    BY <1>2
  <2>2. \A i \in DOMAIN sent : sent'[i].event \in Changes => sent'[i].event \in committed
    BY <1>1, <1>2 DEF W!OutboxTellsTruth
  <2>3. \A i, j \in DOMAIN sent :
           /\ i # j /\ sent'[i].attempt = 1 /\ sent'[j].attempt = 1
           => <<sent'[i].sub, sent'[i].event>> # <<sent'[j].sub, sent'[j].event>>
    BY <1>1, <1>2 DEF W!OutboxTellsTruth
  <2>4. \A i \in DOMAIN sent :
           /\ Len(answers[i]) <= 1
           /\ sent'[i].status = "delivered" => answers[i] = <<"ok">>
    BY <1>1, <2>1 DEF W!OutboxTellsTruth
  <2> QED
    BY <1>1, <1>2, <2>2, <2>3, <2>4 DEF W!OutboxTellsTruth
<1>7. HookPlaces'
  BY <1>1, <1>2, HookPlacesFreed
<1>8. HookCalls'
  <2>1. \A c \in Changes : \A s \in due[c] : /\ sub'[s].state # "absent"
                                             /\ s \in W!Enabled' => s \in W!Enabled
    BY <1>1 DEF HookCalls, W!Enabled
  <2>2. UNCHANGED <<wcall, committed, due>>
    BY <1>1
  <2> QED
    BY <1>1, <1>2, <2>1, <2>2, HookCallsOfRows
<1>9. HookCounts'
  <2>1. W!CountsFailures'
    BY <1>1 DEF HookCounts, W!CountsFailures
  <2> QED
    BY <1>1, <1>3, <1>4, <2>1 DEF HookCounts
<1> QED
  BY <1>3, <1>4, <1>5, <1>6, <1>7, <1>8, <1>9 DEF HookInv

LEMMA HookRaises ==
    ASSUME HookInv, NEW w \in Workers, W!JobRaises(w)
    PROVE  /\ HookInv'
           /\ HookBusy' = HookBusy \ {w} /\ \A v \in HookBusy' : worker'[v] = worker[v]
           /\ \A v \in HookBusy' : W!SubOf(v)' = W!SubOf(v)
<1>1. /\ W!TypeOK /\ W!OutboxTellsTruth /\ HookPlaces /\ HookCalls /\ HookCounts
      /\ worker[w].row \in DOMAIN sent
      /\ worker' = [worker EXCEPT ![w] = W!Free] /\ lost' = lost \cup {worker[w].row}
      /\ UNCHANGED <<sub, sent, wcall, committed, due, queue, answers, bad, streak>>
  BY HookTypes DEF HookInv, W!JobRaises, W!requestVars
<1>2. faults' \in 0..MaxFaults
  BY <1>1, HookTypes, HooksAssumption DEF W!JobRaises, W!Fault
<1>3. /\ worker' \in [Workers -> W!Job] /\ worker'[w].at = "idle"
      /\ HookBusy' = HookBusy \ {w} /\ \A v \in HookBusy' : worker'[v] = worker[v]
  BY <1>1, HookFrees
<1>4. \A v \in HookBusy' : W!SubOf(v)' = W!SubOf(v)
  BY <1>1, <1>3 DEF W!SubOf
<1>5. W!TypeOK'
  <2>1. \A v \in Workers : worker'[v].at # "idle" => worker'[v].row \in DOMAIN sent
    BY <1>1, <1>3 DEF W!TypeOK, HookBusy
  <2> QED
    BY <1>1, <1>2, <1>3, <2>1 DEF W!TypeOK
<1>6. W!OutboxTellsTruth'
  BY <1>1 DEF W!OutboxTellsTruth
<1>7. HookPlaces'
  BY <1>1, HookPlacesFreed
<1>8. HookCalls'
  BY <1>1 DEF HookCalls, HookCall, W!Reached, W!Enabled
<1>9. HookCounts'
  <2>1. W!CountsFailures'
    BY <1>1 DEF HookCounts, W!CountsFailures
  <2> QED
    BY <1>1, <1>3, <1>4, <2>1 DEF HookCounts
<1> QED
  BY <1>3, <1>4, <1>5, <1>6, <1>7, <1>8, <1>9 DEF HookInv

LEMMA HookRestarts ==
    ASSUME HookInv, W!Restart
    PROVE  HookInv' /\ HookBusy' = {}
<1>1. /\ W!TypeOK /\ W!OutboxTellsTruth /\ HookCalls /\ HookCounts
      /\ queue' = << >> /\ lost' = W!Pending
      /\ wcall' = [r \in W!Calls |-> IF wcall[r].at \in {"new", "done"} THEN wcall[r]
                                     ELSE [wcall[r] EXCEPT !.at = "cut"]]
      /\ worker' = [w \in Workers |-> W!Free]
      /\ UNCHANGED <<sub, sent, committed, due, answers, bad, streak>>
  BY DEF HookInv, W!Restart
<1>2. faults' \in 0..MaxFaults
  BY <1>1, HookTypes, HooksAssumption DEF W!Restart, W!Fault
<1>3. /\ W!Free \in W!Job /\ W!Free.at = "idle"
      /\ << >> \in Seq(DOMAIN sent) /\ DOMAIN queue' = {}
  BY <1>1, EmptySeq DEF W!Free, W!Job
<1>4. \A w \in Workers : worker'[w] = W!Free
  BY <1>1
<1>5. ASSUME NEW r \in W!Calls
      PROVE  /\ wcall'[r] \in W!Call
             /\ \/ wcall'[r] = wcall[r] /\ wcall[r].at \in {"new", "done"}
                \/ wcall'[r].at = "cut"
  <2>1. wcall[r] \in W!Call
    BY <1>1, HookTypes
  <2>2. CASE wcall[r].at \in {"new", "done"}
    BY <1>1, <2>1, <2>2
  <2>3. CASE wcall[r].at \notin {"new", "done"}
    <3>1. PICK d \in W!Call : /\ d = [wcall[r] EXCEPT !.at = "cut"]
                              /\ d.at = "cut" /\ d.rest = wcall[r].rest /\ d.row = wcall[r].row
      <4>1. "cut" \in HookStages
        BY DEF HookStages
      <4> QED
        BY <2>1, <4>1, HookStage
    <3>2. wcall'[r] = [wcall[r] EXCEPT !.at = "cut"]
      BY <1>1, <2>3
    <3> QED
      BY <3>1, <3>2
  <2> QED
    BY <2>2, <2>3
<1>6. W!TypeOK'
  <2>1. wcall' \in [W!Calls -> W!Call]
    <3>1. wcall' = [r \in W!Calls |-> wcall'[r]]
      BY <1>1
    <3> QED
      BY <1>5, <3>1
  <2>2. worker' \in [Workers -> W!Job]
    BY <1>1, <1>3
  <2>3. \A w \in Workers : worker'[w].at = "idle"
    BY <1>3, <1>4
  <2> QED
    BY <1>1, <1>2, <1>3, <2>1, <2>2, <2>3 DEF W!TypeOK, W!Pending
<1>7. W!OutboxTellsTruth'
  BY <1>1 DEF W!OutboxTellsTruth
<1>8. HookBusy' = {} /\ HookSubmits' = {}
  BY <1>3, <1>4, <1>5 DEF HookBusy, HookSubmits
<1>9. HookPlaces'
  BY <1>3, <1>8 DEF HookPlaces
<1>10. HookCalls'
  <2>1. ASSUME NEW r \in W!Calls PROVE HookCall(r)'
    <3>1. HookCall(r)
      BY <1>1 DEF HookCalls
    <3> QED
      BY <1>1, <1>5, <3>1 DEF HookCall, W!Reached, W!Enabled
  <2> QED
    BY <1>1, <2>1 DEF HookCalls
<1>11. HookCounts'
  BY <1>1, <1>8 DEF HookCounts, W!CountsFailures
<1> QED
  BY <1>6, <1>7, <1>8, <1>9, <1>10, <1>11 DEF HookInv

\* What a recorded outcome makes of the counts: the failures of a subscription are
\* at most those there were, and it is disabled when the threshold is reached.
LEMMA HookCounted ==
    ASSUME W!TypeOK, HookCounts, NEW w \in HookBusy,
           NEW s \in Subs, s = W!SubOf(w),
           sub' = [sub EXCEPT ![s] = W!Counted(s, worker[w])], W!Remember(s, worker[w].answer)
    PROVE  /\ sub' \in [Subs -> W!Sub] /\ bad' \in [Subs -> Nat] /\ streak' \in [Subs -> Nat]
           /\ \A u \in Subs \ {s} :
                 sub'[u] = sub[u] /\ bad'[u] = bad[u] /\ streak'[u] = streak[u]
           /\ bad[s] <= bad'[s]
           /\ sub'[s].failures <= bad'[s]
           /\ sub'[s].state \in {sub[s].state, "disabled"}
           /\ sub'[s].state = "disabled" => bad'[s] >= Threshold
           /\ worker[w].failures = sub[s].failures /\ sub[s].failures = streak[s] =>
                 sub'[s].failures = streak'[s]
<1> DEFINE j == worker[w]
           row == W!Counted(s, j)
           n == j.failures
<1>1. /\ worker[w] \in W!Job /\ n \in Nat /\ n <= bad[s] /\ sub[s] \in W!Sub
      /\ sub[s].failures \in Nat /\ sub[s].failures <= bad[s]
      /\ sub[s].state = "disabled" => bad[s] >= Threshold
      /\ bad[s] \in Nat /\ streak[s] \in Nat /\ Threshold \in Nat
      /\ worker[w].answer \in {"ok", "bad"}
  BY HookTypes, HooksAssumption DEF HookBusy, HookCounts, W!CountsFailures, W!Job
<1>2. CASE j.answer = "ok"
  <2>1. /\ row \in W!Sub /\ row.state = sub[s].state
        /\ row.failures \in {0, sub[s].failures}
        /\ n = sub[s].failures => row.failures = 0
    <3>1. CASE n = 0
      BY <1>1, <1>2, <3>1 DEF W!Counted
    <3>2. CASE n # 0
      BY <1>1, <1>2, <3>2 DEF W!Counted, W!Sub
    <3> QED
      BY <3>1, <3>2
  <2>2. bad' = bad /\ streak' = [streak EXCEPT ![s] = 0]
    BY <1>2 DEF W!Remember
  <2> HIDE DEF row
  <2>3. /\ bad' \in [Subs -> Nat] /\ streak' \in [Subs -> Nat] /\ streak'[s] = 0
        /\ \A u \in Subs \ {s} : bad'[u] = bad[u] /\ streak'[u] = streak[u]
    BY <2>2 DEF W!TypeOK
  <2>4. /\ sub' \in [Subs -> W!Sub] /\ sub'[s] = row
        /\ \A u \in Subs \ {s} : sub'[u] = sub[u]
    BY <2>1 DEF W!TypeOK, row
  <2> QED
    BY <1>1, <2>1, <2>2, <2>3, <2>4
<1>3. CASE j.answer = "bad"
  <2>1. /\ row.failures = n + 1 /\ row.state \in {sub[s].state, "disabled"}
        /\ row.state = "disabled" => n + 1 >= Threshold \/ sub[s].state = "disabled"
        /\ row \in W!Sub
    BY <1>1, <1>3 DEF W!Counted, W!Sub
  <2>2. bad' = [bad EXCEPT ![s] = @ + 1] /\ streak' = [streak EXCEPT ![s] = @ + 1]
    BY <1>3 DEF W!Remember
  <2>3. /\ bad' \in [Subs -> Nat] /\ bad'[s] = bad[s] + 1
        /\ streak' \in [Subs -> Nat] /\ streak'[s] = streak[s] + 1
        /\ \A u \in Subs \ {s} : bad'[u] = bad[u] /\ streak'[u] = streak[u]
    BY <1>1, <2>2 DEF W!TypeOK
  <2> HIDE DEF row
  <2>4. /\ sub' \in [Subs -> W!Sub] /\ sub'[s] = row
        /\ \A u \in Subs \ {s} : sub'[u] = sub[u]
    BY <2>1 DEF W!TypeOK, row
  <2> QED
    BY <1>1, <2>1, <2>3, <2>4
<1> QED
  BY <1>1, <1>2, <1>3

LEMMA HookRecords ==
    ASSUME HookInv, NEW w \in Workers, W!Record(w)
    PROVE  HookInv'
<1> DEFINE s == W!SubOf(w)
           row == worker[w].row
           outcome == IF worker[w].answer = "ok" THEN "delivered" ELSE "failed"
<1>1. /\ W!TypeOK /\ W!OutboxTellsTruth /\ HookPlaces /\ HookCalls /\ HookCounts
      /\ w \in HookBusy /\ worker[w].at = "answered" /\ row \in DOMAIN sent /\ s \in Subs
      /\ worker' = [worker EXCEPT ![w] = W!Free]
      /\ sent' = [sent EXCEPT ![row].status = outcome]
      /\ sub' = [sub EXCEPT ![s] = W!Counted(s, worker[w])] /\ W!Remember(s, worker[w].answer)
      /\ UNCHANGED <<wcall, committed, due, queue, answers, lost, faults>>
  BY HookTypes DEF HookInv, W!Record, HookBusy, W!requestVars
<1>2. outcome \in {"delivered", "failed"}
  OBVIOUS
<1>3. outcome = "delivered" => answers[row] = <<"ok">>
  BY <1>1 DEF HookPlaces
<1> HIDE DEF row, outcome
<1>4. /\ sent' \in Seq(W!Delivery) /\ DOMAIN sent' = DOMAIN sent /\ Len(sent') = Len(sent)
      /\ sent'[row].status = outcome
      /\ \A i \in DOMAIN sent :
            /\ sent'[i].sub = sent[i].sub /\ sent'[i].event = sent[i].event
            /\ sent'[i].attempt = sent[i].attempt
            /\ i # row => sent'[i] = sent[i]
  BY <1>1, <1>2, HookMarks
<1>5. /\ worker' \in [Workers -> W!Job] /\ worker'[w].at = "idle"
      /\ HookBusy' = HookBusy \ {w} /\ \A v \in HookBusy' : worker'[v] = worker[v]
  BY <1>1, HookFrees
<1>6. /\ sub' \in [Subs -> W!Sub] /\ bad' \in [Subs -> Nat] /\ streak' \in [Subs -> Nat]
      /\ \A u \in Subs \ {s} : sub'[u] = sub[u] /\ bad'[u] = bad[u]
      /\ bad[s] <= bad'[s]
      /\ sub'[s].failures <= bad'[s]
      /\ sub'[s].state \in {sub[s].state, "disabled"}
      /\ sub'[s].state = "disabled" => bad'[s] >= Threshold
  BY <1>1, HookCounted
<1> HIDE DEF s
<1>7. \A v \in HookBusy' : W!SubOf(v)' = W!SubOf(v) /\ W!SubOf(v) \in Subs
  <2>1. \A v \in HookBusy' : worker[v].row \in DOMAIN sent /\ W!SubOf(v) \in Subs
    BY <1>1, <1>5, HookTypes DEF HookBusy
  <2> QED
    BY <1>4, <1>5, <2>1 DEF W!SubOf
<1>8. W!TypeOK'
  <2>1. \A v \in Workers : worker'[v].at # "idle" => worker'[v].row \in DOMAIN sent
    BY <1>1, <1>5 DEF W!TypeOK, HookBusy
  <2> QED
    BY <1>1, <1>4, <1>5, <1>6, <2>1 DEF W!TypeOK
<1>9. W!OutboxTellsTruth'
  <2>1. \A i \in DOMAIN sent : sent'[i].event \in Changes => sent'[i].event \in committed
    BY <1>1, <1>4 DEF W!OutboxTellsTruth
  <2>2. \A i, j \in DOMAIN sent :
           /\ i # j /\ sent'[i].attempt = 1 /\ sent'[j].attempt = 1
           => <<sent'[i].sub, sent'[i].event>> # <<sent'[j].sub, sent'[j].event>>
    BY <1>1, <1>4 DEF W!OutboxTellsTruth
  <2>3. ASSUME NEW i \in DOMAIN sent
        PROVE  /\ Len(answers[i]) <= 1
               /\ sent'[i].status = "delivered" => answers[i] = <<"ok">>
    <3>1. /\ Len(answers[i]) <= 1
          /\ sent[i].status = "delivered" => answers[i] = <<"ok">>
      BY <1>1 DEF W!OutboxTellsTruth
    <3>2. CASE i = row
      BY <1>3, <1>4, <3>1, <3>2
    <3>3. CASE i # row
      BY <1>4, <3>1, <3>3
    <3> QED
      BY <3>2, <3>3
  <2> QED
    BY <1>1, <1>4, <2>1, <2>2, <2>3 DEF W!OutboxTellsTruth
<1>10. HookPlaces'
  BY <1>1, <1>4, HookPlacesFreed
<1>11. HookCalls'
  <2>1. \A c \in Changes : \A u \in due[c] : /\ u \in Subs /\ sub'[u].state # "absent"
                                             /\ u \in W!Enabled' => u \in W!Enabled
    <3>1. \A c \in Changes : \A u \in due[c] : u \in Subs /\ sub[u].state # "absent"
      BY <1>1 DEF HookCalls, W!TypeOK
    <3>2. \A u \in Subs : /\ sub'[u].state \in {sub[u].state, "disabled"}
                          /\ u \in W!Enabled' => u \in W!Enabled
      BY <1>6 DEF W!Enabled
    <3> QED
      BY <3>1, <3>2
  <2>2. UNCHANGED <<wcall, committed, due>>
    BY <1>1
  <2> QED
    BY <1>1, <1>4, <2>1, <2>2, HookCallsOfRows
<1>12. HookCounts'
  <2>1. \A u \in Subs : bad[u] \in Nat /\ bad'[u] \in Nat /\ bad[u] <= bad'[u]
    <3>1. \A u \in Subs : bad[u] \in Nat /\ bad'[u] \in Nat
      BY <1>1, <1>6 DEF W!TypeOK
    <3>2. \A u \in Subs \ {s} : bad'[u] = bad[u]
      BY <1>6
    <3> QED
      BY <1>6, <3>1, <3>2
  <2>2. W!CountsFailures'
    BY <1>1, <1>6 DEF HookCounts, W!CountsFailures
  <2>3. ASSUME NEW v \in HookBusy' PROVE worker'[v].failures <= bad'[W!SubOf(v)']
    <3>1. worker'[v].failures = worker[v].failures /\ v \in HookBusy /\ W!SubOf(v)' = W!SubOf(v)
      BY <1>5, <1>7
    <3>2. worker[v].failures <= bad[W!SubOf(v)] /\ worker[v].failures \in Nat
      BY <1>1, <3>1, HookTypes DEF HookCounts, HookBusy
    <3> QED
      BY <1>7, <2>1, <3>1, <3>2
  <2> QED
    BY <2>2, <2>3 DEF HookCounts
<1> QED
  BY <1>8, <1>9, <1>10, <1>11, <1>12 DEF HookInv

LEMMA HookStep == HookInv /\ [W!Next]_(W!vars) => HookInv'
<1> SUFFICES ASSUME HookInv, [W!Next]_(W!vars) PROVE HookInv'
  OBVIOUS
<1>1. CASE \E c \in Changes : W!Write(c) \/ W!ChangeStep(c) \/ W!Abort(c)
  <2>1. PICK c \in Changes : W!Write(c) \/ W!ChangeStep(c) \/ W!Abort(c)
    BY <1>1
  <2>2. c \in W!Calls
    BY DEF W!Calls
  <2> QED
    BY <2>1, <2>2, HookChanges, HookQueues, HookSubmitted, HookAborts DEF W!ChangeStep
<1>2. CASE \E r \in Others :
              \/ \E i \in DOMAIN sent : W!Redeliver(r, i)
              \/ \E s \in Subs : W!SendTest(r, s)
              \/ W!Submit(r) \/ W!Abort(r)
  <2>1. PICK r \in Others :
              \/ \E i \in DOMAIN sent : W!Redeliver(r, i)
              \/ \E s \in Subs : W!SendTest(r, s)
              \/ W!Submit(r) \/ W!Abort(r)
    BY <1>2
  <2>2. r \in W!Calls
    BY DEF W!Calls
  <2> QED
    BY <2>1, <2>2, HookSendsAgain, HookSubmitted, HookAborts
<1>3. CASE \E s \in Subs : W!CreateSubscription(s) \/ W!DeleteSubscription(s)
  BY <1>3, HookOwner
<1>4. CASE \E w \in Workers : W!WorkerStep(w) \/ W!CannotDecrypt(w) \/ W!JobRaises(w)
  BY <1>4, HookTakes, HookPosts, HookRecords, HookCannot, HookRaises DEF W!WorkerStep
<1>5. CASE W!Restart
  BY <1>5, HookRestarts
<1>6. CASE UNCHANGED W!vars
  BY <1>6 DEF HookInv, W!TypeOK, W!OutboxTellsTruth, HookPlaces, HookCalls, HookCall, HookCounts,
              W!CountsFailures, HookBusy, HookSubmits, W!Reached, W!Enabled, W!SubOf,
              W!vars, W!requestVars, W!poolVars, W!history
<1> QED
  BY <1>1, <1>2, <1>3, <1>4, <1>5, <1>6 DEF W!Next

\* Whoever has been through the loop has been reached.
LEMMA HookReaches == HookInv => W!FiredReachesAll
BY DEF HookInv, HookCalls, HookCall, W!FiredReachesAll, W!Fired, W!TypeOK, W!Calls

\* With one delivery at a time the count is the streak.
LEMMA HookLoneStep == HookInv /\ HookInv' /\ HookLone /\ HookOne' /\ [W!Next]_(W!vars) => HookLone'
<1> SUFFICES ASSUME HookInv, HookLone, HookOne', [W!Next]_(W!vars) PROVE HookLone'
  OBVIOUS
<1>0. /\ W!TypeOK /\ HookCounts
      /\ \A s \in Subs : sub[s].failures = streak[s]
      /\ \A w \in HookBusy : worker[w].failures = sub[W!SubOf(w)].failures
  BY DEF HookInv, HookLone
<1>1. CASE \E w \in Workers : W!Record(w)
  <2>1. PICK w \in Workers : W!Record(w)
    BY <1>1
  <2> DEFINE s == W!SubOf(w)
  <2>2. /\ w \in HookBusy /\ s \in Subs
        /\ worker' = [worker EXCEPT ![w] = W!Free]
        /\ sub' = [sub EXCEPT ![s] = W!Counted(s, worker[w])] /\ W!Remember(s, worker[w].answer)
    BY <1>0, <2>1, HookTypes DEF W!Record, HookBusy
  <2>3. HookBusy' = {}
    BY <1>0, <2>2, HookFrees DEF HookLone, HookOne
  <2>4. /\ worker[w].failures = sub[s].failures /\ sub[s].failures = streak[s]
    BY <1>0, <2>2
  <2>5. /\ \A u \in Subs \ {s} : sub'[u] = sub[u] /\ streak'[u] = streak[u]
        /\ sub'[s].failures = streak'[s]
    BY <1>0, <2>2, <2>4, HookCounted
  <2> QED
    BY <1>0, <2>2, <2>3, <2>5 DEF HookLone
<1>2. CASE \E w \in Workers : W!Take(w)
  <2>1. PICK w \in Workers : W!Take(w)
    BY <1>2
  <2>2. /\ HookBusy' = HookBusy \cup {w}
        /\ worker'[w].failures = sub[W!SubOf(w)'].failures
        /\ UNCHANGED <<sub, streak>>
    BY <2>1, HookTakes DEF W!Take, W!history
  <2>3. \A v \in HookBusy' : v = w
    BY <2>2 DEF HookOne
  <2> QED
    BY <1>0, <2>2, <2>3 DEF HookLone
<1>3. CASE \E w \in Workers : W!Post(w)
  <2>1. PICK w \in Workers : W!Post(w)
    BY <1>3
  <2>2. /\ HookBusy' = HookBusy
        /\ \A v \in HookBusy : /\ worker'[v].failures = worker[v].failures
                               /\ W!SubOf(v)' = W!SubOf(v)
        /\ UNCHANGED <<sub, streak>>
    BY <2>1, HookPosts DEF W!Post
  <2> QED
    BY <1>0, <2>2 DEF HookLone
<1>4. CASE \E w \in Workers : W!CannotDecrypt(w) \/ W!JobRaises(w)
  <2>1. PICK w \in Workers : W!CannotDecrypt(w) \/ W!JobRaises(w)
    BY <1>4
  <2>2. /\ HookBusy' = HookBusy \ {w} /\ \A v \in HookBusy' : worker'[v] = worker[v]
        /\ \A v \in HookBusy' : W!SubOf(v)' = W!SubOf(v)
        /\ UNCHANGED <<sub, streak>>
    BY <2>1, HookCannot, HookRaises DEF W!CannotDecrypt, W!JobRaises, W!history
  <2> QED
    BY <1>0, <2>2 DEF HookLone
<1>5. CASE W!Restart
  <2>1. HookBusy' = {} /\ UNCHANGED <<sub, streak>>
    BY <1>5, HookRestarts DEF W!Restart
  <2> QED
    BY <1>0, <2>1 DEF HookLone
<1>6. CASE /\ UNCHANGED <<worker, streak>>
           /\ \A i \in DOMAIN sent : i \in DOMAIN sent' /\ sent'[i].sub = sent[i].sub
           /\ \A s \in Subs : sub'[s].failures = sub[s].failures
  <2>1. HookBusy' = HookBusy
    BY <1>6 DEF HookBusy
  <2>2. \A w \in HookBusy : W!SubOf(w)' = W!SubOf(w) /\ W!SubOf(w) \in Subs
    BY <1>0, <1>6, HookTypes DEF W!SubOf, HookBusy
  <2> QED
    BY <1>0, <1>6, <2>1, <2>2 DEF HookLone
<1> QED
  <2>1. CASE \E c \in Changes : W!Write(c) \/ W!ChangeStep(c) \/ W!Abort(c)
    <3>1. PICK c \in Changes : W!Write(c) \/ W!ChangeStep(c) \/ W!Abort(c)
      BY <2>1
    <3>2. c \in W!Calls
      BY DEF W!Calls
    <3>3. UNCHANGED <<worker, streak, sub>>
      BY <3>1 DEF W!Write, W!ChangeStep, W!Abort, W!Flush, W!Commit, W!ReadSubs, W!Dispatched,
                  W!Submit, W!Queue, W!poolVars, W!history
    <3>4. sent' = sent \/ \E s \in Subs : W!Inserted(s, c, 1)
      BY <3>1 DEF W!Write, W!ChangeStep, W!Abort, W!Flush, W!Commit, W!ReadSubs, W!Dispatched,
                  W!Submit, W!Queue
    <3>5. \A i \in DOMAIN sent : i \in DOMAIN sent' /\ sent'[i].sub = sent[i].sub
      <4>1. ASSUME NEW s \in Subs, W!Inserted(s, c, 1)
            PROVE  \A i \in DOMAIN sent : i \in DOMAIN sent' /\ sent'[i].sub = sent[i].sub
        <5>1. 1 \in Nat
          OBVIOUS
        <5> QED
          BY <1>0, <3>2, <4>1, <5>1, HookAppends
      <4> QED
        BY <3>4, <4>1
    <3> QED
      BY <1>6, <3>3, <3>5
  <2>2. CASE \E r \in Others :
                \/ \E i \in DOMAIN sent : W!Redeliver(r, i)
                \/ \E s \in Subs : W!SendTest(r, s)
                \/ W!Submit(r) \/ W!Abort(r)
    <3>1. UNCHANGED <<worker, streak, sub>>
      BY <2>2 DEF W!Redeliver, W!SendTest, W!Submit, W!Abort, W!history
    <3>2. sent' = sent \/ \E s \in Subs, e \in W!Calls, n \in Nat : W!Inserted(s, e, n)
      <4>1. ASSUME NEW r \in Others, NEW i \in DOMAIN sent, W!Redeliver(r, i)
            PROVE  \E s \in Subs, e \in W!Calls, n \in Nat : W!Inserted(s, e, n)
        <5>1. sent[i].sub \in Subs /\ sent[i].event \in W!Calls /\ sent[i].attempt + 1 \in Nat
          BY <1>0, HookTypes
        <5> QED
          BY <4>1, <5>1 DEF W!Redeliver
      <4>2. ASSUME NEW r \in Others, NEW s \in Subs, W!SendTest(r, s)
            PROVE  \E t \in Subs, e \in W!Calls, n \in Nat : W!Inserted(t, e, n)
        <5>1. r \in W!Calls /\ 1 \in Nat
          BY DEF W!Calls
        <5> QED
          BY <4>2, <5>1 DEF W!SendTest
      <4> QED
        BY <2>2, <4>1, <4>2 DEF W!Submit, W!Abort
    <3>3. \A i \in DOMAIN sent : i \in DOMAIN sent' /\ sent'[i].sub = sent[i].sub
      BY <1>0, <3>2, HookAppends
    <3> QED
      BY <1>6, <3>1, <3>3
  <2>3. CASE \E s \in Subs : W!CreateSubscription(s) \/ W!DeleteSubscription(s)
    <3>1. PICK s \in Subs : W!CreateSubscription(s) \/ W!DeleteSubscription(s)
      BY <2>3
    <3>2. UNCHANGED <<worker, streak, sent>>
      BY <3>1 DEF W!CreateSubscription, W!DeleteSubscription, W!poolVars, W!history
    <3>3. sub[s] \in W!Sub /\ \E state \in {"enabled", "deleted"} :
                                 sub' = [sub EXCEPT ![s].state = state]
      BY <1>0, <3>1, HookTypes DEF W!CreateSubscription, W!DeleteSubscription
    <3>4. \A u \in Subs : sub'[u].failures = sub[u].failures
      BY <1>0, <3>3 DEF W!TypeOK, W!Sub
    <3> QED
      BY <1>6, <3>2, <3>4
  <2>4. CASE UNCHANGED W!vars
    BY <1>6, <2>4 DEF W!vars, W!poolVars, W!history
  <2> QED
    BY <1>1, <1>2, <1>3, <1>4, <1>5, <2>1, <2>2, <2>3, <2>4 DEF W!Next, W!WorkerStep

HookAll == HookInv /\ (lone => HookLone)

\* A step of the composition is a step of the webhooks, of the approvals or of
\* neither; nobody overlaps where one delivery at a time is asked for.
LEMMA HookNext == HookAll /\ [LiveNext]_<<part, vars, hookVars>> => HookAll'
<1> SUFFICES ASSUME HookAll, [LiveNext]_<<part, vars, hookVars>> PROVE HookAll'
  OBVIOUS
<1>1. [W!Next]_(W!vars)
  BY DEF LiveNext, HooksNext, hookVars, W!vars, W!requestVars, W!poolVars, W!history
<1>2. HookInv'
  BY <1>1, HookStep DEF HookAll
<1>3. ASSUME lone' PROVE HookLone'
  <2>1. lone /\ HookLone
    BY <1>3 DEF LiveNext, HooksNext, hookVars, HookAll
  <2>2. CASE HooksNext
    <3>1. Cardinality(HookBusy') <= 1
      BY <2>1, <2>2 DEF HooksNext, HookBusy
    <3>2. IsFiniteSet(HookBusy')
      BY HooksAssumption, FS_Subset DEF HookBusy
    <3>3. HookOne'
      <4>1. SUFFICES ASSUME NEW v \in HookBusy', NEW w \in HookBusy', v # w PROVE FALSE
        BY DEF HookOne
      <4>2. Cardinality({v, w}) = 2 /\ IsFiniteSet({v, w})
        <5>1. IsFiniteSet({v}) /\ Cardinality({v}) = 1 /\ w \notin {v}
          BY <4>1, FS_Singleton
        <5>2. {v, w} = {v} \cup {w}
          OBVIOUS
        <5>3. IsFiniteSet({v} \cup {w}) /\ Cardinality({v} \cup {w}) = 1 + 1
          BY <5>1, FS_AddElement
        <5> QED
          BY <5>2, <5>3
      <4>3. Cardinality({v, w}) <= Cardinality(HookBusy')
        BY <3>2, FS_Subset
      <4>4. Cardinality(HookBusy') \in Nat
        BY <3>2, FS_CardinalityType
      <4> QED
        BY <3>1, <4>2, <4>3, <4>4
    <3> QED
      BY <1>1, <1>2, <2>1, <3>3, HookLoneStep DEF HookAll
  <2>3. CASE ~HooksNext
    <3>1. UNCHANGED W!vars
      BY <2>3 DEF LiveNext, hookVars, W!vars, W!requestVars, W!poolVars, W!history
    <3>2. HookOne'
      BY <2>1, <3>1 DEF HookLone, HookOne, HookBusy, W!vars, W!poolVars
    <3> QED
      BY <1>1, <1>2, <2>1, <3>2, HookLoneStep DEF HookAll
  <2> QED
    BY <2>2, <2>3
<1> QED
  BY <1>2, <1>3 DEF HookAll

LEMMA HookInvariant == LiveSpec => []HookAll
<1>1. LiveInit => HookAll
  BY HookInit DEF LiveInit, HookAll
<1> QED
  BY <1>1, HookNext, PTL DEF LiveSpec

\* Whatever requests fire changes, send again or send tests, and however the
\* workers of the pool overlap, are cut short and restarted: what is sent around
\* is of committed changes, is sent once and is told truly, and a change whose
\* listener ran to its end has reached every subscription that wants it.
THEOREM OutboxOfWebhooks == LiveSpec => []OutboxIsTrueAndComplete
<1>1. HookAll => OutboxIsTrueAndComplete
  BY HookReaches DEF HookAll, HookInv, OutboxIsTrueAndComplete
<1> QED
  BY <1>1, HookInvariant, PTL

\* A subscription is disabled only after Threshold failures, and with one delivery
\* at a time its count is the number of failures since the last success.
THEOREM FailuresOfWebhooks == LiveSpec => []DisabledAfterFailures
<1>1. HookAll => DisabledAfterFailures
  BY DEF HookAll, HookInv, HookCounts, HookLone, DisabledAfterFailures
<1> QED
  BY <1>1, HookInvariant, PTL

-----------------------------------------------------------------------------
(***************************************************************************)
(* Every delivery is in somebody's hands                                   *)
(***************************************************************************)

\* A delivery that is about to be submitted, waits for a worker or has one.
InHand(i) ==
    \/ \E r \in HookSubmits : wcall[r].row = i
    \/ \E k \in DOMAIN queue : queue[k] = i
    \/ \E w \in HookBusy : worker[w].row = i

\* No delivery is forgotten: while it has no outcome, somebody has it who will go on
\* with it, unless what had it was cut short (_queue_delivery, _submit and _deliver,
\* whose only memory of what is to be done is a queue of the process).
PendingAreInHand == \A i \in W!Pending \ lost : InHand(i)

\* A step of one request that has no row to submit.
LEMMA HandsByCall ==
    ASSUME PendingAreInHand, NEW r \in W!Calls, wcall[r].at # "submitting",
           \A q \in W!Calls \ {r} : wcall'[q] = wcall[q],
           UNCHANGED <<sent, queue, worker>>, lost \subseteq lost'
    PROVE  PendingAreInHand'
<1> SUFFICES ASSUME NEW i \in (W!Pending \ lost)' PROVE InHand(i)'
  BY DEF PendingAreInHand
<1>1. InHand(i)
  BY DEF PendingAreInHand, W!Pending
<1>2. HookBusy' = HookBusy /\ \A q \in HookSubmits : q \in HookSubmits' /\ wcall'[q] = wcall[q]
  BY DEF HookBusy, HookSubmits
<1> QED
  BY <1>1, <1>2 DEF InHand

\* A new row is with the request that inserted it.
LEMMA HandsByInsert ==
    ASSUME W!TypeOK, PendingAreInHand, NEW r \in W!Calls, wcall[r].at # "submitting",
           NEW s \in Subs, NEW e \in W!Calls, NEW n \in Nat, W!Inserted(s, e, n),
           wcall'[r].at = "submitting", wcall'[r].row = Len(sent) + 1,
           \A q \in W!Calls \ {r} : wcall'[q] = wcall[q],
           UNCHANGED <<queue, worker, lost>>
    PROVE  PendingAreInHand'
<1>1. /\ DOMAIN sent' = DOMAIN sent \cup {Len(sent) + 1}
      /\ \A i \in DOMAIN sent : sent'[i] = sent[i]
  BY HookAppends
<1>2. HookBusy' = HookBusy /\ r \in HookSubmits'
      /\ \A q \in HookSubmits : q \in HookSubmits' /\ wcall'[q] = wcall[q]
  BY DEF HookBusy, HookSubmits
<1>3. ASSUME NEW i \in (W!Pending \ lost)' PROVE InHand(i)'
  <2>1. CASE i = Len(sent) + 1
    BY <1>2, <2>1 DEF InHand
  <2>2. CASE i # Len(sent) + 1
    <3>1. i \in W!Pending \ lost
      BY <1>1, <1>3, <2>2 DEF W!Pending
    <3>2. InHand(i)
      BY <3>1 DEF PendingAreInHand
    <3> QED
      BY <1>2, <3>2 DEF InHand
  <2> QED
    BY <2>1, <2>2
<1> QED
  BY <1>3 DEF PendingAreInHand

\* A change of a project up to its commit, and its listener.
LEMMA HandsOfChange ==
    ASSUME HookInv, PendingAreInHand, NEW c \in Changes,
           W!Write(c) \/ W!Flush(c) \/ W!Commit(c) \/ W!ReadSubs(c) \/ W!Dispatched(c)
    PROVE  PendingAreInHand'
<1>1. /\ c \in W!Calls /\ wcall[c].at # "submitting" /\ wcall \in [W!Calls -> W!Call]
      /\ UNCHANGED <<sent, queue, worker, lost>>
  BY DEF HookInv, W!TypeOK, W!Calls, W!Write, W!Flush, W!Commit, W!ReadSubs, W!Dispatched,
         W!poolVars, W!history
<1>2. ASSUME NEW stage, W!Goto(c, stage)
      PROVE  \A q \in W!Calls \ {c} : wcall'[q] = wcall[q]
  BY <1>1, <1>2 DEF W!Goto
<1>3. CASE W!ReadSubs(c)
  <2>1. \A q \in W!Calls \ {c} : wcall'[q] = wcall[q]
    BY <1>1, <1>3 DEF W!ReadSubs
  <2> QED
    BY <1>1, <2>1, HandsByCall
<1>4. CASE W!Write(c) \/ W!Flush(c) \/ W!Commit(c) \/ W!Dispatched(c)
  <2>1. \E stage : W!Goto(c, stage)
    BY <1>4 DEF W!Write, W!Flush, W!Commit, W!Dispatched
  <2>2. \A q \in W!Calls \ {c} : wcall'[q] = wcall[q]
    BY <1>2, <2>1
  <2> QED
    BY <1>1, <2>2, HandsByCall
<1> QED
  BY <1>3, <1>4

\* One round of the listener's loop.
LEMMA HandsOfQueue ==
    ASSUME HookInv, PendingAreInHand, NEW c \in Changes, NEW s \in Subs, W!Queue(c, s)
    PROVE  PendingAreInHand'
<1>1. /\ W!TypeOK /\ c \in W!Calls /\ wcall[c].at = "dispatching"
      /\ wcall \in [W!Calls -> W!Call] /\ UNCHANGED <<queue, worker, lost>>
  BY DEF HookInv, W!TypeOK, W!Calls, W!Queue
<1>2. CASE sub[s].state = "deleted"
  <2>1. W!Goto(c, "cut") /\ sent' = sent
    BY <1>2 DEF W!Queue
  <2>2. \A q \in W!Calls \ {c} : wcall'[q] = wcall[q]
    BY <1>1, <2>1 DEF W!Goto
  <2> QED
    BY <1>1, <2>1, <2>2, HandsByCall
<1>3. CASE sub[s].state # "deleted" /\ c \notin Wanted[s]
  <2>1. wcall' = [wcall EXCEPT ![c].rest = @ \ {s}] /\ sent' = sent
    BY <1>3 DEF W!Queue
  <2>2. \A q \in W!Calls \ {c} : wcall'[q] = wcall[q]
    BY <1>1, <2>1
  <2> QED
    BY <1>1, <2>1, <2>2, HandsByCall
<1>4. CASE sub[s].state # "deleted" /\ c \in Wanted[s]
  <2>1. /\ W!Inserted(s, c, 1)
        /\ wcall' = [wcall EXCEPT ![c].at = "submitting",
                                  ![c].rest = @ \ {s}, ![c].row = Len(sent) + 1]
    BY <1>4 DEF W!Queue
  <2>2. PICK d \in W!Call : /\ d = HookSending(wcall[c], wcall[c].rest \ {s}, Len(sent) + 1)
                            /\ d.at = "submitting" /\ d.row = Len(sent) + 1
    <3>1. wcall[c] \in W!Call /\ wcall[c].rest \ {s} \in SUBSET Subs /\ Len(sent) + 1 \in Nat
      BY <1>1, HookTypes
    <3> QED
      BY <3>1, HookSends
  <2>3. wcall' = [wcall EXCEPT ![c] = d]
    BY <1>1, <2>1, <2>2 DEF HookSending
  <2>4. wcall'[c] = d /\ \A q \in W!Calls \ {c} : wcall'[q] = wcall[q]
    BY <1>1, <2>3
  <2> QED
    BY <1>1, <2>1, <2>2, <2>4, HandsByInsert
<1> QED
  BY <1>2, <1>3, <1>4

\* The requests that send a row again or send a test.
LEMMA HandsOfOther ==
    ASSUME HookInv, PendingAreInHand, NEW r \in Others,
           (\E i \in DOMAIN sent : W!Redeliver(r, i)) \/ (\E s \in Subs : W!SendTest(r, s))
    PROVE  PendingAreInHand'
<1>1. /\ r \in W!Calls /\ wcall[r].at # "submitting" /\ W!TypeOK
      /\ wcall \in [W!Calls -> W!Call]
      /\ wcall' = [wcall EXCEPT ![r].at = "submitting", ![r].row = Len(sent) + 1]
      /\ UNCHANGED <<queue, worker, lost>>
  BY DEF HookInv, W!TypeOK, W!Calls, W!Redeliver, W!SendTest
<1>2. PICK d \in W!Call : /\ d = HookSent(wcall[r], Len(sent) + 1)
                          /\ d.at = "submitting" /\ d.row = Len(sent) + 1
  <2>1. wcall[r] \in W!Call /\ Len(sent) + 1 \in Nat
    BY <1>1, HookTypes
  <2> QED
    BY <2>1, HookSentOn
<1>3. wcall' = [wcall EXCEPT ![r] = d]
  BY <1>1, <1>2 DEF HookSent
<1>4. wcall'[r] = d /\ \A q \in W!Calls \ {r} : wcall'[q] = wcall[q]
  BY <1>1, <1>3
<1>5. PICK s \in Subs, e \in W!Calls, n \in Nat : W!Inserted(s, e, n)
  <2>1. ASSUME NEW i \in DOMAIN sent, W!Redeliver(r, i)
        PROVE  /\ W!Inserted(sent[i].sub, sent[i].event, sent[i].attempt + 1)
               /\ sent[i].sub \in Subs /\ sent[i].event \in W!Calls /\ sent[i].attempt + 1 \in Nat
    BY <1>1, <2>1, HookTypes DEF W!Redeliver
  <2>2. ASSUME NEW s \in Subs, W!SendTest(r, s) PROVE W!Inserted(s, r, 1)
    BY <2>2 DEF W!SendTest
  <2> QED
    BY <1>1, <2>1, <2>2
<1> QED
  BY <1>1, <1>2, <1>4, <1>5, HandsByInsert

\* From the request to the queue.
LEMMA HandsOfSubmit ==
    ASSUME HookInv, PendingAreInHand, NEW r \in W!Calls, W!Submit(r)
    PROVE  PendingAreInHand'
<1> DEFINE new == Len(queue) + 1
<1>1. /\ W!TypeOK /\ r \in HookSubmits /\ wcall[r].row \in DOMAIN sent
      /\ UNCHANGED <<sent, worker, lost>> /\ HookBusy' = HookBusy
  BY DEF HookInv, HookPlaces, HookSubmits, HookBusy, W!Submit, W!history
<1>2. /\ new \in DOMAIN queue' /\ queue'[new] = wcall[r].row
      /\ \A k \in DOMAIN queue : k \in DOMAIN queue' /\ queue'[k] = queue[k]
  <2>1. queue' = Append(queue, wcall[r].row) /\ queue \in Seq(DOMAIN sent)
    BY <1>1 DEF W!Submit, W!TypeOK
  <2>2. /\ queue' \in Seq(DOMAIN sent) /\ Len(queue') = Len(queue) + 1 /\ Len(queue) \in Nat
        /\ queue'[Len(queue) + 1] = wcall[r].row /\ \A k \in 1..Len(queue) : queue'[k] = queue[k]
    BY <1>1, <2>1, AppendProperties, LenProperties
  <2>3. DOMAIN queue' = 1..Len(queue') /\ DOMAIN queue = 1..Len(queue)
    BY <2>1, <2>2, LenProperties
  <2> QED
    BY <2>2, <2>3
<1>3. \A q \in HookSubmits \ {r} : q \in HookSubmits' /\ wcall'[q] = wcall[q]
  BY <1>1 DEF HookSubmits, W!Submit, W!Goto, W!TypeOK
<1>4. ASSUME NEW i \in (W!Pending \ lost)' PROVE InHand(i)'
  <2>1. InHand(i)
    BY <1>1, <1>4 DEF PendingAreInHand, W!Pending
  <2>2. CASE i = wcall[r].row
    BY <1>2, <2>2 DEF InHand
  <2>3. CASE \E q \in HookSubmits \ {r} : wcall[q].row = i
    BY <1>3, <2>3 DEF InHand
  <2>4. CASE \E k \in DOMAIN queue : queue[k] = i
    BY <1>2, <2>4 DEF InHand
  <2>5. CASE \E w \in HookBusy : worker[w].row = i
    BY <1>1, <2>5 DEF InHand
  <2> QED
    BY <2>1, <2>2, <2>3, <2>4, <2>5 DEF InHand
<1> QED
  BY <1>4 DEF PendingAreInHand

\* A request that is cut short loses the row it was about to submit.
LEMMA HandsOfAbort ==
    ASSUME HookInv, PendingAreInHand, NEW r \in W!Calls, W!Abort(r)
    PROVE  PendingAreInHand'
<1>1. /\ W!TypeOK /\ UNCHANGED <<sent, queue, worker>>
      /\ lost' = IF wcall[r].at = "submitting" THEN lost \cup {wcall[r].row} ELSE lost
  BY DEF HookInv, W!Abort
<1>2. \A q \in W!Calls \ {r} : wcall'[q] = wcall[q]
  BY <1>1 DEF W!TypeOK, W!Abort, W!Goto
<1>3. CASE wcall[r].at # "submitting"
  BY <1>1, <1>2, <1>3, HandsByCall
<1>4. CASE wcall[r].at = "submitting"
  <2>1. HookBusy' = HookBusy /\ \A q \in HookSubmits \ {r} : q \in HookSubmits' /\ wcall'[q] = wcall[q]
    BY <1>1, <1>2 DEF HookBusy, HookSubmits
  <2>2. ASSUME NEW i \in (W!Pending \ lost)' PROVE InHand(i)'
    <3>1. InHand(i) /\ i # wcall[r].row
      BY <1>1, <1>4, <2>2 DEF PendingAreInHand, W!Pending
    <3> QED
      BY <1>1, <2>1, <3>1 DEF InHand
  <2> QED
    BY <2>2 DEF PendingAreInHand
<1> QED
  BY <1>3, <1>4

\* From the queue to a worker.
LEMMA HandsOfTake ==
    ASSUME HookInv, PendingAreInHand, NEW w \in Workers, W!Take(w)
    PROVE  PendingAreInHand'
<1>1. /\ W!TypeOK /\ queue # << >> /\ queue' = Tail(queue) /\ HookSubmits' = HookSubmits
      /\ UNCHANGED <<sent, wcall, lost>>
  BY DEF HookInv, HookSubmits, W!Take, W!requestVars, W!history
<1>2. \A k \in DOMAIN queue : queue[k] = Head(queue) \/ \E l \in DOMAIN queue' : queue'[l] = queue[k]
  <2>1. queue \in Seq(DOMAIN sent) /\ DOMAIN queue = 1..Len(queue) /\ Len(queue) \in Nat \ {0}
    BY <1>1, EmptySeq, LenProperties DEF W!TypeOK
  <2>2. /\ queue' \in Seq(DOMAIN sent) /\ Len(queue') = Len(queue) - 1
        /\ \A k \in 1..Len(queue') : queue'[k] = queue[k + 1]
    BY <1>1, <2>1, HeadTailProperties
  <2>3. DOMAIN queue' = 1..Len(queue') /\ Head(queue) = queue[1]
    BY <2>1, <2>2, LenProperties
  <2>4. SUFFICES ASSUME NEW k \in DOMAIN queue, k # 1
                 PROVE  \E l \in DOMAIN queue' : queue'[l] = queue[k]
    BY <2>3
  <2>5. k - 1 \in DOMAIN queue' /\ (k - 1) + 1 = k
    BY <2>1, <2>2, <2>3, <2>4
  <2> QED
    BY <2>2, <2>3, <2>5
<1>3. /\ w \in HookBusy' /\ worker'[w].row = Head(queue)
      /\ \A v \in HookBusy : v \in HookBusy' /\ worker'[v] = worker[v]
  BY <1>1 DEF W!Take, W!TypeOK, HookBusy
<1>4. ASSUME NEW i \in (W!Pending \ lost)' PROVE InHand(i)'
  <2>1. InHand(i)
    BY <1>1, <1>4 DEF PendingAreInHand, W!Pending
  <2>2. CASE \E q \in HookSubmits : wcall[q].row = i
    BY <1>1, <2>2 DEF InHand
  <2>3. CASE \E k \in DOMAIN queue : queue[k] = i
    BY <1>2, <1>3, <2>3 DEF InHand
  <2>4. CASE \E v \in HookBusy : worker[v].row = i
    BY <1>3, <2>4 DEF InHand
  <2> QED
    BY <2>1, <2>2, <2>3, <2>4 DEF InHand
<1> QED
  BY <1>4 DEF PendingAreInHand

\* A worker keeps its row while it works, and ends with an outcome or with a loss.
LEMMA HandsOfWorker ==
    ASSUME HookInv, PendingAreInHand, NEW w \in Workers,
           W!Post(w) \/ W!Record(w) \/ W!CannotDecrypt(w) \/ W!JobRaises(w)
    PROVE  PendingAreInHand'
<1>1. /\ W!TypeOK /\ w \in HookBusy /\ UNCHANGED <<wcall, queue>> /\ HookSubmits' = HookSubmits
      /\ worker[w].row \in DOMAIN sent
  <2>1. worker[w].at # "idle" /\ UNCHANGED <<wcall, queue>>
    BY DEF W!Post, W!Record, W!CannotDecrypt, W!JobRaises, W!requestVars
  <2>2. W!TypeOK
    BY DEF HookInv
  <2>3. worker[w].row \in DOMAIN sent
    BY <2>1, <2>2, HookTypes
  <2> QED
    BY <2>1, <2>2, <2>3 DEF HookSubmits, HookBusy
<1>2. \A v \in HookBusy \ {w} : v \in HookBusy' /\ worker'[v] = worker[v]
  <2>1. worker \in [Workers -> W!Job]
    BY <1>1 DEF W!TypeOK
  <2>2. \A v \in Workers \ {w} : worker'[v] = worker[v]
    BY <2>1 DEF W!Post, W!Record, W!CannotDecrypt, W!JobRaises
  <2> QED
    BY <2>2 DEF HookBusy
<1>3. ASSUME (W!Pending \ lost)' \subseteq W!Pending \ lost,
             \/ w \in HookBusy' /\ worker'[w].row = worker[w].row
             \/ worker[w].row \notin (W!Pending \ lost)'
      PROVE  PendingAreInHand'
  <2>1. ASSUME NEW i \in (W!Pending \ lost)' PROVE InHand(i)'
    <3>1. InHand(i)
      BY <1>3, <2>1 DEF PendingAreInHand
    <3>2. CASE \E v \in HookBusy \ {w} : worker[v].row = i
      BY <1>2, <3>2 DEF InHand
    <3>3. CASE worker[w].row = i
      BY <1>3, <2>1, <3>3 DEF InHand
    <3> QED
      BY <1>1, <3>1, <3>2, <3>3 DEF InHand
  <2> QED
    BY <2>1 DEF PendingAreInHand
<1>4. CASE W!Post(w)
  <2>1. UNCHANGED <<sent, lost>>
    BY <1>4 DEF W!Post
  <2>2. PICK a \in {"ok", "bad"} :
           worker' = [worker EXCEPT ![w].at = "answered", ![w].answer = a]
    BY <1>4 DEF W!Post
  <2>3. worker'[w].at = "answered" /\ worker'[w].row = worker[w].row
    BY <2>2 DEF W!TypeOK, W!Job, HookInv
  <2> QED
    BY <1>3, <2>1, <2>3 DEF W!Pending, HookBusy
<1>5. ASSUME NEW outcome \in {"delivered", "failed"}, UNCHANGED lost,
             sent' = [sent EXCEPT ![worker[w].row].status = outcome]
      PROVE  PendingAreInHand'
  <2>1. /\ DOMAIN sent' = DOMAIN sent /\ sent'[worker[w].row].status = outcome
        /\ \A i \in DOMAIN sent : i # worker[w].row => sent'[i] = sent[i]
    BY <1>1, <1>5, HookMarks
  <2> QED
    BY <1>3, <1>5, <2>1 DEF W!Pending
<1>6. CASE W!Record(w) \/ W!CannotDecrypt(w)
  BY <1>5, <1>6 DEF W!Record, W!CannotDecrypt, W!history
<1>7. CASE W!JobRaises(w)
  <2>1. lost' = lost \cup {worker[w].row} /\ sent' = sent
    BY <1>7 DEF W!JobRaises
  <2> QED
    BY <1>3, <2>1 DEF W!Pending
<1> QED
  BY <1>4, <1>6, <1>7

LEMMA HandsStep == HookInv /\ PendingAreInHand /\ [W!Next]_(W!vars) => PendingAreInHand'
<1> SUFFICES ASSUME HookInv, PendingAreInHand, [W!Next]_(W!vars) PROVE PendingAreInHand'
  OBVIOUS
<1>1. CASE \E c \in Changes : W!Write(c) \/ W!ChangeStep(c) \/ W!Abort(c)
  <2>1. PICK c \in Changes : W!Write(c) \/ W!ChangeStep(c) \/ W!Abort(c)
    BY <1>1
  <2>2. c \in W!Calls
    BY DEF W!Calls
  <2> QED
    BY <2>1, <2>2, HandsOfChange, HandsOfQueue, HandsOfSubmit, HandsOfAbort DEF W!ChangeStep
<1>2. ASSUME NEW r \in Others,
             \/ \E i \in DOMAIN sent : W!Redeliver(r, i)
             \/ \E s \in Subs : W!SendTest(r, s)
             \/ W!Submit(r) \/ W!Abort(r)
      PROVE  PendingAreInHand'
  <2>1. r \in W!Calls
    BY DEF W!Calls
  <2> QED
    BY <1>2, <2>1, HandsOfOther, HandsOfSubmit, HandsOfAbort
<1>3. CASE \E w \in Workers : W!WorkerStep(w) \/ W!CannotDecrypt(w) \/ W!JobRaises(w)
  BY <1>3, HandsOfTake, HandsOfWorker DEF W!WorkerStep
<1>4. CASE W!Restart
  BY <1>4 DEF W!Restart, W!Pending, PendingAreInHand
<1>5. CASE UNCHANGED <<sent, wcall, queue, worker, lost>>
  BY <1>5 DEF PendingAreInHand, InHand, HookSubmits, HookBusy, W!Pending
<1>6. CASE \E s \in Subs : W!CreateSubscription(s) \/ W!DeleteSubscription(s)
  BY <1>5, <1>6 DEF W!CreateSubscription, W!DeleteSubscription, W!requestVars, W!poolVars, W!history
<1>7. CASE UNCHANGED W!vars
  BY <1>5, <1>7 DEF W!vars, W!requestVars, W!poolVars, W!history
<1> QED
  BY <1>1, <1>2, <1>3, <1>4, <1>6, <1>7 DEF W!Next

\* Whatever requests, workers, faults and restarts do, a delivery that is pending is
\* in the hands of somebody or was lost with what died: the safety part of
\* DeliveriesAreSettled, for every pool and every number of faults.
THEOREM NoDeliveryForgotten == LiveSpec => []PendingAreInHand
<1>1. LiveInit => PendingAreInHand
  BY DEF LiveInit, PendingAreInHand, W!Init, W!Pending
<1>2. HookAll /\ PendingAreInHand /\ [LiveNext]_<<part, vars, hookVars>> => PendingAreInHand'
  <2>1. [LiveNext]_<<part, vars, hookVars>> => [W!Next]_(W!vars)
    BY DEF LiveNext, HooksNext, hookVars, W!vars, W!requestVars, W!poolVars, W!history
  <2> QED
    BY <2>1, HandsStep DEF HookAll
<1> QED
  BY <1>1, <1>2, HookInvariant, PTL DEF LiveSpec

-----------------------------------------------------------------------------
\* Beside the webhooks, on whatever database, no update is applied over an edit of
\* its target that it has not seen.
THEOREM EditsSurviveBeside == LiveSpec => NoEditOverwritten
<1>1. LiveInit => Init
  BY DEF LiveInit
<1>2. [LiveNext]_<<part, vars, hookVars>> => [Next]_vars
  BY DEF LiveNext
<1>3. LiveSpec => Spec
  BY <1>1, <1>2, PTL DEF LiveSpec, Spec
<1> QED
  BY <1>3, EditsSurvive

=============================================================================
