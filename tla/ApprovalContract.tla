-------------------------- MODULE ApprovalContract --------------------------
(***************************************************************************)
(* What the approval engine promises about ONE proposal, whatever the      *)
(* database, the callers and their interleaving: the life cycle of the     *)
(* docstrings of services/approval_service.py ("proposal -> review ->      *)
(* approve -> one-time apply -> audit"), with nothing of how it is kept.   *)
(*                                                                         *)
(*   pending --approve--> approved --apply--> applied   (one mutation)     *)
(*                          |  ^-apply-                                    *)
(*                        fails    |                                       *)
(*                          +---> failed                                   *)
(*                                                                         *)
(* A proposal that was applied, rejected, expired or invalidated never     *)
(* moves again, and only the step into "applied" mutates canonical data.   *)
(***************************************************************************)
EXTENDS Naturals

CONSTANTS
    Proposals,      \* proposal ids
    Preexisting     \* the proposals already pending when the system starts

VARIABLES
    status,         \* life-cycle state of each proposal
    done            \* how many times its mutation was made on canonical data

vars == <<status, done>>

Init ==
    /\ status = [p \in Proposals |->
                    IF p \in Preexisting THEN "pending" ELSE "absent"]
    /\ done = [p \in Proposals |-> 0]

\* p goes from one of the states in "from" to "to" and mutates nothing.
Move(p, from, to) ==
    /\ status[p] \in from
    /\ status' = [status EXCEPT ![p] = to]
    /\ UNCHANGED done

Propose(p)    == Move(p, {"absent"}, "pending")
Approve(p)    == Move(p, {"pending"}, "approved")
Reject(p)     == Move(p, {"pending", "approved"}, "rejected")
Invalidate(p) == Move(p, {"pending", "approved", "failed"}, "invalidated")
Expire(p)     == Move(p, {"pending", "approved", "failed"}, "expired")
Fail(p)       == Move(p, {"approved", "failed"}, "failed")

Apply(p) ==
    /\ status[p] \in {"approved", "failed"}
    /\ status' = [status EXCEPT ![p] = "applied"]
    /\ done' = [done EXCEPT ![p] = @ + 1]

Next == \E p \in Proposals :
    \/ Propose(p) \/ Approve(p) \/ Reject(p) \/ Invalidate(p)
    \/ Expire(p) \/ Fail(p) \/ Apply(p)

Spec == Init /\ [][Next]_vars

=============================================================================
