---------------------------- MODULE MCApprovals -----------------------------
(***************************************************************************)
(* Instances of Approvals for TLC: one target, one local proposal and two  *)
(* proposals of the same change, one of which waits since an earlier run.  *)
(***************************************************************************)
EXTENDS Approvals, TLC

CONSTANTS local, twin1, twin2, tgt, key

MCTargetOf == [p \in Proposals |-> tgt]
MCKeyOf == [p \in Proposals |-> IF p = local THEN NoKey ELSE key]

Symmetry == Permutations(Requests)
=============================================================================
