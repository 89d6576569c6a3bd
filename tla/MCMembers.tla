------------------------------ MODULE MCMembers ------------------------------
(***************************************************************************)
(* Two servers in one instance: one that serves two requests at a time and *)
(* one that serves them one after the other ("serial").  The first state   *)
(* chooses.                                                                *)
(***************************************************************************)
EXTENDS Members, Naturals, TLC

VARIABLE serial

Symmetry == Permutations(Requests)

MCInit == Init /\ serial \in BOOLEAN
MCNext ==
    /\ Next
    /\ serial => Cardinality({r \in Requests : call'[r] # Idle}) <= 1
    /\ UNCHANGED serial
MCSpec == MCInit /\ [][MCNext]_<<vars, serial>>
\* One request at a time, a workspace with members has an owner, also when a
\* creation stopped between the workspace and its owner, and nobody enters it
\* other than through an owner (add_member).
SerialOwnersDecide ==
    [][serial =>
          /\ Roster' # {} => Owners' # {}
          /\ \A t \in Roster' \ Roster : Roster # {} =>
                \E r \in Requests : call[r].who = t /\ call[r].by \in Owners]_vars

=============================================================================
