------------------------------- MODULE MCGate -------------------------------
(***************************************************************************)
(* The approval engine with calls that overlap and with calls that do not: *)
(* Approvals as it is, and with Serial <- TRUE over the same variables.    *)
(* The first state chooses ("serial").                                     *)
(***************************************************************************)
EXTENDS MCApprovals

VARIABLE serial

One == INSTANCE Approvals WITH Serial <- TRUE

GateInit == Init /\ serial \in BOOLEAN
GateNext ==
    /\ \/ ~serial /\ Next
       \/ serial /\ One!Next
    /\ UNCHANGED serial
GateSpec == GateInit /\ [][GateNext]_<<vars, serial>>

\* With one call at a time every step of the engine is a step of its contract,
\* ApprovalContract, or leaves it alone (see ImplementsContract), and the trail of
\* a proposal tells the state of its row (TrailTellsStatus).
SerialImplementation ==
    /\ Contract!Init /\ [][serial => Contract!Next]_(Contract!vars)
    /\ [](serial => TrailTellsStatus)

=============================================================================
