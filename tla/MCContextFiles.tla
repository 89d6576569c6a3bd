-------------------------- MODULE MCContextFiles ---------------------------
(***************************************************************************)
(* Two servers in one instance: one whose requests overlap and fail, and a *)
(* calm one, which serves them one after the other to their end.  People   *)
(* edit the file at any time on both.                                      *)
(***************************************************************************)
EXTENDS ContextFiles, FiniteSets, TLC

VARIABLE calm

Symmetry == Permutations(Requests) \cup Permutations(Texts)

MCInit == Init /\ calm \in BOOLEAN
MCNext ==
    /\ \/ \E r \in Requests : Work(r)
       \/ ~calm /\ \E r \in Requests : Abort(r)
       \/ Plan
       \/ Edit
    /\ calm => Cardinality({r \in Requests : call'[r] # Idle}) <= 1
    /\ UNCHANGED calm
MCSpec == MCInit /\ [][MCNext]_<<vars, calm>>

\* Between calm requests the row knows the generated text that is in the file: its
\* checksum is that of the file, or of the text that became this file.  So a file
\* Planarus wrote never looks edited by hand ("DB + disk in sync", regenerate), unless
\* there was a carriage return in the text (regenerate hashes what write_text is about
\* to change).
CalmInSync ==
    calm /\ (\A r \in Requests : call[r] = Idle) /\ Exists(row) /\ disk \in Nat =>
        row.sum = disk \/ (row.sum \in Returns /\ disk = Written(row.sum))

\* On a calm server, a regeneration writes over a text it has found in a file it
\* knows only if the last decision about that file was to take the pin away
\* (adopt_on_disk: "Pinning is what makes ""I meant this"" stick").
CalmWishesHold ==
    \A r \in Requests :
        calm /\ call[r].at = "writing" /\ call[r].seen \in Texts /\ Exists(call[r].old) =>
            wish = "release"

\* On a calm server the row knows the file, and what people decided about the file
\* stands.
CalmFileIsKept == TypeOK /\ CalmInSync /\ CalmWishesHold

=============================================================================
