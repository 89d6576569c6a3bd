---------------------------- MODULE MCDocuments -----------------------------
(***************************************************************************)
(* Two servers in one instance: one that serves several requests at a time *)
(* and one that serves them one after the other ("serial"; editors may     *)
(* have a document open meanwhile).  The first state chooses.              *)
(***************************************************************************)
EXTENDS Documents, TLC

CONSTANTS Ranked1, Ranked2, Ranked3, Ranked4   \* what can be mentioned, by type and id

VARIABLE serial

\* A document mentions nothing, or everything: one target too many.
MCContents == {{}, Docs \cup Entities}

\* The documents come before the rest ("doc", "task"), and which of them comes first
\* makes no difference: none is cut off.
MCRank == Restrict(Ranked1 :> 1 @@ Ranked2 :> 2 @@ Ranked3 :> 3 @@ Ranked4 :> 4, Mentionable)

Symmetry == Permutations(Requests) \cup Permutations(Docs)

MCInit == Init /\ serial \in BOOLEAN
MCNext ==
    /\ Next
    /\ serial => Cardinality({r \in Requests : call'[r].at \notin {"idle", "editing"}}) <= 1
    /\ UNCHANGED serial
MCSpec == MCInit /\ [][MCNext]_<<vars, serial>>

\* One request at a time, no sequence of moves, deletions and repairs puts a
\* document above itself (validate_parent), and a deletion makes roots of the
\* children of the document and moves nothing else (delete_doc: "promote any child
\* docs to top-level"); the documents keep their types in any case.
SerialTreeIsKept ==
    [][/\ TypeOK'
       /\ serial =>
          /\ NoParentCycle'
          /\ \A r \in Requests :
                call[r].at = "deleting" /\ call'[r] # call[r] /\ doc' # doc =>
                   \A k \in Docs : doc'[k].parent =
                      IF doc[k].parent = call[r].doc /\ k \in Live THEN NoDoc ELSE doc[k].parent]_vars

=============================================================================
