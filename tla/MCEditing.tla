------------------------------ MODULE MCEditing ------------------------------
(***************************************************************************)
(* What surrounds the documents, side by side with them in one instance:   *)
(* the documents (MCDocuments), the export of one to its Markdown file     *)
(* (DocExports), who has them open (Presence), and the editor in the       *)
(* browser (Editor).  The first state chooses which of them runs ("part"). *)
(***************************************************************************)
EXTENDS MCDocuments

CONSTANTS
    Texts, NoFile, Returns, Saves,                      \* see DocExports
    Ttl, MaxDocs, MaxUsers, MaxClock, MaxSeq, MaxWait,  \* see Presence
    Slots, Typings, Versions                            \* see Editor

VARIABLES
    part,
    text, disk, sum, ecall,
    store, order, seq, now,
    stored, shown, view, current, buffer, label, locked, asked, last, held, unseen

\* The users are the documents, the documents are the requests: which names they have makes no difference.
X == INSTANCE DocExports WITH MaxText <- Saves, call <- ecall
V == INSTANCE Presence WITH Docs <- Requests, Users <- Docs
E == INSTANCE Editor WITH
        Docs <- Requests, MaxText <- Typings, MaxVersion <- Versions,
        store <- stored, call <- asked

\* What the parts assume of their constants.
ASSUME RequestsAssumption == IsFiniteSet(Requests)
ASSUME SavesAssumption == Saves \in Nat
ASSUME PresenceAssumption ==
    /\ IsFiniteSet(Docs)
    /\ Ttl \in Nat \ {0} /\ MaxDocs \in Nat \ {0} /\ MaxUsers \in Nat \ {0}
    /\ MaxClock \in Nat /\ MaxSeq \in Nat /\ MaxWait \in Nat
ASSUME EditorAssumption ==
    /\ IsFiniteSet(Slots) /\ Slots \subseteq Nat /\ NoDoc \notin Requests
    /\ Typings \in Nat /\ Versions \in Nat \ {0}
ASSUME ExportsAssumption ==
    Texts \cap Nat = {} /\ NoFile \notin Texts \cup Nat /\ Returns \subseteq 0..Saves

exportVars == <<text, disk, sum, ecall>>
presenceVars == <<store, order, seq, now>>
editorVars == <<stored, shown, view, current, buffer, label, locked, asked, last, held, unseen>>

\* A part that does not run has no state: its variables are 0.
NoExports == text = 0 /\ disk = 0 /\ sum = 0 /\ ecall = 0
NoPresence == store = 0 /\ order = 0 /\ seq = 0 /\ now = 0
NoEditor ==
    /\ stored = 0 /\ shown = 0 /\ view = 0 /\ current = 0 /\ buffer = 0 /\ label = 0
    /\ locked = 0 /\ asked = 0 /\ last = 0 /\ held = 0 /\ unseen = 0

EditingInit ==
    /\ part \in {"documents", "exports", "presence", "editor"}
    /\ MCInit
    /\ part = "presence" => serial
    /\ IF part = "exports" THEN X!Init ELSE NoExports
    /\ IF part = "presence" THEN V!Init ELSE NoPresence
    /\ IF part = "editor" THEN E!Init ELSE NoEditor

\* One export at a time and none dies, if the server is serial.
ExportsNext ==
    /\ X!SaveContent \/ X!EditFile \/ \E r \in Requests : X!Work(r) \/ (~serial /\ X!Abort(r))
    /\ serial => Cardinality({r \in Requests : ecall'[r] # X!Idle}) <= 1

\* If the server is serial, nobody else writes and nothing fails, and the person
\* waits for the answers before asking more, but for a document that is loading.
\* Otherwise nobody picks a colour, one update is made beside those of others, with
\* two texts, and somebody takes the lock, or something else fails, while an edit is
\* unsaved.
Waiting(ops) == \A s \in Slots : asked[s] = E!Idle \/ asked[s].op \in ops
EditorNext ==
    /\ \/ E!Type \/ E!Answer
       \/ (serial => Waiting({})) /\ E!Ask
       \/ serial /\ Waiting({"load"}) /\ (E!Close \/ \E d \in Requests : E!Switch(d))
       \/ ~serial /\ E!Trouble
    /\ ~serial =>
          /\ \A s \in Slots : asked'[s] = E!Idle \/ asked'[s].op # "colour"
          /\ \A d, e \in Requests : d # e =>
                stored'[d].version + stored'[e].version <= 3 + Cardinality(unseen')
          /\ buffer'.n <= 2 /\ \A d \in Requests : stored'[d].text.n <= 2
          /\ (locked' /\ ~locked) => label = "unsaved" /\ Waiting({})
          /\ label' = "error" /\ asked' = asked => label = "unsaved"

EditingNext ==
    /\ \/ part = "documents" /\ MCNext /\ UNCHANGED <<exportVars, presenceVars, editorVars>>
       \/ part = "exports" /\ ExportsNext /\ UNCHANGED <<vars, serial, presenceVars, editorVars>>
       \/ part = "presence" /\ V!Next /\ UNCHANGED <<vars, serial, exportVars, editorVars>>
       \/ part = "editor" /\ EditorNext /\ UNCHANGED <<vars, serial, exportVars, presenceVars>>
    /\ UNCHANGED part

EditingSpec ==
    EditingInit /\ [][EditingNext]_<<part, serial, vars, exportVars, presenceVars, editorVars>>

\* Edits of the file are spared, and exports one at a time know their own text
\* (see DocExports).
ExportsAreTrue ==
    part = "exports" => X!TypeOK /\ X!EditsAreSpared /\ (serial => X!OwnTextIsKnown)

\* Nobody takes the place of an editor who is there (see Presence); and the editor
\* says "saved" of nothing else, overwrites no text of others that it has not shown,
\* and forgets nothing when a document is left (see Editor).
EditorsAreSafe ==
    [][/\ part = "presence" => V!TypeOK' /\ V!EditorsAreSafe
       /\ part = "editor" =>
          /\ E!TypeOK' /\ E!SavedIsStored' /\ E!OthersAreSeen
          /\ serial => E!NothingIsForgotten']_<<presenceVars, editorVars>>

=============================================================================
