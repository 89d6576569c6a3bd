------------------------------- MODULE Editor --------------------------------
(***************************************************************************)
(* The document editor in the browser: DocEditor of web/src/app/           *)
(* DocsPanel.tsx, with the colour swatches of a note (NoteColors), the     *)
(* lock of usePresence.ts, and update_doc of the server behind it.         *)
(*                                                                         *)
(* The component stays while links inside documents change which document  *)
(* it shows; requests are answered in any order, and what an answer finds  *)
(* is the editor as it is by then.  Several requests may be under way, in  *)
(* the slots of "call".                                                    *)
(*                                                                         *)
(* A text is a number, with the document it was typed into; the title is   *)
(* part of it.  Whoever types has pressed Edit.                            *)
(***************************************************************************)
EXTENDS Naturals, FiniteSets

CONSTANTS
    Docs,
    NoDoc,
    Slots,          \* 1..n, bound: requests under way
    MaxText,        \* bound: texts that are typed, here or elsewhere
    MaxVersion      \* bound: versions of a document

VARIABLES
    store,      \* the documents of the server
    shown,      \* docId of the editor, NoDoc while it is closed
    view,       \* loading, loadError
    current,    \* docRef and versionRef
    buffer,     \* what the editor contains
    label,      \* saveState
    locked,     \* lockedByOther
    call,       \* the requests under way
    last,       \* history: the text last typed into each document
    held,       \* history: the texts the server has stored
    unseen      \* history: texts of others that this editor has not loaded

editor == <<shown, view, current, buffer, label>>
history == <<last, held, unseen>>
vars == <<store, editor, locked, call, history>>

Text == [of : Docs, n : 0..MaxText]
First(d) == [of |-> d, n |-> 0]
NoText == [of |-> NoDoc, n |-> 0]

\* Only "heard" answers find the component that asked.
Call == [op : {"load", "save", "colour"}, doc : Docs, version : 1..MaxVersion,
         text : Text \cup {NoText}, at : {"sent", "ok", "stale", "failed"}, heard : BOOLEAN]
Idle == [op |-> "none"]

TypeOK ==
    /\ store \in [Docs -> [version : 1..MaxVersion, text : Text]]
    /\ shown \in Docs \cup {NoDoc}
    /\ view \in {"loading", "shown", "failed"}
    /\ current \in [doc : Docs \cup {NoDoc}, version : 1..MaxVersion]
    /\ buffer \in Text \cup {NoText}
    /\ label \in {"saved", "unsaved", "saving", "conflict", "error"}
    /\ locked \in BOOLEAN
    /\ call \in [Slots -> Call \cup {Idle}]
    /\ last \in [Docs -> Text] /\ held \subseteq Text /\ unseen \subseteq held

Init ==
    /\ store = [d \in Docs |-> [version |-> 1, text |-> First(d)]]
    /\ shown = NoDoc /\ view = "loading" /\ current = [doc |-> NoDoc, version |-> 1]
    /\ buffer = NoText /\ label = "saved" /\ locked = FALSE
    /\ call = [s \in Slots |-> Idle]
    /\ last = [d \in Docs |-> First(d)]
    /\ held = {First(d) : d \in Docs} /\ unseen = {}

-----------------------------------------------------------------------------
\* Requests

Free(calls) == {s \in Slots : calls[s] = Idle}
Queued(calls, c) ==
    [calls EXCEPT ![CHOOSE s \in Free(calls) : \A t \in Free(calls) : s <= t] = c]

Loading(d) == [op |-> "load", doc |-> d, version |-> 1, text |-> NoText,
               at |-> "sent", heard |-> TRUE]
Saving == [op |-> "save", doc |-> current.doc, version |-> current.version,
           text |-> buffer, at |-> "sent", heard |-> TRUE]
Colouring == [op |-> "colour", doc |-> current.doc, version |-> current.version,
              text |-> NoText, at |-> "sent", heard |-> TRUE]

\* The numbers of texts so far, here, elsewhere and under way.
Sent == {call[s].text : s \in Slots \ Free(call)}
Typed == {t.n : t \in held \cup {last[d] : d \in Docs} \cup {buffer} \cup Sent}
NextText == CHOOSE n \in 1..(MaxText + 1) : n \notin Typed /\ \A m \in 1..(n - 1) : m \in Typed

\* What is typed can still be saved within the bound.
Room == current.version + Cardinality(Slots \ Free(call)) < MaxVersion

-----------------------------------------------------------------------------
\* The person at the editor

\* onUpdate, and rename.
Type ==
    /\ shown # NoDoc /\ view = "shown" /\ ~locked
    /\ NextText <= MaxText /\ Room
    /\ buffer' = [buffer EXCEPT !.n = NextText]
    /\ last' = [last EXCEPT ![buffer.of] = buffer']
    /\ label' = "unsaved"
    /\ UNCHANGED <<store, shown, view, current, locked, call, held, unseen>>

\* save, by the autosave timer, the button Save, or the button Done.
Save ==
    /\ shown # NoDoc /\ current.doc # NoDoc /\ Free(call) # {}
    /\ \/ label = "unsaved" /\ ~locked
       \/ view = "shown" /\ label \notin {"saved", "saving"}
    /\ label' = "saving"
    /\ call' = Queued(call, Saving)
    /\ UNCHANGED <<store, shown, view, current, buffer, locked, history>>

\* NoteColors
Colour ==
    /\ shown # NoDoc /\ view = "shown" /\ current.doc # NoDoc /\ ~locked
    /\ Free(call) # {} /\ current.version + 1 < MaxVersion
    /\ call' = Queued(call, Colouring)
    /\ UNCHANGED <<store, editor, locked, history>>

\* Mutant: the pending save is dropped with its timer.
Unflushed(calls) == calls

\* flushPendingSave: nobody waits for the answer.
Pending == current.doc # NoDoc /\ label = "unsaved" /\ ~locked
Flushed(calls) ==
    IF Pending THEN Queued(calls, [Saving EXCEPT !.heard = FALSE]) ELSE calls

\* Mutant: loads are not cancelled; the last answer wins.
Uncancelled == call

\* A load that is under way is cancelled.
Cancelled ==
    [s \in Slots |-> IF call[s] # Idle /\ call[s].op = "load" THEN Idle ELSE call[s]]

\* A link, a breadcrumb or a backlink is followed.
Switch(d) ==
    /\ shown \notin {NoDoc, d}
    /\ Cardinality(Free(Cancelled)) >= (IF Pending THEN 2 ELSE 1)
    /\ shown' = d /\ view' = "loading"
    /\ call' = Queued(Flushed(Cancelled), Loading(d))
    /\ UNCHANGED <<store, current, buffer, label, locked, history>>

\* Back to the list; answers find nobody any more.
Close ==
    /\ shown # NoDoc
    /\ Pending => Free(Cancelled) # {}
    /\ shown' = NoDoc /\ view' = "loading" /\ current' = [doc |-> NoDoc, version |-> 1]
    /\ buffer' = NoText /\ label' = "saved" /\ locked' = FALSE
    /\ LET calls == Flushed(Cancelled)
       IN  call' = [s \in Slots |-> IF calls[s] = Idle \/ calls[s].at # "sent" THEN Idle
                                    ELSE [calls[s] EXCEPT !.heard = FALSE]]
    /\ UNCHANGED <<store, history>>

Open(d) ==
    /\ shown = NoDoc /\ Free(call) # {}
    /\ shown' = d
    /\ call' = Queued(call, Loading(d))
    /\ UNCHANGED <<store, view, current, buffer, label, locked, history>>

-----------------------------------------------------------------------------
\* The server: get_doc, and update_doc with its compare-and-swap

Answered(s, c) == call' = [call EXCEPT ![s] = IF c.heard THEN c ELSE Idle]

ServeLoad(s) ==
    LET c == call[s] IN
    /\ c.op = "load"
    /\ call' = [call EXCEPT ![s].at = "ok", ![s].version = store[c.doc].version,
                            ![s].text = store[c.doc].text]
    /\ UNCHANGED <<store, held>>

Stored(c) ==
    [version |-> c.version + 1, text |-> IF c.op = "save" THEN c.text ELSE store[c.doc].text]

ServeUpdate(s, outcome) ==
    LET c == call[s] IN
    /\ c.op \in {"save", "colour"}
    /\ IF c.version = store[c.doc].version
       THEN /\ c.version < MaxVersion
            /\ store' = [store EXCEPT ![c.doc] = Stored(c)]
            /\ held' = held \cup {Stored(c).text}
            /\ Answered(s, [c EXCEPT !.at = outcome])
       ELSE Answered(s, [c EXCEPT !.at = "stale"]) /\ UNCHANGED <<store, held>>

Serve(s) ==
    /\ call[s] # Idle /\ call[s].at = "sent"
    /\ ServeLoad(s) \/ ServeUpdate(s, "ok")
    /\ UNCHANGED <<editor, locked, last, unseen>>

\* The request, or its answer, does not arrive.
Fail(s) ==
    /\ call[s] # Idle /\ call[s].at = "sent"
    /\ \/ Answered(s, [call[s] EXCEPT !.at = "failed"]) /\ UNCHANGED <<store, held>>
       \/ ServeUpdate(s, "failed")
    /\ UNCHANGED <<editor, locked, last, unseen>>

\* Somebody else, or an agent, saves the document.
OtherSaves(d) ==
    /\ NextText <= MaxText /\ store[d].version < MaxVersion
    /\ LET text == [of |-> d, n |-> NextText]
       IN  /\ store' = [store EXCEPT ![d] = [version |-> @.version + 1, text |-> text]]
           /\ held' = held \cup {text} /\ unseen' = unseen \cup {text}
    /\ UNCHANGED <<editor, locked, call, last>>

-----------------------------------------------------------------------------
\* The answers

Done(s) == call' = [call EXCEPT ![s] = Idle]

HearLoad(s) ==
    LET c == call[s] IN
    /\ c # Idle /\ c.op = "load" /\ c.at \in {"ok", "failed"}
    /\ IF c.at = "ok"
       THEN /\ view' = "shown" /\ label' = "saved" /\ buffer' = c.text
            /\ current' = [doc |-> c.doc, version |-> c.version]
            /\ unseen' = unseen \ {c.text}
       ELSE view' = "failed" /\ UNCHANGED <<current, buffer, label, unseen>>
    /\ Done(s)
    /\ UNCHANGED <<store, shown, locked, last, held>>

\* Mutant: what was typed during the request is marked clean.
LabelClean(c) == "saved"

\* Edits made during the request are still to be saved.
LabelAfter(c) == IF buffer = c.text THEN "saved" ELSE "unsaved"

\* Mutant: after a conflict the newer version is taken over, but not its text.
HearSaveInsists(s) ==
    LET c == call[s] IN
    /\ c # Idle /\ c.op = "save" /\ c.at # "sent"
    /\ current' = [doc |-> c.doc, version |-> store[c.doc].version]
    /\ label' = (IF c.at = "ok" THEN LabelAfter(c) ELSE IF c.at = "stale" THEN "conflict" ELSE "error")
    /\ Done(s)
    /\ UNCHANGED <<store, shown, view, buffer, locked, history>>

HearSave(s) ==
    LET c == call[s] IN
    /\ c # Idle /\ c.op = "save" /\ c.at # "sent"
    /\ IF c.at = "ok"
       THEN current' = [doc |-> c.doc, version |-> c.version + 1] /\ label' = LabelAfter(c)
       ELSE label' = (IF c.at = "stale" THEN "conflict" ELSE "error") /\ UNCHANGED current
    /\ Done(s)
    /\ UNCHANGED <<store, shown, view, buffer, locked, history>>

\* applyColor, onStale
HearColour(s) ==
    LET c == call[s] IN
    /\ c # Idle /\ c.op = "colour" /\ c.at # "sent"
    /\ IF c.at = "ok"
       THEN current' = [doc |-> c.doc, version |-> c.version + 1] /\ UNCHANGED label
       ELSE label' = "conflict" /\ UNCHANGED current
    /\ Done(s)
    /\ UNCHANGED <<store, shown, view, buffer, locked, history>>

\* A sub-page, an image or a deletion fails meanwhile; the label has one place.
OtherFails ==
    /\ shown # NoDoc
    /\ label' = "error"
    /\ UNCHANGED <<store, shown, view, current, buffer, locked, call, history>>

\* usePresence: somebody else takes the lock, or leaves it.
Beat ==
    /\ shown # NoDoc
    /\ locked' = ~locked
    /\ UNCHANGED <<store, editor, call, history>>

Ask == Save \/ Colour \/ (\E d \in Docs : Switch(d) \/ Open(d)) \/ Close
Answer == \E s \in Slots : Serve(s) \/ HearLoad(s) \/ HearSave(s) \/ HearColour(s)
Trouble == (\E s \in Slots : Fail(s)) \/ (\E d \in Docs : OtherSaves(d)) \/ OtherFails \/ Beat

Next == Type \/ Ask \/ Answer \/ Trouble

Spec == Init /\ [][Next]_vars

-----------------------------------------------------------------------------
\* Properties

\* A document holds what was typed into it, and not the text of another document
\* ("awaiting the old doc's response would clobber the new doc's identity",
\* flushPendingSave).
TextStays == \A d \in Docs : store[d].text.of = d

\* "Saved" is said of a text only if the server has stored it ("Edits made during
\* the request would otherwise be marked clean", save).
SavedIsStored == view = "shown" /\ label = "saved" => buffer \in held

\* What others have written is replaced by this editor only after it was loaded
\* ("a 409 means someone else wrote first, and their version wins").
OthersAreSeen ==
    \A d \in Docs :
        store[d].text \in unseen /\ store'[d].text # store[d].text => store'[d].text \in unseen'

\* Where no answer is awaited, what was typed into a document has been stored, unless
\* it is on the screen and about to be: leaving a document saves it, too ("the edit
\* made in the previous 900 ms was silently discarded", flushPendingSave).  And no
\* conflict is reported.  It is so if nobody else writes, nothing fails, and the
\* person waits for answers before asking more, but for a document that is loading.
NothingIsForgotten ==
    /\ label \notin {"conflict", "error"}
    /\ (\A s \in Slots : call[s] = Idle) =>
          \A d \in Docs :
              store[d].text = last[d] \/ (d = shown /\ label = "unsaved" /\ buffer = last[d])

=============================================================================
