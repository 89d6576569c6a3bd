----------------------------- MODULE DocExports ------------------------------
(***************************************************************************)
(* export_doc_markdown (services/doc_service.py): the Markdown of a        *)
(* document is written into the folder of its project, unless the file     *)
(* there is not what the last export wrote.  The document is read before   *)
(* the lock of the folder is waited for, the file is read and written      *)
(* under it, and the checksum is committed after it.  People save the      *)
(* document and edit the file at any time; exports overlap and die.        *)
(***************************************************************************)
EXTENDS Naturals

CONSTANTS
    Requests,
    Texts,      \* what people write into the file
    NoFile,
    Returns,    \* the saves with a carriage return in their Markdown
    MaxText     \* bound on the saves of the document

VARIABLES
    text,       \* markdown_cache: the number of the save
    disk,       \* what is in the file
    sum,        \* export_checksum, or NoFile
    call

vars == <<text, disk, sum, call>>

\* atomic_io.write_text makes line feeds of carriage returns: the file does not hold
\* the text that was hashed, but one of its own.
Written(t) == IF t \in Returns THEN MaxText + 1 + t ELSE t

Files == (0..(2 * MaxText + 1)) \cup Texts \cup {NoFile}

\* "found": in the file, under the lock.
Call == [at : {"idle", "read", "locked", "writing", "saving"},
         text : 0..MaxText, sum : Files, found : Files]

Idle == [at |-> "idle", text |-> 0, sum |-> NoFile, found |-> NoFile]

TypeOK ==
    /\ text \in 0..MaxText /\ disk \in Files /\ sum \in (0..MaxText) \cup {NoFile}
    /\ call \in [Requests -> Call]

Init ==
    /\ text = 0 /\ disk \in Texts \cup {NoFile} /\ sum = NoFile
    /\ call = [r \in Requests |-> Idle]

Locked(r) == call[r].at \in {"locked", "writing"}
Goto(r, c) == call' = [call EXCEPT ![r] = c]

Read(r) ==
    /\ call[r] = Idle
    /\ Goto(r, [Idle EXCEPT !.at = "read", !.text = text, !.sum = sum])
    /\ UNCHANGED <<text, disk, sum>>

\* project_lock
Lock(r) ==
    /\ call[r].at = "read" /\ \A q \in Requests : ~Locked(q)
    /\ Goto(r, [call[r] EXCEPT !.at = "locked"])
    /\ UNCHANGED <<text, disk, sum>>

Drifted(c) == c.sum # NoFile /\ disk # NoFile /\ disk # c.sum

\* The checksums are those of the Markdown as it is stored.  A file that was changed
\* outside is a conflict; a file that is right is not written, and only recorded if
\* the document was never exported.
Look(r) ==
    LET c == call[r] IN
    /\ c.at = "locked"
    /\ Goto(r, IF Drifted(c) \/ (disk = c.text /\ c.sum # NoFile) THEN Idle
               ELSE [c EXCEPT !.at = IF disk = c.text THEN "saving" ELSE "writing",
                              !.found = disk])
    /\ UNCHANGED <<text, disk, sum>>

\* atomic_io.write_text; the lock is given back.
Write(r) ==
    /\ call[r].at = "writing"
    /\ disk' = Written(call[r].text)
    /\ Goto(r, [call[r] EXCEPT !.at = "saving"])
    /\ UNCHANGED <<text, sum>>

\* Mutant: only the first export records the file.
SaveFirst(r) ==
    /\ call[r].at = "saving"
    /\ sum' = IF call[r].sum = NoFile THEN call[r].text ELSE sum
    /\ Goto(r, Idle)
    /\ UNCHANGED <<text, disk>>

\* The row, written as far as it changes, and the commit.
Save(r) ==
    /\ call[r].at = "saving"
    /\ sum' = IF call[r].text # call[r].sum THEN call[r].text ELSE sum
    /\ Goto(r, Idle)
    /\ UNCHANGED <<text, disk>>

Abort(r) ==
    /\ call[r] # Idle
    /\ Goto(r, Idle)
    /\ UNCHANGED <<text, disk, sum>>

\* update_doc
SaveContent ==
    /\ text < MaxText /\ text' = text + 1
    /\ UNCHANGED <<disk, sum, call>>

EditFile ==
    /\ disk' \in (Texts \cup {NoFile}) \ {disk}
    /\ UNCHANGED <<text, sum, call>>

Work(r) == Read(r) \/ Lock(r) \/ Look(r) \/ Write(r) \/ Save(r)

Next == (\E r \in Requests : Work(r) \/ Abort(r)) \/ SaveContent \/ EditFile

Spec == Init /\ [][Next]_vars

-----------------------------------------------------------------------------
\* What people wrote into the file is only written over by the first export of
\* the document, or where it was gone again when the export looked.
EditsAreSpared ==
    \A r \in Requests :
        call[r].at = "writing" /\ call[r].found \in Texts => call[r].sum = NoFile

\* Between exports one at a time, a text in the file that Planarus wrote is what the
\* text of the checksum became there.  Without a carriage return that is the text
\* itself, and it is never taken for an edit from outside; with one the checksum
\* fits no file, and the next export is refused (export_doc_markdown hashes the
\* text that write_text is about to change).
OwnTextIsKnown ==
    (\A r \in Requests : call[r] = Idle) /\ disk \in Nat =>
       sum \in 0..MaxText /\ disk = Written(sum)

=============================================================================
