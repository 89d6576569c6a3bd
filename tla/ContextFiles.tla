---------------------------- MODULE ContextFiles ----------------------------
(***************************************************************************)
(* One file of a project's context folder: fsmemory/regenerator.py,        *)
(* fsmemory/locks.py and services/context_service.py (pin, adopt).  The    *)
(* files of a pack share nothing but the transaction that saves their      *)
(* rows; its failure because of another file is an Abort here.             *)
(*                                                                         *)
(* What the file should say is rendered before the project lock is taken,  *)
(* the file is written under the lock, and the row that remembers its      *)
(* checksum is committed after the lock is released.  Pinning and adopting *)
(* take no lock at all, and a person edits the file with any editor.       *)
(***************************************************************************)
EXTENDS Naturals

CONSTANTS
    Requests,   \* requests served at the same time
    Texts,      \* what a person may write into the file
    NoFile,     \* no file; as a checksum, no row
    Returns,    \* the plans with a carriage return in what is rendered from them
    MaxData     \* bound: the plan changes this often

ASSUME TextsAssumption == NoFile \notin Texts
ASSUME DataAssumption ==
    MaxData \in Nat /\ Returns \subseteq 0..MaxData /\ Texts \cap Nat = {} /\ NoFile \notin Nat

VARIABLES
    authored,   \* spec.authored: the renderer has but a scaffold for it
    data,       \* the plan the file is rendered from: the changes so far
    disk,       \* the bytes of the file
    row,        \* the row of contextfile
    call,       \* what each request is doing
    unpinned,   \* history: somebody has taken the pin away
    wish        \* history: the last decision of a person about the file

vars == <<authored, data, disk, row, call, unpinned, wish>>

\* atomic_io.write_text makes line feeds of carriage returns, which _sanitize leaves
\* inside a line: the file does not hold the text that was hashed, but one of its own.
Written(t) == IF t \in Returns THEN MaxData + 1 + t ELSE t

\* A checksum stands for the bytes it was taken from.
Sums == Nat \cup Texts \cup {NoFile}
Row == [sum : Sums, pinned : BOOLEAN]
NoRow == [sum |-> NoFile, pinned |-> FALSE]

\* "old" is the row as the request read it, "new" as its session holds it,
\* "seen" the file as it looked, "op" what was asked for.
Call == [at : {"idle", "rendered", "locked", "writing", "adopting", "saving"},
         op : {"regenerate", "keep", "release"},
         ctx : Nat, seen : Sums, old : Row, new : Row]

Idle == [at |-> "idle", op |-> "regenerate", ctx |-> 0, seen |-> NoFile,
         old |-> NoRow, new |-> NoRow]

HasLock(r) == call[r].at \in {"locked", "writing"}

\* Types; and the project lock is held once.
TypeOK ==
    /\ authored \in BOOLEAN
    /\ data \in 0..MaxData
    /\ disk \in Sums
    /\ row \in Row
    /\ call \in [Requests -> Call]
    /\ unpinned \in BOOLEAN
    /\ wish \in {"none", "keep", "release"}
    /\ \A r, q \in Requests : HasLock(r) /\ HasLock(q) => r = q

\* A person may have written the file before Planarus knew of it.
Init ==
    /\ authored \in BOOLEAN
    /\ data = 0
    /\ disk \in Texts \cup {NoFile}
    /\ row = NoRow
    /\ call = [r \in Requests |-> Idle]
    /\ unpinned = FALSE
    /\ wish = "none"

Exists(x) == x.sum # NoFile

\* A request that has read the row; that has looked at the file.
Holding(c) == [c EXCEPT !.at = "locked", !.old = row, !.new = row]
Looked(c, next, x) == [c EXCEPT !.at = next, !.seen = disk, !.new = x]

-----------------------------------------------------------------------------
\* regenerate

Render(r) ==
    /\ call[r] = Idle
    /\ call' = [call EXCEPT ![r] = [Idle EXCEPT !.at = "rendered", !.ctx = data]]
    /\ UNCHANGED <<authored, data, disk, row, unpinned, wish>>

\* Mutant: nobody waits for the lock.
LockAnyway(r) ==
    /\ call[r].at = "rendered"
    /\ call' = [call EXCEPT ![r] = Holding(@)]
    /\ UNCHANGED <<authored, data, disk, row, unpinned, wish>>

\* project_lock, and the rows read under it.
Lock(r) ==
    /\ call[r].at = "rendered"
    /\ \A q \in Requests : ~HasLock(q)
    /\ call' = [call EXCEPT ![r] = Holding(@)]
    /\ UNCHANGED <<authored, data, disk, row, unpinned, wish>>

\* Mutant: a legacy row of an authored file is not pinned.
PinnedByRow(x) == Exists(x) /\ x.pinned

\* An authored file is pinned as soon as it has a row.
Pinned(x) == Exists(x) /\ (x.pinned \/ authored)

Drifted(x) == Exists(x) /\ disk # NoFile /\ disk # x.sum

\* What the row becomes if the file is left alone: a pinned row takes the
\* checksum of what is there, a drifted one keeps its own.
Left(x) == [sum |-> IF Pinned(x) /\ Drifted(x) THEN disk ELSE x.sum,
            pinned |-> Pinned(x)]

\* Left alone: pinned, edited by hand, or as it would be written anyway.
Spared(x, ctx) == Pinned(x) \/ Drifted(x) \/ (Exists(x) /\ disk = ctx)

\* An authored file that was there before its row.
Adoptable(x) == ~Exists(x) /\ authored /\ disk # NoFile

\* The row of a file that is taken over as it is, and of one that is written: it has
\* the checksum of what was rendered, not of what write_text makes of it.
Adopted == [sum |-> disk, pinned |-> TRUE]
Fresh(x, ctx) == [sum |-> ctx, pinned |-> IF Exists(x) THEN x.pinned ELSE authored]

Look(r) ==
    /\ call[r].at = "locked"
    /\ LET x == call[r].old
           ctx == call[r].ctx
       IN  \/ /\ Spared(x, ctx)
              /\ call' = [call EXCEPT ![r] = Looked(@, "saving", Left(x))]
           \/ /\ Adoptable(x)
              /\ call' = [call EXCEPT ![r] = Looked(@, "saving", Adopted)]
           \/ /\ ~Spared(x, ctx) /\ ~Adoptable(x)
              /\ call' = [call EXCEPT ![r] = Looked(@, "writing", Fresh(x, ctx))]
    /\ UNCHANGED <<authored, data, disk, row, unpinned, wish>>

\* atomic_io.write_text; nothing later needs the lock.
Write(r) ==
    /\ call[r].at = "writing"
    /\ disk' = Written(call[r].ctx)
    /\ call' = [call EXCEPT ![r].at = "saving"]
    /\ UNCHANGED <<authored, data, row, unpinned, wish>>

-----------------------------------------------------------------------------
\* set_pinned and adopt_on_disk

\* The wish "keep" pins, "release" takes the pin away.
Pinning(op) == [Idle EXCEPT !.at = "saving", !.op = op, !.old = row,
                            !.new = [row EXCEPT !.pinned = (op = "keep")]]
Adopting == [Idle EXCEPT !.at = "adopting", !.op = "keep", !.old = row]

PinRead(r, op) ==
    /\ call[r] = Idle
    /\ Exists(row)
    /\ call' = [call EXCEPT ![r] = Pinning(op)]
    /\ UNCHANGED <<authored, data, disk, row, unpinned, wish>>

AdoptRead(r) ==
    /\ call[r] = Idle
    /\ Exists(row)
    /\ call' = [call EXCEPT ![r] = Adopting]
    /\ UNCHANGED <<authored, data, disk, row, unpinned, wish>>

\* Mutant: adoption does not pin.
AdoptUnpinned(r) ==
    /\ call[r].at = "adopting"
    /\ disk # NoFile
    /\ call' = [call EXCEPT ![r] = Looked(@, "saving", [call[r].old EXCEPT !.sum = disk])]
    /\ UNCHANGED <<authored, data, disk, row, unpinned, wish>>

\* Adoption pins.
AdoptLook(r) ==
    /\ call[r].at = "adopting"
    /\ disk # NoFile
    /\ call' = [call EXCEPT ![r] = Looked(@, "saving", Adopted)]
    /\ UNCHANGED <<authored, data, disk, row, unpinned, wish>>

AdoptMissing(r) ==
    /\ call[r].at = "adopting"
    /\ disk = NoFile
    /\ call' = [call EXCEPT ![r] = Idle]
    /\ UNCHANGED <<authored, data, disk, row, unpinned, wish>>

-----------------------------------------------------------------------------
\* The end of every request

\* The unique key of contextfile lets a row be inserted once.
Insertable(c) == Exists(c.old) \/ ~Exists(row)

\* Mutant: the whole row is written back.
UpdatedWhole(c) == c.new

\* An UPDATE names the columns the session has changed.
Updated(c) == [sum |-> IF c.new.sum = c.old.sum THEN row.sum ELSE c.new.sum,
               pinned |-> IF c.new.pinned = c.old.pinned THEN row.pinned ELSE c.new.pinned]

Saved(c) == IF Exists(c.old) THEN Updated(c) ELSE c.new

Save(r) ==
    /\ call[r].at = "saving"
    /\ Insertable(call[r])
    /\ row' = Saved(call[r])
    /\ unpinned' = (unpinned \/ (row.pinned /\ ~row'.pinned))
    /\ wish' = IF call[r].op = "regenerate" THEN wish ELSE call[r].op
    /\ call' = [call EXCEPT ![r] = Idle]
    /\ UNCHANGED <<authored, data, disk>>

SaveRefused(r) ==
    /\ call[r].at = "saving"
    /\ ~Insertable(call[r])
    /\ call' = [call EXCEPT ![r] = Idle]
    /\ UNCHANGED <<authored, data, disk, row, unpinned, wish>>

-----------------------------------------------------------------------------
\* Around the requests

\* The plan changes (any other service), the file is edited or deleted.
Plan ==
    /\ data < MaxData
    /\ data' = data + 1
    /\ UNCHANGED <<authored, disk, row, call, unpinned, wish>>

Edit ==
    /\ disk' \in Texts \cup {NoFile}
    /\ disk' # disk
    /\ UNCHANGED <<authored, data, row, call, unpinned, wish>>

\* An exception, a lost database or the end of the process: the lock is gone,
\* the row is not saved, and the file stays as it is.
Abort(r) ==
    /\ call[r] # Idle
    /\ call' = [call EXCEPT ![r] = Idle]
    /\ UNCHANGED <<authored, data, disk, row, unpinned, wish>>

Work(r) ==
    \/ Render(r) \/ Lock(r) \/ Look(r) \/ Write(r)
    \/ \E op \in {"keep", "release"} : PinRead(r, op)
    \/ AdoptRead(r) \/ AdoptLook(r) \/ AdoptMissing(r)
    \/ Save(r) \/ SaveRefused(r)

Next ==
    \/ \E r \in Requests : Work(r) \/ Abort(r)
    \/ Plan
    \/ Edit

Spec == Init /\ [][Next]_vars

-----------------------------------------------------------------------------
(***************************************************************************)
(* Properties                                                              *)
(***************************************************************************)

\* A regeneration writes over a text it has found in the file only if the file
\* is not authored and Planarus has no row of it yet, or if somebody has taken
\* its pin away: whatever pins, adoptions and regenerations overlap, hand-written
\* text that was adopted or pinned is not lost to a regeneration that saw it
\* (the decision table of regenerator.py; "Adoption pins", adopt_on_disk).
HandWrittenIsSpared ==
    \A r \in Requests :
        call[r].at = "writing" /\ call[r].seen \in Texts =>
            ~authored /\ (~Exists(call[r].old) \/ unpinned)

\* Only a request to take the pin away takes it away: a regeneration or an
\* adoption that read the row before it was pinned does not write that back
\* (set_pinned, and the columns an UPDATE names).
PinsStay ==
    [][row.pinned /\ ~row'.pinned =>
          \E r \in Requests : call[r].op = "release" /\ call'[r] # call[r]]_vars

=============================================================================
