------------------------------ MODULE Projects -------------------------------
(***************************************************************************)
(* The projects of a workspace (services/project_service.py): creation and *)
(* change of the folder with the check that no two roots overlap,          *)
(* archiving, the slug of a duplicate, and the purge with all rows of the  *)
(* project, in requests that overlap.  Local mode: with accounts, roots    *)
(* are derived from ids and nobody chooses one.                            *)
(*                                                                         *)
(* A slug is the sequence of its base and the numbers of its copies; long  *)
(* bases leave no room, and [:60] cuts the numbers off.                    *)
(***************************************************************************)
EXTENDS Naturals, Sequences

CONSTANTS
    Ids,            \* of projects
    Kids,           \* rows of projects
    Requests,
    Bases, Long,    \* slugs people choose; the long ones
    Folders, Within,\* roots; <<a, b>>: a is b or below it
    NoFolder,
    None, Gone,     \* not there yet; deleted
    MaxCopies,      \* bound on the numbers of the copies of one project
    Engine

VARIABLES
    project,    \* the rows of the projects
    owner,      \* the project of each row
    call

vars == <<project, owner, call>>

\* There are no copies of copies.
Slugs == {<<b>> : b \in Bases} \cup {<<b, n>> : b \in Bases, n \in 1..MaxCopies}

Project == [slug : Slugs, folder : Folders \cup {NoFolder}, archived : BOOLEAN]

Call == [at : {"idle", "creating", "moving", "archiving", "purging", "purged", "copying"},
         id : Ids \cup {None}, slug : Slugs \cup {<<>>}, folder : Folders \cup {NoFolder},
         archive : BOOLEAN,     \* archive or unarchive
         was : BOOLEAN,         \* archived when it was read
         holds : BOOLEAN,       \* something is written and not committed
         rows : SUBSET Kids]    \* of the project, deleted and not committed

Idle == [at |-> "idle", id |-> None, slug |-> <<>>, folder |-> NoFolder,
         archive |-> FALSE, was |-> FALSE, holds |-> FALSE, rows |-> {}]

TypeOK ==
    /\ project \in [Ids -> Project \cup {None, Gone}]
    /\ owner \in [Kids -> Ids \cup {None, Gone}]
    /\ call \in [Requests -> Call]

Init ==
    /\ project = [p \in Ids |-> None]
    /\ owner = [k \in Kids |-> None]
    /\ call = [r \in Requests |-> Idle]

There == {p \in Ids : project[p] \notin {None, Gone}}
RowsOf(p) == {k \in Kids : owner[k] = p}

Goto(r, c) == call' = [call EXCEPT ![r] = c]

\* May r write to project p?  SQLite has one writer, PostgreSQL locks rows.
Free(r, p) ==
    \A q \in Requests \ {r} : call[q].holds => Engine # "sqlite" /\ call[q].id # p

-----------------------------------------------------------------------------
\* Mutant: only equal roots overlap.
OverlapsSame(a, b) == a = b

\* roots_overlap
Overlaps(a, b) == <<a, b>> \in Within \/ <<b, a>> \in Within

\* _assert_no_overlap; a project without a folder is not checked.
RootOk(p, f) ==
    f # NoFolder =>
       \A q \in There \ {p} : project[q].folder # NoFolder => ~Overlaps(f, project[q].folder)

SlugFree(s) == \A q \in There : project[q].slug # s

\* create_project up to its INSERT ...
CreateRead(r, p, s, f) ==
    /\ call[r] = Idle
    /\ project[p] = None /\ \A q \in Requests : call[q].id # p
    /\ RootOk(p, f)
    /\ Goto(r, [Idle EXCEPT !.at = "creating", !.id = p, !.slug = s, !.folder = f])
    /\ UNCHANGED <<project, owner>>

\* ... and from there; a slug that is taken is a conflict, and undone.
Inserted(r) ==
    /\ Free(r, call[r].id)
    /\ project' = IF SlugFree(call[r].slug)
                    THEN [project EXCEPT ![call[r].id] =
                             [slug |-> call[r].slug, folder |-> call[r].folder,
                              archived |-> FALSE]]
                    ELSE project
    /\ Goto(r, Idle)
    /\ UNCHANGED owner

CreateWrite(r) == call[r].at = "creating" /\ Inserted(r)

\* update_project with a folder: a title in the same patch is flushed by the
\* SELECT of the check, so that the transaction writes before it checks.
MoveRead(r, p, f, titled) ==
    /\ call[r] = Idle
    /\ p \in There /\ RootOk(p, f)
    /\ titled => Free(r, p)
    /\ Goto(r, [Idle EXCEPT !.at = "moving", !.id = p, !.folder = f, !.holds = titled])
    /\ UNCHANGED <<project, owner>>

\* The UPDATE of a row that is gone fails.
MoveWrite(r) ==
    /\ call[r].at = "moving" /\ Free(r, call[r].id)
    /\ project' = IF call[r].id \in There
                    THEN [project EXCEPT ![call[r].id].folder = call[r].folder]
                    ELSE project
    /\ Goto(r, Idle)
    /\ UNCHANGED owner

ArchiveRead(r, p, on) ==
    /\ call[r] = Idle
    /\ p \in There
    /\ Goto(r, [Idle EXCEPT !.at = "archiving", !.id = p, !.archive = on,
                            !.was = project[p].archived])
    /\ UNCHANGED <<project, owner>>

\* set_archived: a stamp that was not set when it was read is not cleared.
ArchiveWrite(r) ==
    /\ call[r].at = "archiving" /\ Free(r, call[r].id)
    /\ project' = IF call[r].id \in There /\ (call[r].archive \/ call[r].was)
                    THEN [project EXCEPT ![call[r].id].archived = call[r].archive]
                    ELSE project
    /\ Goto(r, Idle)
    /\ UNCHANGED owner

-----------------------------------------------------------------------------
\* duplicate_project (what is in the copy: Copies)

\* [:60]
Cut(s) == IF s[1] \in Long THEN <<s[1]>> ELSE s

\* _unique_slug: what is looked up is not what is cut.
FirstFree(base, n) ==
    SlugFree(Append(base, n)) /\ \A m \in 1..(n - 1) : ~SlugFree(Append(base, m))

CopyRead(r, p, new) ==
    /\ call[r] = Idle
    /\ p \in There /\ Len(project[p].slug) = 1
    /\ project[new] = None /\ \A q \in Requests : call[q].id # new
    /\ \E n \in 1..MaxCopies :
          /\ FirstFree(project[p].slug, n)
          /\ Goto(r, [Idle EXCEPT !.at = "copying", !.id = new,
                                  !.slug = Cut(Append(project[p].slug, n))])
    /\ UNCHANGED <<project, owner>>

CopyWrite(r) == call[r].at = "copying" /\ Inserted(r)

-----------------------------------------------------------------------------
\* purge_project

PurgeRead(r, p) ==
    /\ call[r] = Idle
    /\ p \in There /\ project[p].archived
    /\ Goto(r, [Idle EXCEPT !.at = "purging", !.id = p])
    /\ UNCHANGED <<project, owner>>

\* The audit event and the DELETEs, table by table, that others do not see yet.
PurgeRows(r) ==
    /\ call[r].at = "purging" /\ Free(r, call[r].id)
    /\ Goto(r, [call[r] EXCEPT !.at = "purged", !.holds = TRUE, !.rows = RowsOf(call[r].id)])
    /\ UNCHANGED <<project, owner>>

\* The DELETE of the project and the commit; a row that has come since refers to
\* the project, and everything is undone.
PurgeCommit(r) ==
    /\ call[r].at = "purged"
    /\ IF RowsOf(call[r].id) \subseteq call[r].rows
         THEN /\ project' = [project EXCEPT ![call[r].id] = Gone]
              /\ owner' = [k \in Kids |-> IF k \in call[r].rows THEN Gone ELSE owner[k]]
         ELSE UNCHANGED <<project, owner>>
    /\ Goto(r, Idle)

\* A row of a project is created, whatever kind it is.
AddRow(k, p) ==
    /\ owner[k] = None /\ p \in There
    /\ Engine = "sqlite" => \A q \in Requests : ~call[q].holds
    /\ owner' = [owner EXCEPT ![k] = p]
    /\ UNCHANGED <<project, call>>

Abort(r) ==
    /\ call[r] # Idle
    /\ Goto(r, Idle)
    /\ UNCHANGED <<project, owner>>

Work(r) ==
    \/ \E p \in Ids, s \in {<<b>> : b \in Bases}, f \in Folders \cup {NoFolder} :
          CreateRead(r, p, s, f)
    \/ \E p \in Ids, f \in Folders \cup {NoFolder}, titled \in BOOLEAN : MoveRead(r, p, f, titled)
    \/ \E p \in Ids, on \in BOOLEAN : ArchiveRead(r, p, on)
    \/ \E p, new \in Ids : CopyRead(r, p, new)
    \/ \E p \in Ids : PurgeRead(r, p)
    \/ CreateWrite(r) \/ MoveWrite(r) \/ ArchiveWrite(r) \/ CopyWrite(r)
    \/ PurgeRows(r) \/ PurgeCommit(r) \/ Abort(r)

Next == (\E r \in Requests : Work(r)) \/ (\E k \in Kids, p \in Ids : AddRow(k, p))

Spec == Init /\ [][Next]_vars

-----------------------------------------------------------------------------
\* Rows belong to projects that exist, and slugs are unique, however requests
\* overlap: a purge takes all rows of the project, or none.
RowsBelong ==
    /\ \A k \in Kids : owner[k] \notin {None, Gone} => owner[k] \in There
    /\ \A p, q \in There : project[p].slug = project[q].slug => p = q

\* No two projects share a directory (_assert_no_overlap: "two projects must never
\* share a directory").  One request at a time.
RootsAreApart ==
    \A p, q \in There : p # q /\ NoFolder \notin {project[p].folder, project[q].folder} =>
        ~ (<<project[p].folder, project[q].folder>> \in Within)

\* A duplicate is not refused because of its slug (_unique_slug: "First free"),
\* unless the slug is too long for what tells it apart.  One request at a time.
CopiesAreNamed ==
    \A r \in Requests : call[r].at = "copying" /\ call[r].slug[1] \notin Long =>
        SlugFree(call[r].slug)

\* Only archived projects are purged.  One request at a time.
ArchivedFirst == \A p \in There : project'[p] = Gone => project[p].archived

=============================================================================
