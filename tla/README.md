# Planarus in TLA+

Planarus is a local-first project planner: people edit plans and documents in a
web interface, agents read them and *propose* changes, people approve the
proposals, and the program applies them. This directory holds TLA+ models of the
parts of its API (`apps/api/app`) that decide something on data other requests
are changing, and of its document editor in the browser, TLC configurations that check them on small instances, and proofs
of almost everything that holds, for instances of any size. Paths below are relative to
`apps/api/app` unless they start elsewhere.

To check a run: `tlc -config <name>.cfg <module>` (the table under *Runs* names
both). To check the proofs: `tlapm <module>Proofs.tla`.
`PROJECT.json` lists for every definition the source lines it stands for, for
every property a mutation of the code that breaks it, and the hazards the
properties are for.

1. [The setting](#1-the-setting)
2. [Inventory](#2-inventory)
3. [Modules and the code](#3-modules-and-the-code)
4. [Runs](#4-runs)
5. [Bounds, and why they are enough](#5-bounds-and-why-they-are-enough)
6. [Fairness](#6-fairness)
7. [Proofs](#7-proofs)
8. [Disagreements with docs and comments](#8-disagreements-with-docs-and-comments)
9. [Behaviour seen and not claimed otherwise](#9-behaviour-seen-and-not-claimed-otherwise)
10. [What is not modelled](#10-what-is-not-modelled)
11. [Plan](#11-plan)

## 1. The setting

The endpoints are synchronous functions, so the server runs them in a thread
pool: **two requests are served at the same time** and each has its own database
session. There is one API process (`core/runtime.py` refuses a second worker); a
separate MCP process writes proposals, and operators run commands against the
same database. Locks in memory therefore hold in the API process, and everything
else is up to the database:

- **SQLite** (default, WAL). A SELECT outside a transaction sees what is
  committed at that moment and opens none. The driver (Python 3.11's `sqlite3`,
  in its legacy transaction mode) issues BEGIN at the first INSERT, UPDATE or
  DELETE, *not* at a SELECT or a SAVEPOINT. From there to the commit nobody else
  writes; a waiting writer gives up after `busy_timeout`.
- **PostgreSQL**, READ COMMITTED. A statement sees what is committed when it
  starts; a row is locked by the one who updated it or selected it FOR UPDATE;
  an INSERT waits for an uncommitted row with the same unique key.

Nearly every service has one shape: *read rows, decide, write, commit*. The ORM
writes back only columns whose value changed since the row was read, with an
UPDATE by primary key. The dangerous step is between the read and the write, and
the models cut every operation there: **an action is what happens between two
points at which somebody else's effect could be seen**. What a request has read
is kept in its `call` record; what it has written and not committed is not in the
shared variables. `Abort(r)` ends a request at any of its stages, as an
exception, a lock timeout, a lost database or the end of the process does; since
nothing uncommitted is in the shared variables, it only drops the `call`.

## 2. Inventory

For every component: its state, its operations, what it interacts with, what is
hard about it, and what makes it correct. The status is that of `PROJECT.json`.

### Approval engine (modelled: `Approvals`)

- *State*: rows of `approvalrequest` (status, fingerprint of the target at the
  time of the proposal, idempotency key), their audit events, and the canonical
  rows they change.
- *Operations*: `create_proposal`, `approve`, `reject`, `invalidate`, `apply`,
  `expire_sweep` (`services/approval_service.py`), the apply handlers
  (`policy/handlers.py`) and the proposal's binding to its target
  (`policy/binding.py`).
- *Interactions*: agents propose through MCP or the external API; people decide
  through the web interface; the handlers write tasks, documents, connections...
- *Hard*: every call decides on a row read before its write; `apply` is a claim,
  a revalidation, a mutation and a commit in one transaction with a rollback and
  a second transaction on failure; retries; two proposals with one key.
- *Correct if*: nothing reaches canonical data without an approval of that very
  proposal; mutation, status and audit event are atomic; an update applies once
  and never over an edit it was not proposed for; one active row per key; no row
  is stranded in `applying`; calls end.

### Outbound webhooks (modelled: `Webhooks`)

- *State*: rows of `webhooksubscription` (enabled, failure count) and
  `webhookdelivery`, the events a session has collected, the pool's queue in
  memory.
- *Operations*: the two session listeners, the delivery job, redelivery, test,
  creation and deletion of subscriptions (`services/webhook_service.py`,
  `api/v1/endpoints/webhooks.py`).
- *Interactions*: every change that writes an audit event; receivers outside.
- *Hard*: collected before a commit, sent after it; two jobs read one failure
  count and write it back; a restart loses the queue.
- *Correct if*: what is sent has happened and is sent once to every subscription
  enabled then; a subscription is disabled only for failures; every delivery gets
  an outcome.

### Entity connections (modelled: `Dependencies`)

- *State*: rows of `entity_connection`; the entities they name, without a
  foreign key.
- *Operations*: create (with the walk for cycles), delete, and the deletion of
  an entity together with its connections.
- *Hard*: a cycle is a property of the whole graph, and two requests can close
  one together; the lock must order the walks on both databases.
- *Correct if*: the dependencies of a project stay acyclic; each appears in one
  step of an abstract graph; none outlives its entities.

### Planning entities (partly: `Planning`); order of rows (modelled: `Ordering`); sidebar todos (modelled: `Todos`)

- *State*: tasks with sub-tasks, phases with stages, milestones, custom statuses;
  the position column of lists; the tree of todos.
- *Operations*: create, update, delete of each; reorder; the todo walks up (no
  cycle) and down (delete the subtree).
- *Hard*: the checks read rows other requests change, and foreign keys see only
  existence; a deletion must find everything that refers to the row; a position comes
  from the caller, from the highest there is or from a count.
- *Correct if*: tasks and todos are forests; no row has an undefined status;
  nothing becomes undeletable; lists are in the order people gave them.

### Copies of projects (modelled: `Copies`)

- *Operations*: `duplicate_project`, `export_project`, `import_project` over the
  walk of `services/project_graph.py`, kind after kind.
- *Hard*: people edit the source during the walk; a file may be from anywhere.
- *Correct if*: a copy refers to nothing outside itself and has every row that
  was left alone.

### Project lifecycle (modelled: `Projects`)

- *State*: project rows with slug, folder and archive time; the rows of a project.
- *Operations*: create, change of folder, archive, the slug of a duplicate, purge.
- *Hard*: the check of overlapping folders reads all other rows; a purge deletes
  kind by kind while rows are added.
- *Correct if*: a purge takes a project with all its rows or leaves it; folders
  do not overlap; only archived projects are purged.

### Accounts and server admins (modelled: `Accounts`)

- *State*: rows of `appuser` (admin and active flags), the claim row of
  `setting`.
- *Operations*: registration and first login, creation by an admin, activation,
  deactivation, promotion, demotion.
- *Hard*: the first account becomes admin, decided by an INSERT that many may
  try; the last active admin must not go, decided by a conditional UPDATE under
  locks.
- *Correct if*: a server with accounts keeps an active admin and an empty one
  gets at most one by registration.

### Sessions and passwords (modelled: `Sessions`)

- *State*: the password identity of an account (password, must-change flag), its
  session rows.
- *Operations*: login, logout, expiry, change of password, reset, deactivation.
- *Hard*: verifying and hashing take a tenth of a second between the read and
  the write that rests on it.
- *Correct if*: no session outlives the password it rests on, and a temporary
  password must be changed.

### Provider sign-in (modelled: `OAuth`)

- *State*: one-time transactions, the binder cookie, identities linked to
  accounts.
- *Operations*: start of a login or a link, the callback, the account it creates.
- *Hard*: callbacks repeat, overlap and come from another browser or after
  somebody else has signed in.
- *Correct if*: a transaction lets one callback through, of the browser that
  started it; an identity is linked only to an account that asked for it.

### Workspace members (modelled: `Members`)

- *State*: rows of `workspacemember`.
- *Operations*: creating a workspace, claiming an empty one, adding a member,
  changing a role, removing a member.
- *Hard*: each operation counts owners in one statement and writes in another,
  without a lock.
- *Correct if*: a workspace with members keeps an owner, and nobody enters but
  through an owner.

### External API keys, rate limiter, settings switches (partly: `ExternalApi`)

- *State*: rows of `apiclient`, windows and slots per key in memory, two switches
  of `setting` and a copy of one in memory.
- *Operations*: issue, revoke, authenticate, count a request, take and return a
  slot, evict a window, save the settings, restart.
- *Hard*: three stores (database, limiter, mirror) that change at different
  moments; eviction must not reset more than a window.
- *Correct if*: a revoked key stays so; slots are held by requests that work (and lost
  only with a proposal that the database failed); a key passes at most two windows'
  hits in the time of one; the mirror tells the row.

### Documents (modelled: `Documents`, `DocExports`); presence (modelled: `Presence`)

- *State*: rows of `doc` (content, version, parent, export checksum), rows of
  `mention`, the exported Markdown file, and who has a document open (in memory).
- *Operations*: create, save, move, delete, the repair of parent links, the
  approved edit of an agent (`_apply_doc_update`), export; heartbeat, leave,
  snapshot.
- *Interactions*: editors hold a version for minutes; the approval engine writes
  content outside `update_doc`; people edit the exported file.
- *Hard*: the parent chain is read row by row; a delete writes rows it has read
  before; the version is the only guard of a save; the file is written before the
  checksum is committed; heartbeats come late and the caps evict.
- *Correct if*: no save overwrites content its editor has not seen, the mentions
  tell the content up to their limit, the parents form a tree, the repair mends what is left; an
  export spares edits of the file; nobody takes the place of an editor who is
  there.

### Document editor in the browser (partly: `Editor`)

- *State* (`DocEditor` in `apps/web/src/app/DocsPanel.tsx`): the document shown,
  the document and version the next save is for (`docRef`, `versionRef`), what the
  editor contains, the save label, the lock of `usePresence.ts`, the requests under
  way.
- *Operations*: open, close, switch in place along a link, type, save (by the timer
  or a button), flush on leaving, colour; and the answers.
- *Interactions*: `update_doc` with its version check; other editors and agents.
- *Hard*: answers come in any order and change an editor that by then may show
  another document; the label is state of the program and shared by everything
  that can fail.
- *Correct if*: "saved" is said of what the server has stored; no text of others is
  overwritten unseen; the last edit of a document is stored when it is left; a
  document holds no other document's text.

### Context folder (partly: `ContextFiles`)

- *State*: Markdown files that agents read, one row of `contextfile` per file
  (checksum, pin), a lock per folder in memory.
- *Operations*: regeneration, pinning, adoption of a hand edit
  (`fsmemory/regenerator.py`, `services/context_service.py`).
- *Hard*: people edit the files with any editor; the text is rendered before the
  lock, the file is written under it, the row is committed after it; pins and
  adoptions take no lock.
- *Correct if*: text somebody adopted or pinned is not written over, a pin stays
  until it is taken away, and database and disk agree when nothing overlaps.

### Jobs that act outside the database (modelled: `Backups`, `Mails`, `CalendarSync`)

- *Backups* (`services/backup_service.py`): create, verify, prune, restore over
  the database's own files; a restore that stops anywhere must be repeatable and
  reversible, and a sound backup must stay.
- *Reminder mails* (`services/email_service.py`): the cap of a day is counted
  once and the log is committed at the end; the log must be true and the cap hold for
  all mails whose reply arrived.
- *Calendar* (`services/calendar_sync_service.py`): events are pushed one by one before
  the commit; nothing may be there twice, and what the token covers must be in
  the rows.

### Repository cockpit (modelled: `Git`)

- *State*: the repository itself (working tree, index, a merge in progress,
  history), the snapshot kept for three seconds and the time of the last fetch,
  both in memory (`services/git_service.py`, `api/v1/endpoints/git.py`).
- *Operations*: the views, `fetch`, `commit`, `merge` with its abort.
- *Interactions*: the person at the command line, who works in the same tree.
- *Hard*: no lock spans two git commands; a view is built while something changes
  and is kept afterwards; git fails, hangs and is killed; `git status` does not tell
  everything.
- *Correct if*: an answer is as recent as it says and shows what it reports as
  done; nobody's work is lost, spoilt or left half merged; what was tried is in the
  audit; fetches keep their distance.

### Context packs (partly: `ContextPacks`)

- *State*: the sources of one pack, their sizes, and what was cut or dropped
  (`services/context_pack_service.py`).
- *Hard*: five kinds of sources, pins, a soft budget that is met in steps and a
  cap that is not negotiable; governance that is missing must be agreed to.
- *Correct if*: what matters least goes first, nothing goes without need, and no
  pack lacks its scope unless somebody confirmed it.

### Proposal policy; MCP server and external router (partly, inside `Approvals` and `ExternalApi`)

`policy/allowlist.py` binds a proposal to one listed action on one target; the
models start from such a proposal. `mcp/` and `api/external/` only read and call
`create_proposal`, from another process or another thread: `Approvals` lets a
proposal be made at any moment, which is all they can do. Paging, problem bodies
and resources concern one request each.

### Components that are not modelled

| component | why not |
| --- | --- |
| Single-process guard, operator commands | start-up checks of the environment; what they enforce is the assumption of every module |
| GitHub pull requests, prompt profiles | a list that is read and kept for a minute; constants |
| Read models (timeline, roadmap, calendar view, notifications) and agent runs | queries, and single rows without a rule between them |
| The rest of the web interface, extension | clients: their requests are the actions of the other modules. The canvas editor has an autosave of its own |

## 3. Modules and the code

Each component has a module; `MC...` extends or instantiates it for TLC, and
`...Proofs` extends that with the theorems, so that what is proved is proved of the
specification the run checks. Abstract specifications have a module of their own. The
operators marked `Mutant:` in the modules are plausible faults of the code; no
action uses them, and each breaks the property `PROJECT.json` names for it.

| module | stands for | proofs | checked by way of |
| --- | --- | --- | --- |
| `ApprovalContract` | the life cycle of one proposal, as the docstrings promise it | | `Approvals` implements it, one request at a time |
| `Approvals` | `services/approval_service.py`, `policy/binding.py`, `policy/handlers.py` | `ApprovalsProofs` | `MCApprovals`, `MCGate`, `MCPostgres` |
| `Webhooks` | `services/webhook_service.py`, `api/v1/endpoints/webhooks.py` | `ApprovalsProofs` | `MCPostgres` |
| `DependencyGraph` | a graph that grows by one edge that closes no cycle | | `Dependencies` implements it |
| `Dependencies` | `services/entity_connection_service.py`, `delete_task` | `PlansProofs` | `MCDependencies`, `MCPlans` |
| `Planning` | the services of tasks, phases, stages, milestones, status options | `PlansProofs` | `MCPlanning`, `MCPlans` |
| `Ordering` | `services/planning_reorder.py` and the positions of creations and updates | `PlansProofs` | `MCPlans` |
| `Todos` | `services/todo_service.py` | `PlansProofs` | `MCPlans` |
| `Copies` | `services/project_graph.py`, `export_service.py`, `duplicate_project` | `PlansProofs` | `MCPlans` |
| `Accounts` | registration in `services/auth_service.py`, `services/admin_service.py` | `PeopleProofs` | `MCAccounts`, `MCPeople` |
| `Members` | `api/v1/endpoints/members.py`, `workspaces.py` | `MembersProofs`, `PeopleProofs` | `MCMembers`, `MCPeople` |
| `Sessions` | passwords and sessions in `auth_service.py`, `admin_service.py` | `SessionsProofs`, `PeopleProofs` | `MCPeople` |
| `OAuth` | `services/oauth.py`, the OAuth endpoints, `link_identity` | `OAuthProofs`, `PeopleProofs` | `MCPeople` |
| `Projects` | `services/project_service.py` | `PeopleProofs` | `MCPeople` |
| `ExternalApi` | `api/external/auth.py`, `core/rate_limit.py`, `services/api_client_service.py`, the switches of `settings_service.py` | `PeopleProofs` | `MCPeople` |
| `Documents` | `services/doc_service.py`, `core/hierarchy.py`, `services/mention_service.py` | `DocumentsProofs` | `MCDocuments`, `MCEditing` |
| `DocExports` | the export in `services/doc_service.py` | `DocumentsProofs` | `MCEditing` |
| `Presence` | `services/presence_service.py` | `DocumentsProofs` | `MCEditing` |
| `Editor` | `DocEditor` and `NoteColors` in `apps/web/src/app/DocsPanel.tsx`, `usePresence.ts`, `update_doc` | `DocumentsProofs` | `MCEditing`, `EditorClobber` |
| `ContextFiles` | `fsmemory/regenerator.py`, `fsmemory/locks.py`, `services/context_service.py` | `OutsideProofs` | `MCContextFiles`, `MCOutside` |
| `Backups`, `Mails`, `CalendarSync` | `services/backup_service.py`, `email_service.py`, `calendar_sync_service.py` | `OutsideProofs` | `MCOutside` |
| `Git` | `services/git_service.py`, `api/v1/endpoints/git.py` | `OutsideProofs` | `MCOutside` |
| `ContextPacks` | `services/context_pack_service.py` | `OutsideProofs` | `MCOutside` |

**The host modules.** Components that share no rows would each need a run of
their own for little work. A host (`MCGate`, `MCPostgres`, `MCPlans`, `MCPeople`,
`MCOutside`, `MCEditing`) instantiates several of them side by side: its variable
`part` is chosen in the first state and says which one runs, while the variables
of the others are 0, or keep their initial values. The same first state chooses the
database where it matters (`engine`, `server`), and whether requests overlap:
`serial`, `calm`, `pcalm` and `xcalm` are servers that serve one request after
the other. A property that is promised only without overlap names that variable,
so that one run shows both what holds always and what holds calmly. The sets and
bounds of the parts are CONSTANTS of the host, with the assumptions the proofs need
(`HooksAssumption`, `CopiesAssumption`, `GitAssumption`, ...); only the requests for
packs that TLC tries (`Trimmed`, `Scoped`) and a few names are fixed in the host.

**Approvals.** `status`, `base` and `trail` are the committed row, its
fingerprint and its audit events; `ver` and `live` are the rows proposals change;
`done` counts mutations. Reading and deciding is `...Read`, the write is
`CreateCommit`, `DecisionCommit` or the stages of `apply`: `ApplyClaim` (the
compare-and-swap into `applying`, uncommitted, so `status` does not change),
`ApplyRevalidate` (under the lock of the target), `ApplyCommit`, or `ApplyRaise`
with `ApplyReread` and `ApplyNote`, which record the failure in a second
transaction. `HoldsRow` and `HoldsTarget` say who waits for whom on either
database. Versions stand for fingerprints: a save gives a target a new one.

**Webhooks.** `Write`, `Commit`, `ReadSubs`, `Queue` and `Submit` are a
change from its first statement to the pool: what the listener collects before
the commit and sends after it (`Flush` is the purge's, which comes too early). `Take`, `Post` and `Record` are a delivery; the
worker carries the failure count it read before the POST. `Restart` empties the
queue. `sent` are the rows of `webhookdelivery`; `due`, `answers`, `bad`, `streak` and
`lost` remember what was owed.

**Dependencies.** `LockGraph`, `Walk` and `Insert` are `create_connection` for a
dependency: the no-op UPDATE of the project row, the breadth-first walk, the
INSERT with the commit. `Validate` and `Insert` are the other relations, which
take no lock. `Purge` and `DeleteTask` are the deletion of an entity: the DELETE
of its connections opens the transaction, the DELETE of its row commits.
Reachability is stated by closed sets, so that the proofs need no induction.

**Planning, Ordering, Todos.** `...Read` is everything a request reads and
checks, `...Write` its writes and commit, with the foreign keys (`KeysOk`,
`Deletable`). `Patched` and `Written` are the column-wise UPDATE of the ORM. A
milestone stands for every row that has a phase and a status. `Ordering` is one
list, of a plan or of todos (their new positions differ). `CreateRead` and `CreateWrite`
are a creation, which computes a position or gets it from the caller; `PlaceRead` and
`PlaceWrite` an update that sets it; `ReorderRead` and `ReorderWrite` a renumbering.
`want` is the order people asked for, as the set of pairs of which the first comes
before the second: a number asks for the place it puts the row in. In `Todos` every row of
a walk is a step.

**Copies.** `Kinds` is the order of the walk over `ENTITIES`; `CopyStep` and
`ExportStep` read one kind and remap what refers to earlier kinds; `Touch`,
`Create`, `Move`, `Delete` are people, held off by SQLite's lock where the copy
writes. `Given` is a file from elsewhere. `touched` says what was left alone.

**Accounts.** `RegisterRead`, `Claim`, `CreateAccount` are a registration on an
empty server; without `Claim` on any other. `ReadTarget` decides between the
guarded branch (`LockAdmins`, `Flip`, `CommitFlip`) and `Plain`. `won` and `lost`
say how the INSERT of the claim ended; on SQLite the claim is committed by the
RELEASE of its savepoint, because no transaction was begun.

**Members.** `AddRead`/`AddInsert` and `ChangeRead`/`ChangeWrite` are the check
and the write of the endpoints; `CreateWorkspace` commits the workspace and
leaves a request that is about to add its owner.

**Sessions.** `LoginVerify`, `LoginActive`, `LoginStore` are the stages of a
login; `ChangeRead`/`ResetRead`, `Write`, `Commit` replace a password and revoke
the sessions found, with the must-change flag written only if it differs from
what was read. `epoch` counts revocations.

**OAuth.** `Start` writes a transaction and the cookie; `Claim` is the conditional
UPDATE of `consume_transaction` and `Consume` its commit, with the comparison of
the binder; from there a link or a login reads and writes identities. `served` and `asked` remember whom
a transaction let through and who wanted a link.

**Projects, ExternalApi.** The `...Read`/`...Write` pairs again; `PurgeRows` and
`PurgeCommit` cut a purge where rows are still added; `FirstFree` is the number the slug of a
duplicate gets. In `ExternalApi` a request
is `Arrive`, `Authenticate`, `Hit`, `Acquire`, and `Release`, or `Leak` if the database
fails its proposal and the slot with it; `order` tells which of two tracked
keys was hit first, so that an eviction forgets the one hit longest ago; `SaveSettings`,
`ReadSwitch` and `SetMirror` are a settings write whose copy in memory follows
the commit.

**Documents.** `Open` is the GET that gives an editor its version. `SaveContent`
and `SaveParent` are the checks of `update_doc`; `Climb` is one row of
`validate_parent`'s walk; `Store` is the compare-and-swap with the mentions.
`DeleteRead` and `DeleteCommit` are `delete_doc`, whose commit fails where a
foreign key or a vanished row makes it fail. `AgentEdit` is one step, because
`apply` has locked the row. `Repair` runs between requests. An id is used once.
`Synced` replaces the mentions by the targets of a text: those it mentions, in the order
of `Rank` and cut at `MaxMentions` (`Targets`), of which the ones that exist get rows.
`Entities` are what else can be mentioned.

**DocExports.** `Read`, `Lock`, `Look`, `Write`, `Save` are an export of one
document: the drift check, the file under the lock, the checksum in the commit.
`Written` is what `write_text` makes of a text: one with a carriage return (`Returns`)
becomes another text, while the checksum is that of the text as it is stored.

**Presence.** One step is one call under the module's lock; `order` is the
dictionary's order, `seq` the claim counter. A heartbeat may carry a time up to
`MaxWait` old, because it reads the clock before it waits for the lock.

**ContextFiles.** One file; the files of a folder share nothing but the commit,
so the failure of another file is an `Abort`. A checksum stands for the bytes it
is of: a generated text is the number of the plan version it was rendered from,
a hand-written one a member of `Texts`, and what `write_text` makes of a rendered text
with carriage returns (`Written`, as in `DocExports`) a number above those. `Render`, `Lock`, `Look`, `Write`, `Save`
are a regeneration; `Look` holds the whole decision table. `Updated` is the
column-wise UPDATE of the ORM: that is what keeps an overlapping regeneration
from undoing a pin. `wish` and `unpinned` remember what people asked for.

**Backups.** The main file and the log (`main`, `wal`) have versions and an
identity, so that a log beside another main file is seen. A backup is
`BackupBegin`, `Written`, `Verify`, `Prune`, `Report`; a restore `MoveMain`,
`MoveWal`, `CopyBegin`, `CopyEnd`; either dies anywhere, `Start` opens what is
there.

**Mails, CalendarSync.** `Send` is an SMTP hand-over and cannot be undone; `Log`
takes the write lock, `Commit` ends it. Mails are counted from the first day on
(`Counts`), so that those of a day are a difference (`On`). `LoseReply` is a mail that
left although its hand-over failed: it is in `unsure` and not in `accepted`. `Push`, `List`, `Apply`, `Save` are a
synchronisation, of which `Apply` drops the events that have not changed (`Unchanged`)
and `Save` fails if a row it would update is gone; `Fail` is a failure of the provider in the middle of the pushes,
after which `set_status` commits what was pushed. `FailClean` is its mutant.

**Git.** Contents are edits: in the working tree, then staged, then committed. A
request is a sequence of git commands (`FetchBegin`/`FetchEnd`, `CommitBegin`,
`CommitAdd`, `CommitRun`, `MergeBegin`, `MergeRun`, `MergeAbort`, and `Look`,
`Store`, `Answer` for the view), and the person acts between any two of them. `since` of a snapshot
is a bound of its age, `acts` how many changes it shows. The stage of a merge in
progress says whether its conflicts are staged, and whether its resolution is what HEAD
holds (`same`), which leaves the status empty. `CommitTimeout` is a commit that was made
and then killed. `lost`, `spoilt` and `silent` remember damage.

**ContextPacks.** Sequential: governance, sources, then one trimming step after
another in `TrimOrder`. Sizes are small numbers; the estimate of tokens is one.
`Spec` starts with any request, the run with those that `MCOutside` chooses.

**Editor.** `call` are the requests under way; `Serve` is the server with its
compare-and-swap, `HearLoad`, `HearSave`, `HearColour` what the answers do to the
component as it is by then. `Switch` cancels a load, flushes, and keeps everything
else, because the component is not remounted; `Close` unmounts it, so that answers
find nobody (`heard`). A text is a number with the document it was typed into. Time
is not modelled: the autosave may come at any moment while the label is "unsaved".

## 4. Runs

| run (config) | module | distinct states | shows |
| --- | --- | --- | --- |
| `ApprovalsSqlite` | `MCGate` | 317,178 | Four requests over a local update and two equal creations on SQLite: gate, audit, key, single update, no stranded claim, in every interleaving with human edits, deletions, expiry and crashes. One at a time, every step is one of `ApprovalContract` and the trail tells the status. |
| `ApprovalsPostgres` | `MCPostgres` | 179,094 | The engine with row locks: an update is never applied over an edit it has not seen, and every call ends (no deadlock of row and target locks). The webhook outbox: what is sent has happened, is sent once and to everybody; a subscription is disabled only for failures; every delivery gets an outcome. |
| `ApprovalsTwice` | `MCApprovals` | violation | "exactly once" fails for a creation that two people approve. |
| `Dependencies` | `MCPlans` | 1,829,508 | Two requests on three tasks, on both databases: never a cycle, walk and INSERT are one step of `DependencyGraph`; on SQLite no dependency outlives its tasks. One at a time, the rows of a plan keep their references and stay deletable, lists keep the order people gave them by arranging or numbering, todos stay a tree. A copy is closed and complete whatever people edit. |
| `Accounts` | `MCPeople` | 996,525 | Three requests on PostgreSQL, SQLite and an empty PostgreSQL server: an active admin stays, at most one is made by registration. One at a time a workspace keeps an owner and no session outlives its password. Overlapping callbacks end a flow once and where it began. Purges are whole, slugs unique. Revoked keys stay so and no key passes more than its share. |
| `AccountsClaim` | `MCAccounts` | violation | On SQLite the claim outlives a failed registration: a server without admin. |
| `MembersLastOwner` | `MCMembers` | violation | Two owners who act on each other leave none. |
| `SessionsTempPassword` | `Sessions` | violation | A reset and a change of password overlap, and the temporary password is good for ever. |
| `Documents` | `MCEditing` | 506,171 | No lost save and true mentions in every interleaving; one at a time a tree, and a deletion moves only children; the repair mends everything overlapping moves leave. Exports spare edits of the file. Nobody takes the place of an editor who is there. The editor in the browser says "saved" of nothing else, overwrites nothing it has not shown, and forgets nothing. |
| `DocumentsCycle` | `MCDocuments` | violation | Two moves close a cycle. |
| `EditorClobber` | `Editor` | violation | A save that is answered after a link was followed makes the editor write one document's text into another. |
| `ContextFiles` | `MCOutside` | 1,677,618 | Hand-written text is spared and pins stay whatever overlaps; calm, database and disk agree and the last wish about the file holds. Restores are reversible wherever they stop and a sound backup stays; the log of mails is true and the cap holds but for lost replies; no calendar event is doubled and none is missed. Git answers are recent whatever overlaps; calm, they show what was done, and nobody's work is lost, spoilt or left half merged. Context packs drop what matters least, and only under need. |

The properties worth reading first:

- `NoEditOverwritten` (Approvals): an approved update is only made on the version
  it was proposed for. It takes an approval, a revalidation, a human save between
  the two and the lock to be dropped to break it.
- `UpdatesApplyAtMostOnce` (Approvals): although stale decisions *can* move an
  applied row back to `approved`, the fingerprint refuses a second update.
- `OutboxIsTrueAndComplete`, `DeliveriesAreSettled` (Webhooks): nothing is sent
  for a transaction that failed, and what the failure of one job may leave pending
  is said exactly (`lost`).
- `Acyclic` and `ImplementsGraph` (Dependencies): the walk's answer is still true
  at the INSERT, on a database that ignores FOR UPDATE too.
- `SerialPlanHolds` (Planning): among others that nothing becomes undeletable,
  which relates every deletion to all the ways a reference can have been written.
- `CopiesAreFaithful` (Copies): closedness over any edits between the kinds of the
  walk, and completeness for what nobody touched.
- `ServerHasAdmin` (Accounts): on SQLite the conditional UPDATE alone is enough,
  on PostgreSQL the locks are needed.
- `FlowsEndWhereTheyBegan` (OAuth): over callbacks that repeat, overlap, die, and
  arrive in a browser where somebody else has signed in meanwhile.
- `NoLostSave` (Documents): stated on the content the editor saw and not on the
  version, so that an agent edit that forgot to bump the version breaks it.
- `EditorsAreSafe` (Presence, Editor): over late beats, expiry and both evictions;
  and, for the editor, over answers in any order, saves of others, failures and the
  lock. Its third part, that nothing is forgotten, is for a person who waits for
  answers, alone.
- `CockpitIsSafe` (Git): what an answer shows against when it was asked and what
  was done, over a person who edits, merges and commits between any two
  git commands.
- `PacksAreFair` (ContextPacks): for every choice of sizes, pins and budgets, a
  source that was dropped could not have stayed.
- `HandWrittenIsSpared`, `CalmFileIsKept` (ContextFiles): what a regeneration may
  write over, over any history of edits, pins, unpins and adoptions.
- `BackupsAreSound` (Backups): over a restore that stops between any two steps, is
  repeated, and has its log beside another main file.
- `CalendarsAgree` (CalendarSync): what the token covers is in the rows, whatever
  the provider changes between push and list.

## 5. Bounds, and why they are enough

| bound | value | why |
| --- | --- | --- |
| `Requests`, `Pair` | 2 to 4 | Every race the services can lose needs two calls that have read the same row; a third lets a decided row be used again (`ApprovalsTwice` needs two approvals and two applications). In `Approvals` and `Webhooks` a request is served once, so the number bounds the calls; elsewhere a request starts again when it is done. |
| `Proposals` | 1 to 3 | One without a key, two of the same key; an update and creations. One waits since before the run, so that more calls are left for the rest. |
| `MaxVer` | 0 or 1 | Saves of a target by a human. One is what stands between a fingerprint and its check; `apply` adds its own. |
| `Menu` | 4 choices | Of the webhooks' requests: a change to two subscriptions; a change and a redelivery or test; a purge; two redeliveries or tests. |
| `Threshold`, `MaxFaults`, `Workers` | 2, 1, 2 | Failures until a subscription is disabled: one before the last. One request, job or process is cut short. Two deliveries overlap. |
| `Tasks`, `Rows` | 3 | The smallest cycle that no single pair of rows shows; a task, its parent and a third. If requests of `Planning`, `Todos` or `Ordering` overlap, at most two rows exist. |
| `Positioned`, `Numbers` | 4 rows; -1 and 2 | A move over neighbours on both sides, and a creation behind them. A position in front of all that are computed, and one that may be taken. |
| `Few`, touched rows | 2, 2 | A task and its sub-task; one row that changes and one it refers to. A purge touches all. |
| `Users` | 3 | Two admins or owners who act on each other and one who watches or joins. |
| `MaxEpoch` | 2; 3 in `SessionsTempPassword` | Revocations of all sessions: one in progress and one that overtakes it; the counterexample starts after one. |
| `Browsers`, `Txns` | 2, 2 | Two people or tabs, each with a flow. |
| Projects: ids, `MaxCopies` | 3 (2 if requests overlap), 2 | A project, its duplicate and a second duplicate, whose slug must differ from both. |
| ExternalApi: `Limit`, `Window`, `Slots`, `MaxTracked`, `Life`, `MaxClock`, `MaxWait` | 1, 2, 2, 1, 2, 3, 1 | One hit fills; a slot is lost while another is held, and then none is left; two keys compete for one tracked window; the clock passes a whole window and a key's end; a request reads the clock one unit before it counts. |
| `Docs`, `MaxDepth` | 3, 2 | A cycle of two and of three, and a chain that reaches the depth limit. `RepairConverges` is stated for instances with too few documents for a valid chain above the limit (64 in the code). |
| `MaxMentions`, `Entities` | 3, one task | A text that mentions three documents and a task has one target too many. |
| `Returns` | 1 (exports and context files) | The second of the generated texts has a carriage return, the first and the third have none. |
| `MaxVersion`, `MaxText` | 2 | A save, and a save over it; also caps the versions. |
| Presence: `Ttl`, `MaxDocs`, `MaxUsers`, `MaxClock`, `MaxSeq`, `MaxWait` | 2, 1, 2, 4, 3, 1 | Two documents compete for one place and three users for two; the clock passes an expiry and comes back to it; a beat is one unit late. |
| `Texts`, `MaxData` | 2, 2 | Two hand-written texts (to be replaced by each other) and three plans (to go back from the third to an older one). |
| Editor: `Docs`, `Slots`, `MaxText`, `MaxVersion` | 2, 2, 3, 4 | Two documents; two requests under way; edits and colours over an edit. If nobody waits: two texts, one update beside those of others and no colours (`EditorClobber` has them, with two texts and three versions). |
| Git: `TTL`, `Interval`, `MaxClock`, `MaxActs`, `Edits` | 1, 2, 3, 2, 2 | The clock passes a snapshot's life and the interval of fetches; a change and one over it. If requests overlap, or git fails: one edit, one success, no fetch, time up to 1. |
| ContextPacks: `Docs`, `Long`, `HardCap`, `MaxSize`, budgets | 2, 2, 9, 4; 2, 4, 7 | Documents of 1, or of 4 cut to 1 or 3: a document that is worth cutting and one that is not; five optional sources, at most one pinned; nothing, something and everything fits. Governance has all statuses of its three files. |
| Backups: `Keep`, `MaxStamp`, `MaxVer`, `MaxId` | 1, 3, 3, 3 | With retention one, every new backup removes one; three backups, commits and databases. If backups overlap, there are no restores. |
| Mails: `Rules`, `Cap`, `MaxDay` | 2, 3, 2 | A request sends up to two mails, so the second of a day meets the cap; a send goes over midnight. One reply is lost in a day. If requests overlap, two mails a day. |
| CalendarSync: `MaxRow`, `MaxUid`, `MaxClock` | 3, 2, 4 | A pushed, a pulled and a deleted event; the changes of two synchronisations. One synchronisation at a time. |

Symmetry is used over requests and, where nothing orders them, documents, texts
and tasks; never in `ApprovalsPostgres`, which has the liveness properties. No
property of another run is a liveness property, so the remaining symmetries are
sound. Deadlock is checked in `Documents`, `DocumentsCycle` and
`MembersLastOwner`, where the server can go on for ever; elsewhere a part of the
run ends when its requests, ids, clock or rows are used up (`CHECK_DEADLOCK
FALSE`), and `CallsEnd` and `DeliveriesAreSettled` say what would be wrong about
stopping. What these bounds cannot show is the subject of the proofs, which have
none.

## 6. Fairness

Two properties need it, both in `ApprovalsPostgres`.

`CallsEnd`: weak fairness of each request's `Step`. A thread of the pool keeps
running, and a lock that is free from some time on is had. Weak fairness is
enough because a lock is held only inside `apply`, by a request that is itself
fair. SQLite's writers do give up after `busy_timeout`, which is an `Abort`; so
the property is checked on PostgreSQL, where they wait.

`DeliveriesAreSettled`: weak fairness of each change from its first statement to
its end (`ChangeStep`), of the `Submit` of a redelivery or a test, and of each
worker of the pool: these are threads of the process, and a POST ends because it
has a timeout. Rows whose request or job died, or that were queued at a restart,
are exempt by name (`lost`): nothing in the code picks them up again.

Neither says anything of arrivals, of people, of time or of crashes: all those
may stay away for ever.

## 7. Proofs

All proofs hold for every value of the constants, on both databases where
`Engine` is one of them, and assume of the constants what the modules assume by
name: model values are distinct from the sets they are not in, bounds are natural
numbers, requests that are counted are finitely many, an engine is one of two. A
component states its own (`SetsAssumption`, `KeyAssumption`, ... in `Approvals`), a
host those of its parts (`PlanAssumption`, `CopiesAssumption`, ... in `MCPlans`). TLC
evaluates all of them in the runs. Few theorems have a hypothesis of their own. Those
that separate what holds from what sections 8 and 9 show not to hold are `Serial` of
the contract and, for accounts, that nobody is promoted (in `Guarded`, and in
`BootstrapOfPeople`); `RepairOfEditing` asks for too few documents for a valid chain
above the limit.

A theorem is about the specification of its component or about that of the host:
what is proved of a component's own actions is carried over, because in the host the
component runs by these actions or has no state. The instances of `Accounts` for
other servers in `MCPeople` have the theorems of `Accounts`, which hold for any engine.

| theorem | says | rests on |
| --- | --- | --- |
| `ApprovalsProofs!TypeCorrect` | types | one lemma per way a call or a row is written |
| `Gate`, `Audit`, `ClaimsUndone` | approval before application; one mutation per event; no row in `applying` | `GateInv` |
| `UpdatesOnce`, `EditsSurvive` | an update applies once, and on the version it was proposed for | `FreshInv` |
| `KeysUnique` | one active row per key | inductive as it stands |
| `LocksAreOrdered` | who is waited for holds more locks than who waits, and somebody can always go on | `OneWriter` |
| `SerialImplementsContract`, `SerialExactlyOnce` | one at a time, the engine implements `ApprovalContract`, and so applies once | `SerialInv` |
| `GateOfEngine`, `SerialEngine`, `EditsSurviveBeside` | the same in the specifications that choose between calls that overlap and calls that do not, or run webhooks beside; a trail ends with the status | `SerialInv`, `LoneNext` |
| `OutboxOfWebhooks` | what is sent has happened, is sent once, to everybody, and recorded | `HookInv` |
| `NoDeliveryForgotten` | a pending delivery is with a request, in the queue or with a worker, or was lost with what died | `PendingAreInHand`, `HookInv` |
| `FailuresOfWebhooks` | a subscription is disabled only after as many failures as the threshold; one delivery at a time, in a row | `HookCounts`, `HookLone` |
| `PlansProofs!AdditionKeepsAcyclic` | an edge whose target does not reach its source closes no cycle | closed sets |
| `AlwaysAcyclic`, `RefinesGraph` | never a cycle; `Dependencies` implements `DependencyGraph` | `GraphInv` |
| `DependenciesAreResolved` | on SQLite no dependency outlives its tasks | one writer |
| `PlanHolds` | one at a time, references hold, tasks are a forest, rows stay deletable | `PlanTyped`, `PlanSerial` |
| `CopiesAreTrue` | a copy refers to nothing outside itself and lacks no row that was left alone | `CopyInv` |
| `TodosStayTree` | one at a time, todos stay a tree; a deletion takes a whole subtree | `TodosInv`, `TodosSerial` |
| `OrderStaysAsAsked` | one at a time, a list is in the order people asked for, by arranging or by numbers | `OrderTyped`, `OrderSerial` |
| `PeopleProofs!ServerKeepsAdmin` | an active admin stays, `ASSUME Guarded` | `AdminInv` |
| `BootstrapOfPeople` | an empty server makes at most one admin by registration | `Bootstrap` |
| `SessionsOfPeople`, `MembersOfPeople`, `FlowsOfPeople` | the theorems of the next three rows, in the specification of the run | those |
| `SessionsProofs!SerialSessions` | one at a time, no session outlives its password and an issued one must be changed | `SerialInv` |
| `MembersProofs!SerialOwners` | one at a time, a workspace with members has an owner and is entered only through one | `SerialInv` |
| `OAuthProofs!OneCallback`, `LinksAreAsked` | a transaction lets one callback through, of the browser that started it; an identity is linked only to an account that asked, or came in through it | `FlowInv`, `AskedInv` |
| `RowsStayWithProjects`, `ProjectsOfPeople` | purges are whole and slugs unique; one at a time folders do not overlap and only archived projects go | `ProjectsInv`, `ProjectsSerial` |
| `KeysAreBounded`, `AccessOfPeople` | revoked keys stay so, slots are held by requests that work or were lost with a proposal, a key passes at most its share, the mirror tells the row | `ExternalInv`, `MirrorInv` |
| `DocumentsProofs!SavesAreSeen` | no save overwrites content its editor has not seen | `VersionInv` |
| `MentionsAreTrue` | the mentions are the links in the contents, up to the limit | `MentionInv` |
| `TreeOfEditing` | one at a time, the parents stay a tree and a deletion moves only children | `SerialTree` |
| `RepairEndsCycles` | the repair leaves no cycle, whatever the parents were | `CyclesEnd` |
| `RepairOfEditing` | and it touches no other document, up to `MaxDepth + 1` documents | pigeonhole |
| `ExportsOfEditing` | an export spares edits of the file; alone, the file is what was made of the text that was hashed | `ExportsInv`, `ExportsSerial` |
| `EditorsOfEditing` | nobody takes the place of an editor who is there; the editor in the browser is honest, writes over nothing unseen and, alone, forgets nothing | `PresenceInv`; `EditorInv`, `EditorSerial` |
| `OutsideProofs!HandWrittenSpared`, `PinsAreKept` | hand-written text and pins survive regenerations and adoptions | `PinInv` |
| `FilesOfOutside` | calm, database and disk agree (but for carriage returns) and the last wish holds | `FileCalm` |
| `BackupsOfOutside` | a restore is reversible wherever it stops; alone, a sound backup stays | `BackupInv`, `BackupCalm` |
| `MailsOfOutside` | the log is true; alone, the cap of a day holds but for lost replies | `MailInv`, `MailCalm` |
| `CalendarsOfOutside` | nothing the token covers is missing; if no request is lost, no event is doubled | `CalendarInv`, `CalendarCalm` |
| `CockpitOfOutside` | answers are recent; alone, they show what was done and no edit is lost, nor a merge that changes something | `GitInv`, `GitCalm` |
| `PacksFair`, `PacksOfOutside` | packs are trimmed in order and only under need, what is pinned last; none lacks its scope unconfirmed | `PackInv`, `PackTotal` |

Every proofs module has its type theorem too (`TypeCorrect`). Invariants called
`...Run` say that the part that runs has its invariant and the others have no state.
"One at a time" becomes, for a host, that at most one request is under way
(`AtMostOne`, from the cardinality the specification bounds); a request that is
alone still dies anywhere.

*The gate* (`GateInv`). "Every applied event has an approval before it" is not
inductive: a call that read the row as approved may run after somebody moved it.
What is inductive is that a trail only grows, so that "was approved once"
(`Approved`) is never lost, that every row in `approved`, `failed` or `applied`
was approved once, and so was the row of every call that has claimed
(`HasClaimed`). That the claim is a compare-and-swap on `Applicable` is where the
approval enters.

*Updates* (`FreshInv`). A call that may mutate holds the lock of its target, so
the target still has the fingerprint the revalidation compared, and no other call
can be at the same point. An update that was applied has left its fingerprint
behind for good (`base[p] < ver[TargetOf[p]]`, versions only grow), so no second
revalidation can succeed.

*Locks of the engine* (`OneWriter`). `WaitsFor` says whose lock a request waits for,
from the guards of its next step. Only a request in a transaction is waited for, and
one that has claimed its row waits, if at all, for a request that has locked the target
too (`LockOrder`); that one waits for nobody, since the handler may always raise. On
SQLite the claim is the lock of the only writer, so that no claimed request waits at
all: that needs `OneWriter`, which is inductive. The longest wait is of a decision for
a claimed row whose request waits for a target. `CanStep` is what every step asks for
(`StepsAskForLocks`); it is stated from the guards because `ENABLED` is beyond the
prover.

*One at a time* (`SerialInv` of Approvals). What the only running call read is
still so when it writes: the row is in a state from which the decision is allowed
(`Sources(to)`). That makes every step a step of `ApprovalContract` or a stutter.
`ApprovalsTwice` shows that the assumption `Serial` cannot be dropped.

*Webhooks* (`HookInv`). A delivery that will be POSTed is in exactly one place:
with the request that has not submitted it, in the queue, or with one worker
(`HookPlaces`); so it is sent once. What a change has collected but not yet written,
and what it has written but not yet submitted, is said of each stage of its loop
(`HookCalls`), so that the rows are complete when the loop ends, and what is missing
is in `lost`. A worker's copy of the failure count is never above the failures its
subscription has seen (`HookCounts`), although it may be older than the row; of
workers that do not overlap it is exactly the failures since the last success
(`HookLone`).

From hand to hand (`PendingAreInHand`): the step that takes a delivery from the request,
the queue or the worker gives it to the next, gives it an outcome, or adds it to `lost`.

*Dependencies* (`GraphInv`). One request holds the project row (`OneHolder`), and
what its walk answered stays true until its INSERT (`WalkStillTrue`): others can
only remove edges meanwhile, and removal makes nothing reachable. The graph fact
is `AdditionKeepsAcyclic`: from a set that separates the new edge's target from
its source and one that separates an old edge, it builds one for the new graph.

*Rows of a plan* (`PlanTyped`, `PlanSerial`). What the only request has read is the
database: references, statuses and the absence of children it checked are still
there when it writes (`PlanFound`); a deletion has found all that refers to its row.

*Copies* (`CopyInv`). Closed: every reference of the copy was remapped to a row
copied before (`CopyClosed`), by the order of the kinds (`CopyKindCloses`), whatever
the source looks like by then. Faithful: of the rows nobody has touched since the
copy began, those of the kinds already read are in the copy with what they
referred to (`CopyFaithful`); `CopyLocked` is SQLite's lock, from the first INSERT on.

*Todos and order.* The walk up has only passed rows whose parents it has passed
too, or is at; the walk down has a set that is closed below itself when it ends
(`TodosKnown`). In a list `want` is the order of the positions (`OrderSerial`), and what
the only request has read still holds when it writes (`OrderKnown`): a creation without
a number appends behind the highest there is (`HighestThere`), and a row that gets a
number leaves the order of the others as it was (`OrderAround`).

*Accounts* (`AdminInv`). Two requests never take the flag of two active admins at
the same time (`Flips`): on PostgreSQL each has locked both rows (`Locks`), on
SQLite one of them writes. `Guarded` says that nobody is promoted, and that on
SQLite the server has an admin from the start. Both are needed: section 8 shows
the second, section 9 tells why promotions break the first.

*Sessions, members* (`SerialInv` of each). Both are theorems about `SerialSpec`:
requests overlap with nobody, and any of them may die half way. What the only
request has read is then still true at its commit, and a replaced password takes
all sessions along in the same transaction. `SessionsTempPassword` and
`MembersLastOwner` show that the restriction cannot be dropped.

*Provider sign-in* (`FlowInv`, `AskedInv`). A transaction that is not consumed has
let nobody through, and a claimed one belongs to at most one callback in
progress: the conditional UPDATE is the only way to claim it. A cookie names a
transaction of its own browser, so equal binders mean equal browsers. What a callback is about to link, it took from its
transaction or from the account it created; `asked` only grows.

*Projects* (`ProjectsInv`, `ProjectsSerial`). A purge removes in one commit the rows
it found and the project, and only if no other row refers to the project by then; an
id in use by a creation is in use by no other (`ProjectsUnderway`). Alone, a request's
check of the folders is still true when it writes (`FoundIsSo`).

*External API* (`ExternalInv`). The share of a key needs the limiter's window
and the hits that were let through in one relation (`WindowIs`, `HitsAre`): the last
of them are as many as the window has counted and at most `MaxWait` older than its
start; those `Limit` before these are more than a whole window older. So the first and the last of `2 * Limit + 1`
hits are more than `Window - MaxWait` apart. The tracked keys are in the order of
their last hits (`InOrder`), so that there is an oldest one to forget, with its hits
(`OldestIs`). The slots taken are the requests that work and those that were lost
(`HeldSlots`). The mirror is a theorem of
one writer of settings (`MirrorInv`).

*Documents* (`VersionInv`, `MentionInv`). An editor whose version is still that of
the row has the content of the row (`Knows`); every write of content, an agent's
too, grows the version (`RowsGrow`). The compare-and-swap does the rest. For the
mentions: a content names only ids that have existed (`NamesExist`), and a
document that is new is named by nobody (`NewAreBlank`), so a creation owes no
mention to contents written before it. What a limit cuts depends on the text alone, and
an initial segment of an injective ranking has no more members than its length.

*The tree* (`SerialTree`). Every set that is closed under parents and has the new
parent also has the row at which the walk is (`WalkLeads`); when the walk ends at a
root without having met the document, the new edge closes no cycle (`WalkEnded`),
because nobody else has moved anything. `DocumentsCycle` shows what overlapping
moves do.

*The repair.* It is written with a recursive function, as the walk over a chain
of parents is. The proofs unfold it: the function exists (`RecursionExists`), and what it gives is
found by induction over `0..N`, stated for sets (`LeastIs`, `UpTo`). A walk on a
cycle never meets a root, and a link that was cleared stays so (`CyclesEnd`); for
the converse, a walk that makes one round more than there are documents has met
one twice.

*Exports* (`ExportsInv`, `ExportsSerial`). Alone, what an export has read of the row
is still there (`SumIsRead`), and the file is what `write_text` made of the text the row
knows, at all times but between the write and the save (`SumIsKnown`).

*Presence* (`PresenceInv`). The claims of a document are different (`Unique`) and none is
above the counter, so that a fresh claim is never the least one. So the editor changes
only where its entry goes or loses its claim, and the store says which way
(`PresenceMoves`); where a cap did it, as many others as the cap were counted
(`PresenceEvicts`, `PresenceFull`). What is kept of an order is a recursive function;
that it keeps each document once is an induction over the order (`PresenceAmong`).

*The editor* (`EditorInv`, `EditorSerial`). What others wrote and this editor has not
loaded can only be in the newest version of a document; a request that still carries
the newest version was made by somebody who had seen it (`EdKnows`), and the server
refuses every other. That holds of every request under way (`EdCall`), of the screen
(`EdCurrent`), and after any step of the server (`EdStays`), because a text of others
is new. One request at a time, an update that is awaited succeeds, and one that
nobody awaits succeeds only on a document that was left, with the text last typed
into it (`EdSerialCall`); a text that is not stored is on the screen, unsaved, or in
a save that will succeed (`EdKept`).

*Context files* (`PinInv`, `FileCalm`). Unless somebody took a pin away, a text that is
remembered in the row is pinned (`RowOk`). The difficulty is that a request
saves a row it read long before: `CallOk` relates the copies in every request to
the row, by what the request was asked to do, and the column-wise UPDATE of
`Updated` keeps the relation. Calm, the row knows the file, or the text it was
written from, unless somebody has just saved into it (`FileSync`), and the pin is the last wish (`FileWish`).

*Backups* (`BackupInv`, `BackupCalm`). Every version that a restore has displaced is
in a file aside, or in one with its log, at every stage and whatever dies
(`BackupFiles`, `BackupLasts`); the main file has a newer identity than those aside, and the log
is its own. One backup at a time, the one that is made is the newest, so that what
is pruned is not the one that was reported last unless this one is whole
(`BackupNewest`).

*Mails* (`MailInv`, `MailCalm`). Up to every day, the rows in the log, those the
writer has not committed and the mails that are handed over and have no row yet are
together at most the mails that were accepted. Alone, a request has counted all
accepted mails of the day (`sent`), and the log has them when it ends; a mail whose
reply is lost leaves all of these as they are.

*Calendar* (`CalendarInv`, `CalendarCalm`; both of one synchronisation at a time). A
change of the provider that the next token covers is in the answer of the request
that will store it, or in a row that has its etag already (`CalendarAnswer`, `CalendarTold`), and
the rows that request has looked up are still those (`CalendarFound`). If no request
is lost, an event that was pushed for a row is in that row or with the request that
pushed it (`CalendarGiven`, `CalendarFrom`).

*Cockpit* (`GitInv`, `GitCalm`). A snapshot that is answered was begun at most its
life before the answer was asked for; a merge with a conflict is with the request that will
abort it, unless git fails. Alone, the snapshot answered after a success was taken after it (`GitCalmCall`), and the times of
the fetches are the ones remembered (`GitHonest`).

*Packs* (`PackInv`). At each step of the trimming, the sources that rank before it are
gone and only those; cut documents appear from the sixth step on, and the victims that
are left rank before every document dropped. That a pack with the last victim was too
large needs its weight: the size of a pack is a fold in no particular order over the
documents, which equals the number of units they have (`PackTotal`), and that loses as
much as the victim has (`PackWithout`).

*Only model-checked.* `CallsEnd` and `DeliveriesAreSettled`: liveness under
fairness is beyond the prover. What is proved is the safety part of each: that some
request can go on (`LocksAreOrdered`) and that no delivery is forgotten
(`NoDeliveryForgotten`). Every safety property of a passing run has its theorem.
Theorems that take an operator as a parameter and `RECURSIVE` operators are beyond
the provers, so that no proof uses them: recursive definitions are functions, and
inductions are over sets, by well-foundedness.
## 8. Disagreements with docs and comments

Six runs end in a counterexample to something the repository says.

- `ApprovalsTwice`: the docstring of `apply` promises "exactly once". `approve`
  checks `pending` on the row it read and writes `approved` with an UPDATE by
  primary key. Two people approve one creation; it is applied after the first
  write; the second write brings it back to `approved`; a second `apply` creates
  the entity again. An update is safe, because its fingerprint is stale.
- `AccountsClaim`: the comment at `BOOTSTRAP_CLAIM_KEY` says the claim is written
  "in the same transaction as the winning account". On SQLite the driver opens no
  transaction for a savepoint, so its RELEASE commits the claim; if the account
  then fails, the server is claimed by nobody and no registration makes an admin.
- `MembersLastOwner`: the guide says the last owner can't be removed or demoted.
  Owners are counted in one statement and the role is written in another; two
  owners who demote each other both count two.
- `SessionsTempPassword`: the comment at `UserIdentity` says that an issued
  password only reaches the auth surface "until the user rotates it". A second
  reset reads the flag as set, so the ORM leaves it out of the UPDATE; a change of
  password that commits in between clears it, and the second temporary password
  need never be changed.
- `DocumentsCycle`: the comment in `validate_parent` says the walk finds a loop.
  It reads rows that another move is about to write, and the compare-and-swap
  covers only the moved row; *a* under *b* and *b* under *a* both commit. The
  repair would mend it (`RepairConverges`), but nothing calls it.
- `EditorClobber`: the comment on `flushPendingSave` says that awaiting the answer
  of `save()` after a switch "would clobber the new doc's identity", and therefore
  does not. But a `save()` that is under way when the link is followed is not
  cancelled: if its answer comes after the new document is loaded, `docRef` is the
  document that was left while the editor contains the new one. The texts differ,
  so the label is "unsaved", and the autosave writes the new document's text into
  the old one, with the right version. An answered colour does the same, at the
  next edit.

## 9. Behaviour seen and not claimed otherwise

The models reach these, or exempt them by name; where a document says otherwise,
it is too vague for a counterexample. They are why some properties are stated for
calm servers or with an exception.

*Approvals, connections.*
- A stale `approve` overwrites a rejection or an expiry (every decision is an
  UPDATE by id).
- On PostgreSQL an entity can be deleted between the check of a connection and
  its INSERT; the connection then names nothing.

*Webhooks.*
- Only `purge_project` flushes its audit event before it commits; the listener
  has then not seen it, and `project.delete` is never sent.
- A subscription that has a delivery cannot be deleted (a foreign key).
- Overlapping deliveries read one failure count and lose increments; the count of
  a disabled subscription still changes by redeliveries and tests.
- What was queued at a restart stays pending for ever.

*Planning.*
- The docstring of `_validate_parent_task` caps nesting at one level. It asks
  whether the new parent has a parent, and not whether the task that moves has
  sub-tasks: *b* under *a*, then *a* under *c* nests two levels.
- `create_task` does not ask whether the stage belongs to the phase (the update
  does); such a task later makes the deletion of the phase fail.
- Overlapping moves of tasks or todos can close a cycle, and the deletion of a
  todo in a cycle then never ends. Overlapping reorders leave two rows at one
  position. A status can be used while it is deleted.
- A new todo gets the number of todos as its position ("append"): after a deletion, or
  an update that gave another todo a higher number, it is not the last.
- An export reads kind by kind without a lock; an import checks rows singly, so a
  file with a cycle is imported.

*Projects.*
- The slug of a duplicate is looked up whole and then cut to 60 characters: for a
  long slug the cut one may be taken, and the duplicate fails on the constraint.
- A purge decides on the archive time it read. Two overlapping creations or moves
  can put two projects into one folder.

*Accounts, sessions, keys.*
- `set_active` decides by the admin flag it read: an account promoted meanwhile
  is deactivated without the guard. With a demotion of the other admin in
  between, no active admin is left. Hence `Guarded`.
- Two accounts that claim one empty workspace both become owners.
- A login that verified the old password stores its session after a reset or a
  deactivation has revoked all.
- Fixed windows let twice the limit pass within one window's time; an evicted key
  starts a fresh window. A request that was let in finishes although its key is
  revoked meanwhile. If the database fails while a proposal is stored, the router
  answers without a rollback; reading the key's id to release the slot then raises, the
  error is swallowed, and the slot stays taken until a restart. Two writers of settings can leave the LAN switch in memory
  wrong until the next write.

*Documents, files.*
- `delete_doc` writes the children it has read: one that was moved elsewhere
  meanwhile becomes a root.
- `write_text` makes line feeds of carriage returns after the checksum was taken of the
  text with them (`_sanitize` leaves one inside a line). Such a checksum fits no file: the
  next export is refused as a conflict, and a context file is taken for a hand edit.
- A mention of something deleted takes one of the 1000 places and gets no row.
- A first export writes over any file at its path. A crash between the file and
  the commit, or two first exports, leave Planarus' own text taken for an edit.
  An export that waited for the lock compares with an old checksum (a false
  conflict).
- A late beat revives a stale claim to edit if nobody looked meanwhile; the caps
  evict the stalest entry even if it lives.
- A regeneration that waited for the lock writes the plan as it was before the
  wait, possibly over a newer one. One that dies, or is overtaken, between the
  file and the commit leaves a file whose checksum no row knows: it is taken for
  a hand edit from then on.
- An adoption that overlaps an unpin writes the checksum without the pin (the
  column did not change for it).
- An edit between a regeneration's or export's look at the file and its write is
  lost.

*Editor.*
- A save that takes longer than the 900 ms until the next one, while the person
  types, is followed by a save with the same version: a conflict with oneself,
  reported as "Updated elsewhere". What is typed during a save and left before its
  answer is flushed with the stale version, and its 409 is swallowed. While the next
  document loads, the timer still runs: a load that takes longer saves the left
  document once more, and its conflict is then shown on the new one.
- "conflict" and "error" end the autosave and the flush, also when it was a colour,
  an image or a sub-page that failed; the edits then wait for the button Save.
- "One debounced write per pause in typing": the timer starts at the first key
  after a save and is not started again by the next.

*Repository cockpit.*
- A view that was being built while something changed is kept after the success
  that dropped the older one: for three seconds views show the state before it.
  Refused, failed, clean and conflicting answers carry a kept snapshot, although
  `schemas/git.py` says "always the current cockpit state".
- `merge --abort` after a conflict aborts whatever merge is in progress by then, the
  person's too. `commit` does not ask whether a merge is in progress, and commits
  conflict markers. A merge that is killed by its timeout, and whose abort fails,
  leaves a half-merged tree; a failed commit leaves everything staged. A commit that is
  killed after it was made is reported as failed.
- A merge of the person whose conflicts are all resolved to what HEAD holds, and which is
  not concluded, leaves `git status --porcelain` empty. The cockpit's merge then passes its
  check, git refuses it, and the abort takes the person's merge away, with one request
  at a time (`forgotten`): the other branch is no longer recorded as merged.
- Two overlapping fetches both pass the interval, and a restart forgets it. A fetch
  whose preamble fails is audited although nothing went out.

*Context packs.*
- The marker of a truncation can make a document longer that is barely over the
  limit. A document that is truncated and then dropped is counted twice. An empty
  governance file is "ok" and rendered as unavailable. The hard cap does not count
  the governance.

*Jobs.*
- `_integrity_ok` creates an empty database at the path of a missing file and
  calls it sound. An application started on a half-done restore loses the commits
  of the log. With retention one, of two overlapping backups the one that ends
  second removes itself and keeps the other's file, finished or not.
- A mail leaves before its row is logged: sends that overlap, die or time out
  waiting for SQLite's lock exceed the cap of the day. A mail whose reply is late, or
  whose QUIT fails, has left, is logged as failed and does not count.
- A synchronisation that dies, or whose answer is lost, creates its events again;
  so do two that overlap. A list without a token tells no deletions.

## 10. What is not modelled

- *Text*: patches, Markdown, slugs, the secret scan, the layout of files, mails.
- *Permissions of single requests*: the models start from a request that is
  allowed what it asks, except where permission is the subject (`Members`,
  `Accounts`, `OAuth`, `ExternalApi`).
- *Partial writes of a file*: `atomic_io` replaces a file by rename, so a write
  is one step; the S3 backend's own steps are not looked at. (Backups are not
  written that way, and `Backups` has torn files.)
- *Snapshot subtleties within one SELECT*, and constraints that no property needs.
- *Parts of the modelled components*: the creation of a document's slug; the deletion of
  mentioned rows that are not documents; the positions of milestones, events, decisions,
  risks and documents, which start at 0; the
  provisioning of the context folder and its log line; decisions, risks, blockers,
  comments and checklist items, which are single rows or refer to a phase exactly
  as milestones do; the login throttle; signing and address checks of webhooks;
  the copy of a backup off site; the encryption of calendar tokens and the
  connecting of a calendar account; the bucket of failed authentications and the
  second bucket of proposals, which run the same code as the one modelled.
- *The components listed as not modelled in section 2*: they keep no state that
  two requests share, or are clients.
- *The canvas editor*, which clears its timer on leaving without a flush; sub-pages,
  images and mentions of the document editor; the time of its timers.
- *The switches of the environment* that turn fetches, commits and merges on.
- *Other providers, receivers and mail servers* are external: they answer
  anything, or fail.

## 11. Plan

**Done**: everything listed as modelled in section 2, in the order gate, rows of
a plan, people, documents and their editor, files, jobs, outbound, repository and
packs; and the proofs of section 7, which cover every safety property of the passing
runs.

What is left, in order of importance:

1. A plan whose tasks, connections and approvals are one model: `Approvals`
   applies to rows that `Planning` deletes.
2. The canvas editor, whose autosave differs from the one of `Editor`.
