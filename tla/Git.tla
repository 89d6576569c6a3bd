-------------------------------- MODULE Git ---------------------------------
(***************************************************************************)
(* The repository of a project as the cockpit shows and changes it:        *)
(* services/git_service.py with its endpoints.                             *)
(*                                                                         *)
(* The repository is shared with the person at the command line, who edits *)
(* files, merges and commits; no lock covers more than one git command.    *)
(* The process keeps the last snapshot of the project for a short while,   *)
(* and the time of its last fetch.                                         *)
(*                                                                         *)
(* The contents are edits: each is in the working tree, then in the index, *)
(* then in a commit.  A merge in progress is one that met a conflict, was  *)
(* interrupted, or is not concluded yet.                                   *)
(***************************************************************************)
EXTENDS Naturals

CONSTANTS
    Requests,   \* requests served at the same time
    Edits,      \* what people change in the files
    TTL,        \* _SNAPSHOT_TTL_S
    Interval,   \* _MIN_FETCH_INTERVAL_S
    MaxClock,   \* bound: time
    MaxActs     \* bound: changes the cockpit makes

VARIABLES
    clock,      \* time.monotonic()
    tree,       \* edits not committed yet
    index,      \* those of them that are staged
    merging,    \* whose merge is in progress, and what is staged of it
    acts,       \* changes of refs or history the cockpit has made
    cache,      \* _snapshot_cache of this project
    lastFetch,  \* _last_fetch_at of this project
    call,       \* what each request is doing
    sent,       \* history: when fetches of this process went out, the last two
    lost,       \* history: edits that are neither in the tree nor in a commit
    spoilt,     \* history: whose conflicts were committed as they are; a person's merge
                \* that was "undone", or "forgotten" if it changed nothing
    silent      \* history: a change was tried that no audit event tells

repo == <<tree, index, merging, acts>>
memory == <<cache, lastFetch>>
history == <<sent, lost, spoilt, silent>>
vars == <<clock, repo, memory, call, history>>

Times == 0..MaxClock
Never == MaxClock + 1

\* What a snapshot shows is not older than "since", and shows "acts" changes.
Snapshot == [since : Times, acts : 0..MaxActs]
NoSnapshot == [since |-> Never, acts |-> 0]
\* A merge has conflicts, has them staged as they are, or is "same": its resolution
\* is what HEAD holds.
Conflict(who) == [by |-> who, stage |-> "conflict"]
Merge == [by : {"cockpit", "person"}, stage : {"conflict", "added", "same"}]
NoMerge == [by |-> "nobody", stage |-> "none"]

\* "ran": a command that changes the repository was tried; "due" is what the
\* answer of a success must show.
Call == [op : {"view", "fetch", "commit", "merge"},
         at : {"idle", "fetching", "adding", "committing", "merging", "aborting",
               "dropping", "looking", "building", "answered"},
         status : {"none", "ok", "no_remote", "rate_limited", "clean", "dirty",
                   "conflict", "failed"},
         ran : BOOLEAN, due : 0..MaxActs, asked : Times, snap : Snapshot \cup {NoSnapshot}]
Idle == [op |-> "view", at |-> "idle", status |-> "none", ran |-> FALSE, due |-> 0,
         asked |-> 0, snap |-> NoSnapshot]

TypeOK ==
    /\ clock \in Times
    /\ tree \subseteq Edits /\ index \subseteq tree
    /\ merging \in {NoMerge} \cup Merge
    /\ acts \in 0..MaxActs
    /\ cache \in Snapshot \cup {NoSnapshot}
    /\ lastFetch \in Times \cup {Never}
    /\ call \in [Requests -> Call]
    /\ sent \in [last : Times \cup {Never}, before : Times \cup {Never}]
    /\ lost \subseteq Edits
    /\ spoilt \subseteq {"cockpit", "person", "undone", "forgotten"}
    /\ silent \in BOOLEAN

Init ==
    /\ clock = 0
    /\ tree = {} /\ index = {} /\ merging = NoMerge /\ acts = 0
    /\ cache = NoSnapshot /\ lastFetch = Never
    /\ call = [r \in Requests |-> Idle]
    /\ sent = [last |-> Never, before |-> Never]
    /\ lost = {} /\ spoilt = {} /\ silent = FALSE

Becomes(r, c) == call' = [call EXCEPT ![r] = c]

\* The porcelain status is empty; it does not tell of a merge that changes nothing.
Clean == tree = {} /\ merging.stage \in {"none", "same"}

\* _result of a fetch, a commit or a merge.
Answering(c, status) ==
    [c EXCEPT !.status = status, !.at = IF status = "ok" THEN "dropping" ELSE "looking"]
Acted(c) == [Answering(c, "ok") EXCEPT !.due = acts + 1, !.ran = TRUE]

-----------------------------------------------------------------------------
\* People, and time

Tick == clock < MaxClock /\ clock' = clock + 1 /\ UNCHANGED <<repo, memory, call, history>>

Edit(e) ==
    /\ tree' = tree \cup {e}
    /\ UNCHANGED <<clock, index, merging, acts, memory, call, history>>

\* A merge at the command line that meets a conflict; Git wants an index without
\* changes.
PersonMerges ==
    /\ merging = NoMerge /\ index = {}
    /\ merging' = Conflict("person")
    /\ UNCHANGED <<clock, tree, index, acts, memory, call, history>>

\* Every conflict is resolved to what HEAD holds and staged, not yet committed.  (A
\* resolution that changes something is, to the cockpit, like the conflict.)
PersonResolves ==
    /\ merging.stage \in {"conflict", "added"}
    /\ merging' = [merging EXCEPT !.stage = "same"]
    /\ UNCHANGED <<clock, tree, index, acts, memory, call, history>>

\* A commit at the command line, of a resolved merge too.
PersonCommits ==
    /\ ~Clean \/ merging # NoMerge
    /\ tree' = {} /\ index' = {} /\ merging' = NoMerge
    /\ UNCHANGED <<clock, acts, memory, call, history>>

-----------------------------------------------------------------------------
\* snapshot

View(r) ==
    /\ call[r] = Idle
    /\ Becomes(r, [Idle EXCEPT !.at = "looking"])
    /\ UNCHANGED <<clock, repo, memory, history>>

\* Mutant: a success keeps the snapshot.
DropNothing(r) ==
    /\ call[r].at = "dropping"
    /\ Becomes(r, [call[r] EXCEPT !.at = "looking"])
    /\ UNCHANGED <<clock, repo, memory, history>>

\* A success drops the snapshot first.
Drop(r) ==
    /\ call[r].at = "dropping"
    /\ cache' = NoSnapshot
    /\ Becomes(r, [call[r] EXCEPT !.at = "looking"])
    /\ UNCHANGED <<clock, repo, lastFetch, history>>

\* Mutant: a snapshot is kept until the next success.
AnyCurrent == cache # NoSnapshot

Current == cache # NoSnapshot /\ cache.since + TTL > clock

Look(r) ==
    /\ call[r].at = "looking"
    /\ Becomes(r, IF Current
                  THEN [call[r] EXCEPT !.at = "answered", !.asked = clock, !.snap = cache]
                  ELSE [call[r] EXCEPT !.at = "building", !.asked = clock,
                                       !.snap = [since |-> clock, acts |-> acts]])
    /\ UNCHANGED <<clock, repo, memory, history>>

\* _build_snapshot ends; it counts from the moment it was asked for.
Store(r) ==
    /\ call[r].at = "building"
    /\ cache' = call[r].snap
    /\ Becomes(r, [call[r] EXCEPT !.at = "answered"])
    /\ UNCHANGED <<clock, repo, lastFetch, history>>

\* Mutant: only successes are audited.
AuditedSuccesses == {"ok"}

\* The endpoint: attempts are audited, and what was refused is not.
Audited == {"ok", "conflict", "failed"}

Answer(r) ==
    LET c == call[r] IN
    /\ c.at = "answered"
    /\ silent' = (silent \/ (c.ran /\ c.status \notin Audited))
    /\ Becomes(r, Idle)
    /\ UNCHANGED <<clock, repo, memory, sent, lost, spoilt>>

-----------------------------------------------------------------------------
\* fetch

\* Mutant: no interval.
NeverTooSoon == FALSE

\* There is no repository or no remote, the last fetch is too recent, or git fetch
\* is started.
TooSoon == lastFetch # Never /\ clock < lastFetch + Interval

FetchBegin(r) ==
    LET c == [Idle EXCEPT !.op = "fetch"] IN
    /\ call[r] = Idle
    /\ \/ \E status \in {"failed", "no_remote"} : Becomes(r, Answering(c, status)) /\ UNCHANGED sent
       \/ TooSoon /\ Becomes(r, Answering(c, "rate_limited")) /\ UNCHANGED sent
       \/ /\ ~TooSoon
          /\ Becomes(r, [c EXCEPT !.at = "fetching", !.asked = clock, !.ran = TRUE])
          /\ sent' = [last |-> clock, before |-> sent.last]
    /\ UNCHANGED <<clock, repo, memory, lost, spoilt, silent>>

\* It may fail with some refs updated; every attempt counts, from its start.
FetchEnd(r) ==
    LET c == call[r] IN
    /\ c.at = "fetching"
    /\ lastFetch' = c.asked
    /\ \/ acts < MaxActs /\ acts' = acts + 1 /\ \/ Becomes(r, Acted(c))
                                                \/ Becomes(r, Answering(c, "failed"))
       \/ UNCHANGED acts /\ Becomes(r, Answering(c, "failed"))
    /\ UNCHANGED <<clock, tree, index, merging, cache, history>>

-----------------------------------------------------------------------------
\* commit

\* Refused, nothing to commit, or on to git add; a status that cannot be read is
\* no reason to stop.
CommitBegin(r) ==
    LET c == [Idle EXCEPT !.op = "commit"] IN
    /\ call[r] = Idle
    /\ \/ Becomes(r, Answering(c, "failed"))
       \/ Clean /\ Becomes(r, Answering(c, "clean"))
       \/ Becomes(r, [c EXCEPT !.at = "adding"])
    /\ UNCHANGED <<clock, repo, memory, history>>

\* git add -A stages conflicts as they are, too.
CommitAdd(r) ==
    LET c == [call[r] EXCEPT !.ran = TRUE] IN
    /\ call[r].at = "adding"
    /\ \/ Becomes(r, Answering(c, "failed")) /\ UNCHANGED repo
       \/ /\ index' = tree
          /\ merging' = [merging EXCEPT !.stage = IF @ = "conflict" THEN "added" ELSE @]
          /\ Becomes(r, [c EXCEPT !.at = "committing"])
          /\ UNCHANGED <<tree, acts>>
    /\ UNCHANGED <<clock, memory, history>>

\* Git refuses an empty commit and conflicts that are not staged; what is committed
\* is what was staged.
Commits ==
    /\ IF merging = NoMerge THEN index # {} ELSE merging.stage # "conflict"
    /\ acts < MaxActs /\ acts' = acts + 1
    /\ tree' = tree \ index /\ index' = {} /\ merging' = NoMerge
    /\ spoilt' = IF merging.stage = "added" THEN spoilt \cup {merging.by} ELSE spoilt

\* It may fail otherwise; what is staged stays staged then.
CommitRun(r) ==
    /\ call[r].at = "committing"
    /\ \/ Becomes(r, Answering(call[r], "failed")) /\ UNCHANGED <<repo, spoilt>>
       \/ Commits /\ Becomes(r, Acted(call[r]))
    /\ UNCHANGED <<clock, memory, sent, lost, silent>>

\* After 30 seconds git commit is killed, when it has made its commit.
CommitTimeout(r) ==
    /\ call[r].at = "committing"
    /\ Commits
    /\ Becomes(r, Answering(call[r], "failed"))
    /\ UNCHANGED <<clock, memory, sent, lost, silent>>

-----------------------------------------------------------------------------
\* merge

\* Mutant: the working tree is not looked at.
MergeAnyway(r) ==
    /\ call[r] = Idle
    /\ Becomes(r, [Idle EXCEPT !.op = "merge", !.at = "merging"])
    /\ UNCHANGED <<clock, repo, memory, history>>

\* Refused, or nothing is uncommitted and git merge comes next.
MergeBegin(r) ==
    LET c == [Idle EXCEPT !.op = "merge"] IN
    /\ call[r] = Idle
    /\ \/ Becomes(r, Answering(c, "failed"))
       \/ ~Clean /\ Becomes(r, Answering(c, "dirty"))
       \/ Clean /\ Becomes(r, [c EXCEPT !.at = "merging"])
    /\ UNCHANGED <<clock, repo, memory, history>>

\* Git refuses during another merge and with a staged change, and may with any or
\* for a reason of its own; it merges, or stops at a conflict.
MergeRun(r) ==
    LET c == [call[r] EXCEPT !.ran = TRUE] IN
    /\ call[r].at = "merging"
    /\ \/ Becomes(r, [c EXCEPT !.at = "aborting", !.status = "failed"]) /\ UNCHANGED repo
       \/ /\ merging = NoMerge /\ index = {}
          /\ \/ /\ acts < MaxActs /\ acts' = acts + 1
                /\ Becomes(r, Acted(c))
                /\ UNCHANGED <<tree, index, merging>>
             \/ /\ merging' = Conflict("cockpit")
                /\ Becomes(r, [c EXCEPT !.at = "aborting", !.status = "conflict"])
                /\ UNCHANGED <<tree, index, acts>>
    /\ UNCHANGED <<clock, memory, history>>

\* After 30 seconds git merge is killed: it has done all, a half or nothing.
MergeTimeout(r) ==
    LET c == [call[r] EXCEPT !.ran = TRUE, !.at = "aborting", !.status = "failed"] IN
    /\ call[r].at = "merging" /\ merging = NoMerge /\ index = {}
    /\ \/ acts < MaxActs /\ acts' = acts + 1 /\ UNCHANGED merging
       \/ merging' = Conflict("cockpit") /\ UNCHANGED acts
       \/ UNCHANGED <<acts, merging>>
    /\ Becomes(r, c)
    /\ UNCHANGED <<clock, tree, index, memory, history>>

\* Mutant: a conflict is reported and left there.
AbortNothing(r) ==
    /\ call[r].at = "aborting"
    /\ Becomes(r, Answering(call[r], call[r].status))
    /\ UNCHANGED <<clock, repo, memory, history>>

\* git merge --abort undoes the merge in progress, whoever started it, with the
\* edits of conflicted files and whatever is staged.
MergeAbort(r) ==
    LET c == call[r] IN
    /\ c.at = "aborting"
    /\ IF merging = NoMerge THEN UNCHANGED <<tree, index, merging, lost, spoilt>>
       ELSE /\ \E E \in SUBSET tree :
                  index \subseteq E /\ tree' = tree \ E /\ lost' = lost \cup E
            /\ index' = {} /\ merging' = NoMerge
            /\ spoilt' = IF merging.by = "cockpit" THEN spoilt
                         ELSE spoilt \cup {IF merging.stage = "same" THEN "forgotten" ELSE "undone"}
    /\ Becomes(r, Answering(c, c.status))
    /\ UNCHANGED <<clock, acts, memory, sent, silent>>

\* Another git command holds the lock of the index; nobody looks at the outcome.
AbortFails(r) ==
    /\ call[r].at = "aborting"
    /\ Becomes(r, Answering(call[r], call[r].status))
    /\ UNCHANGED <<clock, repo, memory, history>>

-----------------------------------------------------------------------------
\* The audit event cannot be committed, or the process ends.

AuditFails(r) ==
    /\ call[r].at = "answered" /\ call[r].op # "view"
    /\ silent' = (silent \/ call[r].ran)
    /\ Becomes(r, Idle)
    /\ UNCHANGED <<clock, repo, memory, sent, lost, spoilt>>

Restart ==
    /\ silent' = (silent \/ \E r \in Requests : call[r].ran)
    /\ call' = [r \in Requests |-> Idle]
    /\ cache' = NoSnapshot /\ lastFetch' = Never
    /\ UNCHANGED <<clock, repo, sent, lost, spoilt>>

Work(r) ==
    \/ View(r) \/ Drop(r) \/ Look(r) \/ Store(r) \/ Answer(r)
    \/ FetchBegin(r) \/ FetchEnd(r)
    \/ CommitBegin(r) \/ CommitAdd(r) \/ CommitRun(r)
    \/ MergeBegin(r) \/ MergeRun(r) \/ MergeAbort(r)
Fault ==
    \/ \E r \in Requests : \/ CommitTimeout(r) \/ MergeTimeout(r)
                           \/ AbortFails(r) \/ AuditFails(r)
    \/ Restart
People == (\E e \in Edits : Edit(e)) \/ PersonMerges \/ PersonResolves \/ PersonCommits

Next == Tick \/ People \/ (\E r \in Requests : Work(r)) \/ Fault

Spec == Init /\ [][Next]_vars

-----------------------------------------------------------------------------
\* Properties

\* Whatever overlaps, no answer shows the repository as it was a TTL before the
\* request looked ("live-on-view + short TTL", _SNAPSHOT_TTL_S): a snapshot that
\* took long to build is kept the shorter.
AnswersAreRecent ==
    \A r \in Requests : call[r].at = "answered" => call[r].snap.since + TTL > call[r].asked

\* The answer of a success shows what it did ("recompute fresh for the response",
\* fetch) -- on a calm server: a view that was being built stores what it has read
\* over the snapshot that was dropped.
SuccessIsShown ==
    \A r \in Requests :
        call[r].at = "answered" /\ call[r].status = "ok" => call[r].snap.acts >= call[r].due

\* No merge of the cockpit is left half done, also if requests overlap, unless
\* git merge was killed, its abort failed or the process ended ("the cockpit never
\* leaves the repo in a half-merged state", GitMergeResult).
NothingIsHalfDone ==
    (\A r \in Requests : call[r].at # "aborting") => merging.by # "cockpit"

\* One request at a time, the cockpit loses no edit, and undoes no merge of the person
\* at the command line that git status shows.  (One whose resolution is what HEAD holds
\* is not shown: the cockpit's own merge is let through, refused by git, and its abort
\* undoes the person's.  A merge that overlaps any other does so too, when it aborts
\* what it has not started.)
WorkIsKept == "undone" \notin spoilt /\ lost = {}

\* On a calm server no conflict of the cockpit's own merges gets into a commit.  (A
\* commit does not ask whether a merge is in progress, the person's or another
\* request's.)
OwnConflictsStayOut == "cockpit" \notin spoilt

\* On a calm server fetches keep their distance, and every change that was tried
\* has its audit event ("every actual outbound attempt is audited",
\* fetch_project_git).
FetchesKeepDistance == sent.before # Never => sent.last >= sent.before + Interval
NothingIsSilent == ~silent

CockpitIsHonest ==
    /\ SuccessIsShown /\ WorkIsKept /\ OwnConflictsStayOut
    /\ FetchesKeepDistance /\ NothingIsSilent

=============================================================================
