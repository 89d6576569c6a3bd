------------------------------ MODULE MCOutside ------------------------------
(***************************************************************************)
(* What the server does outside its database, side by side in one          *)
(* instance: the context files (MCContextFiles), the database's own files  *)
(* and its backups (Backups), the reminder mails (Mails), the calendar of  *)
(* a provider (CalendarSync), the repository of a project (Git) and the    *)
(* packs that are copied from it for agents (ContextPacks).  The first     *)
(* state chooses which of them runs ("part").  On a calm server requests   *)
(* do not overlap, and none dies.                                          *)
(***************************************************************************)
EXTENDS MCContextFiles

CONSTANTS
    Torn, Missing,
    Keep, MaxStamp, MaxVer, MaxId,      \* of the backups
    Rules, Cap, MaxDay,                 \* of the mails
    MaxRow, MaxUid, MaxClock,           \* of the calendar
    TTL, Interval, MaxTime, MaxActs,    \* of the repository
    Docs, Long, HardCap, MaxSize        \* of the packs

ASSUME RequestsAreFinite == IsFiniteSet(Requests)
ASSUME BackupsAssumption ==
    /\ Keep \in Nat \ {0} /\ MaxStamp \in Nat /\ MaxVer \in Nat \ {0} /\ MaxId \in Nat
    /\ Torn \notin Nat /\ Missing \notin Nat /\ Torn # Missing
ASSUME MailsAssumption == MaxDay \in Nat \ {0} /\ Cap \in Nat /\ Rules \in Nat
ASSUME CalendarAssumption == MaxRow \in Nat /\ MaxUid \in Nat /\ MaxClock \in Nat
ASSUME GitAssumption ==
    TTL \in Nat \ {0} /\ Interval \in Nat /\ MaxTime \in Nat /\ MaxActs \in Nat
ASSUME PacksAssumption ==
    /\ IsFiniteSet(Docs) /\ Docs \subseteq Nat
    /\ Long \in Nat /\ HardCap \in Nat /\ MaxSize \in Nat \ {0}

VARIABLES
    part,
    up, main, wal, aside, file, job, restore, reported, owed,
    day, log, accepted, unsure, mcall,
    remote, clock, local, token, ccall, dropped, unlisted,
    time, tree, index, merging, acts, cache, lastFetch, gcall, sent, lost, spoilt, silent,
    budget, core, confirmed, governance, optional, doc, at, step

B == INSTANCE Backups WITH Jobs <- Requests
M == INSTANCE Mails WITH call <- mcall
C == INSTANCE CalendarSync WITH call <- ccall
G == INSTANCE Git WITH Edits <- Texts, MaxClock <- MaxTime, clock <- time, call <- gcall
K == INSTANCE ContextPacks

fileVars == <<up, main, wal, aside, file, job, restore, reported, owed>>
mailVars == <<day, log, accepted, unsure, mcall>>
calendarVars == <<remote, clock, local, token, ccall, dropped, unlisted>>
gitVars == <<time, tree, index, merging, acts, cache, lastFetch, gcall, sent, lost, spoilt, silent>>
packVars == <<budget, core, confirmed, governance, optional, doc, at, step>>

\* The packs: those that are trimmed, with at most one optional source pinned, and
\* those that may be refused.
Free == [in |-> "no", pinned |-> FALSE]
NoDoc == [in |-> "no", pinned |-> FALSE, size |-> 1, short |-> 1, cut |-> FALSE]
ChosenDocs ==
    {NoDoc} \cup {d \in K!Doc : /\ d.in = "yes" /\ ~d.cut
                               /\ <<d.size, d.short>> \in {<<1, 1>>, <<4, 1>>, <<4, 3>>}}
Trimmed ==
    /\ confirmed = TRUE /\ governance = [f \in K!Files |-> "ok"]
    /\ budget \in {2, 4, 7} /\ core = 1
    /\ doc \in [Docs -> ChosenDocs]
    /\ \/ optional \in [K!Optional -> [in : {"no", "yes"}, pinned : {FALSE}]]
       \/ \E p \in K!Optional :
             optional = [s \in K!Optional |-> [in |-> "yes", pinned |-> s = p]]
Scoped ==
    /\ confirmed \in BOOLEAN /\ governance \in [K!Files -> K!Statuses]
    /\ budget = 1 /\ core = 1
    /\ optional = [s \in K!Optional |-> Free] /\ doc = [d \in Docs |-> NoDoc]
PacksInit == at = "governance" /\ step = 1 /\ (Trimmed \/ Scoped)

\* A part that does not run has no state: its variables are 0.
NoBackups ==
    /\ up = 0 /\ main = 0 /\ wal = 0 /\ aside = 0 /\ file = 0 /\ job = 0
    /\ restore = 0 /\ reported = 0 /\ owed = 0
NoMails == day = 0 /\ log = 0 /\ accepted = 0 /\ unsure = 0 /\ mcall = 0
NoCalendar ==
    /\ remote = 0 /\ clock = 0 /\ local = 0 /\ token = 0
    /\ ccall = 0 /\ dropped = 0 /\ unlisted = 0
NoGit ==
    /\ time = 0 /\ tree = 0 /\ index = 0 /\ merging = 0 /\ acts = 0 /\ cache = 0
    /\ lastFetch = 0 /\ gcall = 0 /\ sent = 0 /\ lost = 0 /\ spoilt = 0 /\ silent = 0
NoPacks ==
    /\ budget = 0 /\ core = 0 /\ confirmed = 0 /\ governance = 0
    /\ optional = 0 /\ doc = 0 /\ at = 0 /\ step = 0

OutsideInit ==
    /\ part \in {"files", "backups", "mails", "calendar", "git", "git with faults", "packs"}
    /\ MCInit
    /\ part # "files" => ~authored /\ disk = NoFile
    /\ part \in {"git with faults", "packs"} => calm
    /\ IF part = "backups" THEN B!Init ELSE NoBackups
    /\ IF part = "mails" THEN M!Init ELSE NoMails
    /\ IF part = "calendar" THEN C!Init ELSE NoCalendar
    /\ IF part \in {"git", "git with faults"} THEN G!Init ELSE NoGit
    /\ IF part = "packs" THEN PacksInit ELSE NoPacks

\* With backups that overlap there are no restores and no commits; after a restore
\* there is one backup less.
BackupsNext ==
    /\ B!Next
    /\ IF calm THEN Cardinality({j \in Requests : job'[j] # B!Idle}) <= 1
                    /\ (owed' # {} => file'[MaxStamp] = Missing)
               ELSE restore' = B!NoRestore /\ wal' = B!None

\* A calm server also sends nobody else's mails and loses none of its requests, and
\* one reply in a day; on the other one few mails leave.
MailsNext ==
    /\ M!Midnight \/ \E r \in Requests : M!Work(r) \/ (~calm /\ M!Abort(r))
    /\ IF calm THEN /\ Cardinality({r \in Requests : mcall'[r] # M!Idle}) <= 1
                    /\ \A d \in M!Days : M!On(unsure', d) <= 1
               ELSE \A d \in M!Days : M!On(M!Gone', d) <= 2

\* One synchronisation at a time; on a calm server, people do not delete events
\* during one.
CalendarNext ==
    /\ \/ C!ProviderChanges \/ C!CreateEvent
       \/ /\ calm => \A r \in Requests : ccall[r] = C!Idle
          /\ \E x \in C!Rows : C!DeleteEvent(x)
       \/ \E r \in Requests : C!Work(r)
       \/ ~calm /\ \E r \in Requests : C!Abort(r)
    /\ Cardinality({r \in Requests : ccall'[r] # C!Idle}) <= 1
    /\ calm \/ clock' <= 3

\* People leave the repository alone while a calm request merges.  If requests
\* overlap or fail, none of them fetches, time is short, and there is one edit and
\* one success; if they overlap, the story ends when somebody else's work is hit.
GitNext ==
    /\ \/ G!Tick \/ \E r \in Requests : G!Work(r)
       \/ (~calm \/ \A r \in Requests : gcall[r].op # "merge") /\ G!People
       \/ part = "git with faults" /\ G!Fault
    /\ IF calm THEN Cardinality({r \in Requests : gcall'[r] # G!Idle}) <= 1
               ELSE spoilt' = {} /\ lost' = {}
    /\ (part = "git" /\ calm) => acts' <= 1 \/ time' <= 2
    /\ (part = "git with faults" \/ ~calm) =>
          /\ \A r \in Requests : gcall'[r].op # "fetch"
          /\ time' <= 1 /\ acts' <= 1 /\ Cardinality(tree') <= 1

OutsideNext ==
    /\ \/ /\ part = "files" /\ MCNext
          /\ UNCHANGED <<fileVars, mailVars, calendarVars, gitVars, packVars>>
       \/ /\ part = "backups" /\ BackupsNext
          /\ UNCHANGED <<vars, calm, mailVars, calendarVars, gitVars, packVars>>
       \/ /\ part = "mails" /\ MailsNext
          /\ UNCHANGED <<vars, calm, fileVars, calendarVars, gitVars, packVars>>
       \/ /\ part = "calendar" /\ CalendarNext
          /\ UNCHANGED <<vars, calm, fileVars, mailVars, gitVars, packVars>>
       \/ /\ part \in {"git", "git with faults"} /\ GitNext
          /\ UNCHANGED <<vars, calm, fileVars, mailVars, calendarVars, packVars>>
       \/ /\ part = "packs" /\ K!Next
          /\ UNCHANGED <<vars, calm, fileVars, mailVars, calendarVars, gitVars>>
    /\ UNCHANGED part

OutsideSpec ==
    OutsideInit /\ [][OutsideNext]_<<part, calm, vars, fileVars, mailVars, calendarVars,
                                    gitVars, packVars>>

\* A restore can be undone and repeated, wherever it stopped; one backup at a
\* time, a sound one stays (see RestoresAreReversible and GoodBackupStays of Backups).
BackupsAreSound ==
    part = "backups" => B!TypeOK /\ B!RestoresAreReversible /\ (calm => B!GoodBackupStays)

\* The log of the mails is true, and one request at a time the cap of a day holds
\* (see Mails).
MailsAreCapped ==
    part = "mails" => M!TypeOK /\ M!LogIsTrue /\ (calm => M!CapHolds)

\* What a synchronisation has told the calendar's token is in the rows, and if
\* requests are not lost nothing is there twice (see CalendarSync).
CalendarsAgree ==
    part = "calendar" => C!TypeOK /\ C!TokenTellsTruth /\ (calm => C!NoDuplicates)

\* Answers are recent whatever overlaps, and no merge is left half done unless git
\* itself failed; one request at a time, success is shown and nobody's work is hit,
\* and without failures all of CockpitIsHonest holds (see Git).
CockpitIsSafe ==
    /\ part \in {"git", "git with faults"} => G!TypeOK /\ G!AnswersAreRecent
    /\ part = "git" => G!NothingIsHalfDone
    /\ part = "git" /\ calm => G!CockpitIsHonest
    /\ part = "git with faults" => G!SuccessIsShown /\ G!WorkIsKept

\* Packs are trimmed in order, and none lacks its scope unless somebody agreed (see
\* ContextPacks).
PacksAreFair == part = "packs" => K!TypeOK /\ K!PacksAreFair

=============================================================================
