------------------------------ MODULE Backups -------------------------------
(***************************************************************************)
(* The files of the SQLite database and of its backups:                    *)
(* services/backup_service.py.                                             *)
(*                                                                         *)
(* A backup is written, verified and only then counted, and old ones are   *)
(* removed; a restore moves the database and its write-ahead log aside and *)
(* copies a verified backup into place.  Both may stop between any two of  *)
(* their steps.  Nothing but the restore touches the database during one   *)
(* (D43); backups are asked for by the application and by the scheduler,   *)
(* and may overlap.                                                        *)
(***************************************************************************)
EXTENDS Naturals, FiniteSets

CONSTANTS
    Jobs,       \* backups taken at the same time
    Keep,       \* backup_retention
    MaxStamp,   \* bound: backups taken
    MaxVer,     \* bound: commits
    MaxId,      \* bound: database files there have been
    Torn,       \* the contents of a file that is not a sound database
    Missing     \* no file

VARIABLES
    up,         \* the application is running
    main, wal,  \* the database file and its write-ahead log
    aside,      \* what restores have moved aside, and nothing deletes
    file,       \* the backups, by the time in their name
    job,        \* the backups under way
    restore,    \* the restore under way
    reported,   \* history: the last backup that was reported as taken
    owed        \* history: the states restores have displaced

database == <<up, main, wal, aside>>
vars == <<up, main, wal, aside, file, job, restore, reported, owed>>

Stamps == 1..MaxStamp

\* Contents of a database: the last commit in it, 0 for an empty file.  A backup
\* may also be torn, or not be there; the verification passes an empty file.
Vers == 0..MaxVer
Contents == Vers \cup {Torn, Missing}

\* A database file, and a log that continues the database file "of".
Main == [kind : {"main"}, id : 0..MaxId, ver : Vers \cup {Torn}]
Wal == [kind : {"wal"}, of : 0..MaxId, ver : Vers]
None == [kind |-> "none"]

Job == [at : {"idle", "writing", "written", "verified", "kept"},
        stamp : Stamps \cup {0}, ver : Vers]
Idle == [at |-> "idle", stamp |-> 0, ver |-> 0]
Restore == [at : {"idle", "verified", "moved", "clear", "copying"}, stamp : Stamps \cup {0}]
NoRestore == [at |-> "idle", stamp |-> 0]

TypeOK ==
    /\ up \in BOOLEAN
    /\ main \in Main \cup {None} /\ wal \in Wal \cup {None}
    /\ aside \subseteq Main \cup Wal
    /\ file \in [Stamps -> Contents]
    /\ job \in [Jobs -> Job]
    /\ restore \in Restore
    /\ reported \in Stamps \cup {0}
    /\ owed \subseteq Vers

Init ==
    /\ up = FALSE
    /\ main = [kind |-> "main", id |-> 0, ver |-> 1] /\ wal = None
    /\ aside = {}
    /\ file = [s \in Stamps |-> Missing]
    /\ job = [j \in Jobs |-> Idle]
    /\ restore = NoRestore
    /\ reported = 0
    /\ owed = {}

-----------------------------------------------------------------------------
\* The database, as SQLite keeps it in WAL mode

Sound == main # None /\ main.ver # Torn

\* What a reader sees: whatever log is in place is replayed.
Live == IF wal # None THEN wal.ver ELSE main.ver

Pieces == aside \cup {main, wal}
Known == {x.ver : x \in Pieces \ {None}} \cup {file[s] : s \in Stamps}
Newest(S) == CHOOSE v \in S : \A w \in S : w <= v
LastVer == Newest((Known \cap Vers) \cup owed \cup {job[j].ver : j \in Jobs})
LastId == Newest({x.id : x \in {y \in Pieces : y.kind = "main"}}
                 \cup {x.of : x \in {y \in Pieces : y.kind = "wal"}} \cup {0})
NewMain(ver) == [kind |-> "main", id |-> LastId + 1, ver |-> ver]

\* A database that is not there is created, and a log beside it deleted.
Start ==
    /\ ~up /\ restore = NoRestore
    /\ \/ /\ Sound
          /\ UNCHANGED <<main, wal, owed>>
       \/ /\ main = None /\ LastId < MaxId /\ LastVer < MaxVer
          /\ main' = NewMain(LastVer + 1)
          /\ wal' = None
          /\ owed' = IF wal = None THEN owed ELSE owed \ {wal.ver}
    /\ up' = TRUE
    /\ UNCHANGED <<aside, file, job, restore, reported>>

Commit ==
    /\ up /\ LastVer < MaxVer
    /\ wal' = [kind |-> "wal", of |-> main.id, ver |-> LastVer + 1]
    /\ UNCHANGED <<up, main, aside, file, job, restore, reported, owed>>

Checkpoint ==
    /\ up /\ wal # None
    /\ main' = [main EXCEPT !.ver = wal.ver]
    /\ UNCHANGED <<up, wal, aside, file, job, restore, reported, owed>>

\* The last connection closes, or the process is killed.
Stop ==
    /\ up
    /\ up' = FALSE
    /\ \/ main' = [main EXCEPT !.ver = Live] /\ wal' = None
       \/ UNCHANGED <<main, wal>>
    /\ UNCHANGED <<aside, file, job, restore, reported, owed>>

-----------------------------------------------------------------------------
\* create_backup

Taken == {s \in Stamps : file[s] # Missing} \cup {job[j].stamp : j \in Jobs} \cup {reported}

\* VACUUM INTO a new file; it reads the database as it is now.
BackupBegin(j) ==
    /\ job[j] = Idle
    /\ Sound /\ restore = NoRestore
    /\ \E s \in Stamps :
          /\ s = Newest(Taken) + 1
          /\ file' = [file EXCEPT ![s] = Torn]
          /\ job' = [job EXCEPT ![j] = [at |-> "writing", stamp |-> s, ver |-> Live]]
    /\ UNCHANGED <<database, restore, reported, owed>>

\* The copy may not be sound, and goes nowhere if its name is gone.
BackupWritten(j) ==
    LET s == job[j].stamp IN
    /\ job[j].at = "writing"
    /\ file' \in {[file EXCEPT ![s] = IF @ = Missing THEN @ ELSE c] : c \in {job[j].ver, Torn}}
    /\ job' = [job EXCEPT ![j].at = "written"]
    /\ UNCHANGED <<database, restore, reported, owed>>

\* Mutant: the copy is not verified.
BackupUnverified(j) ==
    /\ job[j].at = "written"
    /\ job' = [job EXCEPT ![j].at = "verified"]
    /\ UNCHANGED <<database, file, restore, reported, owed>>

\* _verify: opening a file that is gone creates an empty database, which is sound.
BackupVerify(j) ==
    LET s == job[j].stamp IN
    /\ job[j].at = "written"
    /\ file' = [file EXCEPT ![s] = CASE @ = Torn -> Missing [] @ = Missing -> 0 [] OTHER -> @]
    /\ job' = [job EXCEPT ![j] = IF file[s] = Torn THEN Idle ELSE [@ EXCEPT !.at = "verified"]]
    /\ UNCHANGED <<database, restore, reported, owed>>

\* Whatever has the name of a backup counts, also one that is being written.
Kept == {s \in Stamps : Cardinality({t \in Stamps : t >= s /\ file[t] # Missing}) <= Keep}

BackupPrune(j) ==
    /\ job[j].at = "verified"
    /\ file' = [s \in Stamps |-> IF s \in Kept THEN file[s] ELSE Missing]
    /\ job' = [job EXCEPT ![j].at = "kept"]
    /\ UNCHANGED <<database, restore, reported, owed>>

\* The backup is described; that fails if it has been pruned.
BackupReport(j) ==
    LET s == job[j].stamp IN
    /\ job[j].at = "kept"
    /\ reported' = IF file[s] = Missing THEN reported ELSE s
    /\ job' = [job EXCEPT ![j] = Idle]
    /\ UNCHANGED <<database, file, restore, owed>>

\* The disk is full, or the process ends; what is written stays.
BackupDies(j) ==
    /\ job[j] # Idle
    /\ job' = [job EXCEPT ![j] = Idle]
    /\ UNCHANGED <<database, file, restore, reported, owed>>

-----------------------------------------------------------------------------
\* restore_backup

RestoreBegin(s) ==
    /\ ~up /\ restore = NoRestore /\ \A j \in Jobs : job[j] = Idle
    /\ file[s] \in Vers
    /\ restore' = [at |-> "verified", stamp |-> s]
    /\ UNCHANGED <<database, file, job, reported, owed>>

MoveMain ==
    /\ restore.at = "verified"
    /\ main' = None
    /\ aside' = aside \cup ({main} \ {None})
    /\ owed' = IF Sound THEN owed \cup {Live} ELSE owed
    /\ restore' = [restore EXCEPT !.at = "moved"]
    /\ UNCHANGED <<up, wal, file, job, reported>>

\* Mutant: the log stays where it is.
MoveNothing ==
    /\ restore.at = "moved"
    /\ restore' = [restore EXCEPT !.at = "clear"]
    /\ UNCHANGED <<database, file, job, reported, owed>>

\* The log is moved after the database.
MoveWal ==
    /\ restore.at = "moved"
    /\ wal' = None
    /\ aside' = aside \cup ({wal} \ {None})
    /\ restore' = [restore EXCEPT !.at = "clear"]
    /\ UNCHANGED <<up, main, file, job, reported, owed>>

CopyBegin ==
    /\ restore.at = "clear" /\ LastId < MaxId
    /\ main' = NewMain(Torn)
    /\ restore' = [restore EXCEPT !.at = "copying"]
    /\ UNCHANGED <<up, wal, aside, file, job, reported, owed>>

\* The copy has landed and is sound; one that is not is a restore that dies.
CopyEnd ==
    /\ restore.at = "copying"
    /\ main' = [main EXCEPT !.ver = file[restore.stamp]]
    /\ restore' = NoRestore
    /\ UNCHANGED <<up, wal, aside, file, job, reported, owed>>

RestoreDies ==
    /\ restore # NoRestore
    /\ restore' = NoRestore
    /\ UNCHANGED <<database, file, job, reported, owed>>

Next ==
    \/ Start \/ Commit \/ Checkpoint \/ Stop
    \/ \E j \in Jobs : \/ BackupBegin(j) \/ BackupWritten(j) \/ BackupVerify(j)
                       \/ BackupPrune(j) \/ BackupReport(j) \/ BackupDies(j)
    \/ \E s \in Stamps : RestoreBegin(s)
    \/ MoveMain \/ MoveWal \/ CopyBegin \/ CopyEnd \/ RestoreDies

Spec == Init /\ [][Next]_vars

-----------------------------------------------------------------------------
\* Properties

\* A sound backup, as new as the last one that was reported, can be restored: no
\* failed, torn or interrupted backup costs the good one, even if one is kept
\* (one backup at a time; "retention can never be made to delete every copy",
\* backup_retention).
GoodBackupStays ==
    reported # 0 => \E s \in Stamps : s >= reported /\ file[s] \in Vers \ {0}

\* The two pieces of a state, wherever they are now.
Recoverable(v) ==
    \E m \in {x \in Pieces : x.kind = "main"} :
        \/ m.ver = v
        \/ \E w \in {x \in Pieces : x.kind = "wal"} : w.of = m.id /\ w.ver = v

\* A log is only ever replayed over the database it belongs to, and what a
\* restore has displaced can be put together again, wherever this restore and
\* those that repeat it have stopped (restore_backup: "so a mistaken restore is
\* reversible and no stale WAL frame survives").  The application must not be
\* started on a half-done restore: it would create a database, and SQLite would
\* delete the log.
RestoresAreReversible ==
    /\ main # None /\ wal # None => wal.of = main.id
    /\ \A v \in owed : Recoverable(v)

=============================================================================
