------------------------------- MODULE Mails --------------------------------
(***************************************************************************)
(* The reminder mails of one project: send_project_reminders of            *)
(* services/email_service.py, called by a person or by the scheduler.      *)
(*                                                                         *)
(* A request counts the mails of the day once, then goes through the rules *)
(* and hands mail after mail to the SMTP server, and commits the log of    *)
(* all of them at the end.  The first row of the log takes SQLite's write  *)
(* lock until then; a second request waits for it at its own first row,    *)
(* and gives up after some seconds, its mail already sent.                 *)
(***************************************************************************)
EXTENDS Integers

CONSTANTS
    Requests,   \* requests served at the same time
    Rules,      \* how many rules the project has
    Cap,        \* EMAIL_DAILY_CAP
    MaxDay      \* bound: days

VARIABLES
    day,
    log,        \* EmailLog as committed: the mails sent, up to each day
    accepted,   \* history: the mails the SMTP server has said it took, up to each day
    unsure,     \* history: the mails it took, its reply lost, up to each day
    call        \* what each request is doing

vars == <<day, log, accepted, unsure, call>>

Days == 1..MaxDay
Counts == [0..MaxDay -> Nat]
NoMail == [d \in 0..MaxDay |-> 0]
OneMore(count) == [d \in 0..MaxDay |-> IF d >= day THEN count[d] + 1 ELSE count[d]]
On(count, d) == count[d] - count[d - 1]

\* All the mails that have left.
Gone == [d \in 0..MaxDay |-> accepted[d] + unsure[d]]

\* "left" rules are still to be looked at, "sent" is sent_today, "rows" what is
\* logged but not committed.
Call == [at : {"idle", "rules", "sent", "failed"}, left : 0..Rules, sent : Nat, rows : Counts,
         writes : BOOLEAN]
Idle == [at |-> "idle", left |-> 0, sent |-> 0, rows |-> NoMail, writes |-> FALSE]

TypeOK ==
    /\ day \in Days
    /\ log \in Counts /\ accepted \in Counts /\ unsure \in Counts
    /\ call \in [Requests -> Call]
    /\ \A r, q \in Requests : call[r].writes /\ call[q].writes => r = q

Init ==
    /\ day = 1
    /\ log = NoMail /\ accepted = NoMail /\ unsure = NoMail
    /\ call = [r \in Requests |-> Idle]

Becomes(r, c) == call' = [call EXCEPT ![r] = c]
WriterFree(r) == \A q \in Requests \ {r} : ~call[q].writes

\* The rules and _sent_today.
Begin(r) ==
    /\ call[r] = Idle
    /\ Becomes(r, [Idle EXCEPT !.at = "rules", !.left = Rules, !.sent = On(log, day)])
    /\ UNCHANGED <<day, log, accepted, unsure>>

NextRule(c) == [c EXCEPT !.left = @ - 1]

\* The cap is reached, or nothing is due.
Skip(r) ==
    /\ call[r].at = "rules" /\ call[r].left > 0
    /\ Becomes(r, NextRule(call[r]))
    /\ UNCHANGED <<day, log, accepted, unsure>>

\* The content looks like a secret, or the SMTP server refuses it.
Fail(r) ==
    /\ call[r].at = "rules" /\ call[r].left > 0
    /\ call[r].sent < Cap
    /\ Becomes(r, [NextRule(call[r]) EXCEPT !.at = "failed"])
    /\ UNCHANGED <<day, log, accepted, unsure>>

\* The SMTP server takes the mail, but its reply is late or the QUIT after it fails:
\* to the except branch that is a mail that has failed, and does not count.
LoseReply(r) ==
    /\ call[r].at = "rules" /\ call[r].left > 0
    /\ call[r].sent < Cap
    /\ unsure' = OneMore(unsure)
    /\ Becomes(r, [NextRule(call[r]) EXCEPT !.at = "failed"])
    /\ UNCHANGED <<day, log, accepted>>

\* Mutant: the mails of this request do not count.
SendUncounted(r) ==
    /\ call[r].at = "rules" /\ call[r].left > 0
    /\ call[r].sent < Cap
    /\ accepted' = OneMore(accepted)
    /\ Becomes(r, [NextRule(call[r]) EXCEPT !.at = "sent"])
    /\ UNCHANGED <<day, log, unsure>>

Send(r) ==
    /\ call[r].at = "rules" /\ call[r].left > 0
    /\ call[r].sent < Cap
    /\ accepted' = OneMore(accepted)
    /\ Becomes(r, [NextRule(call[r]) EXCEPT !.at = "sent", !.sent = @ + 1])
    /\ UNCHANGED <<day, log, unsure>>

\* _log, with the day it is by then.
Log(r) ==
    /\ call[r].at \in {"sent", "failed"}
    /\ WriterFree(r)
    /\ Becomes(r, [call[r] EXCEPT !.at = "rules", !.writes = TRUE,
                                  !.rows = IF call[r].at = "sent" THEN OneMore(@) ELSE @])
    /\ UNCHANGED <<day, log, accepted, unsure>>

\* The commit; the audit events go with the log.
Commit(r) ==
    /\ call[r].at = "rules" /\ call[r].left = 0
    /\ log' = [d \in 0..MaxDay |-> log[d] + call[r].rows[d]]
    /\ Becomes(r, Idle)
    /\ UNCHANGED <<day, accepted, unsure>>

\* The lock is not to be had, the commit fails, or the process ends: nothing of
\* the log remains.
Abort(r) ==
    /\ call[r] # Idle
    /\ Becomes(r, Idle)
    /\ UNCHANGED <<day, log, accepted, unsure>>

Midnight ==
    /\ day < MaxDay
    /\ day' = day + 1
    /\ UNCHANGED <<log, accepted, unsure, call>>

Work(r) ==
    \/ Begin(r) \/ Skip(r) \/ Fail(r) \/ LoseReply(r) \/ Send(r)
    \/ Log(r) \/ Commit(r)

Next == Midnight \/ \E r \in Requests : Work(r) \/ Abort(r)

Spec == Init /\ [][Next]_vars

-----------------------------------------------------------------------------
\* Properties

\* The mails of one project that leave in a day are no more than Cap and those whose
\* reply was lost that day, also when a request begins before midnight and goes on
\* after it (one request at a time, each to its end; "Per-project daily send cap
\* (anti-abuse, counted from EmailLog)").
CapHolds == \A d \in Days : On(Gone, d) <= Cap + On(unsure, d)

\* The log counts no mail as sent that has not left, none before it has, and none
\* whose reply was lost: whatever overlaps, dies or goes on after midnight ("record of
\* every reminder email attempt", EmailLog).
LogIsTrue == \A d \in Days : log[d] <= accepted[d]

=============================================================================
