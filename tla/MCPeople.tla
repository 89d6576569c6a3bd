------------------------------ MODULE MCPeople -------------------------------
(***************************************************************************)
(* Who may use a server, side by side in one instance: the accounts with   *)
(* their admins (MCAccounts), the members of a workspace (MCMembers), the  *)
(* password and the sessions of an account (Sessions; "sserial" is its one *)
(* request at a time), signing in through a provider (OAuth), the projects *)
(* of the workspace (Projects; "pcalm" is its one request at a time), and  *)
(* programs with a key (ExternalApi; "xcalm" is one writer of settings at  *)
(* a time).  The first state chooses which of them runs ("part").          *)
(***************************************************************************)
EXTENDS MCAccounts, Naturals

CONSTANTS
    Pair,       \* requests served at the same time, in all parts but the accounts
    SessionRows, Browsers, Txns,
    Ids, Kids, Bases, Long, Folders, Within, MaxCopies, Gone,   \* see Projects
    Database,   \* of the projects
    MaxEpoch,
    Keys, Spare, Limit, Window, Slots, MaxTracked, Life, MaxClock, MaxWait  \* see ExternalApi

VARIABLES
    part,
    created, role, mcall, mserial,
    active, identity, sess, epoch, scall, sserial,
    exists, owner, signedIn, cookie, tx, served, asked, ocall,
    project, rowOf, pcall, pcalm,
    now, row, apiOn, lan, mirror, window, order, inflight, leaked, xcall, passed, xcalm

M == INSTANCE MCMembers WITH Requests <- Pair, call <- mcall, serial <- mserial
S == INSTANCE Sessions WITH Requests <- Pair, Sessions <- SessionRows, call <- scall
O == INSTANCE OAuth WITH Users <- FirstAdmins, Requests <- Pair,
                         None <- NoUser, call <- ocall
P == INSTANCE Projects WITH Requests <- Pair, NoFolder <- NoUser, None <- NoUser,
                            Engine <- Database, owner <- rowOf, call <- pcall
X == INSTANCE ExternalApi WITH Requests <- Pair, Never <- NoUser, active <- apiOn,
                               call <- xcall

\* What the parts assume of their constants.
ASSUME PartsAssumption ==
    /\ IsFiniteSet(Pair)
    /\ NoUser \notin Users \cup Browsers \cup Txns
    /\ MaxEpoch \in Nat

ASSUME ProjectsAssumption ==
    /\ NoUser \notin Ids
    /\ Gone \notin Ids
    /\ NoUser # Gone
    /\ NoUser \notin P!Project
    /\ Gone \notin P!Project

ASSUME ExternalAssumption ==
    /\ IsFiniteSet(Keys)
    /\ {Limit, Window, Slots, MaxTracked} \subseteq Nat \ {0}
    /\ {Life, MaxClock, MaxWait} \subseteq Nat
    /\ NoUser \notin X!Hits

accountVars == <<vars, server>>
memberVars == <<created, role, mcall, mserial>>
sessionVars == <<active, identity, sess, epoch, scall, sserial>>
oauthVars == <<exists, owner, signedIn, cookie, tx, served, asked, ocall>>
projectVars == <<project, rowOf, pcall, pcalm>>
externalVars == <<now, row, apiOn, lan, mirror, window, order, inflight, leaked, xcall, passed, xcalm>>

\* Two folders, one in the other.
MCWithin == {w \in Folders \X Folders : w[1] = w[2] \/ w = <<"inner", "outer">>}

PeopleSymmetry == Permutations(Requests) \cup Permutations(Pair)

\* A part that does not run has no state: its variables are 0.
NoSessions ==
    /\ active = 0 /\ identity = 0 /\ sess = 0 /\ epoch = 0 /\ scall = 0 /\ sserial = FALSE
NoOAuth ==
    /\ exists = 0 /\ owner = 0 /\ signedIn = 0 /\ cookie = 0 /\ tx = 0
    /\ served = 0 /\ asked = 0 /\ ocall = 0
NoProjects == project = 0 /\ rowOf = 0 /\ pcall = 0 /\ pcalm = TRUE
NoExternal ==
    /\ now = 0 /\ row = 0 /\ apiOn = 0 /\ lan = 0 /\ mirror = 0 /\ window = 0
    /\ order = 0 /\ inflight = 0 /\ leaked = 0 /\ xcall = 0 /\ passed = 0 /\ xcalm = TRUE

PeopleInit ==
    /\ part \in {"accounts", "members", "sessions", "oauth", "projects", "external"}
    /\ MCInit /\ M!MCInit
    /\ part # "accounts" => server = "postgresql"
    /\ part # "members" => ~mserial
    /\ IF part = "sessions" THEN S!Init /\ sserial \in BOOLEAN ELSE NoSessions
    /\ IF part = "oauth" THEN O!Init ELSE NoOAuth
    /\ IF part = "projects" THEN P!Init /\ pcalm \in BOOLEAN ELSE NoProjects
    /\ IF part = "external" THEN X!Init /\ xcalm \in BOOLEAN /\ (~xcalm => lan)
                            ELSE NoExternal

SessionsNext ==
    /\ S!Next
    /\ sserial => Cardinality({r \in Pair : scall'[r] # S!Idle}) <= 1
    /\ UNCHANGED sserial

\* New projects get the lowest id that is not in use (one order of equal ids is
\* enough); if requests overlap, two projects are enough.
Used == {p \in Ids : project[p] # NoUser \/ \E r \in Pair : pcall[r].id = p}
ProjectsNext ==
    /\ P!Next
    /\ \A p \in Used' \ Used : {q \in Ids : q < p} \subseteq Used
    /\ IF pcalm THEN Cardinality({r \in Pair : pcall'[r] # P!Idle}) <= 1
                ELSE Used' \subseteq 1..2
    /\ UNCHANGED pcalm

\* The settings have one writer at a time, who does not fail half way, and one
\* program asks; or programs ask as they like, and nobody writes settings.  The spare
\* key is issued last; it is there for the limiter to forget others, and not revoked.
Writers == {r \in Pair : xcall[r].at \in {"saved", "mirroring"}}
ExternalNext ==
    /\ X!Next
    /\ xcalm => /\ row'[Spare] = X!New /\ now' = 0
                /\ Cardinality(Writers') <= 1
                /\ \A r \in Pair : xcall[r].at = "saved" => xcall'[r] # X!Idle \/ mirror' = lan'
    /\ ~xcalm => apiOn' = apiOn /\ lan' = lan /\ \A r \in Pair : xcall'[r].at # "saved"
    /\ row'[Spare] # X!New => \A k \in Keys \ {Spare} : row[k] # X!New
    /\ row'[Spare].state # "revoked"
    /\ UNCHANGED xcalm

PeopleNext ==
    /\ \/ /\ part = "accounts" /\ MCNext
          /\ UNCHANGED <<memberVars, sessionVars, oauthVars, projectVars, externalVars>>
       \/ /\ part = "members" /\ M!MCNext
          /\ UNCHANGED <<accountVars, sessionVars, oauthVars, projectVars, externalVars>>
       \/ /\ part = "sessions" /\ SessionsNext
          /\ UNCHANGED <<accountVars, memberVars, oauthVars, projectVars, externalVars>>
       \/ /\ part = "oauth" /\ O!Next
          /\ UNCHANGED <<accountVars, memberVars, sessionVars, projectVars, externalVars>>
       \/ /\ part = "projects" /\ ProjectsNext
          /\ UNCHANGED <<accountVars, memberVars, sessionVars, oauthVars, externalVars>>
       \/ /\ part = "external" /\ ExternalNext
          /\ UNCHANGED <<accountVars, memberVars, sessionVars, oauthVars, projectVars>>
    /\ UNCHANGED part

PeopleSpec ==
    PeopleInit /\ [][PeopleNext]_<<part, accountVars, memberVars, sessionVars, oauthVars,
                                 projectVars, externalVars>>

\* One request at a time, a workspace with members has an owner, and only an
\* owner lets others in (see MCMembers).
SerialOwnersDecide == [][M!TypeOK']_memberVars /\ M!SerialOwnersDecide

\* One request at a time, also when requests die in the middle, nobody is signed in
\* on a replaced password or from before a deactivation, and an issued password must
\* be changed (see Sessions).
SerialSessionsAreCurrent ==
    part = "sessions" =>
        S!TypeOK /\ (sserial => S!SessionsAreCurrent /\ S!TempMustBeChanged)

\* A flow of a provider ends once, in the browser and the account it began in
\* (consume_transaction and oauth_callback, see FlowsEndOnce and
\* LinkedOnRequest of OAuth).
FlowsEndWhereTheyBegan ==
    part = "oauth" => O!TypeOK /\ O!FlowsEndOnce /\ O!LinkedOnRequest

\* A purge takes a project with all its rows or leaves it, and slugs are unique;
\* one request at a time, roots do not overlap, duplicates are not refused for
\* their slug, and only archived projects are purged (see Projects).
ProjectsStaySound ==
    [][part = "projects" =>
          /\ P!TypeOK' /\ P!RowsBelong'
          /\ pcalm => P!RootsAreApart' /\ P!CopiesAreNamed' /\ P!ArchivedFirst]_projectVars

\* A revoked key stays revoked, keys hold only the slots of requests that work and of
\* proposals the database failed, and pass two windows' hits at most in the time of
\* one, and the limiter remembers a bounded number of them; the LAN switch in memory
\* is true, if settings are written one after the other (see ExternalApi).
AccessIsBounded ==
    [][part = "external" =>
          /\ X!TypeOK' /\ X!SlotsAreReturned' /\ X!RateHolds' /\ X!KeysAreForgotten'
          /\ X!RevokedForGood
          /\ xcalm => X!MirrorIsTrue']_externalVars

=============================================================================
