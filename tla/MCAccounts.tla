----------------------------- MODULE MCAccounts -----------------------------
(***************************************************************************)
(* Several servers in one instance; the first state chooses one.  The      *)
(* extended module runs on PostgreSQL (the value of Engine), Sqlite is the *)
(* same module on SQLite, and Empty starts without accounts.               *)
(***************************************************************************)
EXTENDS Accounts, TLC

CONSTANT Servers    \* the servers of a run

VARIABLE server

Sqlite == INSTANCE Accounts WITH Engine <- "sqlite"
Empty == INSTANCE Accounts WITH FirstAdmins <- {}

Symmetry == Permutations(Requests)

MCInit ==
    /\ server \in Servers
    /\ \/ server \in {"postgresql", "sqlite"} /\ Init
       \/ server \in {"empty postgresql", "empty sqlite"} /\ Empty!Init

MCNext ==
    /\ \/ server \in {"postgresql", "empty postgresql"} /\ Next
       \/ server \in {"sqlite", "empty sqlite"} /\ Sqlite!Next
    /\ UNCHANGED server

MCSpec == MCInit /\ [][MCNext]_<<vars, server>>

\* Of the registrations that race on an empty PostgreSQL server at most one
\* becomes admin, also when the request that won the claim dies or its email is
\* taken (_claim_bootstrap_admin; nobody is promoted here).
OneBootstrapWhenEmpty == server = "empty postgresql" => OneBootstrap

=============================================================================
