------------------------------ MODULE Migrations ------------------------------
(***************************************************************************)
(* Startup of the mflint servers that share one database: each applies the *)
(* migrations its binary embeds and only then listens (main, Migrate).     *)
(* Nothing orders servers that start together, and during a deploy they    *)
(* run different releases.  A migration is checked outside the transaction *)
(* that applies and records it.                                            *)
(***************************************************************************)
EXTENDS Naturals, FiniteSets

CONSTANTS
  Servers,       \* server processes
  LastMigration, \* number of migrations of the newest release
  Releases,      \* the releases deployed, by their number of migrations
  MaxFaults      \* bound: crashes and failed statements

Migrations == 1..LastMigration

ASSUME MigrationsAssumption ==
  /\ LastMigration \in Nat /\ MaxFaults \in Nat
  /\ Releases \subseteq 0..LastMigration

VARIABLES
  hasTable,  \* does table schema_migrations exist
  recorded,  \* committed rows of schema_migrations, with the schema they stand for
  commits,   \* history: how often the transaction of each migration committed
  pc,        \* the statement each server runs next, "down" or "serving"
  next,      \* the migration its loop is at
  release,   \* the release it runs
  faults

database == <<hasTable, recorded, commits>>
server == <<pc, next, release>>
vars == <<database, server, faults>>

TypeOK ==
  /\ hasTable \in BOOLEAN
  /\ recorded \subseteq Migrations
  /\ commits \in [Migrations -> Nat]
  /\ pc \in [Servers -> {"down", "createTable", "check", "apply", "record", "commit", "serving"}]
  /\ next \in [Servers -> 1..(LastMigration + 1)]
  /\ release \in [Servers -> Releases]
  /\ faults \in 0..MaxFaults

Init ==
  /\ hasTable = FALSE
  /\ recorded = {}
  /\ commits = [m \in Migrations |-> 0]
  /\ pc = [s \in Servers |-> "down"]
  /\ next = [s \in Servers |-> 1]
  /\ release \in [Servers -> Releases]
  /\ faults = 0

Goto(s, there) == pc' = [pc EXCEPT ![s] = there]

\* log.Fatalf, or the process dies: its open transaction is rolled back.
Exit(s) == Goto(s, "down") /\ UNCHANGED <<next, release>>
Fails == faults < MaxFaults /\ faults' = faults + 1

-----------------------------------------------------------------------------
\* The supervisor starts the process, of the same or another release.
Start(s, r) ==
  /\ pc[s] = "down"
  /\ Goto(s, "createTable")
  /\ next' = [next EXCEPT ![s] = 1]
  /\ release' = [release EXCEPT ![s] = r]
  /\ UNCHANGED <<database, faults>>

\* CREATE TABLE IF NOT EXISTS, which fails when it races with another.
CreateTable(s) ==
  /\ pc[s] = "createTable"
  /\ UNCHANGED <<recorded, commits, next, release>>
  /\ \/ hasTable' = TRUE /\ Goto(s, "check") /\ UNCHANGED faults
     \/ Fails /\ Goto(s, "down") /\ UNCHANGED hasTable

\* A bug: the loop runs one past the end.
CheckPastTheEnd(s) ==
  /\ pc[s] = "check"
  /\ UNCHANGED <<database, release, faults>>
  /\ \/ next[s] > release[s] + 1 /\ Goto(s, "serving") /\ UNCHANGED next
     \/ /\ next[s] <= release[s] + 1 /\ next[s] \in recorded
        /\ next' = [next EXCEPT ![s] = @ + 1]
        /\ UNCHANGED pc
     \/ /\ next[s] <= release[s] + 1 /\ next[s] \notin recorded
        /\ Goto(s, "apply")
        /\ UNCHANGED next

\* A bug: what is already recorded is applied again instead of skipped.
CheckWithoutSkip(s) ==
  /\ pc[s] = "check"
  /\ UNCHANGED <<database, next, release, faults>>
  /\ \/ next[s] > release[s] /\ Goto(s, "serving")
     \/ next[s] <= release[s] /\ Goto(s, "apply")

\* The loop head: skip a migration already recorded; after the last, listen.
Check(s) ==
  /\ pc[s] = "check"
  /\ UNCHANGED <<database, release>>
  /\ \/ next[s] > release[s] /\ Goto(s, "serving") /\ UNCHANGED <<next, faults>>
     \/ /\ next[s] <= release[s] /\ next[s] \in recorded
        /\ next' = [next EXCEPT ![s] = @ + 1]
        /\ UNCHANGED <<pc, faults>>
     \/ /\ next[s] <= release[s] /\ next[s] \notin recorded
        /\ Goto(s, "apply")
        /\ UNCHANGED <<next, faults>>
     \/ next[s] <= release[s] /\ Fails /\ Goto(s, "down") /\ UNCHANGED next

\* BEGIN and the migration's statements, seen by nobody before the commit.  The
\* locks another server holds only delay them, and what another has committed
\* since the check they skip (IF NOT EXISTS) or trip over.
Apply(s) ==
  /\ pc[s] = "apply"
  /\ UNCHANGED <<database, next, release>>
  /\ \/ Goto(s, "record") /\ UNCHANGED faults
     \/ next[s] \in recorded /\ Goto(s, "down") /\ UNCHANGED faults
     \/ Fails /\ Goto(s, "down")

\* A bug: no primary key on filename.
RecordWithoutKey(s) ==
  /\ pc[s] = "record"
  /\ Goto(s, "commit")
  /\ UNCHANGED <<database, next, release, faults>>

\* INSERT INTO schema_migrations: the primary key makes it wait for another
\* server's uncommitted row and fail on a committed one.
Record(s) ==
  /\ pc[s] = "record"
  /\ \A t \in Servers : ~(pc[t] = "commit" /\ next[t] = next[s])
  /\ UNCHANGED <<database, next, release>>
  /\ \/ next[s] \notin recorded /\ Goto(s, "commit") /\ UNCHANGED faults
     \/ next[s] \in recorded /\ Goto(s, "down") /\ UNCHANGED faults
     \/ Fails /\ Goto(s, "down")

\* A bug: the error of the commit is dropped and the loop goes on.
CommitIgnoringErrors(s) ==
  /\ pc[s] = "commit"
  /\ Goto(s, "check")
  /\ next' = [next EXCEPT ![s] = @ + 1]
  /\ UNCHANGED <<hasTable, release>>
  /\ \/ /\ recorded' = recorded \cup {next[s]}
        /\ commits' = [commits EXCEPT ![next[s]] = @ + 1]
        /\ UNCHANGED faults
     \/ Fails /\ UNCHANGED <<recorded, commits>>

\* COMMIT; when it reports an error the transaction may still have committed.
Commit(s) ==
  LET Committed ==
        /\ recorded' = recorded \cup {next[s]}
        /\ commits' = [commits EXCEPT ![next[s]] = @ + 1]
  IN /\ pc[s] = "commit"
     /\ UNCHANGED <<hasTable, release>>
     /\ \/ Committed /\ Goto(s, "check") /\ next' = [next EXCEPT ![s] = @ + 1] /\ UNCHANGED faults
        \/ Committed /\ Fails /\ Goto(s, "down") /\ UNCHANGED next
        \/ Fails /\ Goto(s, "down") /\ UNCHANGED <<recorded, commits, next>>

Crash(s) ==
  /\ pc[s] # "down"
  /\ Fails
  /\ Exit(s)
  /\ UNCHANGED database

\* A deploy stops a serving process.
Stop(s) ==
  /\ pc[s] = "serving"
  /\ Exit(s)
  /\ UNCHANGED <<database, faults>>

Boot(s) ==
  \/ \E r \in Releases : Start(s, r)
  \/ CreateTable(s)
  \/ Check(s)
  \/ Apply(s)
  \/ Record(s)
  \/ Commit(s)

Next == \E s \in Servers : Boot(s) \/ Crash(s) \/ Stop(s)

Spec == Init /\ [][Next]_vars

\* The supervisor restarts a server that exited (restart: unless-stopped), and
\* a started server keeps executing its statements.
FairSpec == Spec /\ \A s \in Servers : WF_vars(Boot(s))

-----------------------------------------------------------------------------
(* Properties.                                                             *)

\* However startups of different releases interleave and crash, no server
\* listens before every migration of its own release is committed (Migrate).
ServingHasSchema ==
  \A s \in Servers : pc[s] = "serving" => 1..release[s] \subseteq recorded

\* The check is stale by the time its migration is applied, and yet no
\* migration is ever committed twice (Migrate, PRIMARY KEY filename).
CommittedOnce == \A m \in Migrations : commits[m] <= 1

\* This step commits nothing, or the one migration that follows those committed.
CommitsTheNext ==
  recorded' # recorded =>
    \E m \in Migrations : recorded = 1..(m - 1) /\ recorded' = 1..m

\* Migrations are committed one at a time in filename order, by whichever
\* server, and are never undone.
AppliedInOrder == [][CommitsTheNext]_vars

\* With finitely many failures, every server that is started again whenever it
\* exits gets to serve, even if it lost the race for some migrations.
EveryServerServes == \A s \in Servers : pc[s] = "down" ~> pc[s] = "serving"
=============================================================================
