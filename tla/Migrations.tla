----------------------------- MODULE Migrations -----------------------------
(***************************************************************************)
(* The migrations that every container applies before its server starts    *)
(* (migrations/runner.py, backend/entrypoint.sh; scripts/deploy.sh runs    *)
(* them once more).                                                        *)
(*                                                                         *)
(* Nothing keeps two runners apart: each reads the recorded versions once  *)
(* and then takes the missing ones in order.  A migration is applied and   *)
(* recorded in one transaction, but for those that build indexes           *)
(* CONCURRENTLY (008, 010, 030), which are applied and then recorded.      *)
(***************************************************************************)
EXTENDS Naturals

CONSTANTS
    LastMigration,   \* MIGRATIONS are 1 .. LastMigration
    Standalone,      \* those with TRANSACTIONAL = False
    Runner,          \* containers and the deploy script
    MaxRunnerFaults  \* bound on the runners that fail or restart

ASSUME MigrationsAssumption ==
    /\ LastMigration \in Nat /\ Standalone \subseteq 1 .. LastMigration
    /\ MaxRunnerFaults \in Nat

Migration == 1 .. LastMigration

NoRunner == [pc |-> "idle"]

VARIABLES
    tracked,      \* the table applied_migrations exists
    recorded,     \* its versions
    effect,       \* what up has left of each migration
    runner,       \* the runners: where they are, the versions read, the migration at hand
    runnerFaults  \* failures and restarts

migrationsVars == <<tracked, recorded, effect, runner, runnerFaults>>

InitMigrations ==
    /\ tracked = FALSE /\ recorded = {} /\ effect = [v \in Migration |-> "none"]
    /\ runner = [r \in Runner |-> NoRunner] /\ runnerFaults = 0

\* run_migrations connects and creates the table unless it is there.
EnsureMigrationsTable(r) ==
    /\ runner[r] = NoRunner /\ tracked' = TRUE
    /\ runner' = [runner EXCEPT ![r] = [pc |-> "read", applied |-> {}, at |-> 1]]
    /\ UNCHANGED <<recorded, effect, runnerFaults>>

GetApplied(r) ==
    /\ runner[r].pc = "read"
    /\ runner' = [runner EXCEPT ![r] = [@ EXCEPT !.pc = "next", !.applied = recorded]]
    /\ UNCHANGED <<tracked, recorded, effect, runnerFaults>>

\* The migration the loop has come to.
AtMigration(r, v) == runner[r].pc = "next" /\ runner[r].at = v /\ v \in Migration

SkipApplied(r, v) ==
    /\ AtMigration(r, v) /\ v \in runner[r].applied
    /\ runner' = [runner EXCEPT ![r].at = v + 1]
    /\ UNCHANGED <<tracked, recorded, effect, runnerFaults>>

\* Without the transaction around up and the INSERT.
UpCommitted(r, v) ==
    /\ AtMigration(r, v) /\ v \notin runner[r].applied /\ v \notin Standalone
    /\ runner' = [runner EXCEPT ![r].pc = "insert"]
    /\ effect' = [effect EXCEPT ![v] = "whole"]
    /\ UNCHANGED <<tracked, recorded, runnerFaults>>

\* Inside a transaction, which nobody else sees before it commits.
UpInTransaction(r, v) ==
    /\ AtMigration(r, v) /\ v \notin runner[r].applied /\ v \notin Standalone
    /\ runner' = [runner EXCEPT ![r].pc = "insert"]
    /\ UNCHANGED <<tracked, recorded, effect, runnerFaults>>

\* Had a runner whose INSERT raises called down and deleted the version.
RecordOrTakeBack(r, v) ==
    IF v \in recorded
    THEN /\ runner' = [runner EXCEPT ![r] = NoRunner]
         /\ recorded' = recorded \ {v} /\ effect' = [effect EXCEPT ![v] = "none"]
    ELSE /\ recorded' = recorded \cup {v}
         /\ runner' = [runner EXCEPT ![r] = [@ EXCEPT !.pc = "next", !.at = v + 1]]
         /\ effect' = IF v \in Standalone THEN effect ELSE [effect EXCEPT ![v] = "whole"]

\* The version is the primary key: the second INSERT raises, which ends the runner and
\* takes back what up has done in the same transaction.
RecordVersion(r, v) ==
    IF v \in recorded
    THEN /\ runner' = [runner EXCEPT ![r] = NoRunner]
         /\ UNCHANGED <<recorded, effect>>
    ELSE /\ recorded' = recorded \cup {v}
         /\ runner' = [runner EXCEPT ![r] = [@ EXCEPT !.pc = "next", !.at = v + 1]]
         /\ effect' = IF v \in Standalone THEN effect ELSE [effect EXCEPT ![v] = "whole"]

\* The INSERT and, for a transaction, its commit.
InsertVersion(r) ==
    /\ runner[r].pc = "insert" /\ RecordVersion(r, runner[r].at)
    /\ UNCHANGED <<tracked, runnerFaults>>

\* Statements of their own, each of which skips what is there already.  The locks of the
\* tables let one runner build at a time.
UpAlone(r, v) ==
    /\ AtMigration(r, v) /\ v \notin runner[r].applied /\ v \in Standalone
    /\ effect[v] # "building"
    /\ effect' = [effect EXCEPT ![v] = IF @ \in {"none", "cut"} THEN "building" ELSE @]
    /\ runner' = [runner EXCEPT ![r].pc = IF effect[v] \in {"none", "cut"} THEN "build" ELSE "insert"]
    /\ UNCHANGED <<tracked, recorded, runnerFaults>>

IndexesBuilt(r) ==
    /\ runner[r].pc = "build"
    /\ effect' = [effect EXCEPT ![runner[r].at] = "whole"]
    /\ runner' = [runner EXCEPT ![r].pc = "insert"]
    /\ UNCHANGED <<tracked, recorded, runnerFaults>>

\* Every migration is skipped or applied: entrypoint.sh goes on to the server.
StartServer(r) ==
    /\ runner[r].pc = "next" /\ runner[r].at > LastMigration
    /\ runner' = [runner EXCEPT ![r] = [@ EXCEPT !.pc = "serve"]]
    /\ UNCHANGED <<tracked, recorded, effect, runnerFaults>>

\* A statement raises, the connection is lost or the container stops; it is restarted
\* and begins anew.  A transaction leaves nothing.  A build that is cut off between two
\* statements goes on the next time; one cut off within CREATE INDEX CONCURRENTLY
\* leaves an invalid index, which IF NOT EXISTS then takes for the index; the database
\* may also bring the last one to its end.
RunnerFails(r, left) ==
    /\ runner[r] # NoRunner /\ runnerFaults < MaxRunnerFaults
    /\ runnerFaults' = runnerFaults + 1
    /\ runner' = [runner EXCEPT ![r] = NoRunner]
    /\ effect' = IF runner[r].pc = "build" THEN [effect EXCEPT ![runner[r].at] = left] ELSE effect
    /\ UNCHANGED <<tracked, recorded>>

NextMigrations ==
    \E r \in Runner :
        \/ EnsureMigrationsTable(r) \/ GetApplied(r) \/ InsertVersion(r) \/ IndexesBuilt(r)
        \/ StartServer(r)
        \/ \E left \in {"cut", "invalid", "whole"} : RunnerFails(r, left)
        \/ \E v \in Migration : SkipApplied(r, v) \/ UpInTransaction(r, v) \/ UpAlone(r, v)

SpecMigrations == InitMigrations /\ [][NextMigrations]_migrationsVars

(***************************************************************************)
(* Properties.                                                             *)
(***************************************************************************)

\* The table's versions, what they stand for, and the runners.
MigrationsTypeOK ==
    /\ tracked \in BOOLEAN /\ recorded \subseteq Migration /\ (recorded # {} => tracked)
    /\ effect \in [Migration -> {"none", "building", "cut", "invalid", "whole"}]
    /\ runner \in [Runner -> {NoRunner} \cup
                     [pc : {"read", "next", "build", "insert", "serve"},
                      applied : SUBSET Migration, at : 1 .. (LastMigration + 1)]]
    /\ runnerFaults \in 0 .. MaxRunnerFaults

\* However many containers start together and wherever they stop, no migration is
\* recorded before the ones it builds on, what is recorded has taken effect (but for an
\* index left invalid), a transaction that is not recorded has left nothing, and a
\* server runs on the whole schema only.
MigrationsInOrder ==
    /\ \A v \in recorded : /\ 1 .. v \subseteq recorded
                           /\ effect[v] = "whole" \/ (v \in Standalone /\ effect[v] = "invalid")
    /\ \A v \in Migration \ (recorded \cup Standalone) : effect[v] = "none"
    /\ \A r \in Runner : runner[r].pc = "serve" => recorded = Migration

\* The containers whose server runs.
Serving == {r \in Runner : runner[r].pc = "serve"}

Schema == INSTANCE Upgrade WITH
    Last <- LastMigration, Server <- Runner, applied <- recorded, serving <- Serving

\* Nothing keeps the runners apart, and yet they do what one of them would do alone: each
\* version is recorded once, after those before it, and none is lost, whichever of the
\* runners records it and however many fail over it.
UpgradesInOrder == Schema!Spec

=============================================================================
