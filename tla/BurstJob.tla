------------------------------ MODULE BurstJob ------------------------------
(***************************************************************************)
(* The burst job of backend/jobs/burst_job.py: run_burst_job, which the    *)
(* crawler's scheduler starts, and manual_burst_trigger, which the admin   *)
(* API starts, exclude each other with the Redis key lock:burst_job_running.*)
(* The key holds "1", not its owner, and is deleted unconditionally; the   *)
(* owner below is a ghost that no guard looks at, except to tell an        *)
(* expiry under a running job from one that follows a crash.               *)
(***************************************************************************)
EXTENDS Naturals, FiniteSets

CONSTANTS
    Scheduled,      \* calls of run_burst_job that may be in progress
    Manual,         \* calls of manual_burst_trigger
    Group,          \* news groups
    MaxCandidates,  \* _MAX_CANDIDATES, the LIMIT of find_burst_candidates
    MaxLogs,        \* bound on the rows of burst_job_log
    MaxOverruns     \* bound on the expiries under a running job

Runner == Scheduled \cup Manual

Free == "free"
NoRow == 0
NoTarget == "none"

ASSUME RunnerAssumption ==
    /\ IsFiniteSet(Scheduled) /\ IsFiniteSet(Manual)
    /\ Scheduled \cap Manual = {}
    /\ Free \notin Scheduled \cup Manual

ASSUME TargetAssumption == NoTarget \notin Group

ASSUME BurstBoundAssumption ==
    MaxCandidates \in Nat /\ MaxLogs \in Nat /\ MaxOverruns \in Nat

VARIABLES
    lock,      \* Free, or the runner that set the key
    pc,        \* [Runner -> stage]
    todo,      \* [Runner -> candidates not yet burst]
    target,    \* [Runner -> the group in hand]
    row,       \* [Runner -> its row of burst_job_log, NoRow when the INSERT failed]
    logs,      \* burst_job_log: [1 .. n -> [group, status, recent]]
    answered,  \* [Runner -> whether a source answered its last crawl]
    overruns   \* expiries under a running job so far

vars == <<lock, pc, todo, target, row, logs, answered, overruns>>

Stage == {"idle", "find", "next", "log", "crawl", "close", "release"}

\* crawled is a ghost: some source answered the crawl the row records.
LogRow == [group : Group \cup {NoTarget}, status : {"running", "success"},
           recent : BOOLEAN, crawled : BOOLEAN]

\* Runners between the lock and the end of their finally clause.
Active == {r \in Runner : pc[r] # "idle"}

Goto(r, stage) == pc' = [pc EXCEPT ![r] = stage]

\* Faulty variant: a burst that is running, or was cut short, does not count.
CoolingSuccess(g) ==
    \E i \in DOMAIN logs :
        logs[i].group = g /\ logs[i].recent /\ logs[i].status = "success"

\* The candidates' NOT EXISTS clause: no row within the cooldown that is running
\* or succeeded (a 'failed' row is never written, see Crawl).
Cooling(g) ==
    \E i \in DOMAIN logs :
        logs[i].group = g /\ logs[i].recent /\ logs[i].status \in {"running", "success"}

Init ==
    /\ lock = Free
    /\ pc = [r \in Runner |-> "idle"]
    /\ todo = [r \in Runner |-> {}]
    /\ target = [r \in Runner |-> NoTarget]
    /\ row = [r \in Runner |-> NoRow]
    /\ logs = [i \in {} |-> NoRow]
    /\ answered = [r \in Runner |-> FALSE]
    /\ overruns = 0

(***************************************************************************)
(* The lock.                                                               *)
(***************************************************************************)

\* Faulty variant: SET without NX.
AcquireAnyway(r) ==
    /\ pc[r] = "idle"
    /\ lock' = r
    /\ Goto(r, IF r \in Scheduled THEN "find" ELSE "log")
    /\ UNCHANGED <<todo, target, row, logs, answered, overruns>>

\* SET NX EX: a held lock, like a Redis error, makes the call return at once.
Acquire(r) ==
    /\ pc[r] = "idle"
    /\ lock = Free
    /\ lock' = r
    /\ Goto(r, IF r \in Scheduled THEN "find" ELSE "log")
    /\ UNCHANGED <<todo, target, row, logs, answered, overruns>>

\* Faulty variant: a call that does not get the lock runs the finally clause.
AcquireFailsAndReleases(r) ==
    /\ pc[r] = "idle"
    /\ lock' = Free
    /\ UNCHANGED <<pc, todo, target, row, logs, answered, overruns>>

\* The SET is applied but its answer is lost: the call returns as if the lock
\* were held, and nobody owns it.
AcquireInDoubt(r) ==
    /\ pc[r] = "idle"
    /\ lock = Free
    /\ lock' = r
    /\ UNCHANGED <<pc, todo, target, row, logs, answered, overruns>>

\* _release_burst_lock deletes the key, whoever set it; a Redis error is
\* swallowed and leaves it.
Release(r) ==
    /\ pc[r] = "release"
    /\ lock' = Free \/ UNCHANGED lock
    /\ Goto(r, "idle")
    /\ todo' = [todo EXCEPT ![r] = {}]
    /\ target' = [target EXCEPT ![r] = NoTarget]
    /\ row' = [row EXCEPT ![r] = NoRow]
    /\ UNCHANGED <<logs, answered, overruns>>

\* Faulty variant: SET without EX.
AbandonedForever == lock \in Runner /\ lock \notin Active /\ UNCHANGED vars

\* The key outlives _BURST_LOCK_TTL after its owner is gone...
ExpireAbandoned ==
    /\ lock \in Runner
    /\ lock \notin Active
    /\ lock' = Free
    /\ UNCHANGED <<pc, todo, target, row, logs, answered, overruns>>

\* ... or while its owner still runs.
ExpireUnderOwner ==
    /\ lock \in Active
    /\ overruns < MaxOverruns
    /\ lock' = Free
    /\ overruns' = overruns + 1
    /\ UNCHANGED <<pc, todo, target, row, logs, answered>>

\* The process stops: the finally clause does not run, the lock stays and the
\* row of the group in hand stays 'running'.
Crash(r) ==
    /\ r \in Active
    /\ Goto(r, "idle")
    /\ todo' = [todo EXCEPT ![r] = {}]
    /\ target' = [target EXCEPT ![r] = NoTarget]
    /\ row' = [row EXCEPT ![r] = NoRow]
    /\ answered' = [answered EXCEPT ![r] = FALSE]
    /\ UNCHANGED <<lock, logs, overruns>>

(***************************************************************************)
(* The bursts.                                                             *)
(***************************************************************************)

\* find_burst_candidates: hot groups that are not cooling, MaxCandidates at
\* most; none when a setting cannot be read or the query fails.
FindCandidates(r) ==
    /\ pc[r] = "find"
    /\ \E C \in SUBSET {g \in Group : ~Cooling(g)} :
        /\ Cardinality(C) <= MaxCandidates
        /\ todo' = [todo EXCEPT ![r] = C]
        /\ Goto(r, IF C = {} THEN "release" ELSE "next")
    /\ UNCHANGED <<lock, target, row, logs, answered, overruns>>

\* The next candidate; one without usable keywords is passed over, and an error
\* ends the run.
TakeCandidate(r, g) ==
    /\ pc[r] = "next"
    /\ g \in todo[r]
    /\ todo' = [todo EXCEPT ![r] = @ \ {g}]
    /\ \/ /\ target' = [target EXCEPT ![r] = g]
          /\ Goto(r, "log")
       \/ /\ Goto(r, "release") \/ (todo[r] # {g} /\ Goto(r, "next"))
          /\ UNCHANGED target
    /\ UNCHANGED <<lock, row, logs, answered, overruns>>

\* log_burst_job; when the INSERT fails it returns 0 and the burst goes on.
LogJob(r) ==
    /\ pc[r] = "log"
    /\ Goto(r, "crawl")
    /\ \/ /\ Cardinality(DOMAIN logs) < MaxLogs
          /\ LET n == Cardinality(DOMAIN logs) + 1
                 new == [group |-> target[r], status |-> "running",
                        recent |-> TRUE, crawled |-> FALSE]
             IN  /\ logs' = [i \in 1 .. n |-> IF i = n THEN new ELSE logs[i]]
                 /\ row' = [row EXCEPT ![r] = n]
       \/ /\ row' = [row EXCEPT ![r] = NoRow]
          /\ UNCHANGED logs
    /\ UNCHANGED <<lock, todo, target, answered, overruns>>

\* run_burst_crawl catches what its two sources raise and returns a count, 0
\* when both failed: the 'failed' branch of its callers is never taken.
Crawl(r) ==
    /\ pc[r] = "crawl"
    /\ Goto(r, "close")
    /\ \E some \in BOOLEAN : answered' = [answered EXCEPT ![r] = some]
    /\ UNCHANGED <<lock, todo, target, row, logs, overruns>>

\* Faulty variant: a status the table's CHECK does not know.
CloseLogUnknown(r) ==
    /\ pc[r] = "close"
    /\ row[r] \in DOMAIN logs
    /\ logs' = [logs EXCEPT ![row[r]].status = "finished"]
    /\ answered' = [answered EXCEPT ![r] = FALSE]
    /\ Goto(r, IF todo[r] = {} THEN "release" ELSE "next")
    /\ UNCHANGED <<lock, todo, target, row, overruns>>

\* update_burst_log with 'success'; an error is swallowed, id 0 matches no row.
CloseLog(r) ==
    /\ pc[r] = "close"
    /\ \/ /\ row[r] \in DOMAIN logs
          /\ logs' = [logs EXCEPT ![row[r]].status = "success",
                                  ![row[r]].crawled = answered[r]]
       \/ UNCHANGED logs
    /\ answered' = [answered EXCEPT ![r] = FALSE]
    /\ Goto(r, IF todo[r] = {} THEN "release" ELSE "next")
    /\ UNCHANGED <<lock, todo, target, row, overruns>>

\* A row leaves the cooldown.
Age(i) ==
    /\ logs[i].recent
    /\ logs' = [logs EXCEPT ![i].recent = FALSE]
    /\ UNCHANGED <<lock, pc, todo, target, row, answered, overruns>>

(***************************************************************************)
(* Specification.                                                          *)
(***************************************************************************)

Run(r) ==
    \/ FindCandidates(r)
    \/ \E g \in Group : TakeCandidate(r, g)
    \/ LogJob(r)
    \/ Crawl(r)
    \/ CloseLog(r)
    \/ Release(r)

Next ==
    \/ \E r \in Runner : Acquire(r) \/ AcquireInDoubt(r) \/ Run(r) \/ Crash(r)
    \/ ExpireAbandoned
    \/ ExpireUnderOwner
    \/ \E i \in DOMAIN logs : Age(i)

Spec == Init /\ [][Next]_vars

\* Every awaited call returns or raises (HTTP requests have a timeout), and
\* Redis keeps the TTL of an abandoned key.
FairSpec ==
    /\ Spec
    /\ \A r \in Runner : WF_vars(Run(r))
    /\ WF_vars(ExpireAbandoned)

(***************************************************************************)
(* Properties.                                                             *)
(***************************************************************************)

TypeOK ==
    /\ lock \in Runner \cup {Free}
    /\ pc \in [Runner -> Stage]
    /\ todo \in [Runner -> SUBSET Group]
    /\ target \in [Runner -> Group \cup {NoTarget}]
    /\ row \in [Runner -> Nat]
    /\ logs \in [DOMAIN logs -> LogRow]
    /\ overruns \in 0 .. MaxOverruns
    /\ answered \in [Runner -> BOOLEAN]

\* The lock is deleted by whoever finishes, also when it belongs to another
\* runner by then.  Still each expiry under a running job lets at most one more
\* runner in: the excess does not grow with the deletions.
ConcurrencyBound == Cardinality(Active) <= 1 + overruns

\* A group gets one row per cooldown, whichever runner bursts it, unless a lock
\* expired under a running job: the candidates are checked long before their
\* rows are written.
OneBurstPerCooldown ==
    overruns = 0 =>
        \A i, j \in DOMAIN logs :
            logs[i].group = logs[j].group /\ logs[i].group # NoTarget
                /\ logs[i].recent /\ logs[j].recent
                => i = j

(***************************************************************************)
(* The inductive invariant behind them.                                    *)
(***************************************************************************)

\* A free or abandoned lock leaves room for one more runner.
LockInv ==
    /\ ConcurrencyBound
    /\ lock \notin Active => Cardinality(Active) <= overruns

\* Rows are numbered from 1.
LogInv == IsFiniteSet(DOMAIN logs) /\ DOMAIN logs = 1 .. Cardinality(DOMAIN logs)

\* A runner starts and ends with empty hands.
RestInv == \A r \in Runner \ Active : todo[r] = {} /\ target[r] = NoTarget

\* What a runner found not to be cooling stays so until it is burst.
CandidateInv ==
    overruns = 0 =>
        \A r \in Active :
            /\ \A g \in todo[r] : pc[r] # "find" => ~Cooling(g)
            /\ pc[r] = "log" /\ target[r] # NoTarget
                  => ~Cooling(target[r]) /\ target[r] \notin todo[r]

IInv ==
    /\ TypeOK
    /\ LockInv
    /\ LogInv
    /\ RestInv
    /\ CandidateInv
    /\ OneBurstPerCooldown

\* Until a lock expires under a running job, the burst job is a lock's critical
\* section; with that expiry the section is given up for good.
Inside == IF overruns = 0 THEN Active ELSE {}

Section == INSTANCE Exclusive WITH Process <- Runner, inside <- Inside

RunsExclusively == Section!Spec

\* A burst whose crawl failed is not a success (it would start a cooldown).
SuccessMeansCrawled ==
    \A i \in DOMAIN logs : logs[i].status = "success" => logs[i].crawled

\* The lock never stays forever, whatever crashes and fails.
LockComesFree == lock # Free ~> lock = Free

=============================================================================
