--------------------------- MODULE BurstJobProofs ---------------------------
(***************************************************************************)
(* Proofs about BurstJob, for every set of runners and groups and every    *)
(* number of expiries: the concurrency the lock allows, the cooldown it    *)
(* protects, and its refinement to Exclusive.                              *)
(***************************************************************************)
EXTENDS BurstJob, FiniteSetTheorems, TLAPS

LEMMA RunnersFinite == IsFiniteSet(Runner) /\ Free \notin Runner
  BY RunnerAssumption, FS_Union DEF Runner

\* Runners can be counted.
LEMMA ActiveFinite == IsFiniteSet(Active) /\ Cardinality(Active) \in Nat
<1>1. Active \in SUBSET Runner
  BY DEF Active
<1> QED
  BY <1>1, RunnersFinite, FS_Subset, FS_CardinalityType

\* A finite set of at most one element has one element.
LEMMA AtMostOneElement ==
    ASSUME NEW S, IsFiniteSet(S), Cardinality(S) <= 1, NEW x \in S, NEW y \in S
    PROVE  x = y
<1>1. Cardinality(S) \in Nat
  BY FS_CardinalityType
<1>2. Cardinality(S) # 0
  BY FS_EmptySet
<1>3. PICK z : S = {z}
  BY <1>1, <1>2, FS_Singleton
<1> QED
  BY <1>3

LEMMA InitIInv == Init => IInv
<1> SUFFICES ASSUME Init PROVE IInv
  OBVIOUS
<1> USE DEF Init
<1>1. TypeOK
  BY BurstBoundAssumption DEF TypeOK, Stage, NoRow, Runner
<1>2. Active = {} /\ Cardinality(Active) = 0
  BY FS_EmptySet DEF Active
<1>3. LockInv
  BY <1>2 DEF LockInv, ConcurrencyBound
<1>4. LogInv
  <2>1. DOMAIN logs = {} /\ IsFiniteSet(DOMAIN logs) /\ Cardinality(DOMAIN logs) = 0
    BY FS_EmptySet
  <2> QED
    BY <2>1 DEF LogInv
<1>5. RestInv /\ CandidateInv /\ OneBurstPerCooldown
  BY <1>2 DEF RestInv, CandidateInv, OneBurstPerCooldown
<1> QED
  BY <1>1, <1>3, <1>4, <1>5 DEF IInv

(***************************************************************************)
(* The lock.                                                               *)
(***************************************************************************)

\* What a step does to the set of active runners.
LEMMA ActiveSteps ==
    ASSUME TypeOK, NEW r \in Runner
    PROVE  /\ Acquire(r) => r \notin Active /\ Active' = Active \cup {r}
           /\ Release(r) \/ Crash(r) => r \in Active /\ Active' = Active \ {r}
           /\ Run(r) => Release(r) \/ (r \in Active /\ Active' = Active /\ UNCHANGED lock)
<1> USE DEF TypeOK, Active, Goto, Stage
<1>1. Acquire(r) => r \notin Active /\ Active' = Active \cup {r}
  BY DEF Acquire
<1>2. Release(r) \/ Crash(r) => r \in Active /\ Active' = Active \ {r}
  BY DEF Release, Crash
<1>3. ASSUME Run(r) PROVE Release(r) \/ (r \in Active /\ Active' = Active /\ UNCHANGED lock)
  <2>1. CASE FindCandidates(r)
    BY <2>1 DEF FindCandidates
  <2>2. CASE \E g \in Group : TakeCandidate(r, g)
    BY <2>2 DEF TakeCandidate
  <2>3. CASE LogJob(r)
    BY <2>3 DEF LogJob
  <2>4. CASE Crawl(r)
    BY <2>4 DEF Crawl
  <2>5. CASE CloseLog(r)
    <3>1. pc[r] = "close" /\ UNCHANGED lock
      BY <2>5 DEF CloseLog
    <3>2. pc' = [pc EXCEPT ![r] = "release"] \/ pc' = [pc EXCEPT ![r] = "next"]
      BY <2>5 DEF CloseLog
    <3>3. Active' = Active /\ r \in Active
      BY <3>1, <3>2
    <3> QED
      BY <3>1, <3>3
  <2>6. CASE Release(r)
    BY <2>6
  <2> HIDE DEF TypeOK, Active, Goto, Stage
  <2> QED
    BY <1>3, <2>1, <2>2, <2>3, <2>4, <2>5, <2>6 DEF Run
<1> QED
  BY <1>1, <1>2, <1>3

\* Every deletion of the lock comes from a runner that leaves, every expiry
\* under a running job is counted: the bound is inductive.
LEMMA LockStep == TypeOK /\ LockInv /\ [Next]_vars => LockInv'
<1> SUFFICES ASSUME TypeOK, LockInv, [Next]_vars PROVE LockInv'
  OBVIOUS
<1> USE DEF LockInv, ConcurrencyBound
<1> DEFINE n == Cardinality(Active)
<1>0. n \in Nat /\ overruns \in Nat /\ IsFiniteSet(Active)
  BY ActiveFinite DEF TypeOK
<1>1. ASSUME NEW r \in Runner, Acquire(r) PROVE LockInv'
  <2>1. r \notin Active /\ Active' = Active \cup {r}
    BY <1>1, ActiveSteps
  <2>2. Cardinality(Active') = n + 1
    BY <1>0, <2>1, FS_AddElement
  <2>3. lock = Free /\ lock' = r /\ overruns' = overruns
    BY <1>1 DEF Acquire
  <2>4. Free \notin Active
    BY RunnersFinite DEF Active
  <2>5. n <= overruns
    BY <2>3, <2>4
  <2> QED
    BY <1>0, <2>1, <2>2, <2>3, <2>5
<1>2. ASSUME NEW r \in Runner, Release(r) \/ Crash(r) PROVE LockInv'
  <2>1. r \in Active /\ Active' = Active \ {r}
    BY <1>2, ActiveSteps
  <2>2. Cardinality(Active') = n - 1
    BY <1>0, <2>1, FS_RemoveElement
  <2>3. overruns' = overruns
    BY <1>2 DEF Release, Crash
  <2> QED
    BY <1>0, <2>2, <2>3
<1>3. ASSUME NEW r \in Runner, Run(r), ~Release(r) PROVE LockInv'
  <2>1. Active' = Active /\ UNCHANGED lock
    BY <1>3, ActiveSteps
  <2>2. overruns' = overruns
    BY <1>3 DEF Run, FindCandidates, TakeCandidate, LogJob, Crawl, CloseLog
  <2> QED
    BY <2>1, <2>2
<1>4. CASE ExpireAbandoned \/ \E r \in Runner : AcquireInDoubt(r)
  <2>1. UNCHANGED <<pc, overruns>> /\ lock \notin Active
    BY <1>4, RunnersFinite DEF ExpireAbandoned, AcquireInDoubt, Active
  <2> QED
    BY <1>0, <2>1 DEF Active
<1>5. CASE ExpireUnderOwner
  BY <1>0, <1>5 DEF ExpireUnderOwner, Active
<1>6. CASE (\E i \in DOMAIN logs : Age(i)) \/ UNCHANGED vars
  <2>1. UNCHANGED <<pc, lock, overruns>>
    BY <1>6 DEF Age, vars
  <2> QED
    BY <2>1 DEF Active
<1> QED
  BY <1>1, <1>2, <1>3, <1>4, <1>5, <1>6 DEF Next

(***************************************************************************)
(* The log.                                                                *)
(***************************************************************************)

\* A new row takes the number after the last one.
LEMMA NewRow ==
    ASSUME TypeOK, LogInv, NEW r \in Runner, LogJob(r), logs' # logs
    PROVE  LET n == Cardinality(DOMAIN logs) + 1
           IN  /\ n \in Nat \ {0} /\ DOMAIN logs = 1 .. n - 1 /\ DOMAIN logs' = 1 .. n
               /\ \A i \in 1 .. n - 1 : logs'[i] = logs[i]
               /\ logs'[n] = [group |-> target[r], status |-> "running",
                              recent |-> TRUE, crawled |-> FALSE]
               /\ row' = [row EXCEPT ![r] = n]
<1> DEFINE n == Cardinality(DOMAIN logs) + 1
<1>1. Cardinality(DOMAIN logs) \in Nat
  BY FS_CardinalityType DEF LogInv
<1>2. DOMAIN logs = 1 .. n - 1
  BY <1>1 DEF LogInv
<1> DEFINE new == [group |-> target[r], status |-> "running",
                   recent |-> TRUE, crawled |-> FALSE]
<1>3. /\ logs' = [i \in 1 .. n |-> IF i = n THEN new ELSE logs[i]]
      /\ row' = [row EXCEPT ![r] = n]
  BY DEF LogJob
<1> HIDE DEF n, new
<1>4. n \in Nat \ {0}
  BY <1>1 DEF n
<1>5. DOMAIN logs' = 1 .. n /\ logs'[n] = new
  BY <1>3, <1>4
<1>6. \A i \in 1 .. n - 1 : logs'[i] = logs[i]
  BY <1>3, <1>4
<1> QED
  BY <1>2, <1>3, <1>4, <1>5, <1>6 DEF n, new

LEMMA TypeStep == TypeOK /\ LogInv /\ [Next]_vars => TypeOK'
<1> SUFFICES ASSUME TypeOK, LogInv, [Next]_vars PROVE TypeOK'
  OBVIOUS
<1> USE DEF TypeOK, Goto, Stage
<1>1. ASSUME NEW r \in Runner, Acquire(r) PROVE TypeOK'
  BY <1>1 DEF Acquire
<1>1a. ASSUME NEW r \in Runner, AcquireInDoubt(r) PROVE TypeOK'
  BY <1>1a DEF AcquireInDoubt
<1>2. ASSUME NEW r \in Runner, Release(r) PROVE TypeOK'
  BY <1>2 DEF Release, NoRow
<1>3. ASSUME NEW r \in Runner, Crash(r) PROVE TypeOK'
  BY <1>3 DEF Crash, NoRow
<1>4. ASSUME NEW r \in Runner, FindCandidates(r) PROVE TypeOK'
  BY <1>4 DEF FindCandidates
<1>5. ASSUME NEW r \in Runner, NEW g \in Group, TakeCandidate(r, g) PROVE TypeOK'
  BY <1>5 DEF TakeCandidate
<1>6. ASSUME NEW r \in Runner, LogJob(r) PROVE TypeOK'
  <2>1. UNCHANGED <<lock, todo, target, answered, overruns>> /\ pc' \in [Runner -> Stage]
    BY <1>6 DEF LogJob
  <2>2. CASE logs' = logs
    <3>1. Cardinality(DOMAIN logs) \in Nat
      BY FS_CardinalityType DEF LogInv
    <3>2. row' \in [Runner -> Nat]
      BY <1>6, <3>1 DEF LogJob, NoRow
    <3> QED
      BY <2>1, <2>2, <3>2
  <2>3. CASE logs' # logs
    <3> DEFINE n == Cardinality(DOMAIN logs) + 1
    <3>1. /\ n \in Nat \ {0} /\ DOMAIN logs = 1 .. n - 1 /\ DOMAIN logs' = 1 .. n
          /\ \A i \in 1 .. n - 1 : logs'[i] = logs[i]
          /\ logs'[n] = [group |-> target[r], status |-> "running",
                         recent |-> TRUE, crawled |-> FALSE]
          /\ row' = [row EXCEPT ![r] = n]
      BY <1>6, <2>3, NewRow
    <3>2. logs'[n] \in LogRow
      BY <3>1 DEF LogRow
    <3>3. logs' = [i \in DOMAIN logs' |-> logs'[i]]
      BY <1>6, <2>3 DEF LogJob
    <3>4. \A i \in DOMAIN logs' : logs'[i] \in LogRow
      <4> SUFFICES ASSUME NEW i \in DOMAIN logs' PROVE logs'[i] \in LogRow
        OBVIOUS
      <4>1. i = n \/ i \in 1 .. n - 1
        BY <3>1
      <4> QED
        BY <3>1, <3>2, <4>1
    <3>5. logs' \in [DOMAIN logs' -> LogRow]
      BY <3>3, <3>4
    <3> QED
      BY <2>1, <3>1, <3>5
  <2> QED
    BY <2>2, <2>3
<1>7. ASSUME NEW r \in Runner, Crawl(r) PROVE TypeOK'
  BY <1>7 DEF Crawl
<1>8. ASSUME NEW r \in Runner, CloseLog(r) PROVE TypeOK'
  <2>1. logs' \in [DOMAIN logs' -> LogRow]
    BY <1>8 DEF CloseLog, LogRow
  <2>2. UNCHANGED <<lock, todo, target, row, overruns>> /\ answered' \in [Runner -> BOOLEAN]
    BY <1>8 DEF CloseLog
  <2>3. pc' \in [Runner -> Stage]
    BY <1>8 DEF CloseLog
  <2> QED
    BY <2>1, <2>2, <2>3
<1>9. ASSUME NEW i \in DOMAIN logs, Age(i) PROVE TypeOK'
  BY <1>9 DEF Age, LogRow
<1>10. CASE ExpireAbandoned
  BY <1>10 DEF ExpireAbandoned
<1>11. CASE ExpireUnderOwner
  BY <1>11, BurstBoundAssumption DEF ExpireUnderOwner
<1>12. CASE UNCHANGED vars
  BY <1>12 DEF vars
<1> QED
  BY <1>1, <1>1a, <1>2, <1>3, <1>4, <1>5, <1>6, <1>7, <1>8, <1>9, <1>10, <1>11, <1>12
  DEF Next, Run

\* A step that is no INSERT leaves the groups and the ages of the rows, but
\* for the rows that leave the cooldown.
LEMMA RowsStay ==
    ASSUME TypeOK, [Next]_vars, \A r \in Runner : ~LogJob(r)
    PROVE  /\ DOMAIN logs' = DOMAIN logs
           /\ \A i \in DOMAIN logs : logs'[i].group = logs[i].group
                                      /\ (logs'[i].recent => logs[i].recent)
<1> USE DEF TypeOK, LogRow
<1>1. ASSUME NEW r \in Runner, CloseLog(r)
      PROVE  /\ DOMAIN logs' = DOMAIN logs
             /\ \A i \in DOMAIN logs : logs'[i].group = logs[i].group
                                        /\ (logs'[i].recent => logs[i].recent)
  BY <1>1 DEF CloseLog
<1>2. ASSUME NEW i \in DOMAIN logs, Age(i)
      PROVE  /\ DOMAIN logs' = DOMAIN logs
             /\ \A j \in DOMAIN logs : logs'[j].group = logs[j].group
                                        /\ (logs'[j].recent => logs[j].recent)
  BY <1>2 DEF Age
<1>3. CASE UNCHANGED logs
  BY <1>3
<1>4. (\E r \in Runner : CloseLog(r)) \/ (\E i \in DOMAIN logs : Age(i)) \/ UNCHANGED logs
  BY DEF Next, Run, Acquire, AcquireInDoubt, Crash, FindCandidates, TakeCandidate, Crawl, Release,
         ExpireAbandoned, ExpireUnderOwner, vars
<1> HIDE DEF TypeOK, LogRow
<1> QED
  BY <1>1, <1>2, <1>3, <1>4

\* Every row counts for the cooldown while it is recent.
LEMMA CoolingRows ==
    ASSUME TypeOK, NEW g
    PROVE  Cooling(g) <=> \E i \in DOMAIN logs : logs[i].group = g /\ logs[i].recent
  BY DEF TypeOK, LogRow, Cooling

LEMMA CoolingRowsNext ==
    ASSUME TypeOK', NEW g
    PROVE  Cooling(g)' <=> \E i \in DOMAIN logs' : logs'[i].group = g /\ logs'[i].recent
  BY DEF TypeOK, LogRow, Cooling

LEMMA LogStep == TypeOK /\ LogInv /\ [Next]_vars => LogInv'
<1> SUFFICES ASSUME TypeOK, LogInv, [Next]_vars PROVE LogInv'
  OBVIOUS
<1>1. CASE DOMAIN logs' = DOMAIN logs
  BY <1>1 DEF LogInv
<1>2. ASSUME NEW r \in Runner, LogJob(r), logs' # logs PROVE LogInv'
  <2> DEFINE n == Cardinality(DOMAIN logs) + 1
  <2>1. n \in Nat \ {0} /\ DOMAIN logs' = 1 .. n
    BY <1>2, NewRow
  <2> HIDE DEF n
  <2>2. IsFiniteSet(1 .. n) /\ Cardinality(1 .. n) = n
    BY <2>1, FS_Interval
  <2> QED
    BY <2>1, <2>2 DEF LogInv
<1> QED
  BY <1>1, <1>2, RowsStay

LEMMA RestStep == TypeOK /\ RestInv /\ [Next]_vars => RestInv'
<1> SUFFICES ASSUME TypeOK, RestInv, [Next]_vars, NEW q \in Runner, pc'[q] = "idle"
             PROVE  todo'[q] = {} /\ target'[q] = NoTarget
  BY DEF RestInv, Active
<1> USE DEF TypeOK, Goto, Stage
<1>1. pc[q] = "idle" => todo[q] = {} /\ target[q] = NoTarget
  BY DEF RestInv, Active
<1>2. ASSUME NEW r \in Runner, Acquire(r) PROVE todo'[q] = {} /\ target'[q] = NoTarget
  BY <1>1, <1>2 DEF Acquire
<1>3. ASSUME NEW r \in Runner, Release(r) \/ Crash(r)
      PROVE  todo'[q] = {} /\ target'[q] = NoTarget
  BY <1>1, <1>3 DEF Release, Crash
<1>4. ASSUME NEW r \in Runner, FindCandidates(r) PROVE todo'[q] = {} /\ target'[q] = NoTarget
  BY <1>1, <1>4 DEF FindCandidates
<1>5. ASSUME NEW r \in Runner, NEW g \in Group, TakeCandidate(r, g)
      PROVE  todo'[q] = {} /\ target'[q] = NoTarget
  BY <1>1, <1>5 DEF TakeCandidate
<1>6. ASSUME NEW r \in Runner, LogJob(r) \/ Crawl(r)
      PROVE  todo'[q] = {} /\ target'[q] = NoTarget
  <2>1. pc[q] = "idle" /\ UNCHANGED <<todo, target>>
    BY <1>6 DEF LogJob, Crawl
  <2> QED
    BY <1>1, <2>1
<1>7. ASSUME NEW r \in Runner, CloseLog(r) PROVE todo'[q] = {} /\ target'[q] = NoTarget
  <2>1. pc' = [pc EXCEPT ![r] = "release"] \/ pc' = [pc EXCEPT ![r] = "next"]
    BY <1>7 DEF CloseLog
  <2>2. pc[q] = "idle"
    BY <2>1
  <2>3. UNCHANGED <<todo, target>>
    BY <1>7 DEF CloseLog
  <2> QED
    BY <1>1, <2>2, <2>3
<1>8. CASE UNCHANGED <<pc, todo, target>>
  BY <1>1, <1>8
<1>9. \/ UNCHANGED <<pc, todo, target>>
      \/ \E r \in Runner : Acquire(r) \/ Run(r) \/ Crash(r)
  BY DEF Next, AcquireInDoubt, ExpireAbandoned, ExpireUnderOwner, Age, vars
<1> HIDE DEF TypeOK, Goto, Stage
<1> QED
  BY <1>2, <1>3, <1>4, <1>5, <1>6, <1>7, <1>8, <1>9 DEF Run

(***************************************************************************)
(* The cooldown.                                                           *)
(***************************************************************************)

\* As long as no lock expired under a running job, nobody else is active.
LEMMA Alone ==
    ASSUME TypeOK, LockInv, overruns = 0
    PROVE  /\ \A p, q \in Active : p = q
           /\ lock \notin Active => Active = {}
<1>1. IsFiniteSet(Active) /\ Cardinality(Active) \in Nat /\ Cardinality(Active) <= 1
  BY ActiveFinite DEF LockInv, ConcurrencyBound
<1>2. \A p, q \in Active : p = q
  BY <1>1, AtMostOneElement
<1>3. lock \notin Active => Cardinality(Active) = 0
  BY <1>1 DEF LockInv
<1> QED
  BY <1>1, <1>2, <1>3, FS_EmptySet

\* A step that is no INSERT starts no cooldown and brings no second row.
LEMMA NoInsertStep ==
    ASSUME TypeOK, TypeOK', [Next]_vars, \A r \in Runner : ~LogJob(r)
    PROVE  /\ \A g : Cooling(g)' => Cooling(g)
           /\ OneBurstPerCooldown /\ (overruns' = 0 => overruns = 0)
                 => OneBurstPerCooldown'
<1>1. /\ DOMAIN logs' = DOMAIN logs
      /\ \A i \in DOMAIN logs : logs'[i].group = logs[i].group
                                 /\ (logs'[i].recent => logs[i].recent)
  BY RowsStay
<1>2. \A g : Cooling(g)' => Cooling(g)
  BY <1>1, CoolingRows, CoolingRowsNext
<1>3. ASSUME OneBurstPerCooldown, overruns' = 0 => overruns = 0 PROVE OneBurstPerCooldown'
  BY <1>1, <1>3 DEF OneBurstPerCooldown
<1> QED
  BY <1>2, <1>3

\* The INSERT is for the group in hand, which was not cooling.
LEMMA InsertStep ==
    ASSUME TypeOK, TypeOK', LogInv, OneBurstPerCooldown, NEW r \in Runner, LogJob(r),
           overruns = 0, target[r] # NoTarget => ~Cooling(target[r])
    PROVE  /\ OneBurstPerCooldown'
           /\ \A g : Cooling(g)' => Cooling(g) \/ g = target[r]
<1>1. CASE logs' = logs
  <2>1. overruns' = overruns
    BY DEF LogJob
  <2> QED
    BY <1>1, <2>1, CoolingRows, CoolingRowsNext DEF OneBurstPerCooldown
<1>2. CASE logs' # logs
  <2> DEFINE n == Cardinality(DOMAIN logs) + 1
  <2>1. /\ n \in Nat \ {0} /\ DOMAIN logs = 1 .. n - 1 /\ DOMAIN logs' = 1 .. n
        /\ \A i \in 1 .. n - 1 : logs'[i] = logs[i]
        /\ logs'[n] = [group |-> target[r], status |-> "running",
                       recent |-> TRUE, crawled |-> FALSE]
    BY <1>2, NewRow
  <2> HIDE DEF n
  <2>2. \A i \in DOMAIN logs' : i = n \/ (i \in DOMAIN logs /\ logs'[i] = logs[i])
    BY <2>1
  <2>3. logs'[n].group = target[r]
    BY <2>1
  <2>4. \A g : Cooling(g)' => Cooling(g) \/ g = target[r]
    BY <2>2, <2>3, CoolingRows, CoolingRowsNext
  <2>5. ASSUME NEW i \in DOMAIN logs, logs[i].recent, logs[i].group = target[r],
               target[r] # NoTarget
        PROVE  FALSE
    BY <2>5, CoolingRows
  <2>6. OneBurstPerCooldown'
    BY <2>2, <2>3, <2>5 DEF OneBurstPerCooldown
  <2> QED
    BY <2>4, <2>6
<1> QED
  BY <1>1, <1>2

\* The candidates of a step that is no INSERT were candidates before, or come
\* from the query of this very step.
LEMMA CandidateStep ==
    ASSUME TypeOK, TypeOK', LockInv, LogInv, RestInv, CandidateInv,
           OneBurstPerCooldown, [Next]_vars
    PROVE  CandidateInv' /\ OneBurstPerCooldown'
<1>1. CASE overruns' # 0
  BY <1>1 DEF CandidateInv, OneBurstPerCooldown
<1>2. CASE overruns' = 0
  <2>1. overruns = 0
    <3>1. UNCHANGED overruns \/ ExpireUnderOwner
      BY DEF Next, Run, Acquire, AcquireInDoubt, Crash, FindCandidates, TakeCandidate, LogJob, Crawl,
             CloseLog, Release, ExpireAbandoned, Age, vars
    <3>2. ~ExpireUnderOwner
      BY <1>2 DEF ExpireUnderOwner, TypeOK
    <3> QED
      BY <1>2, <3>1, <3>2
  <2>2. ASSUME NEW r \in Runner, LogJob(r) PROVE CandidateInv' /\ OneBurstPerCooldown'
    <3>1. r \in Active /\ pc[r] = "log" /\ pc' = [pc EXCEPT ![r] = "crawl"]
          /\ UNCHANGED <<todo, target>>
      BY <2>2 DEF LogJob, Active, Goto
    <3>2. /\ target[r] # NoTarget => ~Cooling(target[r]) /\ target[r] \notin todo[r]
          /\ \A g \in todo[r] : ~Cooling(g)
      BY <2>1, <3>1 DEF CandidateInv
    <3>3. OneBurstPerCooldown' /\ \A g : Cooling(g)' => Cooling(g) \/ g = target[r]
      BY <2>1, <2>2, <3>2, InsertStep
    <3>4. \A g \in todo[r] : g # NoTarget
      BY TargetAssumption DEF TypeOK
    <3>5. \A g \in todo'[r] : ~Cooling(g)'
      BY <3>1, <3>2, <3>3, <3>4
    <3>6. \A q \in Active' : q = r
      BY <2>1, <3>1, Alone DEF Active, TypeOK
    <3>7. pc'[r] = "crawl"
      BY <3>1 DEF TypeOK
    <3> QED
      BY <3>3, <3>5, <3>6, <3>7 DEF CandidateInv
  <2>3. ASSUME \A r \in Runner : ~LogJob(r) PROVE CandidateInv' /\ OneBurstPerCooldown'
    <3>1. OneBurstPerCooldown' /\ \A g : Cooling(g)' => Cooling(g)
      BY <2>1, <2>3, NoInsertStep
    <3> SUFFICES ASSUME NEW q \in Active'
                 PROVE  /\ \A g \in todo'[q] : pc'[q] # "find" => ~Cooling(g)
                        /\ pc'[q] = "log" /\ target'[q] # NoTarget
                              => ~Cooling(target'[q]) /\ target'[q] \notin todo'[q]
      BY <3>1 DEF CandidateInv
    <3>2. q \in Runner
      BY DEF Active
    <3> DEFINE Goal == /\ \A g \in todo'[q] : pc'[q] # "find" => ~Cooling(g)
                       /\ pc'[q] = "log" /\ target'[q] # NoTarget
                             => ~Cooling(target'[q]) /\ target'[q] \notin todo'[q]
    <3>3. q \in Active =>
             /\ \A g \in todo[q] : pc[q] # "find" => ~Cooling(g)
             /\ pc[q] = "log" /\ target[q] # NoTarget
                   => ~Cooling(target[q]) /\ target[q] \notin todo[q]
      BY <2>1 DEF CandidateInv
    <3>4. q \notin Active => todo[q] = {} /\ target[q] = NoTarget
      BY <3>2 DEF RestInv
    <3>5. ASSUME NEW r \in Runner, Acquire(r) PROVE Goal
      <4>1. lock = Free /\ Free \notin Active
        BY <3>5, RunnersFinite DEF Acquire, Active
      <4>2. UNCHANGED <<todo, target>>
        BY <3>5 DEF Acquire
      <4> QED
        BY <2>1, <3>4, <4>1, <4>2, Alone
    <3>6. ASSUME NEW r \in Runner, Release(r) \/ Crash(r) PROVE Goal
      <4>1. r \in Active /\ Active' = Active \ {r}
        BY <3>6, ActiveSteps
      <4> QED
        BY <2>1, <4>1, Alone
    <3>7. ASSUME NEW r \in Runner, FindCandidates(r) PROVE Goal
      <4>1. r \in Active /\ Active' = Active
        BY <3>7, ActiveSteps DEF Run, FindCandidates, Active, Goto, TypeOK
      <4>2. q = r
        BY <2>1, <4>1, Alone
      <4>3. \A g \in todo'[r] : ~Cooling(g)
        BY <3>7 DEF FindCandidates, TypeOK
      <4>4. pc'[r] # "log"
        BY <3>7 DEF FindCandidates, Goto, TypeOK
      <4> QED
        BY <4>2, <4>3, <4>4
    <3>8. ASSUME NEW r \in Runner, NEW g \in Group, TakeCandidate(r, g) PROVE Goal
      <4>1. r \in Active /\ Active' = Active /\ pc[r] = "next"
        BY <3>8, ActiveSteps DEF Run, TakeCandidate, Release
      <4>2. q = r
        BY <2>1, <4>1, Alone
      <4>3. g \in todo[r] /\ todo'[r] = todo[r] \ {g}
        BY <3>8 DEF TakeCandidate, TypeOK
      <4>4. target'[r] = g \/ pc'[r] # "log"
        BY <3>8 DEF TakeCandidate, Goto, TypeOK
      <4> QED
        BY <3>3, <4>1, <4>2, <4>3, <4>4
    <3>9. ASSUME NEW r \in Runner, Crawl(r) \/ CloseLog(r) PROVE Goal
      <4>1. pc[r] # "find" /\ Active' = Active /\ UNCHANGED <<todo, target>>
        BY <3>9, ActiveSteps DEF Run, Crawl, CloseLog, Release
      <4>2. pc'[r] # "log" /\ \A p \in Runner \ {r} : pc'[p] = pc[p]
        BY <3>9 DEF Crawl, CloseLog, Goto, TypeOK
      <4>3. pc'[q] = "log" \/ pc'[q] = "find" => pc'[q] = pc[q]
        BY <3>2, <3>9, <4>1, <4>2 DEF Crawl, CloseLog, Goto, TypeOK
      <4>4. pc[q] = "find" => pc'[q] = "find"
        BY <3>2, <4>1, <4>2
      <4> QED
        BY <3>3, <4>1, <4>3, <4>4
    <3>10. CASE UNCHANGED <<pc, todo, target>>
      <4>1. Active' = Active
        BY <3>10 DEF Active
      <4> QED
        BY <3>3, <3>10, <4>1
    <3>11. \/ UNCHANGED <<pc, todo, target>>
           \/ \E r \in Runner : Acquire(r) \/ Run(r) \/ Crash(r)
      BY DEF Next, AcquireInDoubt, ExpireAbandoned, ExpireUnderOwner, Age, vars
    <3> QED
      BY <2>3, <3>5, <3>6, <3>7, <3>8, <3>9, <3>10, <3>11 DEF Run
  <2> QED
    BY <2>2, <2>3
<1> QED
  BY <1>1, <1>2

(***************************************************************************)
(* The theorems.                                                           *)
(***************************************************************************)

LEMMA NextIInv == IInv /\ [Next]_vars => IInv'
<1> SUFFICES ASSUME IInv, [Next]_vars PROVE IInv'
  OBVIOUS
<1> USE DEF IInv
<1>1. TypeOK'
  BY TypeStep
<1>2. LockInv' /\ LogInv' /\ RestInv'
  BY LockStep, LogStep, RestStep
<1>3. CandidateInv' /\ OneBurstPerCooldown'
  BY <1>1, CandidateStep
<1> QED
  BY <1>1, <1>2, <1>3

\* The inductive invariant holds in every reachable state.
THEOREM Invariance == Spec => []IInv
  BY InitIInv, NextIInv, PTL DEF Spec

\* The lock, the stages, the rows and the counters keep their types.
THEOREM TypeCorrect == Spec => []TypeOK
<1>1. IInv => TypeOK
  BY DEF IInv
<1> QED
  BY <1>1, Invariance, PTL

\* Whoever deletes whose lock, at most one more runner than expiries under a
\* running job is between _acquire_burst_lock and the end of its finally clause.
THEOREM BoundedConcurrency == Spec => []ConcurrencyBound
<1>1. IInv => ConcurrencyBound
  BY DEF IInv, LockInv
<1> QED
  BY <1>1, Invariance, PTL

\* While no lock expires under a running job, find_burst_candidates is never
\* stale when log_burst_job writes: no group is burst twice in a cooldown.
THEOREM OncePerCooldown == Spec => []OneBurstPerCooldown
<1>1. IInv => OneBurstPerCooldown
  BY DEF IInv
<1> QED
  BY <1>1, Invariance, PTL

\* Until a lock expires under a running job the unconditional delete is harmless:
\* the burst job implements a critical section.
THEOREM LockRefinesExclusive == Spec => RunsExclusively
<1>1. Init => Section!Init
  BY DEF Init, Section!Init, Inside, Active
<1>2. IInv /\ [Next]_vars => [Section!Next]_Inside
  <2> SUFFICES ASSUME IInv, [Next]_vars PROVE Section!Next \/ Inside' = Inside
    OBVIOUS
  <2>1. TypeOK /\ LockInv /\ overruns \in Nat
    BY BurstBoundAssumption DEF IInv, TypeOK
  <2>2. ASSUME NEW r \in Runner, Acquire(r), overruns = 0 PROVE Section!Next
    <3>1. lock \notin Active /\ overruns' = 0
      BY <2>2, RunnersFinite DEF Acquire, Active
    <3>2. Active = {} /\ Active' = {r}
      BY <2>1, <2>2, <3>1, Alone, ActiveSteps
    <3> QED
      BY <2>2, <3>1, <3>2 DEF Section!Next, Section!Enter, Inside
  <2>3. ASSUME NEW r \in Runner, Release(r) \/ Crash(r), overruns = 0
        PROVE  Section!Next
    <3>1. r \in Active /\ Active' = Active \ {r}
      BY <2>1, <2>3, ActiveSteps
    <3>2. overruns' = 0
      BY <2>3 DEF Release, Crash
    <3> QED
      BY <2>3, <3>1, <3>2 DEF Section!Next, Section!Leave, Inside
  <2>4. ASSUME NEW r \in Runner, Run(r), ~Release(r)
        PROVE  Active' = Active /\ overruns' = overruns
    <3>1. overruns' = overruns
      BY <2>4 DEF Run, FindCandidates, TakeCandidate, LogJob, Crawl, CloseLog
    <3> QED
      BY <2>1, <2>4, <3>1, ActiveSteps
  <2>5. CASE ExpireUnderOwner /\ overruns = 0
    <3>1. Active = {lock} /\ lock \in Runner
      BY <2>1, <2>5, Alone DEF ExpireUnderOwner, Active
    <3>2. Inside = {lock} /\ Inside' = {}
      BY <2>5, <3>1 DEF ExpireUnderOwner, Inside
    <3> QED
      BY <3>1, <3>2 DEF Section!Next, Section!Leave
  <2>6. CASE UNCHANGED <<pc, overruns>>
    BY <2>6 DEF Inside, Active
  <2>7. CASE overruns # 0
    <3>1. overruns' # 0
      <4>1. CASE ExpireUnderOwner
        BY <2>1, <4>1 DEF ExpireUnderOwner
      <4>2. CASE \E r \in Runner : Acquire(r) \/ AcquireInDoubt(r) \/ Crash(r)
        BY <2>7, <4>2 DEF Acquire, AcquireInDoubt, Crash
      <4>3. CASE \E r \in Runner : Run(r)
        BY <2>7, <4>3 DEF Run, Release, FindCandidates, TakeCandidate, LogJob, Crawl,
           CloseLog
      <4>4. CASE ExpireAbandoned \/ (\E i \in DOMAIN logs : Age(i)) \/ UNCHANGED vars
        BY <2>7, <4>4 DEF ExpireAbandoned, Age, vars
      <4> QED
        BY <4>1, <4>2, <4>3, <4>4 DEF Next
    <3> QED
      BY <2>7, <3>1 DEF Inside
  <2>8. \/ UNCHANGED <<pc, overruns>>
        \/ ExpireUnderOwner
        \/ \E r \in Runner : Acquire(r) \/ Run(r) \/ Crash(r)
    BY DEF Next, AcquireInDoubt, ExpireAbandoned, Age, vars
  <2>9. \A r \in Runner : Run(r) /\ ~Release(r) => Inside' = Inside
    BY <2>4 DEF Inside
  <2> QED
    BY <2>2, <2>3, <2>5, <2>6, <2>7, <2>8, <2>9
<1> QED
  BY <1>1, <1>2, Invariance, PTL DEF Spec, RunsExclusively, Section!Spec

=============================================================================
