-------------------------- MODULE RunLifecycleProofs --------------------------
(***************************************************************************)
(* Theorems about RunLifecycle, for every set of runs, parties, packages   *)
(* and chords, any limits and any number of faults.                        *)
(*                                                                         *)
(* Where a theorem assumes Stages = Nat it asks of the scheduler's         *)
(* specification not to bound how far the pipeline takes a run: the tasks  *)
(* themselves know no such bound.                                          *)
(***************************************************************************)
EXTENDS RunLifecycle, RunSchedulerProofs, Sums

(* A task that is finished, replaced by the next one, or sent keeps the    *)
(* counts natural numbers.                                                 *)
LEMMA DoneCounts ==
    ASSUME jobs \in [Run -> [JobStep -> Nat]], NEW r \in Run, NEW j \in JobStep,
           jobs[r][j] > 0, Done(r, j)
    PROVE  jobs' \in [Run -> [JobStep -> Nat]]
  <1>1. jobs[r] \in [JobStep -> Nat] /\ jobs[r][j] - 1 \in Nat
    OBVIOUS
  <1>2. [jobs[r] EXCEPT ![j] = @ - 1] \in [JobStep -> Nat]
    BY <1>1
  <1> QED BY <1>2 DEF Done

(* A task that hands over to the next one keeps the counts of queued tasks numbers. *)
LEMMA StepCounts ==
    ASSUME jobs \in [Run -> [JobStep -> Nat]], NEW r \in Run, NEW j \in JobStep,
           NEW k \in JobStep, j # k, jobs[r][j] > 0, Step(r, j, k)
    PROVE  jobs' \in [Run -> [JobStep -> Nat]]
  <1>1. jobs[r] \in [JobStep -> Nat] /\ jobs[r][j] - 1 \in Nat /\ jobs[r][k] + 1 \in Nat
    OBVIOUS
  <1>2. [jobs[r] EXCEPT ![j] = @ - 1, ![k] = @ + 1] \in [JobStep -> Nat]
    BY <1>1
  <1> QED BY <1>2 DEF Step

(* So does a step that only queues a task.                                 *)
LEMMA SendCounts ==
    ASSUME jobs \in [Run -> [JobStep -> Nat]], NEW r \in Run, NEW k \in JobStep, Send(r, k)
    PROVE  jobs' \in [Run -> [JobStep -> Nat]]
  <1>1. [jobs[r] EXCEPT ![k] = @ + 1] \in [JobStep -> Nat]
    OBVIOUS
  <1> QED BY <1>1 DEF Send

(* A compute task that gets to a step, or is tried again, keeps its type.  *)
LEMMA PartTypes ==
    ASSUME PipelineTypeOK, NEW r \in Run, NEW a \in Attempt, NEW p \in Package,
           (\E s \in PartStep : PartTo(r, a, p, s)) \/ Retry(r, a, p)
    PROVE  parts' \in [Run -> [Attempt -> [Package -> [step : PartStep, tries : 0..MaxRetries]]]]
  <1> DEFINE T == [step : PartStep, tries : 0..MaxRetries]
  <1>1. parts \in [Run -> [Attempt -> [Package -> T]]]
    BY DEF PipelineTypeOK
  <1>2. PICK t \in T : parts' = [parts EXCEPT ![r][a][p] = t]
    <2>1. parts[r][a][p] \in T
      BY <1>1
    <2>2. CASE Retry(r, a, p)
      <3> DEFINE x == parts[r][a][p]
      <3>1. x.tries \in 0..MaxRetries /\ MaxRetries \in Nat
        BY <2>1, LifecycleAssumption
      <3>2. CASE x.tries < MaxRetries
        <4>1. [step |-> "queued", tries |-> x.tries + 1] \in T
          BY <3>1, <3>2 DEF PartStep
        <4> QED BY <2>2, <3>2, <4>1 DEF Retry
      <3>3. CASE ~(x.tries < MaxRetries)
        <4>1. [x EXCEPT !.step = "failed"] \in T
          BY <2>1 DEF PartStep
        <4> QED BY <2>2, <3>3, <4>1 DEF Retry
      <3> QED BY <3>2, <3>3
    <2>3. CASE \E s \in PartStep : PartTo(r, a, p, s)
      <3>1. PICK s \in PartStep : PartTo(r, a, p, s)
        BY <2>3
      <3>2. [parts[r][a][p] EXCEPT !.step = s] \in T
        BY <2>1
      <3> QED BY <3>1, <3>2 DEF PartTo
    <2> QED BY <2>2, <2>3
  <1> QED BY <1>1, <1>2

-------------------------------------------------------------------------------
(* The pipeline works for launched runs only, ...                          *)
LEMMA OnlyLaunched ==
    ASSUME LifecycleTypeOK, NothingBeforeLaunch, NEW r \in Run, PipelineStep(r) \/ PipelineFault(r)
    PROVE  launched[r] > 0
  <1> SUFFICES ASSUME Untouched(r) PROVE FALSE
    BY DEF LifecycleTypeOK, TypeOK, NothingBeforeLaunch
  <1>1. /\ \A j \in JobStep : ~(jobs[r][j] > 0)
        /\ {"create", "dispatch", "errback", "solver", "save", "saved", "permute", "permuted",
            "complete", "completed", "failed"} \subseteq JobStep
    BY DEF Untouched, JobStep
  <1>2. \A a \in Attempt, p \in Package : ~PartAt(r, a, p, "queued") /\ ~PartAt(r, a, p, "counted")
    BY DEF Untouched, PartAt
  <1>3. \A a \in Attempt : agg[r][a] = "none"
    BY DEF Untouched
  <1>4. CASE PipelineStep(r)
    <2>1. ASSUME NEW a \in Attempt, NEW p \in Package, ComputeStep(r, a, p) PROVE FALSE
      BY <1>2, <2>1 DEF ComputeStep, ComputeInactive, ComputeStale, Compute, ComputeOverLimit, ComputeStore
    <2>2. ASSUME NEW a \in Attempt, AggregateStep(r, a) PROVE FALSE
      BY <1>3, <2>2 DEF AggregateStep, ChordReturns, AggregateMissing, AggregateMerge, AggregateStore,
                        AggregateSend, AggAt
    <2>3. CASE JobsStep(r)
      BY <1>1, <2>3 DEF JobsStep, CreateJobs, CreateErrback, DispatchChord, Solve, SolveOverLimit, SaveGroups,
                        SendPermute, Permute, SendComplete, MarkComplete, CacheComplete, RunFailed
    <2> QED BY <1>4, <2>1, <2>2, <2>3 DEF PipelineStep
  <1>5. CASE PipelineFault(r)
    <2>1. ~CreateJobsFails(r) /\ ~TaskFails(r)
      BY <1>1 DEF CreateJobsFails, TaskFails
    <2>2. ~LoseTask(r) /\ ~RedeliverTask(r)
      BY <1>1, <1>2, <1>3 DEF LoseTask, RedeliverTask, MessageOf, JobStep
    <2>3. \A a \in Attempt : ~AggregateFails(r, a)
      BY <1>3 DEF AggregateFails, AggAt
    <2>4. \A a \in Attempt, p \in Package : ~ComputeFails(r, a, p)
      BY <1>2 DEF ComputeFails
    <2> QED BY <1>5, <2>1, <2>2, <2>3, <2>4 DEF PipelineFault
  <1> QED BY <1>4, <1>5

(* ... and for one run at a time.                                          *)
Elsewhere(r) ==
    /\ \A q \in Run \ {r} :
          /\ jobs'[q] = jobs[q] /\ parts'[q] = parts[q] /\ agg'[q] = agg[q] /\ rows'[q] = rows[q]
          /\ state'[q] = state[q] /\ stage'[q] = stage[q]
    /\ project' = project /\ sizing' = sizing /\ launched' = launched /\ resultType' = resultType
    /\ pairs' = pairs

(* A step of one run's tasks leaves the rows and queues of the other runs alone. *)
LEMMA OneRunAtATime ==
    ASSUME LifecycleTypeOK, NEW r \in Run, PipelineStep(r) \/ PipelineFault(r)
    PROVE  Elsewhere(r)
  <1> USE DEF LifecycleTypeOK, TypeOK, PipelineTypeOK, Elsewhere, schedulerVars, ownVars, dataVars, Done, Step,
              Send, AggTo, PartTo, Retry, MarkFailure
  <1>1. ASSUME NEW a \in Attempt, NEW p \in Package, ComputeStep(r, a, p) \/ ComputeFails(r, a, p)
        PROVE  Elsewhere(r)
    BY <1>1 DEF ComputeStep, ComputeInactive, ComputeStale, Compute, ComputeOverLimit, ComputeStore, ComputeFails
  <1>2. ASSUME NEW a \in Attempt, AggregateStep(r, a) \/ AggregateFails(r, a) PROVE Elsewhere(r)
    BY <1>2 DEF AggregateStep, AggFails, ChordReturns, AggregateMissing, AggregateMerge, AggregateStore,
                AggregateSend, AggregateFails, NextStage, Progress
  <1>3. CASE JobsStep(r)
    BY <1>3 DEF JobsStep, CreateJobs, CreateErrback, DispatchChord, Solve, SolveOverLimit, SaveGroups,
                SendPermute, Permute, SendComplete, MarkComplete, CacheComplete, RunFailed
  <1>4. CASE CreateJobsFails(r) \/ TaskFails(r) \/ LoseTask(r) \/ RedeliverTask(r)
    BY <1>4 DEF CreateJobsFails, TaskFails, LoseTask, RedeliverTask
  <1> QED BY <1>1, <1>2, <1>3, <1>4 DEF PipelineStep, PipelineFault

-------------------------------------------------------------------------------
(* A result that is stored keeps the type of the rows.                     *)
LEMMA RowTypes ==
    ASSUME rows \in [Run -> [scores : Nat, groups : Nat, perms : Nat]], NEW r \in Run,
           rows' \in {rows, [rows EXCEPT ![r].scores = @ + 1], [rows EXCEPT ![r].groups = @ + 1],
                     [rows EXCEPT ![r].perms = @ + 1]}
    PROVE  rows' \in [Run -> [scores : Nat, groups : Nat, perms : Nat]]
  <1> DEFINE x == rows[r]
  <1>1. x \in [scores : Nat, groups : Nat, perms : Nat]
    OBVIOUS
  <1>2. /\ [x EXCEPT !.scores = @ + 1] \in [scores : Nat, groups : Nat, perms : Nat]
        /\ [x EXCEPT !.groups = @ + 1] \in [scores : Nat, groups : Nat, perms : Nat]
        /\ [x EXCEPT !.perms = @ + 1] \in [scores : Nat, groups : Nat, perms : Nat]
    BY <1>1
  <1> QED BY <1>2

(* The results of a package, duplicates included, are counted by a number. *)
LEMMA NumResultsType ==
    ASSUME PipelineTypeOK, NEW r \in Run
    PROVE  \A p \in Package : NumResults(r)[p] \in Nat
  <1> SUFFICES ASSUME NEW p \in Package PROVE NumResults(r)[p] \in Nat
    OBVIOUS
  <1>1. pairs[r][p] \in [Candidate -> Nat] /\ IsFiniteSet(Candidate)
    <2>1. IsFiniteSet(Candidate) /\ Yields \subseteq [Candidate -> Nat]
      BY LifecycleAssumption
    <2>2. pairs[r][p] \in Yields
      BY DEF PipelineTypeOK
    <2> QED BY <2>1, <2>2
  <1>2. SumFunctionOnSet(pairs[r][p], Candidate) \in Nat
    BY <1>1, SumType
  <1> QED BY <1>1, <1>2 DEF NumResults, SumFunction

(* Each part of the pipeline keeps the type invariant: the compute tasks,  *)
LEMMA ComputeType ==
    ASSUME PipelineTypeOK, NEW r \in Run, NEW a \in Attempt, NEW p \in Package,
           ComputeStep(r, a, p) \/ ComputeFails(r, a, p)
    PROVE  PipelineTypeOK'
  <1> DEFINE PartsOK == parts' \in [Run -> [Attempt -> [Package -> [step : PartStep, tries : 0..MaxRetries]]]]
  <1> USE DEF ownVars
  <1>1. {"missing", "counted", "empty", "file"} \subseteq PartStep
    BY DEF PartStep
  <1>2. PartsOK
    BY <1>1, PartTypes DEF ComputeStep, ComputeInactive, ComputeStale, Compute, ComputeOverLimit,
                           ComputeStore, ComputeFails
  <1>3. NumResults(r)[p] \in Nat
    BY NumResultsType
  <1> HIDE DEF PartsOK
  <1>4. CASE Compute(r, a, p)
    BY <1>2, <1>3, <1>4 DEF Compute, PipelineTypeOK, PartsOK
  <1>5. CASE ComputeInactive(r, a, p) \/ ComputeStale(r, a, p) \/ ComputeOverLimit(r, a, p) \/ ComputeStore(r, a, p)
    BY <1>2, <1>5 DEF ComputeInactive, ComputeStale, ComputeOverLimit, ComputeStore, PipelineTypeOK, PartsOK
  <1>6. CASE ComputeFails(r, a, p)
    BY <1>2, <1>6 DEF ComputeFails, Fails, PipelineTypeOK, PartsOK
  <1> QED BY <1>4, <1>5, <1>6 DEF ComputeStep

(* the chord and its callback,                                             *)
LEMMA AggregateType ==
    ASSUME PipelineTypeOK, NEW r \in Run, NEW a \in Attempt,
           AggregateStep(r, a) \/ AggregateFails(r, a)
    PROVE  PipelineTypeOK'
  <1> DEFINE JobsOK == jobs' \in [Run -> [JobStep -> Nat]]
             AggOK  == agg' \in [Run -> [Attempt -> AggStep]]
  <1> USE DEF ownVars
  <1>1. jobs \in [Run -> [JobStep -> Nat]] /\ agg \in [Run -> [Attempt -> AggStep]]
    BY DEF PipelineTypeOK
  <1>2. \A s \in AggStep : AggTo(r, a, s) => AggOK
    BY <1>1 DEF AggTo
  <1>3. \A j \in {"failed", "complete", "solver"} : Send(r, j) => JobsOK
    BY <1>1, SendCounts DEF JobStep
  <1>4. AggFails(r, a) => AggOK /\ JobsOK
    BY <1>2, <1>3 DEF AggFails, AggStep
  <1>5. JobsOK /\ AggOK
    BY <1>1, <1>2, <1>3, <1>4 DEF AggregateStep, ChordReturns, AggregateMissing, AggregateMerge,
       AggregateStore, AggregateSend, AggregateFails, AggStep
  <1> HIDE DEF JobsOK, AggOK
  <1>6. CASE AggregateStore(r, a)
    <2>1. rows' \in [Run -> [scores : Nat, groups : Nat, perms : Nat]]
      <3>1. rows' \in {rows, [rows EXCEPT ![r].scores = @ + 1]}
        BY <1>6 DEF AggregateStore
      <3> QED BY <3>1, RowTypes DEF PipelineTypeOK
    <2>2. comparisons' \in [Run -> Nat] /\ candidates' \in [Run -> Nat]
      <3>1. comparisons \in [Run -> Nat] /\ candidates \in [Run -> Nat]
        BY DEF PipelineTypeOK
      <3>2. CASE Progress(r)
        BY <3>1, <3>2 DEF Progress
      <3>3. Progress(r) \/ UNCHANGED <<comparisons, candidates>>
        BY <1>6 DEF AggregateStore, NextStage
      <3> QED BY <3>1, <3>2, <3>3
    <2> QED BY <1>5, <1>6, <2>1, <2>2 DEF AggregateStore, PipelineTypeOK, JobsOK, AggOK
  <1>7. CASE ChordReturns(r, a) \/ AggregateMissing(r, a) \/ AggregateMerge(r, a) \/ AggregateSend(r, a)
    BY <1>5, <1>7 DEF ChordReturns, AggregateMissing, AggregateMerge, AggregateSend, PipelineTypeOK, JobsOK, AggOK
  <1>8. CASE AggregateFails(r, a)
    BY <1>5, <1>8 DEF AggregateFails, Fails, PipelineTypeOK, JobsOK, AggOK
  <1> QED BY <1>6, <1>7, <1>8 DEF AggregateStep

(* the single tasks,                                                       *)
LEMMA JobsType ==
    ASSUME PipelineTypeOK, NEW r \in Run, JobsStep(r) \/ CreateJobsFails(r) \/ TaskFails(r)
    PROVE  PipelineTypeOK'
  <1> DEFINE JobsOK == jobs' \in [Run -> [JobStep -> Nat]]
  <1> USE DEF ownVars
  <1>1. jobs \in [Run -> [JobStep -> Nat]]
    BY DEF PipelineTypeOK
  <1>2. \A j, k \in JobStep : j # k /\ jobs[r][j] > 0 /\ Step(r, j, k) => JobsOK
    BY <1>1, StepCounts
  <1>3. \A j \in JobStep : jobs[r][j] > 0 /\ Done(r, j) => JobsOK
    BY <1>1, DoneCounts
  <1>4. JobsOK
    BY <1>2, <1>3 DEF JobsStep, CreateJobs, CreateErrback, DispatchChord, Solve, SolveOverLimit,
       SaveGroups, SendPermute, Permute, SendComplete, MarkComplete, CacheComplete, RunFailed,
       CreateJobsFails, TaskFails, JobStep
  <1> HIDE DEF JobsOK
  <1>6. CASE DispatchChord(r)
    <2>1. PICK a \in Attempt :
             /\ agg' = [agg EXCEPT ![r][a] = "waiting"]
             /\ parts' = [parts EXCEPT ![r][a] = [p \in Package |-> [step |-> "queued", tries |-> 0]]]
      BY <1>6 DEF DispatchChord
    <2>2. agg' \in [Run -> [Attempt -> AggStep]]
      BY <2>1 DEF PipelineTypeOK, AggStep
    <2>3. parts' \in [Run -> [Attempt -> [Package -> [step : PartStep, tries : 0..MaxRetries]]]]
      <3>0. 0 \in 0..MaxRetries
        <4>1. MaxRetries \in Nat
          BY LifecycleAssumption
        <4> QED BY <4>1
      <3>1. [step |-> "queued", tries |-> 0] \in [step : PartStep, tries : 0..MaxRetries]
        BY <3>0 DEF PartStep
      <3>2. [p \in Package |-> [step |-> "queued", tries |-> 0]]
                \in [Package -> [step : PartStep, tries : 0..MaxRetries]]
        BY <3>1
      <3> QED BY <2>1, <3>2 DEF PipelineTypeOK
    <2> QED BY <1>4, <1>6, <2>2, <2>3 DEF DispatchChord, PipelineTypeOK, JobsOK
  <1>7. CASE SaveGroups(r) \/ Permute(r)
    <2>1. rows' \in {rows, [rows EXCEPT ![r].groups = @ + 1], [rows EXCEPT ![r].perms = @ + 1]}
      BY <1>7 DEF SaveGroups, Permute
    <2>2. rows' \in [Run -> [scores : Nat, groups : Nat, perms : Nat]]
      BY <2>1, RowTypes DEF PipelineTypeOK
    <2> QED BY <1>4, <1>7, <2>2 DEF SaveGroups, Permute, PipelineTypeOK, JobsOK
  <1>8. CASE CreateJobs(r) \/ CreateErrback(r) \/ Solve(r) \/ SolveOverLimit(r) \/ SendPermute(r)
                \/ SendComplete(r) \/ MarkComplete(r) \/ CacheComplete(r) \/ RunFailed(r)
    BY <1>4, <1>8 DEF CreateJobs, CreateErrback, Solve, SolveOverLimit, SendPermute, SendComplete, MarkComplete,
       CacheComplete, RunFailed, PipelineTypeOK, JobsOK
  <1>9. CASE CreateJobsFails(r) \/ TaskFails(r)
    BY <1>4, <1>9 DEF CreateJobsFails, TaskFails, Fails, PipelineTypeOK, JobsOK
  <1> QED BY <1>6, <1>7, <1>8, <1>9 DEF JobsStep

(* and deaths and redeliveries.                                            *)
LEMMA LossType ==
    ASSUME PipelineTypeOK, NEW r \in Run, LoseTask(r) \/ RedeliverTask(r)
    PROVE  PipelineTypeOK'
  <1> DEFINE JobsOK  == jobs' \in [Run -> [JobStep -> Nat]]
             AggOK   == agg' \in [Run -> [Attempt -> AggStep]]
             PartsOK == parts' \in [Run -> [Attempt -> [Package -> [step : PartStep, tries : 0..MaxRetries]]]]
  <1> USE DEF ownVars
  <1>1. /\ jobs \in [Run -> [JobStep -> Nat]] /\ agg \in [Run -> [Attempt -> AggStep]]
        /\ parts \in [Run -> [Attempt -> [Package -> [step : PartStep, tries : 0..MaxRetries]]]]
    BY DEF PipelineTypeOK
  <1>2. JobsOK
    <2>1. \A j \in DOMAIN MessageOf : MessageOf[j] \in JobStep
      BY DEF MessageOf, JobStep
    <2> QED BY <1>1, <2>1, DoneCounts, SendCounts DEF LoseTask, RedeliverTask
  <1>3. PartsOK
    <2>1. {"none", "queued"} \subseteq PartStep
      BY DEF PartStep
    <2> QED BY <1>1, <2>1, PartTypes DEF LoseTask, RedeliverTask
  <1>4. AggOK
    <2>1. ASSUME NEW a \in Attempt, NEW s \in {"failed", "retry"}, AggTo(r, a, s) PROVE AggOK
      BY <1>1, <2>1 DEF AggTo, AggStep
    <2> QED BY <1>1, <2>1 DEF LoseTask, RedeliverTask
  <1> HIDE DEF JobsOK, AggOK, PartsOK
  <1> QED BY <1>2, <1>3, <1>4 DEF LoseTask, RedeliverTask, Fails, PipelineTypeOK, JobsOK, AggOK, PartsOK

-------------------------------------------------------------------------------
(* To the scheduler, a task that finds its run failed is an outcome, and   *)
LEMMA FailureIsOutcome ==
    ASSUME LifecycleTypeOK, NEW r \in Run, launched[r] > 0, NEW m \in Failures, MarkFailure(r, m),
           UNCHANGED <<dataVars, stage, cache, launched, checks, prerun, deleting, faultVars>>
    PROVE  [PipelineOutcome(r)]_schedulerVars
  <1>1. CASE Exists(r)
    BY <1>1 DEF MarkFailure, PipelineOutcome
  <1>2. CASE ~Exists(r)
    BY <1>2 DEF MarkFailure, schedulerVars, dataVars, faultVars
  <1> QED BY <1>1, <1>2

(* so is every other step of the pipeline that it can see.                 *)
LEMMA PipelineIsOutcome ==
    ASSUME Stages = Nat, LifecycleTypeOK, NothingBeforeLaunch, NEW r \in Run,
           PipelineStep(r) \/ PipelineFault(r)
    PROVE  [PipelineOutcome(r)]_schedulerVars
  <1>0. launched[r] > 0
    BY OnlyLaunched
  <1>1. {"limit", "solver limit", "internal"} \subseteq Failures
    BY LifecycleAssumption
  <1>2. ASSUME NEW a \in Attempt, NEW p \in Package, ComputeStep(r, a, p) \/ ComputeFails(r, a, p)
        PROVE  [PipelineOutcome(r)]_schedulerVars
    <2>1. CASE ComputeOverLimit(r, a, p)
      BY <1>0, <1>1, <2>1, FailureIsOutcome DEF ComputeOverLimit
    <2>2. CASE ~ComputeOverLimit(r, a, p)
      BY <1>2, <2>2 DEF ComputeStep, ComputeInactive, ComputeStale, Compute, ComputeStore, ComputeFails
    <2> QED BY <2>1, <2>2
  <1>3. ASSUME NEW a \in Attempt, AggregateStep(r, a) \/ AggregateFails(r, a)
        PROVE  [PipelineOutcome(r)]_schedulerVars
    <2>1. CASE AggregateStore(r, a)
      <3>1. stage[r] + 1 \in Stages
        BY DEF LifecycleTypeOK, TypeOK
      <3>2. CASE Exists(r) /\ Progress(r)
        BY <1>0, <2>1, <3>1, <3>2 DEF AggregateStore, Progress, PipelineOutcome
      <3>3. CASE UNCHANGED stage
        BY <2>1, <3>3 DEF AggregateStore, schedulerVars, dataVars, faultVars
      <3> QED BY <2>1, <3>2, <3>3 DEF AggregateStore, NextStage
    <2>2. CASE ~AggregateStore(r, a)
      BY <1>3, <2>2 DEF AggregateStep, ChordReturns, AggregateMissing, AggregateMerge, AggregateSend, AggregateFails
    <2> QED BY <2>1, <2>2
  <1>4. CASE JobsStep(r)
    <2>1. CASE SolveOverLimit(r)
      BY <1>0, <1>1, <2>1, FailureIsOutcome DEF SolveOverLimit
    <2>2. CASE RunFailed(r)
      BY <1>0, <1>1, <2>2, FailureIsOutcome DEF RunFailed
    <2>3. CASE MarkComplete(r)
      BY <1>0, <2>3 DEF MarkComplete, PipelineOutcome, schedulerVars, dataVars, faultVars
    <2>4. CASE CacheComplete(r)
      BY <1>0, <2>4 DEF CacheComplete, PipelineOutcome, schedulerVars
    <2>5. CASE UNCHANGED schedulerVars
      BY <2>5
    <2> QED BY <1>4, <2>1, <2>2, <2>3, <2>4, <2>5 DEF JobsStep, CreateJobs, CreateErrback, DispatchChord, Solve,
            SaveGroups, SendPermute, Permute, SendComplete
  <1>5. CASE CreateJobsFails(r) \/ TaskFails(r) \/ LoseTask(r) \/ RedeliverTask(r)
    BY <1>5 DEF CreateJobsFails, TaskFails, LoseTask, RedeliverTask
  <1> QED BY <1>2, <1>3, <1>4, <1>5 DEF PipelineStep, PipelineFault

(* Every step is a step of the scheduler or one it does not see.           *)
LEMMA SchedulerStep ==
    ASSUME Stages = Nat, LifecycleTypeOK, NothingBeforeLaunch, [Next]_vars
    PROVE  [SchedulerNext]_schedulerVars
  <1>1. CASE SchedulerOnly
    BY <1>1 DEF SchedulerOnly, SchedulerNext, View, RemoveProject, Check, Prerun
  <1>2. CASE CleanProject \/ (\E c \in Trigger : QueueAndClear(c))
    BY <1>2 DEF CleanProject, QueueAndClear, SchedulerNext, RemoveProject, Check
  <1>3. ASSUME NEW r \in Run, LaunchRun(r) \/ CascadeDelete(r)
        PROVE  [SchedulerNext]_schedulerVars
    BY <1>3 DEF LaunchRun, CascadeDelete, SchedulerNext, View, Prerun
  <1>4. ASSUME NEW r \in Run, RefuseDelete(r) PROVE [SchedulerNext]_schedulerVars
    BY <1>4 DEF RefuseDelete, SchedulerNext
  <1>5. ASSUME NEW r \in Run, PipelineStep(r) \/ PipelineFault(r) PROVE [SchedulerNext]_schedulerVars
    BY <1>5, PipelineIsOutcome DEF SchedulerNext
  <1>6. CASE UNCHANGED vars
    BY <1>6 DEF vars, schedulerVars
  <1> QED BY <1>1, <1>2, <1>3, <1>4, <1>5, <1>6 DEF Next

(* The pipeline has nothing to do with a run that is not launched.         *)
LEMMA NothingBeforeLaunchKept ==
    ASSUME LifecycleTypeOK, NothingBeforeLaunch, [Next]_vars
    PROVE  NothingBeforeLaunch'
  <1> SUFFICES ASSUME NEW q \in Run, launched'[q] = 0 PROVE Untouched(q)'
    BY DEF NothingBeforeLaunch
  <1> USE DEF LifecycleTypeOK, TypeOK, PipelineTypeOK, dataVars, runVars
  <1>0. launched[q] = 0 => Untouched(q)
    BY DEF NothingBeforeLaunch
  <1>1. ASSUME NEW r \in Run, PipelineStep(r) \/ PipelineFault(r) PROVE Untouched(q)'
    <2>1. launched[r] > 0 /\ Elsewhere(r)
      BY <1>1, OnlyLaunched, OneRunAtATime
    <2>2. q # r /\ Untouched(q)
      BY <1>0, <2>1 DEF Elsewhere
    <2> QED BY <2>1, <2>2 DEF Elsewhere, Untouched
  <1>2. ASSUME NEW r \in Run, LaunchRun(r) PROVE Untouched(q)'
    <2>1. q # r /\ launched[q] = 0
      BY <1>2 DEF LaunchRun, PrerunLaunch
    <2> QED BY <1>0, <1>2, <2>1 DEF LaunchRun, PrerunLaunch, ownVars, Send, Untouched
  <1>3. ASSUME UNCHANGED <<jobs, agg, parts, launched>>, rows'[q].scores \in {0, rows[q].scores},
               state'[q] = "completed" => state[q] = "completed"
        PROVE  Untouched(q)'
    <2>1. launched[q] = 0 /\ Untouched(q)
      BY <1>0, <1>3
    <2> QED BY <1>3, <2>1 DEF Untouched
  <1>4. ASSUME NEW r \in Run, CascadeDelete(r) \/ RefuseDelete(r) PROVE Untouched(q)'
    <2>1. CASE CascadeDelete(r)
      <3>1. rows'[q].scores \in {0, rows[q].scores}
        BY <2>1 DEF CascadeDelete, NoRows
      <3>2. UNCHANGED <<jobs, agg, parts, launched>> /\ (state'[q] = "completed" => state[q] = "completed")
        BY <2>1 DEF CascadeDelete, DeleteRow
      <3> QED BY <1>3, <3>1, <3>2
    <2>2. CASE RefuseDelete(r)
      BY <1>3, <2>2 DEF RefuseDelete, DeleteRefused, pipelineVars
    <2> QED BY <1>4, <2>1, <2>2
  <1>5. CASE CleanProject
    BY <1>3, <1>5 DEF CleanProject, RemoveProjectData
  <1>6. ASSUME NEW c \in Trigger, QueueAndClear(c) PROVE Untouched(q)'
    BY <1>3, <1>6 DEF QueueAndClear, QueueRuns
  <1>7. CASE SchedulerOnly
    <2>1. launched' = launched /\ (state'[q] = "completed" => state[q] = "completed")
      BY <1>7 DEF SchedulerOnly, Client, PostRun, DeleteRun, UploadReady, MarkProject, SaveRun, SendCheck,
         CountReady, SendRemoveProject, RemoveProjectCaches, Fault, LoseCheck, RedeliverCheck, LosePrerun,
         LoseDelete, RedeliverPrerun, LoseRemoveProject, RedeliverRemoveProject, CheckUploads, NoUploads,
         RejectUploads, FailRuns, CheckDone, SendPrerun, PrerunCache, PrerunLock, PrerunActivate, PrerunCommit
    <2> QED BY <1>3, <1>7, <2>1 DEF SchedulerOnly, pipelineVars
  <1>8. CASE UNCHANGED vars
    BY <1>3, <1>8 DEF vars, schedulerVars, pipelineVars
  <1> QED BY <1>1, <1>2, <1>4, <1>5, <1>6, <1>7, <1>8 DEF Next

-------------------------------------------------------------------------------
(* Initially all variables have their type.                                *)
LEMMA InitPipelineType == Init => PipelineTypeOK
  <1> SUFFICES ASSUME Init PROVE PipelineTypeOK
    OBVIOUS
  <1>1. 0 \in 0..MaxRetries
    <2>1. MaxRetries \in Nat
      BY LifecycleAssumption
    <2> QED BY <2>1
  <1>2. [step |-> "none", tries |-> 0] \in [step : PartStep, tries : 0..MaxRetries]
    BY <1>1 DEF PartStep
  <1>3. parts \in [Run -> [Attempt -> [Package -> [step : PartStep, tries : 0..MaxRetries]]]]
    BY <1>2 DEF Init
  <1>4. "none" \in AggStep /\ NoRows \in [scores : Nat, groups : Nat, perms : Nat]
    BY DEF AggStep, NoRows
  <1>5. rows \in [Run -> [scores : Nat, groups : Nat, perms : Nat]] /\ agg \in [Run -> [Attempt -> AggStep]]
    BY <1>4 DEF Init
  <1> QED BY <1>3, <1>5 DEF Init, PipelineTypeOK

(* and every step keeps it.                                                *)
LEMMA NextPipelineType == ASSUME LifecycleTypeOK, [Next]_vars PROVE PipelineTypeOK'
  <1>0. PipelineTypeOK
    BY DEF LifecycleTypeOK
  <1>1. ASSUME NEW r \in Run, PipelineStep(r) PROVE PipelineTypeOK'
    BY <1>0, <1>1, ComputeType, AggregateType, JobsType DEF PipelineStep
  <1>2. ASSUME NEW r \in Run, PipelineFault(r) PROVE PipelineTypeOK'
    BY <1>0, <1>2, ComputeType, AggregateType, JobsType, LossType DEF PipelineFault
  <1>3. ASSUME NEW r \in Run, LaunchRun(r) PROVE PipelineTypeOK'
    <2>1. jobs' \in [Run -> [JobStep -> Nat]]
      BY <1>0, <1>3, SendCounts DEF LaunchRun, PipelineTypeOK, JobStep
    <2> QED BY <1>0, <1>3, <2>1 DEF LaunchRun, ownVars, PipelineTypeOK
  <1>4. ASSUME NEW r \in Run, CascadeDelete(r) PROVE PipelineTypeOK'
    <2>1. NoRows \in [scores : Nat, groups : Nat, perms : Nat]
      BY DEF NoRows
    <2> QED BY <1>0, <1>4, <2>1 DEF CascadeDelete, ownVars, PipelineTypeOK
  <1>5. CASE CleanProject
    <2>1. \A r \in Run : [rows[r] EXCEPT !.groups = 0, !.perms = 0] \in [scores : Nat, groups : Nat, perms : Nat]
      <3> SUFFICES ASSUME NEW r \in Run
                   PROVE  [rows[r] EXCEPT !.groups = 0, !.perms = 0] \in [scores : Nat, groups : Nat, perms : Nat]
        OBVIOUS
      <3>1. rows[r] \in [scores : Nat, groups : Nat, perms : Nat]
        BY <1>0 DEF PipelineTypeOK
      <3> QED BY <3>1
    <2> QED BY <1>0, <1>5, <2>1 DEF CleanProject, ownVars, PipelineTypeOK
  <1>6. ASSUME NEW c \in Trigger, QueueAndClear(c) PROVE PipelineTypeOK'
    <2>1. comparisons' \in [Run -> Nat] /\ candidates' \in [Run -> Nat]
      BY <1>0, <1>6 DEF QueueAndClear, PipelineTypeOK
    <2> QED BY <1>0, <1>6, <2>1 DEF QueueAndClear, ownVars, PipelineTypeOK
  <1>7. CASE UNCHANGED pipelineVars
    BY <1>0, <1>7 DEF pipelineVars, PipelineTypeOK
  <1>8. CASE SchedulerOnly \/ (\E r \in Run : RefuseDelete(r)) \/ UNCHANGED vars
    BY <1>7, <1>8 DEF SchedulerOnly, RefuseDelete, vars
  <1> QED BY <1>1, <1>2, <1>3, <1>4, <1>5, <1>6, <1>8 DEF Next

(* The pipeline keeps its types, and does not touch a run before it is     *)
(* launched (run.py:13-53, comparing.py:39-142).                           *)
THEOREM LifecycleTypeCorrect ==
    ASSUME Stages = Nat
    PROVE  Spec => [](LifecycleTypeOK /\ NothingBeforeLaunch)
  <1>1. Init => LifecycleTypeOK /\ NothingBeforeLaunch
    <2>1. Init => LifecycleTypeOK
      BY InitTypeOK, InitPipelineType DEF Init, LifecycleTypeOK
    <2>2. Init => NothingBeforeLaunch
      BY DEF Init, SchedulerInit, NothingBeforeLaunch, Untouched, NoRows
    <2> QED BY <2>1, <2>2
  <1>2. LifecycleTypeOK /\ NothingBeforeLaunch /\ [Next]_vars => (LifecycleTypeOK /\ NothingBeforeLaunch)'
    <2> SUFFICES ASSUME LifecycleTypeOK, NothingBeforeLaunch, [Next]_vars
                 PROVE  LifecycleTypeOK' /\ NothingBeforeLaunch'
      OBVIOUS
    <2>1. TypeOK'
      BY SchedulerStep, NextTypeOK DEF LifecycleTypeOK
    <2> QED BY <2>1, NextPipelineType, NothingBeforeLaunchKept DEF LifecycleTypeOK
  <1> QED BY <1>1, <1>2, PTL DEF Spec

(* Whatever its tasks do, in whatever order, lost or delivered again, the  *)
(* pipeline stays within the outcomes the scheduler counts on.             *)
THEOREM LifecycleImplementsScheduler ==
    ASSUME Stages = Nat
    PROVE  Spec => ImplementsScheduler
  <1>1. Init => SchedulerInit
    BY DEF Init
  <1>2. LifecycleTypeOK /\ NothingBeforeLaunch /\ [Next]_vars => [SchedulerNext]_schedulerVars
    BY SchedulerStep
  <1> QED BY <1>1, <1>2, LifecycleTypeCorrect, PTL DEF Spec, ImplementsScheduler, SchedulerSpec

(* With SchedulerImplementsContract: so do the runs whose tasks are        *)
(* modelled keep the contract, and with LaunchedAtMostOnceHolds their      *)
(* comparison is launched once.                                            *)
THEOREM LifecycleImplementsContract ==
    ASSUME Stages = Nat
    PROVE  Spec => ImplementsContract /\ []LaunchedAtMostOnce /\ [](TypeOK /\ SchedulerInvariant)
  <1>1. Spec => SchedulerSpec
    BY LifecycleImplementsScheduler DEF ImplementsScheduler
  <1> QED BY <1>1, SchedulerImplementsContract, LaunchedAtMostOnceHolds, SchedulerInvariantHolds, PTL

-------------------------------------------------------------------------------
(* What the tasks need and leave                                           *)

(* A step of the scheduler, to the pipeline.                               *)
Outside ==
    \/ SchedulerOnly \/ CleanProject \/ UNCHANGED vars
    \/ \E c \in Trigger : QueueAndClear(c)
    \/ \E r \in Run : LaunchRun(r) \/ CascadeDelete(r) \/ RefuseDelete(r)

(* It leaves the tasks alone, launches apart, and completes no run.        *)
LEMMA OutsideLeaves ==
    ASSUME LifecycleTypeOK, Outside, NEW q \in Run
    PROVE  /\ parts' = parts /\ agg' = agg /\ resultType' = resultType /\ pairs' = pairs
           /\ \A j \in JobStep \ {"create"} : jobs'[q][j] = jobs[q][j]
           /\ state'[q] = "completed" => state[q] = "completed"
           /\ launched[q] > 0 => launched'[q] > 0
           /\ \/ rows'[q].scores = rows[q].scores
              \/ ~Exists(q)' /\ rows'[q].scores = 0
           /\ rows'[q] = rows[q] \/ ~Exists(q)' \/ project' = "cleaned"
  <1> DEFINE Same == rows'[q] = rows[q] /\ UNCHANGED <<parts, agg, resultType, pairs>>
             Jobs == \A j \in JobStep \ {"create"} : jobs'[q][j] = jobs[q][j]
  <1> USE DEF LifecycleTypeOK, TypeOK, PipelineTypeOK, dataVars, runVars, ownVars
  <1>1. CASE SchedulerOnly
    <2>1. launched' = launched /\ (state'[q] = "completed" => state[q] = "completed")
      BY <1>1 DEF SchedulerOnly, Client, PostRun, DeleteRun, UploadReady, MarkProject, SaveRun, SendCheck,
         CountReady, SendRemoveProject, RemoveProjectCaches, Fault, LoseCheck, RedeliverCheck, LosePrerun,
         LoseDelete, RedeliverPrerun, LoseRemoveProject, RedeliverRemoveProject, CheckUploads, NoUploads,
         RejectUploads, FailRuns, CheckDone, SendPrerun, PrerunCache, PrerunLock, PrerunActivate, PrerunCommit
    <2> QED BY <1>1, <2>1 DEF SchedulerOnly, pipelineVars
  <1>2. CASE CleanProject
    <2>1. rows'[q].scores = rows[q].scores
      BY <1>2 DEF CleanProject
    <2>2. project' = "cleaned" /\ UNCHANGED <<state, launched, jobs, parts, agg, resultType, pairs>>
      BY <1>2 DEF CleanProject, RemoveProjectData
    <2> QED BY <2>1, <2>2
  <1>3. CASE UNCHANGED vars
    BY <1>3 DEF vars, schedulerVars, pipelineVars
  <1>4. ASSUME NEW c \in Trigger, QueueAndClear(c)
        PROVE  Same /\ Jobs /\ launched' = launched /\ (state'[q] = "completed" => state[q] = "completed")
    BY <1>4 DEF QueueAndClear, QueueRuns
  <1>5. ASSUME NEW r \in Run, LaunchRun(r)
        PROVE  Same /\ Jobs /\ (launched[q] > 0 => launched'[q] > 0) /\ state' = state
    <2>1. Jobs
      BY <1>5 DEF LaunchRun, Send
    <2>2. launched' = [launched EXCEPT ![r] = @ + 1] /\ launched[r] + 1 > 0
      BY <1>5 DEF LaunchRun, PrerunLaunch
    <2>3. launched[q] > 0 => launched'[q] > 0
      BY <2>2
    <2> QED BY <1>5, <2>1, <2>3 DEF LaunchRun, PrerunLaunch
  <1>6. ASSUME NEW r \in Run, CascadeDelete(r)
        PROVE  /\ rows' = [rows EXCEPT ![r] = NoRows] /\ state' = [state EXCEPT ![r] = "deleted"]
               /\ UNCHANGED <<launched, jobs, parts, agg, resultType, pairs>>
    BY <1>6 DEF CascadeDelete, DeleteRow
  <1>7. ASSUME NEW r \in Run, RefuseDelete(r)
        PROVE  UNCHANGED pipelineVars /\ UNCHANGED runVars
    BY <1>7 DEF RefuseDelete, DeleteRefused
  <1>8. ASSUME NEW r \in Run, CascadeDelete(r), r = q
        PROVE  ~Exists(q)' /\ rows'[q].scores = 0
    BY <1>6, <1>8 DEF Exists, RunState, NoRows
  <1> QED BY <1>1, <1>2, <1>3, <1>4, <1>5, <1>6, <1>7, <1>8 DEF Outside, pipelineVars

(* Results only get more with a step of the pipeline.                      *)
LEMMA PipelineAdds ==
    ASSUME LifecycleTypeOK, NEW r \in Run, PipelineStep(r) \/ PipelineFault(r)
    PROVE  rows' \in {rows, [rows EXCEPT ![r].scores = @ + 1], [rows EXCEPT ![r].groups = @ + 1],
                     [rows EXCEPT ![r].perms = @ + 1]}
  <1>1. ASSUME NEW a \in Attempt, NEW p \in Package, ComputeStep(r, a, p) \/ ComputeFails(r, a, p)
        PROVE  rows' = rows
    BY <1>1 DEF ComputeStep, ComputeInactive, ComputeStale, Compute, ComputeOverLimit, ComputeStore, ComputeFails
  <1>2. ASSUME NEW a \in Attempt, AggregateStep(r, a) \/ AggregateFails(r, a)
        PROVE  rows' \in {rows, [rows EXCEPT ![r].scores = @ + 1]}
    BY <1>2 DEF AggregateStep, AggFails, ChordReturns, AggregateMissing, AggregateMerge, AggregateStore,
                AggregateSend, AggregateFails
  <1>3. CASE JobsStep(r)
    BY <1>3 DEF JobsStep, CreateJobs, CreateErrback, DispatchChord, Solve, SolveOverLimit, SaveGroups,
                SendPermute, Permute, SendComplete, MarkComplete, CacheComplete, RunFailed
  <1>4. CASE CreateJobsFails(r) \/ TaskFails(r) \/ LoseTask(r) \/ RedeliverTask(r)
    BY <1>4 DEF CreateJobsFails, TaskFails, LoseTask, RedeliverTask
  <1> QED BY <1>1, <1>2, <1>3, <1>4 DEF PipelineStep, PipelineFault

(* Deleted runs and removed projects do not come back.                     *)
LEMMA GoneStays ==
    ASSUME Stages = Nat, LifecycleTypeOK, NothingBeforeLaunch, SchedulerInvariant, [Next]_vars,
           NEW q \in Run, launched[q] > 0
    PROVE  /\ ~Exists(q) => ~Exists(q)'
           /\ project = "cleaned" => project' = "cleaned"
  <1>1. [SchedulerNext]_schedulerVars /\ TypeOK
    BY SchedulerStep DEF LifecycleTypeOK
  <1>2. ASSUME ~Exists(q) PROVE ~Exists(q)'
    <2>1. prerun[q]["send"] \in Nat /\ launched[q] \in Nat
      BY <1>1 DEF TypeOK, PrerunStep
    <2>2. state[q] = "deleted"
      BY <1>1, <1>2, <2>1 DEF TypeOK, RowState, Exists, SchedulerInvariant, OneStarter
    <2>3. [Contract!ContractNext]_<<state, launched>>
      BY <1>1, ContractStep
    <2>4. state'[q] = "deleted"
      BY <1>1, <2>2, <2>3 DEF TypeOK, Contract!ContractNext, Contract!Create, Contract!Begin, Contract!Launch,
         Contract!Conclude, Contract!Remove, Contract!Enqueue, Contract!Reject
    <2> QED BY <2>4 DEF Exists, RunState
  <1>3. ASSUME project = "cleaned" PROVE project' = "cleaned"
    BY <1>1, <1>3 DEF SchedulerNext, schedulerVars, dataVars, Client, PostRun, DeleteRun, UploadReady, MarkProject,
       View, SaveRun, SendCheck, DeleteRow, CountReady, SendRemoveProject, RemoveProject, RemoveProjectCaches,
       RemoveProjectData, Fault, LoseCheck, RedeliverCheck, LosePrerun, LoseDelete, RedeliverPrerun,
       LoseRemoveProject, RedeliverRemoveProject, Check, CheckUploads, NoUploads, RejectUploads, FailRuns,
       QueueRuns, CheckDone, SendPrerun, Prerun, PrerunCache, PrerunLock, PrerunActivate, PrerunCommit,
       PrerunLaunch, PipelineOutcome, DeleteRefused
  <1> QED BY <1>2, <1>3

(* So what a task of a launched run has left stays for the next.           *)
LEMMA ResultsStay ==
    ASSUME Stages = Nat, LifecycleTypeOK, NothingBeforeLaunch, SchedulerInvariant, [Next]_vars,
           NEW q \in Run, launched[q] > 0
    PROVE  /\ HasScores(q) => HasScores(q)'
           /\ HasGroups(q) => HasGroups(q)'
           /\ HasPerms(q) => HasPerms(q)'
           /\ HasResult(q) => HasResult(q)'
           /\ resultType' = resultType
  <1>1. /\ ~Exists(q) => ~Exists(q)'
        /\ project = "cleaned" => project' = "cleaned"
    BY GoneStays
  <1>2. CASE Outside
    <2>1. /\ rows'[q].scores = rows[q].scores \/ ~Exists(q)'
          /\ rows'[q] = rows[q] \/ ~Exists(q)' \/ project' = "cleaned"
          /\ resultType' = resultType
      BY <1>2, OutsideLeaves
    <2> QED BY <1>1, <2>1 DEF HasScores, HasGroups, HasPerms, HasResult
  <1>3. ASSUME NEW r \in Run, PipelineStep(r) \/ PipelineFault(r)
        PROVE  /\ rows'[q].scores >= rows[q].scores
               /\ rows'[q].groups >= rows[q].groups
               /\ rows'[q].perms >= rows[q].perms
               /\ resultType' = resultType
    <2>1. rows \in [Run -> [scores : Nat, groups : Nat, perms : Nat]]
      BY DEF LifecycleTypeOK, PipelineTypeOK
    <2>2. rows[q].scores \in Nat /\ rows[q].groups \in Nat /\ rows[q].perms \in Nat
      BY <2>1
    <2>3. rows' \in {rows, [rows EXCEPT ![r].scores = @ + 1], [rows EXCEPT ![r].groups = @ + 1],
                    [rows EXCEPT ![r].perms = @ + 1]}
      BY <1>3, PipelineAdds
    <2>4. resultType' = resultType
      BY <1>3, OneRunAtATime DEF Elsewhere
    <2> QED BY <2>1, <2>2, <2>3, <2>4
  <1>4. rows[q].scores \in Nat /\ rows[q].groups \in Nat /\ rows[q].perms \in Nat
    <2>1. rows \in [Run -> [scores : Nat, groups : Nat, perms : Nat]]
      BY DEF LifecycleTypeOK, PipelineTypeOK
    <2> QED BY <2>1
  <1>5. rows'[q].scores \in Nat /\ rows'[q].groups \in Nat /\ rows'[q].perms \in Nat
    <2>1. rows' \in [Run -> [scores : Nat, groups : Nat, perms : Nat]]
      BY NextPipelineType DEF PipelineTypeOK
    <2> QED BY <2>1
  <1>6. ASSUME NEW r \in Run, PipelineStep(r) \/ PipelineFault(r)
        PROVE  /\ HasScores(q) => HasScores(q)'
               /\ HasGroups(q) => HasGroups(q)'
               /\ HasPerms(q) => HasPerms(q)'
               /\ resultType' = resultType
    <2>1. /\ rows'[q].scores >= rows[q].scores
          /\ rows'[q].groups >= rows[q].groups
          /\ rows'[q].perms >= rows[q].perms
          /\ resultType' = resultType
      BY <1>3, <1>6
    <2> QED BY <1>1, <1>4, <1>5, <2>1 DEF HasScores, HasGroups, HasPerms
  <1>7. Outside \/ \E r \in Run : PipelineStep(r) \/ PipelineFault(r)
    BY DEF Next, Outside
  <1> QED BY <1>2, <1>6, <1>7 DEF HasResult

(* A step leaves every task of the run what it needs, if it sends no task  *)
(* and completes nothing that lacks it.                                    *)
LEMMA DeliveredKept ==
    ASSUME Stages = Nat, LifecycleTypeOK, NothingBeforeLaunch, SchedulerInvariant, [Next]_vars,
           NEW q \in Run, launched[q] > 0, Delivered(q),
           \A j \in JobStep : jobs'[q][j] > 0 => jobs[q][j] > 0 \/ Needs(q, j)',
           \A a \in Attempt : agg'[q][a] \in {"stored", "sent"} => agg[q][a] \in {"stored", "sent"} \/ HasScores(q)',
           state'[q] = "completed" => state[q] = "completed" \/ Needs(q, "completed")'
    PROVE  Delivered(q)'
  <1>1. ASSUME NEW j, Needs(q, j) PROVE Needs(q, j)'
    BY <1>1, ResultsStay DEF Needs
  <1>2. HasScores(q) => HasScores(q)'
    BY ResultsStay
  <1> QED BY <1>1, <1>2 DEF Delivered

(* The steps of the aggregation do so,                                    *)
LEMMA AggregateDelivers ==
    ASSUME Stages = Nat, LifecycleTypeOK, NothingBeforeLaunch, SchedulerInvariant, [Next]_vars,
           NEW r \in Run, launched[r] > 0, Delivered(r), NEW a \in Attempt,
           AggregateStep(r, a) \/ AggregateFails(r, a)
    PROVE  Delivered(r)'
  <1> DEFINE JobsFine == \A j \in JobStep : jobs'[r][j] > 0 => jobs[r][j] > 0 \/ Needs(r, j)'
             AggFine  == \A b \in Attempt : agg'[r][b] \in {"stored", "sent"} =>
                            agg[r][b] \in {"stored", "sent"} \/ HasScores(r)'
  <1>0. /\ jobs \in [Run -> [JobStep -> Nat]] /\ agg \in [Run -> [Attempt -> AggStep]]
        /\ HasScores(r) => HasScores(r)'
        /\ resultType' = resultType /\ resultType \in ResultType
    BY ResultsStay, LifecycleAssumption DEF LifecycleTypeOK, PipelineTypeOK
  <1>1. state' = state
    BY DEF AggregateStep, ChordReturns, AggregateMissing, AggregateMerge, AggregateStore, AggregateSend,
           AggregateFails, schedulerVars
  <1>2. ASSUME NEW s, AggTo(r, a, s), s \in {"stored", "sent"} => agg[r][a] \in {"stored", "sent"} \/ HasScores(r)'
        PROVE  AggFine
    BY <1>0, <1>2 DEF AggTo
  <1>3. Needs(r, "failed")'
    BY DEF Needs
  <1>4. ASSUME NEW k \in JobStep, Send(r, k), Needs(r, k)' PROVE JobsFine
    BY <1>0, <1>4 DEF Send
  <1>5. JobsFine /\ AggFine
    <2>1. AggFails(r, a) => JobsFine /\ AggFine
      BY <1>2, <1>3, <1>4 DEF AggFails, JobStep
    <2>2. CASE ChordReturns(r, a) \/ AggregateMissing(r, a) \/ AggregateMerge(r, a) \/ AggregateFails(r, a)
      <3>1. UNCHANGED jobs => JobsFine
        OBVIOUS
      <3>2. \A s \in {"queued", "failed", "merged", "retry"} : AggTo(r, a, s) => AggFine
        BY <1>2
      <3> HIDE DEF JobsFine, AggFine
      <3> QED BY <1>3, <1>4, <2>1, <2>2, <3>1, <3>2 DEF ChordReturns, AggregateMissing, AggregateMerge,
                AggregateFails, JobStep
    <2>3. CASE AggregateStore(r, a)
      <3>1. CASE Exists(r)
        <4>1. rows' = [rows EXCEPT ![r].scores = @ + 1] /\ AggTo(r, a, "stored") /\ UNCHANGED jobs
          BY <2>3, <3>1 DEF AggregateStore
        <4>2. rows \in [Run -> [scores : Nat, groups : Nat, perms : Nat]]
          BY DEF LifecycleTypeOK, PipelineTypeOK
        <4>3. rows'[r].scores > 0
          BY <4>1, <4>2
        <4> QED BY <1>2, <4>1, <4>3 DEF HasScores
      <3>2. CASE ~Exists(r)
        BY <2>1, <2>3, <3>2 DEF AggregateStore
      <3> QED BY <3>1, <3>2
    <2>4. CASE AggregateSend(r, a)
      <3>1. HasScores(r)'
        BY <1>0, <2>4 DEF AggregateSend, AggAt, Delivered
      <3>2. AggFine
        BY <1>2, <2>4, <3>1 DEF AggregateSend
      <3>3. resultType = "similarity_scores" => Needs(r, "complete")'
        BY <1>0, <3>1 DEF Needs, HasResult
      <3>4. resultType # "similarity_scores" => Needs(r, "solver")'
        BY <1>0, <3>1 DEF Needs
      <3>5. JobsFine
        BY <1>4, <2>4, <3>3, <3>4 DEF AggregateSend, JobStep
      <3> QED BY <3>2, <3>5
    <2> QED BY <2>2, <2>3, <2>4 DEF AggregateStep
  <1> QED BY <1>1, <1>5, DeliveredKept

(* those of the single tasks,                                              *)
LEMMA JobsDeliver ==
    ASSUME Stages = Nat, LifecycleTypeOK, NothingBeforeLaunch, SchedulerInvariant, [Next]_vars,
           NEW r \in Run, launched[r] > 0, Delivered(r), JobsStep(r)
    PROVE  Delivered(r)'
  <1> DEFINE JobsFine  == \A j \in JobStep : jobs'[r][j] > 0 => jobs[r][j] > 0 \/ Needs(r, j)'
             AggFine   == \A a \in Attempt : agg'[r][a] \in {"stored", "sent"} =>
                             agg[r][a] \in {"stored", "sent"} \/ HasScores(r)'
             StateFine == state'[r] = "completed" => state[r] = "completed" \/ Needs(r, "completed")'
  <1>0. /\ jobs \in [Run -> [JobStep -> Nat]] /\ agg \in [Run -> [Attempt -> AggStep]]
        /\ state \in [Run -> RowState]
        /\ HasScores(r) => HasScores(r)'
        /\ HasGroups(r) => HasGroups(r)'
        /\ HasPerms(r) => HasPerms(r)'
        /\ HasResult(r) => HasResult(r)'
        /\ resultType' = resultType /\ resultType \in ResultType
    BY ResultsStay, LifecycleAssumption DEF LifecycleTypeOK, TypeOK, PipelineTypeOK
  <1>1. ASSUME NEW j \in JobStep, NEW k \in JobStep, Step(r, j, k), j # k, Needs(r, k)' PROVE JobsFine
    BY <1>0, <1>1 DEF Step
  <1>2. ASSUME NEW j \in JobStep, Done(r, j) PROVE JobsFine
    BY <1>0, <1>2 DEF Done
  <1>3. ASSUME NEW j \in JobStep, jobs[r][j] > 0 PROVE Needs(r, j)
    BY <1>3 DEF Delivered
  <1>4. UNCHANGED agg => AggFine
    OBVIOUS
  <1>5. UNCHANGED state => StateFine
    OBVIOUS
  <1> HIDE DEF JobsFine, AggFine, StateFine
  <1>6. CASE CreateJobs(r) \/ CreateErrback(r)
    <2>1. Needs(r, "dispatch")' /\ Needs(r, "errback")'
      BY DEF Needs
    <2>2. JobsFine /\ AggFine /\ StateFine
      BY <1>1, <1>2, <1>4, <1>5, <1>6, <2>1 DEF CreateJobs, CreateErrback, JobStep, schedulerVars
    <2> QED BY <2>2, DeliveredKept DEF JobsFine, AggFine, StateFine
  <1>7. CASE DispatchChord(r)
    <2>1. AggFine
      <3>1. PICK a \in Attempt : agg' = [agg EXCEPT ![r][a] = "waiting"]
        BY <1>7 DEF DispatchChord
      <3> QED BY <1>0, <3>1 DEF AggFine
    <2>2. JobsFine /\ StateFine
      BY <1>2, <1>5, <1>7 DEF DispatchChord, JobStep, schedulerVars
    <2> QED BY <2>1, <2>2, DeliveredKept DEF JobsFine, AggFine, StateFine
  <1>8. CASE Solve(r)
    <2>1. Needs(r, "save")'
      BY <1>0, <1>3, <1>8 DEF Solve, Needs, JobStep
    <2>2. JobsFine /\ AggFine /\ StateFine
      BY <1>1, <1>4, <1>5, <1>8, <2>1 DEF Solve, JobStep, schedulerVars
    <2> QED BY <2>2, DeliveredKept DEF JobsFine, AggFine, StateFine
  <1>9. CASE SolveOverLimit(r) \/ RunFailed(r)
    <2>1. StateFine
      BY <1>0, <1>9 DEF SolveOverLimit, RunFailed, MarkFailure, StateFine
    <2>2. JobsFine /\ AggFine
      BY <1>2, <1>4, <1>9 DEF SolveOverLimit, RunFailed, JobStep
    <2> QED BY <2>1, <2>2, DeliveredKept DEF JobsFine, AggFine, StateFine
  <1>10. CASE SaveGroups(r)
    <2>1. Exists(r) => HasGroups(r)'
      <3>1. rows \in [Run -> [scores : Nat, groups : Nat, perms : Nat]]
        BY DEF LifecycleTypeOK, PipelineTypeOK
      <3>2. Exists(r) => rows' = [rows EXCEPT ![r].groups = @ + 1]
        BY <1>10 DEF SaveGroups
      <3>3. Exists(r) => rows'[r].groups > 0
        BY <3>1, <3>2
      <3> QED BY <3>3 DEF HasGroups
    <2>2. Exists(r) => Needs(r, "saved")'
      BY <1>0, <1>3, <1>10, <2>1 DEF SaveGroups, Needs, JobStep
    <2>3. JobsFine /\ AggFine /\ StateFine
      BY <1>1, <1>2, <1>4, <1>5, <1>10, <2>2 DEF SaveGroups, JobStep, schedulerVars
    <2> QED BY <2>3, DeliveredKept DEF JobsFine, AggFine, StateFine
  <1>11. CASE SendPermute(r)
    <2>0. Needs(r, "saved")
      BY <1>3, <1>11 DEF SendPermute, JobStep
    <2>1. resultType = "permutations" => Needs(r, "permute")'
      BY <1>0, <2>0 DEF Needs
    <2>2. resultType # "permutations" => Needs(r, "complete")'
      BY <1>0, <2>0 DEF Needs, HasResult
    <2>3. JobsFine /\ AggFine /\ StateFine
      BY <1>1, <1>4, <1>5, <1>11, <2>1, <2>2 DEF SendPermute, JobStep, schedulerVars
    <2> QED BY <2>3, DeliveredKept DEF JobsFine, AggFine, StateFine
  <1>12. CASE Permute(r)
    <2> DEFINE Fine == Exists(r) /\ rows[r].groups > 0 /\ project # "cleaned"
    <2>1. Fine => HasPerms(r)'
      <3>1. rows \in [Run -> [scores : Nat, groups : Nat, perms : Nat]]
        BY DEF LifecycleTypeOK, PipelineTypeOK
      <3>2. Fine => rows' = [rows EXCEPT ![r].perms = @ + 1]
        BY <1>12 DEF Permute
      <3>3. Fine => rows'[r].perms > 0
        BY <3>1, <3>2
      <3> QED BY <3>3 DEF HasPerms
    <2>2. Fine => Needs(r, "permuted")'
      BY <1>0, <1>3, <1>12, <2>1 DEF Permute, Needs, JobStep
    <2>3. JobsFine /\ AggFine /\ StateFine
      BY <1>1, <1>2, <1>4, <1>5, <1>12, <2>2 DEF Permute, JobStep, schedulerVars
    <2> QED BY <2>3, DeliveredKept DEF JobsFine, AggFine, StateFine
  <1>13. CASE SendComplete(r)
    <2>0. Needs(r, "permuted")
      BY <1>3, <1>13 DEF SendComplete, JobStep
    <2>1. Needs(r, "complete")'
      BY <1>0, <2>0 DEF Needs, HasResult
    <2>2. JobsFine /\ AggFine /\ StateFine
      BY <1>1, <1>4, <1>5, <1>13, <2>1 DEF SendComplete, JobStep, schedulerVars
    <2> QED BY <2>2, DeliveredKept DEF JobsFine, AggFine, StateFine
  <1>14. CASE MarkComplete(r)
    <2>1. Needs(r, "complete")
      BY <1>3, <1>14 DEF MarkComplete, JobStep
    <2>2. Needs(r, "completed")'
      BY <1>0, <2>1 DEF Needs
    <2>3. JobsFine /\ AggFine /\ StateFine
      BY <1>1, <1>4, <1>14, <2>2 DEF MarkComplete, JobStep, StateFine
    <2> QED BY <2>3, DeliveredKept DEF JobsFine, AggFine, StateFine
  <1>15. CASE CacheComplete(r)
    <2>1. JobsFine /\ AggFine /\ StateFine
      BY <1>2, <1>4, <1>5, <1>15 DEF CacheComplete, JobStep
    <2> QED BY <2>1, DeliveredKept DEF JobsFine, AggFine, StateFine
  <1> QED BY <1>6, <1>7, <1>8, <1>9, <1>10, <1>11, <1>12, <1>13, <1>14, <1>15 DEF JobsStep

(* those of the compute tasks and what may go wrong,                       *)
LEMMA ComputeDelivers ==
    ASSUME Stages = Nat, LifecycleTypeOK, NothingBeforeLaunch, SchedulerInvariant, [Next]_vars,
           NEW r \in Run, launched[r] > 0, Delivered(r), NEW a \in Attempt, NEW p \in Package,
           ComputeStep(r, a, p) \/ ComputeFails(r, a, p)
    PROVE  Delivered(r)'
  <1>1. UNCHANGED <<jobs, agg>>
    BY DEF ComputeStep, ComputeInactive, ComputeStale, Compute, ComputeOverLimit, ComputeStore, ComputeFails
  <1>2. state'[r] = "completed" => state[r] = "completed"
    BY DEF ComputeStep, ComputeInactive, ComputeStale, Compute, ComputeOverLimit, ComputeStore, ComputeFails,
           MarkFailure, LifecycleTypeOK, TypeOK, schedulerVars
  <1> QED BY <1>1, <1>2, DeliveredKept

(* A task that fails, is lost or is delivered again queues nothing whose input is missing. *)
LEMMA FaultsDeliver ==
    ASSUME Stages = Nat, LifecycleTypeOK, NothingBeforeLaunch, SchedulerInvariant, [Next]_vars,
           NEW r \in Run, launched[r] > 0, Delivered(r),
           CreateJobsFails(r) \/ TaskFails(r) \/ LoseTask(r) \/ RedeliverTask(r)
    PROVE  Delivered(r)'
  <1> DEFINE JobsFine == \A j \in JobStep : jobs'[r][j] > 0 => jobs[r][j] > 0 \/ Needs(r, j)'
             AggFine  == \A a \in Attempt : agg'[r][a] \in {"stored", "sent"} =>
                            agg[r][a] \in {"stored", "sent"} \/ HasScores(r)'
  <1>0. /\ jobs \in [Run -> [JobStep -> Nat]] /\ agg \in [Run -> [Attempt -> AggStep]]
        /\ HasScores(r) => HasScores(r)'
        /\ HasResult(r) => HasResult(r)'
        /\ resultType' = resultType
    BY ResultsStay DEF LifecycleTypeOK, PipelineTypeOK
  <1>1. state' = state
    BY DEF CreateJobsFails, TaskFails, LoseTask, RedeliverTask, schedulerVars
  <1>2. AggFine
    <2>1. ASSUME NEW a \in Attempt, NEW s \in {"failed", "retry"}, AggTo(r, a, s) PROVE AggFine
      BY <1>0, <2>1 DEF AggTo
    <2> HIDE DEF AggFine
    <2>2. UNCHANGED agg => AggFine
      BY DEF AggFine
    <2> QED BY <2>1, <2>2 DEF CreateJobsFails, TaskFails, LoseTask, RedeliverTask
  <1>3. ASSUME NEW j \in JobStep, Done(r, j) PROVE JobsFine
    BY <1>0, <1>3 DEF Done
  <1>4. ASSUME NEW j \in JobStep, Step(r, j, "errback") PROVE JobsFine
    BY <1>0, <1>4 DEF Step, Needs, JobStep
  <1>5. ASSUME NEW j \in DOMAIN MessageOf, jobs[r][j] > 0, Send(r, MessageOf[j]) PROVE JobsFine
    <2>1. Needs(r, j)
      BY <1>5 DEF Delivered, MessageOf, JobStep
    <2>2. Needs(r, MessageOf[j])'
      BY <1>0, <1>5, <2>1 DEF Needs, MessageOf
    <2>3. MessageOf[j] \in JobStep
      BY <1>5 DEF MessageOf, JobStep
    <2> QED BY <1>0, <1>5, <2>2, <2>3 DEF Send
  <1>6. UNCHANGED jobs => JobsFine
    OBVIOUS
  <1> HIDE DEF JobsFine, AggFine
  <1>7. JobsFine
    BY <1>3, <1>4, <1>5, <1>6 DEF CreateJobsFails, TaskFails, LoseTask, RedeliverTask, JobStep
  <1> QED BY <1>1, <1>2, <1>7, DeliveredKept DEF JobsFine, AggFine

(* and the scheduler's.                                                    *)
LEMMA NextDelivers ==
    ASSUME Stages = Nat, LifecycleTypeOK, NothingBeforeLaunch, SchedulerInvariant, [Next]_vars,
           \A r \in Run : Delivered(r)
    PROVE  \A r \in Run : Delivered(r)'
  <1> SUFFICES ASSUME NEW q \in Run PROVE Delivered(q)'
    OBVIOUS
  <1>1. CASE launched'[q] = 0
    <2>1. Untouched(q)'
      BY <1>1, NothingBeforeLaunchKept DEF NothingBeforeLaunch
    <2> QED BY <2>1 DEF Untouched, Delivered
  <1>2. CASE launched[q] = 0 /\ launched'[q] # 0
    <2>1. Untouched(q)
      BY <1>2 DEF NothingBeforeLaunch
    <2>2. Outside
      <3>1. ~(\E r \in Run : PipelineStep(r) \/ PipelineFault(r))
        BY <1>2, OneRunAtATime DEF Elsewhere
      <3> QED BY <3>1 DEF Next, Outside
    <2>3. /\ agg' = agg
          /\ \A j \in JobStep \ {"create"} : jobs'[q][j] = jobs[q][j]
          /\ state'[q] = "completed" => state[q] = "completed"
      BY <2>2, OutsideLeaves
    <2>4. Needs(q, "create")'
      BY DEF Needs
    <2>5. \A j \in JobStep : jobs'[q][j] > 0 => j = "create"
      BY <2>1, <2>3 DEF Untouched
    <2> QED BY <2>1, <2>3, <2>4, <2>5 DEF Untouched, Delivered
  <1>3. CASE launched[q] # 0
    <2>0. launched[q] > 0
      BY <1>3 DEF LifecycleTypeOK, TypeOK
    <2>1. CASE Outside
      <3>1. Needs(q, "create")'
        BY DEF Needs
      <3>2. /\ agg' = agg
            /\ \A j \in JobStep \ {"create"} : jobs'[q][j] = jobs[q][j]
            /\ state'[q] = "completed" => state[q] = "completed"
        BY <2>1, OutsideLeaves
      <3>3. \A j \in JobStep : jobs'[q][j] > 0 => jobs[q][j] > 0 \/ Needs(q, j)'
        BY <3>1, <3>2
      <3> QED BY <2>0, <3>2, <3>3, DeliveredKept
    <2>2. ASSUME NEW r \in Run, PipelineStep(r) \/ PipelineFault(r), r # q PROVE Delivered(q)'
      <3>1. jobs'[q] = jobs[q] /\ agg'[q] = agg[q] /\ state'[q] = state[q]
        BY <2>2, OneRunAtATime DEF Elsewhere
      <3> QED BY <2>0, <3>1, DeliveredKept
    <2>3. CASE PipelineStep(q) \/ PipelineFault(q)
      BY <2>0, <2>3, AggregateDelivers, JobsDeliver, ComputeDelivers, FaultsDeliver
         DEF PipelineStep, PipelineFault
    <2> QED BY <2>1, <2>2, <2>3 DEF Next, Outside
  <1> QED BY <1>1, <1>2, <1>3

(* Every task finds what the tasks before it left, in every reachable      *)
(* state (comparing.py:475-521, solver.py:15-49, permutation.py:18-104).   *)
THEOREM LifecycleInvariantHolds ==
    ASSUME Stages = Nat
    PROVE  Spec => []LifecycleInvariant
  <1>1. Init => \A r \in Run : Delivered(r)
    <2> SUFFICES ASSUME Init, NEW r \in Run PROVE Delivered(r)
      OBVIOUS
    <2>1. \A j \in JobStep : jobs[r][j] = 0
      BY DEF Init
    <2>2. \A a \in Attempt : agg[r][a] = "none"
      BY DEF Init
    <2>3. state[r] = "unposted"
      BY DEF Init, SchedulerInit
    <2> QED BY <2>1, <2>2, <2>3 DEF Delivered
  <1>2. LifecycleTypeOK /\ NothingBeforeLaunch /\ SchedulerInvariant /\ [Next]_vars
            /\ (\A r \in Run : Delivered(r))
        => (\A r \in Run : Delivered(r))'
    BY NextDelivers
  <1>3. Spec => []SchedulerInvariant
    BY LifecycleImplementsContract, PTL
  <1> QED BY <1>1, <1>2, <1>3, LifecycleTypeCorrect, PTL DEF Spec, LifecycleInvariant

(* A completed run has its result, whatever messages were lost or came     *)
(* again on the way, unless its project was removed                        *)
(* (views/run/results.py:41-66).                                           *)
THEOREM CompletedRunHasResultHolds ==
    ASSUME Stages = Nat
    PROVE  Spec => []CompletedRunHasResult
  <1>1. LifecycleTypeOK /\ LifecycleInvariant => CompletedRunHasResult
    <2> SUFFICES ASSUME LifecycleTypeOK, LifecycleInvariant, project # "cleaned",
                        NEW r \in Run, state[r] = "completed"
                 PROVE  CASE resultType = "similarity_scores" -> rows[r].scores > 0
                          [] resultType = "groups"            -> rows[r].groups > 0
                          [] resultType = "permutations"      -> rows[r].perms > 0
      BY DEF CompletedRunHasResult
    <2>1. Exists(r)
      BY DEF Exists, RunState
    <2>2. Needs(r, "completed")
      BY DEF LifecycleInvariant, Delivered
    <2>3. resultType \in ResultType
      BY LifecycleAssumption DEF LifecycleTypeOK, PipelineTypeOK
    <2>4. resultType = "similarity_scores" => rows[r].scores > 0
      BY <2>1, <2>2 DEF Needs, HasScores
    <2>5. resultType = "groups" => rows[r].groups > 0
      BY <2>1, <2>2 DEF Needs, HasResult, HasGroups
    <2>6. resultType = "permutations" => rows[r].perms > 0
      BY <2>1, <2>2 DEF Needs, HasResult, HasPerms
    <2> QED BY <2>3, <2>4, <2>5, <2>6 DEF ResultType
  <1> QED BY <1>1, LifecycleTypeCorrect, LifecycleInvariantHolds, PTL

-------------------------------------------------------------------------------
(* Without redelivered pipeline messages: one task at a time               *)

OnlyTask(r, k) == \A i \in JobStep : jobs'[r][i] = IF i = k THEN 1 ELSE 0
NoTask(r)      == \A i \in JobStep : jobs'[r][i] = 0

(* The only task of a run is replaced by the only task, or by none.        *)
LEMMA TheTaskSteps ==
    ASSUME PipelineTypeOK, NEW r \in Run, OneTask(r), NEW j \in JobStep, jobs[r][j] > 0
    PROVE  /\ \A i \in JobStep \ {j} : jobs[r][i] = 0
           /\ \A k \in JobStep : k # j /\ Step(r, j, k) => OnlyTask(r, k)
           /\ Done(r, j) => NoTask(r)
  <1>1. jobs \in [Run -> [JobStep -> Nat]]
    BY DEF PipelineTypeOK
  <1>2. jobs[r][j] = 1 /\ \A i \in JobStep \ {j} : jobs[r][i] = 0
    BY <1>1 DEF OneTask
  <1>3. ASSUME NEW k \in JobStep, k # j, Step(r, j, k) PROVE OnlyTask(r, k)
    BY <1>1, <1>2, <1>3 DEF Step, OnlyTask
  <1>4. ASSUME Done(r, j) PROVE NoTask(r)
    BY <1>1, <1>2, <1>4 DEF Done, NoTask
  <1> QED BY <1>2, <1>3, <1>4

(* While a chord is at work there is no other task.                        *)
LEMMA ChordAlone ==
    ASSUME PipelineTypeOK, NEW r \in Run, OneTask(r), OneChord(r), NEW a \in Attempt,
           agg[r][a] \in {"waiting", "queued", "retry", "merged", "stored"}
    PROVE  /\ \A j \in JobStep : jobs[r][j] = 0
           /\ \A b \in Attempt \ {a} : agg[r][b] = "none"
           /\ state[r] # "completed"
           /\ \A k \in JobStep : Send(r, k) => OnlyTask(r, k)
  <1>1. jobs \in [Run -> [JobStep -> Nat]]
    BY DEF PipelineTypeOK
  <1>2. ~Over(r) /\ agg[r][a] # "none"
    BY DEF Over
  <1>3. \A j \in JobStep : jobs[r][j] = 0
    BY <1>1, <1>2 DEF OneTask, OneChord
  <1>4. \A b \in Attempt \ {a} : agg[r][b] = "none"
    BY <1>2 DEF OneChord
  <1>5. ASSUME NEW k \in JobStep, Send(r, k) PROVE OnlyTask(r, k)
    BY <1>1, <1>3, <1>5 DEF Send, OnlyTask
  <1> QED BY <1>2, <1>3, <1>4, <1>5 DEF OneTask

(* After a step that leaves one task or none the invariant is left to show *)
(* for that task only.                                                     *)
LEMMA OneTaskAfter ==
    ASSUME NEW r \in Run, NEW k \in JobStep, OnlyTask(r, k),
           k \in Later => Over(r)', state'[r] = "completed" => k = "completed"
    PROVE  OneTask(r)'
  <1>1. \A j \in JobStep : jobs'[r][j] <= 1 /\ (jobs'[r][j] > 0 => j = k)
    BY DEF OnlyTask
  <1>2. Later \subseteq JobStep /\ (k = "completed" => k \in Later)
    BY DEF Later, JobStep
  <1>3. state'[r] = "completed" => Over(r)' /\ \A j \in JobStep \ {"completed"} : jobs'[r][j] = 0
    BY <1>2 DEF OnlyTask
  <1> QED BY <1>1, <1>2, <1>3 DEF OneTask

(* A run without a queued task or chord keeps the order of its stages trivially. *)
LEMMA NoTaskAfter ==
    ASSUME NEW r \in Run, NoTask(r), state'[r] = "completed" => Over(r)'
    PROVE  OneTask(r)'
  BY DEF NoTask, OneTask, Later, JobStep

(* The single tasks hand over to one task or one chord, never to two.      *)
LEMMA JobsSequential ==
    ASSUME LifecycleTypeOK, NEW r \in Run, OneTask(r), OneChord(r),
           JobsStep(r) \/ CreateJobsFails(r) \/ TaskFails(r)
    PROVE  OneTask(r)' /\ OneChord(r)'
  <1>0. /\ jobs \in [Run -> [JobStep -> Nat]] /\ agg \in [Run -> [Attempt -> AggStep]]
        /\ rows \in [Run -> [scores : Nat, groups : Nat, perms : Nat]]
        /\ state \in [Run -> RowState] /\ PipelineTypeOK
    BY DEF LifecycleTypeOK, TypeOK, PipelineTypeOK
  <1>1. ASSUME NEW j \in JobStep, jobs[r][j] > 0
        PROVE  /\ Over(r)
               /\ j \notin Later => \A a \in Attempt : agg[r][a] = "none"
               /\ state[r] = "completed" => j = "completed"
    BY <1>0, <1>1 DEF OneTask, OneChord, Over
  <1>2. CASE DispatchChord(r)
    <2>1. jobs[r]["dispatch"] > 0 /\ "dispatch" \in JobStep /\ "dispatch" \notin Later
      BY <1>2 DEF DispatchChord, JobStep, Later
    <2>2. \A b \in Attempt : agg[r][b] = "none"
      BY <1>1, <2>1
    <2>3. state[r] # "completed"
      BY <1>1, <2>1
    <2>4. NoTask(r)
      BY <1>0, <1>2, <2>1, TheTaskSteps DEF DispatchChord
    <2>5. OneTask(r)'
      BY <1>2, <2>3, <2>4, NoTaskAfter DEF DispatchChord, schedulerVars
    <2>6. PICK a \in Attempt :
             /\ agg' = [agg EXCEPT ![r][a] = "waiting"]
             /\ parts' = [parts EXCEPT ![r][a] = [p \in Package |-> [step |-> "queued", tries |-> 0]]]
      BY <1>2 DEF DispatchChord
    <2>7. agg'[r][a] = "waiting" /\ \A b \in Attempt \ {a} : agg'[r][b] = "none"
      BY <1>0, <2>2, <2>6
    <2>8. \A b \in Attempt, p \in Package : parts'[r][b][p].step \in {"queued", "counted"} => b = a
      BY <2>2, <2>6, <1>0 DEF OneChord, PipelineTypeOK
    <2>9. rows' = rows
      BY <1>2 DEF DispatchChord
    <2>10. ~(rows[r].scores > 0)
      BY <2>2 DEF OneChord
    <2>11. OneChord(r)'
      BY <2>4, <2>7, <2>8, <2>9, <2>10 DEF OneChord, NoTask
    <2> QED BY <2>5, <2>11
  <1>3. ASSUME UNCHANGED <<agg, parts>>, rows'[r].scores = rows[r].scores,
               NEW j \in JobStep, jobs[r][j] > 0,
               NoTask(r) \/ \E k \in JobStep : OnlyTask(r, k) /\ (k \in Later \/ j \notin Later)
        PROVE  OneChord(r)'
    BY <1>1, <1>3 DEF OneChord, NoTask, OnlyTask
  <1>4. UNCHANGED agg => (Over(r) => Over(r)')
    BY DEF Over
  <1>5. ASSUME UNCHANGED <<agg, parts>>, rows'[r].scores = rows[r].scores,
               NEW j \in JobStep, jobs[r][j] > 0, state'[r] = "completed" => state[r] = "completed" /\ j # "completed",
               Done(r, j) \/ \E k \in JobStep : k # j /\ Step(r, j, k) /\ (k \in Later \/ j \notin Later)
        PROVE  OneTask(r)' /\ OneChord(r)'
    <2>1. Over(r)' /\ state'[r] # "completed"
      BY <1>1, <1>4, <1>5
    <2>2. CASE Done(r, j)
      <3>1. NoTask(r)
        BY <1>0, <1>5, <2>2, TheTaskSteps
      <3> QED BY <1>3, <1>5, <2>1, <3>1, NoTaskAfter
    <2>3. ASSUME NEW k \in JobStep, k # j, Step(r, j, k), k \in Later \/ j \notin Later
          PROVE  OneTask(r)' /\ OneChord(r)'
      <3>1. OnlyTask(r, k)
        BY <1>0, <1>5, <2>3, TheTaskSteps
      <3> QED BY <1>3, <1>5, <2>1, <2>3, <3>1, OneTaskAfter
    <2> QED BY <1>5, <2>2, <2>3
  <1>6. CASE CreateJobs(r) \/ CreateErrback(r) \/ CreateJobsFails(r)
    BY <1>5, <1>6 DEF CreateJobs, CreateErrback, CreateJobsFails, JobStep, Later, schedulerVars
  <1>7. CASE Solve(r) \/ SendPermute(r) \/ SendComplete(r) \/ TaskFails(r)
    BY <1>5, <1>7 DEF Solve, SendPermute, SendComplete, TaskFails, JobStep, Later, schedulerVars
  <1>8. CASE SolveOverLimit(r) \/ RunFailed(r)
    <2>1. state'[r] = "completed" => state[r] = "completed"
      BY <1>0, <1>8 DEF SolveOverLimit, RunFailed, MarkFailure
    <2> QED BY <1>5, <1>8, <2>1 DEF SolveOverLimit, RunFailed, JobStep
  <1>9. CASE SaveGroups(r) \/ Permute(r)
    <2>1. rows'[r].scores = rows[r].scores
      BY <1>0, <1>9 DEF SaveGroups, Permute
    <2> QED BY <1>5, <1>9, <2>1 DEF SaveGroups, Permute, JobStep, Later, schedulerVars
  <1>10. CASE MarkComplete(r)
    <2>1. jobs[r]["complete"] > 0 /\ {"complete", "completed"} \subseteq JobStep /\ "completed" \in Later
      BY <1>10 DEF MarkComplete, JobStep, Later
    <2>2. OnlyTask(r, "completed")
      BY <1>0, <1>10, <2>1, TheTaskSteps DEF MarkComplete
    <2>3. Over(r)'
      BY <1>1, <1>4, <1>10, <2>1 DEF MarkComplete
    <2> QED BY <1>3, <1>10, <2>1, <2>2, <2>3, OneTaskAfter DEF MarkComplete
  <1>11. CASE CacheComplete(r)
    <2>1. jobs[r]["completed"] > 0 /\ "completed" \in JobStep
      BY <1>11 DEF CacheComplete, JobStep
    <2>2. NoTask(r)
      BY <1>0, <1>11, <2>1, TheTaskSteps DEF CacheComplete
    <2>3. Over(r)'
      BY <1>1, <1>4, <1>11, <2>1 DEF CacheComplete
    <2> QED BY <1>3, <1>11, <2>1, <2>2, <2>3, NoTaskAfter DEF CacheComplete
  <1> QED BY <1>2, <1>6, <1>7, <1>8, <1>9, <1>10, <1>11 DEF JobsStep

(* The chord callback runs alone, and hands over to one task once it stored its file. *)
LEMMA AggregateSequential ==
    ASSUME LifecycleTypeOK, NEW r \in Run, NEW a \in Attempt, OneTask(r), OneChord(r),
           AggregateStep(r, a) \/ AggregateFails(r, a)
    PROVE  OneTask(r)' /\ OneChord(r)'
  <1>0. /\ jobs \in [Run -> [JobStep -> Nat]] /\ agg \in [Run -> [Attempt -> AggStep]]
        /\ rows \in [Run -> [scores : Nat, groups : Nat, perms : Nat]] /\ PipelineTypeOK
    BY DEF LifecycleTypeOK, PipelineTypeOK
  <1>1. agg[r][a] \in {"waiting", "queued", "retry", "merged", "stored"}
    BY DEF AggregateStep, ChordReturns, AggregateMissing, AggregateMerge, AggregateStore, AggregateSend,
           AggregateFails, AggAt
  <1>2. /\ \A j \in JobStep : jobs[r][j] = 0
        /\ \A b \in Attempt \ {a} : agg[r][b] = "none"
        /\ state[r] # "completed"
        /\ \A k \in JobStep : Send(r, k) => OnlyTask(r, k)
    BY <1>0, <1>1, ChordAlone
  <1>3. state' = state /\ parts' = parts
    BY DEF AggregateStep, ChordReturns, AggregateMissing, AggregateMerge, AggregateStore, AggregateSend,
           AggregateFails, AggFails, schedulerVars
  <1>4. PICK s \in {"queued", "retry", "merged", "stored", "sent", "failed"} :
            /\ AggTo(r, a, s)
            /\ IF s \in {"sent", "failed"} THEN \E k \in Later : Send(r, k) ELSE UNCHANGED jobs
            /\ s # "stored" => rows' = rows
            /\ s = "stored" => agg[r][a] = "merged" /\ rows' = [rows EXCEPT ![r].scores = @ + 1]
            /\ agg[r][a] = "stored" => s = "sent"
            /\ agg[r][a] = "waiting" => \A p \in Package : parts[r][a][p].step \in PartDone
    BY DEF AggregateStep, ChordReturns, AggregateMissing, AggregateMerge, AggregateStore, AggregateSend,
           AggregateFails, AggFails, AggAt, Later
  <1>5. agg'[r][a] = s /\ \A b \in Attempt \ {a} : agg'[r][b] = "none"
    BY <1>0, <1>2, <1>4 DEF AggTo
  <1>6. Later \subseteq JobStep
    BY DEF Later, JobStep
  <1>7. OneTask(r)'
    <2>1. CASE s \in {"sent", "failed"}
      <3>1. Over(r)'
        BY <1>5, <2>1 DEF Over
      <3>2. PICK k \in Later : OnlyTask(r, k)
        BY <1>2, <1>4, <1>6, <2>1
      <3> QED BY <1>2, <1>3, <1>6, <3>1, <3>2, OneTaskAfter
    <2>2. CASE s \notin {"sent", "failed"}
      <3>1. NoTask(r)
        BY <1>2, <1>4, <2>2 DEF NoTask
      <3> QED BY <1>2, <1>3, <3>1, NoTaskAfter
    <2> QED BY <2>1, <2>2
  <1>8. \A j \in JobStep \ Later : jobs'[r][j] = 0
    <2>1. CASE s \in {"sent", "failed"}
      <3>1. PICK k \in Later : OnlyTask(r, k)
        BY <1>2, <1>4, <1>6, <2>1
      <3> QED BY <3>1 DEF OnlyTask
    <2>2. CASE s \notin {"sent", "failed"}
      BY <1>2, <1>4, <2>2
    <2> QED BY <2>1, <2>2
  <1>9. \A b \in Attempt, p \in Package : parts'[r][b][p].step \notin {"queued", "counted"}
    <2>1. ASSUME NEW b \in Attempt, NEW p \in Package, parts[r][b][p].step \in {"queued", "counted"}
          PROVE  FALSE
      <3>1. agg[r][b] = "waiting"
        BY <2>1 DEF OneChord
      <3>2. b = a
        BY <1>2, <3>1
      <3> QED BY <1>4, <2>1, <3>1, <3>2 DEF PartDone
    <2> QED BY <1>3, <2>1
  <1>10. rows'[r].scores <= 1 /\ (rows'[r].scores > 0 => s \in {"stored", "sent", "failed"})
    <2>1. rows[r].scores \in Nat
      BY <1>0
    <2>2. rows[r].scores <= 1 /\ (rows[r].scores > 0 => agg[r][a] = "stored")
      <3>1. rows[r].scores > 0 => \E b \in Attempt : agg[r][b] \in {"stored", "sent", "failed"}
        BY DEF OneChord
      <3>2. rows[r].scores > 0 => agg[r][a] \in {"stored", "sent", "failed"}
        BY <1>2, <3>1
      <3> QED BY <1>1, <3>2 DEF OneChord
    <2>3. CASE s = "stored"
      BY <1>0, <1>4, <2>1, <2>2, <2>3
    <2>4. CASE s # "stored"
      BY <1>4, <2>2, <2>4
    <2> QED BY <2>3, <2>4
  <1>11. OneChord(r)'
    BY <1>5, <1>8, <1>9, <1>10 DEF OneChord
  <1> QED BY <1>7, <1>11

(* A package of the chord runs while its callback waits, when nothing else is queued. *)
LEMMA ComputeSequential ==
    ASSUME LifecycleTypeOK, NEW r \in Run, NEW a \in Attempt, NEW p \in Package, OneTask(r), OneChord(r),
           ComputeStep(r, a, p) \/ ComputeFails(r, a, p)
    PROVE  OneTask(r)' /\ OneChord(r)'
  <1>0. PipelineTypeOK /\ state \in [Run -> RowState]
    BY DEF LifecycleTypeOK, TypeOK
  <1>1. agg[r][a] = "waiting"
    BY DEF ComputeStep, ComputeInactive, ComputeStale, Compute, ComputeOverLimit, ComputeStore, ComputeFails,
           PartAt, OneChord
  <1>2. (\A j \in JobStep : jobs[r][j] = 0) /\ state[r] # "completed"
    BY <1>0, <1>1, ChordAlone
  <1>3. UNCHANGED <<jobs, agg, rows>>
    BY DEF ComputeStep, ComputeInactive, ComputeStale, Compute, ComputeOverLimit, ComputeStore, ComputeFails
  <1>4. state'[r] # "completed"
    BY <1>0, <1>2 DEF ComputeStep, ComputeInactive, ComputeStale, Compute, ComputeOverLimit, ComputeStore,
       ComputeFails, MarkFailure, schedulerVars
  <1>5. OneTask(r)'
    BY <1>2, <1>3, <1>4, NoTaskAfter DEF NoTask
  <1>6. \A b \in Attempt \ {a}, q \in Package : parts'[r][b][q] = parts[r][b][q]
    <2>1. \E t : parts' = [parts EXCEPT ![r][a][p] = t]
      BY DEF ComputeStep, ComputeInactive, ComputeStale, Compute, ComputeOverLimit, ComputeStore, ComputeFails,
             PartTo, Retry
    <2> QED BY <1>0, <2>1 DEF PipelineTypeOK
  <1>7. OneChord(r)'
    BY <1>1, <1>3, <1>6 DEF OneChord
  <1> QED BY <1>5, <1>7

(* A lost task leaves the run with less to do, never with more.            *)
LEMMA LossSequential ==
    ASSUME LifecycleTypeOK, NEW r \in Run, OneTask(r), OneChord(r), LoseTask(r)
    PROVE  OneTask(r)' /\ OneChord(r)'
  <1>0. /\ agg \in [Run -> [Attempt -> AggStep]] /\ PipelineTypeOK
        /\ state' = state /\ rows' = rows
    BY DEF LifecycleTypeOK, PipelineTypeOK, LoseTask, schedulerVars
  <1>1. ASSUME NEW j \in JobStep, jobs[r][j] > 0, Done(r, j), UNCHANGED <<parts, agg>>
        PROVE  OneTask(r)' /\ OneChord(r)'
    <2>1. NoTask(r)
      BY <1>0, <1>1, TheTaskSteps
    <2>2. Over(r) => Over(r)'
      BY <1>1 DEF Over
    <2>3. OneTask(r)'
      BY <1>0, <2>1, <2>2, NoTaskAfter DEF OneTask
    <2>4. OneChord(r)'
      BY <1>0, <1>1, <2>1 DEF OneChord, NoTask
    <2> QED BY <2>3, <2>4
  <1>2. ASSUME NEW a \in Attempt, NEW p \in Package, PartTo(r, a, p, "none"), UNCHANGED <<jobs, agg>>
        PROVE  OneTask(r)' /\ OneChord(r)'
    <2>1. Over(r) => Over(r)'
      BY <1>2 DEF Over
    <2>2. OneTask(r)'
      BY <1>0, <1>2, <2>1 DEF OneTask
    <2>3. \A b \in Attempt, q \in Package : parts'[r][b][q].step \in {"queued", "counted"} =>
              parts[r][b][q].step \in {"queued", "counted"}
      BY <1>0, <1>2 DEF PartTo, PipelineTypeOK
    <2>4. OneChord(r)'
      BY <1>0, <1>2, <2>3 DEF OneChord
    <2> QED BY <2>2, <2>4
  <1>3. ASSUME NEW a \in Attempt, agg[r][a] \in {"queued", "retry", "merged", "stored"}, AggTo(r, a, "failed"),
               UNCHANGED <<jobs, parts>>
        PROVE  OneTask(r)' /\ OneChord(r)'
    <2>1. /\ \A j \in JobStep : jobs[r][j] = 0
          /\ \A b \in Attempt \ {a} : agg[r][b] = "none"
          /\ state[r] # "completed"
      BY <1>0, <1>3, ChordAlone
    <2>2. agg'[r][a] = "failed" /\ \A b \in Attempt \ {a} : agg'[r][b] = "none"
      BY <1>0, <1>3, <2>1 DEF AggTo
    <2>3. OneTask(r)'
      BY <1>0, <1>3, <2>1, NoTaskAfter DEF NoTask
    <2>4. \A b \in Attempt, q \in Package : parts[r][b][q].step \notin {"queued", "counted"}
      BY <1>3, <2>1 DEF OneChord
    <2>5. OneChord(r)'
      BY <1>0, <1>3, <2>1, <2>2, <2>4 DEF OneChord
    <2> QED BY <2>3, <2>5
  <1> QED BY <1>1, <1>2, <1>3 DEF LoseTask

(* Only the aggregation takes a launched run to another stage, once.       *)
LEMMA PipelineStage ==
    ASSUME Stages = Nat, LifecycleTypeOK, NothingBeforeLaunch, SchedulerInvariant, NEW r \in Run,
           PipelineStep(r) \/ PipelineFault(r), OneChord(r), StageCounted(r)
    PROVE  StageCounted(r)'
  <1>0. /\ state \in [Run -> RowState] /\ stage \in [Run -> Nat]
        /\ rows \in [Run -> [scores : Nat, groups : Nat, perms : Nat]]
        /\ agg \in [Run -> [Attempt -> AggStep]]
        /\ prerun[r]["send"] \in Nat /\ launched[r] \in Nat
    BY DEF LifecycleTypeOK, TypeOK, PipelineTypeOK, PrerunStep
  <1>1. launched[r] > 0 /\ sizing' = sizing /\ resultType' = resultType
    BY OnlyLaunched, OneRunAtATime DEF Elsewhere
  <1>2. state[r] \notin {"unposted", "created"}
    BY <1>0, <1>1 DEF SchedulerInvariant, OneStarter
  <1>3. \/ state'[r] = state[r]
        \/ Exists(r) /\ state'[r] \in {"completed", "error"}
    <2>1. [PipelineOutcome(r)]_schedulerVars
      BY PipelineIsOutcome
    <2> QED BY <1>0, <2>1 DEF PipelineOutcome, schedulerVars
  <1>4. ASSUME stage' = stage, rows'[r].scores = rows[r].scores PROVE StageCounted(r)'
    BY <1>1, <1>2, <1>3, <1>4 DEF StageCounted, Exists, RunState
  <1>5. ASSUME NEW a \in Attempt, AggregateStore(r, a) PROVE StageCounted(r)'
    <2>1. agg[r][a] = "merged"
      BY <1>5 DEF AggregateStore, AggAt
    <2>2. ~(rows[r].scores > 0)
      BY <2>1 DEF OneChord
    <2>3. CASE Exists(r)
      <3>1. rows' = [rows EXCEPT ![r].scores = @ + 1] /\ NextStage(r) /\ state' = state
        BY <1>5, <2>3 DEF AggregateStore
      <3>2. rows'[r].scores > 0
        BY <1>0, <3>1
      <3>3. stage'[r] = IF resultType = "similarity_scores" THEN stage[r] ELSE stage[r] + 1
        BY <1>0, <3>1 DEF NextStage, Progress
      <3> QED BY <1>1, <1>2, <2>2, <3>1, <3>2, <3>3 DEF StageCounted, Exists
    <2>4. CASE ~Exists(r)
      BY <1>4, <1>5, <2>4 DEF AggregateStore
    <2> QED BY <2>3, <2>4
  <1>6. ASSUME NEW a \in Attempt, NEW p \in Package, ComputeStep(r, a, p) \/ ComputeFails(r, a, p)
        PROVE  UNCHANGED <<stage, rows>>
    BY <1>6 DEF ComputeStep, ComputeInactive, ComputeStale, Compute, ComputeOverLimit, ComputeStore, ComputeFails,
                schedulerVars
  <1>7. ASSUME NEW a \in Attempt, AggregateStep(r, a) \/ AggregateFails(r, a)
        PROVE  UNCHANGED <<stage, rows>> \/ AggregateStore(r, a)
    BY <1>7 DEF AggregateStep, ChordReturns, AggregateMissing, AggregateMerge, AggregateSend, AggregateFails,
                schedulerVars
  <1>8. ASSUME JobsStep(r) PROVE stage' = stage /\ rows'[r].scores = rows[r].scores
    <2>1. CASE SaveGroups(r) \/ Permute(r)
      BY <1>0, <2>1 DEF SaveGroups, Permute, schedulerVars
    <2> QED BY <1>8, <2>1 DEF JobsStep, CreateJobs, CreateErrback, DispatchChord, Solve, SolveOverLimit, SendPermute,
            SendComplete, MarkComplete, CacheComplete, RunFailed, schedulerVars
  <1>9. ASSUME CreateJobsFails(r) \/ TaskFails(r) \/ LoseTask(r) \/ RedeliverTask(r) PROVE UNCHANGED <<stage, rows>>
    BY <1>9 DEF CreateJobsFails, TaskFails, LoseTask, RedeliverTask, schedulerVars
  <1> QED BY <1>4, <1>5, <1>6, <1>7, <1>8, <1>9 DEF PipelineStep, PipelineFault

(* The scheduler takes a run to the second stage when it queues it.        *)
LEMMA OutsideStage ==
    ASSUME LifecycleTypeOK, NothingBeforeLaunch, SchedulerInvariant, NEW q \in Run, Outside, StageCounted(q)
    PROVE  StageCounted(q)'
  <1>0. state \in [Run -> RowState] /\ stage \in [Run -> Nat]
    BY DEF LifecycleTypeOK, TypeOK
  <1>1. ASSUME stage'[q] = stage[q], sizing' = sizing, resultType' = resultType,
               rows'[q].scores = rows[q].scores,
               \/ state'[q] = state[q]
               \/ state[q] = "unposted" /\ state'[q] = "created"
               \/ state[q] = "queued" /\ state'[q] = "running"
               \/ sizing # "agree" /\ state'[q] = "error"
        PROVE  StageCounted(q)'
    BY <1>1 DEF StageCounted, Exists, RunState
  <1>2. CASE SchedulerOnly
    <2>1. UNCHANGED <<stage, sizing, resultType, rows>>
      BY <1>2 DEF SchedulerOnly, Client, PostRun, DeleteRun, UploadReady, MarkProject, SaveRun, SendCheck,
         CountReady, SendRemoveProject, RemoveProjectCaches, Fault, LoseCheck, RedeliverCheck, LosePrerun,
         LoseDelete, RedeliverPrerun, LoseRemoveProject, RedeliverRemoveProject, CheckUploads, NoUploads,
         RejectUploads, FailRuns, CheckDone, SendPrerun, PrerunCache, PrerunLock, PrerunActivate, PrerunCommit,
         dataVars, runVars, pipelineVars
    <2>2. ASSUME NEW r \in Run, SaveRun(r) PROVE state[q] = state'[q] \/ (state[q] = "unposted" /\ state'[q] = "created")
      BY <1>0, <2>2 DEF SaveRun, At, SchedulerInvariant, RowConsistent
    <2>3. ASSUME NEW r \in Run, PrerunCommit(r) PROVE state[q] = state'[q] \/ (state[q] = "queued" /\ state'[q] = "running")
      <3>1. prerun[r]["locked"] \in Nat /\ prerun[r]["cached"] \in Nat
        BY DEF LifecycleTypeOK, TypeOK, PrerunStep
      <3>2. state[r] = "queued"
        BY <2>3, <3>1 DEF PrerunCommit, SchedulerInvariant, OneStarter, Locked
      <3> QED BY <1>0, <2>3, <3>2 DEF PrerunCommit
    <2>4. ASSUME NEW c \in Trigger, FailRuns(c) PROVE state[q] = state'[q] \/ (sizing # "agree" /\ state'[q] = "error")
      BY <1>0, <2>4 DEF FailRuns, At, SchedulerInvariant, NothingRejected
    <2>5. \/ state' = state
          \/ \E r \in Run : SaveRun(r) \/ PrerunCommit(r)
          \/ \E c \in Trigger : FailRuns(c)
      BY <1>2 DEF SchedulerOnly, Client, PostRun, DeleteRun, UploadReady, MarkProject, SendCheck,
         CountReady, SendRemoveProject, RemoveProjectCaches, Fault, LoseCheck, RedeliverCheck, LosePrerun,
         LoseDelete, RedeliverPrerun, LoseRemoveProject, RedeliverRemoveProject, CheckUploads, NoUploads,
         RejectUploads, CheckDone, SendPrerun, PrerunCache, PrerunLock, PrerunActivate, runVars
    <2> QED BY <1>1, <2>1, <2>2, <2>3, <2>4, <2>5
  <1>3. ASSUME NEW c \in Trigger, QueueAndClear(c) PROVE StageCounted(q)'
    <2>1. CASE state[q] # "created"
      <3>1. state'[q] = state[q] /\ stage'[q] = stage[q] /\ UNCHANGED <<sizing, resultType, rows>>
        BY <1>0, <1>3, <2>1 DEF QueueAndClear, QueueRuns, dataVars, ownVars
      <3> QED BY <1>1, <3>1
    <2>2. CASE state[q] = "created"
      <3>1. launched[q] \in Nat /\ prerun[q]["send"] \in Nat
        BY DEF LifecycleTypeOK, TypeOK, PrerunStep
      <3>2. launched[q] = 0
        BY <2>2, <3>1 DEF SchedulerInvariant, OneStarter
      <3>3. rows[q].scores = 0
        BY <3>2 DEF NothingBeforeLaunch, Untouched
      <3>4. stage[q] = 1
        BY <2>2 DEF StageCounted
      <3>5. stage'[q] = 2 /\ state'[q] = "queued" /\ rows' = rows
        BY <1>0, <1>3, <2>2, <3>4 DEF QueueAndClear, QueueRuns
      <3> QED BY <3>3, <3>5 DEF StageCounted
    <2> QED BY <2>1, <2>2
  <1>4. ASSUME NEW r \in Run, CascadeDelete(r) PROVE StageCounted(q)'
    <2>1. CASE q = r
      BY <1>0, <1>4, <2>1 DEF CascadeDelete, DeleteRow, StageCounted, Exists, RunState
    <2>2. CASE q # r
      <3>1. /\ state'[q] = state[q] /\ stage'[q] = stage[q] /\ sizing' = sizing
            /\ resultType' = resultType /\ rows'[q] = rows[q]
        BY <1>0, <1>4, <2>2 DEF CascadeDelete, DeleteRow, dataVars, ownVars, LifecycleTypeOK, PipelineTypeOK
      <3> QED BY <1>1, <3>1
    <2> QED BY <2>1, <2>2
  <1>5. CASE CleanProject
    <2>1. rows'[q].scores = rows[q].scores
      <3>1. rows \in [Run -> [scores : Nat, groups : Nat, perms : Nat]]
        BY DEF LifecycleTypeOK, PipelineTypeOK
      <3> QED BY <1>5, <3>1 DEF CleanProject
    <2>2. UNCHANGED <<state, stage, sizing, resultType>>
      BY <1>5 DEF CleanProject, RemoveProjectData, runVars, ownVars
    <2> QED BY <1>1, <2>1, <2>2
  <1>6. ASSUME NEW r \in Run, LaunchRun(r) \/ RefuseDelete(r) PROVE StageCounted(q)'
    BY <1>1, <1>6 DEF LaunchRun, PrerunLaunch, RefuseDelete, DeleteRefused, dataVars, runVars, ownVars, pipelineVars
  <1>7. CASE UNCHANGED vars
    BY <1>1, <1>7 DEF vars, schedulerVars, pipelineVars
  <1> QED BY <1>2, <1>3, <1>4, <1>5, <1>6, <1>7 DEF Outside

(* The scheduler sends the one task a run begins with.                     *)
LEMMA OutsideSequential ==
    ASSUME LifecycleTypeOK, NothingBeforeLaunch, SchedulerInvariant, NEW q \in Run, Outside,
           OneTask(q), OneChord(q)
    PROVE  OneTask(q)' /\ OneChord(q)'
  <1>0. jobs \in [Run -> [JobStep -> Nat]]
    BY DEF LifecycleTypeOK, PipelineTypeOK
  <1>1. /\ parts' = parts /\ agg' = agg
        /\ state'[q] = "completed" => state[q] = "completed"
        /\ rows'[q].scores = rows[q].scores \/ rows'[q].scores = 0
    BY OutsideLeaves
  <1>2. CASE LaunchRun(q)
    <2>1. launched[q] \in Nat /\ prerun[q]["send"] \in Nat /\ prerun[q]["send"] > 0
      BY <1>2 DEF LaunchRun, PrerunLaunch, LifecycleTypeOK, TypeOK, PrerunStep
    <2>2. launched[q] = 0
      BY <2>1 DEF SchedulerInvariant, OneStarter
    <2>3. Untouched(q)
      BY <2>2 DEF NothingBeforeLaunch
    <2>4. OnlyTask(q, "create") /\ "create" \in JobStep
      BY <1>0, <1>2, <2>3 DEF LaunchRun, Send, Untouched, OnlyTask, JobStep
    <2>5. OneTask(q)'
      BY <1>1, <2>3, <2>4, OneTaskAfter DEF Untouched, Later
    <2>6. OneChord(q)'
      BY <1>1, <2>3 DEF Untouched, OneChord
    <2> QED BY <2>5, <2>6
  <1>3. CASE ~LaunchRun(q)
    <2>1. jobs'[q] = jobs[q]
      <3>1. ASSUME NEW r \in Run, LaunchRun(r) PROVE jobs'[q] = jobs[q]
        BY <1>0, <1>3, <3>1 DEF LaunchRun, Send
      <3>2. \/ jobs' = jobs
            \/ \E r \in Run : LaunchRun(r)
        BY DEF Outside, SchedulerOnly, CleanProject, QueueAndClear, CascadeDelete, RefuseDelete, vars, pipelineVars
      <3> QED BY <3>1, <3>2
    <2>2. Over(q) => Over(q)'
      BY <1>1 DEF Over
    <2>3. OneTask(q)'
      BY <1>1, <2>1, <2>2 DEF OneTask
    <2>4. OneChord(q)'
      BY <1>1, <2>1 DEF OneChord
    <2> QED BY <2>3, <2>4
  <1> QED BY <1>2, <1>3

(* Every step keeps one task or one chord per run, where nothing is delivered twice. *)
LEMMA NextSequential ==
    ASSUME Stages = Nat, "redelivered" \notin Faulty,
           LifecycleTypeOK, NothingBeforeLaunch, SchedulerInvariant, [Next]_vars, SequentialInvariant
    PROVE  SequentialInvariant'
  <1> SUFFICES ASSUME NEW q \in Run PROVE OneTask(q)' /\ OneChord(q)' /\ StageCounted(q)'
    BY DEF SequentialInvariant
  <1>0. OneTask(q) /\ OneChord(q) /\ StageCounted(q)
    BY DEF SequentialInvariant
  <1>1. CASE Outside
    BY <1>0, <1>1, OutsideSequential, OutsideStage
  <1>2. ASSUME NEW r \in Run, PipelineStep(r) \/ PipelineFault(r), r # q
        PROVE  OneTask(q)' /\ OneChord(q)' /\ StageCounted(q)'
    <2>1. /\ jobs'[q] = jobs[q] /\ parts'[q] = parts[q] /\ agg'[q] = agg[q] /\ rows'[q] = rows[q]
          /\ state'[q] = state[q] /\ stage'[q] = stage[q] /\ sizing' = sizing /\ resultType' = resultType
      BY <1>2, OneRunAtATime DEF Elsewhere
    <2>2. OneTask(q)'
      BY <1>0, <2>1 DEF OneTask, Over
    <2>3. OneChord(q)'
      BY <1>0, <2>1 DEF OneChord
    <2>4. StageCounted(q)'
      BY <1>0, <2>1 DEF StageCounted, Exists
    <2> QED BY <2>2, <2>3, <2>4
  <1>3. CASE PipelineStep(q) \/ PipelineFault(q)
    <2>1. ~RedeliverTask(q)
      BY DEF RedeliverTask, Fails
    <2>2. OneTask(q)' /\ OneChord(q)'
      BY <1>0, <1>3, <2>1, AggregateSequential, JobsSequential, ComputeSequential, LossSequential
         DEF PipelineStep, PipelineFault
    <2> QED BY <1>0, <1>3, <2>2, PipelineStage
  <1> QED BY <1>1, <1>2, <1>3 DEF Next, Outside

(* Unless a message of the pipeline itself comes again, the pipeline does  *)
(* one thing at a time for a run, and counts its stages once.              *)
THEOREM SequentialInvariantHolds ==
    ASSUME Stages = Nat, "redelivered" \notin Faulty
    PROVE  Spec => []SequentialInvariant
  <1>1. Init => SequentialInvariant
    <2> SUFFICES ASSUME Init, NEW r \in Run PROVE OneTask(r) /\ OneChord(r) /\ StageCounted(r)
      BY DEF SequentialInvariant
    <2>1. \A j \in JobStep : jobs[r][j] = 0
      BY DEF Init
    <2>2. \A a \in Attempt : agg[r][a] = "none"
      BY DEF Init
    <2>3. \A a \in Attempt, p \in Package : parts[r][a][p].step = "none"
      BY DEF Init
    <2>4. state[r] = "unposted" /\ stage[r] = 1 /\ rows[r].scores = 0
      BY DEF Init, SchedulerInit, NoRows
    <2> QED BY <2>1, <2>2, <2>3, <2>4 DEF OneTask, OneChord, StageCounted, Later, JobStep, Exists, RunState
  <1>2. /\ LifecycleTypeOK /\ NothingBeforeLaunch /\ SchedulerInvariant /\ [Next]_vars
        /\ SequentialInvariant
        => SequentialInvariant'
    BY NextSequential
  <1>3. Spec => []SchedulerInvariant
    BY LifecycleImplementsContract, PTL
  <1> QED BY <1>1, <1>2, <1>3, LifecycleTypeCorrect, PTL DEF Spec

(* A run never has two similarity files, the assertion of                  *)
(* selections.py:536: its one launch leads to one chord, and that to one   *)
(* row.                                                                    *)
THEOREM OneSimilarityFileHolds ==
    ASSUME Stages = Nat, "redelivered" \notin Faulty
    PROVE  Spec => []OneSimilarityFile
  <1>1. SequentialInvariant => OneSimilarityFile
    BY DEF SequentialInvariant, OneChord, OneSimilarityFile
  <1> QED BY <1>1, SequentialInvariantHolds, PTL

(* A completed run is at the last stage of its type (models/run.py:11-35). *)
THEOREM CompletedRunAtLastStageHolds ==
    ASSUME Stages = Nat, "redelivered" \notin Faulty
    PROVE  Spec => []CompletedRunAtLastStage
  <1>1. /\ LifecycleTypeOK /\ NothingBeforeLaunch /\ SchedulerInvariant
        /\ LifecycleInvariant /\ SequentialInvariant
        => CompletedRunAtLastStage
    <2> SUFFICES ASSUME LifecycleTypeOK, NothingBeforeLaunch, SchedulerInvariant, LifecycleInvariant,
                        SequentialInvariant, NEW r \in Run, state[r] = "completed"
                 PROVE  stage[r] = IF resultType = "similarity_scores" THEN 2 ELSE 3
      BY DEF CompletedRunAtLastStage
    <2>1. launched[r] # 0
      BY DEF NothingBeforeLaunch, Untouched
    <2>2. sizing = "agree"
      BY <2>1 DEF SchedulerInvariant, NothingQueued, Dormant
    <2>3. Exists(r)
      BY DEF Exists, RunState
    <2>4. rows[r].scores > 0
      BY <2>3 DEF LifecycleInvariant, Delivered, Needs, HasScores
    <2> QED BY <2>2, <2>3, <2>4 DEF SequentialInvariant, StageCounted
  <1>2. Spec => []SchedulerInvariant
    BY LifecycleImplementsContract, PTL
  <1> QED BY <1>1, <1>2, LifecycleTypeCorrect, LifecycleInvariantHolds, SequentialInvariantHolds, PTL

(* The scheduler does nothing to a completed run but delete it.            *)
LEMMA CompletedStays ==
    ASSUME LifecycleTypeOK, NothingBeforeLaunch, SchedulerInvariant, NEW q \in Run, Outside,
           state[q] = "completed"
    PROVE  state'[q] \in {"completed", "deleted"}
  <1>0. state \in [Run -> RowState]
    BY DEF LifecycleTypeOK, TypeOK
  <1>1. sizing = "agree"
    BY DEF SchedulerInvariant, NothingQueued
  <1>2. ASSUME NEW r \in Run, SaveRun(r) PROVE state'[q] = state[q]
    BY <1>0, <1>2 DEF SaveRun, At, SchedulerInvariant, RowConsistent
  <1>3. ASSUME NEW r \in Run, PrerunCommit(r) PROVE state'[q] = state[q]
    <2>1. prerun[r]["locked"] \in Nat /\ prerun[r]["cached"] \in Nat
      BY DEF LifecycleTypeOK, TypeOK, PrerunStep
    <2>2. state[r] = "queued"
      BY <1>3, <2>1 DEF PrerunCommit, SchedulerInvariant, OneStarter, Locked
    <2> QED BY <1>0, <1>3, <2>2 DEF PrerunCommit
  <1>4. \A c \in Trigger : ~FailRuns(c)
    BY <1>1 DEF FailRuns, At, SchedulerInvariant, NothingRejected
  <1>5. CASE SchedulerOnly
    <2>1. state' = state \/ \E r \in Run : SaveRun(r) \/ PrerunCommit(r)
      BY <1>4, <1>5 DEF SchedulerOnly, Client, PostRun, DeleteRun, UploadReady, MarkProject, SendCheck,
         CountReady, SendRemoveProject, RemoveProjectCaches, Fault, LoseCheck, RedeliverCheck, LosePrerun,
         LoseDelete, RedeliverPrerun, LoseRemoveProject, RedeliverRemoveProject, CheckUploads, NoUploads,
         RejectUploads, CheckDone, SendPrerun, PrerunCache, PrerunLock, PrerunActivate, runVars
    <2> QED BY <1>2, <1>3, <2>1
  <1>6. ASSUME NEW c \in Trigger, QueueAndClear(c) PROVE state'[q] = state[q]
    BY <1>6 DEF QueueAndClear, QueueRuns
  <1>7. ASSUME NEW r \in Run, CascadeDelete(r) PROVE state'[q] \in {state[q], "deleted"}
    BY <1>0, <1>7 DEF CascadeDelete, DeleteRow
  <1>8. ASSUME NEW r \in Run, LaunchRun(r) \/ RefuseDelete(r) PROVE state' = state
    BY <1>8 DEF LaunchRun, PrerunLaunch, RefuseDelete, DeleteRefused, runVars
  <1>9. CASE CleanProject \/ UNCHANGED vars
    BY <1>9 DEF CleanProject, RemoveProjectData, runVars, vars, schedulerVars
  <1> QED BY <1>5, <1>6, <1>7, <1>8, <1>9 DEF Outside

(* The pipeline has nothing left to do for it but to tell redis.           *)
LEMMA CompletedIsIdle ==
    ASSUME "redelivered" \notin Faulty, LifecycleTypeOK, NEW q \in Run, OneTask(q), OneChord(q),
           state[q] = "completed", PipelineStep(q) \/ PipelineFault(q)
    PROVE  state' = state /\ rows' = rows
  <1>0. jobs \in [Run -> [JobStep -> Nat]]
    BY DEF LifecycleTypeOK, PipelineTypeOK
  <1>1. \A j \in JobStep \ {"completed"} : ~(jobs[q][j] > 0)
    BY <1>0 DEF OneTask
  <1>2. \A a \in Attempt : agg[q][a] \in {"none", "sent", "failed"}
    BY DEF OneTask, Over
  <1>3. \A a \in Attempt, p \in Package : parts[q][a][p].step \notin {"queued", "counted"}
    BY <1>2 DEF OneChord
  <1>4. ASSUME NEW a \in Attempt, NEW p \in Package PROVE ~ComputeStep(q, a, p) /\ ~ComputeFails(q, a, p)
    BY <1>3 DEF ComputeStep, ComputeInactive, ComputeStale, Compute, ComputeOverLimit, ComputeStore, ComputeFails,
                PartAt
  <1>5. ASSUME NEW a \in Attempt PROVE ~AggregateStep(q, a) /\ ~AggregateFails(q, a)
    BY <1>2 DEF AggregateStep, ChordReturns, AggregateMissing, AggregateMerge, AggregateStore, AggregateSend,
                AggregateFails, AggAt
  <1>6. ASSUME JobsStep(q) PROVE CacheComplete(q)
    BY <1>1, <1>6 DEF JobsStep, CreateJobs, CreateErrback, DispatchChord, Solve, SolveOverLimit, SaveGroups,
       SendPermute, Permute, SendComplete, MarkComplete, RunFailed, JobStep
  <1>7. CASE CacheComplete(q)
    BY <1>7 DEF CacheComplete
  <1>8. CASE CreateJobsFails(q) \/ TaskFails(q) \/ LoseTask(q) \/ RedeliverTask(q)
    BY <1>8 DEF CreateJobsFails, TaskFails, LoseTask, RedeliverTask, schedulerVars
  <1> QED BY <1>4, <1>5, <1>6, <1>7, <1>8 DEF PipelineStep, PipelineFault

(* Nothing that still runs turns a completed run into a failed one or      *)
(* changes its result (insertions.py:287-322).                             *)
THEOREM CompletedIsFinalHolds ==
    ASSUME Stages = Nat, "redelivered" \notin Faulty
    PROVE  Spec => CompletedIsFinal
  <1>1. /\ LifecycleTypeOK /\ NothingBeforeLaunch /\ SchedulerInvariant /\ SequentialInvariant
        /\ [Next]_vars
        => [\A r \in Run : state[r] = "completed" =>
              /\ state'[r] \in {"completed", "deleted"}
              /\ rows'[r] = rows[r] \/ state'[r] = "deleted" \/ project' = "cleaned"]_vars
    <2> SUFFICES ASSUME LifecycleTypeOK, NothingBeforeLaunch, SchedulerInvariant, SequentialInvariant,
                        [Next]_vars, NEW q \in Run, state[q] = "completed"
                 PROVE  /\ state'[q] \in {"completed", "deleted"}
                        /\ rows'[q] = rows[q] \/ state'[q] = "deleted" \/ project' = "cleaned"
      OBVIOUS
    <2>1. CASE Outside
      <3>1. rows'[q] = rows[q] \/ ~Exists(q)' \/ project' = "cleaned"
        BY <2>1, OutsideLeaves
      <3>2. state'[q] \in {"completed", "deleted"}
        BY <2>1, CompletedStays
      <3> QED BY <3>1, <3>2 DEF Exists, RunState
    <2>2. ASSUME NEW r \in Run, PipelineStep(r) \/ PipelineFault(r), r # q
          PROVE  state'[q] = state[q] /\ rows'[q] = rows[q]
      BY <2>2, OneRunAtATime DEF Elsewhere
    <2>3. ASSUME PipelineStep(q) \/ PipelineFault(q) PROVE state' = state /\ rows' = rows
      BY <2>3, CompletedIsIdle DEF SequentialInvariant
    <2> QED BY <2>1, <2>2, <2>3 DEF Next, Outside
  <1>2. Spec => []SchedulerInvariant
    BY LifecycleImplementsContract, PTL
  <1> QED BY <1>1, <1>2, LifecycleTypeCorrect, SequentialInvariantHolds, PTL DEF Spec, CompletedIsFinal
===============================================================================
