----------------------------- MODULE RunLifecycle -----------------------------
(***************************************************************************)
(* The whole life of the runs of a project: RunScheduler with the celery   *)
(* pipeline a launch sets off in place of PipelineOutcome.                 *)
(*                                                                         *)
(*   create_comparison_jobs -> chord of compute_filter_similarity          *)
(*     -> aggregate_comparisons -> solver_task -> save_and_permute         *)
(*     -> permute_mapping_data -> mark_run_complete                        *)
(*                                                                         *)
(* A project with result type similarity_scores skips from the aggregation *)
(* to mark_run_complete, one with groups skips the permutation.            *)
(* run_failed_handler is the error callback of the chord.                  *)
(***************************************************************************)
EXTENDS RunScheduler, FiniteSets, FiniteSetsExt

CONSTANTS
    Package,         \* work packages _create_work_packages makes
    Candidate,       \* pairs of encodings that may reach the threshold
    Yields,          \* what a package may find: how often each of them
    CandidateLimit,  \* SIMILARITY_SCORES_MAX_CANDIDATE_PAIRS
    SolverLimit,     \* SOLVER_MAX_CANDIDATE_PAIRS
    ResultTypes,     \* result types of the project
    MaxRetries,      \* celery's max_retries
    Attempt,         \* bound: chords dispatched for one run, 1..n
    Faulty,          \* where something may go wrong
    MaxFaults        \* bound: how often it does

FaultKind == {"create", "compute", "aggregate", "solver", "save", "permute",
              "lost", "redelivered"}
ResultType == {"groups", "permutations", "similarity_scores"}

ASSUME LifecycleAssumption ==
    /\ IsFiniteSet(Package)
    /\ IsFiniteSet(Candidate) /\ Yields \subseteq [Candidate -> Nat]
    /\ CandidateLimit \in Nat /\ SolverLimit \in Nat
    /\ ResultTypes \subseteq ResultType
    /\ MaxRetries \in Nat /\ MaxFaults \in Nat
    /\ Attempt \subseteq Nat \ {0}
    /\ Faulty \subseteq FaultKind
    /\ {"limit", "solver limit", "internal"} \subseteq Failures

VARIABLES
    resultType,   \* projects.result_type
    pairs,        \* pairs[r][p][q]: how often package p finds q at r's threshold
    jobs,         \* jobs[r][j]: single tasks of r's pipeline at step j
    parts,        \* parts[r][a][p]: compute task of package p in chord a
    agg,          \* agg[r][a]: the callback of chord a
    rows,         \* rows the run has in the result tables
    comparisons,  \* 'comparisons' of the run's redis hash
    candidates,   \* 'candidates' of the run's redis hash
    faults

pipelineVars == <<resultType, pairs, jobs, parts, agg, rows, comparisons, candidates, faults>>
vars == <<schedulerVars, pipelineVars>>

JobStep  == {"create", "dispatch", "errback", "solver", "save", "saved", "permute",
             "permuted", "complete", "completed", "failed"}
PartStep == {"none", "queued", "counted", "missing", "empty", "file", "failed"}
PartDone == {"missing", "empty", "file", "failed"}
AggStep  == {"none", "waiting", "queued", "retry", "merged", "stored", "sent", "failed"}
NoRows   == [scores |-> 0, groups |-> 0, perms |-> 0]

Init ==
    /\ SchedulerInit
    /\ resultType \in ResultTypes
    /\ pairs \in [Run -> [Package -> Yields]]
    /\ jobs = [r \in Run |-> [j \in JobStep |-> 0]]
    /\ parts = [r \in Run |-> [a \in Attempt |-> [p \in Package |-> [step |-> "none", tries |-> 0]]]]
    /\ agg = [r \in Run |-> [a \in Attempt |-> "none"]]
    /\ rows = [r \in Run |-> NoRows]
    /\ comparisons = [r \in Run |-> 0]
    /\ candidates = [r \in Run |-> 0]
    /\ faults = 0

Fails(kind) == kind \in Faulty /\ faults < MaxFaults /\ faults' = faults + 1

(* Messages: j is finished, or replaced by k; k is sent as well.           *)
Done(r, j)    == jobs' = [jobs EXCEPT ![r][j] = @ - 1]
Step(r, j, k) == jobs' = [jobs EXCEPT ![r][j] = @ - 1, ![r][k] = @ + 1]
Send(r, k)    == jobs' = [jobs EXCEPT ![r][k] = @ + 1]

(* Mutant: the row is written although it is gone.                         *)
MarkFailureBlind(r, message) ==
    /\ state' = [state EXCEPT ![r] = "error"]
    /\ errorMsg' = [errorMsg EXCEPT ![r] = message]

(* update_run_mark_failure, also of a run that is finished; nothing if the *)
(* row is gone.                                                            *)
MarkFailure(r, message) ==
    IF Exists(r)
    THEN /\ state' = [state EXCEPT ![r] = "error"]
         /\ errorMsg' = [errorMsg EXCEPT ![r] = message]
    ELSE UNCHANGED <<state, errorMsg>>

ownVars == <<resultType, pairs>>

-------------------------------------------------------------------------------
(* Steps of the scheduler, with what they do to the result tables          *)

LaunchRun(r) ==
    /\ PrerunLaunch(r)
    /\ Send(r, "create")
    /\ UNCHANGED <<ownVars, parts, agg, rows, comparisons, candidates, faults>>

(* Two similarity files of one run fail an assertion of the view.          *)
CascadeDelete(r) ==
    /\ rows[r].scores <= 1
    /\ DeleteRow(r)
    /\ rows' = [rows EXCEPT ![r] = NoRows]
    /\ UNCHANGED <<ownVars, jobs, parts, agg, comparisons, candidates, faults>>

RefuseDelete(r) ==
    /\ rows[r].scores > 1
    /\ DeleteRefused(r)
    /\ UNCHANGED pipelineVars

(* delete_project_data: results and permutations go, similarity files stay *)
CleanProject ==
    /\ RemoveProjectData
    /\ rows' = [r \in Run |-> [rows[r] EXCEPT !.groups = 0, !.perms = 0]]
    /\ UNCHANGED <<ownVars, jobs, parts, agg, comparisons, candidates, faults>>

(* progress_run_stage clears the progress of the runs it queues.           *)
QueueAndClear(c) ==
    /\ QueueRuns(c)
    /\ comparisons' = [r \in Run |-> IF state[r] = "created" THEN 0 ELSE comparisons[r]]
    /\ candidates' = [r \in Run |-> IF state[r] = "created" THEN 0 ELSE candidates[r]]
    /\ UNCHANGED <<ownVars, jobs, parts, agg, rows, faults>>

SchedulerOnly ==
    /\ \/ Client
       \/ \E r \in Run : SaveRun(r) \/ SendCheck(r)
       \/ \E p \in Party : CountReady(p)
       \/ SendRemoveProject \/ RemoveProjectCaches
       \/ Fault
       \/ \E c \in Trigger :
             \/ CheckUploads(c) \/ NoUploads(c) \/ RejectUploads(c) \/ FailRuns(c)
             \/ CheckDone(c)
             \/ \E r \in Run : SendPrerun(c, r)
       \/ \E r \in Run :
             PrerunCache(r) \/ PrerunLock(r) \/ PrerunActivate(r) \/ PrerunCommit(r)
    /\ UNCHANGED pipelineVars

-------------------------------------------------------------------------------
(* create_comparison_jobs                                                  *)

(* check_run_active, the data providers and the run are read.              *)
CreateJobs(r) ==
    /\ jobs[r]["create"] > 0
    /\ IF project = "live" /\ Exists(r) THEN Step(r, "create", "dispatch")
                                        ELSE Step(r, "create", "errback")
    /\ UNCHANGED <<schedulerVars, ownVars, parts, agg, rows, comparisons, candidates, faults>>

CreateJobsFails(r) ==
    /\ \E j \in {"create", "dispatch"} : jobs[r][j] > 0 /\ Step(r, j, "errback")
    /\ Fails("create")
    /\ UNCHANGED <<schedulerVars, ownVars, parts, agg, rows, comparisons, candidates>>

(* The error callback run.py links carries no run_id, so run_failed_handler*)
(* raises a KeyError before it reaches the database.                       *)
CreateErrback(r) ==
    /\ jobs[r]["errback"] > 0
    /\ Done(r, "errback")
    /\ UNCHANGED <<schedulerVars, ownVars, parts, agg, rows, comparisons, candidates, faults>>

(* A chord without header tasks calls its callback at once.                *)
DispatchChord(r) ==
    /\ jobs[r]["dispatch"] > 0
    /\ Done(r, "dispatch")
    /\ \E a \in Attempt :
         /\ agg[r][a] = "none"
         /\ \A b \in Attempt : b < a => agg[r][b] # "none"
         /\ agg' = [agg EXCEPT ![r][a] = "waiting"]
         /\ parts' = [parts EXCEPT ![r][a] = [p \in Package |-> [step |-> "queued", tries |-> 0]]]
    /\ UNCHANGED <<schedulerVars, ownVars, rows, comparisons, candidates, faults>>

-------------------------------------------------------------------------------
(* compute_filter_similarity                                               *)

PartAt(r, a, p, s) == parts[r][a][p].step = s
PartTo(r, a, p, s) == parts' = [parts EXCEPT ![r][a][p].step = s]

(* num_results of each package: a pair that two of its chunks find counts  *)
(* twice.                                                                  *)
NumResults(r) == [p \in Package |-> SumFunction(pairs[r][p])]

(* Mutant: without max_retries.                                            *)
RetryForever(r, a, p) ==
    parts' = [parts EXCEPT ![r][a][p] = [step |-> "queued", tries |-> @.tries + 1]]

(* Any exception but InactiveRun: again, from the start, until the retries *)
(* are used up and the chord gets a failure.                               *)
Retry(r, a, p) ==
    parts' = [parts EXCEPT ![r][a][p] =
                 IF @.tries < MaxRetries THEN [step |-> "queued", tries |-> @.tries + 1]
                                         ELSE [@ EXCEPT !.step = "failed"]]

(* redis does not say 'active': the task is dropped and returns None.      *)
ComputeInactive(r, a, p) ==
    /\ PartAt(r, a, p, "queued")
    /\ cache[r] # "active"
    /\ PartTo(r, a, p, "missing")
    /\ UNCHANGED <<schedulerVars, ownVars, jobs, agg, rows, comparisons, candidates, faults>>

(* Active, but marked or deleted in the database: an exception like others.*)
ComputeStale(r, a, p) ==
    /\ PartAt(r, a, p, "queued")
    /\ cache[r] = "active"
    /\ project # "live" \/ ~Exists(r)
    /\ Retry(r, a, p)
    /\ UNCHANGED <<schedulerVars, ownVars, jobs, agg, rows, comparisons, candidates, faults>>

(* Mutant: the count of another package is overwritten, not added to.      *)
ComputeOverwrites(r, a, p) ==
    /\ PartAt(r, a, p, "queued")
    /\ cache[r] = "active"
    /\ project = "live" /\ Exists(r)
    /\ PartTo(r, a, p, "counted")
    /\ comparisons' = [comparisons EXCEPT ![r] = @ + 1]
    /\ candidates' = [candidates EXCEPT ![r] = NumResults(r)[p]]
    /\ UNCHANGED <<schedulerVars, ownVars, jobs, agg, rows, faults>>

(* Compare, and add to the progress in redis.                              *)
Compute(r, a, p) ==
    /\ PartAt(r, a, p, "queued")
    /\ cache[r] = "active"
    /\ project = "live" /\ Exists(r)
    /\ PartTo(r, a, p, "counted")
    /\ comparisons' = [comparisons EXCEPT ![r] = @ + 1]
    /\ candidates' = [candidates EXCEPT ![r] = @ + NumResults(r)[p]]
    /\ UNCHANGED <<schedulerVars, ownVars, jobs, agg, rows, faults>>

(* Mutant: returns an empty result instead of none.                        *)
ComputeOverLimitEmpty(r, a, p) ==
    /\ PartAt(r, a, p, "counted")
    /\ candidates[r] > CandidateLimit
    /\ MarkFailure(r, "limit")
    /\ PartTo(r, a, p, "empty")
    /\ UNCHANGED <<dataVars, stage, cache, launched, checks, prerun, deleting, faultVars,
                   ownVars, jobs, agg, rows, comparisons, candidates, faults>>

(* More candidates than allowed, in all packages so far: returns None.     *)
ComputeOverLimit(r, a, p) ==
    /\ PartAt(r, a, p, "counted")
    /\ candidates[r] > CandidateLimit
    /\ MarkFailure(r, "limit")
    /\ PartTo(r, a, p, "missing")
    /\ UNCHANGED <<dataVars, stage, cache, launched, checks, prerun, deleting, faultVars,
                   ownVars, jobs, agg, rows, comparisons, candidates, faults>>

ComputeStore(r, a, p) ==
    /\ PartAt(r, a, p, "counted")
    /\ candidates[r] <= CandidateLimit
    /\ PartTo(r, a, p, IF NumResults(r)[p] = 0 THEN "empty" ELSE "file")
    /\ UNCHANGED <<schedulerVars, ownVars, jobs, agg, rows, comparisons, candidates, faults>>

ComputeFails(r, a, p) ==
    /\ PartAt(r, a, p, "queued") \/ PartAt(r, a, p, "counted")
    /\ Retry(r, a, p)
    /\ Fails("compute")
    /\ UNCHANGED <<schedulerVars, ownVars, jobs, agg, rows, comparisons, candidates>>

-------------------------------------------------------------------------------
(* The chord and aggregate_comparisons                                     *)

AggAt(r, a, s) == agg[r][a] = s
AggTo(r, a, s) == agg' = [agg EXCEPT ![r][a] = s]
Results(r, a, s) == {p \in Package : PartAt(r, a, p, s)}

(* Mutant: the callback has no error callback.                             *)
ChordReturnsSilent(r, a) ==
    /\ AggAt(r, a, "waiting")
    /\ \A p \in Package : parts[r][a][p].step \in PartDone
    /\ AggTo(r, a, IF Results(r, a, "failed") = {} THEN "queued" ELSE "failed")
    /\ UNCHANGED <<schedulerVars, ownVars, jobs, parts, rows, comparisons, candidates, faults>>

(* All parts returned: the callback is sent, or its error callback, the    *)
(* run_failed_handler with the run_id.                                     *)
ChordReturns(r, a) ==
    /\ AggAt(r, a, "waiting")
    /\ \A p \in Package : parts[r][a][p].step \in PartDone
    /\ IF Results(r, a, "failed") = {}
       THEN AggTo(r, a, "queued") /\ UNCHANGED jobs
       ELSE AggTo(r, a, "failed") /\ Send(r, "failed")
    /\ UNCHANGED <<schedulerVars, ownVars, parts, rows, comparisons, candidates, faults>>

AggFails(r, a) ==
    /\ AggTo(r, a, "failed")
    /\ Send(r, "failed")

(* A result is None: TypeError, not retried.                               *)
AggregateMissing(r, a) ==
    /\ AggAt(r, a, "queued") \/ AggAt(r, a, "retry")
    /\ Results(r, a, "missing") # {}
    /\ AggFails(r, a)
    /\ UNCHANGED <<schedulerVars, ownVars, parts, rows, comparisons, candidates, faults>>

(* The files are merged two by two and the inputs deleted: a second        *)
(* execution does not find them and fails in each of its retries.          *)
AggregateMerge(r, a) ==
    /\ AggAt(r, a, "queued") \/ AggAt(r, a, "retry")
    /\ Results(r, a, "missing") = {}
    /\ IF AggAt(r, a, "retry") /\ Cardinality(Results(r, a, "file")) > 1
       THEN AggFails(r, a)
       ELSE AggTo(r, a, "merged") /\ UNCHANGED jobs
    /\ UNCHANGED <<schedulerVars, ownVars, parts, rows, comparisons, candidates, faults>>

(* Mutant: the whole task is retried, the inserted row included.           *)
AggregateFailsLate(r, a) ==
    /\ AggAt(r, a, "queued") \/ AggAt(r, a, "stored")
    /\ Results(r, a, "missing") = {}
    /\ AggTo(r, a, "retry")
    /\ Fails("aggregate")
    /\ UNCHANGED <<schedulerVars, ownVars, jobs, parts, rows, comparisons, candidates>>

(* The object store fails: retried, with the first inputs gone or not, or  *)
(* once too often.                                                         *)
AggregateFails(r, a) ==
    /\ AggAt(r, a, "queued")
    /\ Results(r, a, "missing") = {}
    /\ \/ Cardinality(Results(r, a, "file")) > 2 /\ AggTo(r, a, "retry") /\ UNCHANGED jobs
       \/ AggFails(r, a)
    /\ Fails("aggregate")
    /\ UNCHANGED <<schedulerVars, ownVars, parts, rows, comparisons, candidates>>

(* The next stage, for a run whose type has one; its progress starts anew. *)
Progress(r) ==
    /\ stage' = [stage EXCEPT ![r] = @ + 1]
    /\ comparisons' = [comparisons EXCEPT ![r] = 0]
    /\ candidates' = [candidates EXCEPT ![r] = 0]

(* Mutant: whatever the result type.                                       *)
NextStageAlways(r) == Progress(r)

NextStage(r) ==
    IF resultType = "similarity_scores" THEN UNCHANGED <<stage, comparisons, candidates>>
                                        ELSE Progress(r)

(* One transaction: the similarity file and the next stage.                *)
AggregateStore(r, a) ==
    /\ AggAt(r, a, "merged")
    /\ IF Exists(r)
       THEN /\ rows' = [rows EXCEPT ![r].scores = @ + 1]
            /\ AggTo(r, a, "stored")
            /\ NextStage(r)
            /\ UNCHANGED jobs
       ELSE AggFails(r, a) /\ UNCHANGED <<rows, stage, comparisons, candidates>>
    /\ UNCHANGED <<dataVars, state, errorMsg, cache, launched, checks, prerun, deleting,
                   faultVars, ownVars, parts, faults>>

AggregateSend(r, a) ==
    /\ AggAt(r, a, "stored")
    /\ AggTo(r, a, "sent")
    /\ Send(r, IF resultType = "similarity_scores" THEN "complete" ELSE "solver")
    /\ UNCHANGED <<schedulerVars, ownVars, parts, rows, comparisons, candidates, faults>>

-------------------------------------------------------------------------------
(* solver_task, save_and_permute, permute_mapping_data                     *)

(* The merged file, after _merge_similarities: each pair once, however     *)
(* many packages and chunks found it.                                      *)
Deduplicated(r) == {q \in Candidate : \E p \in Package : pairs[r][p][q] > 0}
Solvable(r) == Cardinality(Deduplicated(r)) <= SolverLimit

Solve(r) ==
    /\ jobs[r]["solver"] > 0
    /\ Solvable(r)
    /\ Step(r, "solver", "save")
    /\ UNCHANGED <<schedulerVars, ownVars, parts, agg, rows, comparisons, candidates, faults>>

SolveOverLimit(r) ==
    /\ jobs[r]["solver"] > 0
    /\ ~Solvable(r)
    /\ Done(r, "solver")
    /\ MarkFailure(r, "solver limit")
    /\ UNCHANGED <<dataVars, stage, cache, launched, checks, prerun, deleting, faultVars,
                   ownVars, parts, agg, rows, comparisons, candidates, faults>>

SaveGroups(r) ==
    /\ jobs[r]["save"] > 0
    /\ IF Exists(r)
       THEN Step(r, "save", "saved") /\ rows' = [rows EXCEPT ![r].groups = @ + 1]
       ELSE Done(r, "save") /\ UNCHANGED rows
    /\ UNCHANGED <<schedulerVars, ownVars, parts, agg, comparisons, candidates, faults>>

(* Mutants: the result type is ignored; completion does not wait.          *)
SendPermuteNever(r) ==
    /\ jobs[r]["saved"] > 0
    /\ Step(r, "saved", "complete")
    /\ UNCHANGED <<schedulerVars, ownVars, parts, agg, rows, comparisons, candidates, faults>>

SendPermuteAndComplete(r) ==
    /\ jobs[r]["saved"] > 0
    /\ jobs' = [jobs EXCEPT ![r]["saved"] = @ - 1, ![r]["permute"] = @ + 1,
                            ![r]["complete"] = @ + 1]
    /\ UNCHANGED <<schedulerVars, ownVars, parts, agg, rows, comparisons, candidates, faults>>

SendPermute(r) ==
    /\ jobs[r]["saved"] > 0
    /\ Step(r, "saved", IF resultType = "permutations" THEN "permute" ELSE "complete")
    /\ UNCHANGED <<schedulerVars, ownVars, parts, agg, rows, comparisons, candidates, faults>>

(* Mutant: completion is announced, the transaction is not committed.      *)
PermuteUncommitted(r) ==
    /\ jobs[r]["permute"] > 0
    /\ Step(r, "permute", "permuted")
    /\ UNCHANGED <<schedulerVars, ownVars, parts, agg, rows, comparisons, candidates, faults>>

(* Needs the groups and the data providers; writes the permutation of each *)
(* party and the mask in one transaction.                                  *)
Permute(r) ==
    /\ jobs[r]["permute"] > 0
    /\ IF Exists(r) /\ rows[r].groups > 0 /\ project # "cleaned"
       THEN Step(r, "permute", "permuted") /\ rows' = [rows EXCEPT ![r].perms = @ + 1]
       ELSE Done(r, "permute") /\ UNCHANGED rows
    /\ UNCHANGED <<schedulerVars, ownVars, parts, agg, comparisons, candidates, faults>>

SendComplete(r) ==
    /\ jobs[r]["permuted"] > 0
    /\ Step(r, "permuted", "complete")
    /\ UNCHANGED <<schedulerVars, ownVars, parts, agg, rows, comparisons, candidates, faults>>

(* None of these tasks has an error callback.                              *)
TaskFails(r) ==
    /\ \E t \in {"solver", "save", "permute"} :
          jobs[r][t] > 0 /\ Done(r, t) /\ Fails(t)
    /\ UNCHANGED <<schedulerVars, ownVars, parts, agg, rows, comparisons, candidates>>

-------------------------------------------------------------------------------
(* mark_run_complete, run_failed_handler                                   *)

(* Mutant: the row is written although it is gone.                         *)
MarkCompleteBlind(r) ==
    /\ jobs[r]["complete"] > 0
    /\ state' = [state EXCEPT ![r] = "completed"]
    /\ Step(r, "complete", "completed")
    /\ UNCHANGED <<dataVars, stage, errorMsg, cache, launched, checks, prerun, deleting,
                   faultVars, ownVars, parts, agg, rows, comparisons, candidates, faults>>

MarkComplete(r) ==
    /\ jobs[r]["complete"] > 0
    /\ state' = IF Exists(r) THEN [state EXCEPT ![r] = "completed"] ELSE state
    /\ Step(r, "complete", "completed")
    /\ UNCHANGED <<dataVars, stage, errorMsg, cache, launched, checks, prerun, deleting,
                   faultVars, ownVars, parts, agg, rows, comparisons, candidates, faults>>

CacheComplete(r) ==
    /\ jobs[r]["completed"] > 0
    /\ cache' = [cache EXCEPT ![r] = "complete"]
    /\ Done(r, "completed")
    /\ UNCHANGED <<dataVars, state, stage, errorMsg, launched, checks, prerun, deleting,
                   faultVars, ownVars, parts, agg, rows, comparisons, candidates, faults>>

RunFailed(r) ==
    /\ jobs[r]["failed"] > 0
    /\ Done(r, "failed")
    /\ MarkFailure(r, "internal")
    /\ UNCHANGED <<dataVars, stage, cache, launched, checks, prerun, deleting, faultVars,
                   ownVars, parts, agg, rows, comparisons, candidates, faults>>

-------------------------------------------------------------------------------
(* Deaths of workers and redelivery of pipeline messages                   *)

LoseTask(r) ==
    /\ \/ \E j \in JobStep : jobs[r][j] > 0 /\ Done(r, j) /\ UNCHANGED <<parts, agg>>
       \/ \E a \in Attempt, p \in Package :
             /\ PartAt(r, a, p, "queued") \/ PartAt(r, a, p, "counted")
             /\ PartTo(r, a, p, "none")
             /\ UNCHANGED <<jobs, agg>>
       \/ \E a \in Attempt :
             /\ agg[r][a] \in {"queued", "retry", "merged", "stored"}
             /\ AggTo(r, a, "failed")
             /\ UNCHANGED <<jobs, parts>>
    /\ Fails("lost")
    /\ UNCHANGED <<schedulerVars, ownVars, rows, comparisons, candidates>>

(* The message a step belongs to.                                          *)
MessageOf == [j \in {"dispatch", "solver", "saved", "permuted", "completed"} |->
                 CASE j = "dispatch"  -> "create"
                   [] j = "solver"    -> "solver"
                   [] j = "saved"     -> "save"
                   [] j = "permuted"  -> "permute"
                   [] j = "completed" -> "complete"]

RedeliverTask(r) ==
    /\ \/ \E j \in DOMAIN MessageOf :
             jobs[r][j] > 0 /\ Send(r, MessageOf[j]) /\ UNCHANGED <<parts, agg>>
       \/ \E a \in Attempt, p \in Package :
             /\ PartAt(r, a, p, "counted")
             /\ PartTo(r, a, p, "queued")
             /\ UNCHANGED <<jobs, agg>>
       \/ \E a \in Attempt :
             /\ agg[r][a] \in {"merged", "stored", "sent"}
             /\ AggTo(r, a, "retry")
             /\ UNCHANGED <<jobs, parts>>
    /\ Fails("redelivered")
    /\ UNCHANGED <<schedulerVars, ownVars, rows, comparisons, candidates>>

-------------------------------------------------------------------------------

ComputeStep(r, a, p) ==
    \/ ComputeInactive(r, a, p) \/ ComputeStale(r, a, p) \/ Compute(r, a, p)
    \/ ComputeOverLimit(r, a, p) \/ ComputeStore(r, a, p)

AggregateStep(r, a) ==
    \/ ChordReturns(r, a) \/ AggregateMissing(r, a) \/ AggregateMerge(r, a)
    \/ AggregateStore(r, a) \/ AggregateSend(r, a)

JobsStep(r) ==
    \/ CreateJobs(r) \/ CreateErrback(r) \/ DispatchChord(r)
    \/ Solve(r) \/ SolveOverLimit(r)
    \/ SaveGroups(r) \/ SendPermute(r) \/ Permute(r) \/ SendComplete(r)
    \/ MarkComplete(r) \/ CacheComplete(r) \/ RunFailed(r)

PipelineStep(r) ==
    \/ \E a \in Attempt, p \in Package : ComputeStep(r, a, p)
    \/ \E a \in Attempt : AggregateStep(r, a)
    \/ JobsStep(r)

PipelineFault(r) ==
    \/ CreateJobsFails(r) \/ TaskFails(r) \/ LoseTask(r) \/ RedeliverTask(r)
    \/ \E a \in Attempt : AggregateFails(r, a)
    \/ \E a \in Attempt, p \in Package : ComputeFails(r, a, p)

Next ==
    \/ SchedulerOnly \/ CleanProject
    \/ \E c \in Trigger : QueueAndClear(c)
    \/ \E r \in Run :
          LaunchRun(r) \/ CascadeDelete(r) \/ RefuseDelete(r) \/ PipelineStep(r)
          \/ PipelineFault(r)

Spec == Init /\ [][Next]_vars

(* Workers take every message of the pipeline; nothing else is promised.   *)
Fairness ==
    /\ \A r \in Run : WF_vars(LaunchRun(r))
    /\ \A r \in Run : WF_vars(JobsStep(r))
    /\ \A r \in Run, a \in Attempt : WF_vars(AggregateStep(r, a))
    /\ \A r \in Run, a \in Attempt, p \in Package : WF_vars(ComputeStep(r, a, p))

FairSpec == Spec /\ Fairness

-------------------------------------------------------------------------------

PipelineTypeOK ==
    /\ resultType \in ResultTypes
    /\ pairs \in [Run -> [Package -> Yields]]
    /\ jobs \in [Run -> [JobStep -> Nat]]
    /\ parts \in [Run -> [Attempt -> [Package -> [step : PartStep, tries : 0..MaxRetries]]]]
    /\ agg \in [Run -> [Attempt -> AggStep]]
    /\ rows \in [Run -> [scores : Nat, groups : Nat, perms : Nat]]
    /\ comparisons \in [Run -> Nat]
    /\ candidates \in [Run -> Nat]
    /\ faults \in Nat

LifecycleTypeOK == TypeOK /\ PipelineTypeOK

(* What GET result of a completed run reads is there: its similarity file, *)
(* its groups or its permutations and mask, by the result type             *)
(* (views/run/results.py:41-66), unless the project is removed.            *)
CompletedRunHasResult ==
    project # "cleaned" =>
        \A r \in Run : state[r] = "completed" =>
            CASE resultType = "similarity_scores" -> rows[r].scores > 0
              [] resultType = "groups"            -> rows[r].groups > 0
              [] resultType = "permutations"      -> rows[r].perms > 0

(* A completed run is at the last stage of its type (models/run.py:11-35): *)
(* no stage is skipped or counted twice by a retried task.                 *)
CompletedRunAtLastStage ==
    \A r \in Run : state[r] = "completed" =>
        stage[r] = IF resultType = "similarity_scores" THEN 2 ELSE 3

(* A run is never completed whose packages found more candidate pairs than *)
(* allowed, duplicates included, in whatever order they count theirs and   *)
(* read the total (comparing.py:357-372); nor one with more different      *)
(* pairs than the solver takes (solver.py:27-34).                          *)
AllPairs(r) == SumFunction(NumResults(r))
WithinLimit(r) == AllPairs(r) <= CandidateLimit

LimitsHold ==
    \A r \in Run : state[r] = "completed" =>
        WithinLimit(r) /\ (resultType # "similarity_scores" => Solvable(r))

(* "More than one similarity score file associated with a single run" is   *)
(* an assertion failure (selections.py:536).                               *)
OneSimilarityFile == \A r \in Run : rows[r].scores <= 1

(* A completed run is final: no task that still runs turns it into a       *)
(* failed one or changes its result.  None of the UPDATEs checks the state *)
(* it overwrites (insertions.py:287-322).                                  *)
CompletedIsFinal ==
    [][\A r \in Run : state[r] = "completed" =>
          /\ state'[r] \in {"completed", "deleted"}
          /\ rows'[r] = rows[r] \/ state'[r] = "deleted" \/ project' = "cleaned"]_vars

(* Every launched run is completed, failed or deleted in the end, or its   *)
(* project is.                                                             *)
RunsConclude ==
    \A r \in Run : launched[r] > 0 ~>
        (state[r] \in {"completed", "error", "deleted"} \/ project # "live")

(* The pipeline stays within what the scheduler assumes of it.             *)
ImplementsScheduler == SchedulerSpec

-------------------------------------------------------------------------------
(* The invariants the safety properties follow from                        *)

(* Nothing of the pipeline is there before the launch of a run.            *)
Untouched(r) ==
    /\ \A j \in JobStep : jobs[r][j] = 0
    /\ \A a \in Attempt : agg[r][a] = "none"
    /\ \A a \in Attempt, p \in Package : parts[r][a][p].step = "none"
    /\ rows[r].scores = 0
    /\ state[r] # "completed"

NothingBeforeLaunch == \A r \in Run : launched[r] = 0 => Untouched(r)

(* A result is there, or was with a run or a project that is gone.         *)
HasScores(r) == ~Exists(r) \/ rows[r].scores > 0
HasGroups(r) == ~Exists(r) \/ project = "cleaned" \/ rows[r].groups > 0
HasPerms(r)  == ~Exists(r) \/ project = "cleaned" \/ rows[r].perms > 0

HasResult(r) ==
    /\ resultType = "groups" => HasGroups(r)
    /\ resultType = "permutations" => HasPerms(r)

(* What task j of a run finds there, whichever messages were lost or came  *)
(* again; it is not sent at all if the result type does not ask for it.    *)
Needs(r, j) ==
    /\ j \in {"solver", "save", "saved", "permute", "permuted", "complete", "completed"} => HasScores(r)
    /\ j = "saved" => HasGroups(r)
    /\ j = "permuted" => HasPerms(r)
    /\ j \in {"complete", "completed"} => HasResult(r)
    /\ resultType = "similarity_scores" => j \notin {"solver", "save", "saved"}
    /\ resultType # "permutations" => j \notin {"permute", "permuted"}

Delivered(r) ==
    /\ \A j \in JobStep : jobs[r][j] > 0 => Needs(r, j)
    /\ \A a \in Attempt : agg[r][a] \in {"stored", "sent"} => HasScores(r)
    /\ state[r] = "completed" => Needs(r, "completed")

LifecycleInvariant == NothingBeforeLaunch /\ \A r \in Run : Delivered(r)

(* Unless a message of the pipeline comes again, one task of a run is      *)
(* under way at a time, the tasks of its one chord apart.                  *)
Later == {"solver", "save", "saved", "permute", "permuted", "complete", "completed", "failed"}
Over(r) == \A a \in Attempt : agg[r][a] \in {"none", "sent", "failed"}

OneTask(r) ==
    /\ \A j \in JobStep : jobs[r][j] <= 1
    /\ \A j, k \in JobStep : jobs[r][j] > 0 /\ jobs[r][k] > 0 => j = k
    /\ \A j \in Later : jobs[r][j] > 0 => Over(r)
    /\ state[r] = "completed" => Over(r) /\ \A j \in JobStep \ {"completed"} : jobs[r][j] = 0

OneChord(r) ==
    /\ \A j \in JobStep \ Later : jobs[r][j] > 0 => \A a \in Attempt : agg[r][a] = "none"
    /\ \A a, b \in Attempt : agg[r][a] # "none" /\ agg[r][b] # "none" => a = b
    /\ \A a \in Attempt, p \in Package :
          parts[r][a][p].step \in {"queued", "counted"} => agg[r][a] = "waiting"
    /\ rows[r].scores <= 1
    /\ rows[r].scores > 0 => \E a \in Attempt : agg[r][a] \in {"stored", "sent", "failed"}

StageCounted(r) ==
    /\ state[r] \in {"unposted", "created"} => stage[r] = 1
    /\ sizing = "agree" /\ Exists(r) /\ state[r] # "created" =>
          stage[r] = IF resultType # "similarity_scores" /\ rows[r].scores > 0 THEN 3 ELSE 2

SequentialInvariant == \A r \in Run : OneTask(r) /\ OneChord(r) /\ StageCounted(r)

(* A run with too many candidates keeps a package that is not stored, as   *)
(* long as the count in redis covers all it has counted: the last package  *)
(* to be stored would find the total above the limit.                      *)
Counted(r, a) == {p \in Package : parts[r][a][p].step \in {"counted", "empty", "file"}}
Stored(r, a)  == {p \in Package : parts[r][a][p].step \in {"empty", "file"}}

ChordLimited(r, a) ==
    /\ \/ WithinLimit(r)
       \/ SumFunctionOnSet(NumResults(r), Counted(r, a)) <= candidates[r] /\ Stored(r, a) # Package
    /\ agg[r][a] \in {"queued", "retry", "merged", "stored", "sent"} =>
          \A p \in Package : parts[r][a][p].step \in {"missing", "empty", "file"}
    /\ agg[r][a] \in {"merged", "stored", "sent"} => Stored(r, a) = Package

(* What task j of a run knows of its size.                                 *)
Cleared(r, j) ==
    /\ j \in Later \ {"failed"} => WithinLimit(r)
    /\ j \in Later \ {"failed", "solver"} /\ resultType # "similarity_scores" =>
          Solvable(r)

(* No chord and no later task of a run gets past the limits, by which      *)
(* LimitsHold holds (comparing.py:357-372, solver.py:29-34).               *)
LimitInvariant ==
    \A r \in Run :
        /\ \A a \in Attempt : ChordLimited(r, a)
        /\ \A j \in JobStep : jobs[r][j] > 0 => Cleared(r, j)
        /\ state[r] = "completed" => Cleared(r, "completed")

(* The failed task of a live run marks the run as failed: "Record that a   *)
(* task has encountered an error, mark the run as failed."                 *)
(* (base_task.py:109)                                                      *)
FailureMarksRun ==
    \A r \in Run : jobs[r]["errback"] > 0 ~>
        (state[r] \in {"error", "deleted"} \/ project # "live")
==============================================================================
