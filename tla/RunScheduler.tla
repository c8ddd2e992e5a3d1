----------------------------- MODULE RunScheduler -----------------------------
(***************************************************************************)
(* How a run of one project gets started.  Clients post and delete runs    *)
(* and delete the project through the web views; the workers that ingest   *)
(* the parties' encodings, and every posted run, enqueue the celery task   *)
(* check_for_executable_runs; that task queues the created runs and        *)
(* enqueues a prerun_check for each; prerun_check starts the run under a   *)
(* row lock and launches create_comparison_jobs.                           *)
(*                                                                         *)
(* An action is one step another process can observe: a committed          *)
(* transaction, a write to redis, a message put on the broker, or the      *)
(* death of the process between two of them.  What the comparison tasks do *)
(* to the run afterwards is the action PipelineOutcome; RunLifecycle       *)
(* replaces it by those tasks.                                             *)
(***************************************************************************)
EXTENDS Integers

CONSTANTS
    Run,             \* run ids the clients' posts may create
    Party,           \* data providers of the project
    Sizings,         \* what check_and_set_project_encoding_size may find: the
                     \* sizes agree, are out of bounds, are no multiple of 8
                     \* bytes, or a party's differs from the project's
    Deletable,       \* runs, and "project", the clients may ask to delete
    Failures,        \* messages the pipeline of a run may fail it with
    Stages,          \* bound: the stages the pipeline may take a run to
    MaxLost,         \* bound: processes that die with what they had to do
    MaxRedelivered   \* bound: messages the broker delivers once more

Sizing == {"agree", "bounds", "multiple"} \union Party

ASSUME SchedulerAssumption ==
    /\ Run \cap Party = {}
    /\ Sizings \subseteq Sizing
    /\ Deletable \subseteq Run \union {"project"}
    /\ "sizes" \notin Failures
    /\ Stages \subseteq Nat
    /\ MaxLost \in Nat
    /\ MaxRedelivered \in Nat

VARIABLES
    project,      \* how far the deletion of the project is
    sizing,       \* what the encoding sizes of the project turn out to be
    ready,        \* parties whose upload is done and in state 'ready'
    errored,      \* parties whose uploads row is in state 'error'
    state,        \* runs.state of each run, or why it has no row
    stage,        \* runs.stage
    errorMsg,     \* runs.error_msg
    cache,        \* the 'state' key of the run's redis hash
    checks,       \* the check_for_executable_runs each trigger leads to
    prerun,       \* prerun[r][s]: deliveries of r's prerun_check at step s
    deleting,     \* runs whose DELETE request has reached redis only
    launched,     \* create_comparison_jobs messages sent for the run
    lost,
    redelivered

schedulerVars == <<project, sizing, ready, errored, state, stage, errorMsg, cache,
                   checks, prerun, deleting, launched, lost, redelivered>>

Trigger == Run \union Party

RunState     == {"created", "queued", "running", "completed", "error"}
RowState     == RunState \union {"unposted", "deleted"}
CacheState   == {"missing", "active", "complete", "deleted"}
ProjectState == {"live", "marked", "queued", "caching", "cleaned", "orphaned"}
Message      == {"none", "sizes"} \union Failures
CheckStep    == {"idle", "posting", "saved", "ingested", "queued", "sizes",
                 "failing", "sending", "gone"}
PrerunStep   == {"queued", "tx", "locked", "cached", "send"}

Exists(r) == state[r] \in RunState
Locked(r) == prerun[r]["locked"] + prerun[r]["cached"] > 0

SchedulerInit ==
    /\ project = "live"
    /\ sizing \in Sizings
    /\ ready = {}
    /\ errored = {}
    /\ state = [r \in Run |-> "unposted"]
    /\ stage = [r \in Run |-> 1]
    /\ errorMsg = [r \in Run |-> "none"]
    /\ cache = [r \in Run |-> "missing"]
    /\ checks = [c \in Trigger |-> [step |-> "idle", new |-> {}]]
    /\ prerun = [r \in Run |-> [s \in PrerunStep |-> 0]]
    /\ deleting = {}
    /\ launched = [r \in Run |-> 0]
    /\ lost = 0
    /\ redelivered = 0

At(c, s) == checks[c].step = s
GoTo(c, s) == checks' = [checks EXCEPT ![c] = [step |-> s, new |-> {}]]

runVars   == <<state, stage, errorMsg, cache, launched>>
faultVars == <<lost, redelivered>>
dataVars  == <<project, sizing, ready, errored>>

-------------------------------------------------------------------------------
(* Web views and the ingestion of encodings                                *)

(* POST runs: the project exists and no upload of it is in error.          *)
PostRun(r) ==
    /\ At(r, "idle")
    /\ project = "live"
    /\ errored = {}
    /\ GoTo(r, "posting")
    /\ UNCHANGED <<dataVars, runVars, prerun, deleting, faultVars>>

(* The view inserts the row, although the project may be marked by now.    *)
SaveRun(r) ==
    /\ At(r, "posting")
    /\ state' = [state EXCEPT ![r] = "created"]
    /\ GoTo(r, "saved")
    /\ UNCHANGED <<dataVars, stage, errorMsg, cache, launched, prerun, deleting, faultVars>>

SendCheck(r) ==
    /\ At(r, "saved")
    /\ GoTo(r, "queued")
    /\ UNCHANGED <<dataVars, runVars, prerun, deleting, faultVars>>

(* The upload of p is done and a worker commits its encodings as ready;    *)
(* after the removal of the project's data, too, if it was in progress.    *)
UploadReady(p) ==
    /\ At(p, "idle")
    /\ ready' = ready \union {p}
    /\ GoTo(p, "ingested")
    /\ UNCHANGED <<project, sizing, errored, runVars, prerun, deleting, faultVars>>

(* Mutant: the parties are counted before the encodings are committed.     *)
CountReadyStale(p) ==
    /\ At(p, "ingested")
    /\ GoTo(p, IF ready \ {p} = Party THEN "queued" ELSE "gone")
    /\ UNCHANGED <<dataVars, runVars, prerun, deleting, faultVars>>

(* ... and then schedules the check if it finds all parties' data there.   *)
(* The tasks that pull external data count what was uploaded, ready or     *)
(* not: they may schedule it early.                                        *)
CountReady(p) ==
    /\ At(p, "ingested")
    /\ \/ GoTo(p, "queued")
       \/ ready # Party /\ GoTo(p, "gone")
    /\ UNCHANGED <<dataVars, runVars, prerun, deleting, faultVars>>

(* DELETE run: the run exists; redis is told first, the row goes later.    *)
DeleteRun(r) ==
    /\ Exists(r)
    /\ r \in Deletable \ deleting
    /\ cache' = [cache EXCEPT ![r] = "deleted"]
    /\ deleting' = deleting \union {r}
    /\ UNCHANGED <<dataVars, state, stage, errorMsg, launched, checks, prerun, faultVars>>

(* Mutant: the DELETE does not wait for the transaction that locks the row *)
DeleteRowUnlocked(r) ==
    /\ r \in deleting
    /\ state' = [state EXCEPT ![r] = "deleted"]
    /\ deleting' = deleting \ {r}
    /\ UNCHANGED <<dataVars, stage, errorMsg, cache, launched, checks, prerun, faultVars>>

(* The row goes, with the rows of the result tables (on delete cascade).   *)
DeleteRow(r) ==
    /\ r \in deleting
    /\ ~Locked(r)
    /\ state' = [state EXCEPT ![r] = "deleted"]
    /\ deleting' = deleting \ {r}
    /\ UNCHANGED <<dataVars, stage, errorMsg, cache, launched, checks, prerun, faultVars>>

(* DELETE project, then the message for remove_project.                    *)
MarkProject ==
    /\ "project" \in Deletable
    /\ project = "live"
    /\ project' = "marked"
    /\ UNCHANGED <<sizing, ready, errored, runVars, checks, prerun, deleting, faultVars>>

SendRemoveProject ==
    /\ project = "marked"
    /\ project' = "queued"
    /\ UNCHANGED <<sizing, ready, errored, runVars, checks, prerun, deleting, faultVars>>

(* remove_project: every run it reads is set deleted in redis, ...         *)
RemoveProjectCaches ==
    /\ project = "queued"
    /\ project' = "caching"
    /\ cache' = [r \in Run |-> IF Exists(r) THEN "deleted" ELSE cache[r]]
    /\ UNCHANGED <<sizing, ready, errored, state, stage, errorMsg, launched, checks,
                   prerun, deleting, faultVars>>

(* ... then the data goes, with the data providers whose upload is done;   *)
(* the rows of runs stay.                                                  *)
RemoveProjectData ==
    /\ project = "caching"
    /\ project' = "cleaned"
    /\ ready' = {}
    /\ errored' = {}
    /\ UNCHANGED <<sizing, runVars, checks, prerun, deleting, faultVars>>

-------------------------------------------------------------------------------
(* check_for_executable_runs, one task per trigger                         *)

(* Mutant: the check trusts whoever scheduled it.                          *)
CheckUploadsNot(c) ==
    /\ At(c, "queued")
    /\ GoTo(c, "sizes")
    /\ UNCHANGED <<dataVars, runVars, prerun, deleting, faultVars>>

CheckUploads(c) ==
    /\ At(c, "queued")
    /\ GoTo(c, IF ready = Party THEN "sizes" ELSE "gone")
    /\ UNCHANGED <<dataVars, runVars, prerun, deleting, faultVars>>

(* The parties get_uploaded_encoding_sizes finds once all were ready.      *)
SizedUploads == ready \union errored

(* The uploads were removed since they were counted: the list of sizes is  *)
(* empty, its first element missing, and the task fails.                   *)
NoUploads(c) ==
    /\ At(c, "sizes")
    /\ SizedUploads = {}
    /\ GoTo(c, "gone")
    /\ UNCHANGED <<dataVars, runVars, prerun, deleting, faultVars>>

(* The uploads handle_invalid_encoding_data is called for.                 *)
Offending ==
    IF sizing \in Party THEN {sizing} ELSE IF sizing = "bounds" THEN Party ELSE {}

(* The sizes do not agree: the offending uploads are marked in a           *)
(* transaction of their own, ...                                           *)
RejectUploads(c) ==
    /\ At(c, "sizes")
    /\ SizedUploads # {}
    /\ sizing # "agree"
    /\ ready' = ready \ Offending
    /\ errored' = errored \union Offending
    /\ GoTo(c, "failing")
    /\ UNCHANGED <<project, sizing, runVars, prerun, deleting, faultVars>>

(* ... then every run of the project is; the UPDATE waits for locked rows. *)
FailRuns(c) ==
    /\ At(c, "failing")
    /\ \A r \in Run : ~Locked(r)
    /\ state' = [r \in Run |-> IF Exists(r) THEN "error" ELSE state[r]]
    /\ errorMsg' = [r \in Run |-> IF Exists(r) THEN "sizes" ELSE errorMsg[r]]
    /\ GoTo(c, "gone")
    /\ UNCHANGED <<dataVars, stage, cache, launched, prerun, deleting, faultVars>>

(* Mutant: the runs are queued although the sizes were rejected.           *)
QueueRunsAnySize(c) ==
    /\ At(c, "sizes")
    /\ SizedUploads # {}
    /\ LET new == {r \in Run : state[r] = "created"} IN
         /\ state' = [r \in Run |-> IF r \in new THEN "queued" ELSE state[r]]
         /\ stage' = [r \in Run |-> IF r \in new THEN stage[r] + 1 ELSE stage[r]]
         /\ checks' = [checks EXCEPT ![c] = [step |-> "sending", new |-> new]]
    /\ UNCHANGED <<dataVars, errorMsg, cache, launched, prerun, deleting, faultVars>>

(* get_created_runs_and_queue and the stage of each run, one transaction.  *)
QueueRuns(c) ==
    /\ At(c, "sizes")
    /\ SizedUploads # {}
    /\ sizing = "agree"
    /\ LET new == {r \in Run : state[r] = "created"} IN
         /\ state' = [r \in Run |-> IF r \in new THEN "queued" ELSE state[r]]
         /\ stage' = [r \in Run |-> IF r \in new THEN stage[r] + 1 ELSE stage[r]]
         /\ checks' = [checks EXCEPT ![c] = [step |-> "sending", new |-> new]]
    /\ UNCHANGED <<dataVars, errorMsg, cache, launched, prerun, deleting, faultVars>>

SendPrerun(c, r) ==
    /\ At(c, "sending")
    /\ r \in checks[c].new
    /\ prerun' = [prerun EXCEPT ![r]["queued"] = @ + 1]
    /\ checks' = [checks EXCEPT ![c].new = @ \ {r}]
    /\ UNCHANGED <<dataVars, runVars, deleting, faultVars>>

CheckDone(c) ==
    /\ At(c, "sending")
    /\ checks[c].new = {}
    /\ GoTo(c, "gone")
    /\ UNCHANGED <<dataVars, runVars, prerun, deleting, faultVars>>

-------------------------------------------------------------------------------
(* prerun_check                                                            *)

Advance(r, s, t) == prerun' = [prerun EXCEPT ![r][s] = @ - 1, ![r][t] = @ + 1]
Leave(r, s)      == prerun' = [prerun EXCEPT ![r][s] = @ - 1]

(* The run must be unknown to redis.                                       *)
PrerunCache(r) ==
    /\ prerun[r]["queued"] > 0
    /\ IF cache[r] = "missing" THEN Advance(r, "queued", "tx") ELSE Leave(r, "queued")
    /\ UNCHANGED <<dataVars, runVars, checks, deleting, faultVars>>

(* Mutants: the state the row lock protects is not looked at; the row is   *)
(* read without FOR UPDATE.                                                *)
MayStartAnyState(r) == project = "live" /\ ~Locked(r) /\ Exists(r)
MayStartUnlocked(r) == project = "live" /\ state[r] \in {"created", "queued"}

(* The project is not marked, the row is there, not locked by another      *)
(* delivery, and not started yet: then it is locked and set 'running'.     *)
MayStart(r) == project = "live" /\ ~Locked(r) /\ state[r] \in {"created", "queued"}

PrerunLock(r) ==
    /\ prerun[r]["tx"] > 0
    /\ IF MayStart(r) THEN Advance(r, "tx", "locked") ELSE Leave(r, "tx")
    /\ UNCHANGED <<dataVars, runVars, checks, deleting, faultVars>>

(* Mutant: redis is given the state of the database.                       *)
PrerunActivateRunning(r) ==
    /\ prerun[r]["locked"] > 0
    /\ cache' = [cache EXCEPT ![r] = "running"]
    /\ Advance(r, "locked", "cached")
    /\ UNCHANGED <<dataVars, state, stage, errorMsg, launched, checks, deleting, faultVars>>

PrerunActivate(r) ==
    /\ prerun[r]["locked"] > 0
    /\ cache' = [cache EXCEPT ![r] = "active"]
    /\ Advance(r, "locked", "cached")
    /\ UNCHANGED <<dataVars, state, stage, errorMsg, launched, checks, deleting, faultVars>>

PrerunCommit(r) ==
    /\ prerun[r]["cached"] > 0
    /\ state' = [state EXCEPT ![r] = "running"]
    /\ Advance(r, "cached", "send")
    /\ UNCHANGED <<dataVars, stage, errorMsg, cache, launched, checks, deleting, faultVars>>

PrerunLaunch(r) ==
    /\ prerun[r]["send"] > 0
    /\ launched' = [launched EXCEPT ![r] = @ + 1]
    /\ Leave(r, "send")
    /\ UNCHANGED <<dataVars, state, stage, errorMsg, cache, checks, deleting, faultVars>>

-------------------------------------------------------------------------------
(* What the tasks launched for a run do to it, and to a request to delete  *)
(* it: the view refuses when the tasks left two similarity files.          *)

DeleteRefused(r) ==
    /\ launched[r] > 0
    /\ r \in deleting
    /\ deleting' = deleting \ {r}
    /\ UNCHANGED <<dataVars, runVars, checks, prerun, faultVars>>

PipelineOutcome(r) ==
    /\ launched[r] > 0
    /\ \/ /\ Exists(r)
          /\ state' = [state EXCEPT ![r] = "completed"]
          /\ UNCHANGED <<stage, errorMsg, cache>>
       \/ /\ Exists(r)
          /\ state' = [state EXCEPT ![r] = "error"]
          /\ \E m \in Failures : errorMsg' = [errorMsg EXCEPT ![r] = m]
          /\ UNCHANGED <<stage, cache>>
       \/ /\ Exists(r)
          /\ stage[r] + 1 \in Stages
          /\ stage' = [stage EXCEPT ![r] = @ + 1]
          /\ UNCHANGED <<state, errorMsg, cache>>
       \/ /\ cache' = [cache EXCEPT ![r] = "complete"]
          /\ UNCHANGED <<state, stage, errorMsg>>
    /\ UNCHANGED <<dataVars, launched, checks, prerun, deleting, faultVars>>

-------------------------------------------------------------------------------
(* Faults.  A web process, or a worker whose message was acknowledged when *)
(* received, dies and nobody continues.  Acknowledging late, the broker    *)
(* delivers the message again: after the death of the worker, after its    *)
(* last step if the acknowledgement did not get through, or while it still *)
(* works once the visibility timeout has passed.                           *)

Lose      == lost < MaxLost /\ lost' = lost + 1 /\ UNCHANGED redelivered
Redeliver == redelivered < MaxRedelivered /\ redelivered' = redelivered + 1 /\ UNCHANGED lost

LoseCheck(c) ==
    /\ Lose
    /\ ~At(c, "idle") /\ ~At(c, "gone")
    /\ GoTo(c, "gone")
    /\ UNCHANGED <<dataVars, runVars, prerun, deleting>>

LosePrerun(r) ==
    /\ Lose
    /\ \E s \in PrerunStep : prerun[r][s] > 0 /\ Leave(r, s)
    /\ UNCHANGED <<dataVars, runVars, checks, deleting>>

LoseDelete(r) ==
    /\ Lose
    /\ r \in deleting
    /\ deleting' = deleting \ {r}
    /\ UNCHANGED <<dataVars, runVars, checks, prerun>>

LoseRemoveProject ==
    /\ Lose
    /\ project \in {"marked", "queued", "caching"}
    /\ project' = "orphaned"
    /\ UNCHANGED <<sizing, ready, errored, runVars, checks, prerun, deleting>>

RedeliverCheck(c) ==
    /\ Redeliver
    /\ \E s \in {"sizes", "failing", "sending"} : At(c, s)
    /\ GoTo(c, "queued")
    /\ UNCHANGED <<dataVars, runVars, prerun, deleting>>

RedeliverPrerun(r) ==
    /\ Redeliver
    /\ \E s \in PrerunStep \ {"queued"} : prerun[r][s] > 0
    /\ prerun' = [prerun EXCEPT ![r]["queued"] = @ + 1]
    /\ UNCHANGED <<dataVars, runVars, checks, deleting>>

RedeliverRemoveProject ==
    /\ Redeliver
    /\ project = "caching"
    /\ project' = "queued"
    /\ UNCHANGED <<sizing, ready, errored, runVars, checks, prerun, deleting>>

-------------------------------------------------------------------------------

Client ==
    \/ \E r \in Run : PostRun(r) \/ DeleteRun(r)
    \/ \E p \in Party : UploadReady(p)
    \/ MarkProject

View ==
    \/ \E r \in Run : SaveRun(r) \/ SendCheck(r) \/ DeleteRow(r)
    \/ \E p \in Party : CountReady(p)
    \/ SendRemoveProject

Check(c) ==
    \/ CheckUploads(c) \/ NoUploads(c) \/ RejectUploads(c) \/ FailRuns(c)
    \/ QueueRuns(c) \/ CheckDone(c)
    \/ \E r \in Run : SendPrerun(c, r)

Prerun(r) ==
    \/ PrerunCache(r) \/ PrerunLock(r) \/ PrerunActivate(r)
    \/ PrerunCommit(r) \/ PrerunLaunch(r)

RemoveProject == RemoveProjectCaches \/ RemoveProjectData

Fault ==
    \/ \E c \in Trigger : LoseCheck(c) \/ RedeliverCheck(c)
    \/ \E r \in Run : LosePrerun(r) \/ LoseDelete(r) \/ RedeliverPrerun(r)
    \/ LoseRemoveProject \/ RedeliverRemoveProject

SchedulerNext ==
    \/ Client \/ View \/ RemoveProject \/ Fault
    \/ \E c \in Trigger : Check(c)
    \/ \E r \in Run : Prerun(r) \/ PipelineOutcome(r) \/ DeleteRefused(r)

SchedulerSpec == SchedulerInit /\ [][SchedulerNext]_schedulerVars

(* Web servers finish the requests they began and workers take every       *)
(* message; whether a client sends another request is the client's choice. *)
SchedulerFairness ==
    /\ \A r \in Run : WF_schedulerVars(SaveRun(r)) /\ WF_schedulerVars(SendCheck(r))
    /\ \A r \in Run : WF_schedulerVars(DeleteRow(r))
    /\ \A p \in Party : WF_schedulerVars(CountReady(p))
    /\ \A c \in Trigger : WF_schedulerVars(Check(c))
    /\ \A r \in Run : WF_schedulerVars(Prerun(r))
    /\ WF_schedulerVars(SendRemoveProject) /\ WF_schedulerVars(RemoveProject)

FairSchedulerSpec == SchedulerSpec /\ SchedulerFairness

-------------------------------------------------------------------------------

TypeOK ==
    /\ project \in ProjectState
    /\ sizing \in Sizings
    /\ ready \subseteq Party
    /\ errored \subseteq Party
    /\ state \in [Run -> RowState]
    /\ stage \in [Run -> Nat]
    /\ errorMsg \in [Run -> Message]
    /\ cache \in [Run -> CacheState]
    /\ checks \in [Trigger -> [step : CheckStep, new : SUBSET Run]]
    /\ prerun \in [Run -> [PrerunStep -> Nat]]
    /\ deleting \subseteq Run
    /\ launched \in [Run -> Nat]
    /\ lost \in Nat
    /\ redelivered \in Nat

(* The comparison of a run is never launched twice, whatever posts and     *)
(* uploads trigger checks at the same time and whatever prerun_check is    *)
(* delivered again (the race behind issue 194, insertions.py:363-382).     *)
LaunchedAtMostOnce == \A r \in Run : launched[r] <= 1

(* A run is launched only with every party's encodings ready and of one    *)
(* usable size, unless the project's data has been removed since           *)
(* (pre_run_check.py:21-32 decides that several tasks before the launch).  *)
LaunchedOnUsableData ==
    \A r \in Run : launched[r] > 0 =>
        sizing = "agree" /\ (ready = Party \/ project = "cleaned")

(* A run that was rejected for its encodings keeps that reason: nothing    *)
(* that runs concurrently starts it or overwrites the message.             *)
RejectionIsFinal ==
    [][\A r \in Run : errorMsg[r] = "sizes" =>
          errorMsg'[r] = "sizes" /\ state'[r] \in {"error", "deleted"}]_schedulerVars

(* With no process lost, a created run whose project has all its encodings *)
(* is started, rejected or deleted, or its project is: the check tasks of  *)
(* concurrent posts and uploads never each leave it to the other.          *)
CreatedRunsStart ==
    \A r \in Run : (state[r] = "created" /\ ready = Party) ~>
        (state[r] \notin {"created", "queued"} \/ project # "live")

-------------------------------------------------------------------------------
(* The inductive invariant the safety properties follow from               *)

(* One delivery of the prerun_check of a run at most has passed the row    *)
(* lock, and the state of the row tells the others so.                     *)
OneStarter ==
    \A r \in Run :
        /\ prerun[r]["send"] + launched[r] <= 1
        /\ prerun[r]["locked"] + prerun[r]["cached"] <= 1
        /\ Locked(r) => state[r] = "queued"
        /\ prerun[r]["send"] + launched[r] > 0 => state[r] \notin {"unposted", "created", "queued"}
        /\ \A s \in PrerunStep : prerun[r][s] > 0 => state[r] \notin {"unposted", "created"}

RowConsistent ==
    \A r \in Run :
        /\ checks[r].step \in {"idle", "posting"} => state[r] = "unposted"
        /\ r \in deleting => Exists(r)
        /\ errorMsg[r] = "sizes" => state[r] \in {"error", "deleted"}

NewRunsQueued ==
    \A c \in Trigger : \A r \in checks[c].new : state[r] \notin {"unposted", "created"}

(* Nothing of a run was set in motion.                                     *)
Dormant(r) == launched[r] = 0 /\ \A s \in PrerunStep : prerun[r][s] = 0

(* Encodings that do not agree: no run gets beyond 'created'.              *)
NothingQueued ==
    sizing # "agree" =>
        /\ \A r \in Run : Dormant(r) /\ state[r] \in {"unposted", "created", "error", "deleted"}
        /\ \A c \in Trigger : checks[c].new = {}

(* Encodings that agree: no run is rejected.                               *)
NothingRejected ==
    sizing = "agree" =>
        /\ \A c \in Trigger : checks[c].step # "failing"
        /\ \A r \in Run : errorMsg[r] # "sizes"

(* A check gets beyond the counting only when all encodings are ready.     *)
DataFirst ==
    sizing = "agree" =>
        \/ ready = Party
        \/ project = "cleaned"
        \/ /\ \A c \in Trigger : checks[c].step \notin {"sizes", "sending"}
           /\ \A r \in Run : Dormant(r)

(* What holds between the rows, the messages and the steps of the tasks    *)
(* (pre_run_check.py:13-45, run.py:13-53): the properties above follow.    *)
SchedulerInvariant ==
    /\ OneStarter
    /\ RowConsistent
    /\ NewRunsQueued
    /\ NothingQueued
    /\ NothingRejected
    /\ DataFirst

(* The scheduler implements the contract of RunContract.                   *)
Contract == INSTANCE RunContract WITH phase <- state, launches <- launched
ImplementsContract == Contract!ContractSpec
===============================================================================
