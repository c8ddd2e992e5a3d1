# Anonlink entity service: TLA+ models, model checking and proofs

The entity service links the records of several data providers without seeing
them: the providers upload encodings, a client posts *runs*, and celery workers
compare the encodings, solve for the matching and store the result. Web servers
(flask), workers (celery), PostgreSQL, redis and an object store (minio) share
the work, so that what is hard about the service is not one function but the
order in which processes write to three stores and one broker. That is what is
modelled here.

Paths below are relative to `src/backend/entityservice/` unless they begin with
`docs/`, `deployment/` or `tools/`.

## 1. The system

### Components

| component | state it keeps | operations | in |
|---|---|---|---|
| project and run views | rows of `projects`, `runs` | post, delete, describe, status, result | `views/project.py`, `views/run/` |
| upload views | `dataproviders.uploaded`, `uploads`, quarantine files | binary and JSON upload, external objects | `views/project.py` |
| ingestion tasks | `uploads.state`, `encodings`, `blocks` | `handle_raw_upload`, `pull_external_data*`, `handle_upload_error` | `tasks/encoding_uploading.py`, `encoding_storage.py` |
| run scheduling | `runs.state`, `runs.stage`, redis `state` | `check_for_executable_runs`, `prerun_check` | `tasks/pre_run_check.py`, `tasks/run.py` |
| comparison pipeline | chord, intermediate files, `similarity_scores` | `create_comparison_jobs`, `compute_filter_similarity`, `aggregate_comparisons` | `tasks/comparing.py` |
| solving and output | `run_results`, `permutations`, `permutation_masks` | `solver_task`, `save_and_permute`, `permute_mapping_data`, `mark_run_complete` | `tasks/solver.py`, `tasks/permutation.py` |
| failure handling | `runs.error_msg` | `run_failed_handler`, `on_failure` | `tasks/base_task.py` |
| deletion | everything above | `_delete_run`, `remove_project`, `delete_minio_objects` | `views/run/description.py`, `tasks/project_cleanup.py`, `database/deletion.py` |
| run cache | redis hash of a run: `state`, `comparisons`, `candidates` | set, read, clear | `cache/active_runs.py`, `cache/progress.py` |
| blocks and work packages | `blocks`, `encodingblocks`, packages, intermediate files | upload formats to blocks, `_get_common_blocks`, `_create_work_packages`, `get_encoding_chunk(s)`, `_merge_files` | `views/util.py`, `encoding_storage.py`, `tasks/comparing.py` |
| permutations | `permutations`, `permutation_masks` | `permute_mapping_data`, GET result | `tasks/permutation.py`, `views/run/results.py` |
| database access | connection pool | `DBConn`, queries | `database/` |
| the rest | | authentication, serialisation, object store credentials, tracing, logging, metrics, migrations, deployment | |

`PROJECT.json` lists each of them with its status.

### How they interact

* A view or a task works on a PostgreSQL transaction at a time (`with DBConn()`)
  and sends celery messages after the commit. Between the commit and the send
  the process may die.
* Two processes meet in PostgreSQL through row locks: `SELECT ... FOR UPDATE
  NOWAIT` of `prerun_check`, the `UPDATE`s that wait for that lock.
* redis is written outside any transaction: before the commit
  (`set_run_state_active`, `set_run_state_deleted`) or after it
  (`set_run_state_complete`).
* celery delivers a message to one worker. With `CELERY_ACKS_LATE` (on in
  `deployment/entity-service/values.yaml:277` and `tools/docker-compose.yml:86`,
  off by default in `settings.py:100`) it is delivered again when the worker
  dies or takes longer than the visibility timeout; without it, the message dies
  with its worker.
* A chord calls its callback when every header task has returned, or the error
  callback of the callback if one failed.

### What is hard here

Concurrent triggers of the same check; a `prerun_check` delivered twice; a row
deleted while tasks work on its run; redis and PostgreSQL disagreeing for a
while; a failure that has to be noticed after the chord has begun; retried
tasks that had already deleted their inputs; limits counted by concurrent
tasks; which pairs of encodings are compared after four upload formats, splitting
and bundling; results whose parts are read by different parties at different
times. `PROJECT.json` lists the hazards at their lines with the properties that
cover them.

## 2. Modules

| module | what it is |
|---|---|
| `RunContract` | the promise: the states of a run, their order, one launch, an outcome only after it |
| `RunScheduler` | from posted to launched, with uploads, deletions, process deaths and redeliveries |
| `RunLifecycle` | `RunScheduler` with the celery pipeline in place of its abstract outcome |
| `RunSchedulerProofs` | theorems of `RunScheduler` and their proofs |
| `RunLifecycleProofs` | theorems of `RunLifecycle`, and that it implements `RunScheduler` |
| `RunLimitsProofs` | theorems about the limits on candidate pairs in `RunLifecycle` |
| `Uploads` | the upload views and the celery tasks that put encodings into the database |
| `UploadContract` | the promise to the parties: one request's encodings each, answers that agree with them, runs on all of them |
| `UploadsProofs` | theorems of `Uploads` and their proofs, and that it implements `UploadContract` |
| `WorkPackages` | which encodings are compared, from the upload formats to the merged file of scores |
| `WorkPackagesProofs` | theorems of `WorkPackages`: which package compares what |
| `ScoresProofs` | theorems of `WorkPackages`: package sizes, progress and scores |
| `Sums` | lemmas about sums of natural numbers and cardinalities, used by `RunLifecycleProofs`, `RunLimitsProofs` and `ScoresProofs` |
| `PermuteMapping` | permutations and mask, how they are made, stored and read |
| `PermuteMappingProofs` | theorems of `PermuteMapping` and their proofs |
| `MCRunScheduler`, `MCRunLifecycle`, `MCUploads`, `MCWorkPackages`, `MCPermuteMapping` | small instances for TLC |

```
RunContract  <-- implemented by --  RunScheduler  <-- implemented by --  RunLifecycle
                                        ^                               ^
                              RunSchedulerProofs  <-- EXTENDS --  RunLifecycleProofs  -- EXTENDS -->  Sums
                                                                        ^
                                                                  RunLimitsProofs

UploadContract  <-- implemented by --  Uploads  -- its check is the first step of a check of RunScheduler
                                          ^
                                   UploadsProofs (EXTENDS)

WorkPackages    -- the data of create, compute and aggregate of RunLifecycle
PermuteMapping  -- the data of permute_mapping_data of RunLifecycle, and its readers
   ^
WorkPackagesProofs, PermuteMappingProofs (EXTENDS)
   ^
ScoresProofs  -- EXTENDS -->  Sums
```

### `RunScheduler`

One project, any set `Run` of runs, any set `Party` of data providers. An action
is one step that another process can observe: a committed transaction, a write
to redis, a message sent, a death.

| variable | code |
|---|---|
| `project` | `marked_for_deletion` and how far `remove_project` has come |
| `sizing` | what `check_and_set_project_encoding_size` will find (fixed by the encodings, unknown beforehand) |
| `ready`, `errored` | parties whose `uploads.state` is `ready` / `error` |
| `state`, `stage`, `errorMsg` | the columns of `runs`; `"unposted"` and `"deleted"` say there is no row |
| `cache` | key `state` of the run's redis hash |
| `checks[c]` | the `check_for_executable_runs` triggered by a post or an upload `c`, at its step; `new` are the runs it still has to send on |
| `prerun[r][s]` | how many deliveries of the `prerun_check` of `r` are at step `s` |
| `deleting` | runs whose `DELETE` has written redis and not yet deleted the row |
| `launched[r]` | how many `create_comparison_jobs` messages were sent |
| `lost`, `redelivered` | faults so far |

`Locked(r)` is the row lock of `prerun_check`: held from the `FOR UPDATE` to the
commit (steps `locked` and `cached`). `PrerunLock` fails fast (NOWAIT) and
leaves; `DeleteRow` and `FailRuns` wait. `QueueRuns` does not touch locked rows
since those are `queued`.

`PostRun`/`SaveRun`/`SendCheck` are `views/run/list.py:post`; the project may be
marked for deletion between its check and its insert. `UploadReady`/`CountReady`
stand for what `Uploads` has in detail: `ready` is what `get_number_parties_ready`
counts, provided a party has one `uploads` row (where it may have two, see
`uploads_counted` below). Its encodings keep their size. The removal of the
project takes every upload that is done, hence all of `ready`; one in progress may
become ready afterwards. `CountReady` may schedule a check although parties are
missing: the tasks for external data count uploads without asking whether they are
ready.

`PipelineOutcome` is everything the pipeline may do to what the scheduler sees.
It is deliberately generous (any outcome at any time after the launch) and is
justified by `RunLifecycle` implementing `RunScheduler`.

### `RunLifecycle`

Extends `RunScheduler`: `LaunchRun`, `CascadeDelete`, `RefuseDelete`,
`CleanProject` and `QueueAndClear` are scheduler actions with what they do to the
pipeline's state conjoined; the other scheduler actions leave the pipeline
alone.

| variable | code |
|---|---|
| `resultType` | `projects.result_type` |
| `pairs[r][p][q]` | how often package `p` finds the candidate pair `q` at `r`'s threshold, once for each of its chunks that does: fixed by the data |
| `jobs[r][j]` | number of single tasks of `r` at step `j`: `create`, `dispatch`, `solver`, `save`, `permute`, `complete`, ... and the two error callbacks `errback` (no `run_id`) and `failed` |
| `parts[r][a][p]` | the `compute_filter_similarity` of package `p` in chord `a`: step and retries |
| `agg[r][a]` | the callback `aggregate_comparisons` of chord `a` |
| `rows[r]` | rows of `similarity_scores`, `run_results`, `permutations`+`permutation_masks` |
| `comparisons`, `candidates` | counters in redis |
| `faults` | failures injected so far |

A chord is dispatched once per execution of `create_comparison_jobs`: `Attempt`
numbers the chords. A compute task that finds redis not `active` returns `None`
(its `InactiveRun` is swallowed); any other exception restarts it until
`MaxRetries`. A `None` among the results makes the aggregation raise `TypeError`,
which is not retried. `AggregateMerge` deletes its inputs, so a second execution
that had more than one file fails.

There are two limits on candidate pairs, and they count different things.
`NumResults(r)[p]` is what package `p` adds to the total in redis, a pair once for
every chunk that found it; that total is compared with `CandidateLimit`
(`tasks/comparing.py:367`). `solver_task` first merges equal pairs
(`_merge_similarities`, external) and compares the number of different ones,
`Deduplicated(r)`, with `SolverLimit` (`tasks/solver.py:27-29`): a pair that is in
several blocks counts several times towards the first and once towards the second.
Deaths (`LoseTask`) and redeliveries
(`RedeliverTask`) are per message.

### `Uploads`

One project, the requests to upload of its parties (`Owner` says whose token a
request carries), each of one of four kinds: `binary` (stored by the view),
`json` (quarantined and stored by `handle_raw_upload`), `file`
(`pull_external_data_encodings_only`) and `blocks` (`pull_external_data`).

| variable | code |
|---|---|
| `project` | `marked_for_deletion`, then `delete_project_data` done |
| `uploaded[p]` | `dataproviders.uploaded`; `"gone"` when the row is deleted |
| `rows[r]` | `uploads.state` of the row with the receipt token of request `r` |
| `stored` | requests whose encodings are in `encodings` |
| `view[r]` | the step of `project_clks_post` or `project_binaryclks_post`: `locked` after the lock, `inserted` after the row, `saved` after `upload_clk_data_binary` or the send, `done` after `uploaded = 'done'`, then `accepted` (201) or `refused` |
| `task[r]` | the step of the request's task; `failing` waits for `handle_upload_error` |
| `checks`, `runs` | `check_for_executable_runs` messages; whether one went on to the runs |
| `faults` | failures, deaths and redeliveries so far |

`rows` is kept per request although the code updates it per data provider:
`SetRows` is `UPDATE uploads ... WHERE dp`, which also takes the rows that
earlier, refused requests of the party left behind. `DoneRows` counts like the
join of `dataproviders` and `uploads`. `Taken` is the primary key of `encodings`,
made of the data provider's id and the row number. What makes the view refuse a
locked request (headers, sizes, object paths, blocks) is one action, `Reject`.
`RemoveProjectData` takes only data providers that are `done`, as
`get_dataprovider_ids` does. Redelivery is after the death of the worker; two
executions of one upload task at the same time are not modelled.

`UploadContract` is what a party may rely on, without locks, rows or tasks: `Store`,
`Accept`, `Refuse`, `Schedule`, `Remove`. Its `answer[r]` is `view[r]` once the
client was answered and `"open"` before, also for a request whose process died;
`leftover` says that the row of a refused request is still there, and is all of
the rows the contract sees: only then may `Schedule` happen before everything is
stored (finding `uploads_counted`). Stored encodings change with `Remove` alone,
which no invariant of `Uploads` says.

### `WorkPackages`

One run of one project from the uploads on, with every task succeeding: what
`RunLifecycle` counts (`pairs`, intermediate files) is here the data itself.

| variable | code |
|---|---|
| `schema` | `projects.uses_blocking` |
| `rows[d]` | the row of the uploaded array that became entity 0, 1, ... of data provider `d` |
| `blocks[d][b]` | `encodingblocks`: the entities of `d` in the block named `b`; names are as stored, hashed or not |
| `similar` | the pairs of uploaded rows that reach the threshold: fixed by the data |
| `todo`, `pending` | the loops of `_create_work_packages`: common blocks not taken, chunks of a split block not appended |
| `current`, `comparisons`, `packages` | `cur_package`, `cur_comparisons`, `packages` |
| `computed`, `progress`, `files` | packages whose task returned, comparisons in redis, files of candidate pairs |

A chunk names two data providers, a block and two ranges. `InRange` is
`get_encoding_chunk` (`OFFSET`, `LIMIT` in the order of the ids), used for a
package of one chunk; with several, `get_encoding_chunks` reads whole blocks and
ignores the ranges (`Left`, `Right`). `UploadMap` is
`convert_encoding_upload_to_clknblock`, which renumbers the encodings by the keys
of the mapping. JSON is checked against `uses_blocking`, a binary upload is not
(`views/project.py:109`, `:240`): in a project with blocking it goes to the
default block as well (`UploadBinary`), which is in common only with other binary
uploads. `Merge` sums `num` and keeps one of equal scores, as
`_unique_values_iter` does.

anonlink is external: `Splits` lets `split_to_chunks` cut both sides of a block into
any ranges that cover it, and `Merge` relies on `merge_streams_iter` putting equal
entries next to each other. `dice_coefficient_accelerated` is called with `k =
min(enc_dp1_size, enc_dp2_size)` (`tasks/comparing.py:343`) and returns at most `k`
of the pairs of one encoding of the left side
(`e2etests/tests/test_results_correctness.py:57` says that it enforces it): `TopK`
are the sets it may return, with the choice among the best left open. It matters
where the left side of a chunk is the smaller one. A client names a block at most
once for an encoding. If there are no packages the chord's body runs with an empty
list. Tasks are started in the order they are sent, `Workers` at a time.

### `PermuteMapping`

The sizes of two data sets, a matching of their rows (`groups`, what the solver
returns for two parties), and executions of `permute_mapping_data`: more than
one if the message is delivered again or `save_and_permute` was executed twice.

| variable | code |
|---|---|
| `at[e]` | where execution `e` is: `packing` is the loop over groups, `filling` the two loops over rows, `stored` after the commit, `sent` with `mark_run_complete` on its way |
| `order[e]` | `remaining_new_indexes` after `random.shuffle` |
| `packed[e]` | `group_number` |
| `perm[e][s]`, `mask[e]` | `a_permutation`, `b_permutation`, the indices `mask` has `True` for |
| `left[e][s]` | `remaining_a_values`, `remaining_b_values` |
| `stored` | executions whose three rows are in the database |
| `run` | the row of the run: `running`, `completed`, or `deleted` |
| `reading`, `answers` | requests that found the run completed; whose rows each token was given |

`FillRow` takes the rows in order and any of the shuffled values; a shuffle and
`pop()` give each. `Store` fails when the foreign key finds no run. `GetResult`
reads in a later statement than `FindCompleted`: the run may be gone by then
(status 500) and, as the queries have no `ORDER BY`, any of several rows may be
returned. A failed execution is not resumed; another member of `Execution` is the
next one.

### Abstractions

* Encodings, thresholds and scores are data: `sizing`, `pairs`, `similar` and
  counts of rows are what the control depends on.
* `pairs` is given per run, not per execution of `create_comparison_jobs`: a second
  chord has the same packages. The code takes the common blocks in the order of a
  set, so that another process may put the same blocks into other packages, with the
  same pairs in all.
* A send after a commit does not fail by itself; the process may die before it.
* Compute's read of the database and its increment of redis are one step; the
  comparison of the total with the limit is another one.
* A project whose sizes are out of bounds has all its uploads marked in one step
  (the code: one transaction each).
* Redis entries do not expire (ten days, `settings.py`).
* `NotImplementedError` of anonlink (`comparing.py:344`) cannot happen once the
  size is a multiple of 8 bytes, which the check before established.

## 3. What is checked

TLC, all with two workers. `Deletable` bounds what clients ask to delete.

| run | instance | states | shows |
|---|---|---|---|
| `scheduler_faults` | 1 run, 2 parties, every sizing, 1 death, 2 redeliveries | 1.1 M | types, the inductive invariant, at most one launch on usable data, final rejection, `RunContract` implemented |
| `scheduler_liveness` | the same without faults, fair | 61 k | a created run is started, rejected or deleted |
| `lifecycle_safety` | 1 run, 2 packages, every result type, a package that finds nothing, one pair twice or two pairs, one failure of any task | 1.5 M | completed runs have their result, are at their last stage, are within the limits and stay completed; one similarity file; one task of a run at a time; `RunScheduler` implemented |
| `lifecycle_redelivery` | two chords, the same pair in one or both packages, one death or redelivery of any pipeline message or one failure of the aggregation | 1.2 M | result and limits survive redelivery, each task finds what it needs, no chord or task gets past a limit (`LimitInvariant`); still a `RunScheduler` |
| `lifecycle_liveness` | 3 packages, two failures of compute or aggregate, fair | 455 k | a launched run is completed, failed or deleted |
| `uploads` | 2 parties, 3 requests (one party may try twice), every kind, one failure, death or redelivery, deletion | 528 k | one upload per party, refused leaves no encodings, ready has them, the inductive invariant; runs are scheduled on all data, and always are, except as `uploads_counted` shows or after a fault; every step is one of `UploadContract` |
| `work_packages` | 3 data providers with up to 2, 2 and 1 encodings in any of 2 blocks, every format, with blocking and without, aim 3, 2 chunks per package | 121 k | every pair of a common block compared once, nothing empty, bundles within the aim, progress ends at the total, the merged scores are of similar pairs only and of all that `k` leaves room for; the invariant that the last three follow from |
| `permute_mapping` | sizes 1 and 2, 3 and 2, 2 and 2 with every matching, two executions, three readers, deletion | 3.8 M | no position is missing or left over, stored and answered rows are permutations that line up exactly the groups, completed runs have rows |

Why the bounds are enough. Everything a run has is its own: rows, redis hash,
messages; runs meet only in `FailRuns` and `QueueRuns`, whose effect on each run
does not depend on the others, so one run shows the races and the theorems cover
any number. Two parties make "the last upload" a race, with the run's own check a
third trigger. Two packages make the two orders of counting and checking the
limit; two candidate pairs, one of them found twice in a package (`lifecycle_safety`)
or in both packages (`lifecycle_redelivery`), make totals above the solver's limit
whose different pairs are within it; three packages allow a merge that has begun when the store fails. One death or
failure at any step is every partial failure; two redeliveries allow three
executions of a task at once. Uploads of different parties meet only in the
counts, those of one party in the lock: two requests of one and one of another
give every pair, and the theorems cover any number. The third request is what a
leftover row needs. Which kinds each request may use is limited so that every pair
of kinds that counts differently occurs. `Stages` bounds what `PipelineOutcome`
can do and exceeds what the pipeline needs. In `WorkPackages` a block of two by
two encodings exceeds the aim and is split in every way, two blocks of one by two
do not fit together, and of one by one do; three data providers give three pairs
that share packages; the theorems cover any sizes, aims and splits. In
`PermuteMapping` either data set is the larger one, and matchings go from none to
all rows; two executions give every overlap of computing, storing, completing and
reading, and the theorems cover any number and sizes.

Deadlock is not an error in these models: when the clients have sent all their
requests and every task is done, the system rests.

### Fairness

`SchedulerFairness` and `Fairness` are weak fairness of single steps: a web
process finishes a request it began, a worker takes every message that is on the
broker, a transaction waiting for a lock gets it when it is free (the lock is
held for two steps of one task). Clients promise nothing, faults are never fair.
The liveness runs have no deaths: a process that dies between a commit and the
send leaves the run `queued` or `running` for good, which the code does not
repair; the failures in `lifecycle_liveness` are exceptions, those the code
handles. Solver, save and permute have no error callback: with a failure of
theirs a run stays `running`; they are therefore not among the faults of that
run. In `Uploads`, fairness is on every step of a view and of a
task; `Reject` is a view's other way to end, and `DoneUploadsAreScheduled` asks
nothing of histories with a fault.

### Disagreements between the code and what is said of it

| run | what is said | what happens |
|---|---|---|
| `failure_marks_run` | `tasks/base_task.py:109` "mark the run as failed" | the error callback of `create_comparison_jobs` is linked without `run_id` (`tasks/run.py:51`), raises `KeyError`, and the run stays `running` |
| `uploads_counted` | `utils.py:146` "See if the given project has had all parties contribute data."; `test_project_uploads.py:568`, a token can be used again after a failure | the row of the failed upload stays and counts as a party: runs start without the other party's data, or never |
| `default_block` | `docs/concepts.rst:115`, all CLKs of one party are compared with all of the other | without blocking, binary uploads go to block `1` and JSON uploads to the hash of `1`: a party of each kind have no common block, and the run completes with nothing compared |
| `row_indices` | `docs/concepts.rst:129`, scores name the rows of the uploaded CLKs | encodings uploaded with a mapping of blocks are renumbered in the order of its keys |

Seen while modelling, without a run of their own:

* Over the candidate limit, the missing result of a package fails the
  aggregation, whose handler overwrites the message that names the limit with
  "internal server error" (`tasks/comparing.py:372`, `:501`; `docs/changelog.rst:59`
  says the message tells what went wrong).
* A package counted before its file is stored is counted again when it is
  retried, so that progress exceeds 1.0 (`tasks/comparing.py:359`;
  `api_def/openapi.yaml:932`).
* An aggregation delivered again inserts a second `similarity_scores` row
  (`tasks/comparing.py:533`); `DELETE run` then fails on the assertion at
  `database/selections.py:536`.
* `delete_project_data` takes the data providers that are `done`
  (`database/deletion.py:37`): encodings of an upload in progress stay, and so do
  `similarity_scores` rows; `api_def/openapi.yaml:268` says all associated data is
  removed.
* Where the left side of a chunk is the smaller one, an encoding that is similar
  to more encodings on the right than the left side has loses the rest of its
  scores to `k` (`tasks/comparing.py:343`), and how many depends on how the block
  was split; `docs/concepts.rst:115` says that all scores above the threshold
  are returned. `ScoresComplete` says what is left: a pair without a score has
  `k` rivals with one in every chunk that finds it.
* With a single file of candidates nothing is merged, and a pair that shares
  several blocks keeps several scores (`tasks/comparing.py:516`;
  `docs/changelog.rst:44`, scores are deduplicated). `ScoresComplete` says so.
* `handle_raw_upload` marks an upload of a wrong encoding size as `error` and goes on
  to mark it `ready` (`tasks/encoding_uploading.py:211`); that such encodings are not
  compared is left to the check of all sizes before the launch
  (`LaunchedOnUsableData`).
* `permutations` has no unique constraint. Executed twice,
  `permute_mapping_data` stores two sets of rows, and the parties may be given
  rows of different sets, which do not line up (`database/selections.py:443`;
  `docs/concepts.rst:168`). `StoredLineUp` is therefore about each set.

## 4. What is proved

In `RunSchedulerProofs`, for every set of runs and parties, any number of deaths
and redeliveries, and any stage bound. The only assumption is
`SchedulerAssumption`: run ids and parties are different things, `"sizes"` is not
a message of the pipeline, the bounds are natural numbers.

* `SchedulerTypeCorrect`: `TypeOK` is an invariant.
* `SchedulerInvariantHolds`: so is `SchedulerInvariant`.
* `LaunchedAtMostOnceHolds`, `LaunchedOnUsableDataHolds`, `RejectionIsFinalHolds`:
  the three safety properties follow from it.
* `SchedulerImplementsContract`: every behaviour of `RunScheduler` is one of
  `RunContract`, with `phase <- state`, `launches <- launched`.

`LaunchedAtMostOnce` alone is not inductive: nothing in it says why a second
delivery cannot pass the lock. `OneStarter` does: the lock is held by one
delivery and only while the row is `queued`; a delivery past the commit has left
the row in a state in which no other passes, and no row ever returns to `queued`
(`NewRunsQueued` and `RowConsistent` give that runs in the hands of a check or a
delivery have left `created`). `LaunchedOnUsableData` needs the history of the
check that queued the run: `DataFirst` keeps that nothing moved before all
encodings were ready, and `NothingQueued` that nothing moves at all when the
sizes disagree; `NothingRejected` is its counterpart, which keeps the rejection
from running concurrently with a launch.

For `RunScheduler` the proof goes by the groups of `SchedulerNext` (client, view,
check, prerun, removal, outcome, fault), one lemma per group and one step per
action; `StepKeeps` covers the actions that leave rows and deliveries alone,
`LeaveKeeps` those that only remove a delivery.

In `RunLifecycleProofs`, for any runs, parties, packages, chords and limits, and
any number and kinds of faults, from `LifecycleAssumption` (packages are finite, counts
and limits natural numbers, the pipeline's messages are among `Failures`). Its
theorems assume `Stages = Nat`: the scheduler's bound on stages, which TLC needs to
check `RunScheduler` alone, must not bind (no task knows it).

* `LifecycleTypeCorrect`: `LifecycleTypeOK` and `NothingBeforeLaunch`;
* `LifecycleImplementsScheduler`: every behaviour of `RunLifecycle` is one of
  `RunScheduler`, so that `LifecycleImplementsContract` carries over the contract, the
  single launch and the scheduler's invariant;
* `LifecycleInvariantHolds`, `CompletedRunHasResultHolds`: under every fault,
  redelivery included;
* `SequentialInvariantHolds`, `OneSimilarityFileHolds`, `CompletedRunAtLastStageHolds`,
  `CompletedIsFinalHolds`: if no message of the pipeline itself is delivered again
  (`"redelivered" \notin Faulty`); those of `prerun_check` and of the checks may be,
  and tasks may be lost, retried or fail. They do not hold otherwise: a second
  execution of the aggregation inserts a second row and counts another stage.

That a step of a task is an outcome the scheduler allows needs the run to be
launched: `NothingBeforeLaunch` says that before it has no task, chord or row
(`OnlyLaunched`), and `OneRunAtATime` that a task touches no other run. Then
`PipelineIsOutcome` maps each task, and `SchedulerStep` each step, to one of the
scheduler or to none. `CompletedRunHasResult` is not inductive either:
`Delivered` says of each message what the run must hold when it arrives
(`Needs`), since a redelivered message re-enters the pipeline there. That a result
does not vanish under a task is `ResultsStay`; it needs that a deleted run stays
deleted, which is taken from the contract (`GoneStays`). For the rest `OneTask` and
`OneChord` follow the one message of a run from its launch: with
`LaunchedAtMostOnce` there is one chord, hence one callback, one row and one
completion. `StageCounted` ties the stage to that row.

In `RunLimitsProofs`, from the same assumption, for any number of candidate
pairs in each package, under every fault:

* `LimitInvariantHolds`: `LimitInvariant`; `LimitsHoldHolds`: `LimitsHold`.

`LimitsHold` has two parts: the sum of what the packages found, with duplicates,
is within `CandidateLimit` (`WithinLimit`), and if the run was solved, the number
of different pairs is within `SolverLimit` (`Solvable`); the assumption includes
that there are finitely many candidate pairs. It is about completed runs, and
nothing in it says why a chord of a run over the limit cannot end. The packages
count into redis first and read the total afterwards, each at any time, each again
when retried. `ChordLimited` keeps that the total in redis is at least the sum of
the packages that have counted, and that not all packages of a run over the limit
are stored: the last of them has all the others in its total (`CountingCovers`,
`StoringCovers`), and a package that is counted twice only makes the total larger.
Hence no aggregation of such a run merges. `Cleared` carries this to the tasks
after it: whatever arrives there, once or again, is of a run within the limit, and
past `solver_task` within the second one, whose count no retry changes. What a
redelivered package adds is never taken back, so that a run within the limit may
fail; the theorem says that none over it completes.

In `UploadsProofs`, for any parties, requests, owners and faults, from
`UploadsAssumption` (parties and requests are finite, `Owner` maps requests to
parties, the bound is a natural number):

* `UploadsTypeCorrect`: `UploadsTypeOK`; `UploadsInvariantHolds`: `UploadsInvariant`;
* `OneUploadPerPartyHolds`, `RefusedStoresNothingHolds`, `ReadyIsStoredHolds`;
* `HolderInvariantHolds`, `ScheduledOnAllDataOrLeftoverHolds`;
* `UploadsImplementContract`, from `StoredHeldHolds`: `Uploads` implements
  `UploadContract`.

`OneUploadPerParty` needs `LockHeld`: a request past the lock is what makes the
data provider `in_progress`, so that the `UPDATE` of another finds no row, and one
that is through has made it `done`, for good. `ReadyIsStored` needs `StoredFirst`
(a task that will set rows ready has stored, or its data provider is gone) and
`GoneIsEmpty`. The cases are the groups `LockKeeps`, `HeldKeeps`, `TaskKeeps` and
`RestKeeps`.

`ScheduledOnAllDataOrLeftover` is about numbers: the code schedules the runs when
there are as many rows as parties. `HolderInvariant` says whose they are: a row
that was not left behind belongs to the one request that holds, or died holding, the
lock of its party. Mapping rows to parties is then injective, and with equal
numbers onto (`FS_Injection`): every party has its row.

For the contract the encodings have to be tied to the lock as well: `StoredHeld` says
that the request whose encodings are stored is the holder for its party, and has a
row or a task that keeps it the holder when its process dies. Then nobody else of the
party can store or be accepted. The steps are grouped by what the contract sees of
them: `StoreStep`, `RefuseStep`, `AcceptStep` and `RestStep`, or nothing.

In `WorkPackagesProofs`, for any data providers, sizes, blocks, formats, aim and
splits, from `PackagesAssumption` (ids, sizes, aim and limits are natural
numbers, data providers and block names finite):

* `PackingInvariantHolds`: `PackingInvariant`, which is inductive;
* `EveryPairComparedOnce`, `NothingIsEmpty`: two properties of the run
  `work_packages` follow.

`ComparedOnce` speaks of the end only. `Coverage` says it of the middle: a pair of
a common block is in a block still to be taken, or in exactly one chunk among the
pending, the current package and the packages made. `Structure` says what a
chunk is: one of several in a package spans whole blocks, and chunks of taken
blocks have all been placed. That ranges of positions are sets of encodings, each
encoding in one of them, rests on `RankBound`, `RankGrows` and `RankOnto`: the rank
of an encoding in its block is a bijection to the positions `OFFSET` counts.

In `ScoresProofs`, from the same assumption:

* `ResultsInvariantHolds`: `ResultsInvariant`, which is inductive together with
  `PackingInvariant`;
* `BundlesStayWithinAim`, `ProgressReachesTotal`, `ScoresAreComplete`: three more
  properties of that run;
* `PackagesTypeCorrect`: `PackagesTypeOK`, for every variable. `PackingTypeOK`, its part
  about packing, is what the proofs above use; that rows were uploaded and files have
  natural counts is `RestTyped`, and that the progress is a natural number follows from
  `Progressed`.

`Bundled` says that `cur_comparisons` is the sum over the chunks of `cur_package`
through every flush and reset (`SumAdd`), which is what makes a package that is
appended stay within the aim. The progress is a sum over packages of sums over
chunks of products, the total a sum over block names of sums over pairs of data
providers: the two are equal because both count the comparisons, as a set.
`Progressed` says so of the progress in the middle. A package adds the number of
comparisons it makes (`MakesCount`), and none that another makes (`MadeApart`, by
`PackingInvariant`); at the end they are all of them (`TotalCount`).
Both are instances of `UnionCardinality`: a disjoint union has as many
elements as its parts together. `FilesFound` is what a file of candidate pairs holds:
scores of pairs its packages found, and of each of those unless `k` rivals have
one. A merge keeps this since it only adds pairs with a score (`ScoredMore`), and
every package that found something has gone into a file.

The sums are `SumFunction` of the community modules, a fold and so recursive. In
`Sums`, `IsSumExists` and `IsSumUnique` tie them to what the recursion says of one
step, and all other facts follow by `FiniteInduction`, which takes the set of the
subsets that have the property instead of a predicate.

In `PermuteMappingProofs`, for any sizes, any matching and any number of
executions, from `PermutationsAssumption` (sizes are natural numbers):

* `MappingInvariantHolds`: `MappingInvariant`, which is inductive;
* `PermutationsTypeCorrect`, `UnmatchedRowsFitHolds`, `StoredLineUpHolds`,
  `CompletedIsStoredHolds`: the four properties of that run follow. The types are per
  side: rows and positions of the smaller data set never exceed it (`Placements`,
  `Remainders`), in executions that failed as well.

`InPlace` is what holds in the middle of an execution. While packing, exactly the
rows of the first groups have a position, those of group `k` the `k`-th shuffled
index. While filling, positions are distinct and none is among the values left,
and as many values are left as rows without a position (`Spare`): with the
number of groups at most the smaller size, the two unions that make
`remaining_a_values` and `remaining_b_values` have that size, whichever data set
is larger. When no row is left this is a permutation that meets the other one on
the mask only at groups (`Whole`). `Kept` carries `Whole` to what is stored and was
answered.

Only model-checked: `CreatedRunsStart`, `RunsConclude` and `DoneUploadsAreScheduled`,
which are liveness under fairness and out of the prover's reach. Every invariant
and every action property of the passing runs, and each of the refinements, is stated
by a theorem.

## 5. Not modelled

Authentication and authorisation (stateless checks of tokens), project creation
and schema validation, the formats of results, object-store credentials, caches of
encodings, tracing, logging, metrics,
migrations, deployment and benchmarks: no concurrent state of their own.
anonlink (similarity and solver) is a library. `delete_minio_objects` deletes
files nothing in the models reads. `calculate_comparison_rate` only writes a
metric. The connection pool is assumed to give a connection
and a commit to succeed (`DBConn` swallows an exception of the commit itself).

The notebooks of the tutorials and examples, half of the lines the repository calls
code, are clients of the service that run one request after the other: what they do is
among the requests of the models. Of the rest, tests and benchmarks aside, what is left
out is the list above.

## 6. Plan

1. Done: `RunContract`, `RunScheduler`, `RunLifecycle`, `Uploads`, `WorkPackages`,
   `PermuteMapping`, theorems about each, and every invariant, action property
   and refinement that the passing runs check proved for any size.
2. `RunScheduler` has `UploadReady` where `Uploads` has views and tasks: taking its
   uploads from `UploadContract` instead would compose the two.
3. `RunLifecycle` takes `pairs` as given where `WorkPackages` computes the files:
   a lemma that `pairs[r][p]` has the values of `Candidates(P, ret)` for a package
   `P` would compose them as well.
