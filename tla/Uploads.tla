-------------------------------- MODULE Uploads --------------------------------
(***************************************************************************)
(* How the encodings of the parties of one project get into the database.  *)
(* A party posts its encodings, as binary in the body of the request, as   *)
(* JSON, or as the name of a file in the object store with or without a    *)
(* file of blocks.  The view locks the party's data provider, records the  *)
(* upload and stores the encodings or leaves that to a celery task; both   *)
(* count what is there and, when it is all, enqueue                        *)
(* check_for_executable_runs.                                              *)
(*                                                                         *)
(* An action is a committed transaction, a message put on the broker, or   *)
(* the death of a process between two of them.  RunScheduler takes over    *)
(* from the check.                                                         *)
(***************************************************************************)
EXTENDS Naturals, FiniteSets

CONSTANTS
    Party,       \* data providers of the project
    Request,     \* requests to upload the clients may make
    Owner,       \* the party whose update token a request carries
    Kinds,       \* the ways in which a request may upload
    Faulty,      \* what may go wrong: "row", the view after it has recorded
                 \* the upload; "task", a task; "death", a view's process;
                 \* "redelivery", a worker, its message being delivered again
    MaxFaults    \* bound: how often something goes wrong

Kind == {"binary", "json", "file", "blocks"}

ASSUME UploadsAssumption ==
    /\ IsFiniteSet(Party)
    /\ IsFiniteSet(Request)
    /\ Owner \in [Request -> Party]
    /\ Kinds \in [Request -> SUBSET Kind]
    /\ MaxFaults \in Nat

VARIABLES
    project,     \* "live", "marked" for deletion, or "removed"
    uploaded,    \* dataproviders.uploaded, or "gone" with the row
    rows,        \* uploads.state of the row each request's token identifies
    stored,      \* requests whose encodings are in the table encodings
    kind,        \* how the request uploads
    view,        \* where the view that serves the request is
    task,        \* where the request's celery task is
    checks,      \* check_for_executable_runs messages on the broker
    runs,        \* "waiting", or "scheduled": a check found all data ready
                 \* and went on to the runs
    faults       \* how often something went wrong

vars == <<project, uploaded, rows, stored, kind, view, task, checks, runs, faults>>

ViewStep == {"idle", "checked", "locked", "inserted", "saved", "done", "accepted",
             "failing", "refused", "dead"}
TaskStep == {"none", "sent", "reading", "inserted", "stored", "sized", "counting",
             "failing", "ended"}

Init ==
    /\ project = "live"
    /\ uploaded = [p \in Party |-> "not_started"]
    /\ rows = [r \in Request |-> "none"]
    /\ stored = {}
    /\ kind = [r \in Request |-> "none"]
    /\ view = [r \in Request |-> "idle"]
    /\ task = [r \in Request |-> "none"]
    /\ checks = 0
    /\ runs = "waiting"
    /\ faults = 0

Gone(r) == uploaded[Owner[r]] = "gone"

(* encodings.encoding_id is made of the data provider's id and a row       *)
(* number: a party's encodings can be inserted once.                       *)
Taken(r) == \E s \in stored : Owner[s] = Owner[r]

(* update_encoding_metadata: every uploads row of the data provider.       *)
SetRows(r, s) ==
    [q \in Request |-> IF Owner[q] = Owner[r] /\ rows[q] # "none" THEN s ELSE rows[q]]

(* set_dataprovider_upload_state: nothing if the row is gone.              *)
SetUploaded(r, s) == IF Gone(r) THEN uploaded ELSE [uploaded EXCEPT ![Owner[r]] = s]

(* get_number_parties_uploaded and get_number_parties_ready join           *)
(* dataproviders with uploads: what they count is rows.                    *)
DoneRows == {r \in Request : rows[r] # "none" /\ uploaded[Owner[r]] = "done"}

AllUploaded == Cardinality(DoneRows) = Cardinality(Party)
AllReady    == Cardinality({r \in DoneRows : rows[r] = "ready"}) = Cardinality(Party)

Serve(r, s, t) == view[r] = s /\ view' = [view EXCEPT ![r] = t]
Work(r, s, t)  == task[r] = s /\ task' = [task EXCEPT ![r] = t]
Fault(f)       == f \in Faulty /\ faults < MaxFaults /\ faults' = faults + 1

viewOnly == <<project, stored, kind, task, checks, runs, faults>>
taskOnly == <<project, uploaded, kind, view, runs>>

-------------------------------------------------------------------------------
(* The views project_clks_post and project_binaryclks_post                 *)

(* The project exists, or the request ends here.                           *)
Post(r, k) ==
    /\ project = "live"
    /\ Serve(r, "idle", "checked")
    /\ kind' = [kind EXCEPT ![r] = k]
    /\ UNCHANGED <<project, uploaded, rows, stored, task, checks, runs, faults>>

(* Mutant: only an upload that is done keeps others out.                   *)
LockUnlessDone(r) ==
    /\ IF uploaded[Owner[r]] \in {"not_started", "in_progress", "error"}
         THEN Serve(r, "checked", "locked") /\ uploaded' = SetUploaded(r, "in_progress")
         ELSE Serve(r, "checked", "refused") /\ UNCHANGED uploaded
    /\ UNCHANGED <<viewOnly, rows>>

(* is_dataprovider_allowed_to_upload_and_lock, one UPDATE.                 *)
Lock(r) ==
    /\ IF uploaded[Owner[r]] \in {"not_started", "error"}
         THEN Serve(r, "checked", "locked") /\ uploaded' = SetUploaded(r, "in_progress")
         ELSE Serve(r, "checked", "refused") /\ UNCHANGED uploaded
    /\ UNCHANGED <<viewOnly, rows>>

(* Headers, sizes, paths or content the view does not accept.              *)
Reject(r) ==
    /\ Serve(r, "locked", "failing")
    /\ UNCHANGED <<viewOnly, uploaded, rows>>

(* The upload is recorded as pending; its data provider must be there.     *)
InsertRow(r) ==
    /\ kind[r] \in {"binary", "json"}
    /\ IF Gone(r)
         THEN Serve(r, "locked", "failing") /\ UNCHANGED rows
         ELSE Serve(r, "locked", "inserted") /\ rows' = [rows EXCEPT ![r] = "pending"]
    /\ UNCHANGED <<viewOnly, uploaded>>

(* What follows goes wrong: ValueErrors of upload_clk_data_binary (from    *)
(* project_clks_post they are the rule), the database, the broker.         *)
FailAfterRow(r) ==
    /\ Fault("row")
    /\ Serve(r, "inserted", "failing")
    /\ UNCHANGED <<project, uploaded, rows, stored, kind, task, checks, runs>>

(* Mutant: the encodings are committed before the upload is set ready.     *)
StoreBinaryFirst(r) ==
    /\ kind[r] = "binary"
    /\ IF r \in stored
         THEN Serve(r, "inserted", "saved") /\ rows' = SetRows(r, "ready")
         ELSE view[r] = "inserted" /\ UNCHANGED <<view, rows>>
    /\ stored' = stored \union {r}
    /\ UNCHANGED <<project, uploaded, kind, task, checks, runs, faults>>

(* The second transaction of upload_clk_data_binary.                       *)
StoreBinary(r) ==
    /\ kind[r] = "binary"
    /\ IF Gone(r) \/ Taken(r)
         THEN Serve(r, "inserted", "failing") /\ UNCHANGED <<stored, rows>>
         ELSE /\ Serve(r, "inserted", "saved")
              /\ stored' = stored \union {r}
              /\ rows' = SetRows(r, "ready")
    /\ UNCHANGED <<project, uploaded, kind, task, checks, runs, faults>>

(* handle_raw_upload, pull_external_data or _encodings_only is enqueued.   *)
SendTask(r) ==
    /\ \/ kind[r] = "json" /\ Serve(r, "inserted", "saved")
       \/ kind[r] \in {"file", "blocks"} /\ Serve(r, "locked", "saved")
    /\ task' = [task EXCEPT ![r] = "sent"]
    /\ UNCHANGED <<project, uploaded, rows, stored, kind, checks, runs, faults>>

(* The exception handlers: the token may be used again.                    *)
Unlock(r) ==
    /\ Serve(r, "failing", "refused")
    /\ \E s \in {"not_started", "error"} : uploaded' = SetUploaded(r, s)
    /\ UNCHANGED <<viewOnly, rows>>

(* Mutant: the state of an upload is written to the data provider.         *)
SetDoneReady(r) ==
    /\ Serve(r, "saved", "done")
    /\ uploaded' = SetUploaded(r, "ready")
    /\ UNCHANGED <<viewOnly, rows>>

SetDone(r) ==
    /\ Serve(r, "saved", "done")
    /\ uploaded' = SetUploaded(r, "done")
    /\ UNCHANGED <<viewOnly, rows>>

(* Mutant: the view leaves counting to the tasks.                          *)
CountUploadedNever(r) ==
    /\ Serve(r, "done", "accepted")
    /\ UNCHANGED <<viewOnly, uploaded, rows>>

(* clks_uploaded_to_project, ready or not; then 201.                       *)
CountUploaded(r) ==
    /\ Serve(r, "done", "accepted")
    /\ checks' = IF AllUploaded THEN checks + 1 ELSE checks
    /\ UNCHANGED <<project, uploaded, rows, stored, kind, task, runs, faults>>

(* The process that serves the request dies.                               *)
Die(r) ==
    /\ Fault("death")
    /\ view[r] \notin {"idle", "accepted", "refused", "dead"}
    /\ view' = [view EXCEPT ![r] = "dead"]
    /\ UNCHANGED <<project, uploaded, rows, stored, kind, task, checks, runs>>

-------------------------------------------------------------------------------
(* The celery tasks                                                        *)

(* A task does nothing for a project that is deleted.                      *)
StartTask(r) ==
    /\ Work(r, "sent", IF project = "live" THEN "reading" ELSE "ended")
    /\ UNCHANGED <<taskOnly, rows, stored, checks, faults>>

(* handle_raw_upload stores; a failure is nobody's business.               *)
StoreRaw(r) ==
    /\ kind[r] = "json"
    /\ IF Gone(r) \/ Taken(r)
         THEN Work(r, "reading", "ended") /\ UNCHANGED stored
         ELSE Work(r, "reading", "stored") /\ stored' = stored \union {r}
    /\ UNCHANGED <<taskOnly, rows, checks, faults>>

(* check_dataproviders_encoding: the size may be invalid, which is         *)
(* recorded, ...                                                           *)
CheckSize(r) ==
    /\ Work(r, "stored", "sized")
    /\ \/ UNCHANGED rows
       \/ rows' = SetRows(r, "error")
    /\ UNCHANGED <<taskOnly, stored, checks, faults>>

(* ... but in either case the upload becomes ready.                        *)
RawReady(r) ==
    /\ Work(r, "sized", "counting")
    /\ rows' = SetRows(r, "ready")
    /\ UNCHANGED <<taskOnly, stored, checks, faults>>

(* pull_external_data_encodings_only records the upload (a second time if  *)
(* delivered again, which the unique token prevents), ...                  *)
InsertPulled(r) ==
    /\ kind[r] = "file"
    /\ IF Gone(r) \/ rows[r] # "none"
         THEN Work(r, "reading", "failing") /\ UNCHANGED rows
         ELSE Work(r, "reading", "inserted") /\ rows' = [rows EXCEPT ![r] = "pending"]
    /\ UNCHANGED <<taskOnly, stored, checks, faults>>

(* Mutant: the upload becomes ready and then the encodings are stored.     *)
StorePulledLate(r) ==
    /\ Work(r, "inserted", "counting")
    /\ rows' = SetRows(r, "ready")
    /\ UNCHANGED <<taskOnly, stored, checks, faults>>

(* ... and stores it, with the same two transactions as the view.          *)
StorePulled(r) ==
    /\ IF Gone(r) \/ Taken(r)
         THEN Work(r, "inserted", "failing") /\ UNCHANGED <<stored, rows>>
         ELSE /\ Work(r, "inserted", "counting")
              /\ stored' = stored \union {r}
              /\ rows' = SetRows(r, "ready")
    /\ UNCHANGED <<taskOnly, checks, faults>>

(* pull_external_data does all that in one transaction.                    *)
PullBlocks(r) ==
    /\ kind[r] = "blocks"
    /\ IF Gone(r) \/ rows[r] # "none" \/ Taken(r)
         THEN Work(r, "reading", "failing") /\ UNCHANGED <<stored, rows>>
         ELSE /\ Work(r, "reading", "counting")
              /\ stored' = stored \union {r}
              /\ rows' = [SetRows(r, "ready") EXCEPT ![r] = "ready"]
    /\ UNCHANGED <<taskOnly, checks, faults>>

FailTask(r) ==
    /\ Fault("task")
    /\ task[r] \in {"reading", "inserted"}
    /\ task' = [task EXCEPT ![r] = IF kind[r] = "json" THEN "ended" ELSE "failing"]
    /\ UNCHANGED <<taskOnly, rows, stored, checks>>

(* Mutant: the error callback takes back what the upload had stored.       *)
UploadErrorTakesBack(r) ==
    /\ Work(r, "failing", "ended")
    /\ rows' = IF Gone(r) THEN rows ELSE [rows EXCEPT ![r] = "error"]
    /\ stored' = stored \ {r}
    /\ UNCHANGED <<taskOnly, checks, faults>>

(* handle_upload_error: the row is updated, or inserted.                   *)
UploadError(r) ==
    /\ Work(r, "failing", "ended")
    /\ rows' = IF Gone(r) THEN rows ELSE [rows EXCEPT ![r] = "error"]
    /\ UNCHANGED <<taskOnly, stored, checks, faults>>

(* handle_raw_upload counts what is ready, the others what is uploaded.    *)
CountTask(r) ==
    /\ Work(r, "counting", "ended")
    /\ checks' = IF \/ kind[r] = "json" /\ AllReady
                    \/ kind[r] # "json" /\ AllUploaded
                   THEN checks + 1 ELSE checks
    /\ UNCHANGED <<taskOnly, rows, stored, faults>>

(* The worker dies; its message, not acknowledged, is delivered again.     *)
Redeliver(r) ==
    /\ Fault("redelivery")
    /\ task[r] \in {"reading", "inserted", "stored", "sized", "counting"}
    /\ task' = [task EXCEPT ![r] = "sent"]
    /\ UNCHANGED <<taskOnly, rows, stored, checks>>

(* Mutant: the check trusts whoever scheduled it.                          *)
CheckNothing ==
    /\ checks > 0
    /\ checks' = checks - 1
    /\ runs' = "scheduled"
    /\ UNCHANGED <<project, uploaded, rows, stored, kind, view, task, faults>>

(* check_for_executable_runs, up to the count of what is ready.            *)
Check ==
    /\ checks > 0
    /\ checks' = checks - 1
    /\ runs' = IF AllReady THEN "scheduled" ELSE runs
    /\ UNCHANGED <<project, uploaded, rows, stored, kind, view, task, faults>>

-------------------------------------------------------------------------------
(* DELETE project, and delete_project_data of the task remove_project      *)

MarkProject ==
    /\ project = "live"
    /\ project' = "marked"
    /\ UNCHANGED <<uploaded, rows, stored, kind, view, task, checks, runs, faults>>

(* Mutant: the data providers go without their uploads.                    *)
RemoveProjectKeepsRows ==
    /\ project = "marked"
    /\ project' = "removed"
    /\ uploaded' = [p \in Party |-> IF uploaded[p] = "done" THEN "gone" ELSE uploaded[p]]
    /\ stored' = {r \in stored : uploaded[Owner[r]] # "done"}
    /\ UNCHANGED <<rows, kind, view, task, checks, runs, faults>>

(* With the data providers whose upload is done go their uploads and       *)
(* encodings (on delete cascade); the others stay.                         *)
RemoveProjectData ==
    /\ project = "marked"
    /\ project' = "removed"
    /\ uploaded' = [p \in Party |-> IF uploaded[p] = "done" THEN "gone" ELSE uploaded[p]]
    /\ rows' = [r \in Request |-> IF uploaded[Owner[r]] = "done" THEN "none" ELSE rows[r]]
    /\ stored' = {r \in stored : uploaded[Owner[r]] # "done"}
    /\ UNCHANGED <<kind, view, task, checks, runs, faults>>

-------------------------------------------------------------------------------

ServeView(r) ==
    \/ Lock(r)
    \/ InsertRow(r)
    \/ StoreBinary(r)
    \/ SendTask(r)
    \/ Unlock(r)
    \/ SetDone(r)
    \/ CountUploaded(r)

RunTask(r) ==
    \/ StartTask(r)
    \/ StoreRaw(r)
    \/ CheckSize(r)
    \/ RawReady(r)
    \/ InsertPulled(r)
    \/ StorePulled(r)
    \/ PullBlocks(r)
    \/ UploadError(r)
    \/ CountTask(r)

Disturb(r) ==
    \/ FailAfterRow(r)
    \/ Die(r)
    \/ FailTask(r)
    \/ Redeliver(r)

Next ==
    \/ \E r \in Request :
         \/ \E k \in Kinds[r] : Post(r, k)
         \/ Reject(r)
         \/ ServeView(r)
         \/ RunTask(r)
         \/ Disturb(r)
    \/ Check
    \/ MarkProject
    \/ RemoveProjectData

(* A web process serves what it accepted, workers take what is queued.     *)
(* Nobody has to post, to delete or to fail.                               *)
Fairness ==
    /\ \A r \in Request : WF_vars(ServeView(r)) /\ WF_vars(RunTask(r))
    /\ WF_vars(Check)

Spec     == Init /\ [][Next]_vars
FairSpec == Spec /\ Fairness

-------------------------------------------------------------------------------
(* Properties                                                              *)

UploadsTypeOK ==
    /\ project \in {"live", "marked", "removed"}
    /\ uploaded \in [Party -> {"not_started", "in_progress", "done", "error", "gone"}]
    /\ rows \in [Request -> {"none", "pending", "ready", "error"}]
    /\ stored \subseteq Request
    /\ kind \in [Request -> Kind \union {"none"}]
    /\ view \in [Request -> ViewStep]
    /\ task \in [Request -> TaskStep]
    /\ checks \in Nat
    /\ runs \in {"waiting", "scheduled"}
    /\ faults \in 0..MaxFaults

Holding == {"locked", "inserted", "saved", "done", "accepted", "failing"}

(* The lock of is_dataprovider_allowed_to_upload_and_lock works: at most   *)
(* one request of a party is past it and not refused, and one that was     *)
(* accepted keeps all others out for good.                                 *)
OneUploadPerParty ==
    \A r, s \in Request :
        /\ view[r] \in Holding
        /\ view[s] \in Holding
        /\ Owner[r] = Owner[s]
        => r = s

(* A client told that its upload failed, who may use its token again, has  *)
(* left no encodings in the database and no task that would put them       *)
(* there: the encodings of a party are those of the one request it may     *)
(* take for accepted.                                                      *)
RefusedStoresNothing ==
    \A r \in Request :
        view[r] = "refused" => r \notin stored /\ task[r] = "none"

(* An uploads row is ready only when encodings of its party are stored,    *)
(* whatever task failed or was delivered again.                            *)
ReadyIsStored ==
    \A r \in Request : rows[r] = "ready" => Taken(r)

(* What makes the three above inductive.  While a view holds its party's   *)
(* lock the data provider is in_progress, once it is through it is done,   *)
(* or gone with the project; until the view has stored the encodings or    *)
(* sent the task there is nothing to take back; handle_raw_upload calls an *)
(* upload ready after it stored it; what has gone has no rows.             *)
LockHeld ==
    \A r \in Request :
        /\ view[r] \in {"locked", "inserted", "saved", "failing"}
              => uploaded[Owner[r]] \in {"in_progress", "gone"}
        /\ view[r] \in {"done", "accepted"} => uploaded[Owner[r]] \in {"done", "gone"}

NothingYet ==
    \A r \in Request :
        view[r] \in {"idle", "checked", "locked", "inserted", "failing", "refused"}
            => r \notin stored /\ task[r] = "none"

StoredFirst ==
    \A r \in Request : task[r] \in {"stored", "sized"} => Taken(r) \/ Gone(r)

GoneIsEmpty == \A r \in Request : Gone(r) => rows[r] = "none" /\ r \notin stored

UploadsInvariant ==
    /\ OneUploadPerParty
    /\ LockHeld
    /\ NothingYet
    /\ StoredFirst
    /\ GoneIsEmpty
    /\ ReadyIsStored

(* A refused request whose uploads row stayed: nothing deletes it, and     *)
(* update_encoding_metadata treats it like the row of the next request.    *)
Leftover == \E r \in Request : view[r] = "refused" /\ rows[r] # "none"

AllStored == \A p \in Party : \E r \in stored : Owner[r] = p

(* Runs are scheduled only when every party has contributed encodings:     *)
(* what clks_uploaded_to_project is said to see.                           *)
ScheduledOnAllData ==
    runs = "scheduled" /\ project # "removed" => AllStored

(* Where no request left a row behind, the count of rows does see it.      *)
ScheduledOnAllDataOrLeftover ==
    Leftover \/ ScheduledOnAllData

(* However the views and the tasks of the parties interleave, and whether  *)
(* it is a task or a view that counts last, once every party's upload is   *)
(* done the runs get scheduled; unless something failed, or the project    *)
(* goes.                                                                   *)
DoneUploadsAreScheduled ==
    (\A p \in Party : uploaded[p] = "done")
        ~> (runs = "scheduled" \/ project # "live" \/ faults > 0)

(* The client's answer: 201, or an error; none while the request is served *)
(* or if the process that served it died.                                  *)
Answered(r) == IF view[r] \in {"accepted", "refused"} THEN view[r] ELSE "open"

(* The uploads of the parties implement the contract of UploadContract:    *)
(* encodings, answers and the scheduling of runs change together only as   *)
(* promised, in every single step.                                         *)
Contract == INSTANCE UploadContract WITH
    answer <- [r \in Request |-> Answered(r)],
    scheduled <- (runs = "scheduled"),
    removed <- (project = "removed"),
    leftover <- Leftover
ImplementsContract == Contract!ContractSpec
===============================================================================
