-------------------------- MODULE RunSchedulerProofs --------------------------
(***************************************************************************)
(* Theorems about RunScheduler, for every set of runs and parties and any  *)
(* number of lost processes and redelivered messages.                      *)
(***************************************************************************)
EXTENDS RunScheduler, TLAPS

(* Dropping a delivery of prerun_check, or moving it between steps, keeps  *)
(* the counts natural numbers as long as there was one.                    *)
LEMMA LeaveCounts ==
    ASSUME prerun \in [Run -> [PrerunStep -> Nat]], NEW r \in Run, NEW s \in PrerunStep,
           prerun[r][s] > 0, Leave(r, s)
    PROVE  prerun' \in [Run -> [PrerunStep -> Nat]]
  <1>1. prerun[r] \in [PrerunStep -> Nat]
    OBVIOUS
  <1>2. prerun[r][s] - 1 \in Nat
    BY <1>1
  <1>3. [prerun[r] EXCEPT ![s] = @ - 1] \in [PrerunStep -> Nat]
    BY <1>1, <1>2
  <1> QED BY <1>3 DEF Leave

(* The same for a delivery that takes a step.                              *)
LEMMA AdvanceCounts ==
    ASSUME prerun \in [Run -> [PrerunStep -> Nat]], NEW r \in Run, NEW s \in PrerunStep,
           NEW t \in PrerunStep, s # t, prerun[r][s] > 0, Advance(r, s, t)
    PROVE  prerun' \in [Run -> [PrerunStep -> Nat]]
  <1>1. prerun[r] \in [PrerunStep -> Nat]
    OBVIOUS
  <1>2. prerun[r][s] - 1 \in Nat /\ prerun[r][t] + 1 \in Nat
    BY <1>1
  <1>3. [prerun[r] EXCEPT ![s] = @ - 1, ![t] = @ + 1] \in [PrerunStep -> Nat]
    BY <1>1, <1>2
  <1> QED BY <1>3 DEF Advance

(* A check, view or ingestion that goes to a step keeps the type of checks.*)
LEMMA CheckSteps ==
    ASSUME TypeOK, NEW c \in Trigger, NEW s \in CheckStep, GoTo(c, s)
    PROVE  checks' \in [Trigger -> [step : CheckStep, new : SUBSET Run]]
  BY DEF TypeOK, GoTo

(* Each part of the scheduler keeps the type invariant: the initial state, *)
LEMMA InitTypeOK == SchedulerInit => TypeOK
  BY SchedulerAssumption DEF SchedulerInit, TypeOK, ProjectState, RowState, RunState, Message, CacheState,
     CheckStep, PrerunStep

(* requests of clients,                                                    *)
LEMMA ClientTypeOK == TypeOK /\ Client => TypeOK'
  <1> SUFFICES ASSUME TypeOK, Client PROVE TypeOK'
    OBVIOUS
  <1> USE DEF dataVars, runVars, faultVars
  <1>1. ASSUME NEW r \in Run, PostRun(r) PROVE TypeOK'
    <2>1. checks' \in [Trigger -> [step : CheckStep, new : SUBSET Run]]
      BY <1>1, CheckSteps DEF PostRun, Trigger, CheckStep
    <2> QED BY <1>1, <2>1 DEF PostRun, TypeOK
  <1>2. ASSUME NEW r \in Run, DeleteRun(r) PROVE TypeOK'
    BY <1>2 DEF DeleteRun, TypeOK, CacheState
  <1>3. ASSUME NEW p \in Party, UploadReady(p) PROVE TypeOK'
    <2>1. checks' \in [Trigger -> [step : CheckStep, new : SUBSET Run]]
      BY <1>3, CheckSteps DEF UploadReady, Trigger, CheckStep
    <2> QED BY <1>3, <2>1 DEF UploadReady, TypeOK
  <1>4. CASE MarkProject
    BY <1>4 DEF MarkProject, TypeOK, ProjectState
  <1> QED BY <1>1, <1>2, <1>3, <1>4 DEF Client

(* the rest of the views and ingestions,                                   *)
LEMMA ViewTypeOK == TypeOK /\ View => TypeOK'
  <1> SUFFICES ASSUME TypeOK, View PROVE TypeOK'
    OBVIOUS
  <1> USE DEF dataVars, runVars, faultVars
  <1>1. ASSUME NEW r \in Run, SaveRun(r) PROVE TypeOK'
    <2>1. checks' \in [Trigger -> [step : CheckStep, new : SUBSET Run]]
      BY <1>1, CheckSteps DEF SaveRun, Trigger, CheckStep
    <2> QED BY <1>1, <2>1 DEF SaveRun, TypeOK, RowState, RunState
  <1>2. ASSUME NEW r \in Run, SendCheck(r) PROVE TypeOK'
    <2>1. checks' \in [Trigger -> [step : CheckStep, new : SUBSET Run]]
      BY <1>2, CheckSteps DEF SendCheck, Trigger, CheckStep
    <2> QED BY <1>2, <2>1 DEF SendCheck, TypeOK
  <1>3. ASSUME NEW r \in Run, DeleteRow(r) PROVE TypeOK'
    BY <1>3 DEF DeleteRow, TypeOK, RowState
  <1>4. ASSUME NEW p \in Party, CountReady(p) PROVE TypeOK'
    <2>1. checks' \in [Trigger -> [step : CheckStep, new : SUBSET Run]]
      BY <1>4, CheckSteps DEF CountReady, Trigger, CheckStep
    <2> QED BY <1>4, <2>1 DEF CountReady, TypeOK
  <1>5. CASE SendRemoveProject
    BY <1>5 DEF SendRemoveProject, TypeOK, ProjectState
  <1> QED BY <1>1, <1>2, <1>3, <1>4, <1>5 DEF View

(* check_for_executable_runs,                                              *)
LEMMA CheckTypeOK == \A c \in Trigger : TypeOK /\ Check(c) => TypeOK'
  <1> SUFFICES ASSUME NEW c \in Trigger, TypeOK, Check(c) PROVE TypeOK'
    OBVIOUS
  <1> USE DEF dataVars, runVars, faultVars
  <1> DEFINE ChecksOK == checks' \in [Trigger -> [step : CheckStep, new : SUBSET Run]]
  <1>1. CASE CheckUploads(c)
    <2>1. ChecksOK
      BY <1>1, CheckSteps DEF CheckUploads, CheckStep
    <2> QED BY <1>1, <2>1 DEF CheckUploads, TypeOK
  <1>2. CASE NoUploads(c)
    <2>1. ChecksOK
      BY <1>2, CheckSteps DEF NoUploads, CheckStep
    <2> QED BY <1>2, <2>1 DEF NoUploads, TypeOK
  <1>3. CASE RejectUploads(c)
    <2>1. ChecksOK
      BY <1>3, CheckSteps DEF RejectUploads, CheckStep
    <2>2. Offending \subseteq Party
      BY DEF Offending
    <2> QED BY <1>3, <2>1, <2>2 DEF RejectUploads, TypeOK
  <1>4. CASE FailRuns(c)
    <2>1. ChecksOK
      BY <1>4, CheckSteps DEF FailRuns, CheckStep
    <2> QED BY <1>4, <2>1 DEF FailRuns, TypeOK, RowState, RunState, Message
  <1>5. CASE QueueRuns(c)
    <2> DEFINE new == {r \in Run : state[r] = "created"}
    <2>1. ChecksOK
      BY <1>5 DEF QueueRuns, TypeOK, CheckStep
    <2>2. state' \in [Run -> RowState]
      BY <1>5 DEF QueueRuns, TypeOK, RowState, RunState
    <2>3. stage' \in [Run -> Nat]
      BY <1>5 DEF QueueRuns, TypeOK
    <2> QED BY <1>5, <2>1, <2>2, <2>3 DEF QueueRuns, TypeOK
  <1>6. CASE CheckDone(c)
    <2>1. ChecksOK
      BY <1>6, CheckSteps DEF CheckDone, CheckStep
    <2> QED BY <1>6, <2>1 DEF CheckDone, TypeOK
  <1>7. ASSUME NEW r \in Run, SendPrerun(c, r) PROVE TypeOK'
    <2>1. ChecksOK
      BY <1>7 DEF SendPrerun, TypeOK
    <2>2. prerun' \in [Run -> [PrerunStep -> Nat]]
      BY <1>7 DEF SendPrerun, TypeOK, PrerunStep
    <2> QED BY <1>7, <2>1, <2>2 DEF SendPrerun, TypeOK
  <1> QED BY <1>1, <1>2, <1>3, <1>4, <1>5, <1>6, <1>7 DEF Check

(* prerun_check,                                                           *)
LEMMA PrerunTypeOK == \A r \in Run : TypeOK /\ Prerun(r) => TypeOK'
  <1> SUFFICES ASSUME NEW r \in Run, TypeOK, Prerun(r) PROVE TypeOK'
    OBVIOUS
  <1> USE DEF dataVars, runVars, faultVars
  <1> DEFINE CountsOK == prerun' \in [Run -> [PrerunStep -> Nat]]
  <1>0. prerun \in [Run -> [PrerunStep -> Nat]]
    BY DEF TypeOK
  <1>1. CASE PrerunCache(r)
    <2>1. CountsOK
      BY <1>0, <1>1, LeaveCounts, AdvanceCounts DEF PrerunCache, PrerunStep
    <2> QED BY <1>1, <2>1 DEF PrerunCache, TypeOK
  <1>2. CASE PrerunLock(r)
    <2>1. CountsOK
      BY <1>0, <1>2, LeaveCounts, AdvanceCounts DEF PrerunLock, PrerunStep
    <2> QED BY <1>2, <2>1 DEF PrerunLock, TypeOK
  <1>3. CASE PrerunActivate(r)
    <2>1. CountsOK
      BY <1>0, <1>3, AdvanceCounts DEF PrerunActivate, PrerunStep
    <2> QED BY <1>3, <2>1 DEF PrerunActivate, TypeOK, CacheState
  <1>4. CASE PrerunCommit(r)
    <2>1. CountsOK
      BY <1>0, <1>4, AdvanceCounts DEF PrerunCommit, PrerunStep
    <2> QED BY <1>4, <2>1 DEF PrerunCommit, TypeOK, RowState, RunState
  <1>5. CASE PrerunLaunch(r)
    <2>1. CountsOK
      BY <1>0, <1>5, LeaveCounts DEF PrerunLaunch, PrerunStep
    <2>2. launched' \in [Run -> Nat]
      BY <1>5 DEF PrerunLaunch, TypeOK
    <2> QED BY <1>5, <2>1, <2>2 DEF PrerunLaunch, TypeOK
  <1> QED BY <1>1, <1>2, <1>3, <1>4, <1>5 DEF Prerun

(* remove_project,                                                         *)
LEMMA RemoveTypeOK == TypeOK /\ RemoveProject => TypeOK'
  BY DEF RemoveProject, RemoveProjectCaches, RemoveProjectData, TypeOK, ProjectState, CacheState,
         dataVars, runVars, faultVars

(* the pipeline,                                                           *)
LEMMA OutcomeTypeOK == \A r \in Run : TypeOK /\ (PipelineOutcome(r) \/ DeleteRefused(r)) => TypeOK'
  <1> SUFFICES ASSUME NEW r \in Run, TypeOK, PipelineOutcome(r) \/ DeleteRefused(r) PROVE TypeOK'
    OBVIOUS
  <1> USE DEF dataVars, runVars, faultVars
  <1>1. CASE DeleteRefused(r)
    BY <1>1 DEF DeleteRefused, TypeOK
  <1>2. CASE PipelineOutcome(r)
    <2>1. state' \in [Run -> RowState] /\ cache' \in [Run -> CacheState]
      BY <1>2 DEF PipelineOutcome, TypeOK, RowState, RunState, CacheState
    <2>2. stage' \in [Run -> Nat]
      BY <1>2 DEF PipelineOutcome, TypeOK
    <2>3. errorMsg' \in [Run -> Message]
      BY <1>2 DEF PipelineOutcome, TypeOK, Message
    <2> QED BY <1>2, <2>1, <2>2, <2>3 DEF PipelineOutcome, TypeOK
  <1> QED BY <1>1, <1>2

(* and faults.                                                             *)
LEMMA FaultTypeOK == TypeOK /\ Fault => TypeOK'
  <1> SUFFICES ASSUME TypeOK, Fault PROVE TypeOK'
    OBVIOUS
  <1> USE DEF dataVars, runVars
  <1>0. prerun \in [Run -> [PrerunStep -> Nat]]
    BY DEF TypeOK
  <1>1. ASSUME NEW c \in Trigger, LoseCheck(c) \/ RedeliverCheck(c) PROVE TypeOK'
    <2>1. checks' \in [Trigger -> [step : CheckStep, new : SUBSET Run]]
      BY <1>1, CheckSteps DEF LoseCheck, RedeliverCheck, CheckStep
    <2> QED BY <1>1, <2>1 DEF LoseCheck, RedeliverCheck, Lose, Redeliver, TypeOK
  <1>2. ASSUME NEW r \in Run, LosePrerun(r) PROVE TypeOK'
    <2>1. prerun' \in [Run -> [PrerunStep -> Nat]]
      BY <1>0, <1>2, LeaveCounts DEF LosePrerun
    <2> QED BY <1>2, <2>1 DEF LosePrerun, Lose, TypeOK
  <1>3. ASSUME NEW r \in Run, LoseDelete(r) PROVE TypeOK'
    BY <1>3 DEF LoseDelete, Lose, TypeOK
  <1>4. ASSUME NEW r \in Run, RedeliverPrerun(r) PROVE TypeOK'
    <2>1. prerun' \in [Run -> [PrerunStep -> Nat]]
      BY <1>4 DEF RedeliverPrerun, TypeOK, PrerunStep
    <2> QED BY <1>4, <2>1 DEF RedeliverPrerun, Redeliver, TypeOK
  <1>5. CASE LoseRemoveProject
    BY <1>5 DEF LoseRemoveProject, Lose, TypeOK, ProjectState
  <1>6. CASE RedeliverRemoveProject
    BY <1>6 DEF RedeliverRemoveProject, Redeliver, TypeOK, ProjectState
  <1> QED BY <1>1, <1>2, <1>3, <1>4, <1>5, <1>6 DEF Fault

(* So does every step.                                                     *)
LEMMA NextTypeOK == TypeOK /\ [SchedulerNext]_schedulerVars => TypeOK'
  <1> SUFFICES ASSUME TypeOK, [SchedulerNext]_schedulerVars PROVE TypeOK'
    OBVIOUS
  <1>1. CASE SchedulerNext
    BY <1>1, ClientTypeOK, ViewTypeOK, CheckTypeOK, PrerunTypeOK, RemoveTypeOK, OutcomeTypeOK,
       FaultTypeOK DEF SchedulerNext
  <1>2. CASE UNCHANGED schedulerVars
    BY <1>2 DEF schedulerVars, TypeOK
  <1> QED BY <1>1, <1>2

(* Every variable of the scheduler keeps its type: in particular no        *)
(* delivery of prerun_check takes a step it is not at (run.py:13-53).      *)
THEOREM SchedulerTypeCorrect == SchedulerSpec => []TypeOK
  BY InitTypeOK, NextTypeOK, PTL DEF SchedulerSpec
-------------------------------------------------------------------------------
(* The inductive invariant                                                 *)

(* The initial state satisfies the invariant.                              *)
LEMMA InitInvariant == SchedulerInit => SchedulerInvariant
  BY SchedulerAssumption
  DEF SchedulerInit, SchedulerInvariant, OneStarter, RowConsistent, NewRunsQueued, NothingQueued,
      NothingRejected, DataFirst, Dormant, Locked, PrerunStep, Trigger

(* A check that takes a step, or a view or an ingestion on its way to one, *)
(* and changes nothing else, keeps the invariant: it does not start over,  *)
(* and goes on to the sizes only when all encodings are ready.             *)
LEMMA StepKeeps ==
    ASSUME TypeOK, SchedulerInvariant, NEW c \in Trigger, NEW s \in CheckStep, GoTo(c, s),
           s \notin {"idle", "failing", "sending"},
           s = "posting" => At(c, "idle"),
           s = "sizes" => ready = Party,
           ready \subseteq ready', ready' \subseteq Party,
           UNCHANGED <<project, sizing, state, errorMsg, launched, prerun, deleting>>
    PROVE  SchedulerInvariant'
  <1> USE DEF GoTo, At
  <1>1. OneStarter'
    BY DEF SchedulerInvariant, OneStarter, Locked
  <1>2. RowConsistent'
    BY DEF TypeOK, SchedulerInvariant, RowConsistent, Exists, Trigger
  <1>3. NewRunsQueued'
    BY DEF TypeOK, SchedulerInvariant, NewRunsQueued
  <1>4. NothingQueued'
    BY DEF TypeOK, SchedulerInvariant, NothingQueued, Dormant
  <1>5. NothingRejected'
    BY DEF TypeOK, SchedulerInvariant, NothingRejected
  <1>6. DataFirst'
    BY DEF TypeOK, SchedulerInvariant, DataFirst, Dormant
  <1> QED BY <1>1, <1>2, <1>3, <1>4, <1>5, <1>6 DEF SchedulerInvariant

(* Nor does a delivery that is dropped, or that moves on without locking.  *)
LEMMA LeaveKeeps ==
    ASSUME TypeOK, SchedulerInvariant, NEW r \in Run, NEW s \in PrerunStep, prerun[r][s] > 0,
           Leave(r, s),
           UNCHANGED <<project, sizing, ready, state, errorMsg, checks, launched, deleting>>
    PROVE  SchedulerInvariant'
  <1>1. \A q \in Run, t \in PrerunStep : prerun'[q][t] <= prerun[q][t] /\ prerun'[q][t] \in Nat
    BY LeaveCounts DEF TypeOK, Leave
  <1>2. OneStarter'
    <2> SUFFICES ASSUME NEW q \in Run PROVE
          /\ prerun'[q]["send"] + launched[q] <= 1
          /\ prerun'[q]["locked"] + prerun'[q]["cached"] <= 1
          /\ Locked(q)' => state[q] = "queued"
          /\ prerun'[q]["send"] + launched[q] > 0 => state[q] \notin {"unposted", "created", "queued"}
          /\ \A t \in PrerunStep : prerun'[q][t] > 0 => state[q] \notin {"unposted", "created"}
      BY DEF OneStarter
    <2>1. \A t \in PrerunStep : prerun[q][t] \in Nat /\ prerun'[q][t] \in Nat
                                /\ prerun'[q][t] <= prerun[q][t]
      BY <1>1 DEF TypeOK
    <2>2. launched[q] \in Nat /\ {"send", "locked", "cached"} \subseteq PrerunStep
      BY DEF TypeOK, PrerunStep
    <2>3. /\ prerun[q]["send"] + launched[q] <= 1
          /\ prerun[q]["locked"] + prerun[q]["cached"] <= 1
          /\ prerun[q]["locked"] + prerun[q]["cached"] > 0 => state[q] = "queued"
          /\ prerun[q]["send"] + launched[q] > 0 => state[q] \notin {"unposted", "created", "queued"}
          /\ \A t \in PrerunStep : prerun[q][t] > 0 => state[q] \notin {"unposted", "created"}
      BY DEF SchedulerInvariant, OneStarter, Locked
    <2> QED BY <2>1, <2>2, <2>3 DEF Locked
  <1>3. RowConsistent'
    BY DEF SchedulerInvariant, RowConsistent, Exists
  <1>4. \A q \in Run : Dormant(q) => Dormant(q)'
    BY <1>1 DEF Dormant, TypeOK
  <1>5. NewRunsQueued' /\ NothingQueued' /\ NothingRejected' /\ DataFirst'
    BY <1>4 DEF SchedulerInvariant, NewRunsQueued, NothingQueued, NothingRejected, DataFirst
  <1> QED BY <1>2, <1>3, <1>5 DEF SchedulerInvariant

(* Each part of the scheduler keeps the invariant: requests of clients,    *)
LEMMA ClientInvariant == TypeOK /\ SchedulerInvariant /\ Client => SchedulerInvariant'
  <1> SUFFICES ASSUME TypeOK, SchedulerInvariant, Client PROVE SchedulerInvariant'
    OBVIOUS
  <1> USE DEF dataVars, runVars
  <1>1. ASSUME NEW r \in Run, PostRun(r) PROVE SchedulerInvariant'
    BY <1>1, StepKeeps DEF PostRun, TypeOK, Trigger, CheckStep
  <1>2. ASSUME NEW r \in Run, DeleteRun(r) PROVE SchedulerInvariant'
    <2>1. RowConsistent'
      BY <1>2 DEF DeleteRun, SchedulerInvariant, RowConsistent, Exists
    <2>2. OneStarter' /\ NewRunsQueued' /\ NothingQueued' /\ NothingRejected' /\ DataFirst'
      BY <1>2 DEF DeleteRun, SchedulerInvariant, OneStarter, Locked, NewRunsQueued, NothingQueued,
                  NothingRejected, DataFirst, Dormant
    <2> QED BY <2>1, <2>2 DEF SchedulerInvariant
  <1>3. ASSUME NEW p \in Party, UploadReady(p) PROVE SchedulerInvariant'
    BY <1>3, StepKeeps DEF UploadReady, TypeOK, Trigger, CheckStep
  <1>4. CASE MarkProject
    BY <1>4 DEF MarkProject, SchedulerInvariant, OneStarter, Locked, RowConsistent, Exists,
                NewRunsQueued, NothingQueued, NothingRejected, DataFirst, Dormant
  <1> QED BY <1>1, <1>2, <1>3, <1>4 DEF Client

(* the rest of the views and ingestions,                                   *)
LEMMA ViewInvariant == TypeOK /\ SchedulerInvariant /\ View => SchedulerInvariant'
  <1> SUFFICES ASSUME TypeOK, SchedulerInvariant, View PROVE SchedulerInvariant'
    OBVIOUS
  <1> USE DEF dataVars, runVars
  <1>1. ASSUME NEW r \in Run, SaveRun(r) PROVE SchedulerInvariant'
    <2> USE DEF SaveRun, GoTo, At, TypeOK
    <2>0. state[r] = "unposted" /\ errorMsg[r] # "sizes"
      BY <1>1 DEF SchedulerInvariant, RowConsistent
    <2>1. OneStarter'
      BY <1>1, <2>0 DEF SchedulerInvariant, OneStarter, Locked, PrerunStep
    <2>2. RowConsistent'
      BY <1>1, <2>0 DEF SchedulerInvariant, RowConsistent, Exists, RunState, Trigger
    <2>3. NewRunsQueued'
      BY <1>1, <2>0 DEF SchedulerInvariant, NewRunsQueued
    <2>4. NothingQueued' /\ NothingRejected' /\ DataFirst'
      BY <1>1 DEF SchedulerInvariant, NothingQueued, NothingRejected, DataFirst, Dormant
    <2> QED BY <2>1, <2>2, <2>3, <2>4 DEF SchedulerInvariant
  <1>2. ASSUME NEW r \in Run, SendCheck(r) PROVE SchedulerInvariant'
    BY <1>2, StepKeeps DEF SendCheck, TypeOK, Trigger, CheckStep
  <1>3. ASSUME NEW r \in Run, DeleteRow(r) PROVE SchedulerInvariant'
    <2> USE DEF DeleteRow, TypeOK
    <2>0. Exists(r)
      BY <1>3 DEF SchedulerInvariant, RowConsistent
    <2>1. OneStarter'
      BY <1>3 DEF SchedulerInvariant, OneStarter, Locked
    <2>2. RowConsistent'
      BY <1>3, <2>0 DEF SchedulerInvariant, RowConsistent, Exists, RunState
    <2>3. NewRunsQueued' /\ NothingQueued' /\ NothingRejected' /\ DataFirst'
      BY <1>3 DEF SchedulerInvariant, NewRunsQueued, NothingQueued, NothingRejected, DataFirst, Dormant
    <2> QED BY <2>1, <2>2, <2>3 DEF SchedulerInvariant
  <1>4. ASSUME NEW p \in Party, CountReady(p) PROVE SchedulerInvariant'
    <2>1. CASE GoTo(p, "queued")
      BY <1>4, <2>1, StepKeeps DEF CountReady, TypeOK, Trigger, CheckStep
    <2>2. CASE GoTo(p, "gone")
      BY <1>4, <2>2, StepKeeps DEF CountReady, TypeOK, Trigger, CheckStep
    <2> QED BY <1>4, <2>1, <2>2 DEF CountReady
  <1>5. CASE SendRemoveProject
    BY <1>5 DEF SendRemoveProject, SchedulerInvariant, OneStarter, Locked, RowConsistent, Exists,
                NewRunsQueued, NothingQueued, NothingRejected, DataFirst, Dormant
  <1> QED BY <1>1, <1>2, <1>3, <1>4, <1>5 DEF View
(* check_for_executable_runs,                                              *)
LEMMA CheckInvariant == \A c \in Trigger : TypeOK /\ SchedulerInvariant /\ Check(c) => SchedulerInvariant'
  <1> SUFFICES ASSUME NEW c \in Trigger, TypeOK, SchedulerInvariant, Check(c)
               PROVE  SchedulerInvariant'
    OBVIOUS
  <1> USE DEF dataVars, runVars
  <1>1. CASE CheckUploads(c)
    <2>1. CASE ready = Party
      BY <1>1, <2>1, StepKeeps DEF CheckUploads, TypeOK, CheckStep
    <2>2. CASE ready # Party
      BY <1>1, <2>2, StepKeeps DEF CheckUploads, TypeOK, CheckStep
    <2> QED BY <2>1, <2>2
  <1>2. CASE NoUploads(c)
    BY <1>2, StepKeeps DEF NoUploads, TypeOK, CheckStep
  <1>3. CASE RejectUploads(c)
    <2> USE DEF RejectUploads, GoTo, At, TypeOK
    <2>1. OneStarter' /\ NewRunsQueued' /\ NothingQueued' /\ NothingRejected' /\ DataFirst'
      BY <1>3 DEF SchedulerInvariant, OneStarter, Locked, NewRunsQueued, NothingQueued,
                  NothingRejected, DataFirst, Dormant
    <2>2. RowConsistent'
      BY <1>3 DEF SchedulerInvariant, RowConsistent, Exists, Trigger
    <2> QED BY <2>1, <2>2 DEF SchedulerInvariant
  <1>4. CASE FailRuns(c)
    <2> USE DEF FailRuns, GoTo, At, TypeOK
    <2>0. sizing # "agree"
      BY <1>4 DEF SchedulerInvariant, NothingRejected
    <2>1. OneStarter'
      BY <1>4 DEF SchedulerInvariant, OneStarter, Locked, Exists, RunState
    <2>2. RowConsistent'
      BY <1>4 DEF SchedulerInvariant, RowConsistent, Exists, RowState, RunState, Trigger
    <2>3. NewRunsQueued' /\ NothingQueued'
      BY <1>4, <2>0 DEF SchedulerInvariant, NewRunsQueued, NothingQueued, Dormant
    <2>4. NothingRejected' /\ DataFirst'
      BY <1>4, <2>0 DEF NothingRejected, DataFirst
    <2> QED BY <2>1, <2>2, <2>3, <2>4 DEF SchedulerInvariant
  <1>5. CASE QueueRuns(c)
    <2> USE DEF QueueRuns, At, TypeOK
    <2>1. OneStarter'
      BY <1>5 DEF SchedulerInvariant, OneStarter, Locked
    <2>2. RowConsistent'
      BY <1>5 DEF SchedulerInvariant, RowConsistent, Exists, RunState, Trigger
    <2>3. NewRunsQueued' /\ NothingQueued' /\ NothingRejected'
      BY <1>5 DEF SchedulerInvariant, NewRunsQueued, NothingQueued, NothingRejected
    <2>4. DataFirst'
      BY <1>5 DEF SchedulerInvariant, DataFirst
    <2> QED BY <2>1, <2>2, <2>3, <2>4 DEF SchedulerInvariant
  <1>6. CASE CheckDone(c)
    BY <1>6, StepKeeps DEF CheckDone, TypeOK, CheckStep
  <1>7. ASSUME NEW r \in Run, SendPrerun(c, r) PROVE SchedulerInvariant'
    <2> USE DEF SendPrerun, At, TypeOK
    <2>0. state[r] \notin {"unposted", "created"} /\ sizing = "agree"
      BY <1>7 DEF SchedulerInvariant, NewRunsQueued, NothingQueued
    <2>1. OneStarter'
      BY <1>7, <2>0 DEF SchedulerInvariant, OneStarter, Locked, PrerunStep
    <2>2. RowConsistent'
      BY <1>7 DEF SchedulerInvariant, RowConsistent, Exists, Trigger
    <2>3. NewRunsQueued' /\ NothingQueued' /\ NothingRejected'
      BY <1>7, <2>0 DEF SchedulerInvariant, NewRunsQueued, NothingQueued, NothingRejected
    <2>4. DataFirst'
      BY <1>7 DEF SchedulerInvariant, DataFirst
    <2> QED BY <2>1, <2>2, <2>3, <2>4 DEF SchedulerInvariant
  <1> QED BY <1>1, <1>2, <1>3, <1>4, <1>5, <1>6, <1>7 DEF Check

(* A delivery that is somewhere keeps the parts about the data: encodings  *)
(* agree, so nothing is rejected, and they are all there.                  *)
LEMMA DeliveryFacts ==
    ASSUME TypeOK, SchedulerInvariant, NEW r \in Run, NEW s \in PrerunStep, prerun[r][s] > 0
    PROVE  /\ sizing = "agree"
           /\ ready = Party \/ project = "cleaned"
           /\ state[r] \notin {"unposted", "created"}
           /\ errorMsg[r] # "sizes"
  BY DEF TypeOK, SchedulerInvariant, NothingQueued, NothingRejected, DataFirst, Dormant, OneStarter

(* prerun_check, where the row lock keeps one delivery from starting what  *)
(* another starts,                                                         *)
LEMMA PrerunInvariant == \A r \in Run : TypeOK /\ SchedulerInvariant /\ Prerun(r) => SchedulerInvariant'
  <1> SUFFICES ASSUME NEW r \in Run, TypeOK, SchedulerInvariant, Prerun(r)
               PROVE  SchedulerInvariant'
    OBVIOUS
  <1> USE DEF dataVars, runVars
  <1> DEFINE DataParts == NewRunsQueued' /\ NothingQueued' /\ NothingRejected' /\ DataFirst'
  <1>0. /\ {"queued", "tx", "locked", "cached", "send"} \subseteq PrerunStep
        /\ \A q \in Run, t \in PrerunStep : prerun[q][t] \in Nat
        /\ \A q \in Run : launched[q] \in Nat
    BY DEF PrerunStep, TypeOK
  <1>1. CASE PrerunCache(r)
    <2>1. CASE Leave(r, "queued")
      BY <1>0, <1>1, <2>1, LeaveKeeps DEF PrerunCache
    <2>2. CASE Advance(r, "queued", "tx")
      <3> USE DEF PrerunCache, Advance
      <3>1. prerun' = [prerun EXCEPT ![r]["queued"] = @ - 1, ![r]["tx"] = @ + 1]
        BY <2>2
      <3>2. \A q \in Run : /\ prerun'[q]["locked"] = prerun[q]["locked"]
                           /\ prerun'[q]["cached"] = prerun[q]["cached"]
                           /\ prerun'[q]["send"] = prerun[q]["send"]
        BY <3>1 DEF TypeOK, PrerunStep
      <3>3. \A q \in Run \ {r} : prerun'[q] = prerun[q]
        BY <3>1 DEF TypeOK
      <3>4. OneStarter'
        BY <1>0, <1>1, <3>2, <3>3, DeliveryFacts DEF SchedulerInvariant, OneStarter, Locked
      <3>5. RowConsistent'
        BY <1>1 DEF SchedulerInvariant, RowConsistent, Exists
      <3>6. DataParts
        BY <1>0, <1>1, DeliveryFacts DEF SchedulerInvariant, NewRunsQueued, NothingQueued, NothingRejected,
                                  DataFirst
      <3> QED BY <3>4, <3>5, <3>6 DEF SchedulerInvariant
    <2> QED BY <1>1, <2>1, <2>2 DEF PrerunCache
  <1>2. CASE PrerunLock(r)
    <2>1. CASE Leave(r, "tx")
      BY <1>0, <1>2, <2>1, LeaveKeeps DEF PrerunLock
    <2>2. CASE MayStart(r) /\ Advance(r, "tx", "locked")
      <3> USE DEF PrerunLock, Advance
      <3>1. prerun' = [prerun EXCEPT ![r]["tx"] = @ - 1, ![r]["locked"] = @ + 1]
        BY <2>2
      <3>2. /\ prerun'[r]["locked"] = prerun[r]["locked"] + 1
            /\ prerun'[r]["cached"] = prerun[r]["cached"]
            /\ prerun'[r]["send"] = prerun[r]["send"]
        BY <3>1 DEF TypeOK, PrerunStep
      <3>3. \A q \in Run \ {r} : prerun'[q] = prerun[q]
        BY <3>1 DEF TypeOK
      <3>4. state[r] = "queued" /\ prerun[r]["locked"] = 0 /\ prerun[r]["cached"] = 0
        BY <1>0, <1>2, <2>2, DeliveryFacts DEF MayStart, Locked
      <3>5. OneStarter'
        BY <1>0, <1>2, <3>2, <3>3, <3>4 DEF SchedulerInvariant, OneStarter, Locked
      <3>6. RowConsistent'
        BY <1>2 DEF SchedulerInvariant, RowConsistent, Exists
      <3>7. DataParts
        BY <1>0, <1>2, DeliveryFacts DEF SchedulerInvariant, NewRunsQueued, NothingQueued, NothingRejected,
                                  DataFirst
      <3> QED BY <3>5, <3>6, <3>7 DEF SchedulerInvariant
    <2> QED BY <1>2, <2>1, <2>2 DEF PrerunLock
  <1>3. CASE PrerunActivate(r)
    <2> USE DEF PrerunActivate, Advance
    <2>1. OneStarter'
      BY <1>3 DEF TypeOK, SchedulerInvariant, OneStarter, Locked, PrerunStep
    <2>2. RowConsistent'
      BY <1>3 DEF SchedulerInvariant, RowConsistent, Exists
    <2>3. DataParts
      BY <1>0, <1>3, DeliveryFacts DEF SchedulerInvariant, NewRunsQueued, NothingQueued, NothingRejected,
                                DataFirst
    <2> QED BY <2>1, <2>2, <2>3 DEF SchedulerInvariant
  <1>4. CASE PrerunCommit(r)
    <2> USE DEF PrerunCommit, Advance
    <2>1. OneStarter'
      BY <1>4 DEF TypeOK, SchedulerInvariant, OneStarter, Locked, PrerunStep
    <2>2. RowConsistent'
      BY <1>0, <1>4, DeliveryFacts DEF TypeOK, SchedulerInvariant, RowConsistent, Exists, RunState
    <2>3. DataParts
      BY <1>0, <1>4, DeliveryFacts DEF TypeOK, SchedulerInvariant, NewRunsQueued, NothingQueued,
                                NothingRejected, DataFirst
    <2> QED BY <2>1, <2>2, <2>3 DEF SchedulerInvariant
  <1>5. CASE PrerunLaunch(r)
    <2> USE DEF PrerunLaunch, Leave
    <2>1. OneStarter'
      BY <1>5 DEF TypeOK, SchedulerInvariant, OneStarter, Locked, PrerunStep
    <2>2. RowConsistent'
      BY <1>5 DEF SchedulerInvariant, RowConsistent, Exists
    <2>3. DataParts
      BY <1>0, <1>5, DeliveryFacts DEF SchedulerInvariant, NewRunsQueued, NothingQueued, NothingRejected,
                                DataFirst
    <2> QED BY <2>1, <2>2, <2>3 DEF SchedulerInvariant
  <1> QED BY <1>1, <1>2, <1>3, <1>4, <1>5 DEF Prerun
(* remove_project,                                                         *)
LEMMA RemoveInvariant == TypeOK /\ SchedulerInvariant /\ RemoveProject => SchedulerInvariant'
  <1> SUFFICES ASSUME TypeOK, SchedulerInvariant, RemoveProject PROVE SchedulerInvariant'
    OBVIOUS
  <1> USE DEF RemoveProject, RemoveProjectCaches, RemoveProjectData, runVars
  <1>1. OneStarter' /\ RowConsistent' /\ NewRunsQueued'
    BY DEF SchedulerInvariant, OneStarter, Locked, RowConsistent, Exists, NewRunsQueued
  <1>2. NothingQueued' /\ NothingRejected'
    BY DEF SchedulerInvariant, NothingQueued, NothingRejected, Dormant
  <1>3. DataFirst'
    BY DEF SchedulerInvariant, DataFirst, Dormant
  <1> QED BY <1>1, <1>2, <1>3 DEF SchedulerInvariant

(* the pipeline, which acts on rows of launched runs only,                 *)
LEMMA OutcomeInvariant ==
    \A r \in Run : TypeOK /\ SchedulerInvariant /\ (PipelineOutcome(r) \/ DeleteRefused(r))
                       => SchedulerInvariant'
  <1> SUFFICES ASSUME NEW r \in Run, TypeOK, SchedulerInvariant,
                      PipelineOutcome(r) \/ DeleteRefused(r)
               PROVE  SchedulerInvariant'
    OBVIOUS
  <1> USE DEF dataVars, runVars
  <1>1. CASE DeleteRefused(r)
    BY <1>1 DEF DeleteRefused, SchedulerInvariant, OneStarter, Locked, RowConsistent, Exists,
                NewRunsQueued, NothingQueued, NothingRejected, DataFirst, Dormant
  <1>2. CASE PipelineOutcome(r)
    <2>0. /\ launched[r] > 0 /\ launched[r] \in Nat
          /\ sizing = "agree"
          /\ UNCHANGED <<project, sizing, ready, launched, checks, prerun, deleting>>
          /\ \A q \in Run : prerun[q]["send"] \in Nat
      BY <1>2 DEF PipelineOutcome, TypeOK, PrerunStep, SchedulerInvariant, NothingQueued, Dormant
    <2>1. state[r] \notin {"unposted", "created", "queued"}
      BY <2>0 DEF SchedulerInvariant, OneStarter
    <2>2. /\ state' = state \/ \E s \in {"completed", "error"} : Exists(r) /\ state' = [state EXCEPT ![r] = s]
          /\ errorMsg' = errorMsg \/ \E m \in Failures : errorMsg' = [errorMsg EXCEPT ![r] = m]
      BY <1>2 DEF PipelineOutcome
    <2>3. OneStarter'
      BY <2>0, <2>1, <2>2 DEF TypeOK, SchedulerInvariant, OneStarter, Locked
    <2>4. NothingRejected'
      BY <2>0, <2>2, SchedulerAssumption DEF TypeOK, SchedulerInvariant, NothingRejected
    <2>5. RowConsistent'
      BY <2>0, <2>1, <2>2, <2>4 DEF TypeOK, SchedulerInvariant, RowConsistent, Exists, RunState, NothingRejected
    <2>6. NewRunsQueued' /\ NothingQueued' /\ DataFirst'
      BY <2>0, <2>2 DEF TypeOK, SchedulerInvariant, NewRunsQueued, NothingQueued, DataFirst, Dormant
    <2> QED BY <2>3, <2>4, <2>5, <2>6 DEF SchedulerInvariant
  <1> QED BY <1>1, <1>2

(* and faults.                                                             *)
LEMMA FaultInvariant == TypeOK /\ SchedulerInvariant /\ Fault => SchedulerInvariant'
  <1> SUFFICES ASSUME TypeOK, SchedulerInvariant, Fault PROVE SchedulerInvariant'
    OBVIOUS
  <1> USE DEF dataVars, runVars
  <1>1. ASSUME NEW c \in Trigger, LoseCheck(c) PROVE SchedulerInvariant'
    BY <1>1, StepKeeps DEF LoseCheck, TypeOK, CheckStep
  <1>2. ASSUME NEW c \in Trigger, RedeliverCheck(c) PROVE SchedulerInvariant'
    BY <1>2, StepKeeps DEF RedeliverCheck, TypeOK, CheckStep
  <1>3. ASSUME NEW r \in Run, LosePrerun(r) PROVE SchedulerInvariant'
    BY <1>3, LeaveKeeps DEF LosePrerun
  <1>4. ASSUME NEW r \in Run, LoseDelete(r) PROVE SchedulerInvariant'
    BY <1>4 DEF LoseDelete, SchedulerInvariant, OneStarter, Locked, RowConsistent, Exists,
                NewRunsQueued, NothingQueued, NothingRejected, DataFirst, Dormant
  <1>5. ASSUME NEW r \in Run, RedeliverPrerun(r) PROVE SchedulerInvariant'
    <2> USE DEF RedeliverPrerun
    <2>0. /\ sizing = "agree"
          /\ ready = Party \/ project = "cleaned"
          /\ state[r] \notin {"unposted", "created"}
      BY <1>5, DeliveryFacts
    <2>1. OneStarter'
      BY <1>5, <2>0 DEF TypeOK, SchedulerInvariant, OneStarter, Locked, PrerunStep
    <2>2. RowConsistent'
      BY <1>5 DEF SchedulerInvariant, RowConsistent, Exists
    <2>3. NewRunsQueued' /\ NothingQueued' /\ NothingRejected' /\ DataFirst'
      BY <1>5, <2>0 DEF SchedulerInvariant, NewRunsQueued, NothingQueued, NothingRejected, DataFirst
    <2> QED BY <2>1, <2>2, <2>3 DEF SchedulerInvariant
  <1>6. CASE LoseRemoveProject \/ RedeliverRemoveProject
    BY <1>6 DEF LoseRemoveProject, RedeliverRemoveProject, SchedulerInvariant, OneStarter, Locked,
                RowConsistent, Exists, NewRunsQueued, NothingQueued, NothingRejected, DataFirst, Dormant
  <1> QED BY <1>1, <1>2, <1>3, <1>4, <1>5, <1>6 DEF Fault

(* So does every step.                                                     *)
LEMMA NextInvariant ==
    TypeOK /\ SchedulerInvariant /\ [SchedulerNext]_schedulerVars => SchedulerInvariant'
  <1> SUFFICES ASSUME TypeOK, SchedulerInvariant, [SchedulerNext]_schedulerVars
               PROVE  SchedulerInvariant'
    OBVIOUS
  <1>1. CASE SchedulerNext
    BY <1>1, ClientInvariant, ViewInvariant, CheckInvariant, PrerunInvariant, RemoveInvariant,
       OutcomeInvariant, FaultInvariant DEF SchedulerNext
  <1>2. CASE UNCHANGED schedulerVars
    BY <1>2 DEF schedulerVars, SchedulerInvariant, OneStarter, Locked, RowConsistent, Exists,
                NewRunsQueued, NothingQueued, NothingRejected, DataFirst, Dormant
  <1> QED BY <1>1, <1>2

(* The rows, the messages and the steps of the scheduler always relate as  *)
(* SchedulerInvariant says (pre_run_check.py:13-45, run.py:13-53).         *)
THEOREM SchedulerInvariantHolds == SchedulerSpec => [](TypeOK /\ SchedulerInvariant)
  <1>1. SchedulerInit => TypeOK /\ SchedulerInvariant
    BY InitTypeOK, InitInvariant
  <1>2. TypeOK /\ SchedulerInvariant /\ [SchedulerNext]_schedulerVars => (TypeOK /\ SchedulerInvariant)'
    BY NextTypeOK, NextInvariant
  <1> QED BY <1>1, <1>2, PTL DEF SchedulerSpec

(* No interleaving of posts, uploads and redelivered messages launches the *)
(* comparison of a run twice (insertions.py:363-382, selections.py:137-148)*)
THEOREM LaunchedAtMostOnceHolds == SchedulerSpec => []LaunchedAtMostOnce
  <1>1. TypeOK /\ SchedulerInvariant => LaunchedAtMostOnce
    <2> SUFFICES ASSUME TypeOK, SchedulerInvariant, NEW r \in Run PROVE launched[r] <= 1
      BY DEF LaunchedAtMostOnce
    <2>1. launched[r] \in Nat /\ prerun[r]["send"] \in Nat
      BY DEF TypeOK, PrerunStep
    <2>2. prerun[r]["send"] + launched[r] <= 1
      BY DEF SchedulerInvariant, OneStarter
    <2> QED BY <2>1, <2>2
  <1> QED BY <1>1, SchedulerInvariantHolds, PTL

(* Every launched run compares complete encodings of one usable size,      *)
(* however long ago the check was (pre_run_check.py:21-32).                *)
THEOREM LaunchedOnUsableDataHolds == SchedulerSpec => []LaunchedOnUsableData
  <1>1. TypeOK /\ SchedulerInvariant => LaunchedOnUsableData
    BY DEF SchedulerInvariant, NothingQueued, DataFirst, Dormant, LaunchedOnUsableData
  <1> QED BY <1>1, SchedulerInvariantHolds, PTL
-------------------------------------------------------------------------------
(* Action properties and refinement                                        *)

(* A run rejected for its encodings keeps the reason, whichever checks and *)
(* prerun_checks still run (insertions.py:312-322, pre_run_check.py:27-32).*)
THEOREM RejectionIsFinalHolds == SchedulerSpec => RejectionIsFinal
  <1>1. TypeOK /\ SchedulerInvariant /\ [SchedulerNext]_schedulerVars =>
          [\A r \in Run : errorMsg[r] = "sizes" =>
              errorMsg'[r] = "sizes" /\ state'[r] \in {"error", "deleted"}]_schedulerVars
    <2> SUFFICES ASSUME TypeOK, SchedulerInvariant, [SchedulerNext]_schedulerVars,
                        NEW r \in Run, errorMsg[r] = "sizes"
                 PROVE  errorMsg'[r] = "sizes" /\ state'[r] \in {"error", "deleted"}
      OBVIOUS
    <2>1. state[r] \in {"error", "deleted"} /\ sizing # "agree"
      BY DEF SchedulerInvariant, RowConsistent, NothingRejected
    <2>2. /\ \A q \in Run : launched[q] = 0
          /\ \A q \in Run, s \in PrerunStep : prerun[q][s] = 0
      BY <2>1 DEF SchedulerInvariant, NothingQueued, Dormant
    <2> USE DEF TypeOK, dataVars, runVars, faultVars
    <2>3. CASE Client
      BY <2>1, <2>3 DEF Client, PostRun, DeleteRun, UploadReady, MarkProject
    <2>4. CASE View
      <3>1. ASSUME NEW q \in Run, SaveRun(q) PROVE q # r
        BY <2>1, <3>1 DEF SaveRun, At, SchedulerInvariant, RowConsistent
      <3> QED BY <2>1, <2>4, <3>1 DEF View, SaveRun, SendCheck, DeleteRow, CountReady, SendRemoveProject
    <2>5. ASSUME NEW c \in Trigger, Check(c) PROVE errorMsg'[r] = "sizes" /\ state'[r] \in {"error", "deleted"}
      BY <2>1, <2>5 DEF Check, CheckUploads, NoUploads, RejectUploads, FailRuns, QueueRuns, CheckDone,
                        SendPrerun, Exists, RunState
    <2>6. ASSUME NEW q \in Run PROVE ~Prerun(q) /\ ~PipelineOutcome(q)
      BY <2>2 DEF Prerun, PrerunCache, PrerunLock, PrerunActivate, PrerunCommit, PrerunLaunch,
                  PipelineOutcome, PrerunStep
    <2>7. CASE RemoveProject \/ Fault \/ (\E q \in Run : DeleteRefused(q)) \/ UNCHANGED schedulerVars
      BY <2>1, <2>7 DEF RemoveProject, RemoveProjectCaches, RemoveProjectData, DeleteRefused, Fault,
           LoseCheck, RedeliverCheck, LosePrerun, LoseDelete, RedeliverPrerun, LoseRemoveProject,
           RedeliverRemoveProject, schedulerVars
    <2> QED BY <2>3, <2>4, <2>5, <2>6, <2>7 DEF SchedulerNext
  <1> QED BY <1>1, SchedulerInvariantHolds, PTL DEF SchedulerSpec, RejectionIsFinal

(* Each step of the scheduler is a step of the contract or changes nothing *)
(* of it.                                                                  *)
LEMMA ContractStep ==
    ASSUME TypeOK, SchedulerInvariant, [SchedulerNext]_schedulerVars
    PROVE  [Contract!ContractNext]_<<state, launched>>
  <1> USE DEF dataVars, runVars
  <1>1. CASE Client \/ RemoveProject \/ Fault \/ UNCHANGED schedulerVars
    BY <1>1 DEF Client, PostRun, DeleteRun, UploadReady, MarkProject, RemoveProject, RemoveProjectCaches,
         RemoveProjectData, Fault, LoseCheck, RedeliverCheck, LosePrerun, LoseDelete, RedeliverPrerun,
         LoseRemoveProject, RedeliverRemoveProject, schedulerVars
  <1>2. CASE View
    <2>1. ASSUME NEW r \in Run, SaveRun(r) PROVE Contract!Create(r)
      BY <2>1 DEF SaveRun, At, SchedulerInvariant, RowConsistent, Contract!Create
    <2>2. ASSUME NEW r \in Run, DeleteRow(r) PROVE Contract!Remove(r)
      BY <2>2 DEF DeleteRow, SchedulerInvariant, RowConsistent, Exists, RunState, Contract!Remove,
                  Contract!RunState
    <2>3. CASE SendRemoveProject \/ (\E r \in Run : SendCheck(r)) \/ (\E p \in Party : CountReady(p))
      BY <2>3 DEF SendRemoveProject, SendCheck, CountReady
    <2> QED BY <1>2, <2>1, <2>2, <2>3 DEF View, Contract!ContractNext
  <1>3. ASSUME NEW c \in Trigger, Check(c) PROVE [Contract!ContractNext]_<<state, launched>>
    <2>1. CASE FailRuns(c)
      <3> DEFINE S == {r \in Run : Exists(r)}
      <3>1. sizing # "agree"
        BY <2>1 DEF FailRuns, At, SchedulerInvariant, NothingRejected
      <3>2. \A r \in S : state[r] \in {"created", "error"}
        BY <3>1 DEF SchedulerInvariant, NothingQueued, Exists, RunState
      <3>3. Contract!Reject(S)
        BY <2>1, <3>2 DEF FailRuns, Contract!Reject
      <3> QED BY <3>3 DEF Contract!ContractNext
    <2>2. CASE QueueRuns(c)
      <3> DEFINE new == {r \in Run : state[r] = "created"}
      <3>1. Contract!Enqueue(new)
        BY <2>2 DEF QueueRuns, Contract!Enqueue
      <3> QED BY <3>1 DEF Contract!ContractNext
    <2>3. CASE CheckUploads(c) \/ NoUploads(c) \/ RejectUploads(c) \/ CheckDone(c)
                  \/ (\E r \in Run : SendPrerun(c, r))
      BY <2>3 DEF CheckUploads, NoUploads, RejectUploads, CheckDone, SendPrerun
    <2> QED BY <1>3, <2>1, <2>2, <2>3 DEF Check
  <1>4. ASSUME NEW r \in Run, Prerun(r) PROVE [Contract!ContractNext]_<<state, launched>>
    <2>0. /\ \A s \in PrerunStep : prerun[r][s] \in Nat
          /\ launched[r] \in Nat
          /\ {"send", "locked", "cached"} \subseteq PrerunStep
      BY DEF TypeOK, PrerunStep
    <2>1. CASE PrerunCommit(r)
      <3>1. state[r] = "queued"
        BY <2>0, <2>1 DEF PrerunCommit, SchedulerInvariant, OneStarter, Locked
      <3>2. Contract!Begin(r)
        BY <2>1, <3>1 DEF PrerunCommit, Contract!Begin
      <3> QED BY <3>2 DEF Contract!ContractNext
    <2>2. CASE PrerunLaunch(r)
      <3>1. launched[r] = 0 /\ state[r] \notin {"unposted", "created", "queued"}
        BY <2>0, <2>2 DEF PrerunLaunch, SchedulerInvariant, OneStarter
      <3>2. launched' = [launched EXCEPT ![r] = 1]
        BY <2>2, <3>1 DEF PrerunLaunch
      <3>3. Contract!Launch(r)
        BY <2>2, <3>1, <3>2 DEF PrerunLaunch, Contract!Launch
      <3> QED BY <3>3 DEF Contract!ContractNext
    <2>3. CASE PrerunCache(r) \/ PrerunLock(r) \/ PrerunActivate(r)
      BY <2>3 DEF PrerunCache, PrerunLock, PrerunActivate
    <2> QED BY <1>4, <2>1, <2>2, <2>3 DEF Prerun
  <1>5. ASSUME NEW r \in Run, PipelineOutcome(r) \/ DeleteRefused(r)
        PROVE  [Contract!ContractNext]_<<state, launched>>
    <2>1. CASE UNCHANGED <<state, launched>>
      BY <2>1
    <2>2. CASE ~UNCHANGED <<state, launched>>
      <3>1. /\ launched[r] > 0 /\ launched' = launched /\ Exists(r)
            /\ \E outcome \in {"completed", "error"} : state' = [state EXCEPT ![r] = outcome]
        BY <1>5, <2>2 DEF PipelineOutcome, DeleteRefused
      <3>2. prerun[r]["send"] \in Nat /\ launched[r] \in Nat
        BY DEF TypeOK, PrerunStep
      <3>3. launched[r] = 1 /\ state[r] \in {"running", "completed", "error"}
        BY <3>1, <3>2 DEF SchedulerInvariant, OneStarter, Exists, RunState
      <3>4. Contract!Conclude(r)
        BY <3>1, <3>3 DEF Contract!Conclude
      <3> QED BY <3>4 DEF Contract!ContractNext
    <2> QED BY <2>1, <2>2
  <1> QED BY <1>1, <1>2, <1>3, <1>4, <1>5 DEF SchedulerNext

(* The scheduler implements the contract: runs only ever move forward, are *)
(* launched once, and are not resurrected.                                 *)
THEOREM SchedulerImplementsContract == SchedulerSpec => ImplementsContract
  <1>1. SchedulerInit => Contract!ContractInit
    BY DEF SchedulerInit, Contract!ContractInit
  <1>2. TypeOK /\ SchedulerInvariant /\ [SchedulerNext]_schedulerVars
            => [Contract!ContractNext]_<<state, launched>>
    BY ContractStep
  <1>3. Contract!contractVars = <<state, launched>>
    BY DEF Contract!contractVars
  <1> QED BY <1>1, <1>2, <1>3, SchedulerInvariantHolds, PTL
          DEF SchedulerSpec, ImplementsContract, Contract!ContractSpec, Contract!contractVars
===============================================================================
