----------------------------- MODULE UploadsProofs -----------------------------
(***************************************************************************)
(* Theorems about Uploads, for any parties, any requests and owners, any   *)
(* number of failures, deaths and redeliveries.                            *)
(***************************************************************************)
EXTENDS Uploads, FiniteSetTheorems, TLAPS

(* Every variable keeps its type.                                          *)
THEOREM UploadsTypeCorrect == Spec => []UploadsTypeOK
<1>1. Init => UploadsTypeOK
  BY UploadsAssumption DEF UploadsAssumption, Init, UploadsTypeOK, Kind, ViewStep, TaskStep
<1>2. ASSUME UploadsTypeOK, [Next]_vars
      PROVE  UploadsTypeOK'
  <2> USE UploadsAssumption DEF UploadsAssumption, UploadsTypeOK, Kind, ViewStep, TaskStep, SetRows,
        SetUploaded, Gone, Serve, Work, Fault, viewOnly, taskOnly
  <2>1. ASSUME NEW r \in Request, ServeView(r) \/ Reject(r)
               \/ \E k \in Kinds[r] : Post(r, k)
        PROVE  UploadsTypeOK'
    <3>1. CASE \E k \in Kinds[r] : Post(r, k)
      BY <1>2, <3>1 DEF Post
    <3>2. CASE Reject(r)
      BY <1>2, <3>2 DEF Reject
    <3>3. CASE Lock(r)
      BY <1>2, <3>3 DEF Lock
    <3>4. CASE InsertRow(r)
      BY <1>2, <3>4 DEF InsertRow
    <3>5. CASE StoreBinary(r)
      BY <1>2, <3>5 DEF StoreBinary
    <3>6. CASE SendTask(r)
      BY <1>2, <3>6 DEF SendTask
    <3>7. CASE Unlock(r)
      BY <1>2, <3>7 DEF Unlock
    <3>8. CASE SetDone(r)
      BY <1>2, <3>8 DEF SetDone
    <3>9. CASE CountUploaded(r)
      BY <1>2, <3>9 DEF CountUploaded
    <3> QED
      BY <2>1, <3>1, <3>2, <3>3, <3>4, <3>5, <3>6, <3>7, <3>8, <3>9 DEF ServeView
  <2>2. ASSUME NEW r \in Request, RunTask(r)
        PROVE  UploadsTypeOK'
    <3>1. CASE StartTask(r)
      BY <1>2, <3>1 DEF StartTask
    <3>2. CASE StoreRaw(r)
      BY <1>2, <3>2 DEF StoreRaw
    <3>3. CASE CheckSize(r)
      BY <1>2, <3>3 DEF CheckSize
    <3>4. CASE RawReady(r)
      BY <1>2, <3>4 DEF RawReady
    <3>5. CASE InsertPulled(r)
      BY <1>2, <3>5 DEF InsertPulled
    <3>6. CASE StorePulled(r)
      BY <1>2, <3>6 DEF StorePulled
    <3>7. CASE PullBlocks(r)
      <4>1. SetRows(r, "ready") \in [Request -> {"none", "pending", "ready", "error"}]
        BY <1>2
      <4>2. \/ UNCHANGED rows
            \/ rows' = [SetRows(r, "ready") EXCEPT ![r] = "ready"]
        BY <3>7 DEF PullBlocks
      <4>3. rows' \in [Request -> {"none", "pending", "ready", "error"}]
        BY <1>2, <4>1, <4>2
      <4> QED
        BY <1>2, <3>7, <4>3 DEF PullBlocks
    <3>8. CASE UploadError(r)
      BY <1>2, <3>8 DEF UploadError
    <3>9. CASE CountTask(r)
      <4>1. checks' \in {checks, checks + 1}
        BY <3>9, Zenon DEF CountTask
      <4> QED
        BY <1>2, <3>9, <4>1 DEF CountTask
    <3> QED
      BY <2>2, <3>1, <3>2, <3>3, <3>4, <3>5, <3>6, <3>7, <3>8, <3>9 DEF RunTask
  <2>3. ASSUME NEW r \in Request, Disturb(r)
        PROVE  UploadsTypeOK'
    BY <1>2, <2>3 DEF Disturb, FailAfterRow, Die, FailTask, Redeliver
  <2>4. CASE Check \/ MarkProject \/ RemoveProjectData
    BY <1>2, <2>4 DEF Check, MarkProject, RemoveProjectData
  <2>5. CASE UNCHANGED vars
    BY <1>2, <2>5 DEF vars
  <2> QED
    BY <1>2, <2>1, <2>2, <2>3, <2>4, <2>5 DEF Next
<1> QED
  BY <1>1, <1>2, PTL DEF Spec

-------------------------------------------------------------------------------
(* The inductive invariant.  Each lemma is one group of actions; the typing *)
(* facts come from the theorem above.                                       *)

(* Before the first request nothing is locked, stored or scheduled.        *)
LEMMA InitEstablishes == Init => UploadsInvariant
  BY UploadsAssumption DEF UploadsAssumption, Init, UploadsInvariant, OneUploadPerParty,
     LockHeld, NothingYet, StoredFirst, GoneIsEmpty, ReadyIsStored, Holding, Gone

(* A view takes or gives back the lock, or fails before it did.             *)
LEMMA LockKeeps ==
    ASSUME UploadsTypeOK, UploadsInvariant, NEW r \in Request,
           Lock(r) \/ Unlock(r) \/ Reject(r) \/ \E k \in Kinds[r] : Post(r, k)
    PROVE  UploadsInvariant'
<1> USE UploadsAssumption DEF UploadsAssumption, UploadsTypeOK, Serve, viewOnly, Gone
<1>1. UNCHANGED <<rows, stored, task>>
  BY DEF Lock, Unlock, Reject, Post
<1>2. \A p \in Party : (uploaded[p] = "gone") <=> (uploaded[p] = "gone")'
  BY DEF Lock, Unlock, Reject, Post, SetUploaded
<1>3. OneUploadPerParty' /\ LockHeld'
  BY DEF UploadsInvariant, OneUploadPerParty, LockHeld, Holding, Lock, Unlock, Reject,
     Post, SetUploaded
<1>4. NothingYet'
  BY <1>1 DEF UploadsInvariant, NothingYet, Lock, Unlock, Reject, Post
<1>5. StoredFirst' /\ GoneIsEmpty' /\ ReadyIsStored'
  BY <1>1, <1>2 DEF UploadsInvariant, StoredFirst, GoneIsEmpty, ReadyIsStored, Taken
<1> QED
  BY <1>3, <1>4, <1>5 DEF UploadsInvariant

(* A view works under its lock.                                             *)
LEMMA HeldKeeps ==
    ASSUME UploadsTypeOK, UploadsInvariant, NEW r \in Request,
           \/ InsertRow(r) \/ StoreBinary(r) \/ SendTask(r)
           \/ SetDone(r) \/ CountUploaded(r) \/ FailAfterRow(r) \/ Die(r)
    PROVE  UploadsInvariant'
<1> USE UploadsAssumption DEF UploadsAssumption, UploadsTypeOK, Serve, viewOnly, Gone
<1>1. CASE InsertRow(r)
  BY <1>1 DEF InsertRow, UploadsInvariant, OneUploadPerParty, LockHeld, NothingYet,
     StoredFirst, GoneIsEmpty, ReadyIsStored, Holding, Taken
<1>2. CASE StoreBinary(r)
  <2>1. OneUploadPerParty' /\ LockHeld' /\ NothingYet'
    BY <1>2 DEF StoreBinary, UploadsInvariant, OneUploadPerParty, LockHeld, NothingYet,
       Holding
  <2>2. StoredFirst' /\ GoneIsEmpty' /\ ReadyIsStored'
    BY <1>2 DEF StoreBinary, UploadsInvariant, StoredFirst, GoneIsEmpty, ReadyIsStored,
       Taken, SetRows
  <2> QED
    BY <2>1, <2>2 DEF UploadsInvariant
<1>3. CASE SendTask(r)
  BY <1>3 DEF SendTask, UploadsInvariant, OneUploadPerParty, LockHeld, NothingYet,
     StoredFirst, GoneIsEmpty, ReadyIsStored, Holding, Taken
<1>4. CASE SetDone(r)
  <2>1. OneUploadPerParty' /\ LockHeld' /\ NothingYet'
    BY <1>4 DEF SetDone, UploadsInvariant, OneUploadPerParty, LockHeld, NothingYet,
       Holding, SetUploaded
  <2>2. StoredFirst' /\ GoneIsEmpty' /\ ReadyIsStored'
    BY <1>4 DEF SetDone, UploadsInvariant, StoredFirst, GoneIsEmpty, ReadyIsStored,
       Taken, SetUploaded
  <2> QED
    BY <2>1, <2>2 DEF UploadsInvariant
<1>5. CASE CountUploaded(r)
  BY <1>5 DEF CountUploaded, UploadsInvariant, OneUploadPerParty, LockHeld, NothingYet,
     StoredFirst, GoneIsEmpty, ReadyIsStored, Holding, Taken
<1>6. CASE FailAfterRow(r)
  BY <1>6 DEF FailAfterRow, UploadsInvariant, OneUploadPerParty, LockHeld, NothingYet,
     StoredFirst, GoneIsEmpty, ReadyIsStored, Holding, Taken
<1>7. CASE Die(r)
  BY <1>7 DEF Die, UploadsInvariant, OneUploadPerParty, LockHeld, NothingYet,
     StoredFirst, GoneIsEmpty, ReadyIsStored, Holding, Taken
<1> QED
  BY <1>1, <1>2, <1>3, <1>4, <1>5, <1>6, <1>7

(* A task does not touch views and locks; whatever it does, it was sent, so *)
(* that nothing is taken from a request that is not to have anything.       *)
LEMMA TaskKeeps ==
    ASSUME UploadsTypeOK, UploadsInvariant, NEW r \in Request,
           RunTask(r) \/ FailTask(r) \/ Redeliver(r)
    PROVE  UploadsInvariant'
<1> USE UploadsAssumption DEF UploadsAssumption, UploadsTypeOK, Work, taskOnly, Gone
<1>1. UNCHANGED <<uploaded, view>> /\ task[r] # "none"
  BY DEF RunTask, FailTask, Redeliver, StartTask, StoreRaw, CheckSize, RawReady,
     InsertPulled, StorePulled, PullBlocks, UploadError, CountTask
<1>2. stored' \in {stored, stored \union {r}} /\ stored \subseteq stored'
  BY DEF RunTask, FailTask, Redeliver, StartTask, StoreRaw, CheckSize, RawReady,
     InsertPulled, StorePulled, PullBlocks, UploadError, CountTask
<1>3. \A q \in Request : q # r => task'[q] = task[q]
  BY DEF RunTask, FailTask, Redeliver, StartTask, StoreRaw, CheckSize, RawReady,
     InsertPulled, StorePulled, PullBlocks, UploadError, CountTask
<1>4. OneUploadPerParty' /\ LockHeld'
  BY <1>1 DEF UploadsInvariant, OneUploadPerParty, LockHeld
<1>5. NothingYet'
  BY <1>1, <1>2, <1>3 DEF UploadsInvariant, NothingYet
<1>6. task'[r] \in {"stored", "sized"} => Taken(r)' \/ Gone(r)'
  <2>1. CASE StoreRaw(r)
    BY <2>1 DEF StoreRaw, Taken
  <2>2. CASE CheckSize(r)
    BY <2>2 DEF CheckSize, UploadsInvariant, StoredFirst, Taken
  <2> QED
    BY <2>1, <2>2 DEF RunTask, FailTask, Redeliver, StartTask, RawReady,
       InsertPulled, StorePulled, PullBlocks, UploadError, CountTask
<1>7. StoredFirst'
  BY <1>1, <1>2, <1>3, <1>6 DEF UploadsInvariant, StoredFirst, Taken
<1>8. GoneIsEmpty' /\ ReadyIsStored'
  <2>1. CASE RawReady(r)
    BY <2>1 DEF RawReady, UploadsInvariant, StoredFirst, GoneIsEmpty, ReadyIsStored,
       Taken, SetRows
  <2>2. CASE StoreRaw(r)
    BY <2>2 DEF StoreRaw, UploadsInvariant, GoneIsEmpty, ReadyIsStored, Taken
  <2>3. CASE CheckSize(r)
    BY <2>3 DEF CheckSize, UploadsInvariant, GoneIsEmpty, ReadyIsStored, Taken, SetRows
  <2>4. CASE InsertPulled(r)
    <3>1. stored' = stored
      BY <2>4 DEF InsertPulled
    <3>2. CASE rows' = rows
      BY <1>1, <3>1, <3>2 DEF UploadsInvariant, GoneIsEmpty, ReadyIsStored, Taken
    <3>3. CASE ~Gone(r) /\ rows' = [rows EXCEPT ![r] = "pending"]
      BY <1>1, <3>1, <3>3 DEF UploadsInvariant, GoneIsEmpty, ReadyIsStored, Taken
    <3> QED
      <4>1. UNCHANGED rows \/ (~Gone(r) /\ rows' = [rows EXCEPT ![r] = "pending"])
        BY <2>4, Zenon DEF InsertPulled
      <4> QED
        BY <3>2, <3>3, <4>1, Zenon
  <2>5. CASE StorePulled(r)
    BY <2>5 DEF StorePulled, UploadsInvariant, GoneIsEmpty, ReadyIsStored, Taken, SetRows
  <2>6. CASE PullBlocks(r)
    <3> DEFINE fails  == UNCHANGED <<stored, rows>>
               stores == /\ ~Gone(r)
                         /\ stored' = stored \union {r}
                         /\ rows' = [SetRows(r, "ready") EXCEPT ![r] = "ready"]
    <3>1. fails \/ stores
      BY <2>6, Zenon DEF PullBlocks
    <3>2. CASE fails
      BY <1>1, <3>2 DEF UploadsInvariant, GoneIsEmpty, ReadyIsStored, Taken
    <3>3. CASE stores
      <4>1. \A q \in Request : rows'[q] # rows[q] => Owner[q] = Owner[r]
        BY <3>3 DEF SetRows
      <4>2. Taken(r)' /\ \A q \in Request : Taken(q) => Taken(q)'
        BY <3>3 DEF Taken
      <4>3. GoneIsEmpty'
        BY <1>1, <3>3, <4>1 DEF UploadsInvariant, GoneIsEmpty
      <4>4. ASSUME NEW q \in Request, rows'[q] = "ready"
            PROVE  Taken(q)'
        BY <4>1, <4>2, <4>4 DEF UploadsInvariant, ReadyIsStored, Taken
      <4> QED
        BY <4>3, <4>4 DEF ReadyIsStored
    <3> QED
      BY <3>1, <3>2, <3>3
  <2>7. CASE UploadError(r)
    BY <2>7 DEF UploadError, UploadsInvariant, GoneIsEmpty, ReadyIsStored, Taken
  <2>8. CASE UNCHANGED <<rows, stored>>
    BY <1>1, <2>8 DEF UploadsInvariant, GoneIsEmpty, ReadyIsStored, Taken
  <2> QED
    BY <2>1, <2>2, <2>3, <2>4, <2>5, <2>6, <2>7, <2>8 DEF RunTask, StartTask, CountTask,
       FailTask, Redeliver
<1> QED
  BY <1>4, <1>5, <1>7, <1>8 DEF UploadsInvariant

(* The run check and the deletion of the project only remove rows and data. *)
LEMMA RestKeeps ==
    ASSUME UploadsTypeOK, UploadsInvariant,
           Check \/ MarkProject \/ RemoveProjectData \/ UNCHANGED vars
    PROVE  UploadsInvariant'
<1> USE UploadsAssumption DEF UploadsAssumption, UploadsTypeOK, Gone, UploadsInvariant,
      OneUploadPerParty, LockHeld, NothingYet, StoredFirst, GoneIsEmpty, ReadyIsStored, Taken
<1>1. CASE RemoveProjectData
  BY <1>1 DEF RemoveProjectData
<1>2. CASE UNCHANGED <<uploaded, rows, stored, view, task>>
  BY <1>2
<1> QED
  BY <1>1, <1>2 DEF Check, MarkProject, vars

(* The inductive invariant holds in every reachable state.                  *)
THEOREM UploadsInvariantHolds == Spec => []UploadsInvariant
<1>1. ASSUME UploadsTypeOK, UploadsInvariant, [Next]_vars
      PROVE  UploadsInvariant'
  BY <1>1, LockKeeps, HeldKeeps, TaskKeeps, RestKeeps DEF Next, ServeView, Disturb
<1> QED
  BY InitEstablishes, <1>1, UploadsTypeCorrect, PTL DEF Spec

(* At most one request of a party is past the lock and not refused.         *)
THEOREM OneUploadPerPartyHolds == Spec => []OneUploadPerParty
<1>1. UploadsInvariant => OneUploadPerParty
  BY DEF UploadsInvariant
<1> QED
  BY <1>1, UploadsInvariantHolds, PTL

(* A refused request has stored nothing and left no task that would.        *)
THEOREM RefusedStoresNothingHolds == Spec => []RefusedStoresNothing
<1>1. UploadsInvariant => RefusedStoresNothing
  BY DEF UploadsInvariant, NothingYet, RefusedStoresNothing
<1> QED
  BY <1>1, UploadsInvariantHolds, PTL

(* A ready upload has encodings of its party.                               *)
THEOREM ReadyIsStoredHolds == Spec => []ReadyIsStored
<1>1. UploadsInvariant => ReadyIsStored
  BY DEF UploadsInvariant
<1> QED
  BY <1>1, UploadsInvariantHolds, PTL

-------------------------------------------------------------------------------
(* Runs are scheduled on all data.  check_for_executable_runs compares a    *)
(* number of rows with a number of parties, so that what has to be shown is *)
(* that no party has two rows: without a leftover, a row belongs to the     *)
(* request that has its party's lock for good.                              *)

(* The request has its party's lock, or died and left a row or a task.      *)
Holder(r) ==
    \/ view[r] \in Holding
    \/ view[r] = "dead" /\ (rows[r] # "none" \/ task[r] # "none")

OneHolder    == \A r, s \in Request : Holder(r) /\ Holder(s) /\ Owner[r] = Owner[s] => r = s
HolderLocked == \A r \in Request : Holder(r) => uploaded[Owner[r]] \in {"in_progress", "done", "gone"}
RowsHeld     == \A r \in Request : rows[r] # "none" => Holder(r) \/ view[r] = "refused"
TasksHeld    == \A r \in Request : task[r] # "none" => Holder(r)

HolderInvariant == OneHolder /\ HolderLocked /\ RowsHeld /\ TasksHeld

(* Before the first request nobody holds a lock.                           *)
LEMMA HolderInit == Init => HolderInvariant
  BY UploadsAssumption DEF UploadsAssumption, Init, HolderInvariant, OneHolder, HolderLocked,
     RowsHeld, TasksHeld, Holder, Holding

(* A request becomes a holder only by Lock, which finds no other one.       *)
LEMMA LockHolder ==
    ASSUME UploadsTypeOK, UploadsInvariant, HolderInvariant, NEW r \in Request,
           Lock(r) \/ Unlock(r) \/ Reject(r) \/ \E k \in Kinds[r] : Post(r, k)
    PROVE  HolderInvariant'
<1> USE UploadsAssumption DEF UploadsAssumption, UploadsTypeOK, Serve, viewOnly, Gone,
      HolderInvariant, Holder, Holding
<1>1. UNCHANGED <<rows, task>>
  BY DEF Lock, Unlock, Reject, Post
<1>2. rows[r] # "none" \/ task[r] # "none" => view[r] \notin {"idle", "checked"}
  BY DEF RowsHeld, TasksHeld
<1>3. OneHolder' /\ HolderLocked'
  BY <1>1 DEF OneHolder, HolderLocked, Lock, Unlock, Reject, Post, SetUploaded
<1>4. RowsHeld'
  BY <1>1, <1>2 DEF RowsHeld, Lock, Unlock, Reject, Post
<1>5. TasksHeld'
  BY <1>1, <1>2 DEF TasksHeld, UploadsInvariant, NothingYet, Lock, Unlock, Reject, Post
<1> QED
  BY <1>3, <1>4, <1>5

(* What a holder or its task does leaves it the only one.                   *)
LEMMA HeldHolder ==
    ASSUME UploadsTypeOK, HolderInvariant, NEW r \in Request,
           \A s \in Request \ {r} :
               view'[s] = view[s] /\ task'[s] = task[s] /\ (rows'[s] = "none" <=> rows[s] = "none"),
           UNCHANGED uploaded \/ (Holder(r) /\ uploaded' = SetUploaded(r, "done")),
           Holder(r)' => Holder(r),
           Holder(r)' \/ (rows'[r] = "none" /\ task'[r] = "none")
    PROVE  HolderInvariant'
<1> USE UploadsAssumption DEF UploadsAssumption, UploadsTypeOK, HolderInvariant
<1>1. \A s \in Request \ {r} : Holder(s)' <=> Holder(s)
  BY DEF Holder
<1>2. OneHolder'
  BY <1>1 DEF OneHolder
<1>3. HolderLocked'
  BY <1>1 DEF HolderLocked, OneHolder, SetUploaded, Gone
<1>4. RowsHeld' /\ TasksHeld'
  BY <1>1 DEF RowsHeld, TasksHeld
<1> QED
  BY <1>2, <1>3, <1>4

(* The steps of a view after its lock keep it the only holder for its party. *)
LEMMA ViewHolder ==
    ASSUME UploadsTypeOK, HolderInvariant, NEW r \in Request,
           \/ InsertRow(r) \/ StoreBinary(r) \/ SendTask(r)
           \/ SetDone(r) \/ CountUploaded(r) \/ FailAfterRow(r) \/ Die(r)
    PROVE  HolderInvariant'
<1> USE UploadsAssumption DEF UploadsAssumption, UploadsTypeOK, Serve, viewOnly, SetRows
<1>1. \A s \in Request \ {r} :
         view'[s] = view[s] /\ task'[s] = task[s] /\ (rows'[s] = "none" <=> rows[s] = "none")
  BY DEF InsertRow, StoreBinary, SendTask, SetDone, CountUploaded, FailAfterRow, Die
<1>2. CASE Die(r)
  BY <1>1, <1>2, HeldHolder DEF Die, HolderInvariant, RowsHeld, TasksHeld, Holder, Holding
<1>3. CASE SetDone(r)
  BY <1>1, <1>3, HeldHolder DEF SetDone, Holder, Holding
<1>4. CASE InsertRow(r) \/ StoreBinary(r) \/ SendTask(r) \/ CountUploaded(r) \/ FailAfterRow(r)
  <2>1. view[r] \in Holding /\ view'[r] \in Holding /\ UNCHANGED uploaded
    BY <1>4 DEF InsertRow, StoreBinary, SendTask, CountUploaded, FailAfterRow, Holding
  <2> QED
    BY <1>1, <2>1, HeldHolder DEF Holder
<1> QED
  BY <1>2, <1>3, <1>4

(* Only the task of a holder does anything.                                 *)
LEMMA TaskHolder ==
    ASSUME UploadsTypeOK, HolderInvariant, NEW r \in Request,
           RunTask(r) \/ FailTask(r) \/ Redeliver(r)
    PROVE  HolderInvariant'
<1> USE UploadsAssumption DEF UploadsAssumption, UploadsTypeOK, Work, taskOnly, SetRows
<1>1. task[r] # "none" /\ task'[r] # "none" /\ UNCHANGED <<view, uploaded>>
      /\ \A s \in Request \ {r} : task'[s] = task[s]
  BY DEF RunTask, StartTask, StoreRaw, CheckSize, RawReady, InsertPulled, StorePulled,
     PullBlocks, UploadError, CountTask, FailTask, Redeliver
<1>2. \A s \in Request \ {r} : rows'[s] = "none" <=> rows[s] = "none"
  BY DEF RunTask, StartTask, StoreRaw, CheckSize, RawReady, InsertPulled, StorePulled,
     PullBlocks, UploadError, CountTask, FailTask, Redeliver
<1>3. Holder(r) /\ Holder(r)'
  BY <1>1 DEF HolderInvariant, TasksHeld, Holder
<1> QED
  BY <1>1, <1>2, <1>3, HeldHolder

(* The run check and the deletion of the project create no holder.         *)
LEMMA RestHolder ==
    ASSUME UploadsTypeOK, HolderInvariant,
           Check \/ MarkProject \/ RemoveProjectData \/ UNCHANGED vars
    PROVE  HolderInvariant'
<1> USE UploadsAssumption DEF UploadsAssumption, UploadsTypeOK, HolderInvariant, OneHolder,
      HolderLocked, RowsHeld, TasksHeld, Holder
<1>1. CASE RemoveProjectData
  BY <1>1 DEF RemoveProjectData
<1>2. CASE UNCHANGED <<uploaded, rows, view, task>>
  BY <1>2
<1> QED
  BY <1>1, <1>2 DEF Check, MarkProject, vars

(* As many ready rows as parties are one of each party.                     *)
LEMMA ReadyOfAll ==
    ASSUME UploadsTypeOK, UploadsInvariant, HolderInvariant, AllReady, ~Leftover
    PROVE  AllStored
<1> DEFINE S == {r \in DoneRows : rows[r] = "ready"}
           f == [r \in S |-> Owner[r]]
<1>1. S \subseteq Request /\ \A r \in S : Holder(r)
  BY DEF DoneRows, HolderInvariant, RowsHeld, Leftover
<1>2. f \in Injection(S, Party)
  <2>1. f \in [S -> Party]
    BY <1>1, UploadsAssumption DEF UploadsAssumption
  <2>2. \A r, s \in S : f[r] = f[s] => r = s
    BY <1>1 DEF HolderInvariant, OneHolder
  <2> QED
    BY <2>1, <2>2 DEF Injection, IsInjective
<1>3. Cardinality(S) = Cardinality(Party)
  BY DEF AllReady
<1>4. f \in Surjection(S, Party)
  <2> HIDE DEF S, f
  <2> QED
    BY <1>2, <1>3, UploadsAssumption, FS_Injection DEF UploadsAssumption
<1>5. ASSUME NEW p \in Party
      PROVE  \E r \in stored : Owner[r] = p
  <2>1. PICK r \in S : f[r] = p
    BY <1>4 DEF Surjection
  <2>2. r \in Request /\ rows[r] = "ready" /\ Owner[r] = p
    BY <1>1, <2>1
  <2> QED
    BY <2>2 DEF UploadsInvariant, ReadyIsStored, Taken
<1> QED
  BY <1>5 DEF AllStored

(* Until the project is removed nothing stored and no leftover goes away.   *)
Grows ==
    /\ project' = "removed" <=> project = "removed"
    /\ stored \subseteq stored'
    /\ \A q \in Request : view[q] = "refused" /\ rows[q] # "none"
                            => view'[q] = "refused" /\ rows'[q] # "none"

(* No step of a request or of its task takes stored data away, or schedules a run. *)
LEMMA RequestGrows ==
    ASSUME UploadsTypeOK, NEW r \in Request,
           \/ \E k \in Kinds[r] : Post(r, k)
           \/ Reject(r) \/ ServeView(r) \/ RunTask(r) \/ Disturb(r)
    PROVE  Grows /\ runs' = runs
<1> USE UploadsAssumption DEF UploadsAssumption, UploadsTypeOK, Serve, Work, viewOnly, taskOnly,
      SetRows, Grows
<1>1. CASE ServeView(r) \/ Reject(r) \/ \E k \in Kinds[r] : Post(r, k)
  BY <1>1 DEF ServeView, Lock, InsertRow, StoreBinary, SendTask, Unlock, SetDone, CountUploaded,
     Reject, Post
<1>2. CASE RunTask(r)
  BY <1>2 DEF RunTask, StartTask, StoreRaw, CheckSize, RawReady, InsertPulled, StorePulled,
     PullBlocks, UploadError, CountTask
<1>3. CASE Disturb(r)
  BY <1>3 DEF Disturb, FailAfterRow, Die, FailTask, Redeliver
<1> QED
  BY <1>1, <1>2, <1>3

(* Only the deletion removes data, and only the run check schedules runs.  *)
LEMMA NothingGoes ==
    ASSUME UploadsTypeOK, [Next]_vars
    PROVE  RemoveProjectData \/ (Grows /\ (runs' = runs \/ Check))
<1>1. Check => Grows
  BY DEF Check, Grows
<1>2. MarkProject => Grows /\ runs' = runs
  BY DEF MarkProject, Grows
<1>3. UNCHANGED vars => Grows /\ runs' = runs
  BY DEF vars, Grows
<1> QED
  BY <1>1, <1>2, <1>3, RequestGrows DEF Next

(* No request has its party's lock besides another.                         *)
THEOREM HolderInvariantHolds == Spec => []HolderInvariant
<1>1. ASSUME UploadsTypeOK, UploadsInvariant, HolderInvariant, [Next]_vars
      PROVE  HolderInvariant'
  BY <1>1, LockHolder, ViewHolder, TaskHolder, RestHolder DEF Next, ServeView, Disturb
<1> QED
  BY HolderInit, <1>1, UploadsTypeCorrect, UploadsInvariantHolds, PTL DEF Spec

(* Runs are scheduled only when every party has stored encodings, or a      *)
(* refused upload left a row.                                               *)
THEOREM ScheduledOnAllDataOrLeftoverHolds == Spec => []ScheduledOnAllDataOrLeftover
<1>1. Init => ScheduledOnAllDataOrLeftover
  BY DEF Init, ScheduledOnAllDataOrLeftover, ScheduledOnAllData
<1>2. ASSUME UploadsTypeOK, UploadsInvariant, HolderInvariant, ScheduledOnAllDataOrLeftover,
             [Next]_vars
      PROVE  ScheduledOnAllDataOrLeftover'
  <2>1. CASE RemoveProjectData
    BY <2>1 DEF RemoveProjectData, ScheduledOnAllDataOrLeftover, ScheduledOnAllData
  <2>2. CASE Check /\ runs' # runs
    <3>1. AllReady /\ UNCHANGED <<stored, view, rows>>
      BY <2>2 DEF Check
    <3>2. Leftover \/ AllStored
      BY <1>2, <3>1, ReadyOfAll
    <3> QED
      BY <3>1, <3>2 DEF ScheduledOnAllDataOrLeftover, ScheduledOnAllData, Leftover, AllStored
  <2>3. CASE Grows /\ runs' = runs
    BY <1>2, <2>3 DEF Grows, ScheduledOnAllDataOrLeftover, ScheduledOnAllData, AllStored, Leftover
  <2> QED
    BY <1>2, <2>1, <2>2, <2>3, NothingGoes
<1> QED
  BY <1>1, <1>2, UploadsTypeCorrect, UploadsInvariantHolds, HolderInvariantHolds, PTL DEF Spec
-------------------------------------------------------------------------------
(* The uploads implement their contract.  The request whose encodings are   *)
(* stored holds its party's lock, so that none else stores or is accepted;  *)
(* a view that died after it stored has left its row, or its task, behind.  *)
StoredHeld ==
    /\ \A r \in stored : Holder(r) /\ (rows[r] # "none" \/ task[r] # "none")
    /\ \A r \in Request : view[r] = "inserted" => rows[r] # "none" \/ Gone(r)

(* A view keeps what it recorded, and gives its lock back only if it has    *)
(* stored nothing.                                                          *)
LEMMA ViewStoresHeld ==
    ASSUME UploadsTypeOK, UploadsInvariant, HolderInvariant, StoredHeld, NEW r \in Request,
           \/ \E k \in Kinds[r] : Post(r, k)
           \/ Reject(r) \/ ServeView(r) \/ FailAfterRow(r) \/ Die(r)
    PROVE  StoredHeld'
<1> USE UploadsAssumption DEF UploadsAssumption, UploadsTypeOK, StoredHeld, Holder, Holding, Serve,
      viewOnly, SetRows, SetUploaded, Gone
<1>1. CASE Lock(r) \/ Unlock(r) \/ Reject(r) \/ \E k \in Kinds[r] : Post(r, k)
  <2>1. r \notin stored
    BY <1>1 DEF UploadsInvariant, NothingYet, Lock, Unlock, Reject, Post
  <2> QED
    BY <1>1, <2>1 DEF Lock, Unlock, Reject, Post
<1>2. CASE InsertRow(r) \/ StoreBinary(r) \/ SendTask(r)
  BY <1>2 DEF InsertRow, StoreBinary, SendTask
<1>3. CASE SetDone(r) \/ CountUploaded(r) \/ FailAfterRow(r) \/ Die(r)
  <2>1. view[r] = "inserted" => r \notin stored
    BY DEF UploadsInvariant, NothingYet
  <2> QED
    BY <1>3, <2>1 DEF SetDone, CountUploaded, FailAfterRow, Die
<1> QED
  BY <1>1, <1>2, <1>3 DEF ServeView

(* What a task stores belongs to the holder that sent it.                   *)
LEMMA TaskStoresHeld ==
    ASSUME UploadsTypeOK, HolderInvariant, StoredHeld, NEW r \in Request,
           RunTask(r) \/ FailTask(r) \/ Redeliver(r)
    PROVE  StoredHeld'
<1> USE UploadsAssumption DEF UploadsAssumption, UploadsTypeOK, StoredHeld, Work, taskOnly, SetRows, Gone
<1>1. /\ task[r] # "none" /\ task'[r] # "none" /\ UNCHANGED <<view, uploaded>>
      /\ \A s \in Request \ {r} : task'[s] = task[s]
      /\ \A s \in Request : rows[s] # "none" => rows'[s] # "none"
      /\ stored' \subseteq stored \union {r}
  BY DEF RunTask, StartTask, StoreRaw, CheckSize, RawReady, InsertPulled, StorePulled,
     PullBlocks, UploadError, CountTask, FailTask, Redeliver
<1>2. Holder(r)
  BY <1>1 DEF HolderInvariant, TasksHeld
<1> QED
  BY <1>1, <1>2 DEF Holder

(* Whoever's encodings are stored is the holder for its party.              *)
LEMMA StoredHeldKept ==
    ASSUME UploadsTypeOK, UploadsInvariant, HolderInvariant, StoredHeld, [Next]_vars
    PROVE  StoredHeld'
<1>1. CASE RemoveProjectData
  BY <1>1, UploadsAssumption DEF UploadsAssumption, UploadsTypeOK, StoredHeld, Holder, Holding,
     RemoveProjectData, Gone
<1>2. CASE Check \/ MarkProject \/ UNCHANGED vars
  BY <1>2 DEF StoredHeld, Holder, Gone, Check, MarkProject, vars
<1> QED
  BY <1>1, <1>2, ViewStoresHeld, TaskStoresHeld DEF Next, Disturb

(* The contract sees nothing of a step but what is stored.                  *)
Unanswered ==
    /\ runs' = runs
    /\ project' = "removed" <=> project = "removed"
    /\ \A q \in Request : view'[q] # view[q] => {view[q], view'[q]} \intersect {"accepted", "refused"} = {}
    /\ \A q \in Request : view[q] = "refused" => (rows'[q] = "none" <=> rows[q] = "none")

(* No step but the last one of a view answers the client, and a request    *)
(* stores its encodings while it holds its party's lock.                    *)
LEMMA StoreStep ==
    ASSUME UploadsTypeOK, UploadsInvariant, HolderInvariant, NEW r \in Request,
           Unanswered, stored' = stored \/ (stored' = stored \union {r} /\ ~Taken(r) /\ Holder(r))
    PROVE  Contract!Store(r) \/ UNCHANGED Contract!contractVars
<1> USE UploadsAssumption DEF UploadsAssumption, UploadsTypeOK
<1>0. runs' = runs /\ (project' = "removed" <=> project = "removed")
  BY DEF Unanswered
<1>1. Leftover' <=> Leftover
  BY DEF Unanswered, Leftover
<1>2. [q \in Request |-> Answered(q)]' = [q \in Request |-> Answered(q)]
  BY DEF Unanswered, Answered
<1>3. CASE stored' = stored
  BY <1>0, <1>1, <1>2, <1>3 DEF Contract!contractVars
<1>4. CASE stored' = stored \union {r} /\ ~Taken(r) /\ Holder(r)
  <2>1. Answered(r) # "refused"
    BY <1>4 DEF Answered, Holder, Holding
  <2>2. \A s \in Request : Owner[s] = Owner[r] /\ Answered(s) = "accepted" => s = r
    BY <1>4 DEF Answered, Holder, Holding, HolderInvariant, OneHolder
  <2> QED
    BY <1>0, <1>1, <1>2, <1>4, <2>1, <2>2 DEF Contract!Store, Contract!Same, Taken
<1> QED
  BY <1>3, <1>4

(* A request is refused when it has stored nothing and will not.            *)
LEMMA RefuseStep ==
    ASSUME UploadsTypeOK, UploadsInvariant, NEW r \in Request, Lock(r) \/ Unlock(r)
    PROVE  Contract!Refuse(r) \/ UNCHANGED Contract!contractVars
<1> USE UploadsAssumption DEF UploadsAssumption, UploadsTypeOK
<1>1. /\ view[r] \in {"checked", "failing"} /\ view'[r] \in {"locked", "refused"}
      /\ \A q \in Request \ {r} : view'[q] = view[q]
      /\ UNCHANGED <<project, stored, runs, rows>>
  BY DEF Lock, Unlock, Serve, viewOnly
<1>2. r \notin stored
  BY <1>1 DEF UploadsInvariant, NothingYet
<1>3. /\ Answered(r) = "open" /\ Answered(r)' \in {"open", "refused"}
      /\ \A q \in Request \ {r} : Answered(q)' = Answered(q)
  BY <1>1 DEF Answered
<1>4. CASE view'[r] = "refused"
  <2>1. [q \in Request |-> Answered(q)]' = [[q \in Request |-> Answered(q)] EXCEPT ![r] = "refused"]
    BY <1>3, <1>4 DEF Answered
  <2>2. Leftover' \in {Leftover, TRUE}
    BY <1>1 DEF Leftover
  <2> QED
    BY <1>1, <1>2, <1>3, <2>1, <2>2 DEF Contract!Refuse
<1>5. CASE view'[r] = "locked"
  <2>1. [q \in Request |-> Answered(q)]' = [q \in Request |-> Answered(q)]
    BY <1>1, <1>5 DEF Answered
  <2>2. Leftover' <=> Leftover
    BY <1>1, <1>5 DEF Leftover
  <2> QED
    BY <1>1, <2>1, <2>2 DEF Contract!contractVars
<1> QED
  BY <1>1, <1>4, <1>5

(* The accepted request of a party is the one whose encodings are stored.   *)
LEMMA AcceptStep ==
    ASSUME UploadsTypeOK, HolderInvariant, StoredHeld, NEW r \in Request, CountUploaded(r)
    PROVE  Contract!Accept(r)
<1> USE UploadsAssumption DEF UploadsAssumption, UploadsTypeOK
<1>1. /\ view[r] = "done" /\ view' = [view EXCEPT ![r] = "accepted"]
      /\ UNCHANGED <<project, stored, runs, rows>>
  BY DEF CountUploaded, Serve
<1>2. \A s \in Request : Owner[s] = Owner[r] /\ (Answered(s) = "accepted" \/ s \in stored) => s = r
  BY <1>1 DEF Answered, StoredHeld, Holder, Holding, HolderInvariant, OneHolder
<1>3. [q \in Request |-> Answered(q)]' = [[q \in Request |-> Answered(q)] EXCEPT ![r] = "accepted"]
  BY <1>1 DEF Answered
<1>4. (Leftover' <=> Leftover) /\ Answered(r) = "open"
  BY <1>1 DEF Leftover, Answered
<1> QED
  BY <1>1, <1>2, <1>3, <1>4 DEF Contract!Accept, Contract!Same

(* The run check and the deletion of the project keep to the contract.      *)
LEMMA RestStep ==
    ASSUME UploadsTypeOK, UploadsInvariant, HolderInvariant,
           Check \/ MarkProject \/ RemoveProjectData \/ UNCHANGED vars
    PROVE  Contract!Schedule \/ Contract!Remove \/ UNCHANGED Contract!contractVars
<1> USE UploadsAssumption DEF UploadsAssumption, UploadsTypeOK
<1>1. view' = view
  BY DEF Check, MarkProject, RemoveProjectData, vars
<1>2. [q \in Request |-> Answered(q)]' = [q \in Request |-> Answered(q)]
  BY <1>1 DEF Answered
<1>3. CASE RemoveProjectData
  <2>1. Leftover' \in {Leftover, FALSE}
    BY <1>1, <1>3 DEF Leftover, RemoveProjectData
  <2> QED
    BY <1>2, <1>3, <2>1 DEF Contract!Remove, RemoveProjectData
<1>4. CASE Check \/ MarkProject \/ UNCHANGED vars
  <2>1. /\ UNCHANGED <<stored, rows>> /\ (project' = "removed" <=> project = "removed")
        /\ runs' = runs \/ (AllReady /\ runs' = "scheduled")
    BY <1>4 DEF Check, MarkProject, vars
  <2>2. Leftover' <=> Leftover
    BY <1>1, <2>1 DEF Leftover
  <2>3. CASE runs' = runs
    BY <1>2, <2>1, <2>2, <2>3 DEF Contract!contractVars
  <2>4. CASE AllReady /\ runs' = "scheduled"
    BY <1>2, <2>1, <2>2, <2>4, ReadyOfAll DEF Contract!Schedule, AllStored
  <2> QED
    BY <2>1, <2>3, <2>4
<1> QED
  BY <1>3, <1>4

(* The other steps of a view and those of its task store, or do nothing the *)
(* contract knows of.                                                       *)
LEMMA RequestStep ==
    ASSUME UploadsTypeOK, UploadsInvariant, HolderInvariant, StoredHeld, NEW r \in Request,
           \/ \E k \in Kinds[r] : Post(r, k)
           \/ Reject(r) \/ ServeView(r) \/ RunTask(r) \/ Disturb(r)
    PROVE  \/ Contract!Store(r) \/ Contract!Accept(r) \/ Contract!Refuse(r)
           \/ UNCHANGED Contract!contractVars
<1> USE UploadsAssumption DEF UploadsAssumption, UploadsTypeOK
<1>1. CASE \/ \E k \in Kinds[r] : Post(r, k)
           \/ Reject(r) \/ InsertRow(r) \/ StoreBinary(r) \/ SendTask(r) \/ SetDone(r)
           \/ FailAfterRow(r) \/ Die(r)
  <2> USE DEF Post, Reject, InsertRow, StoreBinary, SendTask, SetDone, FailAfterRow, Die, Serve,
          viewOnly, SetRows
  <2>1. Unanswered
    BY <1>1 DEF Unanswered
  <2>2. stored' = stored \/ (stored' = stored \union {r} /\ ~Taken(r) /\ Holder(r))
    BY <1>1 DEF Holder, Holding
  <2> QED
    BY <2>1, <2>2, StoreStep
<1>2. CASE RunTask(r) \/ FailTask(r) \/ Redeliver(r)
  <2> USE DEF RunTask, StartTask, StoreRaw, CheckSize, RawReady, InsertPulled, StorePulled,
          PullBlocks, UploadError, CountTask, FailTask, Redeliver, Work, taskOnly, SetRows
  <2>1. task[r] # "none" /\ view' = view
    BY <1>2
  <2>2. Holder(r) /\ view[r] # "refused"
    BY <2>1 DEF HolderInvariant, TasksHeld, Holder, Holding
  <2>3. Unanswered
    BY <1>2, <2>1, <2>2 DEF Unanswered
  <2>4. stored' = stored \/ (stored' = stored \union {r} /\ ~Taken(r) /\ Holder(r))
    BY <1>2, <2>2
  <2> QED
    BY <2>3, <2>4, StoreStep
<1> QED
  BY <1>1, <1>2, RefuseStep, AcceptStep DEF ServeView, Disturb

(* Whose encodings are stored holds its party's lock.                      *)
THEOREM StoredHeldHolds == Spec => []StoredHeld
<1>1. Init => StoredHeld
  BY DEF Init, StoredHeld
<1> QED
  BY <1>1, StoredHeldKept, UploadsTypeCorrect, UploadsInvariantHolds, HolderInvariantHolds,
     PTL DEF Spec

(* Every step of the uploads is one the contract of UploadContract allows.  *)
THEOREM UploadsImplementContract == Spec => ImplementsContract
<1>1. Init => Contract!ContractInit
  <2>1. Init => [q \in Request |-> Answered(q)] = [q \in Request |-> "open"]
    BY DEF Init, Answered
  <2>2. Init => ~Leftover
    BY DEF Init, Leftover
  <2> QED
    BY <2>1, <2>2 DEF Init, Contract!ContractInit
<1>2. ASSUME UploadsTypeOK, UploadsInvariant, HolderInvariant, StoredHeld, [Next]_vars
      PROVE  [Contract!ContractNext]_Contract!contractVars
  BY <1>2, RequestStep, RestStep DEF Next, Contract!ContractNext
<1> QED
  BY <1>1, <1>2, UploadsTypeCorrect, UploadsInvariantHolds, HolderInvariantHolds, StoredHeldHolds,
     PTL DEF Spec, ImplementsContract, Contract!ContractSpec
===============================================================================
