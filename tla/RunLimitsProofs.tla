---------------------------- MODULE RunLimitsProofs ----------------------------
(***************************************************************************)
(* No run is completed that holds more candidate pairs than its limits     *)
(* allow: LimitsHold of RunLifecycle, for every set of packages with any   *)
(* counts, any limits, and any tasks that fail, are lost or come again.    *)
(*                                                                         *)
(* The packages of a chord count and read one total in redis.  Which of    *)
(* them finds it above the limit depends on their order, but not all of    *)
(* them can find it below (LimitInvariant).                                *)
(***************************************************************************)
EXTENDS RunLifecycleProofs

(* How many candidates a run has is settled.                               *)
LEMMA PairsStay ==
    ASSUME LifecycleTypeOK, [Next]_vars
    PROVE  pairs' = pairs /\ resultType' = resultType
  <1>1. ASSUME NEW r \in Run, PipelineStep(r) \/ PipelineFault(r)
        PROVE  pairs' = pairs /\ resultType' = resultType
    BY <1>1, OneRunAtATime DEF Elsewhere
  <1>2. ASSUME NEW r \in Run, LaunchRun(r) \/ CascadeDelete(r) \/ RefuseDelete(r)
        PROVE  pairs' = pairs /\ resultType' = resultType
    BY <1>2 DEF LaunchRun, CascadeDelete, RefuseDelete, ownVars, pipelineVars
  <1>3. CASE SchedulerOnly \/ CleanProject \/ (\E c \in Trigger : QueueAndClear(c)) \/ UNCHANGED vars
    BY <1>3 DEF SchedulerOnly, CleanProject, QueueAndClear, ownVars, pipelineVars, vars
  <1> QED BY <1>1, <1>2, <1>3 DEF Next

(* So is what its tasks know of its size.                                  *)
LEMMA ClearedStays ==
    ASSUME LifecycleTypeOK, [Next]_vars, NEW r \in Run
    PROVE  /\ WithinLimit(r)' <=> WithinLimit(r)
           /\ \A j \in JobStep : Cleared(r, j)' <=> Cleared(r, j)
  <1>1. pairs' = pairs /\ resultType' = resultType
    BY PairsStay
  <1>2. (WithinLimit(r)' <=> WithinLimit(r)) /\ (Solvable(r)' <=> Solvable(r))
    BY <1>1 DEF WithinLimit, AllPairs, NumResults, Solvable, Deduplicated
  <1> QED BY <1>1, <1>2 DEF Cleared

(* The results of packages add up to a natural number, and those of all    *)
(* packages to AllPairs.                                                   *)
LEMMA PairSums ==
    ASSUME LifecycleTypeOK, NEW r \in Run
    PROVE  /\ IsFiniteSet(Package)
           /\ \A p \in Package : NumResults(r)[p] \in Nat
           /\ AllPairs(r) = SumFunctionOnSet(NumResults(r), Package)
           /\ AllPairs(r) \in Nat
           /\ \A S \in SUBSET Package : SumFunctionOnSet(NumResults(r), S) \in Nat
           /\ CandidateLimit \in Nat /\ candidates[r] \in Nat
  <1>1. IsFiniteSet(Package) /\ CandidateLimit \in Nat
    BY LifecycleAssumption
  <1>2. candidates \in [Run -> Nat]
    BY DEF LifecycleTypeOK, PipelineTypeOK
  <1>3. DOMAIN NumResults(r) = Package /\ \A p \in Package : NumResults(r)[p] \in Nat
    BY NumResultsType DEF LifecycleTypeOK, NumResults
  <1>4. AllPairs(r) = SumFunctionOnSet(NumResults(r), Package)
    BY <1>3 DEF AllPairs, SumFunction
  <1>5. \A S \in SUBSET Package : SumFunctionOnSet(NumResults(r), S) \in Nat
    BY <1>1, <1>3, FS_Subset, SumType
  <1> QED BY <1>1, <1>2, <1>3, <1>4, <1>5

-------------------------------------------------------------------------------
(* The parts of ChordLimited: the count covers what is counted, ...        *)
CountCovers(r, a) ==
    \/ WithinLimit(r)
    \/ SumFunctionOnSet(NumResults(r), Counted(r, a)) <= candidates[r] /\ Stored(r, a) # Package

(* ... and a chord that returned has all its results.                      *)
Returned(r, a) ==
    /\ agg[r][a] \in {"queued", "retry", "merged", "stored", "sent"} =>
          \A p \in Package : parts[r][a][p].step \in {"missing", "empty", "file"}
    /\ agg[r][a] \in {"merged", "stored", "sent"} => Stored(r, a) = Package

(* The count keeps covering a chord of which no more is counted.           *)
LEMMA CoversStill ==
    ASSUME LifecycleTypeOK, [Next]_vars, NEW r \in Run, NEW a \in Attempt, CountCovers(r, a),
           Counted(r, a)' \subseteq Counted(r, a), Stored(r, a)' \subseteq Stored(r, a),
           candidates'[r] >= candidates[r] \/ WithinLimit(r)
    PROVE  CountCovers(r, a)'
  <1>1. WithinLimit(r)' <=> WithinLimit(r)
    BY ClearedStays
  <1>2. SUFFICES ASSUME ~WithinLimit(r)
                 PROVE  /\ SumFunctionOnSet(NumResults(r)', Counted(r, a)') <= candidates'[r]
                        /\ Stored(r, a)' # Package
    BY <1>1 DEF CountCovers
  <1>3. SumFunctionOnSet(NumResults(r), Counted(r, a)) <= candidates[r] /\ Stored(r, a) # Package
    BY <1>2 DEF CountCovers
  <1>4. Counted(r, a) \in SUBSET Package /\ Stored(r, a) \in SUBSET Package
    BY DEF Counted, Stored
  <1>5. Stored(r, a)' # Package
    BY <1>3, <1>4
  <1>6. SumFunctionOnSet(NumResults(r), Counted(r, a)') <= SumFunctionOnSet(NumResults(r), Counted(r, a))
    <2>1. IsFiniteSet(Counted(r, a)) /\ \A p \in Counted(r, a) : NumResults(r)[p] \in Nat
      BY <1>4, PairSums, FS_Subset
    <2>2. Counted(r, a)' \in SUBSET Counted(r, a)
      OBVIOUS
    <2> QED BY <2>1, <2>2, SumSubset
  <1>7. candidates'[r] \in Nat
    BY NextPipelineType DEF PipelineTypeOK
  <1>8. SumFunctionOnSet(NumResults(r), Counted(r, a)') \in Nat /\ SumFunctionOnSet(NumResults(r), Counted(r, a)) \in Nat
        /\ candidates[r] \in Nat
    BY <1>4, PairSums
  <1>9. SumFunctionOnSet(NumResults(r), Counted(r, a)') <= candidates'[r]
    BY <1>2, <1>3, <1>6, <1>7, <1>8
  <1>10. NumResults(r)' = NumResults(r)
    BY PairsStay DEF NumResults
  <1> QED BY <1>5, <1>9, <1>10

(* It covers a chord that has counted nothing.                             *)
LEMMA CoversNothing ==
    ASSUME LifecycleTypeOK, [Next]_vars, NEW r \in Run, NEW a \in Attempt,
           \A p \in Package : parts'[r][a][p].step \in {"none", "queued"}
    PROVE  CountCovers(r, a)'
  <1>1. Counted(r, a)' = {} /\ Stored(r, a)' = {}
    BY DEF Counted, Stored
  <1>2. SumFunctionOnSet(NumResults(r)', {}) = 0
    BY SumEmpty
  <1>3. candidates'[r] \in Nat
    BY NextPipelineType DEF PipelineTypeOK
  <1>4. Package = {} => WithinLimit(r)'
    <2>1. Package = {} => AllPairs(r) = 0
      BY PairSums, SumEmpty
    <2>2. Package = {} => WithinLimit(r)
      BY <2>1, PairSums DEF WithinLimit
    <2> QED BY <2>2, ClearedStays
  <1>5. CASE Package = {}
    BY <1>4, <1>5 DEF CountCovers
  <1>6. CASE Package # {}
    BY <1>1, <1>2, <1>3, <1>6 DEF CountCovers
  <1> QED BY <1>5, <1>6

-------------------------------------------------------------------------------
(* The compute tasks                                                       *)

(* Such a task gets to step s, and no other.                               *)
PartGets(r, a, p, s) ==
    /\ parts'[r][a][p].step = s
    /\ \A b \in Attempt, q \in Package : b # a \/ q # p => parts'[r][b][q] = parts[r][b][q]

(* That is what PartTo says, and Retry with one of two steps.              *)
LEMMA PartAfter ==
    ASSUME LifecycleTypeOK, NEW r \in Run, NEW a \in Attempt, NEW p \in Package
    PROVE  /\ \A s : PartTo(r, a, p, s) => PartGets(r, a, p, s)
           /\ Retry(r, a, p) => PartGets(r, a, p, "queued") \/ PartGets(r, a, p, "failed")
  <1> DEFINE T == [step : PartStep, tries : 0..MaxRetries]
  <1>1. parts \in [Run -> [Attempt -> [Package -> T]]]
    BY DEF LifecycleTypeOK, PipelineTypeOK
  <1>2. parts[r][a][p] \in T
    BY <1>1
  <1>3. ASSUME NEW t, parts' = [parts EXCEPT ![r][a][p] = t]
        PROVE  PartGets(r, a, p, t.step)
    BY <1>1, <1>3 DEF PartGets
  <1>4. ASSUME NEW s, PartTo(r, a, p, s) PROVE PartGets(r, a, p, s)
    <2>1. parts' = [parts EXCEPT ![r][a][p] = [parts[r][a][p] EXCEPT !.step = s]]
      BY <1>1, <1>4 DEF PartTo
    <2>2. [parts[r][a][p] EXCEPT !.step = s].step = s
      BY <1>2
    <2> QED BY <1>3, <2>1, <2>2
  <1>5. ASSUME Retry(r, a, p) PROVE PartGets(r, a, p, "queued") \/ PartGets(r, a, p, "failed")
    <2> DEFINE x == parts[r][a][p]
    <2>1. CASE x.tries < MaxRetries
      <3>1. parts' = [parts EXCEPT ![r][a][p] = [step |-> "queued", tries |-> x.tries + 1]]
        BY <1>1, <1>5, <2>1 DEF Retry
      <3>2. [step |-> "queued", tries |-> x.tries + 1].step = "queued"
        OBVIOUS
      <3> HIDE DEF x
      <3> QED BY <1>3, <3>1, <3>2
    <2>2. CASE ~(x.tries < MaxRetries)
      <3>1. parts' = [parts EXCEPT ![r][a][p] = [x EXCEPT !.step = "failed"]]
        BY <1>1, <1>5, <2>2 DEF Retry
      <3>2. [x EXCEPT !.step = "failed"].step = "failed"
        BY <1>2
      <3> QED BY <1>3, <3>1, <3>2
    <2> QED BY <2>1, <2>2
  <1> QED BY <1>4, <1>5

(* A chord with a task at work has not returned.                           *)
LEMMA WorkNotReturned ==
    ASSUME NEW r \in Run, NEW a \in Attempt, NEW p \in Package,
           PartAt(r, a, p, "queued") \/ PartAt(r, a, p, "counted"),
           \A b \in Attempt : Returned(r, b), agg'[r] = agg[r],
           NEW s, PartGets(r, a, p, s)
    PROVE  \A b \in Attempt : Returned(r, b)'
  <1>1. Returned(r, a)'
    BY DEF PartAt, Returned
  <1>2. ASSUME NEW b \in Attempt, b # a PROVE Returned(r, b)'
    <2>1. \A q \in Package : parts'[r][b][q].step = parts[r][b][q].step
      BY <1>2 DEF PartGets
    <2>2. Stored(r, b)' = Stored(r, b)
      BY <2>1 DEF Stored
    <2> QED BY <2>1, <2>2 DEF Returned
  <1> QED BY <1>1, <1>2

(* A task that drops out, fails or begins again: no more is counted.       *)
LEMMA DropCovers ==
    ASSUME LifecycleTypeOK, [Next]_vars, NEW r \in Run, NEW a \in Attempt, NEW p \in Package,
           \A b \in Attempt : CountCovers(r, b), candidates'[r] = candidates[r],
           NEW s \in {"none", "queued", "missing", "failed"}, PartGets(r, a, p, s)
    PROVE  \A b \in Attempt : CountCovers(r, b)'
  <1> SUFFICES ASSUME NEW b \in Attempt PROVE CountCovers(r, b)'
    OBVIOUS
  <1>1. Counted(r, b)' \subseteq Counted(r, b) /\ Stored(r, b)' \subseteq Stored(r, b)
    BY DEF Counted, Stored, PartGets
  <1>2. candidates'[r] >= candidates[r]
    BY PairSums
  <1> QED BY <1>1, <1>2, CoversStill

(* A task that counts adds what it has counted, once.                      *)
LEMMA CountingCovers ==
    ASSUME LifecycleTypeOK, [Next]_vars, NEW r \in Run, NEW a \in Attempt, NEW p \in Package,
           \A b \in Attempt : CountCovers(r, b),
           PartAt(r, a, p, "queued"), PartGets(r, a, p, "counted"),
           candidates'[r] = candidates[r] + NumResults(r)[p]
    PROVE  \A b \in Attempt : CountCovers(r, b)'
  <1>0. candidates[r] \in Nat /\ NumResults(r)[p] \in Nat
    BY PairSums
  <1>1. ASSUME NEW b \in Attempt, b # a PROVE CountCovers(r, b)'
    <2>1. Counted(r, b)' \subseteq Counted(r, b) /\ Stored(r, b)' \subseteq Stored(r, b)
      BY <1>1 DEF Counted, Stored, PartGets
    <2>2. candidates'[r] >= candidates[r]
      BY <1>0
    <2> QED BY <2>1, <2>2, CoversStill
  <1>2. CountCovers(r, a)'
    <2>1. Stored(r, a)' \subseteq Stored(r, a) /\ Stored(r, a) \subseteq Package
      BY DEF Stored, PartGets
    <2>2. p \notin Counted(r, a) /\ Counted(r, a)' = Counted(r, a) \cup {p}
      BY DEF Counted, PartGets, PartAt
    <2>3. IsFiniteSet(Counted(r, a)) /\ \A q \in Counted(r, a) : NumResults(r)[q] \in Nat
      <3>1. Counted(r, a) \in SUBSET Package
        BY DEF Counted
      <3> QED BY <3>1, PairSums, FS_Subset
    <2>4. SumFunctionOnSet(NumResults(r), Counted(r, a)') = NumResults(r)[p] + SumFunctionOnSet(NumResults(r), Counted(r, a))
      BY <1>0, <2>2, <2>3, SumAdd
    <2>5. SumFunctionOnSet(NumResults(r), Counted(r, a)) \in Nat
      BY <2>3, SumType
    <2>6. CASE WithinLimit(r)
      BY <2>6, ClearedStays DEF CountCovers
    <2>7. CASE ~WithinLimit(r)
      <3>1. SumFunctionOnSet(NumResults(r), Counted(r, a)) <= candidates[r] /\ Stored(r, a) # Package
        BY <2>7 DEF CountCovers
      <3>2. SumFunctionOnSet(NumResults(r), Counted(r, a)') <= candidates'[r]
        BY <1>0, <2>4, <2>5, <3>1
      <3>3. Stored(r, a)' # Package
        BY <2>1, <3>1
      <3>4. SumFunctionOnSet(NumResults(r), Counted(r, a))' = SumFunctionOnSet(NumResults(r), Counted(r, a)')
        BY PairsStay DEF NumResults
      <3> QED BY <3>2, <3>3, <3>4 DEF CountCovers
    <2> QED BY <2>6, <2>7
  <1> QED BY <1>1, <1>2

(* A task that stores found the total within the limit; if it is the last  *)
(* of its chord, that total covers all candidates of the run.              *)
LEMMA StoringCovers ==
    ASSUME LifecycleTypeOK, [Next]_vars, NEW r \in Run, NEW a \in Attempt, NEW p \in Package,
           \A b \in Attempt : CountCovers(r, b),
           PartAt(r, a, p, "counted"), NEW s \in {"empty", "file"}, PartGets(r, a, p, s),
           candidates[r] <= CandidateLimit, candidates'[r] = candidates[r]
    PROVE  \A b \in Attempt : CountCovers(r, b)'
  <1>0. candidates[r] \in Nat /\ candidates'[r] >= candidates[r]
    BY PairSums
  <1>1. ASSUME NEW b \in Attempt, b # a PROVE CountCovers(r, b)'
    <2>1. Counted(r, b)' \subseteq Counted(r, b) /\ Stored(r, b)' \subseteq Stored(r, b)
      BY <1>1 DEF Counted, Stored, PartGets
    <2> QED BY <1>0, <2>1, CoversStill
  <1>2. CountCovers(r, a)'
    <2>1. Counted(r, a)' = Counted(r, a)
      BY DEF Counted, PartGets, PartAt
    <2>2. CASE WithinLimit(r)
      BY <2>2, ClearedStays DEF CountCovers
    <2>3. CASE ~WithinLimit(r)
      <3>1. SumFunctionOnSet(NumResults(r), Counted(r, a)) <= candidates[r]
        BY <2>3 DEF CountCovers
      <3>2. Stored(r, a)' # Package
        <4> SUFFICES ASSUME Stored(r, a)' = Package PROVE FALSE
          OBVIOUS
        <4>1. Counted(r, a) = Package
          <5>1. Stored(r, a)' \subseteq Counted(r, a)' /\ Counted(r, a) \subseteq Package
            BY DEF Stored, Counted
          <5> QED BY <2>1, <5>1
        <4>2. AllPairs(r) <= CandidateLimit
          <5>1. AllPairs(r) <= candidates[r]
            BY <3>1, <4>1, PairSums
          <5> QED BY <5>1, PairSums
        <4> QED BY <2>3, <4>2 DEF WithinLimit
      <3>3. SumFunctionOnSet(NumResults(r), Counted(r, a))' = SumFunctionOnSet(NumResults(r), Counted(r, a)')
        BY PairsStay DEF NumResults
      <3> QED BY <2>1, <3>1, <3>2, <3>3 DEF CountCovers
    <2> QED BY <2>2, <2>3
  <1> QED BY <1>1, <1>2

(* So all steps of the compute tasks leave the chords within the limit.    *)
LEMMA ComputeLimited ==
    ASSUME LifecycleTypeOK, [Next]_vars, NEW r \in Run, NEW a \in Attempt, NEW p \in Package,
           ComputeStep(r, a, p) \/ ComputeFails(r, a, p),
           \A b \in Attempt : CountCovers(r, b) /\ Returned(r, b)
    PROVE  \A b \in Attempt : CountCovers(r, b)' /\ Returned(r, b)'
  <1> DEFINE Goal == \A b \in Attempt : CountCovers(r, b)' /\ Returned(r, b)'
  <1>0. agg' = agg /\ (PartAt(r, a, p, "queued") \/ PartAt(r, a, p, "counted"))
    BY DEF ComputeStep, ComputeInactive, ComputeStale, Compute, ComputeOverLimit, ComputeStore, ComputeFails
  <1>1. ASSUME NEW s, PartGets(r, a, p, s) PROVE \A b \in Attempt : Returned(r, b)'
    BY <1>0, <1>1, WorkNotReturned
  <1>2. CASE ComputeInactive(r, a, p) \/ ComputeOverLimit(r, a, p)
    <2>1. PartGets(r, a, p, "missing") /\ candidates'[r] = candidates[r]
      BY <1>2, PartAfter DEF ComputeInactive, ComputeOverLimit
    <2>2. \A b \in Attempt : CountCovers(r, b)'
      BY <2>1, DropCovers
    <2> QED BY <1>1, <2>1, <2>2
  <1>3. CASE ComputeStale(r, a, p) \/ ComputeFails(r, a, p)
    <2>1. candidates'[r] = candidates[r] /\ \E s \in {"queued", "failed"} : PartGets(r, a, p, s)
      BY <1>3, PartAfter DEF ComputeStale, ComputeFails
    <2>2. \A b \in Attempt : CountCovers(r, b)'
      BY <2>1, DropCovers
    <2> QED BY <1>1, <2>1, <2>2
  <1>4. CASE Compute(r, a, p)
    <2>1. candidates \in [Run -> Nat]
      BY DEF LifecycleTypeOK, PipelineTypeOK
    <2>2. candidates'[r] = candidates[r] + NumResults(r)[p] /\ PartAt(r, a, p, "queued") /\ PartGets(r, a, p, "counted")
      BY <1>4, <2>1, PartAfter DEF Compute
    <2>3. \A b \in Attempt : CountCovers(r, b)'
      BY <2>2, CountingCovers
    <2> QED BY <1>1, <2>2, <2>3
  <1>5. CASE ComputeStore(r, a, p)
    <2>1. \E s \in {"empty", "file"} : PartGets(r, a, p, s)
      BY <1>5, PartAfter DEF ComputeStore
    <2>2. candidates[r] <= CandidateLimit /\ candidates'[r] = candidates[r] /\ PartAt(r, a, p, "counted")
      BY <1>5 DEF ComputeStore
    <2>3. \A b \in Attempt : CountCovers(r, b)'
      BY <2>1, <2>2, StoringCovers
    <2> QED BY <1>1, <2>1, <2>3
  <1> QED BY <1>2, <1>3, <1>4, <1>5 DEF ComputeStep

-------------------------------------------------------------------------------
(* The chord and its callback                                              *)

(* A run with a chord that has merged its files is within its limit.       *)
LEMMA MergedWithin ==
    ASSUME NEW r \in Run, NEW a \in Attempt, CountCovers(r, a), Returned(r, a),
           agg[r][a] \in {"merged", "stored", "sent"}
    PROVE  WithinLimit(r)
  BY DEF CountCovers, Returned

(* Where no package moves the count covers the chords as before, unless it *)
(* begins anew, for a run that is within its limit.                        *)
LEMMA SamePartsCover ==
    ASSUME LifecycleTypeOK, [Next]_vars, NEW r \in Run, NEW b \in Attempt, CountCovers(r, b),
           parts'[r] = parts[r], candidates'[r] = candidates[r] \/ WithinLimit(r)
    PROVE  CountCovers(r, b)'
  <1>1. Counted(r, b)' = Counted(r, b) /\ Stored(r, b)' = Stored(r, b)
    BY DEF Counted, Stored
  <1>2. candidates'[r] >= candidates[r] \/ WithinLimit(r)
    BY PairSums
  <1> QED BY <1>1, <1>2, CoversStill

(* The callback of a chord gets to step s.                                 *)
LEMMA AggAfter ==
    ASSUME LifecycleTypeOK, NEW r \in Run, NEW a \in Attempt, NEW s, AggTo(r, a, s)
    PROVE  agg'[r][a] = s /\ \A b \in Attempt : b # a => agg'[r][b] = agg[r][b]
  <1>1. agg \in [Run -> [Attempt -> AggStep]]
    BY DEF LifecycleTypeOK, PipelineTypeOK
  <1> QED BY <1>1 DEF AggTo

(* The chords returned as before, if this one may be at its step.          *)
LEMMA ReturnedAfter ==
    ASSUME LifecycleTypeOK, NEW r \in Run, NEW a \in Attempt, NEW s, AggTo(r, a, s),
           parts'[r] = parts[r], \A b \in Attempt : Returned(r, b),
           s \in {"queued", "retry", "merged", "stored", "sent"} =>
               \A p \in Package : parts[r][a][p].step \in {"missing", "empty", "file"},
           s \in {"merged", "stored", "sent"} => Stored(r, a) = Package
    PROVE  \A b \in Attempt : Returned(r, b)'
  <1> SUFFICES ASSUME NEW b \in Attempt PROVE Returned(r, b)'
    OBVIOUS
  <1>1. Stored(r, b)' = Stored(r, b)
    BY DEF Stored
  <1>2. agg'[r][a] = s /\ (b # a => agg'[r][b] = agg[r][b])
    BY AggAfter
  <1>3. CASE b = a
    BY <1>1, <1>2, <1>3 DEF Returned
  <1>4. CASE b # a
    BY <1>1, <1>2, <1>4 DEF Returned
  <1> QED BY <1>3, <1>4

(* The steps of a chord and its callback.                                  *)
LEMMA AggregateLimited ==
    ASSUME LifecycleTypeOK, [Next]_vars, NEW r \in Run, NEW a \in Attempt,
           AggregateStep(r, a) \/ AggregateFails(r, a),
           \A b \in Attempt : CountCovers(r, b) /\ Returned(r, b)
    PROVE  \A b \in Attempt : CountCovers(r, b)' /\ Returned(r, b)'
  <1>1. parts' = parts
    BY DEF AggregateStep, ChordReturns, AggregateMissing, AggregateMerge, AggregateStore, AggregateSend,
           AggregateFails
  <1>2. candidates' = candidates \/ AggAt(r, a, "merged")
    BY DEF AggregateStep, ChordReturns, AggregateMissing, AggregateMerge, AggregateStore, AggregateSend,
           AggregateFails
  <1>3. candidates'[r] = candidates[r] \/ WithinLimit(r)
    BY <1>2, MergedWithin DEF AggAt
  <1>4. \A b \in Attempt : CountCovers(r, b)'
    BY <1>1, <1>3, SamePartsCover
  <1> DEFINE MayGet(s) ==
         /\ s \in {"queued", "retry", "merged", "stored", "sent"} =>
               \A p \in Package : parts[r][a][p].step \in {"missing", "empty", "file"}
         /\ s \in {"merged", "stored", "sent"} => Stored(r, a) = Package
  <1>5. ASSUME NEW s, AggTo(r, a, s), MayGet(s) PROVE \A b \in Attempt : Returned(r, b)'
    BY <1>1, <1>5, ReturnedAfter
  <1>6. \E s : AggTo(r, a, s) /\ MayGet(s)
    <2>1. MayGet("failed")
      OBVIOUS
    <2>2. AggFails(r, a) => AggTo(r, a, "failed")
      BY DEF AggFails
    <2>3. CASE ChordReturns(r, a)
      <3>1. CASE Results(r, a, "failed") = {}
        <4>1. AggTo(r, a, "queued")
          BY <2>3, <3>1 DEF ChordReturns
        <4>2. \A p \in Package : parts[r][a][p].step \in {"missing", "empty", "file"}
          BY <2>3, <3>1 DEF ChordReturns, Results, PartAt, PartDone
        <4> QED BY <4>1, <4>2
      <3>2. CASE Results(r, a, "failed") # {}
        <4>1. AggTo(r, a, "failed")
          BY <2>3, <3>2 DEF ChordReturns
        <4> QED BY <2>1, <4>1
      <3> QED BY <3>1, <3>2
    <2>4. CASE AggregateMissing(r, a)
      BY <2>1, <2>2, <2>4 DEF AggregateMissing
    <2>5. CASE AggregateMerge(r, a) \/ AggregateFails(r, a)
      <3>1. \A p \in Package : parts[r][a][p].step \in {"missing", "empty", "file"}
        BY <2>5 DEF AggregateMerge, AggregateFails, AggAt, Returned
      <3>2. Stored(r, a) = Package
        BY <2>5, <3>1 DEF AggregateMerge, AggregateFails, Results, PartAt, Stored
      <3>3. \A s : MayGet(s)
        BY <3>1, <3>2
      <3>4. AggTo(r, a, "merged") \/ AggTo(r, a, "retry") \/ AggTo(r, a, "failed")
        BY <2>2, <2>5 DEF AggregateMerge, AggregateFails
      <3> HIDE DEF MayGet
      <3> QED BY <3>3, <3>4
    <2>6. CASE AggregateStore(r, a) \/ AggregateSend(r, a)
      <3>1. \A s : MayGet(s)
        BY <2>6 DEF AggregateStore, AggregateSend, AggAt, Returned
      <3>2. AggTo(r, a, "stored") \/ AggTo(r, a, "sent") \/ AggTo(r, a, "failed")
        BY <2>2, <2>6 DEF AggregateStore, AggregateSend
      <3> HIDE DEF MayGet
      <3> QED BY <3>1, <3>2
    <2> HIDE DEF MayGet
    <2> QED BY <2>3, <2>4, <2>5, <2>6 DEF AggregateStep
  <1>7. \A b \in Attempt : Returned(r, b)'
    <2> HIDE DEF MayGet
    <2> QED BY <1>5, <1>6
  <1> QED BY <1>4, <1>7

(* A chord that is sent begins with nothing.                               *)
LEMMA DispatchLimited ==
    ASSUME LifecycleTypeOK, [Next]_vars, NEW r \in Run, DispatchChord(r),
           \A b \in Attempt : CountCovers(r, b) /\ Returned(r, b)
    PROVE  \A b \in Attempt : CountCovers(r, b)' /\ Returned(r, b)'
  <1>1. PICK a \in Attempt :
           /\ agg' = [agg EXCEPT ![r][a] = "waiting"]
           /\ parts' = [parts EXCEPT ![r][a] = [p \in Package |-> [step |-> "queued", tries |-> 0]]]
    BY DEF DispatchChord
  <1>2. /\ agg \in [Run -> [Attempt -> AggStep]]
        /\ parts \in [Run -> [Attempt -> [Package -> [step : PartStep, tries : 0..MaxRetries]]]]
    BY DEF LifecycleTypeOK, PipelineTypeOK
  <1>3. CountCovers(r, a)' /\ Returned(r, a)'
    <2>1. \A p \in Package : parts'[r][a][p].step = "queued"
      BY <1>1, <1>2
    <2>2. agg'[r][a] = "waiting"
      BY <1>1, <1>2
    <2> QED BY <2>1, <2>2, CoversNothing DEF Returned
  <1>4. ASSUME NEW b \in Attempt, b # a PROVE CountCovers(r, b)' /\ Returned(r, b)'
    <2>1. parts'[r][b] = parts[r][b] /\ agg'[r][b] = agg[r][b]
      BY <1>1, <1>2, <1>4
    <2>2. Counted(r, b)' = Counted(r, b) /\ Stored(r, b)' = Stored(r, b)
      BY <2>1 DEF Counted, Stored
    <2>3. candidates'[r] >= candidates[r]
      BY PairSums DEF DispatchChord
    <2>4. CountCovers(r, b)'
      BY <2>2, <2>3, CoversStill
    <2> QED BY <2>1, <2>2, <2>4 DEF Returned
  <1> QED BY <1>3, <1>4

(* Deaths and redeliveries.                                                *)
LEMMA LossLimited ==
    ASSUME LifecycleTypeOK, [Next]_vars, NEW r \in Run, LoseTask(r) \/ RedeliverTask(r),
           \A b \in Attempt : CountCovers(r, b) /\ Returned(r, b)
    PROVE  \A b \in Attempt : CountCovers(r, b)' /\ Returned(r, b)'
  <1>1. candidates' = candidates
    BY DEF LoseTask, RedeliverTask
  <1>2. CASE UNCHANGED <<parts, agg>>
    <2>1. \A b \in Attempt : CountCovers(r, b)'
      BY <1>1, <1>2, SamePartsCover
    <2>2. ASSUME NEW b \in Attempt PROVE Returned(r, b)'
      BY <1>2 DEF Returned, Stored
    <2> QED BY <2>1, <2>2
  <1>3. ASSUME NEW a \in Attempt, NEW p \in Package, agg' = agg,
               PartAt(r, a, p, "queued") \/ PartAt(r, a, p, "counted"),
               NEW s \in {"none", "queued"}, PartTo(r, a, p, s)
        PROVE  \A b \in Attempt : CountCovers(r, b)' /\ Returned(r, b)'
    <2>1. PartGets(r, a, p, s)
      BY <1>3, PartAfter
    <2>2. \A b \in Attempt : CountCovers(r, b)'
      BY <1>1, <2>1, DropCovers
    <2>3. \A b \in Attempt : Returned(r, b)'
      BY <1>3, <2>1, WorkNotReturned
    <2> QED BY <2>2, <2>3
  <1>4. ASSUME NEW a \in Attempt, parts' = parts,
               \/ AggTo(r, a, "failed")
               \/ agg[r][a] \in {"merged", "stored", "sent"} /\ AggTo(r, a, "retry")
        PROVE  \A b \in Attempt : CountCovers(r, b)' /\ Returned(r, b)'
    <2>1. \A b \in Attempt : CountCovers(r, b)'
      BY <1>1, <1>4, SamePartsCover
    <2>2. CASE AggTo(r, a, "failed")
      BY <1>4, <2>1, <2>2, ReturnedAfter
    <2>3. CASE agg[r][a] \in {"merged", "stored", "sent"} /\ AggTo(r, a, "retry")
      <3>1. \A p \in Package : parts[r][a][p].step \in {"missing", "empty", "file"}
        BY <2>3 DEF Returned
      <3> QED BY <1>4, <2>1, <2>3, <3>1, ReturnedAfter
    <2> QED BY <1>4, <2>2, <2>3
  <1>5. CASE LoseTask(r)
    BY <1>2, <1>3, <1>4, <1>5 DEF LoseTask
  <1>6. CASE RedeliverTask(r)
    BY <1>2, <1>3, <1>4, <1>6 DEF RedeliverTask
  <1> QED BY <1>5, <1>6

-------------------------------------------------------------------------------
(* The single tasks                                                        *)

(* What is queued or completed is known to be small enough.                *)
TasksCleared(r) ==
    /\ \A j \in JobStep : jobs[r][j] > 0 => Cleared(r, j)
    /\ state[r] = "completed" => Cleared(r, "completed")

(* A step keeps it so, if it sends no task and completes no run that is    *)
(* not.                                                                    *)
LEMMA ClearedKept ==
    ASSUME LifecycleTypeOK, [Next]_vars, NEW r \in Run, TasksCleared(r),
           \A j \in JobStep : jobs'[r][j] > 0 => jobs[r][j] > 0 \/ Cleared(r, j),
           state'[r] = "completed" => state[r] = "completed" \/ Cleared(r, "completed")
    PROVE  TasksCleared(r)'
  <1>1. \A j \in JobStep : Cleared(r, j)' <=> Cleared(r, j)
    BY ClearedStays
  <1>2. \A j \in JobStep : jobs'[r][j] > 0 => Cleared(r, j)'
    BY <1>1 DEF TasksCleared
  <1>3. state'[r] = "completed" => Cleared(r, "completed")'
    BY <1>1 DEF TasksCleared, JobStep
  <1> QED BY <1>2, <1>3 DEF TasksCleared

(* The callback sends its next task for a run within the limit.            *)
LEMMA AggregateCleared ==
    ASSUME LifecycleTypeOK, [Next]_vars, NEW r \in Run, TasksCleared(r), NEW a \in Attempt,
           CountCovers(r, a), Returned(r, a), AggregateStep(r, a) \/ AggregateFails(r, a)
    PROVE  TasksCleared(r)'
  <1> DEFINE JobsFine == \A j \in JobStep : jobs'[r][j] > 0 => jobs[r][j] > 0 \/ Cleared(r, j)
  <1>0. jobs \in [Run -> [JobStep -> Nat]]
    BY DEF LifecycleTypeOK, PipelineTypeOK
  <1>1. state' = state
    BY DEF AggregateStep, ChordReturns, AggregateMissing, AggregateMerge, AggregateStore, AggregateSend,
           AggregateFails, schedulerVars
  <1>2. ASSUME NEW k \in JobStep, Send(r, k), Cleared(r, k) PROVE JobsFine
    BY <1>0, <1>2 DEF Send
  <1>3. Cleared(r, "failed")
    BY DEF Cleared
  <1>4. AggFails(r, a) => JobsFine
    BY <1>2, <1>3 DEF AggFails, JobStep
  <1>5. UNCHANGED jobs => JobsFine
    OBVIOUS
  <1> HIDE DEF JobsFine
  <1>6. CASE AggregateSend(r, a)
    <2>1. WithinLimit(r)
      BY <1>6, MergedWithin DEF AggregateSend, AggAt
    <2>2. Cleared(r, "solver") /\ (resultType = "similarity_scores" => Cleared(r, "complete"))
      BY <2>1 DEF Cleared
    <2>3. JobsFine
      BY <1>2, <1>6, <2>2 DEF AggregateSend, JobStep
    <2> QED BY <1>1, <2>3, ClearedKept DEF JobsFine
  <1>7. CASE ~AggregateSend(r, a)
    <2>1. JobsFine
      BY <1>2, <1>3, <1>4, <1>5, <1>7 DEF AggregateStep, ChordReturns, AggregateMissing, AggregateMerge,
         AggregateStore, AggregateFails, JobStep
    <2> QED BY <1>1, <2>1, ClearedKept DEF JobsFine
  <1> QED BY <1>6, <1>7

(* The solver asks for its own limit; the others hand on what they know.   *)
LEMMA JobsCleared ==
    ASSUME LifecycleTypeOK, [Next]_vars, NEW r \in Run, TasksCleared(r),
           JobsStep(r) \/ CreateJobsFails(r) \/ TaskFails(r)
    PROVE  TasksCleared(r)'
  <1> DEFINE JobsFine  == \A j \in JobStep : jobs'[r][j] > 0 => jobs[r][j] > 0 \/ Cleared(r, j)
             StateFine == state'[r] = "completed" => state[r] = "completed" \/ Cleared(r, "completed")
  <1>0. jobs \in [Run -> [JobStep -> Nat]] /\ state \in [Run -> RowState]
    BY DEF LifecycleTypeOK, TypeOK, PipelineTypeOK
  <1>1. ASSUME NEW j \in JobStep, NEW k \in JobStep, Step(r, j, k), j # k, Cleared(r, k) PROVE JobsFine
    BY <1>0, <1>1 DEF Step
  <1>2. ASSUME NEW j \in JobStep, Done(r, j) PROVE JobsFine
    BY <1>0, <1>2 DEF Done
  <1>3. UNCHANGED state => StateFine
    OBVIOUS
  <1>4. Cleared(r, "dispatch") /\ Cleared(r, "errback")
    BY DEF Cleared, Later
  <1>5. ASSUME NEW j \in {"save", "saved", "permute", "permuted", "complete"}, jobs[r][j] > 0
        PROVE  \A k \in {"saved", "permute", "permuted", "complete", "completed"} : Cleared(r, k)
    <2>1. Cleared(r, j)
      BY <1>5 DEF TasksCleared, JobStep
    <2> QED BY <2>1 DEF Cleared, Later
  <1>6. CASE CreateJobs(r) \/ CreateErrback(r) \/ DispatchChord(r) \/ CacheComplete(r) \/ CreateJobsFails(r)
             \/ TaskFails(r)
    <2>1. StateFine
      BY <1>3, <1>6 DEF CreateJobs, CreateErrback, DispatchChord, CacheComplete, CreateJobsFails, TaskFails,
         schedulerVars
    <2>2. JobsFine
      <3> HIDE DEF JobsFine
      <3> QED BY <1>1, <1>2, <1>4, <1>6 DEF CreateJobs, CreateErrback, DispatchChord, CacheComplete,
            CreateJobsFails, TaskFails, JobStep
    <2> QED BY <2>1, <2>2, ClearedKept
  <1>7. CASE Solve(r)
    <2>1. Cleared(r, "solver") /\ Solvable(r)
      BY <1>7 DEF Solve, TasksCleared, JobStep
    <2>2. Cleared(r, "save")
      BY <2>1 DEF Cleared, Later
    <2>3. JobsFine /\ StateFine
      <3> HIDE DEF JobsFine
      <3> QED BY <1>1, <1>3, <1>7, <2>2 DEF Solve, JobStep, schedulerVars
    <2> QED BY <2>3, ClearedKept
  <1>8. CASE SolveOverLimit(r) \/ RunFailed(r)
    <2>1. StateFine
      BY <1>0, <1>8 DEF SolveOverLimit, RunFailed, MarkFailure
    <2>2. JobsFine
      <3> HIDE DEF JobsFine
      <3> QED BY <1>2, <1>8 DEF SolveOverLimit, RunFailed, JobStep
    <2> QED BY <2>1, <2>2, ClearedKept
  <1>9. CASE SaveGroups(r) \/ SendPermute(r) \/ Permute(r) \/ SendComplete(r)
    <2>1. StateFine
      BY <1>3, <1>9 DEF SaveGroups, SendPermute, Permute, SendComplete, schedulerVars
    <2>2. JobsFine
      <3> HIDE DEF JobsFine
      <3> QED BY <1>1, <1>2, <1>5, <1>9 DEF SaveGroups, SendPermute, Permute, SendComplete, JobStep
    <2> QED BY <2>1, <2>2, ClearedKept
  <1>10. CASE MarkComplete(r)
    <2>1. Cleared(r, "completed")
      BY <1>5, <1>10 DEF MarkComplete
    <2>2. JobsFine
      <3> HIDE DEF JobsFine
      <3> QED BY <1>1, <1>10, <2>1 DEF MarkComplete, JobStep
    <2> QED BY <2>1, <2>2, ClearedKept
  <1> QED BY <1>6, <1>7, <1>8, <1>9, <1>10 DEF JobsStep

(* What comes again was sent before.                                       *)
LEMMA LossCleared ==
    ASSUME LifecycleTypeOK, [Next]_vars, NEW r \in Run, TasksCleared(r), LoseTask(r) \/ RedeliverTask(r)
    PROVE  TasksCleared(r)'
  <1> DEFINE JobsFine == \A j \in JobStep : jobs'[r][j] > 0 => jobs[r][j] > 0 \/ Cleared(r, j)
  <1>0. jobs \in [Run -> [JobStep -> Nat]]
    BY DEF LifecycleTypeOK, PipelineTypeOK
  <1>1. state' = state
    BY DEF LoseTask, RedeliverTask, schedulerVars
  <1>2. ASSUME NEW j \in JobStep, Done(r, j) PROVE JobsFine
    BY <1>0, <1>2 DEF Done
  <1>3. ASSUME NEW j \in DOMAIN MessageOf, jobs[r][j] > 0, Send(r, MessageOf[j]) PROVE JobsFine
    <2>1. j \in JobStep /\ MessageOf[j] \in JobStep
      BY <1>3 DEF MessageOf, JobStep
    <2>2. Cleared(r, j)
      BY <1>3, <2>1 DEF TasksCleared
    <2>3. Cleared(r, MessageOf[j])
      BY <1>3, <2>2 DEF Cleared, MessageOf, Later
    <2> QED BY <1>0, <1>3, <2>1, <2>3 DEF Send
  <1>4. UNCHANGED jobs => JobsFine
    OBVIOUS
  <1> HIDE DEF JobsFine
  <1>5. JobsFine
    BY <1>2, <1>3, <1>4 DEF LoseTask, RedeliverTask
  <1> QED BY <1>1, <1>5, ClearedKept DEF JobsFine

-------------------------------------------------------------------------------
(* LimitInvariant for one run.                                             *)
Limited(r) == TasksCleared(r) /\ \A a \in Attempt : CountCovers(r, a) /\ Returned(r, a)

(* Its parts make up ChordLimited and LimitInvariant.                      *)
LEMMA LimitedRuns ==
    /\ LimitInvariant <=> \A r \in Run : Limited(r)
    /\ LimitInvariant' <=> \A r \in Run : Limited(r)'
  BY DEF LimitInvariant, Limited, ChordLimited, CountCovers, Returned, TasksCleared

(* The steps of its own tasks keep it, ...                                 *)
LEMMA PipelineLimited ==
    ASSUME LifecycleTypeOK, [Next]_vars, NEW r \in Run, Limited(r), PipelineStep(r) \/ PipelineFault(r)
    PROVE  Limited(r)'
  <1> USE DEF Limited
  <1>1. ASSUME NEW a \in Attempt, NEW p \in Package, ComputeStep(r, a, p) \/ ComputeFails(r, a, p)
        PROVE  Limited(r)'
    <2>1. UNCHANGED jobs /\ (state'[r] = "completed" => state[r] = "completed")
      BY <1>1 DEF ComputeStep, ComputeInactive, ComputeStale, Compute, ComputeOverLimit, ComputeStore, ComputeFails,
         MarkFailure, LifecycleTypeOK, TypeOK, schedulerVars
    <2>2. TasksCleared(r)'
      BY <2>1, ClearedKept
    <2> QED BY <1>1, <2>2, ComputeLimited
  <1>2. ASSUME NEW a \in Attempt, AggregateStep(r, a) \/ AggregateFails(r, a) PROVE Limited(r)'
    BY <1>2, AggregateLimited, AggregateCleared
  <1>3. CASE JobsStep(r) \/ CreateJobsFails(r) \/ TaskFails(r)
    <2>1. TasksCleared(r)'
      BY <1>3, JobsCleared
    <2>2. CASE DispatchChord(r)
      BY <2>1, <2>2, DispatchLimited
    <2>3. CASE ~DispatchChord(r)
      <3>1. UNCHANGED <<parts, agg, candidates>>
        BY <1>3, <2>3 DEF JobsStep, CreateJobs, CreateErrback, Solve, SolveOverLimit, SaveGroups,
           SendPermute, Permute, SendComplete, MarkComplete, CacheComplete, RunFailed, CreateJobsFails, TaskFails
      <3>2. \A b \in Attempt : CountCovers(r, b)'
        BY <3>1, SamePartsCover
      <3>3. ASSUME NEW b \in Attempt PROVE Returned(r, b)'
        BY <3>1 DEF Returned, Stored
      <3> QED BY <2>1, <3>2, <3>3
    <2> QED BY <2>2, <2>3
  <1>4. CASE LoseTask(r) \/ RedeliverTask(r)
    BY <1>4, LossLimited, LossCleared
  <1> QED BY <1>1, <1>2, <1>3, <1>4 DEF PipelineStep, PipelineFault

(* as do those of another run, ...                                         *)
LEMMA ElsewhereLimited ==
    ASSUME LifecycleTypeOK, [Next]_vars, NEW r \in Run, PipelineStep(r) \/ PipelineFault(r),
           NEW q \in Run, q # r, Limited(q)
    PROVE  Limited(q)'
  <1>1. jobs'[q] = jobs[q] /\ parts'[q] = parts[q] /\ agg'[q] = agg[q] /\ state'[q] = state[q]
    BY OneRunAtATime DEF Elsewhere
  <1>2. candidates'[q] = candidates[q]
    <2>0. candidates \in [Run -> Nat]
      BY DEF LifecycleTypeOK, PipelineTypeOK
    <2>1. ASSUME NEW a \in Attempt, NEW p \in Package, ComputeStep(r, a, p) \/ ComputeFails(r, a, p)
          PROVE  candidates'[q] = candidates[q]
      BY <2>0, <2>1 DEF ComputeStep, ComputeInactive, ComputeStale, Compute, ComputeOverLimit, ComputeStore,
         ComputeFails
    <2>2. ASSUME NEW a \in Attempt, AggregateStep(r, a) \/ AggregateFails(r, a)
          PROVE  candidates'[q] = candidates[q]
      BY <2>0, <2>2 DEF AggregateStep, ChordReturns, AggregateMissing, AggregateMerge, AggregateStore,
         AggregateSend, AggregateFails, NextStage, Progress
    <2>3. CASE JobsStep(r)
      BY <2>3 DEF JobsStep, CreateJobs, CreateErrback, DispatchChord, Solve, SolveOverLimit, SaveGroups,
         SendPermute, Permute, SendComplete, MarkComplete, CacheComplete, RunFailed
    <2>4. CASE CreateJobsFails(r) \/ TaskFails(r) \/ LoseTask(r) \/ RedeliverTask(r)
      BY <2>4 DEF CreateJobsFails, TaskFails, LoseTask, RedeliverTask
    <2> QED BY <2>1, <2>2, <2>3, <2>4 DEF PipelineStep, PipelineFault
  <1>3. TasksCleared(q)'
    BY <1>1, ClearedKept DEF Limited
  <1>4. ASSUME NEW b \in Attempt PROVE CountCovers(q, b)' /\ Returned(q, b)'
    <2>1. CountCovers(q, b)'
      BY <1>1, <1>2, SamePartsCover DEF Limited
    <2>2. Stored(q, b)' = Stored(q, b)
      BY <1>1 DEF Stored
    <2> QED BY <1>1, <2>1, <2>2 DEF Returned, Limited
  <1> QED BY <1>3, <1>4 DEF Limited

(* and those of the scheduler, which clears the counts of runs it queues.  *)
LEMMA OutsideLimited ==
    ASSUME LifecycleTypeOK, NothingBeforeLaunch, SchedulerInvariant, [Next]_vars, Outside,
           NEW q \in Run, Limited(q)
    PROVE  Limited(q)'
  <1>1. /\ parts' = parts /\ agg' = agg
        /\ \A j \in JobStep \ {"create"} : jobs'[q][j] = jobs[q][j]
        /\ state'[q] = "completed" => state[q] = "completed"
    BY OutsideLeaves
  <1>2. TasksCleared(q)'
    <2>1. Cleared(q, "create")
      BY DEF Cleared, Later
    <2> QED BY <1>1, <2>1, ClearedKept DEF Limited
  <1>3. \A b \in Attempt : Returned(q, b)'
    BY <1>1 DEF Limited, Returned, Stored
  <1>4. candidates'[q] = candidates[q] \/ state[q] = "created"
    <2>1. ASSUME NEW c \in Trigger, QueueAndClear(c) PROVE candidates'[q] = candidates[q] \/ state[q] = "created"
      BY <2>1 DEF QueueAndClear
    <2> QED BY <2>1 DEF Outside, SchedulerOnly, CleanProject, LaunchRun, CascadeDelete, RefuseDelete, pipelineVars,
               vars
  <1>5. CASE state[q] = "created"
    <2>1. launched[q] = 0
      <3>1. prerun[q]["send"] \in Nat /\ launched[q] \in Nat
        BY DEF LifecycleTypeOK, TypeOK, PrerunStep
      <3> QED BY <1>5, <3>1 DEF SchedulerInvariant, OneStarter
    <2>2. \A a \in Attempt, p \in Package : parts'[q][a][p].step = "none"
      BY <1>1, <2>1 DEF NothingBeforeLaunch, Untouched
    <2>3. \A b \in Attempt : CountCovers(q, b)'
      BY <2>2, CoversNothing
    <2> QED BY <1>2, <1>3, <2>3 DEF Limited
  <1>6. CASE candidates'[q] = candidates[q]
    <2>1. \A b \in Attempt : CountCovers(q, b)'
      BY <1>1, <1>6, SamePartsCover DEF Limited
    <2> QED BY <1>2, <1>3, <2>1 DEF Limited
  <1> QED BY <1>4, <1>5, <1>6

(* At first nothing is counted.                                            *)
LEMMA InitLimited == Init => LimitInvariant
  <1> SUFFICES ASSUME Init, NEW r \in Run PROVE Limited(r)
    BY LimitedRuns
  <1>0. LifecycleTypeOK
    BY InitTypeOK, InitPipelineType DEF Init, LifecycleTypeOK
  <1>1. TasksCleared(r)
    BY DEF Init, SchedulerInit, TasksCleared
  <1>2. \A a \in Attempt : agg[r][a] = "none" /\ \A p \in Package : parts[r][a][p].step = "none"
    BY DEF Init
  <1>3. ASSUME NEW a \in Attempt PROVE CountCovers(r, a)
    <2>1. Counted(r, a) = {} /\ Stored(r, a) = {}
      BY <1>2 DEF Counted, Stored
    <2>2. SumFunctionOnSet(NumResults(r), {}) = 0 /\ candidates[r] \in Nat
      BY <1>0, PairSums, SumEmpty
    <2>3. CASE Package = {}
      <3>1. AllPairs(r) = 0 /\ CandidateLimit \in Nat
        BY <1>0, <2>3, PairSums, SumEmpty
      <3> QED BY <3>1 DEF CountCovers, WithinLimit
    <2>4. CASE Package # {}
      BY <2>1, <2>2, <2>4 DEF CountCovers
    <2> QED BY <2>3, <2>4
  <1>4. \A a \in Attempt : Returned(r, a)
    BY <1>2 DEF Returned
  <1> QED BY <1>1, <1>3, <1>4 DEF Limited

(* In every reachable state the total in redis covers what each chord has  *)
(* counted, or the run is within its limit, and no later task is sent for  *)
(* a run above it (comparing.py:357-372, 475-521).                         *)
THEOREM LimitInvariantHolds ==
    ASSUME Stages = Nat
    PROVE  Spec => []LimitInvariant
  <1>1. LifecycleTypeOK /\ NothingBeforeLaunch /\ SchedulerInvariant /\ [Next]_vars /\ LimitInvariant
            => LimitInvariant'
    <2> SUFFICES ASSUME LifecycleTypeOK, NothingBeforeLaunch, SchedulerInvariant, [Next]_vars,
                        \A r \in Run : Limited(r), NEW q \in Run
                 PROVE  Limited(q)'
      BY LimitedRuns
    <2>1. CASE Outside
      BY <2>1, OutsideLimited
    <2>2. ASSUME NEW r \in Run, PipelineStep(r) \/ PipelineFault(r) PROVE Limited(q)'
      BY <2>2, PipelineLimited, ElsewhereLimited
    <2> QED BY <2>1, <2>2 DEF Next, Outside
  <1>2. Spec => []SchedulerInvariant
    BY LifecycleImplementsContract, PTL
  <1> QED BY <1>1, <1>2, InitLimited, LifecycleTypeCorrect, PTL DEF Spec

(* A run whose packages found more candidates than allowed, or that has    *)
(* more different ones than the solver takes, never completes, in whatever *)
(* order its packages count and read the total, and whichever of them are  *)
(* tried again, lost or delivered twice (comparing.py:357-372,             *)
(* solver.py:27-34).                                                       *)
THEOREM LimitsHoldHolds ==
    ASSUME Stages = Nat
    PROVE  Spec => []LimitsHold
  <1>1. LimitInvariant => LimitsHold
    BY DEF LimitInvariant, LimitsHold, Cleared, Later
  <1> QED BY <1>1, LimitInvariantHolds, PTL

===============================================================================
