----------------------------- MODULE PermuteMapping -----------------------------
(***************************************************************************)
(* The permutations and the mask of a run of two data providers.           *)
(* permute_mapping_data puts matched rows at the same random position of   *)
(* both data sets, marks the position in the mask, and distributes all     *)
(* other rows over the positions that are left.  Each data provider then   *)
(* reads its permutation and the coordinator the mask, in requests of      *)
(* their own, and only together do they say which rows line up.            *)
(*                                                                         *)
(* The task may be executed more than once, the message delivered again or *)
(* sent again by a second save_and_permute; the run may be deleted at any  *)
(* time.  RunLifecycle has how the run gets here.                          *)
(***************************************************************************)
EXTENDS Integers, Sequences, FiniteSets

CONSTANTS
    Sizes,      \* the sizes that the two data sets may have
    Execution   \* bound: the executions of permute_mapping_data

Side == {"a", "b"}

ASSUME PermutationsAssumption == Sizes \subseteq [Side -> Nat]

VARIABLES
    size,     \* len_filters1 and len_filters2
    groups,   \* the result of the solver: the matched rows, in its order
    run,      \* the state of the run
    at,       \* where each execution is
    order,    \* its shuffled indices
    packed,   \* how many groups it has placed
    perm,     \* a_permutation and b_permutation
    mask,     \* the indices the mask includes
    left,     \* remaining_a_values and remaining_b_values
    stored,   \* executions whose rows are in permutations and permutation_masks
    reading,  \* readers whose request has seen the run completed
    answers   \* whose rows each reader was given

vars   == <<size, groups, run, at, order, packed, perm, mask, left, stored,
            reading, answers>>
given  == <<size, groups>>
local  == <<order, packed, perm, mask, left>>
served == <<reading, answers>>

Row(s)  == 0 .. size[s] - 1
Smaller == IF size["a"] < size["b"] THEN size["a"] ELSE size["b"]
Index   == 0 .. Smaller - 1

(* The groups of two parties as anonlink's solver makes them: a row of     *)
(* each, and no row in two of them.                                        *)
Rows  == Row("a") \cup Row("b")
Group == {g \in [Side -> Rows] : \A s \in Side : g[s] \in Row(s)}
Disjoint(gs) == \A i, j \in DOMAIN gs : \A s \in Side : gs[i][s] = gs[j][s] => i = j

(* Who asks for the result: the holders of the receipt tokens of the two   *)
(* data providers, and of the result token.                                *)
Reader == Side \cup {"mask"}

Init ==
    /\ size \in Sizes
    /\ \E n \in 0 .. Smaller : groups \in [1 .. n -> Group] /\ Disjoint(groups)
    /\ run = "running"
    /\ at     = [e \in Execution |-> "waiting"]
    /\ order  = [e \in Execution |-> << >>]
    /\ packed = [e \in Execution |-> 0]
    /\ perm   = [e \in Execution |-> [s \in Side |-> << >>]]
    /\ mask   = [e \in Execution |-> {}]
    /\ left   = [e \in Execution |-> [s \in Side |-> {}]]
    /\ stored = {} /\ reading = {}
    /\ answers = [t \in Reader |-> {}]

-------------------------------------------------------------------------------
(* permute_mapping_data                                                    *)

Goto(e, step) == at' = [at EXCEPT ![e] = step]

(* random.shuffle of all indices of the smaller data set.                  *)
Shuffles == {o \in [1 .. Smaller -> Index] : \A i, j \in 1 .. Smaller : o[i] = o[j] => i = j}

(* get_run_result raises RunDeleted when the result is gone.               *)
Begin(e) ==
    /\ at[e] = "waiting"
    /\ \/ /\ run # "deleted" /\ Goto(e, "packing")
          /\ \E o \in Shuffles : order' = [order EXCEPT ![e] = o]
       \/ /\ run = "deleted" /\ Goto(e, "failed")
          /\ UNCHANGED order
    /\ UNCHANGED <<given, run, packed, perm, mask, left, stored, served>>

Put(f, i, v) == [j \in DOMAIN f \cup {i} |-> IF j = i THEN v ELSE f[j]]

(* The next group: its rows share the next of the shuffled indices.        *)
(* Mutant: the mask marks the number of the group.                         *)
PackGroupUnshuffled(e) ==
    /\ at[e] = "packing" /\ packed[e] < Len(groups)
    /\ LET k == packed[e] + 1 IN
          /\ perm' = [perm EXCEPT ![e] = [s \in Side |-> Put(@[s], groups[k][s], order[e][k])]]
          /\ mask' = [mask EXCEPT ![e] = @ \cup {packed[e]}]
          /\ packed' = [packed EXCEPT ![e] = k]
    /\ UNCHANGED <<given, run, at, order, left, stored, served>>

PackGroup(e) ==
    /\ at[e] = "packing" /\ packed[e] < Len(groups)
    /\ LET k == packed[e] + 1 IN
          /\ perm' = [perm EXCEPT ![e] = [s \in Side |-> Put(@[s], groups[k][s], order[e][k])]]
          /\ mask' = [mask EXCEPT ![e] = @ \cup {order[e][k]}]
          /\ packed' = [packed EXCEPT ![e] = k]
    /\ UNCHANGED <<given, run, at, order, left, stored, served>>

(* The indices not used for groups, and those beyond the smaller size.     *)
(* Mutant: remaining_new_indexes begins one too late.                      *)
RemainingLate(e, s) ==
    (Smaller .. size[s] - 1) \cup {order[e][k] : k \in Len(groups) + 2 .. Smaller}

(* Mutant: one index beyond the end of the data set.                       *)
RemainingBeyond(e, s) ==
    (Smaller .. size[s]) \cup {order[e][k] : k \in Len(groups) + 1 .. Smaller}

Remaining(e, s) ==
    (Smaller .. size[s] - 1) \cup {order[e][k] : k \in Len(groups) + 1 .. Smaller}

EndPacking(e) ==
    /\ at[e] = "packing" /\ packed[e] = Len(groups)
    /\ Goto(e, "filling")
    /\ left' = [left EXCEPT ![e] = [s \in Side |-> Remaining(e, s)]]
    /\ UNCHANGED <<given, run, order, packed, perm, mask, stored, served>>

Unmapped(e, s) == Row(s) \ DOMAIN perm[e][s]

(* pop() takes any of the shuffled remaining values for the first row that *)
(* has no index yet, in all of a and then in all of b.                     *)
FillRow(e) ==
    /\ at[e] = "filling"
    /\ \E s \in Side : \E i \in Unmapped(e, s), v \in left[e][s] :
          /\ s = "b" => Unmapped(e, "a") = {}
          /\ \A j \in Unmapped(e, s) : i <= j
          /\ perm' = [perm EXCEPT ![e][s] = Put(@, i, v)]
          /\ left' = [left EXCEPT ![e][s] = @ \ {v}]
    /\ UNCHANGED <<given, run, at, order, packed, mask, stored, served>>

(* Both permutations and the mask are committed together, unless their     *)
(* foreign key finds no run.                                               *)
Store(e) ==
    /\ at[e] = "filling" /\ \A s \in Side : Unmapped(e, s) = {}
    /\ \/ /\ run # "deleted" /\ Goto(e, "stored")
          /\ stored' = stored \cup {e}
       \/ /\ run = "deleted" /\ Goto(e, "failed")
          /\ UNCHANGED stored
    /\ UNCHANGED <<given, run, local, served>>

(* Mutant: completion is sent before the transaction begins to commit.     *)
SendEarly(e) ==
    /\ at[e] \in {"filling", "stored"} /\ Goto(e, "sent")
    /\ UNCHANGED <<given, run, local, stored, served>>

SendCompletion(e) ==
    /\ at[e] = "stored" /\ Goto(e, "sent")
    /\ UNCHANGED <<given, run, local, stored, served>>

(* mark_run_complete updates the row of the run, if there is one.          *)
Complete(e) ==
    /\ at[e] = "sent" /\ Goto(e, "done")
    /\ run' = IF run = "deleted" THEN run ELSE "completed"
    /\ UNCHANGED <<given, local, stored, served>>

(* The worker dies or loses the database: what it has not committed is     *)
(* gone, and another execution begins anew.                                *)
Fail(e) ==
    /\ at[e] \in {"packing", "filling", "stored"} /\ Goto(e, "failed")
    /\ UNCHANGED <<given, run, local, stored, served>>

-------------------------------------------------------------------------------
(* The views: DELETE run, and GET result, which reads the state of the run *)
(* and then, in the next statement, the rows.                              *)

DeleteRun ==
    /\ run # "deleted" /\ run' = "deleted"
    /\ stored' = {}
    /\ UNCHANGED <<given, at, local, served>>

FindCompleted(t) ==
    /\ run = "completed" /\ t \notin reading
    /\ reading' = reading \cup {t}
    /\ UNCHANGED <<given, run, at, local, stored, answers>>

(* Without ORDER BY, any of several rows; without a row, status 500.       *)
GetResult(t) ==
    /\ t \in reading /\ reading' = reading \ {t}
    /\ \/ \E e \in stored : answers' = [answers EXCEPT ![t] = @ \cup {e}]
       \/ stored = {} /\ UNCHANGED answers
    /\ UNCHANGED <<given, run, at, local, stored>>

-------------------------------------------------------------------------------
Next ==
    \/ \E e \in Execution :
          \/ Begin(e) \/ PackGroup(e) \/ EndPacking(e) \/ FillRow(e)
          \/ Store(e) \/ SendCompletion(e) \/ Complete(e) \/ Fail(e)
    \/ DeleteRun
    \/ \E t \in Reader : FindCompleted(t) \/ GetResult(t)

Spec == Init /\ [][Next]_vars

-------------------------------------------------------------------------------
(* Every variable has its type: on each side an execution maps rows of the *)
(* data set to positions in the same data set, and what remains are        *)
(* positions in it, however much larger the other one is.                  *)
Placements ==
    {p \in [Side -> UNION {[D -> Rows] : D \in SUBSET Rows}] :
        \A s \in Side : \A i \in DOMAIN p[s] : i \in Row(s) /\ p[s][i] \in Row(s)}
Remainders == {l \in [Side -> SUBSET Rows] : \A s \in Side : l[s] \subseteq Row(s)}

PermutationsTypeOK ==
    /\ size \in [Side -> Nat]
    /\ groups \in Seq(Group)
    /\ run \in {"running", "completed", "deleted"}
    /\ at \in [Execution -> {"waiting", "packing", "filling", "stored", "sent", "done", "failed"}]
    /\ order \in [Execution -> Shuffles \cup {<< >>}]
    /\ packed \in [Execution -> 0 .. Len(groups)]
    /\ perm \in [Execution -> Placements]
    /\ mask \in [Execution -> SUBSET Index]
    /\ left \in [Execution -> Remainders]
    /\ stored \subseteq Execution
    /\ reading \subseteq Reader
    /\ answers \in [Reader -> SUBSET Execution]

(* As many values remain as rows without an index, whatever the two sizes: *)
(* pop() never meets an empty list, and no value is left over.             *)
UnmatchedRowsFit ==
    \A e \in Execution : at[e] = "filling" =>
        \A s \in Side : Cardinality(left[e][s]) = Cardinality(Unmapped(e, s))

(* What the results are for: a row of a and a row of b meet at a position  *)
(* that the mask includes exactly if they are a group.                     *)
LineUp(x, y, m) ==
    \A i \in Row("a"), j \in Row("b") :
        (perm[x]["a"][i] = perm[y]["b"][j] /\ perm[x]["a"][i] \in mask[m])
            <=> \E k \in DOMAIN groups : groups[k]["a"] = i /\ groups[k]["b"] = j

(* What an execution stored, and what was answered from it, are            *)
(* permutations of all the rows of each data set, which line up with each  *)
(* other and its mask; answers remain so after the run is deleted.         *)
Permutation(e, s) ==
    /\ perm[e][s] \in [Row(s) -> Row(s)]
    /\ \A i, j \in Row(s) : perm[e][s][i] = perm[e][s][j] => i = j

StoredLineUp ==
    \A e \in stored \cup UNION {answers[t] : t \in Reader} :
        LineUp(e, e, e) /\ \A s \in Side : Permutation(e, s)

(* Whoever finds the run completed finds rows, as long as the run exists:  *)
(* the completion overtakes no commit.                                     *)
CompletedIsStored == run = "completed" => stored # {}
===============================================================================
