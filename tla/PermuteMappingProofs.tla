------------------------- MODULE PermuteMappingProofs -------------------------
(***************************************************************************)
(* Theorems about PermuteMapping, for data sets of any sizes, any groups   *)
(* and any number of executions.                                           *)
(***************************************************************************)
EXTENDS PermuteMapping, FiniteSetTheorems, FunctionTheorems, TLAPS

(* The inductive invariant.  Rows of the first groups share the first of   *)
(* the shuffled indices, and the mask has these.                           *)
GroupsFit ==
    /\ Len(groups) \in 0 .. Smaller
    /\ groups \in [1 .. Len(groups) -> Group]
    /\ Disjoint(groups)

Placed(e, n) ==
    /\ order[e] \in Shuffles
    /\ \A s \in Side : \A k \in 1 .. n :
          groups[k][s] \in DOMAIN perm[e][s] /\ perm[e][s][groups[k][s]] = order[e][k]
    /\ mask[e] = {order[e][k] : k \in 1 .. n}
PlacedOnly(e, n) == \A s \in Side : DOMAIN perm[e][s] = {groups[k][s] : k \in 1 .. n}

(* No two rows of a data set share a position.                             *)
OneToOne(e) ==
    \A s \in Side :
        /\ DOMAIN perm[e][s] \subseteq Row(s)
        /\ \A i \in DOMAIN perm[e][s] : perm[e][s][i] \in Row(s)
        /\ \A i, j \in DOMAIN perm[e][s] : perm[e][s][i] = perm[e][s][j] => i = j

(* The remaining values are positions nobody has, as many as are needed.   *)
Spare(e, s) ==
    /\ left[e][s] \subseteq Row(s)
    /\ \A i \in DOMAIN perm[e][s] : perm[e][s][i] \notin left[e][s]
    /\ Cardinality(left[e][s]) = Cardinality(Unmapped(e, s))

InPlace(e) ==
    /\ at[e] = "waiting" =>
          packed[e] = 0 /\ mask[e] = {} /\ \A s \in Side : perm[e][s] = << >>
    /\ at[e] = "packing" => Placed(e, packed[e]) /\ PlacedOnly(e, packed[e])
    /\ at[e] = "filling" =>
          Placed(e, Len(groups)) /\ OneToOne(e) /\ \A s \in Side : Spare(e, s)

Whole(e) == Placed(e, Len(groups)) /\ OneToOne(e) /\ \A s \in Side : Unmapped(e, s) = {}

(* What was stored or answered is whole and not worked on any more; an     *)
(* execution that will complete the run has stored its rows.               *)
Kept ==
    /\ \A e \in stored \cup UNION {answers[t] : t \in Reader} :
          at[e] \in {"stored", "sent", "done", "failed"} /\ Whole(e)
    /\ \A e \in Execution : at[e] \in {"stored", "sent"} /\ run # "deleted" => e \in stored
    /\ CompletedIsStored

MappingInvariant ==
    PermutationsTypeOK /\ GroupsFit /\ (\A e \in Execution : InPlace(e)) /\ Kept

-------------------------------------------------------------------------------
(* Sizes and shuffles.                                                     *)

(* The smaller size is a natural number and at most either size.           *)
LEMMA SmallerSize ==
  ASSUME size \in [Side -> Nat]
  PROVE  Smaller \in Nat /\ \A s \in Side : size[s] \in Nat /\ Smaller <= size[s]
BY DEF Smaller, Side

(* The values of a function on an interval.                                *)
Values(f, m, n) == {f[k] : k \in m .. n}

(* There are as many as the interval has elements, if no value is taken    *)
(* twice.                                                                  *)
LEMMA ValueCount ==
  ASSUME NEW m \in Int, NEW n \in Int, m <= n + 1, NEW f,
         \A i, j \in m .. n : f[i] = f[j] => i = j
  PROVE  IsFiniteSet(Values(f, m, n)) /\ Cardinality(Values(f, m, n)) = n - m + 1
<1> DEFINE g == [k \in m .. n |-> f[k]]
<1>1. g \in Bijection(m .. n, Values(f, m, n))
  BY DEF Bijection, Injection, Surjection, IsInjective, Values
<1>2. ExistsBijection(m .. n, Values(f, m, n))
  BY <1>1 DEF ExistsBijection
<1>3. IsFiniteSet(m .. n) /\ Cardinality(m .. n) = IF m > n THEN 0 ELSE n - m + 1
  BY FS_Interval
<1>4. IsFiniteSet(Values(f, m, n)) /\ Cardinality(Values(f, m, n)) = Cardinality(m .. n)
  BY <1>2, <1>3, FS_Bijection
<1> QED
  BY <1>3, <1>4

(* An interval of numbers has this many.                                   *)
LEMMA IntervalCount ==
  ASSUME NEW m \in Int, NEW n \in Int, m <= n
  PROVE  IsFiniteSet(m .. n - 1) /\ Cardinality(m .. n - 1) = n - m
<1>1. n - 1 \in Int
  OBVIOUS
<1>2. IsFiniteSet(m .. n - 1) /\ Cardinality(m .. n - 1) = IF m > n - 1 THEN 0 ELSE n - 1 - m + 1
  BY <1>1, FS_Interval
<1> QED
  BY <1>2

(* The rows of two groups on one side differ.                              *)
LEMMA GroupRows ==
  ASSUME GroupsFit, NEW s \in Side
  PROVE  /\ \A k \in 1 .. Len(groups) : groups[k][s] \in Row(s)
         /\ \A k, l \in 1 .. Len(groups) : groups[k][s] = groups[l][s] => k = l
BY DEF GroupsFit, Group, Disjoint

(* Shuffled indices are positions, and no two are the same.                *)
LEMMA Shuffled ==
  ASSUME NEW o \in Shuffles, size \in [Side -> Nat]
  PROVE  /\ \A k \in 1 .. Smaller : o[k] \in Index
         /\ \A k, l \in 1 .. Smaller : o[k] = o[l] => k = l
         /\ \A s \in Side : Index \subseteq Row(s)
BY SmallerSize DEF Shuffles, Index, Row

-------------------------------------------------------------------------------
(* What an execution keeps to itself only its own steps change.            *)

Untouched(e) ==
    /\ at'[e] = at[e] /\ order'[e] = order[e] /\ packed'[e] = packed[e]
    /\ perm'[e] = perm[e] /\ mask'[e] = mask[e] /\ left'[e] = left[e]

(* The parts of the invariant keep their truth for it.                     *)
LEMMA UntouchedParts ==
  ASSUME NEW e \in Execution, UNCHANGED given,
         order'[e] = order[e], perm'[e] = perm[e], mask'[e] = mask[e]
  PROVE  /\ \A n \in Nat : Placed(e, n) => Placed(e, n)'
         /\ \A n \in Nat : PlacedOnly(e, n) => PlacedOnly(e, n)'
         /\ OneToOne(e) => OneToOne(e)'
         /\ \A s \in Side : Unmapped(e, s)' = Unmapped(e, s)
<1>1. size' = size /\ groups' = groups
  BY DEF given
<1>2. Shuffles' = Shuffles /\ Len(groups)' = Len(groups)
  BY <1>1 DEF Shuffles, Index, Smaller
<1>3. \A s \in Side : Row(s)' = Row(s)
  BY <1>1 DEF Row
<1>4. \A n \in Nat : Placed(e, n) => Placed(e, n)'
  BY <1>1, <1>2 DEF Placed
<1>5. \A n \in Nat : PlacedOnly(e, n) => PlacedOnly(e, n)'
  BY <1>1 DEF PlacedOnly
<1>6. OneToOne(e) => OneToOne(e)'
  BY <1>3 DEF OneToOne
<1>7. \A s \in Side : Unmapped(e, s)' = Unmapped(e, s)
  BY <1>3 DEF Unmapped
<1> QED
  BY <1>4, <1>5, <1>6, <1>7

(* An execution that no step touched is where it was.                      *)
LEMMA UntouchedInPlace ==
  ASSUME NEW e \in Execution, PermutationsTypeOK, UNCHANGED given, Untouched(e), InPlace(e)
  PROVE  InPlace(e)'
<1>1. size' = size /\ groups' = groups
  BY DEF given
<1>2. Len(groups) \in Nat /\ packed[e] \in Nat /\ Len(groups)' = Len(groups)
  BY <1>1 DEF PermutationsTypeOK
<1>3. at'[e] = at[e] /\ packed'[e] = packed[e] /\ left'[e] = left[e]
      /\ order'[e] = order[e] /\ perm'[e] = perm[e] /\ mask'[e] = mask[e]
  BY DEF Untouched
<1>4. \A s \in Side : Spare(e, s) => Spare(e, s)'
  BY <1>1, <1>3, UntouchedParts DEF Spare, Row
<1> QED
  BY <1>2, <1>3, <1>4, UntouchedParts DEF InPlace

(* What it made is whole if it was.                                        *)
LEMMA UntouchedWhole ==
  ASSUME NEW e \in Execution, PermutationsTypeOK, UNCHANGED given, Whole(e),
         order'[e] = order[e], perm'[e] = perm[e], mask'[e] = mask[e]
  PROVE  Whole(e)'
<1>1. Len(groups) \in Nat /\ Len(groups)' = Len(groups)
  BY DEF PermutationsTypeOK, given
<1> QED
  BY <1>1, UntouchedParts DEF Whole

(* Sizes and groups never change.                                          *)
LEMMA GivenFit ==
  ASSUME GroupsFit, UNCHANGED given
  PROVE  GroupsFit'
<1>1. size' = size /\ groups' = groups
  BY DEF given
<1>2. Smaller' = Smaller /\ Group' = Group
  BY <1>1 DEF Smaller, Group, Rows, Row
<1> QED
  BY <1>1, <1>2 DEF GroupsFit, Disjoint

Only(x) == UNCHANGED given /\ \A e \in Execution \ {x} : Untouched(e)
Working(step) == step \in {"waiting", "packing", "filling", "failed"}

(* Of a step of one execution, what remains to show is about that one.     *)
LEMMA OnlyInPlace ==
  ASSUME NEW x \in Execution, MappingInvariant, Only(x), InPlace(x)'
  PROVE  \A e \in Execution : InPlace(e)'
BY UntouchedInPlace DEF MappingInvariant, Only

(* As long as it works, its work is not kept.                              *)
LEMMA WorkingKept ==
  ASSUME NEW x \in Execution, MappingInvariant, Only(x), UNCHANGED <<run, stored, answers>>,
         at[x] \in {"waiting", "packing", "filling"}, Working(at'[x])
  PROVE  Kept'
<1>1. \A e \in stored \cup UNION {answers[t] : t \in Reader} :
         e \in Execution /\ e # x /\ Untouched(e) /\ Whole(e)'
  <2> TAKE e \in stored \cup UNION {answers[t] : t \in Reader}
  <2>1. e \in Execution /\ Whole(e) /\ at[e] \in {"stored", "sent", "done", "failed"}
    BY DEF MappingInvariant, PermutationsTypeOK, Kept
  <2>2. e # x
    BY <2>1
  <2>3. Untouched(e)
    BY <2>1, <2>2 DEF Only
  <2> QED
    BY <2>1, <2>2, <2>3, UntouchedWhole DEF Untouched, Only, MappingInvariant
<1>2. \A e \in stored \cup UNION {answers[t] : t \in Reader} :
         at'[e] \in {"stored", "sent", "done", "failed"}
  BY <1>1 DEF Untouched, MappingInvariant, Kept
<1>3. \A e \in Execution : at'[e] \in {"stored", "sent"} /\ run # "deleted" => e \in stored
  <2> TAKE e \in Execution
  <2>1. CASE e = x
    BY <2>1 DEF Working
  <2>2. CASE e # x
    BY <2>2 DEF Only, Untouched, MappingInvariant, Kept
  <2> QED
    BY <2>1, <2>2
<1> QED
  BY <1>1, <1>2, <1>3 DEF Kept, CompletedIsStored, MappingInvariant

-------------------------------------------------------------------------------
(* The steps of an execution.                                              *)

(* At the beginning nothing is placed, mapped or kept.                     *)
LEMMA InitHolds == Init => MappingInvariant
<1> SUFFICES ASSUME Init PROVE MappingInvariant
  OBVIOUS
<1>1. size \in [Side -> Nat]
  BY PermutationsAssumption DEF Init, PermutationsAssumption
<1>2. PICK n \in 0 .. Smaller : groups \in [1 .. n -> Group] /\ Disjoint(groups)
  BY DEF Init
<1>3. n \in Nat /\ Len(groups) = n /\ groups \in Seq(Group)
  BY <1>1, <1>2, SmallerSize
<1>4. GroupsFit
  BY <1>2, <1>3 DEF GroupsFit
<1>5. [s \in Side |-> << >>] \in Placements /\ [s \in Side |-> {}] \in Remainders
  <2>1. << >> \in [{} -> Rows] /\ DOMAIN << >> = {}
    OBVIOUS
  <2>2. << >> \in UNION {[D -> Rows] : D \in SUBSET Rows}
    BY <2>1
  <2>3. [s \in Side |-> << >>] \in [Side -> UNION {[D -> Rows] : D \in SUBSET Rows}]
    BY <2>2
  <2> QED
    BY <2>1, <2>3 DEF Placements, Remainders
<1>6. PermutationsTypeOK
  <2>1. perm \in [Execution -> Placements]
    BY <1>5 DEF Init
  <2>2. /\ order \in [Execution -> Shuffles \cup {<< >>}]
        /\ packed \in [Execution -> 0 .. Len(groups)]
        /\ mask \in [Execution -> SUBSET Index]
        /\ left \in [Execution -> Remainders]
    BY <1>3, <1>5 DEF Init
  <2>3. /\ run \in {"running", "completed", "deleted"}
        /\ at \in [Execution -> {"waiting", "packing", "filling", "stored", "sent", "done", "failed"}]
        /\ stored \subseteq Execution /\ reading \subseteq Reader
        /\ answers \in [Reader -> SUBSET Execution]
    BY DEF Init
  <2> QED
    BY <1>1, <1>3, <2>1, <2>2, <2>3 DEF PermutationsTypeOK
<1>7. \A e \in Execution : InPlace(e)
  BY DEF Init, InPlace
<1>8. Kept
  BY DEF Init, Kept, CompletedIsStored
<1> QED
  BY <1>4, <1>6, <1>7, <1>8 DEF MappingInvariant

(* The sets of the types depend on what never changes.                     *)
LEMMA TypesKept ==
  ASSUME PermutationsTypeOK, UNCHANGED given,
         run' \in {"running", "completed", "deleted"},
         at' \in [Execution -> {"waiting", "packing", "filling", "stored", "sent", "done", "failed"}],
         order' \in [Execution -> Shuffles \cup {<< >>}],
         packed' \in [Execution -> 0 .. Len(groups)],
         perm' \in [Execution -> Placements],
         mask' \in [Execution -> SUBSET Index],
         left' \in [Execution -> Remainders],
         stored' \subseteq Execution, reading' \subseteq Reader,
         answers' \in [Reader -> SUBSET Execution]
  PROVE  PermutationsTypeOK'
<1>1. size' = size /\ groups' = groups
  BY DEF given
<1>2. /\ Group' = Group /\ Rows' = Rows /\ Index' = Index /\ Shuffles' = Shuffles
      /\ Placements' = Placements /\ Remainders' = Remainders
      /\ Len(groups)' = Len(groups)
  BY <1>1 DEF Group, Rows, Row, Index, Shuffles, Smaller, Placements, Remainders
<1> QED
  BY <1>1, <1>2 DEF PermutationsTypeOK

(* An update of a function at i.                                           *)
LEMMA PutProperties ==
  ASSUME NEW f, NEW i, NEW v
  PROVE  /\ DOMAIN Put(f, i, v) = DOMAIN f \cup {i}
         /\ Put(f, i, v)[i] = v
         /\ \A j \in DOMAIN f : j # i => Put(f, i, v)[j] = f[j]
BY DEF Put

(* It remains a partial function between the same sets.                    *)
LEMMA PutType ==
  ASSUME NEW S, NEW R \in SUBSET S, NEW f \in UNION {[D -> S] : D \in SUBSET S},
         \A j \in DOMAIN f : j \in R /\ f[j] \in R, NEW i \in R, NEW v \in R
  PROVE  /\ Put(f, i, v) \in UNION {[D -> S] : D \in SUBSET S}
         /\ \A j \in DOMAIN Put(f, i, v) : j \in R /\ Put(f, i, v)[j] \in R
<1>1. PICK D \in SUBSET S : f \in [D -> S]
  OBVIOUS
<1>2. Put(f, i, v) \in [D \cup {i} -> S]
  BY <1>1 DEF Put
<1>3. D \cup {i} \in SUBSET S
  OBVIOUS
<1>4. \A j \in DOMAIN Put(f, i, v) : j \in R /\ Put(f, i, v)[j] \in R
  BY DEF Put
<1> QED
  BY <1>2, <1>3, <1>4

(* A row of the side placed at a position of the side.                     *)
LEMMA PlacementPut ==
  ASSUME NEW p \in Placements, NEW s \in Side, NEW i \in Row(s), NEW v \in Row(s)
  PROVE  /\ Put(p[s], i, v) \in UNION {[D -> Rows] : D \in SUBSET Rows}
         /\ \A j \in DOMAIN Put(p[s], i, v) : j \in Row(s) /\ Put(p[s], i, v)[j] \in Row(s)
<1>1. /\ p[s] \in UNION {[D -> Rows] : D \in SUBSET Rows}
      /\ \A j \in DOMAIN p[s] : j \in Row(s) /\ p[s][j] \in Row(s)
  BY DEF Placements
<1>2. Row(s) \in SUBSET Rows
  BY DEF Rows, Side
<1> QED
  BY <1>1, <1>2, PutType

(* It begins with a shuffle and without groups, or not at all.             *)
LEMMA BeginKeeps ==
  ASSUME NEW x \in Execution, MappingInvariant, Begin(x)
  PROVE  MappingInvariant'
<1>1. /\ at[x] = "waiting" /\ PermutationsTypeOK /\ GroupsFit /\ InPlace(x)
      /\ UNCHANGED <<given, run, packed, perm, mask, left, stored, reading, answers>>
  BY DEF Begin, MappingInvariant, served
<1> SUFFICES PermutationsTypeOK' /\ Only(x) /\ InPlace(x)' /\ Working(at'[x])
  BY <1>1, GivenFit, OnlyInPlace, WorkingKept DEF MappingInvariant
<1>2. CASE run # "deleted"
  <2>1. PICK o \in Shuffles : order' = [order EXCEPT ![x] = o]
    BY <1>2 DEF Begin
  <2>2. at' = [at EXCEPT ![x] = "packing"]
    BY <1>2 DEF Begin, Goto
  <2>3. PermutationsTypeOK'
    <3>1. order' \in [Execution -> Shuffles \cup {<< >>}]
      BY <1>1, <2>1 DEF PermutationsTypeOK
    <3>2. at' \in [Execution -> {"waiting", "packing", "filling", "stored", "sent", "done", "failed"}]
      BY <1>1, <2>2 DEF PermutationsTypeOK
    <3> QED
      BY <1>1, <3>1, <3>2, TypesKept DEF PermutationsTypeOK
  <2>4. Only(x)
    BY <1>1, <2>1, <2>2 DEF Only, Untouched, PermutationsTypeOK
  <2>5. at'[x] = "packing" /\ order'[x] = o
    BY <1>1, <2>1, <2>2 DEF PermutationsTypeOK
  <2>6. packed'[x] = 0 /\ mask'[x] = {} /\ \A s \in Side : perm'[x][s] = << >>
    BY <1>1 DEF InPlace
  <2>7. Shuffles' = Shuffles
    BY <1>1 DEF given, Shuffles, Index, Smaller
  <2>8. Placed(x, 0)'
    BY <2>5, <2>6, <2>7 DEF Placed
  <2>9. PlacedOnly(x, 0)'
    BY <2>6 DEF PlacedOnly
  <2> QED
    BY <2>3, <2>4, <2>5, <2>6, <2>8, <2>9 DEF InPlace, Working
<1>3. CASE run = "deleted"
  <2>1. at' = [at EXCEPT ![x] = "failed"] /\ order' = order
    BY <1>3 DEF Begin, Goto
  <2>2. at' \in [Execution -> {"waiting", "packing", "filling", "stored", "sent", "done", "failed"}]
        /\ at'[x] = "failed"
    BY <1>1, <2>1 DEF PermutationsTypeOK
  <2>3. PermutationsTypeOK'
    BY <1>1, <2>1, <2>2, TypesKept DEF PermutationsTypeOK
  <2>4. Only(x)
    BY <1>1, <2>1 DEF Only, Untouched, PermutationsTypeOK
  <2> QED
    BY <2>2, <2>3, <2>4 DEF InPlace, Working
<1> QED
  BY <1>2, <1>3

(* The next group gets the next index, on both sides and in the mask.      *)
LEMMA PackGroupKeeps ==
  ASSUME NEW x \in Execution, MappingInvariant, PackGroup(x)
  PROVE  MappingInvariant'
<1>1. /\ at[x] = "packing" /\ PermutationsTypeOK /\ GroupsFit /\ InPlace(x)
      /\ packed[x] < Len(groups)
      /\ UNCHANGED <<given, run, at, order, left, stored, reading, answers>>
  BY DEF PackGroup, MappingInvariant, served
<1> PICK k : k = packed[x] + 1
  OBVIOUS
<1> PICK h : h = packed[x]
  OBVIOUS
<1>2. /\ perm' = [perm EXCEPT ![x] =
                    [s \in Side |-> Put(perm[x][s], groups[k][s], order[x][k])]]
      /\ mask' = [mask EXCEPT ![x] = mask[x] \cup {order[x][k]}]
      /\ packed' = [packed EXCEPT ![x] = k]
  BY DEF PackGroup
<1> SUFFICES PermutationsTypeOK' /\ Only(x) /\ InPlace(x)' /\ Working(at'[x])
  BY <1>1, GivenFit, OnlyInPlace, WorkingKept DEF MappingInvariant
<1>3. size \in [Side -> Nat] /\ Smaller \in Nat /\ Len(groups) \in 0 .. Smaller
  BY <1>1, SmallerSize DEF PermutationsTypeOK, GroupsFit
<1>4. h \in 0 .. Len(groups) /\ k = h + 1 /\ k \in 1 .. Len(groups) /\ k \in 1 .. Smaller
  BY <1>1, <1>3 DEF PermutationsTypeOK
<1>5. /\ order[x] \in Shuffles
      /\ Placed(x, h) /\ PlacedOnly(x, h)
  BY <1>1 DEF InPlace, Placed
<1>6. order[x][k] \in Index /\ \A s \in Side : groups[k][s] \in Row(s)
  BY <1>1, <1>3, <1>4, <1>5, Shuffled, GroupRows
<1>7. \A s \in Side : Index \subseteq Row(s)
  BY <1>3, <1>5, Shuffled
<1>8. PermutationsTypeOK'
  <2> DEFINE p == [s \in Side |-> Put(perm[x][s], groups[k][s], order[x][k])]
  <2>1. p \in Placements
    <3>1. perm[x] \in Placements
      BY <1>1 DEF PermutationsTypeOK
    <3>2. \A s \in Side : groups[k][s] \in Row(s) /\ order[x][k] \in Row(s)
      BY <1>6, <1>7
    <3>3. \A s \in Side :
             /\ p[s] \in UNION {[D -> Rows] : D \in SUBSET Rows}
             /\ \A j \in DOMAIN p[s] : j \in Row(s) /\ p[s][j] \in Row(s)
      BY <3>1, <3>2, PlacementPut
    <3>4. p = [s \in Side |-> p[s]]
      OBVIOUS
    <3> HIDE DEF p
    <3> QED
      BY <3>3, <3>4 DEF Placements
  <2>2. perm' \in [Execution -> Placements]
    <3>1. perm' = [perm EXCEPT ![x] = p]
      BY <1>2
    <3> HIDE DEF p
    <3> QED
      BY <1>1, <2>1, <3>1 DEF PermutationsTypeOK
  <2>3. mask' \in [Execution -> SUBSET Index] /\ packed' \in [Execution -> 0 .. Len(groups)]
    BY <1>1, <1>2, <1>4, <1>6 DEF PermutationsTypeOK
  <2> QED
    BY <1>1, <2>2, <2>3, TypesKept DEF PermutationsTypeOK
<1>9. Only(x)
  BY <1>1, <1>2 DEF Only, Untouched, PermutationsTypeOK
<1>10. /\ packed'[x] = k /\ mask'[x] = mask[x] \cup {order[x][k]} /\ order'[x] = order[x]
       /\ \A s \in Side : perm'[x][s] = Put(perm[x][s], groups[k][s], order[x][k])
  BY <1>1, <1>2 DEF PermutationsTypeOK
<1>11. groups' = groups /\ Shuffles' = Shuffles
  BY <1>1 DEF given, Shuffles, Index, Smaller
<1>12. 1 .. k = 1 .. h \cup {k} /\ k \notin 1 .. h /\ 1 .. k \subseteq 1 .. Len(groups)
  BY <1>3, <1>4
<1>13. ASSUME NEW s \in Side
       PROVE  /\ DOMAIN perm'[x][s] = DOMAIN perm[x][s] \cup {groups[k][s]}
              /\ perm'[x][s][groups[k][s]] = order[x][k]
              /\ \A j \in DOMAIN perm[x][s] : j # groups[k][s] => perm'[x][s][j] = perm[x][s][j]
  BY <1>10 DEF Put
<1>14. ASSUME NEW s \in Side, NEW l \in 1 .. k
       PROVE  /\ groups[l][s] \in DOMAIN perm'[x][s]
              /\ perm'[x][s][groups[l][s]] = order[x][l]
  <2>1. CASE l = k
    BY <2>1, <1>13
  <2>2. CASE l \in 1 .. h
    <3>1. groups[l][s] # groups[k][s]
      BY <1>1, <1>4, <1>12, <2>2, GroupRows
    <3>2. groups[l][s] \in DOMAIN perm[x][s] /\ perm[x][s][groups[l][s]] = order[x][l]
      BY <1>5, <2>2 DEF Placed
    <3> QED
      BY <1>13, <3>1, <3>2
  <2> QED
    BY <1>12, <2>1, <2>2
<1>15. mask'[x] = {order[x][l] : l \in 1 .. k}
  BY <1>5, <1>10, <1>12 DEF Placed
<1>16. \A s \in Side : DOMAIN perm'[x][s] = {groups[l][s] : l \in 1 .. k}
  BY <1>5, <1>12, <1>13 DEF PlacedOnly
<1>17. Placed(x, k)' /\ PlacedOnly(x, k)'
  BY <1>5, <1>10, <1>11, <1>14, <1>15, <1>16 DEF Placed, PlacedOnly
<1> QED
  BY <1>1, <1>8, <1>9, <1>10, <1>17 DEF InPlace, Working

(* After the last group, as many positions are left as rows without one.   *)
LEMMA RemainingCount ==
  ASSUME NEW e \in Execution, NEW s \in Side, PermutationsTypeOK, GroupsFit,
         Placed(e, Len(groups)), PlacedOnly(e, Len(groups))
  PROVE  /\ Remaining(e, s) \subseteq Row(s)
         /\ \A i \in DOMAIN perm[e][s] : perm[e][s][i] \notin Remaining(e, s)
         /\ Cardinality(Remaining(e, s)) = Cardinality(Unmapped(e, s))
<1> PICK n : n = Len(groups)
  OBVIOUS
<1> PICK o : o = order[e]
  OBVIOUS
<1> PICK m : m = Smaller
  OBVIOUS
<1> PICK c : c = size[s]
  OBVIOUS
<1> PICK g : g = [k \in 1 .. n |-> groups[k][s]]
  OBVIOUS
<1> DEFINE Late   == Values(o, n + 1, m)
           Beyond == m .. c - 1
<1>1. /\ m \in Nat /\ c \in Nat /\ m <= c /\ n \in 0 .. m
      /\ o \in Shuffles /\ size \in [Side -> Nat]
  BY SmallerSize DEF PermutationsTypeOK, GroupsFit, Placed
<1>2. /\ \A k \in 1 .. m : o[k] \in Index
      /\ \A k, l \in 1 .. m : o[k] = o[l] => k = l
      /\ Index \subseteq Row(s)
  BY <1>1, Shuffled
<1>3. Remaining(e, s) = Beyond \cup Late
  BY DEF Remaining, Values
<1>4. \A k \in n + 1 .. m : k \in 1 .. m
  BY <1>1
<1>5. Late \subseteq Index /\ Beyond \subseteq Row(s) /\ Beyond \cap Index = {}
  BY <1>1, <1>2, <1>4 DEF Row, Index, Values
<1>6. \A i \in DOMAIN perm[e][s] : perm[e][s][i] \notin Remaining(e, s)
  <2> TAKE i \in DOMAIN perm[e][s]
  <2>1. PICK k \in 1 .. n : i = groups[k][s]
    BY DEF PlacedOnly
  <2>2. perm[e][s][i] = o[k] /\ k \in 1 .. m
    BY <1>1, <2>1 DEF Placed
  <2>3. o[k] \notin Beyond
    BY <1>2, <1>5, <2>2
  <2>4. o[k] \notin Late
    <3> SUFFICES ASSUME NEW l \in n + 1 .. m, o[k] = o[l] PROVE FALSE
      BY DEF Values
    <3>1. k = l
      BY <1>2, <1>4, <2>2
    <3> QED
      BY <1>1, <2>1, <3>1
  <2> QED
    BY <1>3, <2>2, <2>3, <2>4
<1>7. IsFiniteSet(Late) /\ Cardinality(Late) = m - n
  <2>1. n + 1 \in Int /\ m \in Int /\ n + 1 <= m + 1
    BY <1>1
  <2>2. \A k, l \in n + 1 .. m : o[k] = o[l] => k = l
    BY <1>2, <1>4
  <2>3. IsFiniteSet(Late) /\ Cardinality(Late) = m - (n + 1) + 1
    BY <2>1, <2>2, ValueCount
  <2> QED
    BY <1>1, <2>3
<1>8. IsFiniteSet(Beyond) /\ Cardinality(Beyond) = c - m
  <2>1. m \in Int /\ c \in Int /\ m <= c
    BY <1>1
  <2> QED
    BY <2>1, IntervalCount, Zenon
<1>9. Cardinality(Remaining(e, s)) = c - n
  <2>1. Beyond \cap Late = {}
    BY <1>5
  <2>2. Cardinality(Beyond \cap Late) = 0
    BY <2>1, FS_EmptySet
  <2>3. Cardinality(Beyond \cup Late)
           = Cardinality(Beyond) + Cardinality(Late) - Cardinality(Beyond \cap Late)
    <3> HIDE DEF Beyond, Late
    <3> QED
      BY <1>7, <1>8, FS_Union
  <2> QED
    BY <1>1, <1>3, <1>7, <1>8, <2>2, <2>3
<1>10. IsFiniteSet(Row(s)) /\ Cardinality(Row(s)) = c
  <2>1. IsFiniteSet(0 .. c - 1) /\ Cardinality(0 .. c - 1) = c - 0
    <3>1. 0 \in Int /\ c \in Int /\ 0 <= c
      BY <1>1
    <3> QED
      BY <3>1, IntervalCount, Zenon
  <2> QED
    BY <1>1, <2>1 DEF Row
<1>11. Values(g, 1, n) \subseteq Row(s) /\ Cardinality(Values(g, 1, n)) = n
  <2>1. /\ \A k \in 1 .. n : g[k] \in Row(s)
        /\ \A k, l \in 1 .. n : g[k] = g[l] => k = l
    BY GroupRows
  <2>2. 1 \in Int /\ n \in Int /\ 1 <= n + 1
    BY <1>1
  <2>3. Cardinality(Values(g, 1, n)) = n - 1 + 1
    BY <2>1, <2>2, ValueCount
  <2>4. n - 1 + 1 = n
    BY <1>1
  <2>5. Values(g, 1, n) \subseteq Row(s)
    BY <2>1 DEF Values
  <2> QED
    BY <2>3, <2>4, <2>5
<1>12. Unmapped(e, s) = Row(s) \ Values(g, 1, n)
  BY DEF Unmapped, PlacedOnly, Values
<1>13. Cardinality(Unmapped(e, s)) = c - n
  <2>1. Row(s) \cap Values(g, 1, n) = Values(g, 1, n)
    BY <1>11
  <2>2. Cardinality(Row(s) \ Values(g, 1, n))
           = Cardinality(Row(s)) - Cardinality(Row(s) \cap Values(g, 1, n))
    BY <1>10, FS_Difference
  <2> QED
    BY <1>1, <1>10, <1>11, <1>12, <2>1, <2>2
<1> QED
  BY <1>2, <1>3, <1>5, <1>6, <1>9, <1>13

(* The rows of the groups are mapped one to one.                           *)
LEMMA PlacedOneToOne ==
  ASSUME NEW e \in Execution, PermutationsTypeOK, GroupsFit,
         Placed(e, Len(groups)), PlacedOnly(e, Len(groups))
  PROVE  OneToOne(e)
<1>1. /\ size \in [Side -> Nat] /\ Smaller \in Nat /\ Len(groups) \in 0 .. Smaller
      /\ order[e] \in Shuffles
  BY SmallerSize DEF PermutationsTypeOK, GroupsFit, Placed
<1> SUFFICES ASSUME NEW s \in Side
             PROVE  /\ DOMAIN perm[e][s] \subseteq Row(s)
                    /\ \A i \in DOMAIN perm[e][s] : perm[e][s][i] \in Row(s)
                    /\ \A i, j \in DOMAIN perm[e][s] : perm[e][s][i] = perm[e][s][j] => i = j
  BY DEF OneToOne
<1>2. \A k \in 1 .. Len(groups) : k \in 1 .. Smaller
  BY <1>1
<1>3. \A i \in DOMAIN perm[e][s] : \E k \in 1 .. Len(groups) :
         i = groups[k][s] /\ perm[e][s][i] = order[e][k]
  BY DEF Placed, PlacedOnly
<1>4. /\ \A k \in 1 .. Smaller : order[e][k] \in Row(s)
      /\ \A k, l \in 1 .. Smaller : order[e][k] = order[e][l] => k = l
  BY <1>1, Shuffled
<1> QED
  BY <1>2, <1>3, <1>4, GroupRows

(* The remaining values are chosen.                                        *)
LEMMA EndPackingKeeps ==
  ASSUME NEW x \in Execution, MappingInvariant, EndPacking(x)
  PROVE  MappingInvariant'
<1>1. /\ at[x] = "packing" /\ PermutationsTypeOK /\ GroupsFit /\ InPlace(x)
      /\ packed[x] = Len(groups)
      /\ UNCHANGED <<given, run, order, packed, perm, mask, stored, reading, answers>>
  BY DEF EndPacking, MappingInvariant, served
<1>2. /\ at' = [at EXCEPT ![x] = "filling"]
      /\ left' = [left EXCEPT ![x] = [s \in Side |-> Remaining(x, s)]]
  BY DEF EndPacking, Goto
<1> SUFFICES PermutationsTypeOK' /\ Only(x) /\ InPlace(x)' /\ Working(at'[x])
  BY <1>1, GivenFit, OnlyInPlace, WorkingKept DEF MappingInvariant
<1>3. Placed(x, Len(groups)) /\ PlacedOnly(x, Len(groups))
  BY <1>1 DEF InPlace
<1>4. [s \in Side |-> Remaining(x, s)] \in Remainders
  <2>1. \A s \in Side : Remaining(x, s) \subseteq Row(s) /\ Row(s) \subseteq Rows
    BY <1>1, <1>3, RemainingCount DEF Rows, Side
  <2> QED
    BY <2>1 DEF Remainders
<1>5. PermutationsTypeOK'
  <2>1. left' \in [Execution -> Remainders]
    BY <1>1, <1>2, <1>4 DEF PermutationsTypeOK
  <2>2. at' \in [Execution -> {"waiting", "packing", "filling", "stored", "sent", "done", "failed"}]
    BY <1>1, <1>2 DEF PermutationsTypeOK
  <2> QED
    BY <1>1, <2>1, <2>2, TypesKept DEF PermutationsTypeOK
<1>6. Only(x)
  BY <1>1, <1>2 DEF Only, Untouched, PermutationsTypeOK
<1>7. at'[x] = "filling" /\ \A s \in Side : left'[x][s] = Remaining(x, s)
  BY <1>1, <1>2 DEF PermutationsTypeOK
<1>8. Len(groups) \in Nat /\ Len(groups)' = Len(groups) /\ \A s \in Side : Row(s)' = Row(s)
  BY <1>1 DEF PermutationsTypeOK, given, Row
<1>9. Placed(x, Len(groups))' /\ OneToOne(x)' /\ \A s \in Side : Unmapped(x, s)' = Unmapped(x, s)
  BY <1>1, <1>3, <1>8, PlacedOneToOne, UntouchedParts
<1>10. \A s \in Side : Spare(x, s)'
  BY <1>1, <1>3, <1>7, <1>8, <1>9, RemainingCount DEF Spare
<1> QED
  BY <1>5, <1>6, <1>7, <1>9, <1>10 DEF InPlace, Working

(* A row without a position gets one that is left.                         *)
LEMMA FillRowKeeps ==
  ASSUME NEW x \in Execution, MappingInvariant, FillRow(x)
  PROVE  MappingInvariant'
<1>1. /\ at[x] = "filling" /\ PermutationsTypeOK /\ GroupsFit /\ InPlace(x)
      /\ UNCHANGED <<given, run, at, order, packed, mask, stored, reading, answers>>
  BY DEF FillRow, MappingInvariant, served
<1>2. PICK s \in Side : \E i \in Unmapped(x, s), v \in left[x][s] :
         /\ perm' = [perm EXCEPT ![x][s] = Put(perm[x][s], i, v)]
         /\ left' = [left EXCEPT ![x][s] = left[x][s] \ {v}]
  BY DEF FillRow
<1>3. PICK i \in Unmapped(x, s), v \in left[x][s] :
         /\ perm' = [perm EXCEPT ![x][s] = Put(perm[x][s], i, v)]
         /\ left' = [left EXCEPT ![x][s] = left[x][s] \ {v}]
  BY <1>2
<1> SUFFICES PermutationsTypeOK' /\ Only(x) /\ InPlace(x)' /\ Working(at'[x])
  BY <1>1, GivenFit, OnlyInPlace, WorkingKept DEF MappingInvariant
<1>4. Placed(x, Len(groups)) /\ OneToOne(x) /\ \A t \in Side : Spare(x, t)
  BY <1>1 DEF InPlace
<1>5. i \in Row(s) /\ i \notin DOMAIN perm[x][s] /\ v \in Row(s)
  BY <1>4 DEF Unmapped, Spare
<1>6. perm[x] \in Placements /\ left[x] \in Remainders
  BY <1>1 DEF PermutationsTypeOK
<1>7. PermutationsTypeOK'
  <2>1. /\ Put(perm[x][s], i, v) \in UNION {[D -> Rows] : D \in SUBSET Rows}
        /\ \A j \in DOMAIN Put(perm[x][s], i, v) :
               j \in Row(s) /\ Put(perm[x][s], i, v)[j] \in Row(s)
    BY <1>5, <1>6, PlacementPut
  <2>2. [perm[x] EXCEPT ![s] = Put(perm[x][s], i, v)] \in Placements
    BY <1>6, <2>1 DEF Placements
  <2>3. perm' \in [Execution -> Placements]
    BY <1>1, <1>3, <2>2 DEF PermutationsTypeOK
  <2>4. [left[x] EXCEPT ![s] = left[x][s] \ {v}] \in Remainders
    BY <1>6 DEF Remainders
  <2>5. left' \in [Execution -> Remainders]
    BY <1>1, <1>3, <2>4 DEF PermutationsTypeOK
  <2> QED
    BY <1>1, <2>3, <2>5, TypesKept DEF PermutationsTypeOK
<1>8. Only(x)
  BY <1>1, <1>3 DEF Only, Untouched, PermutationsTypeOK
<1>9. /\ perm'[x][s] = Put(perm[x][s], i, v) /\ left'[x][s] = left[x][s] \ {v}
      /\ \A t \in Side \ {s} : perm'[x][t] = perm[x][t] /\ left'[x][t] = left[x][t]
  BY <1>1, <1>3, <1>6 DEF PermutationsTypeOK, Placements, Remainders
<1>10. /\ DOMAIN perm'[x][s] = DOMAIN perm[x][s] \cup {i}
       /\ perm'[x][s][i] = v
       /\ \A j \in DOMAIN perm[x][s] : perm'[x][s][j] = perm[x][s][j]
  BY <1>5, <1>9 DEF Put
<1>11. /\ groups' = groups /\ Len(groups)' = Len(groups) /\ Shuffles' = Shuffles
       /\ \A t \in Side : Row(t)' = Row(t)
  BY <1>1 DEF given, Shuffles, Index, Smaller, Row
<1>12. Placed(x, Len(groups))'
  <2>1. \A t \in Side : \A j \in DOMAIN perm[x][t] :
           j \in DOMAIN perm'[x][t] /\ perm'[x][t][j] = perm[x][t][j]
    BY <1>9, <1>10
  <2>2. \A t \in Side : \A k \in 1 .. Len(groups) :
           groups[k][t] \in DOMAIN perm'[x][t] /\ perm'[x][t][groups[k][t]] = order[x][k]
    BY <1>4, <2>1 DEF Placed
  <2> QED
    BY <1>1, <1>4, <1>11, <2>2 DEF Placed
<1>13. OneToOne(x)'
  <2>1. \A t \in Side :
           /\ DOMAIN perm'[x][t] \subseteq Row(t)
           /\ \A j \in DOMAIN perm'[x][t] : perm'[x][t][j] \in Row(t)
           /\ \A j, k \in DOMAIN perm'[x][t] : perm'[x][t][j] = perm'[x][t][k] => j = k
    <3> TAKE t \in Side
    <3>1. CASE t = s
      <4>1. \A j \in DOMAIN perm[x][s] : perm[x][s][j] # v
        BY <1>4 DEF Spare
      <4> QED
        BY <1>4, <1>5, <1>10, <3>1, <4>1 DEF OneToOne
    <3>2. CASE t # s
      BY <1>4, <1>9, <3>2 DEF OneToOne
    <3> QED
      BY <3>1, <3>2
  <2> QED
    BY <1>11, <2>1 DEF OneToOne
<1>14. \A t \in Side : Spare(x, t)'
  <2> TAKE t \in Side
  <2>1. CASE t # s
    BY <1>4, <1>9, <1>11, <2>1 DEF Spare, Unmapped
  <2>2. CASE t = s
    <3>1. Unmapped(x, s)' = Unmapped(x, s) \ {i}
      BY <1>10, <1>11 DEF Unmapped
    <3>2. IsFiniteSet(Row(s))
      BY <1>1, FS_Interval DEF Row, PermutationsTypeOK
    <3>3. IsFiniteSet(Unmapped(x, s)) /\ IsFiniteSet(left[x][s])
      BY <1>4, <3>2, FS_Subset DEF Unmapped, Spare
    <3>4. Cardinality(Unmapped(x, s) \ {i}) = Cardinality(left[x][s] \ {v})
      <4>1. Cardinality(Unmapped(x, s) \ {i}) = Cardinality(Unmapped(x, s)) - 1
        BY <3>3, FS_RemoveElement
      <4>2. Cardinality(left[x][s] \ {v}) = Cardinality(left[x][s]) - 1
        BY <3>3, FS_RemoveElement
      <4> QED
        BY <1>4, <4>1, <4>2 DEF Spare
    <3>5. \A j \in DOMAIN perm'[x][s] : perm'[x][s][j] \notin left'[x][s]
      BY <1>4, <1>9, <1>10 DEF Spare
    <3>6. left'[x][s] \subseteq Row(s)
      BY <1>4, <1>9 DEF Spare
    <3> QED
      BY <1>9, <1>11, <2>2, <3>1, <3>4, <3>5, <3>6 DEF Spare
  <2> QED
    BY <2>1, <2>2
<1> QED
  BY <1>1, <1>7, <1>8, <1>12, <1>13, <1>14 DEF InPlace, Working

(* Committed rows are whole: every row has a position.                     *)
LEMMA StoreKeeps ==
  ASSUME NEW x \in Execution, MappingInvariant, Store(x)
  PROVE  MappingInvariant'
<1>1. /\ at[x] = "filling" /\ PermutationsTypeOK /\ GroupsFit /\ InPlace(x) /\ Kept
      /\ \A s \in Side : Unmapped(x, s) = {}
      /\ UNCHANGED <<given, run, order, packed, perm, mask, left, reading, answers>>
  BY DEF Store, MappingInvariant, served, local
<1>2. CASE run # "deleted"
  <2>1. at' = [at EXCEPT ![x] = "stored"] /\ stored' = stored \cup {x}
    BY <1>2 DEF Store, Goto
  <2>2. at' \in [Execution -> {"waiting", "packing", "filling", "stored", "sent", "done", "failed"}]
        /\ at'[x] = "stored" /\ stored' \subseteq Execution
    BY <1>1, <2>1 DEF PermutationsTypeOK
  <2>3. PermutationsTypeOK'
    BY <1>1, <2>2, TypesKept DEF PermutationsTypeOK
  <2>4. Only(x)
    BY <1>1, <2>1 DEF Only, Untouched, PermutationsTypeOK
  <2>5. \A e \in Execution : InPlace(e)'
    BY <2>2, <2>4, OnlyInPlace DEF InPlace
  <2>6. Whole(x)
    BY <1>1 DEF InPlace, Whole
  <2>7. \A e \in stored' \cup UNION {answers[t] : t \in Reader} :
           at'[e] \in {"stored", "sent", "done", "failed"} /\ Whole(e)'
    <3> TAKE e \in stored' \cup UNION {answers[t] : t \in Reader}
    <3>1. e \in Execution /\ Whole(e) /\ (e # x => at[e] \in {"stored", "sent", "done", "failed"})
      BY <1>1, <2>1, <2>6 DEF PermutationsTypeOK, Kept
    <3>2. at'[e] \in {"stored", "sent", "done", "failed"}
      BY <2>2, <2>4, <3>1 DEF Only, Untouched
    <3>3. order'[e] = order[e] /\ perm'[e] = perm[e] /\ mask'[e] = mask[e]
      BY <1>1
    <3> QED
      BY <1>1, <3>1, <3>2, <3>3, UntouchedWhole
  <2>8. \A e \in Execution : at'[e] \in {"stored", "sent"} => e \in stored'
    BY <1>1, <1>2, <2>1, <2>4 DEF Only, Untouched, Kept
  <2>9. Kept'
    BY <1>1, <2>1, <2>7, <2>8 DEF Kept, CompletedIsStored
  <2> QED
    BY <1>1, <2>3, <2>5, <2>9, GivenFit DEF MappingInvariant
<1>3. CASE run = "deleted"
  <2>1. at' = [at EXCEPT ![x] = "failed"] /\ stored' = stored
    BY <1>3 DEF Store, Goto
  <2>2. at' \in [Execution -> {"waiting", "packing", "filling", "stored", "sent", "done", "failed"}]
        /\ at'[x] = "failed"
    BY <1>1, <2>1 DEF PermutationsTypeOK
  <2>3. PermutationsTypeOK'
    BY <1>1, <2>1, <2>2, TypesKept DEF PermutationsTypeOK
  <2>4. Only(x)
    BY <1>1, <2>1 DEF Only, Untouched, PermutationsTypeOK
  <2>5. \A e \in Execution : InPlace(e)'
    BY <2>2, <2>4, OnlyInPlace DEF InPlace
  <2>6. Kept'
    BY <1>1, <2>1, <2>2, <2>4, WorkingKept DEF Working
  <2> QED
    BY <1>1, <2>3, <2>5, <2>6, GivenFit DEF MappingInvariant
<1> QED
  BY <1>2, <1>3

(* After the commit the message is sent and the run completed, or not.     *)
LEMMA AfterStoreKeeps ==
  ASSUME NEW x \in Execution, MappingInvariant, UNCHANGED <<given, local, stored, served>>,
         \/ at[x] = "stored" /\ Goto(x, "sent") /\ UNCHANGED run
         \/ at[x] = "sent" /\ Goto(x, "done")
               /\ run' = IF run = "deleted" THEN run ELSE "completed"
         \/ at[x] = "stored" /\ Goto(x, "failed") /\ UNCHANGED run
  PROVE  MappingInvariant'
<1>1. /\ at[x] \in {"stored", "sent"} /\ PermutationsTypeOK /\ GroupsFit /\ Kept
      /\ UNCHANGED <<given, order, packed, perm, mask, left, stored, reading, answers>>
  BY DEF MappingInvariant, served, local
<1>2. PICK step \in {"sent", "done", "failed"} :
         at' = [at EXCEPT ![x] = step] /\ (step = "sent" => at[x] = "stored")
  BY DEF Goto
<1>3. /\ run' \in {"running", "completed", "deleted"}
      /\ run' # "deleted" <=> run # "deleted"
      /\ run' = "completed" => run = "completed" \/ (at[x] = "sent" /\ run # "deleted")
  BY <1>1 DEF PermutationsTypeOK
<1>4. at' \in [Execution -> {"waiting", "packing", "filling", "stored", "sent", "done", "failed"}]
      /\ at'[x] = step
  BY <1>1, <1>2 DEF PermutationsTypeOK
<1>5. PermutationsTypeOK'
  BY <1>1, <1>3, <1>4, TypesKept DEF PermutationsTypeOK
<1>6. Only(x)
  BY <1>1, <1>2 DEF Only, Untouched, PermutationsTypeOK
<1>7. \A e \in Execution : InPlace(e)'
  BY <1>4, <1>6, OnlyInPlace DEF InPlace
<1>8. \A e \in stored \cup UNION {answers[t] : t \in Reader} :
         at'[e] \in {"stored", "sent", "done", "failed"} /\ Whole(e)'
  <2> TAKE e \in stored \cup UNION {answers[t] : t \in Reader}
  <2>1. e \in Execution /\ Whole(e) /\ at[e] \in {"stored", "sent", "done", "failed"}
    BY <1>1 DEF PermutationsTypeOK, Kept
  <2>2. at'[e] \in {"stored", "sent", "done", "failed"}
    BY <1>4, <1>6, <2>1 DEF Only, Untouched
  <2>3. order'[e] = order[e] /\ perm'[e] = perm[e] /\ mask'[e] = mask[e]
    BY <1>1
  <2> QED
    BY <1>1, <2>1, <2>2, <2>3, UntouchedWhole
<1>9. \A e \in Execution : at'[e] \in {"stored", "sent"} /\ run # "deleted" => e \in stored
  BY <1>1, <1>2, <1>4, <1>6 DEF Only, Untouched, Kept
<1>10. run' = "completed" => stored # {}
  BY <1>1, <1>3 DEF Kept, CompletedIsStored
<1>11. Kept'
  BY <1>1, <1>3, <1>8, <1>9, <1>10 DEF Kept, CompletedIsStored
<1> QED
  BY <1>1, <1>5, <1>7, <1>11, GivenFit DEF MappingInvariant

(* A failure before the commit leaves nothing.                             *)
LEMMA FailKeeps ==
  ASSUME NEW x \in Execution, MappingInvariant, Fail(x)
  PROVE  MappingInvariant'
<1>1. CASE at[x] = "stored"
  BY <1>1, AfterStoreKeeps DEF Fail
<1>2. CASE at[x] \in {"packing", "filling"}
  <2>1. /\ PermutationsTypeOK /\ GroupsFit
        /\ UNCHANGED <<given, run, order, packed, perm, mask, left, stored, reading, answers>>
        /\ at' = [at EXCEPT ![x] = "failed"]
    BY DEF Fail, Goto, MappingInvariant, served, local
  <2>2. at' \in [Execution -> {"waiting", "packing", "filling", "stored", "sent", "done", "failed"}]
        /\ at'[x] = "failed"
    BY <2>1 DEF PermutationsTypeOK
  <2>3. PermutationsTypeOK'
    BY <2>1, <2>2, TypesKept DEF PermutationsTypeOK
  <2>4. Only(x)
    BY <2>1 DEF Only, Untouched, PermutationsTypeOK
  <2>5. \A e \in Execution : InPlace(e)'
    BY <2>2, <2>4, OnlyInPlace DEF InPlace
  <2>6. Kept'
    BY <1>2, <2>1, <2>2, <2>4, WorkingKept DEF Working
  <2> QED
    BY <2>1, <2>3, <2>5, <2>6, GivenFit DEF MappingInvariant
<1> QED
  BY <1>1, <1>2 DEF Fail

(* The views answer from what is stored, and take it away.                 *)
LEMMA ViewKeeps ==
  ASSUME MappingInvariant,
         DeleteRun \/ \E t \in Reader : FindCompleted(t) \/ GetResult(t)
  PROVE  MappingInvariant'
<1>1. /\ PermutationsTypeOK /\ GroupsFit /\ Kept
      /\ UNCHANGED <<given, at, order, packed, perm, mask, left>>
  BY DEF MappingInvariant, DeleteRun, FindCompleted, GetResult, served, local
<1>2. /\ run' \in {"running", "completed", "deleted"}
      /\ stored' \subseteq stored /\ reading' \subseteq Reader
      /\ answers' \in [Reader -> SUBSET Execution]
      /\ \A t \in Reader : answers'[t] \subseteq stored \cup answers[t]
      /\ run' = "deleted" \/ (run' = run /\ stored' = stored)
  <2>1. CASE DeleteRun
    BY <1>1, <2>1 DEF DeleteRun, served, PermutationsTypeOK
  <2>2. CASE \E t \in Reader : FindCompleted(t)
    BY <1>1, <2>2 DEF FindCompleted, PermutationsTypeOK
  <2>3. ASSUME NEW t \in Reader, GetResult(t)
        PROVE  /\ run' = run /\ stored' = stored /\ reading' \subseteq Reader
               /\ answers' \in [Reader -> SUBSET Execution]
               /\ \A u \in Reader : answers'[u] \subseteq stored \cup answers[u]
    <3>1. CASE answers' = answers
      BY <1>1, <2>3, <3>1 DEF GetResult, PermutationsTypeOK
    <3>2. ASSUME NEW e \in stored, answers' = [answers EXCEPT ![t] = answers[t] \cup {e}]
          PROVE  /\ answers' \in [Reader -> SUBSET Execution]
                 /\ \A u \in Reader : answers'[u] \subseteq stored \cup answers[u]
      BY <1>1, <3>2 DEF PermutationsTypeOK
    <3> QED
      BY <1>1, <2>3, <3>1, <3>2 DEF GetResult, PermutationsTypeOK
  <2> QED
    BY <1>1, <2>1, <2>2, <2>3 DEF PermutationsTypeOK
<1>3. PermutationsTypeOK'
  BY <1>1, <1>2, TypesKept DEF PermutationsTypeOK
<1>4. \A e \in Execution : Untouched(e)
  BY <1>1 DEF Untouched
<1>5. \A e \in Execution : InPlace(e)'
  BY <1>1, <1>4, UntouchedInPlace DEF MappingInvariant
<1>6. \A e \in stored' \cup UNION {answers'[t] : t \in Reader} :
         at'[e] \in {"stored", "sent", "done", "failed"} /\ Whole(e)'
  <2> TAKE e \in stored' \cup UNION {answers'[t] : t \in Reader}
  <2>1. e \in stored \cup UNION {answers[t] : t \in Reader}
    BY <1>2
  <2>2. e \in Execution /\ Whole(e) /\ at[e] \in {"stored", "sent", "done", "failed"}
    BY <1>1, <2>1 DEF PermutationsTypeOK, Kept
  <2> QED
    BY <1>1, <2>2, UntouchedWhole
<1>7. Kept'
  BY <1>1, <1>2, <1>6 DEF Kept, CompletedIsStored
<1> QED
  BY <1>1, <1>3, <1>5, <1>7, GivenFit DEF MappingInvariant

-------------------------------------------------------------------------------
(* The theorems.                                                           *)

(* MappingInvariant holds in every state.                                  *)
THEOREM MappingInvariantHolds == Spec => []MappingInvariant
<1>1. MappingInvariant /\ [Next]_vars => MappingInvariant'
  <2> SUFFICES ASSUME MappingInvariant, [Next]_vars PROVE MappingInvariant'
    OBVIOUS
  <2>1. CASE \E x \in Execution :
                \/ Begin(x) \/ PackGroup(x) \/ EndPacking(x) \/ FillRow(x)
                \/ Store(x) \/ SendCompletion(x) \/ Complete(x) \/ Fail(x)
    <3> PICK x \in Execution :
                \/ Begin(x) \/ PackGroup(x) \/ EndPacking(x) \/ FillRow(x)
                \/ Store(x) \/ SendCompletion(x) \/ Complete(x) \/ Fail(x)
      BY <2>1
    <3>1. CASE SendCompletion(x)
      BY <3>1, AfterStoreKeeps DEF SendCompletion
    <3>2. CASE Complete(x)
      BY <3>2, AfterStoreKeeps DEF Complete
    <3> QED
      BY <3>1, <3>2, BeginKeeps, PackGroupKeeps, EndPackingKeeps, FillRowKeeps, StoreKeeps, FailKeeps
  <2>2. CASE DeleteRun \/ \E t \in Reader : FindCompleted(t) \/ GetResult(t)
    BY <2>2, ViewKeeps
  <2>3. CASE UNCHANGED vars
    <3>1. /\ PermutationsTypeOK /\ GroupsFit /\ Kept
          /\ UNCHANGED <<given, run, at, order, packed, perm, mask, left, stored, reading, answers>>
      BY <2>3 DEF MappingInvariant, vars, given
    <3>2. PermutationsTypeOK'
      BY <3>1, TypesKept DEF PermutationsTypeOK
    <3>3. \A e \in Execution : InPlace(e)'
      BY <3>1, UntouchedInPlace DEF Untouched, MappingInvariant
    <3>4. \A e \in stored \cup UNION {answers[t] : t \in Reader} : Whole(e)'
      <4> TAKE e \in stored \cup UNION {answers[t] : t \in Reader}
      <4>1. e \in Execution /\ Whole(e)
        BY <3>1 DEF PermutationsTypeOK, Kept
      <4> QED
        BY <3>1, <4>1, UntouchedWhole
    <3>5. Kept'
      BY <3>1, <3>4 DEF Kept, CompletedIsStored
    <3> QED
      BY <3>1, <3>2, <3>3, <3>5, GivenFit DEF MappingInvariant
  <2> QED
    BY <2>1, <2>2, <2>3 DEF Next
<1> QED
  BY <1>1, InitHolds, PTL DEF Spec

(* Whatever the two sizes are, as many values remain as there are rows     *)
(* without an index: pop() never meets an empty list.                      *)
THEOREM UnmatchedRowsFitHolds == Spec => []UnmatchedRowsFit
<1>1. MappingInvariant => UnmatchedRowsFit
  BY DEF MappingInvariant, InPlace, Spare, UnmatchedRowsFit
<1> QED
  BY <1>1, MappingInvariantHolds, PTL

(* A whole execution lines up with itself.                                 *)
LEMMA WholeLinesUp ==
  ASSUME NEW e \in Execution, PermutationsTypeOK, GroupsFit, Whole(e)
  PROVE  LineUp(e, e, e) /\ \A s \in Side : Permutation(e, s)
<1>1. ASSUME NEW s \in Side
      PROVE  DOMAIN perm[e][s] = Row(s) /\ Permutation(e, s)
  <2>1. perm[e][s] \in UNION {[D -> Rows] : D \in SUBSET Rows}
    BY DEF PermutationsTypeOK, Placements
  <2>2. DOMAIN perm[e][s] = Row(s)
    BY DEF Whole, OneToOne, Unmapped
  <2>3. perm[e][s] \in [Row(s) -> Row(s)]
    BY <2>1, <2>2 DEF Whole, OneToOne
  <2> QED
    BY <2>2, <2>3 DEF Permutation, Whole, OneToOne
<1>2. DOMAIN groups = 1 .. Len(groups)
  BY DEF GroupsFit
<1>3. /\ "a" \in Side /\ "b" \in Side /\ Placed(e, Len(groups))
  BY DEF Side, Whole
<1>4. ASSUME NEW i \in Row("a"), NEW j \in Row("b"),
             perm[e]["a"][i] = perm[e]["b"][j], perm[e]["a"][i] \in mask[e]
      PROVE  \E k \in DOMAIN groups : groups[k]["a"] = i /\ groups[k]["b"] = j
  <2>1. PICK k \in 1 .. Len(groups) : perm[e]["a"][i] = order[e][k]
    BY <1>3, <1>4 DEF Placed
  <2>2. /\ perm[e]["a"][groups[k]["a"]] = order[e][k] /\ groups[k]["a"] \in Row("a")
        /\ perm[e]["b"][groups[k]["b"]] = order[e][k] /\ groups[k]["b"] \in Row("b")
    BY <1>3, GroupRows DEF Placed
  <2>3. groups[k]["a"] = i /\ groups[k]["b"] = j
    BY <1>1, <1>3, <1>4, <2>1, <2>2 DEF Permutation
  <2> QED
    BY <1>2, <2>3
<1>5. ASSUME NEW k \in DOMAIN groups
      PROVE  /\ perm[e]["a"][groups[k]["a"]] = perm[e]["b"][groups[k]["b"]]
             /\ perm[e]["a"][groups[k]["a"]] \in mask[e]
  BY <1>2, <1>3 DEF Placed
<1> QED
  BY <1>1, <1>4, <1>5 DEF LineUp

(* What is stored or was answered are permutations of all rows of both     *)
(* data sets; matched rows, and only these, meet where the mask says.      *)
THEOREM StoredLineUpHolds == Spec => []StoredLineUp
<1>1. MappingInvariant => StoredLineUp
  <2> SUFFICES ASSUME MappingInvariant,
                      NEW e \in stored \cup UNION {answers[t] : t \in Reader}
               PROVE  LineUp(e, e, e) /\ \A s \in Side : Permutation(e, s)
    BY DEF StoredLineUp
  <2>1. PermutationsTypeOK /\ GroupsFit /\ Kept
    BY DEF MappingInvariant
  <2>2. e \in Execution /\ Whole(e)
    BY <2>1 DEF PermutationsTypeOK, Kept
  <2> QED
    BY <2>1, <2>2, WholeLinesUp
<1> QED
  BY <1>1, MappingInvariantHolds, PTL

(* A completed run has its rows.                                           *)
THEOREM CompletedIsStoredHolds == Spec => []CompletedIsStored
<1>1. MappingInvariant => CompletedIsStored
  BY DEF MappingInvariant, Kept
<1> QED
  BY <1>1, MappingInvariantHolds, PTL

(* Type correctness.                                                       *)
THEOREM PermutationsTypeCorrect == Spec => []PermutationsTypeOK
<1>1. MappingInvariant => PermutationsTypeOK
  BY DEF MappingInvariant
<1> QED
  BY <1>1, MappingInvariantHolds, PTL
===============================================================================
